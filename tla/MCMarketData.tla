---------------------------- MODULE MCMarketData ----------------------------
(***************************************************************************)
(* Tables around the ends of February 2028, a leap year, and of August:    *)
(* month 24336 is 2028-01. All tables of up to four rows from a pool with  *)
(* repeated, incomplete, undated, impossible and very old rows, and one    *)
(* table under each way of naming columns.                                 *)
(***************************************************************************)
EXTENDS MarketData

Columns == <<"Open", "High", "Low", "Close", "Volume">>

Bar(low, high, close) ==
    ("Open" :> low) @@ ("High" :> high) @@ ("Low" :> low) @@ ("Close" :> close) @@ ("Volume" :> 1)

Row(month, day, bar) == [at |-> <<month, day>>, bar |-> bar]

Plain == Bar(1, 2, 2)
Gap   == Bar(1, 2, NaN)

Pool ==
    {Row(24337, 28, Plain), Row(24337, 29, Plain), Row(24338, 1, Plain),
     Row(24343, 31, Plain), Row(24343, 31, Bar(2, 3, 2)), Row(24343, 31, Gap),
     Row(24343, 30, Plain), Row(24344, 1, Plain)}
Odd ==
    {Row(24300, 3, Plain), Row(24338, 1, Bar(1, 2, 3)), [at |-> NaT, bar |-> Plain]}

RowsUpTo(S, n) == UNION {[1..m -> S] : m \in 0..n}

Tables == RowsUpTo(Pool, 4) \cup {<<odd>> \o t : odd \in Odd, t \in RowsUpTo(Pool, 3)}

MCSpellings == ("open" :> "Open") @@ (" CLOSE " :> "Close")

Headers ==
    {<<Columns>>, <<<<"open", "High", "Low", " CLOSE ", "Volume">>>>, <<Columns, <<"T", "T", "T", "T", "T">>>>,
     <<Columns, Columns>>, <<Columns \o <<"open">>>>, <<Tail(Columns)>>}

Good == <<Row(24337, 28, Plain), Row(24338, 1, Plain), Row(24343, 31, Plain)>>

MCFrames ==
    {[levels |-> <<Columns>>, rows |-> t] : t \in Tables} \cup {[levels |-> h, rows |-> Good] : h \in Headers}

MCDays == {<<24343, 31>>, <<24344, 1>>, <<24344, 2>>}
=============================================================================
