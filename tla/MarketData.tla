----------------------------- MODULE MarketData -----------------------------
(***************************************************************************)
(* Daily prices from Yahoo to the held-out test period, and the trusted    *)
(* backtest built on them: backend/app/market/yahoo_provider.py,           *)
(* ohlcv_cleaner.py, data_split.py, backend/app/services/                  *)
(* backtest_service.py with backend/app/backtest/ and the route            *)
(* backend/app/api/backtest_routes.py. StrategyLabService uses the same    *)
(* download, cleaning and split (_prepare_market_data).                    *)
(* A date is <<month, day>> with months counted from year 0 (2026-01 is    *)
(* 24312): the time of day of a daily bar is midnight and its zone is      *)
(* dropped. Requests follow one another while days pass.                   *)
(***************************************************************************)
EXTENDS Integers, Sequences, FiniteSets, SequencesExt, TLC

CONSTANTS
    Spellings,        \* other spellings of a required column, with its name
    Frames,           \* tables Yahoo can hold: [levels, rows]
    Days,             \* dates on which requests arrive
    Metrics,          \* numeric statistics of a backtest, besides its trades
    MinimumTestBars,  \* MINIMUM_TEST_BARS
    NaT,              \* an index value that is no date
    NaN               \* a value that is missing, infinite or no number

ASSUME MarketAssumption == MinimumTestBars \in Nat \ {0}

\* The rows of a table at some of its places, each at the number of places
\* not after it.
Listed(rows, upto) ==
    [k \in 1..Cardinality(DOMAIN upto) |->
        rows[CHOOSE i \in DOMAIN upto : Cardinality(upto[i]) = k]]

\* A boolean mask: the rows at the places kept, in the order they have.
Masked(rows, kept) == Listed(rows, [i \in kept |-> {j \in kept : j <= i}])

-----------------------------------------------------------------------------
(* The calendar.                                                           *)

MonthLength(month) ==
    LET year == month \div 12
        leap == year % 4 = 0 /\ (year % 100 # 0 \/ year % 400 = 0)
    IN CASE month % 12 = 1 -> IF leap THEN 29 ELSE 28
         [] month % 12 \in {3, 5, 8, 10} -> 30
         [] OTHER -> 31

IsDate(date) == date[2] \in 1..MonthLength(date[1])

Dates == {date \in Int \X Int : IsDate(date)}

ASSUME DaysAssumption == Days \subseteq Dates

Before(a, b) == a[1] < b[1] \/ (a[1] = b[1] /\ a[2] < b[2])

MinusMonths_Unclamped(date, n) == <<date[1] - n, date[2]>>           \* mutant

MinusMonths_Overflow(date, n) ==                                     \* mutant
    LET length == MonthLength(date[1] - n)
    IN IF date[2] <= length THEN <<date[1] - n, date[2]>>
                            ELSE <<date[1] - n + 1, date[2] - length>>

\* Subtracting a pandas DateOffset: the last day of a month shorter than
\* the date's.
MinusMonths(date, n) ==
    LET length == MonthLength(date[1] - n)
    IN <<date[1] - n, IF date[2] <= length THEN date[2] ELSE length>>

Cutoff(latest) == MinusMonths(latest, 6)

-----------------------------------------------------------------------------
(* clean_ohlcv. A frame has one level of column names, or several in a     *)
(* MultiIndex, and rows [at, bar] in the order received. A bar gives each  *)
(* column a number or NaN.                                                 *)

REQUIRED_OHLCV_COLUMNS == {"Open", "High", "Low", "Close", "Volume"}

RawRows == [at : Dates \cup {NaT}, bar : [REQUIRED_OHLCV_COLUMNS -> Int \cup {NaN}]]

ASSUME FramesAssumption == Frames \subseteq [levels : Seq(Seq(STRING)), rows : Seq(RawRows)]

\* _canonical_name: surrounding blanks and letter case do not matter.
CanonicalName(label) == IF label \in DOMAIN Spellings THEN Spellings[label] ELSE label

Occurrences(level, column) ==
    Cardinality({i \in DOMAIN level : CanonicalName(level[i]) = column})

\* Exactly one level holds the five names, and it holds each once.
ColumnsAreClear(levels) ==
    LET candidates == {n \in DOMAIN levels : \A c \in REQUIRED_OHLCV_COLUMNS : Occurrences(levels[n], c) > 0}
    IN /\ Cardinality(candidates) = 1
       /\ \A n \in candidates, c \in REQUIRED_OHLCV_COLUMNS : Occurrences(levels[n], c) = 1

IsComplete(row) == \A c \in REQUIRED_OHLCV_COLUMNS : row.bar[c] # NaN

DropUndated(rows)    == Masked(rows, {i \in DOMAIN rows : rows[i].at # NaT})
DropIncomplete(rows) == Masked(rows, {i \in DOMAIN rows : IsComplete(rows[i])})

\* ~index.duplicated(keep="last")
KeepLast(rows) ==
    Masked(rows, {i \in DOMAIN rows : \A j \in DOMAIN rows : rows[j].at = rows[i].at => j <= i})

\* sort_index with a merge sort: rows of one date stay in order.
SortIndex(rows) ==
    Listed(rows, [i \in DOMAIN rows |->
        {j \in DOMAIN rows : \/ Before(rows[j].at, rows[i].at)
                             \/ rows[j].at = rows[i].at /\ j <= i}])

CleanRows_DropLate(rows) ==                                          \* mutant
    SortIndex(DropIncomplete(KeepLast(DropUndated(rows))))

CleanRows_Unsorted(rows) ==                                          \* mutant
    KeepLast(DropIncomplete(DropUndated(rows)))

CleanRows(rows) == SortIndex(KeepLast(DropIncomplete(DropUndated(rows))))

\* _validate_price_structure, for one bar.
IsPossible(bar) ==
    /\ \A c \in REQUIRED_OHLCV_COLUMNS \ {"Volume"} :
          bar[c] > 0 /\ bar["Low"] <= bar[c] /\ bar[c] <= bar["High"]
    /\ bar["Volume"] >= 0

Accepts(frame) ==
    /\ frame.rows # <<>>
    /\ ColumnsAreClear(frame.levels)
    /\ CleanRows(frame.rows) # <<>>
    /\ \A i \in DOMAIN CleanRows(frame.rows) : IsPossible(CleanRows(frame.rows)[i].bar)

-----------------------------------------------------------------------------
(* split_market_data.                                                      *)

Latest(rows) == CHOOSE d \in {rows[i].at : i \in DOMAIN rows} :
                   \A i \in DOMAIN rows : ~Before(d, rows[i].at)

History(rows) == Masked(rows, {i \in DOMAIN rows : Before(rows[i].at, Cutoff(Latest(rows)))})

HeldOut_AfterCutoff(rows) ==                                         \* mutant
    Masked(rows, {i \in DOMAIN rows : Before(Cutoff(Latest(rows)), rows[i].at)})

HeldOut(rows) == Masked(rows, {i \in DOMAIN rows : ~Before(rows[i].at, Cutoff(Latest(rows)))})

IsChronological(rows) ==
    \A i, j \in DOMAIN rows : i < j => Before(rows[i].at, rows[j].at)

SplitOutcome_HistoryOnly(rows) ==                                    \* mutant
    IF rows = <<>> \/ ~IsChronological(rows) THEN "InvalidMarketDataError"
    ELSE IF History(rows) = <<>> THEN "InsufficientMarketDataError"
    ELSE "ok"

SplitOutcome(rows) ==
    IF rows = <<>> \/ ~IsChronological(rows) THEN "InvalidMarketDataError"
    ELSE IF History(rows) = <<>> \/ Len(HeldOut(rows)) < MinimumTestBars
         THEN "InsufficientMarketDataError"
    ELSE IF \E h \in Range(History(rows)), t \in Range(HeldOut(rows)) : h.at = t.at
         THEN "InvalidMarketDataError"
    ELSE "ok"

-----------------------------------------------------------------------------
(* extract_backtest_metrics: statistics give each key a number, NaN,       *)
(* "missing" or "unreadable".                                              *)

\* A metric is null for NaN; a missing key, an unreadable value or a trade
\* count that is NaN or negative is an error of the engine.
MetricsAreReadable(stats) ==
    /\ \A key \in Metrics : stats[key] \notin {"missing", "unreadable"}
    /\ stats["# Trades"] \notin {"missing", "unreadable", NaN, "negative"}

StatValues == {"number", NaN, "missing", "unreadable"}
Stats == {("# Trades" :> t) @@ m : t \in StatValues \cup {"negative"}, m \in [Metrics -> StatValues]}

\* run_bist_backtest of the route.
HttpStatus(outcome) ==
    CASE outcome = "ok" -> 200
      [] outcome \in {"UnsupportedBistSymbolError", "InsufficientMarketDataError"} -> 422
      [] outcome \in {"MarketDataUnavailableError", "InvalidMarketDataError"} -> 502
      [] outcome = "BacktestExecutionError" -> 500

-----------------------------------------------------------------------------
VARIABLES
    today,   \* the date in Istanbul
    pc,      \* "idle", "downloading", "preparing", "testing", "answered"
    frame,   \* what Yahoo returned
    rows,    \* clean_data
    response,
    held     \* history: latest date and cutoff of the newest split

vars == <<today, pc, frame, rows, response, held>>

NoFrame == [levels |-> <<>>, rows |-> <<>>]
NoAnswer == [status |-> 0, error |-> "none"]

Init ==
    /\ today \in Days
    /\ pc = "idle"
    /\ frame = NoFrame
    /\ rows = <<>>
    /\ response = NoAnswer
    /\ held = <<>>

Answer(outcome) ==
    /\ response' = [status |-> HttpStatus(outcome), error |-> outcome]
    /\ pc' = "answered"

NewDay ==
    /\ pc \in {"idle", "answered"}
    /\ today' \in {d \in Days : Before(today, d)}
    /\ pc' = "idle"
    /\ frame' = NoFrame /\ rows' = <<>> /\ response' = NoAnswer
    /\ UNCHANGED held

\* The symbol is checked before anything is downloaded.
Request ==
    /\ pc = "idle"
    /\ \/ pc' = "downloading" /\ UNCHANGED response
       \/ Answer("UnsupportedBistSymbolError")
    /\ UNCHANGED <<today, frame, rows, held>>

EndDate_Inclusive(date) == <<date[1], date[2] + 1>>                  \* mutant

\* The window asked for: three years up to the end, which is not included.
EndDate(date) == date
StartDate(date) == MinusMonths(date, 36)

\* Yahoo returns its rows of the window; undated rows come with them.
InWindow(all) ==
    [all EXCEPT !.rows = Masked(@, {i \in DOMAIN @ :
        \/ @[i].at = NaT
        \/ ~Before(@[i].at, StartDate(today)) /\ Before(@[i].at, EndDate(today))})]

Download ==
    /\ pc = "downloading"
    /\ \/ \E all \in Frames :
             /\ frame' = InWindow(all)
             /\ IF InWindow(all).rows = <<>>
                THEN Answer("MarketDataUnavailableError")
                ELSE pc' = "preparing" /\ UNCHANGED response
       \/ Answer("MarketDataUnavailableError") /\ UNCHANGED frame
    /\ UNCHANGED <<today, rows, held>>

\* clean_ohlcv and split_market_data.
Prepare ==
    /\ pc = "preparing"
    /\ IF ~Accepts(frame)
       THEN Answer("InvalidMarketDataError") /\ UNCHANGED <<rows, held>>
       ELSE /\ rows' = CleanRows(frame.rows)
            /\ IF SplitOutcome(rows') = "ok"
               THEN /\ pc' = "testing"
                    /\ held' = <<Latest(rows'), Cutoff(Latest(rows'))>>
                    /\ UNCHANGED response
               ELSE Answer(SplitOutcome(rows')) /\ UNCHANGED held
    /\ UNCHANGED <<today, frame>>

\* run_backtest on the held-out bars, then the metrics.
Test ==
    /\ pc = "testing"
    /\ \/ Answer("BacktestExecutionError")
       \/ \E stats \in Stats :
             Answer(IF MetricsAreReadable(stats) THEN "ok" ELSE "BacktestExecutionError")
    /\ UNCHANGED <<today, frame, rows, held>>

Next == NewDay \/ Request \/ Download \/ Prepare \/ Test

Spec == Init /\ [][Next]_vars

-----------------------------------------------------------------------------
(* Properties.                                                             *)

Prepared == pc = "testing" \/ response.error \in {"ok", "BacktestExecutionError"}

\* A split is made of real dates of the calendar.
TypeOK ==
    /\ today \in Days
    /\ pc \in {"idle", "downloading", "preparing", "testing", "answered"}
    /\ (pc = "answered") = (response.status \in {200, 422, 500, 502})
    /\ held # <<>> => IsDate(held[1]) /\ IsDate(held[2])

\* Of each day the clean table has one bar, the last one received that is
\* complete, and it has no other bar (clean_ohlcv, lines 94-114, and
\* test_numeric_conversion_sorting_duplicate_and_missing_cleanup): an
\* incomplete correction does not cost the day its bar.
LastCompleteBarKept ==
    rows # <<>> =>
        LET n == DOMAIN frame.rows
            usable == {i \in n : frame.rows[i].at # NaT /\ IsComplete(frame.rows[i])}
            wanted == {i \in usable : \A j \in usable : frame.rows[j].at = frame.rows[i].at => j <= i}
        IN /\ Range(rows) = {frame.rows[i] : i \in wanted}
           /\ Len(rows) = Cardinality(wanted)

\* History and held-out bars are the clean table, cut once: no bar is lost,
\* in both parts or out of order, the held-out part has the bars it needs
\* and reaches to the latest (split_market_data, lines 21-48).
SplitIsExact ==
    Prepared =>
        /\ History(rows) \o HeldOut(rows) = rows
        /\ History(rows) # <<>>
        /\ Len(HeldOut(rows)) >= MinimumTestBars
        /\ Last(rows).at = Latest(rows)

\* What the cleaner accepts the splitter does not call invalid: the
\* postcondition of clean_ohlcv (lines 106-114) is the precondition of
\* split_market_data (lines 26-32).
CleanerMeetsSplitter ==
    response.error = "InvalidMarketDataError" => ~Accepts(frame)

\* The bar of the current day, still being traded, is in no table
\* (yahoo_provider.py:35-43: the end date is excluded).
NoUnfinishedBar == \A i \in DOMAIN rows : Before(rows[i].at, today)

\* From one request to a later one, if the latest bar does not go back,
\* neither does the cutoff: a day that was history never becomes test data
\* again (data_split.py:34-37).
HeldOutMovesForward ==
    [][(held # <<>> /\ ~Before(held'[1], held[1])) => ~Before(held'[2], held[2])]_held
=============================================================================
