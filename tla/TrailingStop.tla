---------------------------- MODULE TrailingStop ----------------------------
(***************************************************************************)
(* A strategy is judged against the trailing stop its prompt asks for      *)
(* (analyze_contract of backend/app/validators/strategy_contract.py), and  *)
(* one that passes runs bar by bar.  What the proof of a stop reads and    *)
(* what next() does with a stop are given: TrailingContract has the proof, *)
(* StrategyLanguage runs the program.                                      *)
(***************************************************************************)
EXTENDS StrategyNumbers, ApiVisitor, FiniteSets

CONSTANTS
    Programs,         \* the strategies a model may return; .rest lists the class's other statements
    Prompts,          \* [trailing, percentages] as parse_requirements finds them
    Prices,           \* prices of entries and highs
    MaxBars,          \* bound on the bars of one run
    Proven(_, _),     \* whether a program is proved to keep a stop at a fraction
    IsLoaded(_),      \* whether its module and class run without an exception
    StopAfter(_, _, _, _, _, _)  \* the stop after one call of next(), or Raised

ASSUME BarsAssumption == MaxBars \in Nat \ {0}

ASSUME PricesAssumption == Prices \subseteq Nat \ {0}

FractionOf_AnyOfSeveral(prompt) ==                                   \* mutant
    IF prompt.percentages # {} /\ prompt.percentages \subseteq 1..(Scale - 1)
    THEN CHOOSE p \in prompt.percentages : TRUE
    ELSE None

\* parse_requirements: the fraction of a trailing stop, or None.
FractionOf(prompt) ==
    IF Cardinality(prompt.percentages) = 1 /\ prompt.percentages \subseteq 1..(Scale - 1)
    THEN CHOOSE p \in prompt.percentages : TRUE
    ELSE None

-----------------------------------------------------------------------------
VARIABLES
    program, prompt,  \* the request's newest version and its prompt
    phase,            \* "received", "rejected", "accepted", "failed"
    open, sl, entry,  \* the open trade
    highs,            \* High of the bars next() has seen
    first             \* history: the bar at which next() first saw the trade

request == <<program, prompt>>
market  == <<open, sl, entry, highs, first>>
vars    == <<request, phase, market, apiVars>>

Init ==
    /\ program \in Programs
    /\ prompt \in Prompts
    /\ phase = "received"
    /\ open = FALSE
    /\ sl = None
    /\ entry = 0
    /\ highs = <<>>
    /\ first = 0
    /\ code = program.rest
    /\ VisitBegins

Percent == FractionOf(prompt)

\* visitor.visit(tree), one statement after another.
Visiting ==
    /\ phase = "received" /\ Visit
    /\ UNCHANGED <<request, phase, market>>

\* The rest of analyze_contract; a strategy without a finding is loaded and
\* runs.
AnalyzeContract ==
    /\ phase = "received" /\ Visited
    /\ IF \/ prompt.trailing /\ (Percent = None \/ ~Proven(program, Percent))
          \/ findings # {}
       THEN phase' = "rejected"
       ELSE phase' = IF IsLoaded(program) THEN "accepted" ELSE "failed"
    /\ UNCHANGED <<request, market, apiVars>>

Running ==
    /\ phase = "accepted" /\ RunStatement
    /\ UNCHANGED <<request, phase, market>>

OpenTrade ==
    /\ phase = "accepted" /\ ~open
    /\ entry' \in Prices
    /\ open' = TRUE
    /\ sl' = None
    /\ first' = Len(highs) + 1
    /\ UNCHANGED <<request, phase, highs, apiVars>>

\* The broker or the strategy's own exit closes the trade.
CloseTrade ==
    /\ phase = "accepted" /\ open
    /\ open' = FALSE
    /\ sl' = None
    /\ entry' = 0
    /\ first' = 0
    /\ UNCHANGED <<request, phase, highs, apiVars>>

Bar ==
    /\ phase = "accepted" /\ Len(highs) < MaxBars
    /\ \E high \in Prices, taken \in BOOLEAN :
          /\ highs' = Append(highs, high)
          /\ LET stop == StopAfter(program, open, sl, entry, highs', taken)
             IN IF stop = Raised
                THEN phase' = "failed" /\ UNCHANGED sl
                ELSE sl' = stop /\ UNCHANGED phase
    /\ UNCHANGED <<request, open, entry, first, apiVars>>

Next == Visiting \/ AnalyzeContract \/ Running \/ OpenTrade \/ CloseTrade \/ Bar

Spec == Init /\ [][Next]_vars

-----------------------------------------------------------------------------
(* What a proof of a stop promises about one bar: an open trade's stop,    *)
(* or the entry's if it has none, is raised to the last high's.            *)

Below(price, p) == (price * (Scale - p)) \div Scale

Kept(stop, price, p) == IF stop \in {None, 0} THEN Below(price, p) ELSE stop

\* The two stops a bar with the proven program may raise a stop to.
Candidates(stop, price, series, p) ==
    {Kept(stop, price, p), Below(series[Len(series)], p)}

SetsStop(q, p, stops, allSeries) ==
    \A stop \in stops, price \in Prices, series \in allSeries, taken \in BOOLEAN :
        StopAfter(q, TRUE, stop, price, series, taken) \in
            {Raised, Greatest(Candidates(stop, price, series, p))}

\* What a proof of the stop a prompt asks for is trusted to mean.
ProofsSetStops(stops, allSeries) ==
    \A q \in Programs, c \in Prompts :
        FractionOf(c) # None /\ Proven(q, FractionOf(c)) => SetsStop(q, FractionOf(c), stops, allSeries)

-----------------------------------------------------------------------------
(* Properties.                                                             *)

\* A strategy accepted for a prompt that asks for a trailing stop keeps,
\* from the first bar that sees a trade to its last, the stop at the asked
\* distance below the highest of the entry price and the highs since
\* (trailing_proven, lines 252-339; the contract in prompt_builder.py:35-39).
\* No stop is right for two percentages, so such a prompt accepts nothing.
StopIsRequested ==
    (phase = "accepted" /\ prompt.trailing /\ open /\ first <= Len(highs)) =>
        LET peak == Greatest({entry} \cup {highs[i] : i \in first..Len(highs)})
        IN \A p \in prompt.percentages : sl = (peak * (Scale - p)) \div Scale
=============================================================================
