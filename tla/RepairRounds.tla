---------------------------- MODULE RepairRounds ----------------------------
(***************************************************************************)
(* The versions of one strategy: what the static validators say of each    *)
(* (app/validators/, validation_service.py), what the model is told of it  *)
(* (app/llm/repair_context.py, prompt_builder.py), and what it sends back, *)
(* on the clock of Deployment. A source is what the validators read of it; *)
(* a finding is a category and what was found. The order of findings only  *)
(* decides which ones the limit of a context cuts off.                     *)
(***************************************************************************)
EXTENDS Deployment, FiniteSets, FiniteSetsExt

CONSTANTS
    Sources,      \* first versions
    Relapses,     \* what the model may send instead of a repair
    MaxFindings,  \* findings in one context: 10
    Identifiers,  \* names of bases and methods
    None

ASSUME FindingsAssumption == MaxFindings \in Nat \ {0}

\* What the validators read of a source: a finite text holds finitely many
\* imports, calls and misuses.
Classes == [bases : SUBSET Identifiers, methods : SUBSET Identifiers]

IsSource(s) ==
    /\ DOMAIN s = {"fence", "parses", "imports", "forbidden", "class", "shifts", "misuses", "trails", "breaks"}
    /\ s.parses \in BOOLEAN /\ s.trails \in BOOLEAN
    /\ IsFiniteSet(s.imports) /\ IsFiniteSet(s.forbidden) /\ IsFiniteSet(s.misuses)
    /\ s.class \in Classes \cup {None}

ASSUME IdentifiersAssumption == {"Strategy", "init", "next"} \subseteq Identifiers
ASSUME NoneAssumption == None \notin {"position_management", "pretest"} \cup Classes
ASSUME SourcesAssumption == \A s \in Sources : IsSource(s)

Prompts == {"plain", "percentage", "unclear"}  \* "unclear": a trailing stop without one percentage

VARIABLES
    prompt,    \* what the user asked
    source,    \* this version, from the start of its generation
    context,   \* what the model was told for it
    ending,    \* how the run ended, or None
    draft,     \* history: the first version
    obedient   \* history: the model did what it was told, and no more

rounds == <<prompt, source, context, ending, draft, obedient>>

-----------------------------------------------------------------------------
(* Static validation.                                                      *)

ALLOWED_IMPORT_ROOTS == {"backtesting", "ta", "pandas", "numpy"}

\* One fence around all of the code; any other stays.
CleanCode(s) == IF s.fence = "whole" THEN [s EXCEPT !.fence = "none"] ELSE s

Parses(s) == s.parses /\ s.fence = "none"

ImportErrors(s) == {<<"import", root>> : root \in s.imports \ ALLOWED_IMPORT_ROOTS}

\* SecurityBindings!Reports.
SecurityErrors(s) == {<<"security", call>> : call \in s.forbidden}

InterfaceErrors(s) ==
    IF s.class = None THEN {<<"interface", "class">>}
    ELSE {<<"interface", m>> : m \in {"init", "next"} \ s.class.methods}
         \cup (IF s.class.bases \cap {"Strategy", "backtesting.Strategy"} = {}
               THEN {<<"interface", "base">>} ELSE {})

LookaheadErrors(s) == IF \E period \in s.shifts : period < 0 THEN {<<"lookahead", "shift">>} ELSE {}

\* What is wrong with the request comes first, and without a tree alone.
ContractFindings(s, p) ==
    (IF p = "unclear" THEN {<<"contract", "invalid_trailing_percentage">>} ELSE {})
    \cup (IF Parses(s) THEN {<<"contract", code>> : code \in s.misuses} ELSE {})
    \cup (IF Parses(s) /\ p = "percentage" /\ ~s.trails
          THEN {<<"contract", "invalid_trailing_implementation">>} ELSE {})

Response(s, interface) ==
    [syntax    |-> Parses(s),
     imports   |-> Parses(s) /\ ImportErrors(s) = {},
     security  |-> Parses(s) /\ SecurityErrors(s) = {},
     interface |-> Parses(s) /\ interface = {},
     lookahead |-> Parses(s) /\ LookaheadErrors(s) = {},
     errors    |-> IF Parses(s) THEN ImportErrors(s) \cup SecurityErrors(s) \cup interface \cup LookaheadErrors(s)
                   ELSE {<<"syntax", "invalid">>}]

Validate_WithoutContract(s, findings) == Response(s, InterfaceErrors(s))  \* mutant

Validate(s, findings) == Response(s, InterfaceErrors(s) \cup findings)

IsValid(v) == v.syntax /\ v.imports /\ v.security /\ v.interface /\ v.lookahead

Code     == CleanCode(source)
Findings == ContractFindings(Code, prompt)
Verdict  == Validate(Code, Findings)

-----------------------------------------------------------------------------
(* The repair context.                                                     *)

StaticFailureType(v) ==
    IF ~v.syntax THEN {"SyntaxValidationError"}
    ELSE (IF v.imports THEN {} ELSE {"ImportValidationError"})
         \cup (IF v.security THEN {} ELSE {"SecurityValidationError"})
         \cup (IF v.interface THEN {} ELSE {"InterfaceValidationError"})
         \cup (IF v.lookahead THEN {} ELSE {"LookaheadValidationError"})

Told_One(findings) == {{f} : f \in findings}                         \* mutant

\* As many findings as a context holds; which, the order of the walk says.
Told(findings) ==
    IF Cardinality(findings) <= MaxFindings THEN {findings} ELSE kSubset(MaxFindings, findings)

Context(in, type, family, findings) ==
    {[stage |-> in, type |-> type, family |-> family, findings |-> told] : told \in Told(findings)}

\* Findings of the contract replace everything else that was found.
BuildRepairContext(in, type, findings, runtime, contract) ==
    CASE contract # {} -> Context(in, type, "position_management", contract)
      [] contract = {} /\ runtime = "position_management" ->
            Context(in, type, "position_management", {<<"smoke", "invalid attribute">>})
      [] contract = {} /\ in = "smoke" /\ runtime = None ->
            Context(in, type, "unknown", {<<"smoke", "failed">>})
      [] OTHER -> Context(in, type, "indicator_adapter", findings)

StaticContexts == BuildRepairContext("static", StaticFailureType(Verdict), Verdict.errors, None, Findings)

SmokeContexts ==
    BuildRepairContext("smoke", {source.breaks.code}, {<<"smoke", source.breaks.code>>}, source.breaks.family, {})

-----------------------------------------------------------------------------
(* The language model. A repaired source lacks what its context named; no  *)
(* source makes an unclear request clear.                                  *)

Named(told, category) == {f[2] : f \in {g \in told : g[1] = category}}

Repaired(s, told) ==
    LET missing == Named(told, "interface")
    IN [s EXCEPT
        !.fence     = IF Named(told, "syntax") # {} THEN "none" ELSE @,
        !.parses    = @ \/ Named(told, "syntax") # {},
        !.imports   = @ \ Named(told, "import"),
        !.forbidden = @ \ Named(told, "security"),
        !.class     = IF "class" \in missing THEN [bases |-> {"Strategy"}, methods |-> {"init", "next"}]
                      ELSE IF @ = None THEN @
                      ELSE [bases   |-> @.bases \cup (IF "base" \in missing THEN {"Strategy"} ELSE {}),
                            methods |-> @.methods \cup (missing \ {"base"})],
        !.shifts    = IF Named(told, "lookahead") # {} THEN {} ELSE @,
        !.misuses   = @ \ Named(told, "contract"),
        !.trails    = @ \/ "invalid_trailing_implementation" \in Named(told, "contract"),
        !.breaks    = IF Named(told, "smoke") # {} THEN None ELSE @]

\* The next version, made from the context it is asked with.
Rewrite(contexts) ==
    /\ context' \in contexts
    /\ \/ source' = Repaired(Code, context'.findings) /\ obedient' = obedient
       \/ source' \in Relapses \cup {source} /\ obedient' = FALSE
    /\ UNCHANGED <<prompt, ending, draft>>

-----------------------------------------------------------------------------
RoundsInit ==
    /\ Init
    /\ prompt \in Prompts /\ source \in Sources
    /\ context = None /\ ending = None
    /\ draft = source /\ obedient = TRUE

RepairStatic ==
    /\ stage = "generate" /\ ~IsValid(Verdict)
    /\ Repair
    /\ Rewrite(StaticContexts)

\* What was validated is the cleaned code, and that is what runs.
Accept ==
    /\ stage = "generate" /\ IsValid(Verdict)
    /\ Advance
    /\ source' = Code
    /\ UNCHANGED <<prompt, context, ending, draft, obedient>>

RepairSmoke ==
    /\ stage = "smoke" /\ source.breaks # None
    /\ Repair
    /\ Rewrite(SmokeContexts)

Freeze == stage = "smoke" /\ source.breaks = None /\ Advance /\ UNCHANGED rounds

Load == stage = "market" /\ Advance /\ UNCHANGED rounds

End(how) ==
    /\ Finish
    /\ ending' = how
    /\ UNCHANGED <<prompt, source, context, draft, obedient>>

PretestError ==
    /\ \/ stage = "generate" /\ ~IsValid(Verdict)
       \/ stage = "smoke" /\ source.breaks # None
    /\ ~MayRepair
    /\ End("pretest")

Scored == stage = "backtest" /\ End("scored")

\* The provider, the sandbox, the market or the held-out run fails.
Failed == End("failed")

Outside == (GiveUp \/ Tick) /\ UNCHANGED rounds

RoundsNext ==
    \/ RepairStatic \/ Accept \/ RepairSmoke \/ Freeze \/ Load
    \/ PretestError \/ Scored \/ Failed \/ Outside

RoundsSpec == RoundsInit /\ [][RoundsNext]_<<vars, rounds>>

-----------------------------------------------------------------------------
(* Properties.                                                             *)

\* Nothing a validator or the contract forbids.
Clean(s, p) ==
    /\ s.parses /\ s.fence = "none"
    /\ s.imports \subseteq ALLOWED_IMPORT_ROOTS
    /\ s.forbidden = {} /\ s.misuses = {}
    /\ s.class # None
    /\ {"init", "next"} \subseteq s.class.methods
    /\ "Strategy" \in s.class.bases \/ "backtesting.Strategy" \in s.class.bases
    /\ \A period \in s.shifts : ~(period < 0)
    /\ p # "unclear"
    /\ p = "percentage" => s.trails

\* However often the model rewrites the strategy, the version that runs is
\* clean as it stands, and one that meets the held-out data also survived
\* the smoke run (strategy_lab_service.py:92-183).
OnlyCleanCodeRuns ==
    /\ stage \in {"smoke", "market", "backtest"} => Clean(source, prompt)
    /\ stage \in {"market", "backtest"} => source.breaks = None

Rounds(n) == (n + MaxFindings - 1) \div MaxFindings

\* Faults come to light in layers: syntax, the contract, the validators, the
\* smoke run; a context names at most MaxFindings of a layer.
Layers(s, p) ==
    LET tree == [CleanCode(s) EXCEPT !.parses = TRUE, !.fence = "none"]
    IN (IF Parses(CleanCode(s)) THEN 0 ELSE 1)
       + Rounds(Cardinality(ContractFindings(tree, p)))
       + Rounds(Cardinality(Validate(tree, {}).errors))
       + (IF s.breaks = None THEN 0 ELSE 1)

\* No repair is wasted on a model that does what it is told: it runs out of
\* versions only with a first version whose faults lay in as many layers
\* (repair_context.py:126-168, strategy_lab_service.py:236-250).
GivenUpForItsLayers ==
    (ending = "pretest" /\ obedient /\ prompt # "unclear") => Layers(draft, prompt) >= MaxVersions
=============================================================================
