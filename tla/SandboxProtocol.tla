--------------------------- MODULE SandboxProtocol ---------------------------
(***************************************************************************)
(* The request a host writes and the one JSON message a sandbox worker     *)
(* prints: _write_inputs, _parse_result (backend/app/runtime/              *)
(* docker_executor.py) and SandboxResult's validators (models.py) against  *)
(* load_request, emit, metrics_from_stats, safe_failure_type and           *)
(* safe_runtime_context (backend/sandbox/worker.py).  The two sides share  *)
(* no code.                                                                *)
(***************************************************************************)
EXTENDS Naturals, Sequences

CONSTANT NoValue  \* Python's None, JSON's null

Stages == {"smoke", "backtest"}

SchemaVersion == 3

StrategyErrorCodes ==
    {"STRATEGY_IMPORT_ERROR", "STRATEGY_CLASS_MISSING", "STRATEGY_INTERFACE_ERROR",
     "STRATEGY_RUNTIME_ERROR", "STRATEGY_TIMEOUT", "STRATEGY_RESOURCE_LIMIT"}

SandboxErrorCode == StrategyErrorCodes \cup {"INVALID_SANDBOX_OUTPUT", "SANDBOX_UNAVAILABLE"}

\* SAFE_FAILURE_TYPES of the worker.
SAFE_FAILURE_TYPES ==
    {"AttributeError", "TypeError", "ValueError", "IndexError", "KeyError",
     "RuntimeError", "ZeroDivisionError", "OverflowError"}

\* The host's enumeration of the same names.
SafeFailureType ==
    {"AttributeError", "TypeError", "ValueError", "IndexError", "KeyError",
     "RuntimeError", "ZeroDivisionError", "OverflowError", "UnknownRuntimeError"}

\* What an execution may return or raise.
Replies == {"ok", "SandboxProtocolError", "SandboxUnavailableError", "OtherException"}
             \cup SandboxErrorCode

ASSUME NoValueAssumption == NoValue \notin Replies \cup SafeFailureType

-----------------------------------------------------------------------------
(* Requests.                                                               *)

SandboxTimeouts == 1..60  \* what Settings allows, in seconds

Hash == "expected"  \* sha256 of the strategy source

\* request.json of _write_inputs.
Request(stage, timeout) ==
    [schema |-> SchemaVersion, stage |-> stage, timeout |-> timeout, hash |-> Hash]

\* load_request of a worker built for a schema.
LoadsRequest(request, schema) ==
    /\ request.schema = schema
    /\ request.stage \in Stages
    /\ request.timeout \in 1..60

-----------------------------------------------------------------------------
(* The statistics of a run and the metrics made of them. A statistic is a  *)
(* number (or a duration), has no finite value, is not there, or does not  *)
(* convert; metrics other than these five are made like the first.         *)

StatKinds == {"number", "nan", "infinite", "missing", "unreadable"}

Stats == [equity : StatKinds, trades : StatKinds, duration : StatKinds]

\* optional_float, duration_string
OptionalFloat(stat)  == IF stat = "number" THEN stat ELSE NoValue
DurationString(stat) == IF stat = "number" THEN stat ELSE NoValue

\* No KeyError, ValueError or OverflowError on the way.
Converts(stats) ==
    /\ \A name \in DOMAIN stats : stats[name] \notin {"missing", "unreadable"}
    /\ stats.duration # "infinite"

MetricsFromStats(stats) ==
    [initial_cash           |-> "number",
     final_equity           |-> OptionalFloat(stats.equity),
     net_profit             |-> OptionalFloat(stats.equity),
     number_of_trades       |-> "number",
     average_trade_duration |-> DurationString(stats.duration)]

ASSUME MetricsAssumption ==
    \A stats \in Stats : NoValue # "number" /\ NoValue # MetricsFromStats(stats)

-----------------------------------------------------------------------------
(* An exception chain, outermost first, following __cause__ or __context__.*)
(* A link has its class name, whether it is an AttributeError instance (a  *)
(* subclass has another name), and the kind of object and attribute that   *)
(* was missed.                                                             *)

Targets == {"Position.entry_price", "Position.other", "Trade", "ta", "other"}

Links == [name : STRING, attribute : BOOLEAN, target : Targets]

MaxChainDepth == 5

\* The last of some links.
Deepest(hits) == CHOOSE i \in hits : \A j \in hits : j <= i

Inspected(chain) == {i \in 1..MaxChainDepth : i <= Len(chain)}

Allowed(chain) == {i \in Inspected(chain) : chain[i].name \in SAFE_FAILURE_TYPES}

Recognised(chain) ==
    {i \in Inspected(chain) : chain[i].attribute /\ chain[i].target # "other"}

\* safe_failure_type
FailureType(chain) ==
    IF Allowed(chain) = {} THEN "UnknownRuntimeError" ELSE chain[Deepest(Allowed(chain))].name

Context(family, finding, api) == [family |-> family, finding |-> finding, api |-> api]

TargetContext(target) ==
    CASE target = "Position.entry_price" ->
            Context("position_management", "invalid_position_attribute", "Position.entry_price")
      [] target = "Position.other" ->
            Context("position_management", "invalid_position_attribute",
                    "Position.unsupported_attribute")
      [] target = "Trade" ->
            Context("position_management", "invalid_trade_attribute",
                    "Trade.unsupported_attribute")
      [] target = "ta" ->
            Context("indicator_adapter", "invalid_indicator_attribute",
                    "indicator.unsupported_attribute")

ContextGuard_Ungated(chain) == TRUE                                     \* mutant

ContextGuard(chain) == FailureType(chain) = "AttributeError"

\* safe_runtime_context: the deepest recognised object, but only when the
\* failure type that goes with it is AttributeError.
FailureContext(chain) ==
    IF Recognised(chain) = {} \/ ~ContextGuard(chain) THEN NoValue
    ELSE TargetContext(chain[Deepest(Recognised(chain))].target)

-----------------------------------------------------------------------------
(* Messages: emit.                                                         *)

Message(success, stage, code, type, context, hash, metrics) ==
    [schema |-> SchemaVersion, success |-> success, stage |-> stage, code |-> code,
     type |-> type, context |-> context, hash |-> hash, metrics |-> metrics]

SuccessMessage(stage, hash, stats) ==
    Message(TRUE, stage, NoValue, NoValue, NoValue, hash,
            IF stage = "backtest" THEN MetricsFromStats(stats) ELSE NoValue)

FailureMessage(stage, code, hash) ==
    Message(FALSE, stage, code, NoValue, NoValue, hash, NoValue)

RuntimeFailureMessage(stage, chain, hash) ==
    Message(FALSE, stage, "STRATEGY_RUNTIME_ERROR", FailureType(chain),
            FailureContext(chain), hash, NoValue)

-----------------------------------------------------------------------------
(* Acceptance: SandboxResult and SafeFailureContext.                       *)

ValidContexts ==
    {Context("position_management", "invalid_position_attribute", "Position.entry_price"),
     Context("position_management", "invalid_position_attribute", "Position.unsupported_attribute"),
     Context("position_management", "invalid_trade_attribute", "Trade.unsupported_attribute"),
     Context("indicator_adapter", "invalid_indicator_attribute", "indicator.unsupported_attribute")}

\* BacktestMetrics: no count may be null, and neither may the cash.
ValidMetrics(metrics) ==
    /\ \A name \in DOMAIN metrics : metrics[name] \in {"number", NoValue}
    /\ metrics.initial_cash # NoValue /\ metrics.number_of_trades # NoValue

ValidFields(m) ==
    /\ m.schema = SchemaVersion
    /\ m.stage \in Stages
    /\ m.code \in SandboxErrorCode \cup {NoValue}
    /\ m.type \in SafeFailureType \cup {NoValue}
    /\ m.context \in ValidContexts \cup {NoValue}
    /\ m.hash \in {Hash, "zeros"}
    /\ m.metrics # NoValue => ValidMetrics(m.metrics)

ValidSuccessContract(m) ==
    /\ m.success => m.code = NoValue /\ m.type = NoValue /\ m.context = NoValue
    /\ ~m.success => m.code # NoValue
    /\ m.stage = "backtest" /\ m.success => m.metrics # NoValue
    /\ ~m.success /\ m.code = "STRATEGY_RUNTIME_ERROR" => m.type # NoValue
    /\ m.context # NoValue => m.code = "STRATEGY_RUNTIME_ERROR" /\ m.type = "AttributeError"

\* model_validate
ModelValidate(m) == ValidFields(m) /\ ValidSuccessContract(m)

\* _parse_result: what run() sees of a message, or the protocol error.
ParseResult(m, stage, hash) ==
    IF ~ModelValidate(m) \/ m.stage # stage \/ m.hash # hash
    THEN "SandboxProtocolError"
    ELSE IF m.success THEN "ok" ELSE m.code

\* _failure_result: the host's own results pass the same validators.
FailureResult(stage, code) ==
    IF ModelValidate(FailureMessage(stage, code, Hash)) THEN code ELSE "ValidationError"
=============================================================================
