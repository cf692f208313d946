----------------------------- MODULE StrategyLab -----------------------------
(***************************************************************************)
(* StrategyLabService.run and the route that calls it                      *)
(* (backend/app/services/strategy_lab_service.py,                          *)
(* backend/app/api/strategy_lab_routes.py), for several requests at once.  *)
(* A request is a coroutine on one event loop: it generates a strategy,    *)
(* validates it, smoke-tests it in the sandbox, repairs it while it fails, *)
(* freezes it, fetches market data and backtests the frozen version.       *)
(* The smoke test, the market data and the backtest are asyncio.to_thread  *)
(* jobs, which share the process's default thread pool.                    *)
(* A version of a request's code is named by its number; what a strategy,  *)
(* the provider, Yahoo and the sandbox do with it is the environment's     *)
(* choice.                                                                 *)
(***************************************************************************)
EXTENDS Naturals, Sequences, FiniteSets, SandboxReplies

CONSTANTS
    Runs,         \* the requests
    MaxVersions,  \* settings.max_strategy_versions (1..3)
    Threads,      \* size of the default thread pool
    Models        \* names client.model may report

ASSUME LabAssumption ==
    /\ MaxVersions \in Nat \ {0}
    /\ Threads \in Nat \ {0}
    /\ 0 \notin Models

-----------------------------------------------------------------------------
(* Replies of the thread pool's jobs.                                      *)

\* "mismatch": success with another code hash, or without metrics.
BacktestReplies == SmokeReplies \cup {"mismatch"}

MarketReplies ==
    {"ok", "MarketDataUnavailableError", "InvalidMarketDataError",
     "InsufficientMarketDataError", "OtherException"}

\* run_strategy_lab: the HTTP status of an exception that leaves run().
HttpStatus(exception) ==
    CASE exception \in {"UnsupportedBistSymbolError", "InsufficientMarketDataError",
                        "StrategyPretestError", "FrozenStrategyExecutionError"} -> 422
      [] exception \in {"NvidiaNimError", "MarketDataUnavailableError",
                        "InvalidMarketDataError"} -> 502
      [] exception \in InfrastructureErrors -> 503
      [] OTHER -> 500

-----------------------------------------------------------------------------
VARIABLES
    pc,         \* where each run's coroutine stands
    attempt,    \* attempt_count; also names the newest version
    author,     \* author[r][v]: the model reported with version v, or 0
    frozen,     \* frozen.attempt_count: the frozen version, or 0
    held,       \* whether the run holds the held-out split
    job,        \* the run's to_thread job: "none", "queued", "running", "returned"
    reply,      \* what the job's thread returned or raised
    queue,      \* jobs waiting for a thread, in submission order
    response,   \* HTTP status, error behind its detail, code version and model;
                \* status 0 until the route returns
    verdict,    \* history: verdict[r][v], why version v was given up
    scored      \* history: the versions run on held-out data

coroutine == <<pc, attempt, author, frozen, held, response>>
pool      == <<job, reply, queue>>
vars      == <<coroutine, pool, verdict, scored>>

Versions == 1..MaxVersions
NoReply  == "none"
NoError  == "none"

Answer(status, error, version, model) ==
    [status |-> status, error |-> error, version |-> version, model |-> model]

NoResponse == Answer(0, NoError, 0, 0)

Init ==
    /\ pc = [r \in Runs |-> "idle"]
    /\ attempt = [r \in Runs |-> 0]
    /\ author = [r \in Runs |-> [v \in Versions |-> 0]]
    /\ frozen = [r \in Runs |-> 0]
    /\ held = [r \in Runs |-> FALSE]
    /\ job = [r \in Runs |-> "none"]
    /\ reply = [r \in Runs |-> NoReply]
    /\ queue = <<>>
    /\ response = [r \in Runs |-> NoResponse]
    /\ verdict = [r \in Runs |-> [v \in Versions |-> "none"]]
    /\ scored = [r \in Runs |-> {}]

Goto(r, label) == pc' = [pc EXCEPT ![r] = label]

\* An exception leaves run(); the route turns it into a response.
RaiseError(r, exception) ==
    /\ response' = [response EXCEPT ![r] =
                       Answer(HttpStatus(exception), exception, 0, 0)]
    /\ Goto(r, "done")

ToThread_DropsWhenBusy(r, label) ==                                 \* mutant
    /\ job' = [job EXCEPT ![r] = "queued"]
    /\ reply' = [reply EXCEPT ![r] = NoReply]
    /\ queue' = IF queue = <<>> THEN Append(queue, r) ELSE queue
    /\ Goto(r, label)

\* asyncio.to_thread: the job joins the pool's queue and the coroutine waits.
ToThread(r, label) ==
    /\ job' = [job EXCEPT ![r] = "queued"]
    /\ reply' = [reply EXCEPT ![r] = NoReply]
    /\ queue' = Append(queue, r)
    /\ Goto(r, label)

\* The awaited job is back: the coroutine resumes with reply[r].
Resume(r, label) ==
    /\ pc[r] = label
    /\ job[r] = "returned"

-----------------------------------------------------------------------------
(* The thread pool: idle threads take the oldest job; running jobs end in  *)
(* any order, each with a reply of its kind.                               *)

Busy == {r \in Runs : job[r] = "running"}

ThreadFree == Cardinality(Busy) < Threads

StartJob ==
    /\ queue # <<>>
    /\ ThreadFree
    /\ job' = [job EXCEPT ![Head(queue)] = "running"]
    /\ queue' = Tail(queue)
    /\ UNCHANGED <<coroutine, reply, verdict, scored>>

RepliesOf(label) ==
    CASE label = "smoke"    -> SmokeReplies
      [] label = "market"   -> MarketReplies
      [] label = "backtest" -> BacktestReplies

EndJob(r) ==
    /\ job[r] = "running"
    /\ \E answer \in RepliesOf(pc[r]) : reply' = [reply EXCEPT ![r] = answer]
    /\ job' = [job EXCEPT ![r] = "returned"]
    /\ UNCHANGED <<coroutine, queue, verdict, scored>>

-----------------------------------------------------------------------------
(* run(): what a coroutine does between two awaits is one step.            *)

\* The symbol is checked before anything is generated.
Accept(r) ==
    /\ pc[r] = "idle"
    /\ \/ Goto(r, "generating") /\ UNCHANGED response
       \/ RaiseError(r, "UnsupportedBistSymbolError")
    /\ UNCHANGED <<attempt, author, frozen, held, pool, verdict, scored>>

\* generate() or repair() returned new code, and the model it reports.
NewVersion(r) ==
    /\ attempt' = [attempt EXCEPT ![r] = @ + 1]
    /\ \E m \in Models : author' = [author EXCEPT ![r][attempt[r] + 1] = m]
    /\ Goto(r, "validating")

Generated(r) ==
    /\ pc[r] \in {"generating", "repairing"}
    /\ NewVersion(r)
    /\ UNCHANGED <<frozen, held, response, pool, verdict, scored>>

ProviderFailed(r) ==
    /\ pc[r] \in {"generating", "repairing"}
    /\ \E exception \in {"NvidiaNimError", "OtherException"} : RaiseError(r, exception)
    /\ UNCHANGED <<attempt, author, frozen, held, pool, verdict, scored>>

Exhausted_OffByOne(r) == attempt[r] > MaxVersions                   \* mutant

Exhausted(r) == attempt[r] >= MaxVersions

\* _repair_or_fail: the newest version is given up.
RepairOrFail(r, why) ==
    /\ verdict' = [verdict EXCEPT ![r][attempt[r]] = why]
    /\ IF Exhausted(r)
       THEN RaiseError(r, "StrategyPretestError")
       ELSE Goto(r, "repairing") /\ UNCHANGED response

\* Static validation, then the hash and the smoke test; validators and the
\* UTF-8 encoding may also raise.
Validate(r) ==
    /\ pc[r] = "validating"
    /\ \/ ToThread(r, "smoke") /\ UNCHANGED <<response, verdict>>
       \/ RepairOrFail(r, "static") /\ UNCHANGED pool
       \/ RaiseError(r, "OtherException") /\ UNCHANGED <<pool, verdict>>
    /\ UNCHANGED <<attempt, author, frozen, held, scored>>

\* The smoke test passed: freeze this version, ask for market data.
FreezeVersion(r) ==
    /\ Resume(r, "smoke")
    /\ reply[r] = "ok"
    /\ frozen' = [frozen EXCEPT ![r] = attempt[r]]
    /\ ToThread(r, "market")
    /\ UNCHANGED <<attempt, author, held, response, verdict, scored>>

\* Whose fault a failed sandbox result is.
Blame(r) == IF reply[r] \in SAFE_SMOKE_ERRORS THEN "smoke" ELSE "infrastructure"

ToRepair_AnyFailure(r) == reply[r] # "ok"                               \* mutant

\* SAFE_SMOKE_ERRORS.get(smoke.error_code) is not None
ToRepair(r) == reply[r] \in SAFE_SMOKE_ERRORS

Clear(r) ==
    /\ job' = [job EXCEPT ![r] = "none"]
    /\ reply' = [reply EXCEPT ![r] = NoReply]
    /\ UNCHANGED queue

\* A reply that is not the strategy's fault, as an exception.
SandboxException(r) ==
    IF reply[r] = "OtherException" THEN "OtherException" ELSE "SandboxUnavailableError"

SmokeFailed(r) ==
    /\ Resume(r, "smoke")
    /\ reply[r] # "ok"
    /\ IF ToRepair(r)
       THEN RepairOrFail(r, Blame(r))
       ELSE RaiseError(r, SandboxException(r)) /\ UNCHANGED verdict
    /\ Clear(r)
    /\ UNCHANGED <<attempt, author, frozen, held, scored>>

\* The cleaned and split data arrived: backtest the frozen code on it.
BacktestFrozen(r) ==
    /\ Resume(r, "market")
    /\ reply[r] = "ok"
    /\ held' = [held EXCEPT ![r] = TRUE]
    /\ scored' = [scored EXCEPT ![r] = @ \cup {frozen[r]}]
    /\ ToThread(r, "backtest")
    /\ UNCHANGED <<attempt, author, frozen, response, verdict>>

MarketFailed(r) ==
    /\ Resume(r, "market")
    /\ reply[r] # "ok"
    /\ RaiseError(r, reply[r])
    /\ Clear(r)
    /\ UNCHANGED <<attempt, author, frozen, held, verdict, scored>>

FrozenModel_FirstGeneration(r) == author[r][1]                      \* mutant

\* frozen.model
FrozenModel(r) == author[r][frozen[r]]

Report(r) ==
    /\ Resume(r, "backtest")
    /\ reply[r] = "ok"
    /\ response' = [response EXCEPT ![r] =
                       Answer(200, NoError, frozen[r], FrozenModel(r))]
    /\ Goto(r, "done")
    /\ Clear(r)
    /\ UNCHANGED <<attempt, author, frozen, held, verdict, scored>>

AfterFailedBacktest_Repairs(r) ==                                  \* mutant
    IF reply[r] \in SAFE_SMOKE_ERRORS
    THEN RepairOrFail(r, "smoke")
    ELSE RaiseError(r, SandboxException(r)) /\ UNCHANGED verdict

\* A frozen strategy that fails on real data is not repaired.
AfterFailedBacktest(r) ==
    /\ RaiseError(r, IF reply[r] \in SAFE_SMOKE_ERRORS
                     THEN "FrozenStrategyExecutionError"
                     ELSE SandboxException(r))
    /\ UNCHANGED verdict

BacktestFailed(r) ==
    /\ Resume(r, "backtest")
    /\ reply[r] # "ok"
    /\ AfterFailedBacktest(r)
    /\ Clear(r)
    /\ UNCHANGED <<attempt, author, frozen, held, scored>>

Coroutine(r) ==
    \/ Generated(r) \/ ProviderFailed(r) \/ Validate(r)
    \/ FreezeVersion(r) \/ SmokeFailed(r)
    \/ BacktestFrozen(r) \/ MarketFailed(r)
    \/ Report(r) \/ BacktestFailed(r)

Next == StartJob \/ \E r \in Runs : Accept(r) \/ EndJob(r) \/ Coroutine(r)

\* The event loop runs every ready coroutine, idle threads take queued jobs,
\* and jobs end: the executor kills a container at its deadline and the
\* provider client bounds every completion (NvidiaClient!Completes).
Spec ==
    /\ Init /\ [][Next]_vars
    /\ WF_vars(StartJob)
    /\ \A r \in Runs : WF_vars(EndJob(r)) /\ WF_vars(Coroutine(r))

-----------------------------------------------------------------------------
(* Properties.                                                             *)

Labels == {"idle", "generating", "validating", "smoke", "repairing", "market",
           "backtest", "done"}

Awaiting == {"smoke", "market", "backtest"}

Errors == {"UnsupportedBistSymbolError", "NvidiaNimError", "OtherException",
           "StrategyPretestError", "FrozenStrategyExecutionError",
           "SandboxUnavailableError"} \cup (MarketReplies \ {"ok"})

ResponseType == [status : {0, 200, 422, 500, 502, 503}, error : Errors \cup {NoError},
                 version : 0..MaxVersions, model : Models \cup {0}]

CoroutineType ==
    /\ pc \in [Runs -> Labels]
    /\ attempt \in [Runs -> 0..MaxVersions]
    /\ author \in [Runs -> [Versions -> Models \cup {0}]]
    /\ frozen \in [Runs -> 0..MaxVersions]
    /\ held \in [Runs -> BOOLEAN]
    /\ response \in [Runs -> ResponseType]

PoolType ==
    /\ job \in [Runs -> {"none", "queued", "running", "returned"}]
    /\ reply \in [Runs -> BacktestReplies \cup MarketReplies \cup {NoReply}]
    /\ queue \in Seq(Runs)

HistoryType ==
    /\ verdict \in [Runs -> [Versions -> {"none", "static", "smoke", "infrastructure"}]]
    /\ scored \in [Runs -> SUBSET (0..MaxVersions)]

\* Type invariant of the coroutines, the pool and the history.
TypeOK == CoroutineType /\ PoolType /\ HistoryType

\* The class docstring: repair only before held-out data.  Once a run holds
\* the split, its newest version is the frozen one, and nothing but that
\* version is ever run on the split.
HeldOutIsolation ==
    \A r \in Runs :
        /\ held[r] => frozen[r] > 0 /\ attempt[r] = frozen[r]
        /\ scored[r] \subseteq {frozen[r]}
        /\ scored[r] # {} => held[r]

\* Every version before the newest was given up for a fault of its own, never
\* because the sandbox was unavailable; the frozen version was not given up,
\* and the pre-test error means the last allowed version was.
VersionTrail ==
    \A r \in Runs :
        /\ \A v \in Versions : v < attempt[r] => verdict[r][v] \in {"static", "smoke"}
        /\ \A v \in Versions : verdict[r][v] # "infrastructure"
        /\ frozen[r] > 0 => verdict[r][frozen[r]] = "none"
        /\ response[r].error = "StrategyPretestError" =>
               attempt[r] = MaxVersions /\ verdict[r][MaxVersions] # "none"

\* A 200 describes the version that was frozen and scored, with the model
\* that wrote it; any other status comes without a version.
ResponseDescribesFrozen ==
    \A r \in Runs :
        /\ response[r].status = 200 =>
               /\ response[r].version = frozen[r]
               /\ scored[r] = {response[r].version}
               /\ response[r].model = author[r][response[r].version]
               /\ response[r].model \in Models
        /\ response[r].status \notin {0, 200} => response[r].version = 0

\* Every accepted request is answered, also when requests outnumber threads.
EveryRunAnswered == \A r \in Runs : pc[r] # "idle" ~> pc[r] = "done"

\* The run as FrozenEvaluation sees it.
Phase(r) ==
    IF pc[r] = "done"
    THEN IF response[r].status = 200 THEN "scored" ELSE "failed"
    ELSE IF pc[r] = "market" THEN "frozen"
    ELSE IF pc[r] = "backtest" THEN "revealed"
    ELSE "developing"

Evaluation == INSTANCE FrozenEvaluation WITH
    phase <- [r \in Runs |-> Phase(r)], version <- attempt, subject <- frozen

\* Strategy Lab implements the protocol of FrozenEvaluation.
ImplementsFrozenEvaluation == Evaluation!Spec
=============================================================================
