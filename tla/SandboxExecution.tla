-------------------------- MODULE SandboxExecution --------------------------
(***************************************************************************)
(* One DockerSandboxExecutor._execute                                      *)
(* (backend/app/runtime/docker_executor.py), the docker CLI it starts, the *)
(* container behind it, and the worker inside (backend/sandbox/worker.py): *)
(* four parties that move on their own.  The daemon, the image and the     *)
(* strategy are the environment.  Time is counted in ticks from `started`; *)
(* the poll interval of 20 ms is far below a tick.                         *)
(***************************************************************************)
EXTENDS SandboxProtocol

CONSTANTS
    StrategyTimeout,  \* settings.sandbox_timeout_seconds, in ticks
    StartupGrace,     \* settings.sandbox_startup_grace_seconds, in ticks
    Chains            \* exception chains a strategy may fail with

ASSUME ExecutionAssumption ==
    /\ StrategyTimeout \in SandboxTimeouts
    /\ StartupGrace \in SandboxTimeouts
    /\ Chains \subseteq Seq(Links)
    /\ \A chain \in Chains : Len(chain) > 0

HostTimeout_NoGrace == StrategyTimeout                                  \* mutant

HostTimeout == StrategyTimeout + StartupGrace

Horizon == StrategyTimeout + StartupGrace + 1  \* bound on the clock

VARIABLES
    stage,         \* "smoke" or "backtest"
    image,         \* "current", or "outdated": built for another schema version
    host,          \* where _execute stands
    limit,         \* why _wait_for_process gave up: "none", "output", "timeout"
    result,        \* what _execute returned or raised
    cli,           \* the docker run process
    rc,            \* its return code: "none", "zero", "killed" (137), "other"
    removal,       \* docker rm --force: "none", "done", "missed", "failed"
    container,     \* "absent", "running", "gone"
    worker,        \* "off", "booting", "strategy", "done"
    alarm,         \* SIGALRM: "off", "armed", "raised", "swallowed"
    message,       \* what the worker printed, or NoValue
    overflow,      \* whether stdout and stderr exceed sandbox_max_output_bytes
    clock,         \* ticks since started
    startedAt,     \* tick at which the strategy started; Horizon + 1 before
    spent,         \* ticks the strategy has run
    mishap         \* history: "none", "oom", "crash", "daemon_lost"

hostVars   == <<host, limit, result, removal>>
dockerVars == <<cli, rc, container>>
workerVars == <<worker, alarm, message, startedAt, spent>>
vars == <<stage, image, hostVars, dockerVars, workerVars, overflow, clock, mishap>>

NotStarted == Horizon + 1

Init ==
    /\ stage \in Stages
    /\ image \in {"current", "outdated"}
    /\ host = "preparing" /\ limit = "none" /\ result = NoValue /\ removal = "none"
    /\ cli = "none" /\ rc = "none" /\ container = "absent"
    /\ worker = "off" /\ alarm = "off" /\ message = NoValue
    /\ startedAt = NotStarted /\ spent = 0
    /\ overflow = FALSE
    /\ clock = 0
    /\ mishap = "none"

-----------------------------------------------------------------------------
(* The host thread.                                                        *)

\* _execute is left; both temporary directories are removed on the way out.
Return(value) ==
    /\ host' = "returned"
    /\ result' = value

\* _write_inputs fails outside the try block: an OSError, or the encoding of
\* the source, passes as it is.
WriteInputs ==
    /\ host = "preparing"
    /\ \/ host' = "launching" /\ UNCHANGED result
       \/ Return("OtherException")
    /\ UNCHANGED <<stage, image, limit, removal, dockerVars, workerVars, overflow, clock, mishap>>

Launch ==
    /\ host = "launching"
    /\ \/ host' = "polling" /\ cli' = "starting" /\ UNCHANGED result
       \/ Return("SandboxUnavailableError") /\ UNCHANGED cli
    /\ UNCHANGED <<stage, image, limit, removal, rc, container, workerVars, overflow, clock, mishap>>

\* process.poll()
Poll ==
    /\ host = "polling"
    /\ host' = IF cli = "exited" THEN "collecting" ELSE "measuring"
    /\ UNCHANGED <<stage, image, limit, result, removal, dockerVars, workerVars, overflow,
                   clock, mishap>>

\* The rest of the loop body, for a process that was running at the poll.
Measure ==
    /\ host = "measuring"
    /\ limit' = IF overflow THEN "output"
                ELSE IF clock > HostTimeout THEN "timeout"
                ELSE "none"
    /\ host' = IF limit' = "none" THEN "polling" ELSE "removing"
    /\ UNCHANGED <<stage, image, result, removal, dockerVars, workerVars, overflow, clock, mishap>>

\* The container dies; an attached CLI exits with the code given.
Dies(code) ==
    /\ container' = "gone"
    /\ worker' = IF worker = "done" THEN "done" ELSE "off"
    /\ IF cli = "attached" THEN cli' = "exited" /\ rc' = code ELSE UNCHANGED <<cli, rc>>

\* Skipped by a host that leaves the loop without removing the container.
ForceRemove_OnlyOnTimeout ==                                            \* mutant
    /\ host = "removing"
    /\ host' = "reaping"
    /\ \/ container = "running" /\ limit = "timeout" /\ removal' = "done" /\ Dies("killed")
       \/ limit = "output" /\ UNCHANGED <<removal, dockerVars, worker>>
    /\ UNCHANGED <<stage, image, limit, result, alarm, message, startedAt, spent, overflow,
                   clock, mishap>>

\* _force_remove: its failure is logged, and a container that does not exist
\* (yet) is no failure to it.
ForceRemove ==
    /\ host = "removing"
    /\ host' = "reaping"
    /\ \/ container = "running" /\ removal' = "done" /\ Dies("killed")
       \/ container # "running" /\ removal' = "missed" /\ UNCHANGED <<dockerVars, worker>>
       \/ removal' = "failed" /\ UNCHANGED <<dockerVars, worker>>
    /\ UNCHANGED <<stage, image, limit, result, alarm, message, startedAt, spent, overflow,
                   clock, mishap>>

LimitResult ==
    FailureResult(stage, IF limit = "output" THEN "STRATEGY_RESOURCE_LIMIT" ELSE "SANDBOX_UNAVAILABLE")

\* process.wait(timeout=5) returned.
Reaped ==
    /\ host = "reaping"
    /\ cli \in {"exited", "killed"}
    /\ Return(LimitResult)
    /\ UNCHANGED <<stage, image, limit, removal, dockerVars, workerVars, overflow, clock, mishap>>

KillCli_OnlyIfRemoved ==                                                \* mutant
    /\ host = "reaping"
    /\ cli \in {"starting", "attached"}
    /\ removal = "done"
    /\ cli' = "killed"
    /\ UNCHANGED <<stage, image, hostVars, rc, container, workerVars, overflow, clock, mishap>>

\* It expired: the CLI is killed, whatever it has asked the daemon for.
KillCli ==
    /\ host = "reaping"
    /\ cli \in {"starting", "attached"}
    /\ cli' = "killed"
    /\ \/ UNCHANGED <<container, worker>>
       \/ cli = "starting" /\ container' = "running" /\ worker' = "booting"
    /\ UNCHANGED <<stage, image, hostVars, rc, alarm, message, startedAt, spent, overflow,
                   clock, mishap>>

KillUnconfirmed_Unhandled ==                                            \* mutant
    /\ host = "reaping"
    /\ cli = "killed"
    /\ Return("TimeoutExpired")
    /\ UNCHANGED <<stage, image, limit, removal, dockerVars, workerVars, overflow, clock, mishap>>

\* The second wait, of one second, expires: SubprocessError.
KillUnconfirmed ==
    /\ host = "reaping"
    /\ cli = "killed"
    /\ Return("SandboxUnavailableError")
    /\ UNCHANGED <<stage, image, limit, removal, dockerVars, workerVars, overflow, clock, mishap>>

Collected_TrustsAnyExit ==                                              \* mutant
    IF message = NoValue THEN "STRATEGY_RUNTIME_ERROR"
    ELSE ParseResult(message, stage, Hash)

\* The process ended by itself: size, return code and message, in this order.
Collected ==
    IF overflow \/ rc = "killed" THEN FailureResult(stage, "STRATEGY_RESOURCE_LIMIT")
    ELSE IF rc # "zero" THEN "SandboxUnavailableError"
    ELSE IF message = NoValue THEN "SandboxProtocolError"
    ELSE ParseResult(message, stage, Hash)

Collect ==
    /\ host = "collecting"
    /\ Return(Collected)
    /\ UNCHANGED <<stage, image, limit, removal, dockerVars, workerVars, overflow, clock, mishap>>

Host == WriteInputs \/ Launch \/ Poll \/ Measure \/ ForceRemove \/ Reaped \/ KillCli
          \/ KillUnconfirmed \/ Collect

-----------------------------------------------------------------------------
(* The daemon and the container.                                           *)

StartContainer ==
    /\ cli = "starting"
    /\ cli' = "attached"
    /\ container' = "running"
    /\ worker' = "booting"
    /\ UNCHANGED <<stage, image, hostVars, rc, alarm, message, startedAt, spent, overflow,
                   clock, mishap>>

\* No daemon, no image, no resources.
StartFails ==
    /\ cli = "starting"
    /\ cli' = "exited"
    /\ rc' = "other"
    /\ UNCHANGED <<stage, image, hostVars, container, workerVars, overflow, clock, mishap>>

\* The kernel kills the container for its memory limit, or python crashes.
ContainerFails ==
    /\ container = "running"
    /\ \/ Dies("killed") /\ mishap' = "oom"
       \/ Dies("other") /\ mishap' = "crash"
    /\ UNCHANGED <<stage, image, hostVars, alarm, message, startedAt, spent, overflow, clock>>

\* The worker process has ended: --rm removes the container.
ContainerExits ==
    /\ container = "running"
    /\ worker = "done"
    /\ Dies("zero")
    /\ UNCHANGED <<stage, image, hostVars, alarm, message, startedAt, spent, overflow, clock, mishap>>

\* The CLI loses the daemon; the container runs on.
DaemonLost ==
    /\ cli = "attached"
    /\ cli' = "exited"
    /\ rc' = "other"
    /\ mishap' = "daemon_lost"
    /\ UNCHANGED <<stage, image, hostVars, container, workerVars, overflow, clock>>

Overflows ==
    /\ cli \in {"starting", "attached"}
    /\ ~overflow
    /\ overflow' = TRUE
    /\ UNCHANGED <<stage, image, hostVars, dockerVars, workerVars, clock, mishap>>

Docker == StartContainer \/ StartFails \/ ContainerFails \/ ContainerExits \/ DaemonLost
            \/ Overflows

-----------------------------------------------------------------------------
(* The worker: main().                                                     *)

Emit(m) ==
    /\ message' = m
    /\ worker' = "done"

WorkerSchema == IF image = "current" THEN SchemaVersion ELSE 2

Accepted == LoadsRequest(Request(stage, StrategyTimeout), WorkerSchema)

\* The host removes the input directory as it returns, under a worker that
\* may be reading it.
InputsGone == host = "returned"

\* Before the request is read, stage and hash have their default values.
RejectInput ==
    /\ worker = "booting"
    /\ ~Accepted \/ InputsGone
    /\ Emit([FailureMessage("smoke", "INVALID_SANDBOX_OUTPUT", "zeros") EXCEPT !.schema = WorkerSchema])
    /\ UNCHANGED <<stage, image, hostVars, dockerVars, alarm, startedAt, spent, overflow,
                   clock, mishap>>

\* The request was read, but then the source (whose hash stays unknown) or
\* the data is missing.
RejectData ==
    /\ worker = "booting"
    /\ Accepted /\ InputsGone
    /\ \E hash \in {"zeros", Hash} : Emit(FailureMessage(stage, "INVALID_SANDBOX_OUTPUT", hash))
    /\ UNCHANGED <<stage, image, hostVars, dockerVars, alarm, startedAt, spent, overflow,
                   clock, mishap>>

\* The inputs are read and the timer armed; then the source is loaded.
StartStrategy ==
    /\ worker = "booting"
    /\ Accepted
    /\ worker' = "strategy"
    /\ alarm' = "armed"
    /\ startedAt' = clock
    /\ UNCHANGED <<stage, image, hostVars, dockerVars, message, spent, overflow, clock, mishap>>

InStrategy == worker = "strategy" /\ container = "running"

\* The timer is up: the interpreter runs the handler before its next bytecode,
\* which is only after a C call that it is in (a long sum, a numpy routine).
AlarmDue == alarm = "armed" /\ spent >= StrategyTimeout

\* The strategy comes to an end of its own.  At the end of the timer it may
\* still be first; from a C call that outlasted the timer it comes back to
\* the handler, at the latest in the finally block that disarms the timer.
StrategyEnds ==
    /\ InStrategy
    /\ AlarmDue => spent = StrategyTimeout

StrategyFails(code) ==
    /\ StrategyEnds
    /\ Emit(FailureMessage(stage, code, Hash))
    /\ UNCHANGED <<stage, image, hostVars, dockerVars, alarm, startedAt, spent, overflow,
                   clock, mishap>>

\* load_strategy finds no class, or one that is no strategy.
LoadRejected == \E code \in {"STRATEGY_CLASS_MISSING", "STRATEGY_INTERFACE_ERROR"} : StrategyFails(code)

\* The strategy prints more than the worker captures, and lets the exception
\* of the print that was too much pass.
CaptureFull == StrategyFails("STRATEGY_RESOURCE_LIMIT")

ImportFails == StrategyFails("STRATEGY_IMPORT_ERROR")

\* Loading and backtest.run() returned; the timer is disarmed.  Statistics of
\* a backtest that do not convert end in the outermost except clause.
StrategyReturns ==
    /\ StrategyEnds
    /\ \E stats \in Stats :
          Emit(IF stage = "smoke" \/ Converts(stats) THEN SuccessMessage(stage, Hash, stats)
               ELSE FailureMessage(stage, "INVALID_SANDBOX_OUTPUT", Hash))
    /\ UNCHANGED <<stage, image, hostVars, dockerVars, alarm, startedAt, spent, overflow,
                   clock, mishap>>

\* Any other exception.
StrategyRaises ==
    /\ StrategyEnds
    /\ \E chain \in Chains : Emit(RuntimeFailureMessage(stage, chain, Hash))
    /\ UNCHANGED <<stage, image, hostVars, dockerVars, alarm, startedAt, spent, overflow,
                   clock, mishap>>

\* StrategyExecutionTimeout reaches main() ...
AlarmRaised ==
    /\ InStrategy
    /\ AlarmDue
    /\ alarm' = "raised"
    /\ Emit(FailureMessage(stage, "STRATEGY_TIMEOUT", Hash))
    /\ UNCHANGED <<stage, image, hostVars, dockerVars, startedAt, spent, overflow, clock, mishap>>

\* ... or ends in an `except Exception` of the strategy: it is an ordinary
\* exception and the timer does not repeat.
AlarmSwallowed ==
    /\ InStrategy
    /\ AlarmDue
    /\ alarm' = "swallowed"
    /\ UNCHANGED <<stage, image, hostVars, dockerVars, worker, message, startedAt, spent,
                   overflow, clock, mishap>>

Worker == RejectInput \/ RejectData \/ StartStrategy \/ LoadRejected \/ CaptureFull
            \/ ImportFails \/ StrategyReturns \/ StrategyRaises \/ AlarmRaised \/ AlarmSwallowed

\* Time passes for all, also in a C call with the alarm due.
Tick ==
    /\ host # "returned"
    /\ clock < Horizon
    /\ clock' = clock + 1
    /\ spent' = IF InStrategy THEN spent + 1 ELSE spent
    /\ UNCHANGED <<stage, image, hostVars, dockerVars, worker, alarm, message, startedAt,
                   overflow, mishap>>

Next == Host \/ Docker \/ Worker \/ Tick

\* The host thread is scheduled and time passes.  Nothing is assumed of the
\* daemon, the container or the strategy, whose C call may never end.
Spec ==
    /\ Init /\ [][Next]_vars
    /\ WF_vars(Host) /\ WF_vars(Tick)

-----------------------------------------------------------------------------
(* Properties.                                                             *)

\* Type invariant.
TypeOK ==
    /\ stage \in Stages /\ image \in {"current", "outdated"} /\ overflow \in BOOLEAN
    /\ mishap \in {"none", "oom", "crash", "daemon_lost"}
    /\ host \in {"preparing", "launching", "polling", "measuring", "removing", "reaping",
                 "collecting", "returned"}
    /\ limit \in {"none", "output", "timeout"}
    /\ result \in Replies \cup {NoValue}
    /\ cli \in {"none", "starting", "attached", "exited", "killed"}
    /\ rc \in {"none", "zero", "killed", "other"}
    /\ removal \in {"none", "done", "missed", "failed"}
    /\ container \in {"absent", "running", "gone"}
    /\ worker \in {"off", "booting", "strategy", "done"}
    /\ alarm \in {"off", "armed", "raised", "swallowed"}
    /\ clock \in 0..Horizon
    /\ spent \in 0..clock
    /\ startedAt \in 0..clock \cup {NotStarted}

\* Worker and host share no code: every message of a worker of the current
\* schema passes the host's validators, whatever the strategy failed with and
\* whatever its statistics are; and while the host waits, such a worker has
\* no reason to refuse the host's request.
WorkerSpeaksProtocol ==
    message # NoValue /\ image = "current" =>
        /\ ModelValidate(message)
        /\ message.code = "INVALID_SANDBOX_OUTPUT" => startedAt # NotStarted \/ host = "returned"

\* A result that blames the strategy, and so costs a repair, has a cause in
\* the strategy: it ran, and it failed in the way the code says.  Resource
\* limits are enforced from outside and need an overflow or a memory kill.
BlameIsEarned ==
    /\ result \in StrategyErrorCodes \ {"STRATEGY_RESOURCE_LIMIT"} =>
           startedAt # NotStarted /\ image = "current"
    /\ result = "STRATEGY_TIMEOUT" => alarm = "raised" /\ spent >= StrategyTimeout
    /\ result = "STRATEGY_RESOURCE_LIMIT" =>
           overflow \/ mishap = "oom" \/ message.code = "STRATEGY_RESOURCE_LIMIT"
    /\ result = "ok" => message.success /\ message.stage = stage /\ mishap # "crash"

\* The start-up grace does its work: the host cuts off a strategy that started
\* within it only when the strategy has run for longer than its budget, so
\* that the slow start of a container is never charged to a strategy.
GraceCoversStart ==
    limit = "timeout" /\ worker = "strategy" /\ startedAt <= StartupGrace =>
        spent > StrategyTimeout

\* A container outlives _execute only when its removal could not be confirmed
\* or came before the daemon had started it, or when the CLI lost the daemon.
OrphanExplained ==
    host = "returned" /\ container = "running" =>
        removal \in {"missed", "failed"} \/ mishap = "daemon_lost"

\* The execution as its caller sees it.  SandboxProtocolError is a subclass
\* of SandboxUnavailableError, and the service catches the latter.
JobPhase ==
    IF host = "returned" THEN "answered"
    ELSE IF startedAt # NotStarted THEN "running"
    ELSE "submitted"

JobReply ==
    IF result = NoValue THEN "none"
    ELSE IF result = "SandboxProtocolError" THEN "SandboxUnavailableError"
    ELSE result

Job == INSTANCE SandboxJob WITH phase <- JobPhase, reply <- JobReply

\* The executor implements SandboxJob: whatever daemon, container and strategy
\* do, the caller is answered, once, with a reply it can classify, and the
\* strategy is not charged with anything before it ran.
ImplementsSandboxJob == Job!Spec

\* strategy_lab_backend_hardening_obsidian.md: the worker limits source load
\* and backtest to SANDBOX_TIMEOUT_SECONDS; the grace gives no more CPU time.
StrategyWithinBudget == spent <= StrategyTimeout
=============================================================================
