----------------------- MODULE SandboxExecutionProofs -----------------------
(***************************************************************************)
(* Safety of one sandbox execution, for every timeout, grace and set of    *)
(* exception chains, and its refinement of SandboxJob.  The inductive      *)
(* invariant ties the container's life to the CLI's, the message to the    *)
(* worker's progress, and the strategy's time to the clock.                *)
(***************************************************************************)
EXTENDS SandboxExecution, TLAPS

\* The CLI, the container and what killed it; the host's place among them.
DockerInv ==
    /\ host \in {"preparing", "launching"} => cli = "none"
    /\ host \in {"removing", "reaping"} => limit # "none"
    /\ host = "collecting" => cli = "exited"
    /\ host = "returned" => cli \notin {"starting", "attached"}
    /\ host \notin {"reaping", "returned"} <=> removal = "none" /\ host # "returned"
    /\ cli = "killed" => host \in {"reaping", "returned"} /\ removal # "none"
    /\ cli \in {"none", "starting"} => container = "absent" /\ rc = "none"
    /\ cli = "attached" => container = "running" /\ rc = "none"
    /\ cli = "exited" => container # "running" \/ mishap = "daemon_lost"
    /\ mishap \in {"oom", "crash"} => container = "gone"
    /\ rc = "killed" => mishap = "oom" \/ removal = "done"
    /\ rc = "zero" => container = "gone" /\ mishap # "crash"
    /\ removal = "done" => container = "gone"
    /\ OrphanExplained

\* The worker's progress and the strategy's time.
WorkerInv ==
    /\ container = "absent" => worker = "off" /\ message = NoValue
    /\ container = "absent" \/ worker = "booting" =>
           startedAt = NotStarted /\ spent = 0 /\ alarm = "off"
    /\ worker \in {"booting", "strategy"} => container = "running" /\ message = NoValue
    /\ container = "running" => worker # "off"
    /\ worker = "strategy" =>
           /\ startedAt # NotStarted /\ clock = startedAt + spent
           /\ alarm \in {"armed", "swallowed"}
    /\ startedAt # NotStarted => image = "current"
    /\ limit = "output" => overflow
    /\ limit = "timeout" => clock > HostTimeout

\* What a message says was so when it was printed, and stays so.
MessageInv ==
    message # NoValue =>
        /\ image = "current" => ModelValidate(message)
        /\ image = "outdated" => message.schema # SchemaVersion
        /\ message.success \in BOOLEAN
        /\ message.success \/ message.code \in StrategyErrorCodes => startedAt # NotStarted
        /\ message.code = "INVALID_SANDBOX_OUTPUT" /\ image = "current" =>
               startedAt # NotStarted \/ host = "returned"
        /\ message.code = "STRATEGY_TIMEOUT" => alarm = "raised" /\ spent >= StrategyTimeout

ResultInv ==
    /\ result = NoValue <=> host # "returned"
    /\ result = "ok" =>
           /\ message # NoValue /\ message.success /\ message.stage = stage
           /\ image = "current" /\ rc = "zero"
    /\ result \in StrategyErrorCodes \ {"STRATEGY_RESOURCE_LIMIT"} =>
           message # NoValue /\ message.code = result /\ image = "current"
    /\ result = "STRATEGY_RESOURCE_LIMIT" =>
           \/ overflow \/ mishap = "oom"
           \/ message # NoValue /\ message.code = "STRATEGY_RESOURCE_LIMIT"

IInv == TypeOK /\ DockerInv /\ WorkerInv /\ MessageInv /\ ResultInv

-----------------------------------------------------------------------------
(* Messages.                                                               *)

(* A nonempty set of positions in the inspected part has a last one.       *)
LEMMA DeepestIsHit ==
  ASSUME NEW hits \in SUBSET (1..MaxChainDepth), hits # {}
  PROVE  Deepest(hits) \in hits
<1>1. \A i \in hits : i \in 1..5
  BY DEF MaxChainDepth
<1>2. \E i \in hits : \A j \in hits : j <= i
  <2>1. CASE 5 \in hits
    BY <1>1, <2>1
  <2>2. CASE 5 \notin hits /\ 4 \in hits
    BY <1>1, <2>2
  <2>3. CASE 5 \notin hits /\ 4 \notin hits /\ 3 \in hits
    BY <1>1, <2>3
  <2>4. CASE 5 \notin hits /\ 4 \notin hits /\ 3 \notin hits /\ 2 \in hits
    BY <1>1, <2>4
  <2>5. CASE \A i \in 2..5 : i \notin hits
    <3>1. 2 \notin hits /\ 3 \notin hits /\ 4 \notin hits /\ 5 \notin hits
      BY <2>5
    <3>2. \A i \in hits : i = 1
      BY <1>1, <3>1
    <3>3. PICK i \in hits : TRUE
      OBVIOUS
    <3> QED BY <3>2, <3>3
  <2> QED BY <2>1, <2>2, <2>3, <2>4, <2>5
<1> QED BY <1>2 DEF Deepest

LEMMA FailureTypeIsSafe ==
  ASSUME NEW chain \in Chains
  PROVE  FailureType(chain) \in SafeFailureType
<1>1. CASE Allowed(chain) = {}
  BY <1>1 DEF FailureType, SafeFailureType
<1>2. CASE Allowed(chain) # {}
  <2>1. Deepest(Allowed(chain)) \in Allowed(chain)
    BY <1>2, DeepestIsHit DEF Allowed, Inspected
  <2> QED BY <1>2, <2>1 DEF FailureType, Allowed, SafeFailureType, SAFE_FAILURE_TYPES
<1> QED BY <1>1, <1>2

(* The worker's context is one the host knows, and comes with the type the *)
(* host asks for.                                                          *)
LEMMA FailureContextIsValid ==
  ASSUME NEW chain \in Chains
  PROVE  /\ FailureContext(chain) \in ValidContexts \cup {NoValue}
         /\ FailureContext(chain) # NoValue => FailureType(chain) = "AttributeError"
<1>1. CASE Recognised(chain) = {} \/ ~ContextGuard(chain)
  BY <1>1 DEF FailureContext
<1>2. CASE Recognised(chain) # {} /\ ContextGuard(chain)
  <2> DEFINE d == Deepest(Recognised(chain))
  <2>1. d \in Recognised(chain)
    BY <1>2, DeepestIsHit DEF Recognised, Inspected
  <2>2. chain \in Seq(Links) /\ d \in 1..Len(chain)
    BY <2>1, ExecutionAssumption DEF Recognised, Inspected, ExecutionAssumption, MaxChainDepth
  <2>3. chain[d] \in Links
    BY <2>2
  <2>4. chain[d].target \in Targets \ {"other"}
    BY <2>1, <2>3 DEF Recognised, Links
  <2>5. TargetContext(chain[d].target) \in ValidContexts
    BY <2>4 DEF Targets, TargetContext, ValidContexts
  <2> QED BY <1>2, <2>5 DEF FailureContext, ContextGuard
<1> QED BY <1>1, <1>2

(* Failures without a type, of the host or of the worker.                  *)
LEMMA FailureIsValid ==
  ASSUME NEW s \in Stages, NEW c \in SandboxErrorCode \ {"STRATEGY_RUNTIME_ERROR"},
         NEW h \in {Hash, "zeros"}
  PROVE  /\ ModelValidate(FailureMessage(s, c, h))
         /\ FailureMessage(s, c, h).success = FALSE
         /\ FailureMessage(s, c, h).code = c
<1>1. c # NoValue
  BY NoValueAssumption DEF NoValueAssumption, Replies, SandboxErrorCode, StrategyErrorCodes
<1> QED BY <1>1 DEF FailureMessage, Message, ModelValidate, ValidFields, ValidSuccessContract

LEMMA RuntimeFailureIsValid ==
  ASSUME NEW s \in Stages, NEW chain \in Chains
  PROVE  /\ ModelValidate(RuntimeFailureMessage(s, chain, Hash))
         /\ RuntimeFailureMessage(s, chain, Hash).success = FALSE
         /\ RuntimeFailureMessage(s, chain, Hash).code = "STRATEGY_RUNTIME_ERROR"
<1> DEFINE m == RuntimeFailureMessage(s, chain, Hash)
<1>1. FailureType(chain) \in SafeFailureType \ {NoValue} /\ NoValue # "STRATEGY_RUNTIME_ERROR"
  BY FailureTypeIsSafe, NoValueAssumption DEF NoValueAssumption, Replies, SafeFailureType,
     SandboxErrorCode, StrategyErrorCodes
<1>2. FailureContext(chain) \in ValidContexts \cup {NoValue}
      /\ (FailureContext(chain) # NoValue => FailureType(chain) = "AttributeError")
  BY FailureContextIsValid
<1>3. ValidFields(m)
  BY <1>1, <1>2 DEF RuntimeFailureMessage, Message, ValidFields, SandboxErrorCode,
     StrategyErrorCodes
<1>4. ValidSuccessContract(m)
  BY <1>1, <1>2 DEF RuntimeFailureMessage, Message, ValidSuccessContract
<1> QED BY <1>3, <1>4 DEF ModelValidate, RuntimeFailureMessage, Message

LEMMA SuccessIsValid ==
  ASSUME NEW s \in Stages, NEW stats \in Stats
  PROVE  /\ ModelValidate(SuccessMessage(s, Hash, stats))
         /\ SuccessMessage(s, Hash, stats).success = TRUE
         /\ SuccessMessage(s, Hash, stats).code = NoValue
<1> DEFINE m == SuccessMessage(s, Hash, stats)
<1>1. MetricsFromStats(stats) # NoValue /\ NoValue # "number"
  BY MetricsAssumption DEF MetricsAssumption
<1>2. ValidMetrics(MetricsFromStats(stats))
  BY <1>1 DEF ValidMetrics, MetricsFromStats, OptionalFloat, DurationString
<1>3. m = Message(TRUE, s, NoValue, NoValue, NoValue, Hash,
                  IF s = "backtest" THEN MetricsFromStats(stats) ELSE NoValue)
  BY DEF SuccessMessage
<1>4. ValidFields(m)
  BY <1>1, <1>2, <1>3 DEF Message, ValidFields
<1>5. ValidSuccessContract(m)
  BY <1>1, <1>3 DEF Message, ValidSuccessContract
<1> QED BY <1>3, <1>4, <1>5 DEF Message, ModelValidate

(* The host's own results pass its validators.                             *)
LEMMA LimitResultValue ==
  ASSUME stage \in Stages
  PROVE  /\ FailureResult(stage, "STRATEGY_RESOURCE_LIMIT") = "STRATEGY_RESOURCE_LIMIT"
         /\ LimitResult = IF limit = "output" THEN "STRATEGY_RESOURCE_LIMIT"
                          ELSE "SANDBOX_UNAVAILABLE"
BY FailureIsValid DEF FailureResult, LimitResult, SandboxErrorCode, StrategyErrorCodes

-----------------------------------------------------------------------------
(* The invariant holds at the start and at every step.                     *)

LEMMA TimeTypes ==
  /\ StrategyTimeout \in 1..60 /\ StartupGrace \in 1..60
  /\ Horizon \in Nat /\ NotStarted = Horizon + 1
  /\ HostTimeout = StrategyTimeout + StartupGrace /\ Horizon = HostTimeout + 1
BY ExecutionAssumption DEF ExecutionAssumption, SandboxTimeouts, Horizon, NotStarted, HostTimeout

LEMMA InitInv == Init => IInv
<1> SUFFICES ASSUME Init PROVE IInv
  OBVIOUS
<1> USE DEF Init
<1>1. TypeOK
  <2>1. 0 \in 0..Horizon /\ 0 \in 0..0
    BY TimeTypes
  <2> QED BY <2>1 DEF TypeOK
<1>2. DockerInv /\ WorkerInv
  BY DEF DockerInv, OrphanExplained, WorkerInv
<1>3. MessageInv
  BY DEF MessageInv
<1>4. ResultInv
  <2>1. result \notin Replies /\ host # "returned" /\ result = NoValue
    BY NoValueAssumption DEF NoValueAssumption
  <2> QED BY <2>1 DEF ResultInv, Replies, SandboxErrorCode, StrategyErrorCodes
<1> QED BY <1>1, <1>2, <1>3, <1>4 DEF IInv

(* What the host makes of a process that ended by itself.                  *)
LEMMA CollectedValue ==
  ASSUME IInv
  PROVE  /\ Collected \in Replies
         /\ Collected = "ok" =>
              /\ message # NoValue /\ message.success /\ message.stage = stage
              /\ image = "current" /\ rc = "zero"
         /\ Collected \in StrategyErrorCodes \ {"STRATEGY_RESOURCE_LIMIT"} =>
              message # NoValue /\ message.code = Collected /\ image = "current"
         /\ Collected = "STRATEGY_RESOURCE_LIMIT" =>
              \/ overflow \/ rc = "killed"
              \/ message # NoValue /\ message.code = "STRATEGY_RESOURCE_LIMIT"
<1>1. CASE overflow \/ rc = "killed"
  BY <1>1, LimitResultValue DEF Collected, Replies, SandboxErrorCode, StrategyErrorCodes, IInv,
     TypeOK
<1>2. CASE ~(overflow \/ rc = "killed") /\ (rc # "zero" \/ message = NoValue)
  BY <1>2 DEF Collected, Replies, StrategyErrorCodes
<1>3. CASE ~(overflow \/ rc = "killed") /\ rc = "zero" /\ message # NoValue
  <2>1. Collected = ParseResult(message, stage, Hash)
    BY <1>3 DEF Collected
  <2>2. CASE ~ModelValidate(message) \/ message.stage # stage \/ message.hash # Hash
    BY <2>1, <2>2 DEF ParseResult, Replies, StrategyErrorCodes
  <2>3. CASE ModelValidate(message) /\ message.stage = stage /\ message.hash = Hash
    <3>1. image = "current"
      BY <1>3, <2>3 DEF IInv, TypeOK, MessageInv, ModelValidate, ValidFields
    <3>2. Collected = IF message.success THEN "ok" ELSE message.code
      BY <2>1, <2>3 DEF ParseResult
    <3>3. ~message.success => message.code \in SandboxErrorCode
      BY <2>3 DEF ModelValidate, ValidFields, ValidSuccessContract
    <3>4. message.success \in BOOLEAN
      BY <1>3 DEF IInv, MessageInv
    <3>5. CASE message.success
      BY <1>3, <2>3, <3>1, <3>2, <3>5 DEF Replies, StrategyErrorCodes
    <3>6. CASE ~message.success
      BY <1>3, <2>3, <3>1, <3>2, <3>3, <3>6 DEF Replies, SandboxErrorCode, StrategyErrorCodes
    <3> QED BY <3>5, <3>6
  <2> QED BY <2>2, <2>3
<1> QED BY <1>1, <1>2, <1>3

-----------------------------------------------------------------------------
LEMMA TypeStep == IInv /\ [Next]_vars => TypeOK'
<1> SUFFICES ASSUME IInv, [Next]_vars PROVE TypeOK'
  OBVIOUS
<1> USE DEF TypeOK, IInv, hostVars, dockerVars, workerVars
<1>1. CASE UNCHANGED vars
  BY <1>1 DEF vars
<1>2. CASE WriteInputs \/ Launch \/ KillUnconfirmed
  BY <1>2 DEF WriteInputs, Launch, KillUnconfirmed, Return, Replies
<1>3. CASE Poll \/ Measure \/ ForceRemove \/ KillCli
  BY <1>3 DEF Poll, Measure, ForceRemove, KillCli, Dies
<1>4. CASE Reaped
  BY <1>4, LimitResultValue DEF Reaped, Return, Replies, SandboxErrorCode, StrategyErrorCodes
<1>5. CASE Collect
  BY <1>5, CollectedValue DEF Collect, Return
<1>6. CASE Docker
  BY <1>6 DEF Docker, StartContainer, StartFails, ContainerFails, ContainerExits, DaemonLost,
     Overflows, Dies
<1>7. CASE Worker
  BY <1>7, TimeTypes DEF Worker, RejectInput, RejectData, StartStrategy, LoadRejected, CaptureFull,
     ImportFails, StrategyFails, StrategyReturns, StrategyRaises, AlarmRaised, AlarmSwallowed, Emit
<1>8. CASE Tick
  BY <1>8, TimeTypes DEF Tick
<1> QED BY <1>1, <1>2, <1>3, <1>4, <1>5, <1>6, <1>7, <1>8 DEF Next, Host

LEMMA DockerStep == IInv /\ [Next]_vars => DockerInv'
<1> SUFFICES ASSUME IInv, [Next]_vars PROVE DockerInv'
  OBVIOUS
<1> USE DEF TypeOK, IInv, DockerInv, OrphanExplained, hostVars, dockerVars, workerVars
<1>1. CASE UNCHANGED vars
  BY <1>1 DEF vars
<1>2. CASE WriteInputs \/ Launch \/ Poll \/ Measure
  BY <1>2 DEF WriteInputs, Launch, Poll, Measure, Return
<1>3. CASE ForceRemove
  BY <1>3 DEF ForceRemove, Dies
<1>4. CASE Reaped \/ KillUnconfirmed \/ KillCli
  BY <1>4 DEF Reaped, KillUnconfirmed, KillCli, Return
<1>5. CASE Collect
  BY <1>5 DEF Collect, Return
<1>6. CASE StartContainer \/ StartFails \/ DaemonLost \/ Overflows
  BY <1>6 DEF StartContainer, StartFails, DaemonLost, Overflows
<1>7. CASE ContainerFails \/ ContainerExits
  BY <1>7 DEF ContainerFails, ContainerExits, Dies
<1>8. CASE Worker \/ Tick
  BY <1>8 DEF Tick, Worker, RejectInput, RejectData, StartStrategy, LoadRejected, CaptureFull,
     ImportFails, StrategyFails, StrategyReturns, StrategyRaises, AlarmRaised, AlarmSwallowed
<1> QED BY <1>1, <1>2, <1>3, <1>4, <1>5, <1>6, <1>7, <1>8 DEF Next, Host, Docker

LEMMA WorkerStep == IInv /\ [Next]_vars => WorkerInv'
<1> SUFFICES ASSUME IInv, [Next]_vars PROVE WorkerInv'
  OBVIOUS
<1> USE TimeTypes DEF TypeOK, IInv, DockerInv, WorkerInv, hostVars, dockerVars, workerVars
<1>1. CASE UNCHANGED vars
  BY <1>1 DEF vars
<1>2. CASE WriteInputs \/ Launch \/ Poll \/ Measure
  BY <1>2 DEF WriteInputs, Launch, Poll, Measure
<1>3. CASE ForceRemove
  BY <1>3 DEF ForceRemove, Dies
<1>4. CASE Reaped \/ KillUnconfirmed \/ KillCli \/ Collect
  BY <1>4 DEF Reaped, KillUnconfirmed, KillCli, Collect
<1>5. CASE StartContainer \/ StartFails \/ DaemonLost \/ Overflows
  BY <1>5 DEF StartContainer, StartFails, DaemonLost, Overflows
<1>6. CASE ContainerFails \/ ContainerExits
  BY <1>6 DEF ContainerFails, ContainerExits, Dies
<1>7. CASE RejectInput \/ RejectData
  BY <1>7 DEF RejectInput, RejectData, Emit
<1>8. CASE StartStrategy
  <2>1. image = "current"
    BY <1>8 DEF StartStrategy, Accepted, LoadsRequest, Request, WorkerSchema, SchemaVersion
  <2> QED BY <1>8, <2>1 DEF StartStrategy
<1>9. CASE LoadRejected \/ CaptureFull \/ ImportFails \/ StrategyReturns \/ StrategyRaises
  BY <1>9 DEF LoadRejected, CaptureFull, ImportFails, StrategyFails, StrategyReturns,
     StrategyRaises, StrategyEnds, Emit, InStrategy
<1>10. CASE AlarmRaised \/ AlarmSwallowed
  BY <1>10 DEF AlarmRaised, AlarmSwallowed, InStrategy, Emit
<1>11. CASE Tick
  BY <1>11 DEF Tick, InStrategy
<1> QED BY <1>1, <1>2, <1>3, <1>4, <1>5, <1>6, <1>7, <1>8, <1>9, <1>10, <1>11
        DEF Next, Host, Docker, Worker

(* A message once printed is not replaced.                                 *)
LEMMA MessageStep == IInv /\ [Next]_vars => MessageInv'
<1> SUFFICES ASSUME IInv, [Next]_vars PROVE MessageInv'
  OBVIOUS
<1> USE TimeTypes DEF hostVars, dockerVars, workerVars
<1>0. ASSUME UNCHANGED <<image, message, startedAt, alarm>>,
             host = "returned" => host' = "returned", spent' = spent
      PROVE  MessageInv'
  BY <1>0 DEF IInv, MessageInv
<1>1. CASE UNCHANGED vars \/ WriteInputs \/ Launch \/ Poll \/ Measure \/ ForceRemove \/ Reaped
             \/ KillUnconfirmed \/ KillCli \/ Collect
  BY <1>0, <1>1 DEF vars, WriteInputs, Launch, Poll, Measure, ForceRemove, Reaped, KillUnconfirmed,
     KillCli, Collect, Return
<1>2. CASE Docker
  BY <1>0, <1>2 DEF Docker, StartContainer, StartFails, ContainerFails, ContainerExits, DaemonLost,
     Overflows
<1>3. CASE StartStrategy \/ AlarmSwallowed
  <2>1. message' = NoValue
    BY <1>3 DEF StartStrategy, AlarmSwallowed, InStrategy, IInv, WorkerInv
  <2> QED BY <2>1 DEF MessageInv
<1>4. CASE Tick
  <2>1. UNCHANGED <<image, message, startedAt, alarm, host>> /\ spent' >= spent /\ spent \in Nat
    BY <1>4 DEF Tick, IInv, TypeOK
  <2>2. spent >= StrategyTimeout => spent' >= StrategyTimeout
    BY <2>1, <1>4 DEF Tick
  <2> QED BY <2>1, <2>2 DEF IInv, MessageInv
<1>5. CASE RejectInput
  <2>1. image = "current" => host = "returned"
    BY <1>5, ExecutionAssumption DEF RejectInput, Accepted, InputsGone, LoadsRequest, Request,
       WorkerSchema, ExecutionAssumption, SandboxTimeouts, IInv, TypeOK
  <2> DEFINE m == FailureMessage("smoke", "INVALID_SANDBOX_OUTPUT", "zeros")
  <2>2. message' = [m EXCEPT !.schema = WorkerSchema]
    BY <1>5 DEF RejectInput, Emit
  <2>3. ModelValidate(m) /\ m.success = FALSE /\ m.code = "INVALID_SANDBOX_OUTPUT"
    BY FailureIsValid DEF Stages, SandboxErrorCode, StrategyErrorCodes
  <2>4. image' = image /\ host' = host
    BY <1>5 DEF RejectInput
  <2>5. image = "current" => message' = m
    BY <2>2 DEF WorkerSchema, FailureMessage, Message
  <2>6. /\ message'.schema = WorkerSchema /\ message'.success = FALSE
        /\ message'.code = "INVALID_SANDBOX_OUTPUT"
    BY <2>2 DEF FailureMessage, Message
  <2>7. image \in {"current", "outdated"}
    BY DEF IInv, TypeOK
  <2>8. CASE image = "current"
    <3>1. ModelValidate(message')
      BY <2>3, <2>5, <2>8
    <3> QED BY <2>1, <2>4, <2>6, <2>8, <3>1 DEF MessageInv, StrategyErrorCodes
  <2>9. CASE image = "outdated"
    <3>1. image' = "outdated" /\ message'.schema # SchemaVersion
      BY <2>4, <2>6, <2>9 DEF WorkerSchema, SchemaVersion
    <3>2. message'.code \notin StrategyErrorCodes
      BY <2>6 DEF StrategyErrorCodes
    <3> QED BY <2>6, <3>1, <3>2 DEF MessageInv
  <2> QED BY <2>7, <2>8, <2>9
<1>6. CASE RejectData
  <2>1. image = "current" /\ host = "returned" /\ image' = image /\ host' = host
    BY <1>6 DEF RejectData, Accepted, InputsGone, LoadsRequest, Request, WorkerSchema,
       SchemaVersion
  <2>2. PICK hash \in {"zeros", Hash} :
           message' = FailureMessage(stage, "INVALID_SANDBOX_OUTPUT", hash)
    BY <1>6 DEF RejectData, Emit
  <2>3. /\ ModelValidate(message') /\ message'.success = FALSE
        /\ message'.code = "INVALID_SANDBOX_OUTPUT"
    <3>1. stage \in Stages
      BY DEF IInv, TypeOK
    <3>2. "INVALID_SANDBOX_OUTPUT" \in SandboxErrorCode \ {"STRATEGY_RUNTIME_ERROR"}
      BY DEF SandboxErrorCode, StrategyErrorCodes
    <3>3. CASE message' = FailureMessage(stage, "INVALID_SANDBOX_OUTPUT", Hash)
      BY <3>1, <3>2, <3>3, FailureIsValid
    <3>4. CASE message' = FailureMessage(stage, "INVALID_SANDBOX_OUTPUT", "zeros")
      BY <3>1, <3>2, <3>4, FailureIsValid
    <3> QED BY <2>2, <3>3, <3>4
  <2> QED BY <2>1, <2>3 DEF MessageInv, StrategyErrorCodes
<1>7. CASE LoadRejected \/ CaptureFull \/ ImportFails \/ StrategyReturns \/ StrategyRaises
             \/ AlarmRaised
  <2>1. InStrategy /\ image' = image /\ startedAt' = startedAt /\ spent' = spent
    BY <1>7 DEF LoadRejected, CaptureFull, ImportFails, StrategyFails, StrategyReturns,
       StrategyRaises, StrategyEnds, AlarmRaised
  <2>2. startedAt # NotStarted /\ image = "current" /\ stage \in Stages
    BY <2>1 DEF InStrategy, IInv, WorkerInv, TypeOK
  <2>3. ASSUME NEW code \in SandboxErrorCode \ {"STRATEGY_RUNTIME_ERROR", "STRATEGY_TIMEOUT"},
               StrategyFails(code)
        PROVE  MessageInv'
    <3>1. message' = FailureMessage(stage, code, Hash)
      BY <2>3 DEF StrategyFails, Emit
    <3>2. ModelValidate(message') /\ message'.success = FALSE /\ message'.code = code
      BY <2>2, <2>3, <3>1, FailureIsValid
    <3> QED BY <2>1, <2>2, <2>3, <3>2 DEF MessageInv
  <2>4. CASE LoadRejected \/ CaptureFull \/ ImportFails
    BY <2>3, <2>4 DEF LoadRejected, CaptureFull, ImportFails, SandboxErrorCode, StrategyErrorCodes
  <2>5. CASE StrategyReturns
    <3>1. PICK stats \in Stats :
             message' = IF stage = "smoke" \/ Converts(stats)
                        THEN SuccessMessage(stage, Hash, stats)
                        ELSE FailureMessage(stage, "INVALID_SANDBOX_OUTPUT", Hash)
      BY <2>5 DEF StrategyReturns, Emit
    <3>2. CASE message' = SuccessMessage(stage, Hash, stats)
      <4>1. ModelValidate(message') /\ message'.success = TRUE /\ message'.code = NoValue
        BY <2>2, <3>2, SuccessIsValid
      <4> QED BY <2>1, <2>2, <4>1, NoValueAssumption
              DEF MessageInv, NoValueAssumption, Replies, SandboxErrorCode, StrategyErrorCodes
    <3>3. CASE message' = FailureMessage(stage, "INVALID_SANDBOX_OUTPUT", Hash)
      <4>1. /\ ModelValidate(message') /\ message'.success = FALSE
            /\ message'.code = "INVALID_SANDBOX_OUTPUT"
        BY <2>2, <3>3, FailureIsValid DEF SandboxErrorCode, StrategyErrorCodes
      <4> QED BY <2>1, <2>2, <4>1 DEF MessageInv
    <3> QED BY <3>1, <3>2, <3>3
  <2>6. CASE StrategyRaises
    <3>1. PICK chain \in Chains : message' = RuntimeFailureMessage(stage, chain, Hash)
      BY <2>6 DEF StrategyRaises, Emit
    <3>2. /\ ModelValidate(message') /\ message'.success = FALSE
          /\ message'.code = "STRATEGY_RUNTIME_ERROR"
      BY <2>2, <3>1, RuntimeFailureIsValid
    <3> QED BY <2>1, <2>2, <3>2 DEF MessageInv
  <2>7. CASE AlarmRaised
    <3>1. message' = FailureMessage(stage, "STRATEGY_TIMEOUT", Hash) /\ alarm' = "raised"
      BY <2>7 DEF AlarmRaised, Emit
    <3>2. spent' >= StrategyTimeout
      BY <2>1, <2>7 DEF AlarmRaised, AlarmDue
    <3>3. /\ ModelValidate(message') /\ message'.success = FALSE
          /\ message'.code = "STRATEGY_TIMEOUT"
      BY <2>2, <3>1, FailureIsValid DEF SandboxErrorCode, StrategyErrorCodes
    <3> QED BY <2>1, <2>2, <3>1, <3>2, <3>3 DEF MessageInv
  <2> QED BY <1>7, <2>4, <2>5, <2>6, <2>7
<1> QED BY <1>1, <1>2, <1>3, <1>4, <1>5, <1>6, <1>7 DEF Next, Host, Worker

(* A result once returned is not replaced, and its cause does not go away. *)
LEMMA ResultStep == IInv /\ [Next]_vars => ResultInv'
<1> SUFFICES ASSUME IInv, [Next]_vars PROVE ResultInv'
  OBVIOUS
<1> USE DEF hostVars, dockerVars, workerVars
<1>0. ASSUME UNCHANGED <<result, stage, image>>, host' = "returned" <=> host = "returned",
             overflow => overflow', mishap = "oom" => mishap' = "oom", rc = "zero" => rc' = "zero",
             message # NoValue => message' = message
      PROVE  ResultInv'
  BY <1>0 DEF IInv, ResultInv
<1>1. CASE UNCHANGED vars \/ Poll \/ Measure \/ KillCli \/ Tick
  BY <1>0, <1>1 DEF vars, Poll, Measure, KillCli, Tick, IInv, TypeOK
<1>2. CASE ForceRemove
  BY <1>0, <1>2 DEF ForceRemove, Dies, IInv, DockerInv
<1>3. CASE StartContainer \/ StartFails \/ DaemonLost \/ Overflows \/ ContainerFails
             \/ ContainerExits
  BY <1>0, <1>3 DEF StartContainer, StartFails, DaemonLost, Overflows, ContainerFails,
     ContainerExits, Dies, IInv, DockerInv
<1>4. CASE Worker
  <2>1. worker \in {"booting", "strategy"}
    BY <1>4 DEF Worker, RejectInput, RejectData, StartStrategy, LoadRejected, CaptureFull,
       ImportFails, StrategyFails, StrategyReturns, StrategyRaises, StrategyEnds, AlarmRaised,
       AlarmSwallowed, InStrategy
  <2>2. message = NoValue
    BY <2>1 DEF IInv, WorkerInv
  <2>3. UNCHANGED <<result, stage, image, host, overflow, mishap, rc>>
    BY <1>4 DEF Worker, RejectInput, RejectData, StartStrategy, LoadRejected, CaptureFull,
       ImportFails, StrategyFails, StrategyReturns, StrategyRaises, AlarmRaised, AlarmSwallowed
  <2> QED BY <1>0, <2>2, <2>3
<1>5. ASSUME NEW value \in {"OtherException", "SandboxUnavailableError", "SANDBOX_UNAVAILABLE"},
             Return(value)
      PROVE  ResultInv'
  <2>1. value # NoValue
    BY NoValueAssumption DEF NoValueAssumption, Replies, SandboxErrorCode
  <2> QED BY <1>5, <2>1 DEF Return, ResultInv, StrategyErrorCodes
<1>6. CASE WriteInputs
  BY <1>0, <1>5, <1>6 DEF WriteInputs
<1>7. CASE Launch \/ KillUnconfirmed
  BY <1>0, <1>5, <1>7 DEF Launch, KillUnconfirmed
<1>8. CASE Reaped
  <2>1. CASE limit = "output"
    <3>1. result' = "STRATEGY_RESOURCE_LIMIT" /\ host' = "returned" /\ overflow'
      BY <1>8, <2>1, LimitResultValue DEF Reaped, Return, IInv, TypeOK, WorkerInv
    <3>2. result' # NoValue
      BY <3>1, NoValueAssumption
         DEF NoValueAssumption, Replies, SandboxErrorCode, StrategyErrorCodes
    <3> QED BY <3>1, <3>2 DEF ResultInv
  <2>2. CASE limit # "output"
    BY <1>5, <1>8, <2>2, LimitResultValue DEF Reaped, IInv, TypeOK
  <2> QED BY <2>1, <2>2
<1>9. CASE Collect
  <2>1. /\ result' = Collected /\ host' = "returned"
        /\ UNCHANGED <<stage, image, message, overflow, mishap, rc>>
    BY <1>9 DEF Collect, Return
  <2>2. rc = "killed" => mishap = "oom"
    BY <1>9 DEF Collect, IInv, DockerInv
  <2>3. Collected # NoValue
    BY CollectedValue, NoValueAssumption DEF NoValueAssumption
  <2> QED BY <2>1, <2>2, <2>3, CollectedValue DEF ResultInv
<1> QED BY <1>1, <1>2, <1>3, <1>4, <1>6, <1>7, <1>8, <1>9 DEF Next, Host, Docker

LEMMA Inductive == Spec => []IInv
<1>1. IInv /\ [Next]_vars => IInv'
  BY TypeStep, DockerStep, WorkerStep, MessageStep, ResultStep DEF IInv
<1> QED BY InitInv, <1>1, PTL DEF Spec

-----------------------------------------------------------------------------
(* Theorems.                                                               *)

(* The execution's state is well typed, whatever docker does.              *)
THEOREM TypeCorrect == Spec => []TypeOK
<1>1. IInv => TypeOK
  BY DEF IInv
<1> QED BY <1>1, Inductive, PTL

(* Every message a worker of the host's schema can print passes the host's *)
(* validators: for all exception chains, statistics and timeouts.          *)
THEOREM WorkerAlwaysSpeaksProtocol == Spec => []WorkerSpeaksProtocol
<1>1. IInv => WorkerSpeaksProtocol
  BY DEF IInv, MessageInv, WorkerSpeaksProtocol
<1> QED BY <1>1, Inductive, PTL

(* A result that costs the strategy a repair has its cause in the strategy.*)
THEOREM BlameIsAlwaysEarned == Spec => []BlameIsEarned
<1>1. IInv => BlameIsEarned
  <2> SUFFICES ASSUME IInv PROVE BlameIsEarned
    OBVIOUS
  <2>1. result \in StrategyErrorCodes \ {"STRATEGY_RESOURCE_LIMIT"} =>
           startedAt # NotStarted /\ image = "current"
    BY DEF IInv, ResultInv, MessageInv
  <2>2. result = "STRATEGY_TIMEOUT" => alarm = "raised" /\ spent >= StrategyTimeout
    BY DEF IInv, ResultInv, MessageInv, StrategyErrorCodes
  <2>3. result = "ok" => message.success /\ message.stage = stage /\ mishap # "crash"
    BY DEF IInv, ResultInv, DockerInv
  <2> QED BY <2>1, <2>2, <2>3 DEF IInv, ResultInv, BlameIsEarned
<1> QED BY <1>1, Inductive, PTL

(* Whatever the budget and the grace: a strategy that starts within the    *)
(* grace is cut off from outside only after it ran for longer than its     *)
(* budget.                                                                 *)
THEOREM GraceAlwaysCoversStart == Spec => []GraceCoversStart
<1>1. IInv => GraceCoversStart
  BY TimeTypes DEF IInv, WorkerInv, TypeOK, GraceCoversStart
<1> QED BY <1>1, Inductive, PTL

(* A container left behind was not removable, not yet there or cut off.    *)
THEOREM OrphansAreExplained == Spec => []OrphanExplained
<1>1. IInv => OrphanExplained
  BY DEF IInv, DockerInv
<1> QED BY <1>1, Inductive, PTL

(* The budget at the end of a strategy (worker.py, the signal handler): a   *)
(* message that comes after it is the timer's, unless the strategy's code   *)
(* caught the timer's exception.                                           *)
LateInv ==
    message # NoValue /\ spent > StrategyTimeout =>
        message.code = "STRATEGY_TIMEOUT" \/ alarm = "swallowed"

LEMMA LateInit == Init => LateInv
BY DEF Init, LateInv

LEMMA LateStep == IInv /\ LateInv /\ [Next]_vars => LateInv'
<1> SUFFICES ASSUME IInv, LateInv, [Next]_vars PROVE LateInv'
  OBVIOUS
<1> USE DEF hostVars, dockerVars, workerVars
<1>0. StrategyTimeout \in Nat /\ spent \in Nat
  BY TimeTypes DEF IInv, TypeOK
<1>1. CASE UNCHANGED vars \/ Host \/ Docker
  BY <1>1 DEF vars, LateInv, Host, WriteInputs, Launch, Poll, Measure, ForceRemove, Reaped,
     KillUnconfirmed, KillCli, Collect, Docker, StartContainer, StartFails, ContainerFails,
     ContainerExits, DaemonLost, Overflows
<1>2. CASE Tick
  <2>1. InStrategy => message = NoValue
    BY DEF InStrategy, IInv, WorkerInv
  <2> QED BY <1>2, <2>1 DEF Tick, LateInv
<1>3. CASE StartStrategy \/ AlarmSwallowed
  <2>1. message' = NoValue
    BY <1>3 DEF StartStrategy, AlarmSwallowed, InStrategy, IInv, WorkerInv
  <2> QED BY <2>1 DEF LateInv
<1>4. CASE RejectInput \/ RejectData
  <2>1. spent' = 0
    BY <1>4 DEF RejectInput, RejectData, IInv, WorkerInv
  <2> QED BY <1>0, <1>4, <2>1 DEF RejectInput, RejectData, LateInv
<1>5. CASE LoadRejected \/ CaptureFull \/ ImportFails \/ StrategyReturns \/ StrategyRaises
  <2>1. StrategyEnds /\ alarm' = alarm /\ spent' = spent
    BY <1>5 DEF LoadRejected, CaptureFull, ImportFails, StrategyFails, StrategyReturns,
       StrategyRaises
  <2>2. alarm = "swallowed" \/ spent <= StrategyTimeout
    BY <1>0, <2>1 DEF StrategyEnds, InStrategy, AlarmDue, IInv, WorkerInv
  <2> QED BY <1>0, <2>1, <2>2 DEF LateInv
<1>6. CASE AlarmRaised
  BY <1>6 DEF AlarmRaised, Emit, FailureMessage, Message, LateInv
<1> QED BY <1>1, <1>2, <1>3, <1>4, <1>5, <1>6 DEF Next, Worker

(* For every budget and grace: a strategy may run beyond its budget, in a  *)
(* C call or after it caught the timer's exception, but only the latter    *)
(* ever answers anything else than STRATEGY_TIMEOUT, success included.     *)
THEOREM LateAnswersAreTimeouts ==
    Spec => []( spent > StrategyTimeout /\ alarm # "swallowed" =>
                    /\ message # NoValue => message.code = "STRATEGY_TIMEOUT"
                    /\ result # "ok" )
<1> DEFINE Late == spent > StrategyTimeout /\ alarm # "swallowed" =>
                      /\ message # NoValue => message.code = "STRATEGY_TIMEOUT"
                      /\ result # "ok"
<1>1. IInv /\ LateInv => Late
  <2> SUFFICES ASSUME IInv, LateInv, spent > StrategyTimeout, alarm # "swallowed"
               PROVE  /\ message # NoValue => message.code = "STRATEGY_TIMEOUT"
                      /\ result # "ok"
    OBVIOUS
  <2>1. message # NoValue => message.code = "STRATEGY_TIMEOUT"
    BY DEF LateInv
  <2>2. ASSUME result = "ok" PROVE FALSE
    <3>1. message # NoValue /\ message.success /\ ModelValidate(message)
      BY <2>2 DEF IInv, ResultInv, MessageInv
    <3>2. message.code = NoValue /\ NoValue # "STRATEGY_TIMEOUT"
      BY <3>1, NoValueAssumption DEF ModelValidate, ValidSuccessContract, NoValueAssumption,
         Replies, SandboxErrorCode, StrategyErrorCodes
    <3> QED BY <2>1, <3>1, <3>2
  <2> QED BY <2>1, <2>2
<1> QED BY <1>1, LateInit, LateStep, Inductive, PTL DEF Spec

-----------------------------------------------------------------------------
(* Refinement of SandboxJob.                                               *)

(* Once returned, the host stays so; once started, the strategy has been.  *)
LEMMA StepFacts ==
  ASSUME IInv, [Next]_vars
  PROVE  /\ host = "returned" => host' = "returned" /\ result' = result
         /\ startedAt # NotStarted => startedAt' = startedAt
         /\ host # "returned" /\ host' = "returned" => startedAt' = startedAt
<1> USE DEF hostVars, dockerVars, workerVars
<1>1. CASE UNCHANGED vars \/ Tick
  BY <1>1 DEF vars, Tick
<1>2. CASE Host
  BY <1>2 DEF Host, WriteInputs, Launch, Poll, Measure, ForceRemove, Reaped, KillUnconfirmed,
     KillCli, Collect
<1>3. CASE Docker
  BY <1>3 DEF Docker, StartContainer, StartFails, ContainerFails, ContainerExits, DaemonLost,
     Overflows
<1>4. CASE Worker
  BY <1>4 DEF Worker, RejectInput, RejectData, StartStrategy, LoadRejected, CaptureFull,
     ImportFails, StrategyFails, StrategyReturns, StrategyRaises, AlarmRaised, AlarmSwallowed,
     IInv, WorkerInv
<1> QED BY <1>1, <1>2, <1>3, <1>4 DEF Next

(* The service knows every reply, and those it holds against the strategy  *)
(* come after its start.                                                   *)
ReplyInv ==
    host = "returned" =>
        /\ JobReply \in Job!SmokeReplies
        /\ JobReply \in Job!Earned => startedAt # NotStarted

LEMMA RepliesAreUnderstood == IInv => ReplyInv
<1> SUFFICES ASSUME IInv, host = "returned"
             PROVE  /\ JobReply \in Job!SmokeReplies
                    /\ JobReply \in Job!Earned => startedAt # NotStarted
  BY DEF ReplyInv
<1>1. result \in Replies
  BY DEF IInv, TypeOK, ResultInv
<1>2. result = "ok" \/ result \in StrategyErrorCodes \ {"STRATEGY_RESOURCE_LIMIT"} =>
         startedAt # NotStarted
  BY DEF IInv, ResultInv, MessageInv
<1>3. JobReply = IF result = "SandboxProtocolError" THEN "SandboxUnavailableError" ELSE result
  BY <1>1, NoValueAssumption DEF NoValueAssumption, JobReply
<1> QED BY <1>1, <1>2, <1>3 DEF Job!Earned, Job!SmokeReplies, Job!SAFE_SMOKE_ERRORS,
        Job!InfrastructureErrors, Replies, SandboxErrorCode, StrategyErrorCodes

LEMMA JobInit == Init => Job!Init
<1> SUFFICES ASSUME Init PROVE Job!Init
  OBVIOUS
<1> QED BY DEF Init, Job!Init, JobPhase, JobReply

LEMMA JobStep == IInv /\ IInv' /\ [Next]_vars => [Job!Next]_Job!vars
<1> SUFFICES ASSUME IInv, IInv', [Next]_vars PROVE [Job!Next]_Job!vars
  OBVIOUS
<1>1. CASE host = "returned"
  BY <1>1, StepFacts DEF Job!vars, JobPhase, JobReply
<1>2. CASE host # "returned" /\ host' = "returned"
  <2>0. ReplyInv'
    BY RepliesAreUnderstood, PTL
  <2>1. /\ JobReply' \in Job!SmokeReplies
        /\ JobReply' \in Job!Earned => startedAt' # NotStarted'
    BY <1>2, <2>0 DEF ReplyInv
  <2>2. startedAt' = startedAt /\ NotStarted' = NotStarted
    BY <1>2, StepFacts DEF NotStarted, Horizon
  <2>3. JobPhase' = "answered"
    BY <1>2 DEF JobPhase
  <2>4. JobPhase = IF startedAt # NotStarted THEN "running" ELSE "submitted"
    BY <1>2 DEF JobPhase
  <2> QED BY <2>1, <2>2, <2>3, <2>4 DEF Job!Next, Job!Answer
<1>3. CASE host # "returned" /\ host' # "returned"
  <2>1. result = NoValue /\ result' = NoValue
    BY <1>3 DEF IInv, ResultInv
  <2>2. JobReply = "none" /\ JobReply' = "none"
    BY <2>1 DEF JobReply
  <2>3. startedAt # NotStarted => startedAt' = startedAt
    BY StepFacts
  <2> QED BY <1>3, <2>2, <2>3 DEF JobPhase, Job!Next, Job!Run, Job!vars, NotStarted, Horizon
<1> QED BY <1>1, <1>2, <1>3

(* The safety part of ImplementsSandboxJob, for every timeout, grace and   *)
(* set of exception chains: each step is a step of SandboxJob or a stutter.*)
THEOREM ExecutionImplementsJob == Spec => Job!Init /\ [][Job!Next]_Job!vars
BY JobInit, JobStep, Inductive, PTL DEF Spec
=============================================================================
