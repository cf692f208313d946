-------------------------- MODULE StrategyLabProofs --------------------------
(* Proofs about StrategyLab, for any number of requests, threads, versions, *)
(* and about the report that ReliabilityMatrix makes of it.                *)
EXTENDS ReliabilityMatrix, FiniteSetTheorems, TLAPS

-----------------------------------------------------------------------------
(* The inductive invariant.                                                *)

Developing == {"idle", "generating", "validating", "smoke", "repairing"}

\* What each point of run() implies for the versions and the split.
Progress(r) ==
    /\ pc[r] \in {"idle", "generating"} => attempt[r] = 0
    /\ pc[r] \in {"validating", "smoke", "market", "backtest"} => attempt[r] > 0
    /\ pc[r] = "repairing" => attempt[r] > 0 /\ attempt[r] < MaxVersions
    /\ pc[r] \in Developing => frozen[r] = 0 /\ ~held[r] /\ scored[r] = {}
    /\ pc[r] = "market" => frozen[r] = attempt[r] /\ ~held[r] /\ scored[r] = {}
    /\ pc[r] = "backtest" => frozen[r] = attempt[r] /\ held[r] /\ scored[r] = {frozen[r]}
    /\ frozen[r] # 0 => frozen[r] = attempt[r]
    /\ held[r] => frozen[r] # 0 /\ scored[r] = {frozen[r]}
    /\ ~held[r] => scored[r] = {}

\* Why versions were given up, and who wrote them.
Trail(r) ==
    \A v \in Versions :
        /\ v < attempt[r] => verdict[r][v] \in {"static", "smoke"}
        /\ v > attempt[r] => verdict[r][v] = "none"
        /\ v = attempt[r] /\ pc[r] \in {"validating", "smoke", "market", "backtest"}
              => verdict[r][v] = "none"
        /\ v = attempt[r] /\ pc[r] = "repairing" => verdict[r][v] \in {"static", "smoke"}
        /\ verdict[r][v] # "infrastructure"
        /\ v <= attempt[r] => author[r][v] \in Models
        /\ v = frozen[r] => verdict[r][v] = "none"

\* No response before the end; at the end, the one its cause calls for.
Answers(r) ==
    /\ pc[r] # "done" => response[r] = NoResponse
    /\ pc[r] = "done" => response[r].status # 0
    /\ response[r].status = 200 =>
          /\ frozen[r] # 0 /\ held[r]
          /\ response[r].version = frozen[r]
          /\ response[r].model = author[r][frozen[r]]
          /\ response[r].error = NoError
    /\ response[r].status # 200 => response[r].version = 0
    /\ response[r].error = "StrategyPretestError" =>
          attempt[r] = MaxVersions /\ verdict[r][MaxVersions] # "none"

\* A coroutine waits exactly while its job exists, and its reply is of the
\* kind it waits for.
Waiting(r) ==
    /\ job[r] # "none" <=> pc[r] \in Awaiting
    /\ job[r] = "returned" => reply[r] \in RepliesOf(pc[r])

\* The queue names queued jobs only, each once.
QueueShape ==
    /\ \A i \in 1..Len(queue) : job[queue[i]] = "queued"
    /\ \A i, j \in 1..Len(queue) : queue[i] = queue[j] => i = j

RunInv(r) == Progress(r) /\ Trail(r) /\ Answers(r) /\ Waiting(r)

IInv == TypeOK /\ QueueShape /\ \A r \in Runs : RunInv(r)

-----------------------------------------------------------------------------
(* Every error has one of the route's four statuses, none of them 200.     *)
LEMMA StatusType == \A e : HttpStatus(e) \in {422, 500, 502, 503}
BY DEF HttpStatus

(* What a sandbox failure raises is never the pre-test error.              *)
LEMMA SandboxExceptionType ==
  \A r : SandboxException(r) \in Errors /\ SandboxException(r) # "StrategyPretestError"
BY DEF SandboxException, Errors

(* Leaving run() with an error is well typed and touches one run only.     *)
LEMMA RaiseErrorType ==
  ASSUME TypeOK, NEW r \in Runs, NEW e \in Errors, RaiseError(r, e)
  PROVE  /\ pc' \in [Runs -> Labels] /\ response' \in [Runs -> ResponseType]
         /\ pc'[r] = "done" /\ response'[r] = Answer(HttpStatus(e), e, 0, 0)
         /\ \A s \in Runs \ {r} : pc'[s] = pc[s] /\ response'[s] = response[s]
<1>1. Answer(HttpStatus(e), e, 0, 0) \in ResponseType
  BY LabAssumption, StatusType DEF Answer, ResponseType
<1> QED BY <1>1 DEF RaiseError, Goto, TypeOK, CoroutineType, Labels

(* ... and every error but the pre-test one leaves a blank answer.         *)
LEMMA RaiseRun ==
  ASSUME TypeOK, NEW r \in Runs, NEW e, e \in Errors, e # "StrategyPretestError",
         RaiseError(r, e)
  PROVE  /\ pc' \in [Runs -> Labels] /\ response' \in [Runs -> ResponseType]
         /\ \A s \in Runs \ {r} : pc'[s] = pc[s] /\ response'[s] = response[s]
         /\ pc'[r] = "done" /\ response'[r].status \in {422, 500, 502, 503}
         /\ response'[r].version = 0 /\ response'[r].error = e
<1>1. /\ pc' \in [Runs -> Labels] /\ response' \in [Runs -> ResponseType]
      /\ pc'[r] = "done" /\ response'[r] = Answer(HttpStatus(e), e, 0, 0)
      /\ \A s \in Runs \ {r} : pc'[s] = pc[s] /\ response'[s] = response[s]
  BY RaiseErrorType
<1> QED BY <1>1, StatusType DEF Answer

(* The oldest job and the rest of a queue that is not empty.               *)
LEMMA HeadFacts ==
  ASSUME TypeOK, queue # <<>>
  PROVE  /\ Head(queue) \in Runs /\ Head(queue) = queue[1] /\ Len(queue) \in Nat \ {0}
         /\ Tail(queue) \in Seq(Runs) /\ Len(Tail(queue)) = Len(queue) - 1
         /\ \A i \in 1..(Len(queue) - 1) : Tail(queue)[i] = queue[i + 1]
BY DEF TypeOK, PoolType

(* Submitting a job is well typed and keeps the queue's shape.             *)
LEMMA ToThreadPool ==
  ASSUME TypeOK, QueueShape, NEW r \in Runs, NEW label \in Labels,
         job[r] # "queued", ToThread(r, label)
  PROVE  /\ PoolType' /\ QueueShape' /\ pc' \in [Runs -> Labels]
         /\ pc'[r] = label /\ job'[r] = "queued" /\ reply'[r] = NoReply
         /\ \A s \in Runs \ {r} : pc'[s] = pc[s] /\ job'[s] = job[s] /\ reply'[s] = reply[s]
<1>1. PoolType' /\ pc' \in [Runs -> Labels]
  BY DEF TypeOK, PoolType, CoroutineType, ToThread, Goto
<1>2. QueueShape'
  <2>1. Len(queue') = Len(queue) + 1 /\ queue'[Len(queue) + 1] = r
        /\ \A i \in 1..Len(queue) : queue'[i] = queue[i] /\ queue[i] \in Runs
    BY DEF TypeOK, PoolType, ToThread
  <2>2. Len(queue) \in Nat
    BY DEF TypeOK, PoolType
  <2> QED BY <2>1, <2>2 DEF QueueShape, TypeOK, PoolType, ToThread
<1> QED BY <1>1, <1>2 DEF TypeOK, PoolType, CoroutineType, ToThread, Goto

(* So is taking a returned job's reply.                                    *)
LEMMA ClearPool ==
  ASSUME TypeOK, QueueShape, NEW r \in Runs, job[r] # "queued", Clear(r)
  PROVE  /\ PoolType' /\ QueueShape' /\ job'[r] = "none"
         /\ \A s \in Runs \ {r} : job'[s] = job[s] /\ reply'[s] = reply[s]
BY DEF TypeOK, PoolType, QueueShape, Clear

(* Giving a version up either ends the run or asks for a repair.           *)
LEMMA RepairOrFailType ==
  ASSUME TypeOK, NEW r \in Runs, NEW why \in {"static", "smoke"}, RepairOrFail(r, why)
  PROVE  /\ pc' \in [Runs -> Labels] /\ response' \in [Runs -> ResponseType]
         /\ verdict' \in [Runs -> [Versions -> {"none", "static", "smoke", "infrastructure"}]]
         /\ \A s \in Runs \ {r} :
               pc'[s] = pc[s] /\ response'[s] = response[s] /\ verdict'[s] = verdict[s]
         /\ verdict'[r] = [verdict[r] EXCEPT ![attempt[r]] = why]
         /\ \/ /\ attempt[r] >= MaxVersions /\ pc'[r] = "done"
               /\ response'[r] = Answer(422, "StrategyPretestError", 0, 0)
            \/ /\ attempt[r] < MaxVersions /\ pc'[r] = "repairing"
               /\ response' = response
<1>1. /\ verdict' \in [Runs -> [Versions -> {"none", "static", "smoke", "infrastructure"}]]
      /\ verdict'[r] = [verdict[r] EXCEPT ![attempt[r]] = why]
      /\ \A s \in Runs \ {r} : verdict'[s] = verdict[s]
  BY DEF TypeOK, HistoryType, RepairOrFail
<1>2. CASE Exhausted(r)
  <2>1. RaiseError(r, "StrategyPretestError")
    BY <1>2 DEF RepairOrFail
  <2>2. HttpStatus("StrategyPretestError") = 422
    BY DEF HttpStatus, InfrastructureErrors
  <2>3. "StrategyPretestError" \in Errors
    BY DEF Errors
  <2>4. /\ pc' \in [Runs -> Labels] /\ response' \in [Runs -> ResponseType]
        /\ pc'[r] = "done" /\ response'[r] = Answer(422, "StrategyPretestError", 0, 0)
        /\ \A s \in Runs \ {r} : pc'[s] = pc[s] /\ response'[s] = response[s]
    BY <2>1, <2>2, <2>3, RaiseErrorType
  <2> QED BY <1>1, <1>2, <2>4 DEF Exhausted
<1>3. CASE ~Exhausted(r)
  <2>1. attempt[r] < MaxVersions
    BY <1>3, LabAssumption DEF Exhausted, TypeOK, CoroutineType
  <2> QED BY <1>1, <1>3, <2>1 DEF RepairOrFail, Goto, TypeOK, CoroutineType, Labels
<1> QED BY <1>2, <1>3

(* A run none of whose variables changes keeps its invariant.              *)
LEMMA Frame ==
  ASSUME NEW s \in Runs, RunInv(s),
         pc'[s] = pc[s], attempt'[s] = attempt[s], author'[s] = author[s],
         frozen'[s] = frozen[s], held'[s] = held[s], job'[s] = job[s],
         reply'[s] = reply[s], response'[s] = response[s],
         verdict'[s] = verdict[s], scored'[s] = scored[s]
  PROVE  RunInv(s)'
BY DEF RunInv, Progress, Trail, Answers, Waiting

-----------------------------------------------------------------------------
(* The initial states satisfy the inductive invariant.                     *)
LEMMA InitIInv == Init => IInv
<1> SUFFICES ASSUME Init PROVE IInv
  OBVIOUS
<1> USE LabAssumption DEF Init, Versions, NoReply, NoError, NoResponse, Answer
<1>1. CoroutineType
  BY DEF CoroutineType, Labels, ResponseType
<1>2. PoolType /\ HistoryType
  BY DEF PoolType, HistoryType
<1>3. QueueShape
  BY DEF QueueShape
<1>4. ASSUME NEW r \in Runs PROVE RunInv(r)
  BY <1>4 DEF RunInv, Progress, Trail, Answers, Waiting, Developing, Awaiting
<1> QED BY <1>1, <1>2, <1>3, <1>4 DEF IInv, TypeOK

(* A thread takes the oldest job.                                          *)
LEMMA StartJobIInv == IInv /\ StartJob => IInv'
<1> SUFFICES ASSUME IInv, StartJob PROVE IInv'
  OBVIOUS
<1> USE DEF coroutine
<1>1. /\ Head(queue) \in Runs /\ Head(queue) = queue[1] /\ Len(queue) \in Nat \ {0}
      /\ Tail(queue) \in Seq(Runs) /\ Len(Tail(queue)) = Len(queue) - 1
      /\ \A i \in 1..(Len(queue) - 1) : Tail(queue)[i] = queue[i + 1]
  BY HeadFacts DEF IInv, StartJob
<1>2. TypeOK'
  BY <1>1 DEF IInv, TypeOK, CoroutineType, PoolType, HistoryType, StartJob
<1>3. QueueShape'
  BY <1>1 DEF IInv, TypeOK, PoolType, QueueShape, StartJob
<1>4. job[Head(queue)] = "queued"
  BY <1>1 DEF IInv, QueueShape
<1>5. ASSUME NEW s \in Runs PROVE RunInv(s)'
  BY <1>1, <1>4, <1>5 DEF IInv, TypeOK, PoolType, StartJob, RunInv, Progress, Trail,
                Answers, Waiting
<1> QED BY <1>2, <1>3, <1>5 DEF IInv

(* A job returns with a reply of the kind its coroutine waits for.         *)
LEMMA EndJobIInv == ASSUME NEW r \in Runs PROVE IInv /\ EndJob(r) => IInv'
<1> SUFFICES ASSUME IInv, EndJob(r) PROVE IInv'
  OBVIOUS
<1> USE DEF coroutine
<1>1. pc[r] \in Awaiting
  BY DEF IInv, RunInv, Waiting, EndJob
<1>2. RepliesOf(pc[r]) \subseteq BacktestReplies \cup MarketReplies
  BY <1>1 DEF RepliesOf, Awaiting, BacktestReplies
<1>3. TypeOK'
  BY <1>2 DEF IInv, TypeOK, CoroutineType, PoolType, HistoryType, EndJob
<1>4. QueueShape'
  BY DEF IInv, TypeOK, PoolType, QueueShape, EndJob
<1>5. ASSUME NEW s \in Runs PROVE RunInv(s)'
  BY <1>5 DEF IInv, TypeOK, PoolType, EndJob, RunInv, Progress, Trail, Answers, Waiting
<1> QED BY <1>3, <1>4, <1>5 DEF IInv

(* The first await, or an unsupported symbol.                              *)
LEMMA AcceptIInv == ASSUME NEW r \in Runs PROVE IInv /\ Accept(r) => IInv'
<1> SUFFICES ASSUME IInv, Accept(r) PROVE IInv'
  OBVIOUS
<1> USE LabAssumption DEF coroutine, pool
<1>1. /\ pc' \in [Runs -> Labels] /\ response' \in [Runs -> ResponseType]
      /\ \A s \in Runs \ {r} : pc'[s] = pc[s] /\ response'[s] = response[s]
      /\ \/ pc'[r] = "generating" /\ response'[r] = response[r]
         \/ /\ pc'[r] = "done" /\ response'[r].status \in {422, 500, 502, 503}
            /\ response'[r].version = 0 /\ response'[r].error # "StrategyPretestError"
  <2>1. CASE RaiseError(r, "UnsupportedBistSymbolError")
    BY <2>1, RaiseRun DEF IInv, Errors
  <2>2. CASE Goto(r, "generating") /\ UNCHANGED response
    BY <2>2 DEF Goto, IInv, TypeOK, CoroutineType, Labels
  <2> QED BY <2>1, <2>2 DEF Accept
<1>5. TypeOK'
  BY <1>1 DEF Accept, IInv, TypeOK, CoroutineType, PoolType, HistoryType
<1>6. QueueShape'
  BY DEF Accept, IInv, QueueShape
<1>7. ASSUME NEW s \in Runs, s # r PROVE RunInv(s)'
  BY <1>1, <1>7, Frame DEF Accept, IInv, TypeOK, CoroutineType, PoolType, HistoryType
<1>8. RunInv(r)'
  BY <1>1 DEF Accept, IInv, TypeOK, CoroutineType, PoolType, HistoryType, RunInv,
              Progress, Trail, Answers, Waiting, Awaiting, Developing, NoResponse, Answer,
              NoReply, NoError, Versions
<1> QED BY <1>5, <1>6, <1>7, <1>8 DEF IInv

(* New code arrives, with the model that wrote it.                         *)
LEMMA GeneratedIInv == ASSUME NEW r \in Runs PROVE IInv /\ Generated(r) => IInv'
<1> SUFFICES ASSUME IInv, Generated(r) PROVE IInv'
  OBVIOUS
<1> USE LabAssumption DEF coroutine, pool
<1>1. attempt[r] < MaxVersions /\ attempt[r] + 1 \in Versions
  BY DEF Generated, IInv, TypeOK, CoroutineType, RunInv, Progress, Versions
<1>2. PICK m \in Models : author' = [author EXCEPT ![r][attempt[r] + 1] = m]
  BY DEF Generated, NewVersion
<1>5. TypeOK'
  BY <1>1, <1>2 DEF Generated, NewVersion, Goto, IInv, TypeOK, CoroutineType, PoolType,
                HistoryType, Labels
<1>6. QueueShape'
  BY DEF Generated, IInv, QueueShape
<1>7. ASSUME NEW s \in Runs, s # r PROVE RunInv(s)'
  BY <1>1, <1>2, <1>7, Frame DEF NewVersion, Goto, Generated, IInv, TypeOK, CoroutineType,
                PoolType, HistoryType
<1>8. RunInv(r)'
  BY <1>1, <1>2 DEF Generated, NewVersion, Goto, IInv, TypeOK, CoroutineType, PoolType,
                HistoryType, RunInv, Progress, Trail, Answers, Waiting, Awaiting,
                Developing, NoResponse, Answer, NoReply, NoError, Versions
<1> QED BY <1>5, <1>6, <1>7, <1>8 DEF IInv

(* The provider's error, or any other, ends the run.                       *)
LEMMA ProviderFailedIInv == ASSUME NEW r \in Runs PROVE IInv /\ ProviderFailed(r) => IInv'
<1> SUFFICES ASSUME IInv, ProviderFailed(r) PROVE IInv'
  OBVIOUS
<1> USE LabAssumption DEF coroutine, pool
<1>1. /\ pc' \in [Runs -> Labels] /\ response' \in [Runs -> ResponseType]
      /\ \A s \in Runs \ {r} : pc'[s] = pc[s] /\ response'[s] = response[s]
      /\ pc'[r] = "done" /\ response'[r].status \in {422, 500, 502, 503}
      /\ response'[r].version = 0 /\ response'[r].error # "StrategyPretestError"
  BY RaiseRun DEF ProviderFailed, IInv, Errors
<1>5. TypeOK'
  BY <1>1 DEF ProviderFailed, IInv, TypeOK, CoroutineType, PoolType, HistoryType
<1>6. QueueShape'
  BY DEF ProviderFailed, IInv, QueueShape
<1>7. ASSUME NEW s \in Runs, s # r PROVE RunInv(s)'
  BY <1>1, <1>7, Frame DEF ProviderFailed, IInv, TypeOK, CoroutineType, PoolType, HistoryType
<1>8. RunInv(r)'
  <2>0. pc[r] \in Developing \ {"smoke"} /\ UNCHANGED <<attempt, frozen, held, scored, job>>
    BY DEF ProviderFailed, Developing
  <2>1. Progress(r)'
    BY <1>1, <2>0 DEF IInv, RunInv, Progress, Developing
  <2>3. Waiting(r)'
    BY <1>1, <2>0 DEF IInv, RunInv, Waiting, Awaiting, Developing
  <2>2. Trail(r)' /\ Answers(r)'
    BY <1>1 DEF ProviderFailed, IInv, TypeOK, CoroutineType, PoolType, HistoryType,
                RunInv, Progress, Trail, Answers, Versions
  <2> QED BY <2>1, <2>2, <2>3 DEF RunInv
<1> QED BY <1>5, <1>6, <1>7, <1>8 DEF IInv

(* The passing version is frozen and market data asked for.                *)
LEMMA FreezeVersionIInv == ASSUME NEW r \in Runs PROVE IInv /\ FreezeVersion(r) => IInv'
<1> SUFFICES ASSUME IInv, FreezeVersion(r) PROVE IInv'
  OBVIOUS
<1> USE LabAssumption DEF coroutine, pool
<1>1. /\ PoolType' /\ QueueShape' /\ pc' \in [Runs -> Labels]
      /\ pc'[r] = "market" /\ job'[r] = "queued" /\ reply'[r] = NoReply
      /\ \A s \in Runs \ {r} : pc'[s] = pc[s] /\ job'[s] = job[s] /\ reply'[s] = reply[s]
  BY ToThreadPool DEF FreezeVersion, Resume, IInv, Labels
<1>5. TypeOK'
  BY <1>1 DEF FreezeVersion, IInv, TypeOK, CoroutineType, PoolType, HistoryType
<1>6. QueueShape'
  BY <1>1
<1>7. ASSUME NEW s \in Runs, s # r PROVE RunInv(s)'
  BY <1>1, <1>7, Frame DEF FreezeVersion, IInv, TypeOK, CoroutineType, PoolType, HistoryType
<1>8. RunInv(r)'
  BY <1>1 DEF FreezeVersion, Resume, IInv, TypeOK, CoroutineType, PoolType, HistoryType,
              RunInv, Progress, Trail, Answers, Waiting, Awaiting, Developing, NoResponse,
              Answer, NoReply, NoError, Versions
<1> QED BY <1>5, <1>6, <1>7, <1>8 DEF IInv

(* The split arrives and the frozen version is scored on it.               *)
LEMMA BacktestFrozenIInv == ASSUME NEW r \in Runs PROVE IInv /\ BacktestFrozen(r) => IInv'
<1> SUFFICES ASSUME IInv, BacktestFrozen(r) PROVE IInv'
  OBVIOUS
<1> USE LabAssumption DEF coroutine, pool
<1>1. /\ PoolType' /\ QueueShape' /\ pc' \in [Runs -> Labels]
      /\ pc'[r] = "backtest" /\ job'[r] = "queued" /\ reply'[r] = NoReply
      /\ \A s \in Runs \ {r} : pc'[s] = pc[s] /\ job'[s] = job[s] /\ reply'[s] = reply[s]
  BY ToThreadPool DEF BacktestFrozen, Resume, IInv, Labels
<1>5. TypeOK'
  <2>1. held' \in [Runs -> BOOLEAN]
    BY DEF BacktestFrozen, IInv, TypeOK, CoroutineType
  <2>2. scored' \in [Runs -> SUBSET (0..MaxVersions)]
    BY DEF BacktestFrozen, IInv, TypeOK, CoroutineType, HistoryType
  <2> QED BY <1>1, <2>1, <2>2 DEF BacktestFrozen, IInv, TypeOK, CoroutineType, PoolType,
                HistoryType
<1>6. QueueShape'
  BY <1>1
<1>7. ASSUME NEW s \in Runs, s # r PROVE RunInv(s)'
  BY <1>1, <1>7, Frame DEF BacktestFrozen, IInv, TypeOK, CoroutineType, PoolType, HistoryType
<1>8. RunInv(r)'
  BY <1>1 DEF BacktestFrozen, Resume, IInv, TypeOK, CoroutineType, PoolType, HistoryType,
              RunInv, Progress, Trail, Answers, Waiting, Awaiting, Developing, NoResponse,
              Answer, NoReply, NoError, Versions
<1> QED BY <1>5, <1>6, <1>7, <1>8 DEF IInv

(* No usable market data: the run ends.                                    *)
LEMMA MarketFailedIInv == ASSUME NEW r \in Runs PROVE IInv /\ MarketFailed(r) => IInv'
<1> SUFFICES ASSUME IInv, MarketFailed(r) PROVE IInv'
  OBVIOUS
<1> USE LabAssumption DEF coroutine, pool
<1>1. /\ pc' \in [Runs -> Labels] /\ response' \in [Runs -> ResponseType]
      /\ \A s \in Runs \ {r} : pc'[s] = pc[s] /\ response'[s] = response[s]
      /\ pc'[r] = "done" /\ response'[r].status \in {422, 500, 502, 503}
      /\ response'[r].version = 0 /\ response'[r].error # "StrategyPretestError"
  <2>1. reply[r] \in MarketReplies \ {"ok"}
    BY DEF MarketFailed, Resume, IInv, RunInv, Waiting, RepliesOf
  <2>2. reply[r] \in Errors /\ reply[r] # "StrategyPretestError"
    BY <2>1 DEF Errors, MarketReplies
  <2> QED BY <2>2, RaiseRun DEF MarketFailed, IInv
<1>2. /\ PoolType' /\ QueueShape' /\ job'[r] = "none"
      /\ \A s \in Runs \ {r} : job'[s] = job[s] /\ reply'[s] = reply[s]
  BY ClearPool DEF MarketFailed, Resume, IInv
<1>5. TypeOK'
  BY <1>1, <1>2 DEF MarketFailed, IInv, TypeOK, CoroutineType, PoolType, HistoryType
<1>6. QueueShape'
  BY <1>2
<1>7. ASSUME NEW s \in Runs, s # r PROVE RunInv(s)'
  BY <1>1, <1>2, <1>7, Frame DEF MarketFailed, IInv, TypeOK, CoroutineType, PoolType,
                HistoryType
<1>8. RunInv(r)'
  BY <1>1, <1>2 DEF MarketFailed, Resume, IInv, TypeOK, CoroutineType, PoolType,
                HistoryType, RunInv, Progress, Trail, Answers, Waiting, Awaiting,
                Developing, NoResponse, Answer, NoReply, NoError, Versions
<1> QED BY <1>5, <1>6, <1>7, <1>8 DEF IInv

(* A frozen version that fails ends the run.                               *)
LEMMA BacktestFailedIInv == ASSUME NEW r \in Runs PROVE IInv /\ BacktestFailed(r) => IInv'
<1> SUFFICES ASSUME IInv, BacktestFailed(r) PROVE IInv'
  OBVIOUS
<1> USE LabAssumption DEF coroutine, pool
<1>1. /\ pc' \in [Runs -> Labels] /\ response' \in [Runs -> ResponseType]
      /\ \A s \in Runs \ {r} : pc'[s] = pc[s] /\ response'[s] = response[s]
      /\ pc'[r] = "done" /\ response'[r].status \in {422, 500, 502, 503}
      /\ response'[r].version = 0 /\ response'[r].error # "StrategyPretestError"
  <2>1. PICK e \in Errors : e # "StrategyPretestError" /\ RaiseError(r, e)
    BY SandboxExceptionType DEF BacktestFailed, AfterFailedBacktest, Errors
  <2> QED BY <2>1, RaiseRun DEF IInv
<1>2. /\ PoolType' /\ QueueShape' /\ job'[r] = "none"
      /\ \A s \in Runs \ {r} : job'[s] = job[s] /\ reply'[s] = reply[s]
  BY ClearPool DEF BacktestFailed, Resume, IInv
<1>5. TypeOK'
  BY <1>1, <1>2 DEF BacktestFailed, AfterFailedBacktest, IInv, TypeOK, CoroutineType,
                PoolType, HistoryType
<1>6. QueueShape'
  BY <1>2
<1>7. ASSUME NEW s \in Runs, s # r PROVE RunInv(s)'
  BY <1>1, <1>2, <1>7, Frame DEF AfterFailedBacktest, BacktestFailed, IInv, TypeOK,
                CoroutineType, PoolType, HistoryType
<1>8. RunInv(r)'
  BY <1>1, <1>2 DEF BacktestFailed, AfterFailedBacktest, Resume, IInv, TypeOK,
                CoroutineType, PoolType, HistoryType, RunInv, Progress, Trail, Answers,
                Waiting, Awaiting, Developing, NoResponse, Answer, NoReply, NoError,
                Versions
<1> QED BY <1>5, <1>6, <1>7, <1>8 DEF IInv

(* The answer describes the frozen version.                                *)
LEMMA ReportIInv == ASSUME NEW r \in Runs PROVE IInv /\ Report(r) => IInv'
<1> SUFFICES ASSUME IInv, Report(r) PROVE IInv'
  OBVIOUS
<1> USE LabAssumption DEF coroutine, pool
<1>0. frozen[r] \in Versions /\ author[r][frozen[r]] \in Models
  BY DEF Report, Resume, IInv, TypeOK, CoroutineType, RunInv, Progress, Trail, Versions
<1>1. /\ pc' \in [Runs -> Labels] /\ pc'[r] = "done"
      /\ response'[r] = Answer(200, NoError, frozen[r], author[r][frozen[r]])
      /\ response'[r] \in ResponseType /\ response' \in [Runs -> ResponseType]
      /\ \A s \in Runs \ {r} : pc'[s] = pc[s] /\ response'[s] = response[s]
  <2>1. Answer(200, NoError, frozen[r], author[r][frozen[r]]) \in ResponseType
    BY <1>0 DEF Answer, ResponseType, Versions
  <2> QED BY <2>1 DEF Report, FrozenModel, Goto, Labels, IInv, TypeOK, CoroutineType
<1>2. /\ PoolType' /\ QueueShape' /\ job'[r] = "none"
      /\ \A s \in Runs \ {r} : job'[s] = job[s] /\ reply'[s] = reply[s]
  BY ClearPool DEF Report, Resume, IInv
<1>5. TypeOK'
  BY <1>1, <1>2 DEF Report, IInv, TypeOK, CoroutineType, PoolType, HistoryType
<1>6. QueueShape'
  BY <1>2
<1>7. ASSUME NEW s \in Runs, s # r PROVE RunInv(s)'
  BY <1>1, <1>2, <1>7, Frame DEF Report, IInv, TypeOK, CoroutineType, PoolType, HistoryType
<1>8. RunInv(r)'
  BY <1>1, <1>2 DEF Report, Resume, IInv, TypeOK, CoroutineType, PoolType, HistoryType,
                RunInv, Progress, Trail, Answers, Waiting, Awaiting, Developing,
                NoResponse, Answer, NoReply, NoError, Versions
<1> QED BY <1>5, <1>6, <1>7, <1>8 DEF IInv

(* A strategy's own failure is repaired, any other ends the run.           *)
LEMMA SmokeFailedIInv == ASSUME NEW r \in Runs PROVE IInv /\ SmokeFailed(r) => IInv'
<1> SUFFICES ASSUME IInv, SmokeFailed(r) PROVE IInv'
  OBVIOUS
<1> USE LabAssumption DEF coroutine, pool
<1>1. /\ pc' \in [Runs -> Labels] /\ response' \in [Runs -> ResponseType]
      /\ verdict' \in [Runs -> [Versions -> {"none", "static", "smoke", "infrastructure"}]]
      /\ \A s \in Runs \ {r} :
            pc'[s] = pc[s] /\ response'[s] = response[s] /\ verdict'[s] = verdict[s]
      /\ \/ /\ verdict'[r] = verdict[r] /\ pc'[r] = "done"
            /\ response'[r].status \in {422, 500, 502, 503} /\ response'[r].version = 0
            /\ response'[r].error # "StrategyPretestError"
         \/ /\ verdict'[r] = [verdict[r] EXCEPT ![attempt[r]] = "smoke"]
            /\ \/ /\ attempt[r] >= MaxVersions /\ pc'[r] = "done"
                  /\ response'[r] = Answer(422, "StrategyPretestError", 0, 0)
               \/ attempt[r] < MaxVersions /\ pc'[r] = "repairing" /\ response' = response
  <2>1. CASE ToRepair(r)
    <3>1. RepairOrFail(r, "smoke")
      BY <2>1 DEF SmokeFailed, ToRepair, Blame
    <3> QED BY <3>1, RepairOrFailType DEF IInv
  <2>2. CASE ~ToRepair(r)
    <3>1. RaiseError(r, SandboxException(r)) /\ verdict' = verdict
      BY <2>2 DEF SmokeFailed
    <3> QED BY <3>1, SandboxExceptionType, RaiseRun DEF IInv, TypeOK, HistoryType
  <2> QED BY <2>1, <2>2
<1>2. /\ PoolType' /\ QueueShape' /\ job'[r] = "none"
      /\ \A s \in Runs \ {r} : job'[s] = job[s] /\ reply'[s] = reply[s]
  BY ClearPool DEF SmokeFailed, Resume, IInv
<1>5. TypeOK'
  BY <1>1, <1>2 DEF SmokeFailed, IInv, TypeOK, CoroutineType, PoolType, HistoryType
<1>6. QueueShape'
  BY <1>2
<1>7. ASSUME NEW s \in Runs, s # r PROVE RunInv(s)'
  BY <1>1, <1>2, <1>7, Frame DEF SmokeFailed, IInv, TypeOK, CoroutineType, PoolType, HistoryType
<1>8. RunInv(r)'
  BY <1>1, <1>2 DEF SmokeFailed, Resume, IInv, TypeOK, CoroutineType, PoolType,
                HistoryType, RunInv, Progress, Trail, Answers, Waiting, Awaiting,
                Developing, NoResponse, Answer, NoReply, NoError, Versions
<1> QED BY <1>5, <1>6, <1>7, <1>8 DEF IInv

(* Valid code is submitted, invalid code is repaired.                      *)
LEMMA ValidateIInv == ASSUME NEW r \in Runs PROVE IInv /\ Validate(r) => IInv'
<1> SUFFICES ASSUME IInv, Validate(r) PROVE IInv'
  OBVIOUS
<1> USE LabAssumption DEF coroutine, pool
<1>1. /\ PoolType' /\ QueueShape' /\ pc' \in [Runs -> Labels]
      /\ response' \in [Runs -> ResponseType]
      /\ verdict' \in [Runs -> [Versions -> {"none", "static", "smoke", "infrastructure"}]]
      /\ \A s \in Runs \ {r} :
            /\ pc'[s] = pc[s] /\ response'[s] = response[s] /\ verdict'[s] = verdict[s]
            /\ job'[s] = job[s] /\ reply'[s] = reply[s]
      /\ \/ /\ verdict'[r] = verdict[r] /\ response'[r] = response[r]
            /\ pc'[r] = "smoke" /\ job'[r] = "queued" /\ reply'[r] = NoReply
         \/ /\ verdict'[r] = verdict[r] /\ pc'[r] = "done" /\ job'[r] = job[r]
            /\ response'[r].status \in {422, 500, 502, 503} /\ response'[r].version = 0
            /\ response'[r].error # "StrategyPretestError"
         \/ /\ verdict'[r] = [verdict[r] EXCEPT ![attempt[r]] = "static"]
            /\ job'[r] = job[r]
            /\ \/ /\ attempt[r] >= MaxVersions /\ pc'[r] = "done"
                  /\ response'[r] = Answer(422, "StrategyPretestError", 0, 0)
               \/ attempt[r] < MaxVersions /\ pc'[r] = "repairing" /\ response' = response
  <2>0. job[r] = "none"
    BY DEF Validate, IInv, RunInv, Waiting, Awaiting
  <2>1. CASE ToThread(r, "smoke") /\ UNCHANGED <<response, verdict>>
    BY <2>0, <2>1, ToThreadPool DEF IInv, TypeOK, CoroutineType, HistoryType, Labels
  <2>2. CASE RepairOrFail(r, "static") /\ UNCHANGED pool
    <3>1. PoolType' /\ QueueShape' /\ job' = job /\ reply' = reply
      BY <2>2 DEF IInv, TypeOK, PoolType, QueueShape
    <3> QED BY <2>2, <3>1, RepairOrFailType DEF IInv
  <2>3. CASE RaiseError(r, "OtherException") /\ UNCHANGED <<pool, verdict>>
    BY <2>3, RaiseRun DEF IInv, TypeOK, PoolType, HistoryType, QueueShape, Errors, MarketReplies
  <2> QED BY <2>1, <2>2, <2>3 DEF Validate
<1>5. TypeOK'
  BY <1>1 DEF Validate, IInv, TypeOK, CoroutineType, PoolType, HistoryType
<1>6. QueueShape'
  BY <1>1
<1>7. ASSUME NEW s \in Runs, s # r PROVE RunInv(s)'
  BY <1>1, <1>7, Frame DEF Validate, IInv, TypeOK, CoroutineType, PoolType, HistoryType
<1>8. RunInv(r)'
  <2> USE DEF RunInv, Progress, Trail, Answers, Waiting, Awaiting, Developing, Versions
  <2>1. UNCHANGED <<attempt, author, frozen, held, scored>>
    BY <1>1 DEF Validate
  <2>2. pc[r] = "validating" /\ RunInv(r) /\ attempt[r] \in 0..MaxVersions
    BY DEF Validate, IInv, TypeOK, CoroutineType
  <2>3. Progress(r)'
    BY <1>1, <2>1, <2>2 DEF NoResponse, Answer, NoError, IInv, TypeOK, CoroutineType
  <2>4. Trail(r)'
    BY <1>1, <2>1, <2>2 DEF IInv, TypeOK, CoroutineType, HistoryType
  <2>5. Answers(r)'
    BY <1>1, <2>1, <2>2 DEF NoResponse, Answer, NoError, IInv, TypeOK, CoroutineType,
                            HistoryType
  <2>6. Waiting(r)'
    BY <1>1, <2>1, <2>2
  <2> QED BY <2>3, <2>4, <2>5, <2>6
<1> QED BY <1>5, <1>6, <1>7, <1>8 DEF IInv

(* Every step preserves the inductive invariant.                           *)
LEMMA NextIInv == IInv /\ [Next]_vars => IInv'
<1>1. ASSUME IInv, UNCHANGED vars PROVE IInv'
  <2>1. TypeOK' /\ QueueShape'
    BY <1>1 DEF IInv, TypeOK, CoroutineType, PoolType, HistoryType, QueueShape, vars,
                coroutine, pool
  <2>2. ASSUME NEW s \in Runs PROVE RunInv(s)'
    BY <1>1, <2>2, Frame DEF IInv, vars, coroutine, pool
  <2> QED BY <2>1, <2>2 DEF IInv
<1> QED
  BY <1>1, StartJobIInv, AcceptIInv, EndJobIInv, GeneratedIInv, ProviderFailedIInv,
     ValidateIInv, FreezeVersionIInv,
     SmokeFailedIInv, BacktestFrozenIInv, MarketFailedIInv, ReportIInv,
     BacktestFailedIInv DEF Next, Coroutine

(* The inductive invariant holds in every reachable state.                 *)
THEOREM Inductive == Spec => []IInv
BY InitIInv, NextIInv, PTL DEF Spec

-----------------------------------------------------------------------------
(* Type correctness of every request's coroutine and of the pool.          *)
THEOREM TypeCorrect == Spec => []TypeOK
<1>1. IInv => TypeOK
  BY DEF IInv
<1> QED BY <1>1, Inductive, PTL

(* Held-out isolation: whatever the strategies, the provider, the sandbox  *)
(* and the pool do, no version is written after a run has seen its         *)
(* held-out data, and only the frozen version is scored on it.             *)
THEOREM HeldOutIsIsolated == Spec => []HeldOutIsolation
<1>1. IInv => HeldOutIsolation
  BY DEF IInv, TypeOK, CoroutineType, HeldOutIsolation, RunInv, Progress
<1> QED BY <1>1, Inductive, PTL

(* Repairs are spent on the strategy's own faults only, and the pre-test   *)
(* error means that they are spent.                                        *)
THEOREM TrailIsJustified == Spec => []VersionTrail
<1>1. IInv => VersionTrail
  <2> SUFFICES ASSUME IInv, NEW r \in Runs
               PROVE  /\ \A v \in Versions : v < attempt[r] => verdict[r][v] \in {"static", "smoke"}
                      /\ \A v \in Versions : verdict[r][v] # "infrastructure"
                      /\ frozen[r] > 0 => verdict[r][frozen[r]] = "none"
                      /\ response[r].error = "StrategyPretestError" =>
                            attempt[r] = MaxVersions /\ verdict[r][MaxVersions] # "none"
    BY DEF VersionTrail
  <2>1. frozen[r] > 0 => frozen[r] \in Versions
    BY DEF IInv, TypeOK, CoroutineType, Versions
  <2> QED BY <2>1 DEF IInv, RunInv, Trail, Answers
<1> QED BY <1>1, Inductive, PTL

(* A 200 describes the frozen, scored version and the model that wrote it. *)
THEOREM ResponsesDescribeFrozen == Spec => []ResponseDescribesFrozen
<1>1. IInv => ResponseDescribesFrozen
  BY DEF IInv, TypeOK, CoroutineType, ResponseDescribesFrozen, RunInv, Progress, Trail,
         Answers, Versions
<1> QED BY <1>1, Inductive, PTL

-----------------------------------------------------------------------------
(* The report.  What an answer's error says of the run it ends.            *)

BeforeHeldOut ==
    {"UnsupportedBistSymbolError", "StrategyPretestError", "InsufficientMarketDataError"}

Cause(r) ==
    /\ response[r].status \notin {0, 200} => response[r].status = HttpStatus(response[r].error)
    /\ response[r].error \in BeforeHeldOut => scored[r] = {}
    /\ response[r].error = "UnsupportedBistSymbolError" => attempt[r] = 0
    /\ response[r].error = "FrozenStrategyExecutionError" => held[r]

Causes == \A r \in Runs : Cause(r)

(* A run that the step leaves alone keeps its cause.                       *)
LEMMA CauseFrame ==
  ASSUME Causes, NEW s \in Runs,
         /\ response'[s] = response[s] /\ scored'[s] = scored[s]
         /\ attempt'[s] = attempt[s] /\ held'[s] = held[s]
  PROVE  Cause(s)'
BY DEF Causes, Cause

(* Raising an error answers one run with that error and its status.        *)
LEMMA CauseOfRaise ==
  ASSUME IInv, NEW r \in Runs, NEW e \in Errors, RaiseError(r, e)
  PROVE  /\ response'[r].status = HttpStatus(e) /\ response'[r].error = e
         /\ \A s \in Runs \ {r} : response'[s] = response[s]
BY DEF IInv, TypeOK, CoroutineType, RaiseError, Answer

(* The steps that raise, each with an error that fits where the run is.    *)
LEMMA AcceptCauses == ASSUME NEW r \in Runs PROVE IInv /\ Causes /\ Accept(r) => Causes'
<1> SUFFICES ASSUME IInv, Causes, Accept(r), NEW s \in Runs PROVE Cause(s)'
  BY DEF Causes
<1>1. UNCHANGED <<attempt, held, scored>>
  BY DEF Accept
<1>2. CASE UNCHANGED response
  BY <1>1, <1>2, CauseFrame
<1>3. CASE RaiseError(r, "UnsupportedBistSymbolError")
  <2>1. attempt[r] = 0 /\ scored[r] = {}
    <3>1. pc[r] = "idle"
      BY DEF Accept
    <3> QED BY <3>1 DEF IInv, RunInv, Progress, Developing
  <2>2. CASE s = r
    BY <1>1, <1>3, <2>1, <2>2, CauseOfRaise, StatusType DEF Cause, Errors
  <2>3. CASE s # r
    BY <1>1, <1>3, <2>3, CauseOfRaise, CauseFrame DEF Errors
  <2> QED BY <2>2, <2>3
<1> QED BY <1>2, <1>3 DEF Accept

(* What RepairOrFail answers, while the run develops.                      *)
LEMMA RepairOrFailCauses ==
  ASSUME IInv, Causes, NEW r \in Runs, NEW why, RepairOrFail(r, why),
         pc[r] \in {"validating", "smoke"}, UNCHANGED <<attempt, held, scored>>
  PROVE  Causes'
<1> SUFFICES ASSUME NEW s \in Runs PROVE Cause(s)'
  BY DEF Causes
<1>1. CASE UNCHANGED response
  BY <1>1, CauseFrame
<1>2. CASE RaiseError(r, "StrategyPretestError")
  <2>1. scored[r] = {}
    BY DEF IInv, RunInv, Progress, Developing
  <2>2. CASE s = r
    BY <1>2, <2>1, <2>2, CauseOfRaise, StatusType DEF Cause, Errors
  <2>3. CASE s # r
    BY <1>2, <2>3, CauseOfRaise, CauseFrame DEF Errors
  <2> QED BY <2>2, <2>3
<1> QED BY <1>1, <1>2 DEF RepairOrFail

(* An error that says nothing of the versions or the held-out data.        *)
LEMMA PlainCauses ==
  ASSUME IInv, Causes, NEW r \in Runs,
         NEW e \in Errors \ (BeforeHeldOut \cup {"FrozenStrategyExecutionError"}),
         RaiseError(r, e), UNCHANGED <<attempt, held, scored>>
  PROVE  Causes'
<1> SUFFICES ASSUME NEW s \in Runs PROVE Cause(s)'
  BY DEF Causes
<1>1. CASE s = r
  BY <1>1, CauseOfRaise, StatusType DEF Cause, BeforeHeldOut
<1>2. CASE s # r
  BY <1>2, CauseOfRaise, CauseFrame
<1> QED BY <1>1, <1>2

LEMMA ValidateCauses == ASSUME NEW r \in Runs PROVE IInv /\ Causes /\ Validate(r) => Causes'
<1> SUFFICES ASSUME IInv, Causes, Validate(r) PROVE Causes'
  OBVIOUS
<1>1. pc[r] = "validating" /\ UNCHANGED <<attempt, held, scored>>
  BY DEF Validate
<1>2. CASE UNCHANGED response
  BY <1>1, <1>2, CauseFrame DEF Causes
<1>3. CASE RepairOrFail(r, "static")
  BY <1>1, <1>3, RepairOrFailCauses
<1>4. CASE RaiseError(r, "OtherException")
  BY <1>1, <1>4, PlainCauses DEF Errors, BeforeHeldOut
<1> QED BY <1>2, <1>3, <1>4 DEF Validate

LEMMA SmokeFailedCauses == ASSUME NEW r \in Runs PROVE IInv /\ Causes /\ SmokeFailed(r) => Causes'
<1> SUFFICES ASSUME IInv, Causes, SmokeFailed(r) PROVE Causes'
  OBVIOUS
<1>1. pc[r] = "smoke" /\ UNCHANGED <<attempt, held, scored>>
  BY DEF SmokeFailed, Resume
<1>2. CASE RepairOrFail(r, Blame(r))
  BY <1>1, <1>2, RepairOrFailCauses
<1>3. CASE RaiseError(r, SandboxException(r))
  <2>1. SandboxException(r) \in Errors \ (BeforeHeldOut \cup {"FrozenStrategyExecutionError"})
    BY DEF SandboxException, Errors, BeforeHeldOut
  <2> QED BY <1>1, <1>3, <2>1, PlainCauses
<1> QED BY <1>2, <1>3 DEF SmokeFailed

LEMMA ProviderFailedCauses ==
  ASSUME NEW r \in Runs PROVE IInv /\ Causes /\ ProviderFailed(r) => Causes'
<1> SUFFICES ASSUME IInv, Causes, ProviderFailed(r) PROVE Causes'
  OBVIOUS
<1>1. UNCHANGED <<attempt, held, scored>>
  BY DEF ProviderFailed
<1>2. PICK e \in {"NvidiaNimError", "OtherException"} : RaiseError(r, e)
  BY DEF ProviderFailed
<1> QED BY <1>1, <1>2, PlainCauses DEF Errors, BeforeHeldOut

LEMMA MarketFailedCauses == ASSUME NEW r \in Runs PROVE IInv /\ Causes /\ MarketFailed(r) => Causes'
<1> SUFFICES ASSUME IInv, Causes, MarketFailed(r), NEW s \in Runs PROVE Cause(s)'
  BY DEF Causes
<1>1. /\ pc[r] = "market" /\ job[r] = "returned" /\ reply[r] # "ok"
      /\ RaiseError(r, reply[r]) /\ UNCHANGED <<attempt, held, scored>>
  BY DEF MarketFailed, Resume
<1>2. reply[r] \in MarketReplies \ {"ok"} /\ scored[r] = {}
  BY <1>1 DEF IInv, RunInv, Waiting, RepliesOf, Progress
<1>3. reply[r] \in Errors
  BY <1>2 DEF Errors
<1>4. CASE s = r
  BY <1>1, <1>2, <1>3, <1>4, CauseOfRaise, StatusType DEF Cause, MarketReplies
<1>5. CASE s # r
  BY <1>1, <1>3, <1>5, CauseOfRaise, CauseFrame
<1> QED BY <1>4, <1>5

LEMMA BacktestFailedCauses ==
  ASSUME NEW r \in Runs PROVE IInv /\ Causes /\ BacktestFailed(r) => Causes'
<1> SUFFICES ASSUME IInv, Causes, BacktestFailed(r) PROVE Causes'
  OBVIOUS
<1>1. pc[r] = "backtest" /\ UNCHANGED <<attempt, held, scored>>
  BY DEF BacktestFailed, Resume
<1>2. CASE RaiseError(r, "FrozenStrategyExecutionError")
  <2> SUFFICES ASSUME NEW s \in Runs PROVE Cause(s)'
    BY DEF Causes
  <2>1. held[r]
    BY <1>1 DEF IInv, RunInv, Progress
  <2>2. CASE s = r
    BY <1>1, <1>2, <2>1, <2>2, CauseOfRaise, StatusType DEF Cause, Errors, BeforeHeldOut
  <2>3. CASE s # r
    BY <1>1, <1>2, <2>3, CauseOfRaise, CauseFrame DEF Errors
  <2> QED BY <2>2, <2>3
<1>3. CASE RaiseError(r, SandboxException(r))
  <2>1. SandboxException(r) \in Errors \ (BeforeHeldOut \cup {"FrozenStrategyExecutionError"})
    BY DEF SandboxException, Errors, BeforeHeldOut
  <2> QED BY <1>1, <1>3, <2>1, PlainCauses
<1> QED BY <1>2, <1>3 DEF BacktestFailed, AfterFailedBacktest

(* Every other step leaves the answers alone, or answers 200.              *)
LEMMA NextCauses == IInv /\ Causes /\ [Next]_vars => Causes'
<1> SUFFICES ASSUME IInv, Causes, [Next]_vars PROVE Causes'
  OBVIOUS
<1>1. CASE UNCHANGED vars
  BY <1>1, CauseFrame DEF Causes, vars, coroutine
<1>2. CASE StartJob
  BY <1>2, CauseFrame DEF Causes, StartJob, coroutine
<1>3. ASSUME NEW r \in Runs, EndJob(r) PROVE Causes'
  BY <1>3, CauseFrame DEF Causes, EndJob, coroutine
<1>4. ASSUME NEW r \in Runs, pc[r] # "done", pc'[r] # "done",
             UNCHANGED response, UNCHANGED <<held, scored>> \/ UNCHANGED attempt,
             \A s \in Runs \ {r} : /\ attempt'[s] = attempt[s] /\ held'[s] = held[s]
                                   /\ scored'[s] = scored[s]
      PROVE  Causes'
  <2> SUFFICES ASSUME NEW s \in Runs PROVE Cause(s)'
    BY DEF Causes
  <2>1. CASE s # r
    BY <1>4, <2>1, CauseFrame
  <2>2. CASE s = r
    <3>1. response'[s] = NoResponse
      BY <1>4, <2>2 DEF IInv, RunInv, Answers
    <3> QED BY <3>1 DEF Cause, NoResponse, Answer, NoError, BeforeHeldOut
  <2> QED BY <2>1, <2>2
<1>5. ASSUME NEW r \in Runs, Generated(r) PROVE Causes'
  <2>1. pc[r] # "done" /\ pc'[r] # "done"
    BY <1>5 DEF Generated, NewVersion, Goto, IInv, TypeOK, CoroutineType
  <2> QED BY <1>4, <1>5, <2>1 DEF Generated, NewVersion, IInv, TypeOK, CoroutineType
<1>6. ASSUME NEW r \in Runs, FreezeVersion(r) PROVE Causes'
  BY <1>6, CauseFrame DEF Causes, FreezeVersion
<1>7. ASSUME NEW r \in Runs, BacktestFrozen(r) PROVE Causes'
  <2>1. pc[r] # "done" /\ pc'[r] # "done"
    BY <1>7 DEF BacktestFrozen, Resume, ToThread, Goto, IInv, TypeOK, CoroutineType
  <2> QED
    BY <1>4, <1>7, <2>1 DEF BacktestFrozen, IInv, TypeOK, CoroutineType, HistoryType
<1>8. ASSUME NEW r \in Runs, Report(r) PROVE Causes'
  <2> SUFFICES ASSUME NEW s \in Runs PROVE Cause(s)'
    BY DEF Causes
  <2>1. CASE s # r
    BY <1>8, <2>1, CauseFrame DEF Report, IInv, TypeOK, CoroutineType
  <2>2. CASE s = r
    <3>1. response'[s].status = 200 /\ response'[s].error = NoError
      BY <1>8, <2>2 DEF Report, Answer, IInv, TypeOK, CoroutineType
    <3> QED BY <3>1 DEF Cause, NoError, BeforeHeldOut
  <2> QED BY <2>1, <2>2
<1> QED
  BY <1>1, <1>2, <1>3, <1>5, <1>6, <1>7, <1>8, AcceptCauses, ValidateCauses, SmokeFailedCauses,
     ProviderFailedCauses, MarketFailedCauses, BacktestFailedCauses DEF Next, Coroutine

(* The first version a run gave up, when there is one.                     *)
LEMMA FirstFailureType ==
  ASSUME IInv, NEW r \in Runs
  PROVE  /\ Failed(r) = {} => FirstFailure(r) = "validation_unclassified"
         /\ Failed(r) # {} => FirstFailure(r) \in Layers
<1>1. CASE Failed(r) = {}
  BY <1>1 DEF FirstFailure
<1>2. CASE Failed(r) # {}
  <2> DEFINE F == Failed(r)
  <2>1. F \subseteq Versions /\ F \subseteq Nat
    BY LabAssumption DEF Failed, IInv, TypeOK, CoroutineType, Versions
  <2>2. 1 \in F /\ \A m \in F : 1 <= m
    <3>1. PICK v \in F : TRUE
      BY <1>2
    <3>2. 1 \in 1..attempt[r] /\ 1 \in Versions
      BY <2>1, <3>1, LabAssumption DEF Failed, IInv, TypeOK, CoroutineType, Versions
    <3>3. verdict[r][1] # "none"
      <4>1. CASE 1 < attempt[r]
        BY <3>2, <4>1 DEF IInv, RunInv, Trail
      <4>2. CASE attempt[r] = 1
        BY <3>1, <4>2 DEF Failed
      <4> QED BY <3>2, <4>1, <4>2 DEF IInv, TypeOK, CoroutineType
    <3> QED BY <2>1, <3>2, <3>3, LabAssumption DEF Failed, Versions
  <2>3. Min(F) \in F
    BY <2>2 DEF Min
  <2>4. verdict[r][Min(F)] \in Layers
    BY <2>1, <2>3 DEF Failed, IInv, TypeOK, HistoryType, RunInv, Trail, Layers
  <2> QED BY <1>2, <2>4 DEF FirstFailure
<1> QED BY <1>1, <1>2

(* The answer of a run, as the report classifies it.                       *)
LEMMA ReportOfRun ==
  ASSUME IInv, Causes, NEW r \in Runs
  PROVE  /\ Category(r) \in Layers =>
                /\ scored[r] = {}
                /\ response[r].error \in {"StrategyPretestError", "InsufficientMarketDataError"}
         /\ Category(r) = "held_out_runtime" => frozen[r] > 0 /\ scored[r] = {frozen[r]}
         /\ response[r].error = "StrategyPretestError" => Category(r) \in Layers
         /\ FirstPass(r) => scored[r] = {1} /\ ~Repaired(r)
<1> DEFINE status == response[r].status
           error  == response[r].error
<1>1. /\ status \in {0, 200, 422, 500, 502, 503} /\ error \in Errors \cup {NoError}
      /\ frozen[r] \in 0..MaxVersions /\ attempt[r] \in 0..MaxVersions
  BY DEF IInv, TypeOK, CoroutineType, ResponseType
<1>2. status = 422 => \/ error = "FrozenStrategyExecutionError"
                      \/ error \in BeforeHeldOut
  BY DEF Causes, Cause, HttpStatus, BeforeHeldOut
<1>3. Failed(r) = {} \/ FirstFailure(r) \in Layers
  BY FirstFailureType
<1>4. Failed(r) = {} => FirstFailure(r) \notin Layers \cup {"held_out_runtime"}
  BY FirstFailureType DEF Layers
<1>5. ASSUME Category(r) \in Layers
      PROVE  /\ scored[r] = {}
             /\ error \in {"StrategyPretestError", "InsufficientMarketDataError"}
  <2>1. /\ status = 422 /\ error # "FrozenStrategyExecutionError"
        /\ FirstFailure(r) \in Layers
    BY <1>1, <1>5 DEF Category, ClassifyFailure, Layers, AboutHeldOut
  <2>2. Failed(r) # {}
    BY <1>4, <2>1
  <2>3. attempt[r] # 0
    BY <2>2 DEF Failed
  <2> QED BY <1>2, <2>1, <2>3 DEF Causes, Cause, BeforeHeldOut
<1>6. ASSUME Category(r) = "held_out_runtime" PROVE frozen[r] > 0 /\ scored[r] = {frozen[r]}
  <2>1. error = "FrozenStrategyExecutionError"
    BY <1>1, <1>3, <1>4, <1>6 DEF Category, ClassifyFailure, Layers, AboutHeldOut
  <2> QED BY <1>1, <2>1 DEF Causes, Cause, IInv, RunInv, Progress
<1>7. ASSUME error = "StrategyPretestError" PROVE Category(r) \in Layers
  <2>1. attempt[r] = MaxVersions /\ verdict[r][MaxVersions] # "none"
    BY <1>7 DEF IInv, RunInv, Answers
  <2>2. MaxVersions \in Failed(r)
    BY <2>1, LabAssumption DEF Failed
  <2>3. status \notin {0, 200}
    BY <1>7 DEF IInv, RunInv, Answers, NoResponse, Answer, NoError
  <2>4. status = 422
    BY <1>7, <2>3 DEF Causes, Cause, HttpStatus, InfrastructureErrors
  <2> QED BY <1>3, <1>7, <2>2, <2>4 DEF Category, ClassifyFailure, AboutHeldOut
<1>8. ASSUME FirstPass(r) PROVE scored[r] = {1} /\ ~Repaired(r)
  <2>1. attempt[r] = 1 /\ frozen[r] = 1 /\ held[r]
    BY <1>8 DEF FirstPass, IInv, RunInv, Answers
  <2>2. scored[r] = {1}
    BY <2>1 DEF IInv, RunInv, Progress
  <2>3. verdict[r][1] = "none"
    BY <2>1, LabAssumption DEF IInv, RunInv, Trail, Versions
  <2> QED BY <2>1, <2>2, <2>3 DEF Repaired, Failed
<1> QED BY <1>5, <1>6, <1>7, <1>8

(* Of n runs that all pass the gate, at most n / 20 were repaired.         *)
LEMMA GateBoundsRepairs ==
  ASSUME IInv, Causes, GatePassed
  PROVE  20 * Cardinality({r \in Runs : Repaired(r)}) <= Cardinality(Runs)
<1> DEFINE First  == {r \in Runs : FirstPass(r)}
           Rest   == Runs \ First
           Worked == {r \in Runs : Repaired(r)}
<1>1. /\ IsFiniteSet(First) /\ IsFiniteSet(Rest) /\ IsFiniteSet(Runs)
      /\ Cardinality(First) \in Nat /\ Cardinality(Rest) \in Nat /\ Cardinality(Runs) \in Nat
  BY RunsAssumption, FS_Subset, FS_CardinalityType
<1>2. Cardinality(Rest) = Cardinality(Runs) - Cardinality(First)
  <2>1. Cardinality(Rest) = Cardinality(Runs) - Cardinality(Runs \cap First)
    BY <1>1, FS_Difference
  <2>2. Runs \cap First = First
    OBVIOUS
  <2> QED BY <2>1, <2>2
<1>3. Worked \subseteq Rest
  BY ReportOfRun
<1>4. Cardinality(Worked) \in Nat /\ Cardinality(Worked) <= Cardinality(Rest)
  BY <1>1, <1>3, FS_Subset, FS_CardinalityType
<1>5. Cardinality(First) >= (19 * Cardinality(Runs) + 19) \div 20
  BY DEF GatePassed, MinimumFirstPass
<1> HIDE DEF First, Rest, Worked
<1>6. 20 * Cardinality(First) >= 19 * Cardinality(Runs)
  BY <1>1, <1>5
<1>7. 20 * Cardinality(Worked) <= Cardinality(Runs)
  BY <1>1, <1>2, <1>4, <1>6
<1> QED BY <1>7 DEF Worked

(* The reliability report, for any number of runs: a failed run is named   *)
(* after the stage that failed it, and the gate is passed only by runs     *)
(* that were scored, hardly any after a repair.                            *)
THEOREM ReportsNameStages == Spec => []ReportNamesStage
<1>1. Init => Causes
  BY DEF Init, Causes, Cause, NoResponse, Answer, NoError, BeforeHeldOut
<1>2. Spec => []Causes
  BY <1>1, Inductive, NextCauses, PTL DEF Spec
<1>3. IInv /\ Causes => ReportNamesStage
  <2> SUFFICES ASSUME IInv, Causes PROVE ReportNamesStage
    OBVIOUS
  <2>1. ASSUME GatePassed, NEW r \in Runs PROVE scored[r] = {frozen[r]}
    BY <2>1 DEF GatePassed, IInv, RunInv, Answers, Progress
  <2> QED BY <2>1, ReportOfRun, GateBoundsRepairs DEF ReportNamesStage
<1> QED BY <1>2, <1>3, Inductive, PTL

-----------------------------------------------------------------------------
(* Why every accepted run is answered.  EveryRunAnswered rests on fairness *)
(* and is left to TLC; that no run is ever lost or stuck, and that no      *)
(* schedule goes on for ever, is shown here.                               *)

(* Whatever a run waits for exists: its coroutine is ready, its job runs   *)
(* or is back, or its job is in the queue and a thread is free or at work. *)
CanMove(r) ==
    \/ pc[r] \in {"generating", "validating", "repairing"}
    \/ job[r] \in {"running", "returned"}
    \/ /\ job[r] = "queued"
       /\ \E i \in 1..Len(queue) : queue[i] = r
       /\ ThreadFree \/ Busy # {}

NobodyIsStranded ==
    /\ Cardinality(Busy) <= Threads
    /\ \A r \in Runs : pc[r] \notin {"idle", "done"} => CanMove(r)

\* No more jobs run than there are threads, and the queue forgets no job.
PoolInv ==
    /\ Cardinality(Busy) <= Threads
    /\ \A r \in Runs : job[r] = "queued" => \E i \in 1..Len(queue) : queue[i] = r

(* Jobs that end or are taken back leave threads to others.                *)
LEMMA BusyShrinks ==
  ASSUME PoolInv, Busy' \subseteq Busy
  PROVE  Cardinality(Busy') <= Threads
<1>1. IsFiniteSet(Busy)
  BY RunsAssumption, FS_Subset DEF Busy
<1>2. /\ Cardinality(Busy) \in Nat /\ Cardinality(Busy') \in Nat
      /\ Cardinality(Busy') <= Cardinality(Busy)
  BY <1>1, FS_Subset, FS_CardinalityType
<1> QED BY <1>2, LabAssumption DEF PoolInv

(* A coroutine's step leaves the pool alone, takes its reply or submits.   *)
LEMMA CoroutinePool ==
  ASSUME IInv, NEW r \in Runs, Accept(r) \/ Coroutine(r)
  PROVE  \/ UNCHANGED pool
         \/ job[r] # "running" /\ Clear(r)
         \/ job[r] # "running" /\ \E label : ToThread(r, label)
<1>1. CASE Accept(r) \/ Generated(r) \/ ProviderFailed(r)
  BY <1>1 DEF Accept, Generated, ProviderFailed
<1>2. CASE Validate(r)
  <2>1. job[r] = "none"
    BY <1>2 DEF Validate, IInv, RunInv, Waiting, Awaiting
  <2> QED BY <1>2, <2>1 DEF Validate
<1>3. CASE FreezeVersion(r) \/ BacktestFrozen(r)
  BY <1>3 DEF FreezeVersion, BacktestFrozen, Resume
<1>4. CASE SmokeFailed(r) \/ MarketFailed(r) \/ Report(r) \/ BacktestFailed(r)
  BY <1>4 DEF SmokeFailed, MarketFailed, Report, BacktestFailed, Resume
<1> QED BY <1>1, <1>2, <1>3, <1>4 DEF Coroutine

LEMMA StartJobPool == ASSUME IInv, PoolInv, StartJob PROVE PoolInv'
<1> DEFINE next == Head(queue)
<1>1. /\ next \in Runs /\ next = queue[1] /\ Len(queue) \in Nat \ {0}
      /\ queue' = Tail(queue) /\ Len(queue') = Len(queue) - 1
      /\ \A i \in 1..(Len(queue) - 1) : queue'[i] = queue[i + 1]
  BY HeadFacts DEF IInv, StartJob
<1>2. job' = [job EXCEPT ![next] = "running"] /\ job \in [Runs -> {"none", "queued", "running", "returned"}]
  BY DEF StartJob, IInv, TypeOK, PoolType
<1> HIDE DEF next
<1>3. Busy' = Busy \cup {next}
  BY <1>1, <1>2 DEF Busy
<1>4. Cardinality(Busy') <= Threads
  <2>1. IsFiniteSet(Busy)
    BY RunsAssumption, FS_Subset DEF Busy
  <2>2. Cardinality(Busy) \in Nat /\ Cardinality(Busy') <= Cardinality(Busy) + 1 /\ Cardinality(Busy') \in Nat
    BY <1>3, <2>1, FS_AddElement, FS_CardinalityType
  <2> QED BY <2>2, LabAssumption DEF StartJob, ThreadFree
<1>5. ASSUME NEW r \in Runs, job'[r] = "queued" PROVE \E i \in 1..Len(queue') : queue'[i] = r
  <2>1. r # next /\ job[r] = "queued"
    BY <1>1, <1>2, <1>5
  <2>2. PICK i \in 1..Len(queue) : queue[i] = r
    BY <2>1 DEF PoolInv
  <2>3. i - 1 \in 1..(Len(queue) - 1) /\ (i - 1) + 1 = i
    BY <1>1, <2>1, <2>2
  <2>4. queue'[i - 1] = r
    BY <1>1, <2>2, <2>3
  <2> QED BY <1>1, <2>3, <2>4
<1> QED BY <1>4, <1>5 DEF PoolInv

LEMMA NextPool == IInv /\ PoolInv /\ [Next]_vars => PoolInv'
<1> SUFFICES ASSUME IInv, PoolInv, [Next]_vars PROVE PoolInv'
  OBVIOUS
<1>0. job \in [Runs -> {"none", "queued", "running", "returned"}] /\ queue \in Seq(Runs)
  BY DEF IInv, TypeOK, PoolType
<1>1. ASSUME UNCHANGED pool PROVE PoolInv'
  BY <1>1 DEF PoolInv, Busy, pool
<1>2. ASSUME NEW r \in Runs, EndJob(r) PROVE PoolInv'
  <2>1. queue' = queue /\ job' = [job EXCEPT ![r] = "returned"]
    BY <1>2 DEF EndJob
  <2>2. Busy' \subseteq Busy
    BY <1>0, <2>1 DEF Busy
  <2> QED BY <1>0, <2>1, <2>2, BusyShrinks DEF PoolInv
<1>3. ASSUME NEW r \in Runs, Clear(r) PROVE PoolInv'
  <2>1. queue' = queue /\ job' = [job EXCEPT ![r] = "none"]
    BY <1>3 DEF Clear
  <2>2. Busy' \subseteq Busy
    BY <1>0, <2>1 DEF Busy
  <2> QED BY <1>0, <2>1, <2>2, BusyShrinks DEF PoolInv
<1>4. ASSUME NEW r \in Runs, NEW label, ToThread(r, label) PROVE PoolInv'
  <2>1. queue' = Append(queue, r) /\ job' = [job EXCEPT ![r] = "queued"]
    BY <1>4 DEF ToThread
  <2>2. Busy' \subseteq Busy
    BY <1>0, <2>1 DEF Busy
  <2>3. /\ Len(queue) \in Nat /\ Len(queue') = Len(queue) + 1 /\ queue'[Len(queue) + 1] = r
        /\ \A i \in 1..Len(queue) : queue'[i] = queue[i]
    BY <1>0, <2>1
  <2>4. ASSUME NEW s \in Runs, job'[s] = "queued" PROVE \E i \in 1..Len(queue') : queue'[i] = s
    <3>1. CASE s = r
      BY <2>3, <3>1
    <3>2. CASE s # r
      <4>1. PICK i \in 1..Len(queue) : queue[i] = s
        BY <1>0, <2>1, <2>4, <3>2 DEF PoolInv
      <4> QED BY <2>3, <4>1
    <3> QED BY <3>1, <3>2
  <2> QED BY <2>2, <2>4, BusyShrinks DEF PoolInv
<1>5. CASE UNCHANGED vars
  BY <1>1, <1>5 DEF vars
<1>6. CASE StartJob
  BY <1>6, StartJobPool
<1>7. ASSUME NEW r \in Runs, Accept(r) \/ Coroutine(r) PROVE PoolInv'
  BY <1>1, <1>3, <1>4, <1>7, CoroutinePool
<1> QED BY <1>2, <1>5, <1>6, <1>7 DEF Next

LEMMA InitPool == Init => PoolInv
<1> SUFFICES ASSUME Init PROVE PoolInv
  OBVIOUS
<1>1. Busy = {}
  BY DEF Init, Busy
<1> QED BY <1>1, FS_EmptySet, LabAssumption DEF Init, PoolInv

(* With more requests than threads, and whatever jobs return when: the     *)
(* pool never runs more jobs than it has threads, and every run that was   *)
(* accepted and not yet answered has a step to take or to wait for.        *)
THEOREM NoRunIsStranded == Spec => []NobodyIsStranded
<1>1. IInv /\ PoolInv => NobodyIsStranded
  <2> SUFFICES ASSUME IInv, PoolInv, NEW r \in Runs, pc[r] \notin {"idle", "done"}
               PROVE  CanMove(r)
    BY DEF NobodyIsStranded, PoolInv
  <2>1. CASE pc[r] \in Awaiting
    <3>1. job[r] \in {"queued", "running", "returned"}
      BY <2>1 DEF IInv, RunInv, Waiting, TypeOK, PoolType
    <3>2. ThreadFree \/ Busy # {}
      BY FS_EmptySet, LabAssumption DEF ThreadFree
    <3> QED BY <3>1, <3>2 DEF PoolInv, CanMove
  <2>2. CASE pc[r] \notin Awaiting
    BY <2>2 DEF IInv, TypeOK, CoroutineType, Labels, Awaiting, CanMove
  <2> QED BY <2>1, <2>2
<1> QED BY <1>1, InitPool, NextPool, Inductive, PTL DEF Spec

-----------------------------------------------------------------------------
(* The steps a run has left: five for every version it may still write,    *)
(* and those from where it stands to its answer.                           *)

JobSteps(r) ==
    CASE job[r] = "queued" -> 3 [] job[r] = "running" -> 2 [] job[r] = "returned" -> 1
      [] job[r] = "none" -> 0

PathLeft(r) ==
    CASE pc[r] = "idle" -> 8
      [] pc[r] = "generating" -> 7
      [] pc[r] = "validating" -> 11
      [] pc[r] = "smoke" -> 7 + JobSteps(r)
      [] pc[r] = "repairing" -> 7
      [] pc[r] = "market" -> 3 + JobSteps(r)
      [] pc[r] = "backtest" -> JobSteps(r)
      [] pc[r] = "done" -> 0

RunStepsLeft(r) == 5 * (MaxVersions - attempt[r]) + PathLeft(r)

LongestRun == 5 * MaxVersions + 8

\* A step of the system is a step of one run, which has fewer left then.
OneRunAdvances ==
    \E r \in Runs : /\ RunStepsLeft(r)' < RunStepsLeft(r)
                    /\ \A s \in Runs \ {r} : RunStepsLeft(s)' = RunStepsLeft(s)

LEMMA PathLeftType ==
  ASSUME IInv, NEW r \in Runs
  PROVE  /\ PathLeft(r) \in 0..11 /\ (pc[r] # "done" => PathLeft(r) > 0)
         /\ attempt[r] \in 0..MaxVersions /\ RunStepsLeft(r) \in 0..LongestRun
<1>1. /\ pc[r] \in Labels /\ job[r] \in {"none", "queued", "running", "returned"}
      /\ attempt[r] \in 0..MaxVersions /\ Waiting(r) /\ Progress(r)
  BY DEF IInv, RunInv, TypeOK, CoroutineType, PoolType
<1>2. PathLeft(r) \in 0..11 /\ (pc[r] # "done" => PathLeft(r) > 0)
  BY <1>1 DEF PathLeft, JobSteps, Labels, Waiting, Awaiting
<1>3. attempt[r] > 0 \/ PathLeft(r) <= 8
  BY <1>1 DEF PathLeft, Progress, Labels
<1> QED BY <1>1, <1>2, <1>3, LabAssumption DEF RunStepsLeft, LongestRun

(* What makes a step one of run r that brings it forward.                  *)
LEMMA Advances ==
  ASSUME IInv, NEW r \in Runs,
         \A s \in Runs \ {r} : pc'[s] = pc[s] /\ job'[s] = job[s] /\ attempt'[s] = attempt[s],
         \/ attempt'[r] = attempt[r] /\ PathLeft(r)' \in Int /\ PathLeft(r)' < PathLeft(r)
         \/ attempt'[r] = attempt[r] + 1 /\ PathLeft(r)' \in Int /\ PathLeft(r)' < PathLeft(r) + 5
  PROVE  OneRunAdvances
<1>1. \A s \in Runs \ {r} : RunStepsLeft(s)' = RunStepsLeft(s)
  BY DEF RunStepsLeft, PathLeft, JobSteps
<1>2. PathLeft(r) \in 0..11 /\ attempt[r] \in 0..MaxVersions
  BY PathLeftType
<1>3. RunStepsLeft(r)' < RunStepsLeft(r)
  BY <1>2, LabAssumption DEF RunStepsLeft
<1> QED BY <1>1, <1>3 DEF OneRunAdvances

(* The step that answers a run brings it to its end.                       *)
LEMMA AnswersAdvance ==
  ASSUME IInv, NEW r \in Runs, pc[r] # "done", pc'[r] = "done", attempt' = attempt,
         \A s \in Runs \ {r} : pc'[s] = pc[s] /\ job'[s] = job[s]
  PROVE  OneRunAdvances
<1>1. PathLeft(r)' = 0 /\ PathLeft(r) \in 0..11 /\ PathLeft(r) > 0
  BY PathLeftType DEF PathLeft
<1> QED BY <1>1, Advances

(* So does submitting a job from a place before it.                        *)
LEMMA SubmitAdvances ==
  ASSUME IInv, NEW r \in Runs, attempt' = attempt, NEW label, ToThread(r, label),
         \/ label = "smoke" /\ pc[r] = "validating"
         \/ label = "market" /\ pc[r] = "smoke" /\ job[r] = "returned"
         \/ label = "backtest" /\ pc[r] = "market" /\ job[r] = "returned"
  PROVE  OneRunAdvances
<1>1. /\ pc'[r] = label /\ job'[r] = "queued"
      /\ \A s \in Runs \ {r} : pc'[s] = pc[s] /\ job'[s] = job[s]
  BY DEF ToThread, Goto, IInv, TypeOK, CoroutineType, PoolType
<1>2. PathLeft(r)' \in Int /\ PathLeft(r)' < PathLeft(r)
  BY <1>1 DEF PathLeft, JobSteps
<1> QED BY <1>1, <1>2, Advances

(* A version given up is repaired, or the last.                            *)
LEMMA GivenUpAdvances ==
  ASSUME IInv, NEW r \in Runs, attempt' = attempt, NEW why, RepairOrFail(r, why),
         pc[r] = "validating" \/ (pc[r] = "smoke" /\ job[r] = "returned"),
         \A s \in Runs \ {r} : job'[s] = job[s]
  PROVE  OneRunAdvances
<1>0. pc \in [Runs -> Labels]
  BY DEF IInv, TypeOK, CoroutineType
<1>1. CASE Exhausted(r)
  <2>1. pc' = [pc EXCEPT ![r] = "done"]
    BY <1>1 DEF RepairOrFail, RaiseError, Goto
  <2> QED BY <1>0, <2>1, AnswersAdvance
<1>2. CASE ~Exhausted(r)
  <2>1. pc' = [pc EXCEPT ![r] = "repairing"]
    BY <1>2 DEF RepairOrFail, Goto
  <2>2. pc'[r] = "repairing" /\ \A s \in Runs \ {r} : pc'[s] = pc[s]
    BY <1>0, <2>1
  <2>3. PathLeft(r)' \in Int /\ PathLeft(r)' < PathLeft(r)
    BY <2>2 DEF PathLeft, JobSteps
  <2> QED BY <2>2, <2>3, Advances
<1> QED BY <1>1, <1>2

LEMMA PoolAdvances == ASSUME IInv, StartJob \/ \E r \in Runs : EndJob(r) PROVE OneRunAdvances
<1>0. job \in [Runs -> {"none", "queued", "running", "returned"}]
  BY DEF IInv, TypeOK, PoolType
<1>1. CASE StartJob
  <2>0. Head(queue) \in Runs /\ Head(queue) = queue[1] /\ 1 \in 1..Len(queue)
    BY <1>1, HeadFacts DEF IInv, StartJob
  <2>1. PICK next \in Runs :
           /\ next = queue[1] /\ 1 \in 1..Len(queue)
           /\ job' = [job EXCEPT ![next] = "running"] /\ pc' = pc /\ attempt' = attempt
    BY <1>1, <2>0 DEF StartJob, coroutine
  <2>2. job[next] = "queued"
    BY <2>1 DEF IInv, QueueShape
  <2>3. job'[next] = "running" /\ \A s \in Runs \ {next} : job'[s] = job[s]
    BY <1>0, <2>1
  <2>4. pc[next] \in Awaiting
    BY <2>1, <2>2 DEF IInv, RunInv, Waiting
  <2>5. JobSteps(next) = 3 /\ JobSteps(next)' = 2 /\ pc'[next] = pc[next]
    BY <2>1, <2>2, <2>3 DEF JobSteps
  <2>6. PathLeft(next)' \in Int /\ PathLeft(next)' < PathLeft(next)
    BY <2>4, <2>5 DEF PathLeft, Awaiting
  <2> QED BY <2>1, <2>3, <2>6, Advances
<1>2. ASSUME NEW r \in Runs, EndJob(r) PROVE OneRunAdvances
  <2>1. /\ job[r] = "running" /\ job'[r] = "returned" /\ pc' = pc /\ attempt' = attempt
        /\ \A s \in Runs \ {r} : job'[s] = job[s]
    BY <1>0, <1>2 DEF EndJob, coroutine
  <2>2. pc[r] \in Awaiting
    BY <2>1 DEF IInv, RunInv, Waiting
  <2>3. PathLeft(r)' \in Int /\ PathLeft(r)' < PathLeft(r)
    BY <2>1, <2>2 DEF PathLeft, JobSteps, Awaiting
  <2> QED BY <2>1, <2>3, Advances
<1> QED BY <1>1, <1>2

LEMMA CoroutineAdvances ==
  ASSUME IInv, NEW r \in Runs, Accept(r) \/ Coroutine(r)
  PROVE  OneRunAdvances
<1>0. /\ pc \in [Runs -> Labels] /\ attempt \in [Runs -> 0..MaxVersions]
      /\ job \in [Runs -> {"none", "queued", "running", "returned"}]
  BY DEF IInv, TypeOK, CoroutineType, PoolType
<1>1. ASSUME NEW e, RaiseError(r, e), pc[r] # "done", attempt' = attempt,
             \A s \in Runs \ {r} : job'[s] = job[s]
      PROVE  OneRunAdvances
  <2>1. pc'[r] = "done" /\ \A s \in Runs \ {r} : pc'[s] = pc[s]
    BY <1>0, <1>1 DEF RaiseError, Goto
  <2> QED BY <1>1, <2>1, AnswersAdvance
<1>2. ASSUME Clear(r) PROVE \A s \in Runs \ {r} : job'[s] = job[s]
  BY <1>0, <1>2 DEF Clear
<1>3. CASE Accept(r)
  <2>1. CASE Goto(r, "generating")
    <3>1. pc'[r] = "generating" /\ \A s \in Runs \ {r} : pc'[s] = pc[s]
      BY <1>0, <2>1 DEF Goto
    <3>2. pc[r] = "idle" /\ attempt' = attempt /\ job' = job
      BY <1>3 DEF Accept, pool
    <3>3. PathLeft(r)' \in Int /\ PathLeft(r)' < PathLeft(r)
      BY <3>1, <3>2 DEF PathLeft
    <3> QED BY <3>1, <3>2, <3>3, Advances
  <2> QED BY <1>1, <1>3, <2>1 DEF Accept, pool
<1>4. CASE Generated(r)
  <2>1. /\ pc'[r] = "validating" /\ attempt'[r] = attempt[r] + 1 /\ job' = job
        /\ \A s \in Runs \ {r} : pc'[s] = pc[s] /\ attempt'[s] = attempt[s]
    BY <1>0, <1>4 DEF Generated, NewVersion, Goto, pool
  <2>2. PathLeft(r)' \in Int /\ PathLeft(r)' < PathLeft(r) + 5
    BY <1>4, <2>1 DEF Generated, PathLeft
  <2> QED BY <2>1, <2>2, Advances
<1>5. CASE ProviderFailed(r)
  BY <1>1, <1>5 DEF ProviderFailed, pool
<1>6. CASE Validate(r)
  <2>1. pc[r] = "validating" /\ attempt' = attempt
    BY <1>6 DEF Validate
  <2>2. CASE ToThread(r, "smoke")
    BY <2>1, <2>2, SubmitAdvances
  <2>3. CASE RepairOrFail(r, "static") /\ UNCHANGED pool
    BY <2>1, <2>3, GivenUpAdvances DEF pool
  <2>4. CASE RaiseError(r, "OtherException") /\ UNCHANGED pool
    BY <1>1, <2>1, <2>4 DEF pool
  <2> QED BY <1>6, <2>2, <2>3, <2>4 DEF Validate
<1>7. CASE FreezeVersion(r)
  BY <1>7, SubmitAdvances DEF FreezeVersion, Resume
<1>8. CASE SmokeFailed(r)
  <2>1. /\ pc[r] = "smoke" /\ job[r] = "returned" /\ attempt' = attempt
        /\ \A s \in Runs \ {r} : job'[s] = job[s]
    BY <1>2, <1>8 DEF SmokeFailed, Resume
  <2>2. CASE RepairOrFail(r, Blame(r))
    BY <2>1, <2>2, GivenUpAdvances
  <2>3. CASE RaiseError(r, SandboxException(r))
    BY <1>1, <2>1, <2>3
  <2> QED BY <1>8, <2>2, <2>3 DEF SmokeFailed
<1>9. CASE BacktestFrozen(r)
  BY <1>9, SubmitAdvances DEF BacktestFrozen, Resume
<1>10. CASE MarketFailed(r)
  BY <1>1, <1>2, <1>10 DEF MarketFailed, Resume
<1>11. CASE Report(r)
  <2>1. pc'[r] = "done" /\ \A s \in Runs \ {r} : pc'[s] = pc[s]
    BY <1>0, <1>11 DEF Report, Goto
  <2> QED BY <1>2, <1>11, <2>1, AnswersAdvance DEF Report, Resume
<1>12. CASE BacktestFailed(r)
  BY <1>1, <1>2, <1>12 DEF BacktestFailed, AfterFailedBacktest, Resume
<1> QED BY <1>3, <1>4, <1>5, <1>6, <1>7, <1>8, <1>9, <1>10, <1>11, <1>12 DEF Coroutine

(* No run goes on for ever and none sets another back: every step of the   *)
(* system brings exactly one run nearer to its answer, which is at most    *)
(* LongestRun steps away, whatever fails and is repaired in between.       *)
THEOREM RunsMakeProgress ==
    Spec => /\ [](\A r \in Runs : RunStepsLeft(r) \in 0..LongestRun)
            /\ [][OneRunAdvances]_vars
<1>1. IInv => \A r \in Runs : RunStepsLeft(r) \in 0..LongestRun
  BY PathLeftType
<1>2. IInv /\ [Next]_vars => [OneRunAdvances]_vars
  BY PoolAdvances, CoroutineAdvances DEF Next
<1>3. Spec => [](\A r \in Runs : RunStepsLeft(r) \in 0..LongestRun)
  BY <1>1, Inductive, PTL
<1>4. Spec => [][OneRunAdvances]_vars
  BY <1>2, Inductive, PTL DEF Spec
<1> QED BY <1>3, <1>4

-----------------------------------------------------------------------------
(* StrategyLab implements FrozenEvaluation: each step of a coroutine or of  *)
(* the pool is one step of the protocol, or none of its business.           *)

(* A run's phase, once it ended, depends on the status of its answer only. *)
LEMMA PhaseChanges ==
  ASSUME NEW r \in Runs, NEW p,
         Phase(r)' = p, \A s \in Runs \ {r} : Phase(s)' = Phase(s)
  PROVE  [s \in Runs |-> Phase(s)]' = [[s \in Runs |-> Phase(s)] EXCEPT ![r] = p]
OBVIOUS

LEMMA PhaseKept ==
  ASSUME NEW s, pc'[s] = pc[s], response'[s] = response[s]
  PROVE  Phase(s)' = Phase(s)
BY DEF Phase

(* Steps that keep every run's phase, version and subject are stutters.    *)
LEMMA Stutter ==
  ASSUME UNCHANGED <<attempt, frozen>>, \A s \in Runs : Phase(s)' = Phase(s)
  PROVE  UNCHANGED Evaluation!vars
BY DEF Evaluation!vars

(* An error that leaves run() before the answer is a failure of the run.   *)
LEMMA RaiseFails ==
  ASSUME IInv, NEW r \in Runs, NEW e, e \in Errors, RaiseError(r, e), pc[r] # "done",
         UNCHANGED <<attempt, frozen>>
  PROVE  Evaluation!Fail(r)
<1>1. /\ pc'[r] = "done" /\ response'[r].status # 200
      /\ \A s \in Runs \ {r} : pc'[s] = pc[s] /\ response'[s] = response[s]
  <2>1. /\ pc'[r] = "done" /\ response'[r] = Answer(HttpStatus(e), e, 0, 0)
        /\ \A s \in Runs \ {r} : pc'[s] = pc[s] /\ response'[s] = response[s]
    BY RaiseErrorType DEF IInv
  <2> QED BY <2>1, StatusType DEF Answer
<1>2. Phase(r)' = "failed" /\ \A s \in Runs \ {r} : Phase(s)' = Phase(s)
  BY <1>1, PhaseKept DEF Phase
<1>3. [s \in Runs |-> Phase(s)]' = [[s \in Runs |-> Phase(s)] EXCEPT ![r] = "failed"]
  BY <1>2, PhaseChanges
<1>4. Phase(r) \in {"developing", "frozen", "revealed"}
  BY DEF Phase
<1> QED BY <1>3, <1>4 DEF Evaluation!Fail

(* A version given up either ends the run or leaves its phase alone.       *)
LEMMA GivenUp ==
  ASSUME IInv, NEW r \in Runs, NEW why \in {"static", "smoke"}, RepairOrFail(r, why),
         pc[r] \in {"validating", "smoke"}, UNCHANGED <<attempt, frozen>>
  PROVE  Evaluation!Fail(r) \/ UNCHANGED Evaluation!vars
<1>1. CASE Exhausted(r)
  <2>1. RaiseError(r, "StrategyPretestError") /\ "StrategyPretestError" \in Errors
    BY <1>1 DEF RepairOrFail, Errors
  <2> QED BY <2>1, RaiseFails
<1>2. CASE ~Exhausted(r)
  <2>1. pc' = [pc EXCEPT ![r] = "repairing"] /\ response' = response
    BY <1>2 DEF RepairOrFail, Goto
  <2>2. pc \in [Runs -> Labels]
    BY DEF IInv, TypeOK, CoroutineType
  <2>3. \A s \in Runs : Phase(s)' = Phase(s)
    BY <2>1, <2>2 DEF Phase
  <2> QED BY <2>3, Stutter
<1> QED BY <1>1, <1>2

(* The pool's own steps are invisible.                                     *)
LEMMA PoolInvisible ==
  ASSUME StartJob \/ \E r \in Runs : EndJob(r)
  PROVE  UNCHANGED Evaluation!vars
BY Stutter, PhaseKept DEF StartJob, EndJob, coroutine

(* The first await is a stutter, a refused symbol a failure.               *)
LEMMA AcceptMaps ==
  ASSUME IInv, NEW r \in Runs, Accept(r)
  PROVE  Evaluation!Fail(r) \/ UNCHANGED Evaluation!vars
<1>1. CASE RaiseError(r, "UnsupportedBistSymbolError")
  <2>1. "UnsupportedBistSymbolError" \in Errors
    BY DEF Errors
  <2> QED BY <1>1, <2>1, RaiseFails DEF Accept
<1>2. CASE Goto(r, "generating") /\ UNCHANGED response
  <2>1. pc \in [Runs -> Labels]
    BY DEF IInv, TypeOK, CoroutineType
  <2>2. \A s \in Runs : Phase(s)' = Phase(s)
    BY <1>2, <2>1 DEF Phase, Goto, Accept
  <2> QED BY <2>2, Stutter DEF Accept
<1> QED BY <1>1, <1>2 DEF Accept

(* Generated code is a version of the protocol, within its bound.          *)
LEMMA GeneratedMaps ==
  ASSUME IInv, NEW r \in Runs, Generated(r)
  PROVE  Evaluation!Write(r)
<1>1. /\ pc \in [Runs -> Labels] /\ attempt[r] < MaxVersions
      /\ pc' = [pc EXCEPT ![r] = "validating"] /\ response' = response
  BY LabAssumption DEF IInv, TypeOK, CoroutineType, Generated, NewVersion, Goto, RunInv,
                Progress
<1>2. Phase(r) = "developing" /\ \A s \in Runs : Phase(s)' = Phase(s)
  BY <1>1 DEF Phase, Generated
<1> QED BY <1>1, <1>2 DEF Evaluation!Write, Generated, NewVersion

(* A validation verdict is a stutter, or the failure of the run.           *)
LEMMA ValidateMaps ==
  ASSUME IInv, NEW r \in Runs, Validate(r)
  PROVE  Evaluation!Fail(r) \/ UNCHANGED Evaluation!vars
<1>1. CASE ToThread(r, "smoke") /\ UNCHANGED <<response, verdict>>
  <2>1. pc \in [Runs -> Labels]
    BY DEF IInv, TypeOK, CoroutineType
  <2>2. \A s \in Runs : Phase(s)' = Phase(s)
    BY <1>1, <2>1 DEF Phase, ToThread, Goto, Validate
  <2> QED BY <2>2, Stutter DEF Validate
<1>2. CASE RepairOrFail(r, "static")
  BY <1>2, GivenUp DEF Validate
<1>3. CASE RaiseError(r, "OtherException")
  <2>1. "OtherException" \in Errors
    BY DEF Errors
  <2> QED BY <1>3, <2>1, RaiseFails DEF Validate
<1> QED BY <1>1, <1>2, <1>3 DEF Validate

(* A failed smoke test is a stutter, or the failure of the run.            *)
LEMMA SmokeFailedMaps ==
  ASSUME IInv, NEW r \in Runs, SmokeFailed(r)
  PROVE  Evaluation!Fail(r) \/ UNCHANGED Evaluation!vars
<1>1. CASE ToRepair(r)
  <2>1. RepairOrFail(r, "smoke")
    BY <1>1 DEF SmokeFailed, ToRepair, Blame
  <2> QED BY <2>1, GivenUp DEF SmokeFailed, Resume
<1>2. CASE ~ToRepair(r)
  BY <1>2, SandboxExceptionType, RaiseFails DEF SmokeFailed, Resume
<1> QED BY <1>1, <1>2

(* Freezing, revealing and scoring are the protocol's own steps.           *)
LEMMA FreezeMaps ==
  ASSUME IInv, NEW r \in Runs, FreezeVersion(r)
  PROVE  Evaluation!Freeze(r)
<1>1. /\ pc \in [Runs -> Labels] /\ pc[r] = "smoke" /\ attempt[r] > 0
      /\ pc' = [pc EXCEPT ![r] = "market"] /\ response' = response
  BY DEF IInv, TypeOK, CoroutineType, FreezeVersion, Resume, ToThread, Goto, RunInv, Progress
<1>2. /\ Phase(r) = "developing" /\ Phase(r)' = "frozen"
      /\ \A s \in Runs \ {r} : Phase(s)' = Phase(s)
  BY <1>1 DEF Phase
<1>3. [s \in Runs |-> Phase(s)]' = [[s \in Runs |-> Phase(s)] EXCEPT ![r] = "frozen"]
  BY <1>2, PhaseChanges
<1> QED BY <1>1, <1>2, <1>3 DEF Evaluation!Freeze, FreezeVersion

LEMMA BacktestMaps ==
  ASSUME IInv, NEW r \in Runs, BacktestFrozen(r)
  PROVE  Evaluation!Reveal(r)
<1>1. /\ pc \in [Runs -> Labels] /\ pc[r] = "market"
      /\ pc' = [pc EXCEPT ![r] = "backtest"] /\ response' = response
  BY DEF IInv, TypeOK, CoroutineType, BacktestFrozen, Resume, ToThread, Goto
<1>2. /\ Phase(r) = "frozen" /\ Phase(r)' = "revealed"
      /\ \A s \in Runs \ {r} : Phase(s)' = Phase(s)
  BY <1>1 DEF Phase
<1>3. [s \in Runs |-> Phase(s)]' = [[s \in Runs |-> Phase(s)] EXCEPT ![r] = "revealed"]
  BY <1>2, PhaseChanges
<1> QED BY <1>2, <1>3 DEF Evaluation!Reveal, BacktestFrozen

LEMMA ReportMaps ==
  ASSUME IInv, NEW r \in Runs, Report(r)
  PROVE  Evaluation!Score(r)
<1>1. /\ pc \in [Runs -> Labels] /\ response \in [Runs -> ResponseType] /\ pc[r] = "backtest"
      /\ pc' = [pc EXCEPT ![r] = "done"]
      /\ response' = [response EXCEPT ![r] = Answer(200, NoError, frozen[r], FrozenModel(r))]
  BY DEF IInv, TypeOK, CoroutineType, Report, Resume, Goto
<1>2. response'[r].status = 200
  BY <1>1 DEF Answer
<1>3. /\ Phase(r) = "revealed" /\ Phase(r)' = "scored"
      /\ \A s \in Runs \ {r} : Phase(s)' = Phase(s)
  BY <1>1, <1>2 DEF Phase
<1>4. [s \in Runs |-> Phase(s)]' = [[s \in Runs |-> Phase(s)] EXCEPT ![r] = "scored"]
  BY <1>3, PhaseChanges
<1> QED BY <1>3, <1>4 DEF Evaluation!Score, Report

(* The provider, the market data or the frozen version fails the run.      *)
LEMMA FailureMaps ==
  ASSUME IInv, NEW r \in Runs, ProviderFailed(r) \/ MarketFailed(r) \/ BacktestFailed(r)
  PROVE  Evaluation!Fail(r)
<1>1. CASE ProviderFailed(r)
  BY <1>1, RaiseFails DEF ProviderFailed, Errors
<1>2. CASE MarketFailed(r)
  <2>1. reply[r] \in MarketReplies \ {"ok"}
    BY <1>2 DEF MarketFailed, Resume, IInv, RunInv, Waiting, RepliesOf
  <2>2. reply[r] \in Errors
    BY <2>1 DEF Errors, MarketReplies
  <2> QED BY <1>2, <2>2, RaiseFails DEF MarketFailed, Resume
<1>3. CASE BacktestFailed(r)
  <2>1. PICK e \in Errors : RaiseError(r, e)
    BY <1>3, SandboxExceptionType DEF BacktestFailed, AfterFailedBacktest, Errors
  <2> QED BY <1>3, <2>1, RaiseFails DEF BacktestFailed, Resume
<1> QED BY <1>1, <1>2, <1>3

(* Every step of the service maps to a step of the protocol or a stutter.  *)
LEMMA NextMaps == IInv /\ [Next]_vars => [Evaluation!Next]_Evaluation!vars
<1> SUFFICES ASSUME IInv, [Next]_vars PROVE [Evaluation!Next]_Evaluation!vars
  OBVIOUS
<1>1. CASE UNCHANGED vars
  BY <1>1, Stutter, PhaseKept DEF vars, coroutine
<1>2. CASE StartJob \/ \E r \in Runs : EndJob(r)
  BY <1>2, PoolInvisible
<1>3. ASSUME NEW r \in Runs, Accept(r) \/ Coroutine(r)
      PROVE  [Evaluation!Next]_Evaluation!vars
  BY <1>3, AcceptMaps, GeneratedMaps, ValidateMaps, SmokeFailedMaps, FreezeMaps,
     BacktestMaps, ReportMaps, FailureMaps DEF Coroutine, Evaluation!Next
<1> QED BY <1>1, <1>2, <1>3 DEF Next

(* The initial states map to the protocol's initial state.                 *)
LEMMA InitMaps == Init => Evaluation!Init
BY DEF Init, Evaluation!Init, Phase

(* The service implements the protocol, for any number of requests,        *)
(* threads and versions.                                                   *)
THEOREM ServiceImplementsProtocol == Spec => ImplementsFrozenEvaluation
BY InitMaps, NextMaps, Inductive, PTL DEF Spec, Evaluation!Spec, ImplementsFrozenEvaluation
=============================================================================
