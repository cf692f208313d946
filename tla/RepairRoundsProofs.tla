------------------------- MODULE RepairRoundsProofs -------------------------
(***************************************************************************)
(* Proofs about Deployment, for every configuration of the backend, and    *)
(* about RepairRounds, for all sources a model may write and every number  *)
(* of versions. Its steps are steps of Deployment, so what is proved of    *)
(* Deployment holds of it.                                                 *)
(***************************************************************************)
EXTENDS RepairRounds, FiniteSetTheorems, TLAPS

-----------------------------------------------------------------------------
(* Deployment, for every configuration of the backend. Used is what the    *)
(* stages of the current version may have taken before this one; the       *)
(* versions before it took at most Version each.                           *)

Used ==
    CASE stage = "generate" -> 0
      [] stage = "smoke" -> ProviderTime
      [] stage = "market" -> Version
      [] stage = "backtest" -> Version + MarketTime

TypeOK ==
    /\ http \in {"waiting", "answered", "timeout", "gateway", "cancelled"}
    /\ waited \in Nat
    /\ stage \in {"generate", "smoke", "market", "backtest", "ended"}
    /\ version \in 1..MaxVersions
    /\ spent \in Nat /\ total \in Nat

WithinLimits ==
    /\ IsWorking => spent <= Limit /\ total <= (version - 1) * Version + Used + spent
    /\ RunBounded

Patient == http = "waiting" => waited <= RunTimeout

IInv == TypeOK /\ WithinLimits /\ Patient /\ ProxyOutlastsClient

\* Versions add up: one more version costs one Version more, and never more
\* than all of them together.
LEMMA VersionsAddUp ==
    ASSUME NEW v \in 1..MaxVersions
    PROVE  /\ v * Version = (v - 1) * Version + Version
           /\ v * Version <= MaxVersions * Version
           /\ v * Version \in Nat
<1>1. Version \in Nat /\ MaxVersions \in Nat
  BY DeploymentAssumption DEF Version
<1> DEFINE W == Version
<1>2. W \in Nat
  BY <1>1
<1> HIDE DEF W
<1>3. /\ v * W = (v - 1) * W + W
      /\ v * W <= MaxVersions * W
      /\ v * W \in Nat
  BY <1>1, <1>2, SMTT(30)
<1> QED
  BY <1>3 DEF W

LEMMA InitIInv == Init => IInv
<1> SUFFICES ASSUME Init PROVE IInv
  OBVIOUS
<1>1. 1 \in 1..MaxVersions
  BY DeploymentAssumption
<1>2. MaxVersions * Version \in Nat
  BY <1>1, VersionsAddUp, DeploymentAssumption DEF Version
<1>3. TypeOK /\ Patient /\ ProxyOutlastsClient
  BY <1>1 DEF Init, TypeOK, Patient, ProxyOutlastsClient, RunTimeout
<1>4. WithinLimits
  BY <1>2, DeploymentAssumption
     DEF Init, WithinLimits, RunBounded, IsWorking, Limit, Used, Longest, Version
<1> QED
  BY <1>3, <1>4 DEF IInv

\* A repair starts from a version that took at most Version.
LEMMA RepairKeepsIInv == ASSUME IInv, Repair PROVE IInv'
<1>1. version \in 1..MaxVersions /\ version + 1 \in 1..MaxVersions
  BY DeploymentAssumption DEF IInv, TypeOK, Repair, MayRepair
<1>2. (TypeOK /\ Patient /\ ProxyOutlastsClient)'
  BY <1>1 DEF IInv, TypeOK, Patient, ProxyOutlastsClient, Repair, client
<1>3. version * Version = (version - 1) * Version + Version
  BY <1>1, VersionsAddUp
<1>4. total <= (version - 1) * Version + Version
  <2> DEFINE before == (version - 1) * Version
  <2>1. before \in Int
    BY DeploymentAssumption DEF IInv, TypeOK, Version
  <2>2. total <= before + Used + spent /\ spent <= Limit
    BY DEF IInv, WithinLimits, Repair, IsWorking
  <2>3. Used + spent \in Nat /\ Used + spent <= Version
    BY <2>2, DeploymentAssumption DEF IInv, TypeOK, Repair, Used, Limit, Version
  <2>4. Used \in Nat /\ spent \in Nat /\ total \in Nat /\ Version \in Nat
    BY DeploymentAssumption DEF IInv, TypeOK, Repair, Used, Version
  <2> HIDE DEF before
  <2>5. total <= before + Version
    BY <2>1, <2>2, <2>3, <2>4
  <2> QED
    BY <2>5 DEF before
<1>5. total <= version * Version
  BY <1>3, <1>4
<1>6. /\ version' - 1 = version /\ total' = total
      /\ Used' = 0 /\ spent' = 0 /\ Limit' = ProviderTime
  BY DEF IInv, TypeOK, Repair, Used, Limit
<1>7. version * Version \in Nat /\ total \in Nat
  BY <1>1, VersionsAddUp DEF IInv, TypeOK
<1>8. total' <= (version' - 1) * Version + Used' + spent'
  BY <1>5, <1>6, <1>7
<1>9. Version' = Version /\ Longest' = Longest /\ RunBounded'
  BY <1>6 DEF IInv, WithinLimits, RunBounded, Version, Longest
<1>10. WithinLimits'
  BY <1>6, <1>8, <1>9, DeploymentAssumption DEF WithinLimits
<1> QED
  BY <1>2, <1>10 DEF IInv

LEMMA AdvanceKeepsIInv == ASSUME IInv, Advance PROVE IInv'
<1>1. (TypeOK /\ Patient /\ ProxyOutlastsClient)'
  BY DEF IInv, TypeOK, Patient, ProxyOutlastsClient, Advance, client
<1> DEFINE before == (version - 1) * Version
           next   == CASE stage = "generate" -> ProviderTime
                       [] stage = "smoke" -> Version
                       [] stage = "market" -> Version + MarketTime
<1>2. before \in Int /\ total \in Nat /\ Used \in Nat /\ spent \in Nat /\ next \in Nat
  BY DeploymentAssumption DEF IInv, TypeOK, Advance, Used, Version
<1>3. total <= before + Used + spent /\ spent <= Limit
  BY DEF IInv, WithinLimits, Advance, IsWorking
<1>4. Used + spent <= next
  BY <1>3, DeploymentAssumption DEF IInv, TypeOK, Advance, Used, Limit, Version
<1>5. Used' = next /\ spent' = 0 /\ Limit' \in Nat
  BY DeploymentAssumption DEF IInv, TypeOK, Advance, Used, Limit, Version
<1>6. total' = total /\ version' = version /\ RunBounded'
  BY DEF IInv, WithinLimits, RunBounded, Advance, Longest, Version
<1>7. total <= before + next + 0
  <2> HIDE DEF before, next
  <2> QED
    BY <1>2, <1>3, <1>4
<1>8. total' <= (version' - 1) * Version + Used' + spent'
  BY <1>5, <1>6, <1>7
<1>9. Version' = Version /\ spent' <= Limit'
  BY <1>5 DEF Version
<1>10. WithinLimits'
  BY <1>6, <1>8, <1>9 DEF WithinLimits
<1> QED
  BY <1>1, <1>10 DEF IInv

LEMMA FinishKeepsIInv == ASSUME IInv, Finish PROVE IInv'
<1>1. TypeOK' /\ Patient' /\ ProxyOutlastsClient'
  BY DEF IInv, TypeOK, Patient, ProxyOutlastsClient, Finish
<1>2. WithinLimits'
  BY DEF IInv, WithinLimits, RunBounded, Finish, IsWorking, Longest, Version
<1> QED
  BY <1>1, <1>2 DEF IInv

\* The client's timer is due before the proxy's ever is.
LEMMA GiveUpKeepsIInv == ASSUME IInv, GiveUp PROVE IInv'
<1>1. waited # ProxyReadTimeout
  BY DEF IInv, TypeOK, Patient, GiveUp, RunTimeout, ProxyReadTimeout
<1>2. TypeOK' /\ Patient' /\ ProxyOutlastsClient'
  BY <1>1 DEF IInv, TypeOK, Patient, ProxyOutlastsClient, GiveUp, TimersDue, backend
<1>3. WithinLimits'
  BY DEF IInv, WithinLimits, RunBounded, GiveUp, IsWorking, Longest, Version, Used, Limit, backend
<1> QED
  BY <1>2, <1>3 DEF IInv

LEMMA TickKeepsIInv == ASSUME IInv, Tick PROVE IInv'
<1>1. http = "waiting" => waited # RunTimeout
  BY DEF Tick, TimersDue
<1>2. TypeOK' /\ Patient' /\ ProxyOutlastsClient'
  BY <1>1 DEF IInv, TypeOK, Patient, ProxyOutlastsClient, Tick, RunTimeout
<1>3. ASSUME ~IsWorking PROVE WithinLimits'
  BY <1>3 DEF IInv, WithinLimits, RunBounded, Tick, IsWorking, Longest, Version
<1>4. ASSUME IsWorking PROVE WithinLimits'
  <2> DEFINE before == (version - 1) * Version
  <2>1. before \in Int /\ total \in Nat /\ spent \in Nat
    BY DeploymentAssumption DEF IInv, TypeOK, Version
  <2>2. total <= before + Used + spent /\ spent < Limit
    BY <1>4 DEF IInv, WithinLimits, Tick
  <2>3. /\ total' = total + 1 /\ spent' = spent + 1 /\ IsWorking'
        /\ Used' = Used /\ Limit' = Limit /\ version' = version
    BY <1>4 DEF Tick, IsWorking, Used, Limit, Version
  <2>4. /\ Used \in Nat /\ Limit \in Nat
        /\ Used + Limit <= Version + MarketTime + SandboxTime
    BY <1>4, DeploymentAssumption DEF IInv, TypeOK, IsWorking, Used, Limit, Version
  <2>5. before + Version <= MaxVersions * Version /\ MaxVersions * Version \in Int
    BY VersionsAddUp, DeploymentAssumption DEF IInv, TypeOK, Version
  <2>6. Version \in Nat /\ MarketTime \in Nat /\ SandboxTime \in Nat
    BY DeploymentAssumption DEF Version
  <2>7. (version' - 1) * Version' = before
    BY <2>3 DEF Version
  <2> DEFINE all == MaxVersions * Version
  <2> HIDE DEF before, all
  <2>8. total' <= before + Used' + spent' /\ spent' <= Limit'
    BY <2>1, <2>2, <2>3, <2>4
  <2>9. before + Version <= all /\ all \in Int
    BY <2>5 DEF all
  <2>10. total + 1 <= all + MarketTime + SandboxTime
    BY <2>1, <2>2, <2>4, <2>6, <2>9
  <2>11. RunBounded'
    BY <2>3, <2>10 DEF RunBounded, Longest, Version, all
  <2> QED
    BY <2>7, <2>8, <2>11 DEF WithinLimits
<1>5. WithinLimits'
  BY <1>3, <1>4
<1> QED
  BY <1>2, <1>5 DEF IInv

LEMMA Invariant == Spec => []IInv
<1>1. ASSUME IInv, UNCHANGED vars PROVE IInv'
  BY <1>1 DEF IInv, TypeOK, WithinLimits, Patient, ProxyOutlastsClient, RunBounded,
              IsWorking, Used, Limit, Longest, Version, vars, client, backend
<1>2. ASSUME IInv, [Next]_vars PROVE IInv'
  BY <1>1, <1>2, RepairKeepsIInv, AdvanceKeepsIInv, FinishKeepsIInv, GiveUpKeepsIInv,
     TickKeepsIInv DEF Next
<1> QED
  BY InitIInv, <1>2, PTL DEF Spec

\* For every budget and number of versions, the backend ends a run within
\* the sum of its limits (StrategyLabService.run and the provider client).
THEOREM BackendIsBounded == Spec => []RunBounded
<1>1. IInv => RunBounded
  BY DEF IInv, WithinLimits
<1> QED
  BY <1>1, Invariant, PTL

\* Whatever the backend does, the app's timer ends the wait before nginx
\* does (api_config.dart:22, nginx.conf:23).
THEOREM AppTimesOutFirst == Spec => []ProxyOutlastsClient
<1>1. IInv => ProxyOutlastsClient
  BY DEF IInv
<1> QED
  BY <1>1, Invariant, PTL

-----------------------------------------------------------------------------
(* When the documented deadline holds.                                     *)

\* The app and the backend count the same minutes while the app waits, and an
\* app that gave up for its timer did so after RunTimeout minutes of them.
ClocksAgree ==
    /\ http = "waiting" => IsWorking /\ waited = total
    /\ http = "timeout" => total >= RunTimeout

LEMMA InitClocks == Init => ClocksAgree
BY DEF Init, ClocksAgree, IsWorking, RunTimeout

LEMMA ClocksKept == IInv /\ ClocksAgree /\ [Next]_vars => ClocksAgree'
<1> SUFFICES ASSUME IInv, ClocksAgree, [Next]_vars PROVE ClocksAgree'
  OBVIOUS
<1>0. total \in Nat /\ waited \in Nat
  BY DEF IInv, TypeOK
<1>1. CASE Repair \/ Advance
  BY <1>1 DEF Repair, Advance, ClocksAgree, IsWorking, client
<1>2. CASE Finish
  BY <1>2 DEF Finish, ClocksAgree
<1>3. CASE GiveUp
  <2>1. http' = "timeout" => waited = RunTimeout
    BY <1>3 DEF GiveUp, TimersDue
  <2>2. http' # "waiting" /\ total' = total /\ waited = total
    BY <1>3 DEF GiveUp, TimersDue, ClocksAgree, backend
  <2> QED
    BY <1>0, <2>1, <2>2 DEF ClocksAgree, RunTimeout
<1>4. CASE Tick
  BY <1>0, <1>4 DEF Tick, ClocksAgree, IsWorking, RunTimeout
<1>5. CASE UNCHANGED vars
  BY <1>5 DEF vars, client, backend, ClocksAgree, IsWorking
<1> QED
  BY <1>1, <1>2, <1>3, <1>4, <1>5 DEF Next

\* The documented requirement on client deadlines (nvidia-provider.md:61-62)
\* holds of every configuration whose longest run ends before the app's
\* timer: then no run is ended by the timer while the backend works on it.
THEOREM DeadlineCoversShortRuns == Spec => [](Longest < RunTimeout => DeadlineCoversRun)
<1>1. IInv /\ ClocksAgree => (Longest < RunTimeout => DeadlineCoversRun)
  <2> SUFFICES ASSUME IInv, ClocksAgree, Longest < RunTimeout, http = "timeout" PROVE FALSE
    BY DEF DeadlineCoversRun
  <2>1. MaxVersions * Version \in Int
    BY DeploymentAssumption DEF Version
  <2>2. Longest \in Int
    BY <2>1, DeploymentAssumption DEF Longest
  <2>3. total \in Nat /\ total <= Longest /\ total >= RunTimeout /\ RunTimeout \in Nat
    BY DEF IInv, TypeOK, WithinLimits, RunBounded, ClocksAgree, RunTimeout
  <2> QED
    BY <2>2, <2>3
<1> QED
  BY <1>1, InitClocks, ClocksKept, Invariant, PTL DEF Spec

-----------------------------------------------------------------------------
(* The rounds of validation and repair.                                    *)

LEMMA RoundsStepIsDeploymentStep == [RoundsNext]_<<vars, rounds>> => [Next]_vars
<1> SUFFICES ASSUME [RoundsNext]_<<vars, rounds>> PROVE [Next]_vars
  OBVIOUS
<1>1. CASE RoundsNext
  <2>1. Repair \/ Advance \/ Finish \/ GiveUp \/ Tick
    BY <1>1 DEF RoundsNext, RepairStatic, Accept, RepairSmoke, Freeze, Load, PretestError,
                Scored, Failed, End, Outside
  <2> QED
    BY <2>1 DEF Next
<1>2. CASE UNCHANGED <<vars, rounds>>
  BY <1>2
<1> QED
  BY <1>1, <1>2

\* The rounds of validation and repair are one way in which the stages that
\* Deployment bounds come about.
THEOREM RoundsImplementDeployment == RoundsSpec => Spec
<1>1. RoundsInit => Init
  BY DEF RoundsInit
<1> QED
  BY <1>1, RoundsStepIsDeploymentStep, PTL DEF RoundsSpec, Spec

\* Whatever the model writes, a run's versions, validations and repairs end
\* within the sum of the limits (StrategyLabService.run).
THEOREM RoundsAreBounded == RoundsSpec => []RunBounded
BY RoundsImplementDeployment, BackendIsBounded, PTL

\* What the pipeline calls valid is clean.
LEMMA ValidIsClean ==
    ASSUME NEW s, NEW p, IsValid(Validate(s, ContractFindings(s, p)))
    PROVE  Clean(s, p)
<1> DEFINE findings  == ContractFindings(s, p)
           interface == InterfaceErrors(s) \cup findings
<1>1. /\ Parses(s) /\ ImportErrors(s) = {} /\ SecurityErrors(s) = {}
      /\ interface = {} /\ LookaheadErrors(s) = {}
  BY DEF IsValid, Validate, Response
<1>2. s.parses /\ s.fence = "none"
  BY <1>1 DEF Parses
<1>3. s.imports \subseteq ALLOWED_IMPORT_ROOTS
  BY <1>1 DEF ImportErrors
<1>4. s.forbidden = {}
  BY <1>1 DEF SecurityErrors
<1>5. /\ s.class # None
      /\ {"init", "next"} \subseteq s.class.methods
      /\ "Strategy" \in s.class.bases \/ "backtesting.Strategy" \in s.class.bases
  <2>1. InterfaceErrors(s) = {}
    BY <1>1
  <2>2. s.class # None
    BY <2>1 DEF InterfaceErrors
  <2>3. {<<"interface", m>> : m \in {"init", "next"} \ s.class.methods} = {}
    BY <2>1, <2>2 DEF InterfaceErrors
  <2>4. s.class.bases \cap {"Strategy", "backtesting.Strategy"} # {}
    BY <2>1, <2>2 DEF InterfaceErrors
  <2> QED
    BY <2>2, <2>3, <2>4
<1>6. \A period \in s.shifts : ~(period < 0)
  BY <1>1 DEF LookaheadErrors
<1>7. findings = {}
  BY <1>1
<1>8. p # "unclear" /\ s.misuses = {} /\ (p = "percentage" => s.trails)
  BY <1>1, <1>7 DEF ContractFindings
<1> QED
  BY <1>2, <1>3, <1>4, <1>5, <1>6, <1>8 DEF Clean

LEMMA InitIsClean == RoundsInit => OnlyCleanCodeRuns
  BY DEF RoundsInit, Init, OnlyCleanCodeRuns

\* Only Accept and Freeze bring a version nearer to the market; every other
\* step leaves it where it is, or starts another version.
LEMMA StepKeepsClean ==
    ASSUME OnlyCleanCodeRuns, [RoundsNext]_<<vars, rounds>>
    PROVE  OnlyCleanCodeRuns'
<1>1. CASE RepairStatic \/ RepairSmoke
  BY <1>1 DEF RepairStatic, RepairSmoke, Repair, OnlyCleanCodeRuns
<1>2. CASE Accept
  <2>1. Clean(Code, prompt)
    BY <1>2, ValidIsClean DEF Accept, Verdict, Findings
  <2>2. source' = Code /\ prompt' = prompt /\ stage' = "smoke"
    BY <1>2 DEF Accept, Advance
  <2> QED
    BY <2>1, <2>2 DEF OnlyCleanCodeRuns
<1>3. CASE Freeze \/ Load
  BY <1>3 DEF Freeze, Load, Advance, rounds, OnlyCleanCodeRuns
<1>4. CASE PretestError \/ Scored \/ Failed
  BY <1>4 DEF PretestError, Scored, Failed, End, Finish, OnlyCleanCodeRuns
<1>5. CASE Outside
  BY <1>5 DEF Outside, GiveUp, Tick, backend, rounds, OnlyCleanCodeRuns
<1>6. CASE UNCHANGED <<vars, rounds>>
  BY <1>6 DEF vars, backend, rounds, OnlyCleanCodeRuns
<1> QED
  BY <1>1, <1>2, <1>3, <1>4, <1>5, <1>6 DEF RoundsNext

\* For all programs a model may write: what runs passed every validator as
\* it stands, and what meets the held-out data also passed the smoke run.
THEOREM OnlyCleanCodeIsRun == RoundsSpec => []OnlyCleanCodeRuns
BY InitIsClean, StepKeepsClean, PTL DEF RoundsSpec

-----------------------------------------------------------------------------
(* Rounds of findings. That no repair is wasted rests on a measure: the    *)
(* layers of faults a version has left and the versions so far never       *)
(* exceed the layers of the first version, as long as the model does what  *)
(* it is told.                                                             *)

\* A quotient is the only number of whole divisors that fit.
LEMMA Quotient ==
    ASSUME NEW d \in Nat \ {0}, NEW a \in Int, NEW q \in Int, d * q <= a, a < d * q + d
    PROVE  a \div d = q
<1> DEFINE r == a \div d
<1>1. r \in Int /\ d * r <= a /\ a < d * r + d
  OBVIOUS
<1> HIDE DEF r
<1>2. CASE q < r
  <2>1. d * (q + 1) <= d * r
    BY <1>1, <1>2
  <2>2. d * (q + 1) = d * q + d
    OBVIOUS
  <2> QED
    BY <1>1, <2>1, <2>2
<1>3. CASE r < q
  <2>1. d * (r + 1) <= d * q
    BY <1>1, <1>3
  <2>2. d * (r + 1) = d * r + d
    BY <1>1
  <2> QED
    BY <1>1, <2>1, <2>2
<1> QED
  BY <1>1, <1>2, <1>3 DEF r

\* A full context lowers the rounds that findings take by one.
LEMMA RoundsFall ==
    ASSUME NEW n \in Nat
    PROVE  /\ Rounds(n) \in Nat
           /\ n = 0 => Rounds(n) = 0
           /\ n > 0 /\ n <= MaxFindings => Rounds(n) = 1
           /\ n > MaxFindings => Rounds(n - MaxFindings) = Rounds(n) - 1
           /\ n > 0 => Rounds(n) > 0
<1> DEFINE d == MaxFindings
           q == Rounds(n)
<1>0. d \in Nat \ {0}
  BY FindingsAssumption
<1>1. q \in Int /\ d * q <= n + d - 1 /\ n + d - 1 < d * q + d
  BY <1>0 DEF Rounds
<1> HIDE DEF q, d
<1>2. q >= 0
  <2> SUFFICES ASSUME q < 0 PROVE FALSE
    BY <1>1
  <2>1. d * (q + 1) <= d * 0
    BY <1>0, <1>1
  <2>2. d * (q + 1) = d * q + d /\ d * 0 = 0
    BY <1>0, <1>1
  <2> QED
    BY <1>0, <1>1, <2>1, <2>2
<1>3. CASE n = 0
  <2>1. d * 0 <= n + d - 1 /\ n + d - 1 < d * 0 + d
    BY <1>0, <1>3
  <2>2. (n + d - 1) \div d = 0
    BY <1>0, <2>1, Quotient
  <2> QED
    BY <1>0, <1>1, <1>2, <1>3, <2>2 DEF Rounds, d, q
<1>4. CASE n > 0 /\ n <= d
  <2>1. d * 1 <= n + d - 1 /\ n + d - 1 < d * 1 + d
    BY <1>0, <1>4
  <2>2. (n + d - 1) \div d = 1
    BY <1>0, <2>1, Quotient
  <2> QED
    BY <1>0, <1>1, <1>2, <1>4, <2>2 DEF Rounds, d, q
<1>5. CASE n > d
  <2>1. d * (q - 1) = d * q - d
    BY <1>0, <1>1
  <2>2. d * (q - 1) <= (n - d) + d - 1 /\ (n - d) + d - 1 < d * (q - 1) + d
    BY <1>0, <1>1, <2>1
  <2>3. ((n - d) + d - 1) \div d = q - 1
    BY <1>0, <1>1, <2>2, Quotient
  <2>4. q > 0
    <3> SUFFICES ASSUME q = 0 PROVE FALSE
      BY <1>1, <1>2
    <3>1. d * q = 0
      BY <1>0
    <3> QED
      BY <1>0, <1>1, <1>5, <3>1
  <2> QED
    BY <1>0, <1>1, <1>2, <1>5, <2>3, <2>4 DEF Rounds, d, q
<1> QED
  BY <1>0, <1>3, <1>4, <1>5 DEF d

\* A context is not empty when something was found, and what it leaves
\* takes one round less.
LEMMA ToldIsARound ==
    ASSUME NEW F, IsFiniteSet(F), F # {}, NEW told \in Told(F)
    PROVE  /\ told \subseteq F /\ told # {}
           /\ Rounds(Cardinality(F)) \in Nat
           /\ Rounds(Cardinality(F \ told)) = Rounds(Cardinality(F)) - 1
<1> DEFINE n == Cardinality(F)
<1>1. n \in Nat /\ n > 0
  BY FS_CardinalityType, FS_EmptySet
<1>2. CASE n <= MaxFindings
  <2>1. told = F
    BY <1>2 DEF Told
  <2>2. F \ told = {} /\ Cardinality({}) = 0
    BY <2>1, FS_EmptySet
  <2> QED
    BY <1>1, <1>2, <2>1, <2>2, RoundsFall
<1>3. CASE ~(n <= MaxFindings)
  <2>1. told \subseteq F /\ Cardinality(told) = MaxFindings
    BY <1>3 DEF Told, kSubset
  <2>2. F \cap told = told
    BY <2>1
  <2>3. Cardinality(F \ told) = n - MaxFindings
    BY <2>1, <2>2, FS_Difference
  <2>4. told # {}
    BY <2>1, FS_EmptySet, FindingsAssumption
  <2> QED
    BY <1>1, <1>3, <2>1, <2>3, <2>4, RoundsFall, FindingsAssumption
<1> QED
  BY <1>2, <1>3

-----------------------------------------------------------------------------
(* The layers of a source, read off its fields.                            *)

TreeContract(s, p) ==
    (IF p = "unclear" THEN {<<"contract", "invalid_trailing_percentage">>} ELSE {})
    \cup {<<"contract", code>> : code \in s.misuses}
    \cup (IF p = "percentage" /\ ~s.trails THEN {<<"contract", "invalid_trailing_implementation">>} ELSE {})

TreeErrors(s) == ImportErrors(s) \cup SecurityErrors(s) \cup InterfaceErrors(s) \cup LookaheadErrors(s)

SyntaxLayer(s) == IF Parses(CleanCode(s)) THEN 0 ELSE 1
SmokeLayer(s)  == IF s.breaks = None THEN 0 ELSE 1

\* Cleaning changes the fence alone, and once.
LEMMA CleanFields ==
    ASSUME NEW s, IsSource(s)
    PROVE  LET c == CleanCode(s)
           IN /\ IsSource(c) /\ CleanCode(c) = c /\ c.fence # "whole"
              /\ c.parses = s.parses /\ c.imports = s.imports /\ c.forbidden = s.forbidden
              /\ c.class = s.class /\ c.shifts = s.shifts /\ c.misuses = s.misuses
              /\ c.trails = s.trails /\ c.breaks = s.breaks
<1> DEFINE c == CleanCode(s)
<1>1. DOMAIN s = {"fence", "parses", "imports", "forbidden", "class", "shifts", "misuses", "trails", "breaks"}
  BY DEF IsSource
<1>2. /\ DOMAIN c = DOMAIN s
      /\ c.parses = s.parses /\ c.imports = s.imports /\ c.forbidden = s.forbidden
      /\ c.class = s.class /\ c.shifts = s.shifts /\ c.misuses = s.misuses
      /\ c.trails = s.trails /\ c.breaks = s.breaks /\ c.fence # "whole"
  BY <1>1 DEF CleanCode
<1> HIDE DEF c
<1>3. IsSource(c) /\ CleanCode(c) = c
  BY <1>2 DEF IsSource, CleanCode
<1> QED
  BY <1>2, <1>3 DEF c

LEMMA LayersByField ==
    ASSUME NEW s, IsSource(s), NEW p
    PROVE  Layers(s, p) = SyntaxLayer(s) + Rounds(Cardinality(TreeContract(s, p)))
                            + Rounds(Cardinality(TreeErrors(s))) + SmokeLayer(s)
<1> DEFINE c    == CleanCode(s)
           tree == [c EXCEPT !.parses = TRUE, !.fence = "none"]
<1>1. /\ IsSource(c)
      /\ c.imports = s.imports /\ c.forbidden = s.forbidden /\ c.class = s.class
      /\ c.shifts = s.shifts /\ c.misuses = s.misuses /\ c.trails = s.trails
  BY CleanFields
<1> HIDE DEF c
<1>2. /\ tree.fence = "none" /\ tree.parses = TRUE
      /\ tree.imports = c.imports /\ tree.forbidden = c.forbidden /\ tree.class = c.class
      /\ tree.shifts = c.shifts /\ tree.misuses = c.misuses /\ tree.trails = c.trails
  <2>1. DOMAIN c = {"fence", "parses", "imports", "forbidden", "class", "shifts", "misuses", "trails", "breaks"}
    BY <1>1 DEF IsSource
  <2> QED
    BY <2>1
<1> HIDE DEF tree
<1>3. /\ Parses(tree) /\ tree.imports = s.imports /\ tree.forbidden = s.forbidden /\ tree.class = s.class
      /\ tree.shifts = s.shifts /\ tree.misuses = s.misuses /\ tree.trails = s.trails
  BY <1>1, <1>2 DEF Parses
<1>4. ContractFindings(tree, p) = TreeContract(s, p)
  BY <1>3 DEF ContractFindings, TreeContract
<1>5. Validate(tree, {}).errors = TreeErrors(s)
  <2>1. /\ ImportErrors(tree) = ImportErrors(s) /\ SecurityErrors(tree) = SecurityErrors(s)
        /\ InterfaceErrors(tree) = InterfaceErrors(s) /\ LookaheadErrors(tree) = LookaheadErrors(s)
    BY <1>3 DEF ImportErrors, SecurityErrors, InterfaceErrors, LookaheadErrors
  <2> QED
    BY <1>3, <2>1 DEF Validate, Response, TreeErrors
<1> QED
  BY <1>4, <1>5 DEF Layers, SyntaxLayer, SmokeLayer, tree, c

LEMMA TagsFinite ==
    ASSUME NEW S, IsFiniteSet(S), NEW tag
    PROVE  IsFiniteSet({<<tag, x>> : x \in S})
<1>1. IsFiniteSet({tag} \X S)
  BY FS_Singleton, FS_Product
<1>2. {<<tag, x>> : x \in S} \subseteq {tag} \X S
  OBVIOUS
<1> QED
  BY <1>1, <1>2, FS_Subset

LEMMA LayersFinite ==
    ASSUME NEW s, IsSource(s), NEW p
    PROVE  IsFiniteSet(TreeContract(s, p)) /\ IsFiniteSet(TreeErrors(s))
<1>1. IsFiniteSet({<<"contract", code>> : code \in s.misuses})
  BY TagsFinite DEF IsSource
<1>2. IsFiniteSet(ImportErrors(s))
  <2>1. IsFiniteSet(s.imports \ ALLOWED_IMPORT_ROOTS)
    BY FS_Difference DEF IsSource
  <2> QED
    BY <2>1, TagsFinite DEF ImportErrors
<1>3. IsFiniteSet(SecurityErrors(s))
  BY TagsFinite DEF IsSource, SecurityErrors
<1>4. IsFiniteSet(InterfaceErrors(s))
  <2>1. IsFiniteSet({"init", "next"})
    <3>1. {"init", "next"} = {"init"} \cup {"next"}
      OBVIOUS
    <3>2. IsFiniteSet({"init"}) /\ IsFiniteSet({"next"})
      BY FS_Singleton
    <3>3. IsFiniteSet({"init"} \cup {"next"})
      BY <3>2, FS_Union
    <3> QED
      BY <3>1, <3>3
  <2>2. IsFiniteSet({"init", "next"} \ s.class.methods)
    BY <2>1, FS_Difference
  <2> DEFINE missing == {"init", "next"} \ s.class.methods
  <2> HIDE DEF missing
  <2>3. IsFiniteSet({<<"interface", m>> : m \in missing})
    BY <2>2, TagsFinite DEF missing
  <2>4. IsFiniteSet({<<"interface", "class">>}) /\ IsFiniteSet({<<"interface", "base">>}) /\ IsFiniteSet({})
    BY FS_Singleton, FS_EmptySet
  <2>5. CASE s.class = None
    BY <2>4, <2>5 DEF InterfaceErrors
  <2>6. CASE s.class # None
    <3>1. InterfaceErrors(s) = {<<"interface", m>> : m \in missing}
                                \cup (IF s.class.bases \cap {"Strategy", "backtesting.Strategy"} = {}
                                      THEN {<<"interface", "base">>} ELSE {})
      BY <2>6 DEF InterfaceErrors, missing
    <3> QED
      BY <2>3, <2>4, <3>1, FS_Union
  <2> QED
    BY <2>5, <2>6
<1>5. IsFiniteSet(LookaheadErrors(s))
  BY FS_Singleton, FS_EmptySet DEF LookaheadErrors
<1>6. IsFiniteSet(TreeErrors(s))
  BY <1>2, <1>3, <1>4, <1>5, FS_Union DEF TreeErrors
<1>7. IsFiniteSet(TreeContract(s, p))
  BY <1>1, FS_Singleton, FS_EmptySet, FS_Union DEF TreeContract
<1> QED
  BY <1>6, <1>7

-----------------------------------------------------------------------------
(* What one repair does to the layers.                                     *)

LEMMA LayersAreNumbers ==
    ASSUME NEW s, IsSource(s), NEW p
    PROVE  /\ Rounds(Cardinality(TreeContract(s, p))) \in Nat
           /\ Rounds(Cardinality(TreeErrors(s))) \in Nat
           /\ SyntaxLayer(s) \in {0, 1} /\ SmokeLayer(s) \in {0, 1}
           /\ Layers(s, p) \in Nat
<1>1. /\ Rounds(Cardinality(TreeContract(s, p))) \in Nat
      /\ Rounds(Cardinality(TreeErrors(s))) \in Nat
  BY LayersFinite, FS_CardinalityType, RoundsFall
<1>2. SyntaxLayer(s) \in {0, 1} /\ SmokeLayer(s) \in {0, 1}
  BY DEF SyntaxLayer, SmokeLayer
<1> QED
  BY <1>1, <1>2, LayersByField

LEMMA RepairedFields ==
    ASSUME NEW s, IsSource(s), NEW told
    PROVE  LET r == Repaired(s, told)
           IN /\ r.fence = (IF Named(told, "syntax") # {} THEN "none" ELSE s.fence)
              /\ r.parses = (s.parses \/ Named(told, "syntax") # {})
              /\ r.imports = s.imports \ Named(told, "import")
              /\ r.forbidden = s.forbidden \ Named(told, "security")
              /\ r.shifts = (IF Named(told, "lookahead") # {} THEN {} ELSE s.shifts)
              /\ r.misuses = s.misuses \ Named(told, "contract")
              /\ r.trails = (s.trails \/ "invalid_trailing_implementation" \in Named(told, "contract"))
              /\ r.breaks = (IF Named(told, "smoke") # {} THEN None ELSE s.breaks)
              /\ r.class = IF "class" \in Named(told, "interface")
                           THEN [bases |-> {"Strategy"}, methods |-> {"init", "next"}]
                           ELSE IF s.class = None THEN s.class
                           ELSE [bases   |-> s.class.bases \cup (IF "base" \in Named(told, "interface") THEN {"Strategy"} ELSE {}),
                                 methods |-> s.class.methods \cup (Named(told, "interface") \ {"base"})]
              /\ DOMAIN r = DOMAIN s
<1>1. DOMAIN s = {"fence", "parses", "imports", "forbidden", "class", "shifts", "misuses", "trails", "breaks"}
  BY DEF IsSource
<1> DEFINE r == Repaired(s, told)
<1>2. r.fence = (IF Named(told, "syntax") # {} THEN "none" ELSE s.fence)
  BY <1>1 DEF Repaired
<1>3. r.parses = (s.parses \/ Named(told, "syntax") # {})
  BY <1>1 DEF Repaired
<1>4. r.imports = s.imports \ Named(told, "import")
  BY <1>1 DEF Repaired
<1>5. r.forbidden = s.forbidden \ Named(told, "security")
  BY <1>1 DEF Repaired
<1>6. r.shifts = (IF Named(told, "lookahead") # {} THEN {} ELSE s.shifts)
  BY <1>1 DEF Repaired
<1>7. r.misuses = s.misuses \ Named(told, "contract")
  BY <1>1 DEF Repaired
<1>8. r.trails = (s.trails \/ "invalid_trailing_implementation" \in Named(told, "contract"))
  BY <1>1 DEF Repaired
<1>9. r.breaks = (IF Named(told, "smoke") # {} THEN None ELSE s.breaks)
  BY <1>1 DEF Repaired
<1>10. r.class = IF "class" \in Named(told, "interface")
                THEN [bases |-> {"Strategy"}, methods |-> {"init", "next"}]
                ELSE IF s.class = None THEN s.class
                ELSE [bases   |-> s.class.bases \cup (IF "base" \in Named(told, "interface") THEN {"Strategy"} ELSE {}),
                      methods |-> s.class.methods \cup (Named(told, "interface") \ {"base"})]
  BY <1>1 DEF Repaired
<1>11. DOMAIN r = DOMAIN s
  BY <1>1 DEF Repaired
<1> QED
  BY <1>2, <1>3, <1>4, <1>5, <1>6, <1>7, <1>8, <1>9, <1>10, <1>11

LEMMA RepairedClass ==
    ASSUME NEW s, IsSource(s), NEW told, Named(told, "interface") \subseteq {"class", "base", "init", "next"}
    PROVE  LET r == Repaired(s, told)
           IN /\ r.class \in Classes \cup {None}
              /\ "class" \in Named(told, "interface") \/ s.class # None => r.class \in Classes
<1> DEFINE r == Repaired(s, told)
<1>1. s.class \in Classes \cup {None}
  BY DEF IsSource
<1> DEFINE named == Named(told, "interface")
<1>2. r.class = IF "class" \in named
                THEN [bases |-> {"Strategy"}, methods |-> {"init", "next"}]
                ELSE IF s.class = None THEN s.class
                ELSE [bases   |-> s.class.bases \cup (IF "base" \in named THEN {"Strategy"} ELSE {}),
                      methods |-> s.class.methods \cup (named \ {"base"})]
  BY RepairedFields
<1> HIDE DEF named, r
<1>3. named \ {"class", "base"} \subseteq Identifiers /\ "Strategy" \in Identifiers
  BY IdentifiersAssumption DEF named
<1>4. "class" \in named => r.class \in Classes
  <2>1. [bases |-> {"Strategy"}, methods |-> {"init", "next"}] \in Classes
    BY IdentifiersAssumption DEF Classes
  <2> QED
    BY <1>2, <2>1
<1>5. "class" \notin named /\ s.class # None => r.class \in Classes
  <2> SUFFICES ASSUME "class" \notin named, s.class # None PROVE r.class \in Classes
    OBVIOUS
  <2>1. s.class.bases \subseteq Identifiers /\ s.class.methods \subseteq Identifiers
    BY <1>1 DEF Classes
  <2> DEFINE bases   == s.class.bases \cup (IF "base" \in named THEN {"Strategy"} ELSE {})
             methods == s.class.methods \cup (named \ {"base"})
  <2>2. bases \subseteq Identifiers /\ methods \subseteq Identifiers
    BY <1>3, <2>1
  <2>3. r.class = [bases |-> bases, methods |-> methods]
    BY <1>2
  <2> HIDE DEF bases, methods
  <2> QED
    BY <2>2, <2>3 DEF Classes
<1>6. "class" \notin named /\ s.class = None => r.class = None
  BY <1>2
<1> QED
  BY <1>4, <1>5, <1>6 DEF named, r

LEMMA RepairedIsSource ==
    ASSUME NEW s, IsSource(s), NEW told, Named(told, "interface") \subseteq {"class", "base", "init", "next"}
    PROVE  IsSource(Repaired(s, told))
<1> DEFINE r == Repaired(s, told)
<1>1. DOMAIN r = {"fence", "parses", "imports", "forbidden", "class", "shifts", "misuses", "trails", "breaks"}
  BY RepairedFields DEF IsSource
<1>2. r.parses \in BOOLEAN /\ r.trails \in BOOLEAN
  BY RepairedFields DEF IsSource
<1>3. IsFiniteSet(r.imports) /\ IsFiniteSet(r.forbidden) /\ IsFiniteSet(r.misuses)
  <2>1. IsFiniteSet(s.imports) /\ IsFiniteSet(s.forbidden) /\ IsFiniteSet(s.misuses)
    BY DEF IsSource
  <2>2. /\ r.imports = s.imports \ Named(told, "import")
        /\ r.forbidden = s.forbidden \ Named(told, "security")
        /\ r.misuses = s.misuses \ Named(told, "contract")
    BY RepairedFields
  <2>3. IsFiniteSet(s.imports \ Named(told, "import"))
    BY <2>1, FS_Difference
  <2>4. IsFiniteSet(s.forbidden \ Named(told, "security"))
    BY <2>1, FS_Difference
  <2>5. IsFiniteSet(s.misuses \ Named(told, "contract"))
    BY <2>1, FS_Difference
  <2> HIDE DEF r
  <2> QED
    BY <2>2, <2>3, <2>4, <2>5
<1>4. r.class \in Classes \cup {None}
  BY RepairedClass
<1> HIDE DEF r
<1>5. IsSource(r)
  BY <1>1, <1>2, <1>3, <1>4 DEF IsSource
<1> QED
  BY <1>5 DEF r

IsCleaned(s) == IsSource(s) /\ s.fence # "whole"

LEMMA CleanedLayer ==
    ASSUME NEW s, IsCleaned(s)
    PROVE  SyntaxLayer(s) = IF Parses(s) THEN 0 ELSE 1
  BY DEF IsCleaned, SyntaxLayer, CleanCode

\* Two sources with the same tree have the same findings in it.
LEMMA SameTree ==
    ASSUME NEW s, NEW r, NEW p
    PROVE  /\ r.imports = s.imports /\ r.forbidden = s.forbidden /\ r.class = s.class /\ r.shifts = s.shifts
              => TreeErrors(r) = TreeErrors(s)
           /\ r.misuses = s.misuses /\ r.trails = s.trails => TreeContract(r, p) = TreeContract(s, p)
           /\ r.breaks = s.breaks => SmokeLayer(r) = SmokeLayer(s)
           /\ r.fence = s.fence /\ r.parses = s.parses => Parses(r) = Parses(s)
<1>1. r.imports = s.imports /\ r.forbidden = s.forbidden /\ r.class = s.class /\ r.shifts = s.shifts
        => TreeErrors(r) = TreeErrors(s)
  BY DEF TreeErrors, ImportErrors, SecurityErrors, InterfaceErrors, LookaheadErrors
<1>2. r.misuses = s.misuses /\ r.trails = s.trails => TreeContract(r, p) = TreeContract(s, p)
  BY DEF TreeContract
<1>3. r.breaks = s.breaks => SmokeLayer(r) = SmokeLayer(s)
  BY DEF SmokeLayer
<1>4. r.fence = s.fence /\ r.parses = s.parses => Parses(r) = Parses(s)
  BY DEF Parses
<1> QED
  BY <1>1, <1>2, <1>3, <1>4

\* What no finding names stays as it is.
LEMMA UnnamedStays ==
    ASSUME NEW s, IsCleaned(s), NEW told
    PROVE  LET r == Repaired(s, told)
           IN /\ Named(told, "syntax") = {} => r.fence = s.fence /\ r.parses = s.parses
              /\ Named(told, "import") = {} => r.imports = s.imports
              /\ Named(told, "security") = {} => r.forbidden = s.forbidden
              /\ Named(told, "interface") = {} => r.class = s.class
              /\ Named(told, "lookahead") = {} => r.shifts = s.shifts
              /\ Named(told, "contract") = {} => r.misuses = s.misuses /\ r.trails = s.trails
              /\ Named(told, "smoke") = {} => r.breaks = s.breaks
              /\ r.fence # "whole"
<1> DEFINE r == Repaired(s, told)
<1>0. IsSource(s) /\ s.parses \in BOOLEAN /\ s.trails \in BOOLEAN
  BY DEF IsCleaned, IsSource
<1>1. /\ Named(told, "syntax") = {} => r.fence = s.fence /\ r.parses = s.parses
      /\ r.fence # "whole"
  BY <1>0, RepairedFields DEF IsCleaned
<1>2. /\ Named(told, "import") = {} => r.imports = s.imports
      /\ Named(told, "security") = {} => r.forbidden = s.forbidden
      /\ Named(told, "lookahead") = {} => r.shifts = s.shifts
      /\ Named(told, "smoke") = {} => r.breaks = s.breaks
  <2>1. /\ r.imports = s.imports \ Named(told, "import")
        /\ r.forbidden = s.forbidden \ Named(told, "security")
    BY <1>0, RepairedFields
  <2>2. /\ Named(told, "lookahead") = {} => r.shifts = s.shifts
        /\ Named(told, "smoke") = {} => r.breaks = s.breaks
    BY <1>0, RepairedFields
  <2>3. s.imports \ {} = s.imports /\ s.forbidden \ {} = s.forbidden
    OBVIOUS
  <2> HIDE DEF r
  <2> QED
    BY <2>1, <2>2, <2>3
<1>3. Named(told, "contract") = {} => r.misuses = s.misuses /\ r.trails = s.trails
  <2>1. r.misuses = s.misuses \ Named(told, "contract")
    BY <1>0, RepairedFields
  <2>2. r.trails = (s.trails \/ "invalid_trailing_implementation" \in Named(told, "contract"))
    BY <1>0, RepairedFields
  <2>3. s.misuses \ {} = s.misuses
    OBVIOUS
  <2> HIDE DEF r
  <2>4. Named(told, "contract") = {} => r.misuses = s.misuses
    BY <2>1, <2>3
  <2>5. Named(told, "contract") = {} => r.trails = s.trails
    BY <1>0, <2>2
  <2> QED
    BY <2>4, <2>5
<1>4. Named(told, "interface") = {} => r.class = s.class
  <2> SUFFICES ASSUME Named(told, "interface") = {} PROVE r.class = s.class
    OBVIOUS
  <2>1. CASE s.class = None
    BY <2>1, RepairedFields DEF IsCleaned
  <2>2. CASE s.class # None
    <3>1. r.class = [bases |-> s.class.bases \cup {}, methods |-> s.class.methods \cup ({} \ {"base"})]
      BY <2>2, RepairedFields DEF IsCleaned
    <3>2. s.class \in Classes
      BY <2>2 DEF IsCleaned, IsSource
    <3>3. s.class = [bases |-> s.class.bases, methods |-> s.class.methods]
      BY <3>2 DEF Classes
    <3>4. s.class.bases \cup {} = s.class.bases /\ s.class.methods \cup ({} \ {"base"}) = s.class.methods
      OBVIOUS
    <3> QED
      BY <3>1, <3>3, <3>4
  <2> QED
    BY <2>1, <2>2
<1> QED
  BY <1>1, <1>2, <1>3, <1>4

\* Findings of one category name nothing in another.
LEMMA OneCategory ==
    ASSUME NEW told, NEW category, \A f \in told : f[1] = category
    PROVE  /\ \A other : other # category => Named(told, other) = {}
           /\ told # {} => Named(told, category) # {}
  BY DEF Named

Categories == {"syntax", "import", "security", "interface", "lookahead", "contract", "smoke"}

\* A source that does not parse is told so, and nothing else.
LEMMA SyntaxRepair ==
    ASSUME NEW s, IsCleaned(s), ~Parses(s), NEW p
    PROVE  LET r == Repaired(s, {<<"syntax", "invalid">>})
           IN IsCleaned(r) /\ Layers(r, p) = Layers(s, p) - 1
<1> DEFINE told == {<<"syntax", "invalid">>}
           r    == Repaired(s, told)
<1>1. Named(told, "syntax") # {} /\ \A c \in Categories \ {"syntax"} : Named(told, c) = {}
  <2>1. \A f \in told : f[1] = "syntax"
    OBVIOUS
  <2> HIDE DEF told
  <2>2. told # {}
    BY DEF told
  <2> QED
    BY <2>1, <2>2, OneCategory DEF Categories
<1>2. /\ r.imports = s.imports /\ r.forbidden = s.forbidden /\ r.class = s.class /\ r.shifts = s.shifts
      /\ r.misuses = s.misuses /\ r.trails = s.trails /\ r.breaks = s.breaks /\ r.fence # "whole"
  BY <1>1, UnnamedStays DEF Categories
<1>3. Parses(r)
  <2>1. r.fence = "none" /\ r.parses = TRUE
    BY <1>1, RepairedFields DEF IsCleaned
  <2> QED
    BY <2>1 DEF Parses
<1>4. IsCleaned(r)
  BY <1>1, <1>2, RepairedIsSource DEF IsCleaned, Categories
<1> HIDE DEF r
<1>5. /\ TreeErrors(r) = TreeErrors(s) /\ TreeContract(r, p) = TreeContract(s, p)
      /\ SmokeLayer(r) = SmokeLayer(s)
  BY <1>2, SameTree
<1>6. SyntaxLayer(r) = 0 /\ SyntaxLayer(s) = 1
  BY <1>3, <1>4, CleanedLayer
<1>7. Layers(r, p) = Layers(s, p) - 1
  <2>1. IsSource(r) /\ IsSource(s)
    BY <1>4 DEF IsCleaned
  <2>2. /\ Layers(r, p) = SyntaxLayer(r) + Rounds(Cardinality(TreeContract(r, p)))
                             + Rounds(Cardinality(TreeErrors(r))) + SmokeLayer(r)
        /\ Layers(s, p) = SyntaxLayer(s) + Rounds(Cardinality(TreeContract(s, p)))
                             + Rounds(Cardinality(TreeErrors(s))) + SmokeLayer(s)
    BY <2>1, LayersByField
  <2> QED
    BY <1>4, <1>5, <1>6, <2>1, <2>2, LayersAreNumbers
<1> QED
  BY <1>4, <1>7 DEF r

\* One repair of what the contract finds.
LEMMA ContractRepair ==
    ASSUME NEW s, IsCleaned(s), Parses(s), NEW p, p # "unclear",
           TreeContract(s, p) # {}, NEW told \in Told(TreeContract(s, p))
    PROVE  LET r == Repaired(s, told)
           IN IsCleaned(r) /\ Layers(r, p) = Layers(s, p) - 1
<1> DEFINE F == TreeContract(s, p)
           r == Repaired(s, told)
           N == Named(told, "contract")
<1>1. told \subseteq F /\ told # {} /\ Rounds(Cardinality(F)) \in Nat
      /\ Rounds(Cardinality(F \ told)) = Rounds(Cardinality(F)) - 1
  BY LayersFinite, ToldIsARound DEF IsCleaned
<1>2. \A f \in told : f[1] = "contract" /\ f = <<"contract", f[2]>>
  BY <1>1 DEF TreeContract
<1>3. \A c \in Categories \ {"contract"} : Named(told, c) = {}
  BY <1>2, OneCategory
<1>4. /\ r.fence = s.fence /\ r.parses = s.parses /\ r.breaks = s.breaks /\ r.fence # "whole"
      /\ r.imports = s.imports /\ r.forbidden = s.forbidden /\ r.class = s.class /\ r.shifts = s.shifts
  BY <1>3, UnnamedStays DEF Categories
<1>5. IsCleaned(r)
  BY <1>3, <1>4, RepairedIsSource DEF IsCleaned, Categories
<1>6. \A x : x \in N <=> <<"contract", x>> \in told
  BY <1>2 DEF Named
<1>7. r.misuses = s.misuses \ N /\ r.trails = (s.trails \/ "invalid_trailing_implementation" \in N)
  BY RepairedFields DEF IsCleaned
<1> HIDE DEF r, N
<1>8. TreeContract(r, p) = F \ told
  <2>1. \A y : y \in {<<"contract", code>> : code \in r.misuses}
                  <=> y \in {<<"contract", code>> : code \in s.misuses} /\ y \notin told
    BY <1>6, <1>7
  <2>2. r.trails <=> s.trails \/ <<"contract", "invalid_trailing_implementation">> \in told
    BY <1>6, <1>7
  <2> QED
    BY <2>1, <2>2 DEF TreeContract
<1>9. TreeErrors(r) = TreeErrors(s) /\ SmokeLayer(r) = SmokeLayer(s) /\ Parses(r) = Parses(s)
  BY <1>4, SameTree
<1>10. SyntaxLayer(r) = 0 /\ SyntaxLayer(s) = 0
  BY <1>5, <1>9, CleanedLayer
<1>11. Layers(r, p) = Layers(s, p) - 1
  <2>1. IsSource(r) /\ IsSource(s)
    BY <1>5 DEF IsCleaned
  <2>2. /\ Layers(r, p) = SyntaxLayer(r) + Rounds(Cardinality(TreeContract(r, p)))
                             + Rounds(Cardinality(TreeErrors(r))) + SmokeLayer(r)
        /\ Layers(s, p) = SyntaxLayer(s) + Rounds(Cardinality(TreeContract(s, p)))
                             + Rounds(Cardinality(TreeErrors(s))) + SmokeLayer(s)
    BY <2>1, LayersByField
  <2> QED
    BY <1>1, <1>5, <1>8, <1>9, <1>10, <2>1, <2>2, LayersAreNumbers
<1> QED
  BY <1>5, <1>11 DEF r

\* One repair of a failure of the smoke run.
LEMMA SmokeRepair ==
    ASSUME NEW s, IsCleaned(s), s.breaks # None, NEW p,
           NEW told, told # {}, \A f \in told : f[1] = "smoke"
    PROVE  LET r == Repaired(s, told)
           IN IsCleaned(r) /\ Layers(r, p) = Layers(s, p) - 1
<1> DEFINE r == Repaired(s, told)
<1>1. Named(told, "smoke") # {} /\ \A c \in Categories \ {"smoke"} : Named(told, c) = {}
  BY OneCategory
<1>2. /\ r.imports = s.imports /\ r.forbidden = s.forbidden /\ r.class = s.class /\ r.shifts = s.shifts
      /\ r.misuses = s.misuses /\ r.trails = s.trails
      /\ r.fence = s.fence /\ r.parses = s.parses /\ r.fence # "whole"
  BY <1>1, UnnamedStays DEF Categories
<1>3. r.breaks = None
  BY <1>1, RepairedFields DEF IsCleaned
<1>4. IsCleaned(r)
  BY <1>1, <1>2, RepairedIsSource DEF IsCleaned, Categories
<1> HIDE DEF r
<1>5. TreeErrors(r) = TreeErrors(s) /\ TreeContract(r, p) = TreeContract(s, p) /\ Parses(r) = Parses(s)
  BY <1>2, SameTree
<1>6. SyntaxLayer(r) = SyntaxLayer(s)
  BY <1>4, <1>5, CleanedLayer
<1>7. SmokeLayer(r) = 0 /\ SmokeLayer(s) = 1
  BY <1>3 DEF SmokeLayer
<1>8. Layers(r, p) = Layers(s, p) - 1
  <2>1. IsSource(r) /\ IsSource(s)
    BY <1>4 DEF IsCleaned
  <2>2. /\ Layers(r, p) = SyntaxLayer(r) + Rounds(Cardinality(TreeContract(r, p)))
                             + Rounds(Cardinality(TreeErrors(r))) + SmokeLayer(r)
        /\ Layers(s, p) = SyntaxLayer(s) + Rounds(Cardinality(TreeContract(s, p)))
                             + Rounds(Cardinality(TreeErrors(s))) + SmokeLayer(s)
    BY <2>1, LayersByField
  <2> QED
    BY <1>4, <1>5, <1>6, <1>7, <2>1, <2>2, LayersAreNumbers
<1> QED
  BY <1>4, <1>8 DEF r

\* What a repair leaves of the findings about the class.
LEMMA InterfaceRepair ==
    ASSUME NEW s, IsCleaned(s), NEW told, told \subseteq TreeErrors(s)
    PROVE  InterfaceErrors(Repaired(s, told)) = InterfaceErrors(s) \ told
<1> DEFINE r == Repaired(s, told)
           N == Named(told, "interface")
           I == InterfaceErrors(s)
           B == {"Strategy", "backtesting.Strategy"}
<1>1. \A x : <<"interface", x>> \in told => <<"interface", x>> \in I
  BY DEF TreeErrors, ImportErrors, SecurityErrors, LookaheadErrors
<1>2. \A x : x \in N <=> <<"interface", x>> \in told
  <2>1. \A f \in told : f = <<f[1], f[2]>>
    BY DEF TreeErrors, ImportErrors, SecurityErrors, LookaheadErrors, InterfaceErrors
  <2> QED
    BY <2>1 DEF Named
<1>3. \A x : <<"interface", x>> \in I => x \in {"class", "base", "init", "next"}
  BY DEF InterfaceErrors
<1>4. N \subseteq {"class", "base", "init", "next"}
  BY <1>1, <1>2, <1>3
<1>5. r.class = IF "class" \in N
                THEN [bases |-> {"Strategy"}, methods |-> {"init", "next"}]
                ELSE IF s.class = None THEN s.class
                ELSE [bases   |-> s.class.bases \cup (IF "base" \in N THEN {"Strategy"} ELSE {}),
                      methods |-> s.class.methods \cup (N \ {"base"})]
  BY RepairedFields DEF IsCleaned
<1>6. "class" \in N \/ s.class # None => r.class # None
  BY <1>4, RepairedClass, NoneAssumption DEF IsCleaned
<1> HIDE DEF r, N
<1>7. CASE s.class = None /\ "class" \in N
  <2>1. InterfaceErrors(r) = {}
    BY <1>5, <1>6, <1>7 DEF InterfaceErrors
  <2>2. I = {<<"interface", "class">>} /\ <<"interface", "class">> \in told
    BY <1>2, <1>7 DEF InterfaceErrors
  <2> QED
    BY <2>1, <2>2 DEF r
<1>8. CASE s.class = None /\ "class" \notin N
  <2>1. r.class = None
    BY <1>5, <1>8
  <2>2. InterfaceErrors(r) = {<<"interface", "class">>} /\ I = {<<"interface", "class">>}
    BY <1>8, <2>1 DEF InterfaceErrors
  <2>3. <<"interface", "class">> \notin told
    BY <1>2, <1>8
  <2> QED
    BY <2>2, <2>3 DEF r
<1>9. CASE s.class # None
  <2>1. I = {<<"interface", m>> : m \in {"init", "next"} \ s.class.methods}
              \cup (IF s.class.bases \cap B = {} THEN {<<"interface", "base">>} ELSE {})
    BY <1>9 DEF InterfaceErrors
  <2>2. "class" \notin N
    <3>1. <<"interface", "class">> \notin I
      BY <2>1
    <3> QED
      BY <1>1, <1>2, <3>1
  <2>3. r.class = [bases   |-> s.class.bases \cup (IF "base" \in N THEN {"Strategy"} ELSE {}),
                   methods |-> s.class.methods \cup (N \ {"base"})]
    BY <1>5, <1>9, <2>2
  <2>4. r.class.methods = s.class.methods \cup (N \ {"base"})
        /\ r.class.bases = s.class.bases \cup (IF "base" \in N THEN {"Strategy"} ELSE {})
    BY <2>3
  <2>5. InterfaceErrors(r) = {<<"interface", m>> : m \in {"init", "next"} \ r.class.methods}
              \cup (IF r.class.bases \cap B = {} THEN {<<"interface", "base">>} ELSE {})
    BY <1>6, <1>9 DEF InterfaceErrors
  <2>6. \A y : y \in {<<"interface", m>> : m \in {"init", "next"} \ r.class.methods}
                  <=> y \in {<<"interface", m>> : m \in {"init", "next"} \ s.class.methods} /\ y \notin told
    BY <1>2, <2>4
  <2>7. r.class.bases \cap B = {} <=> s.class.bases \cap B = {} /\ <<"interface", "base">> \notin told
    BY <1>2, <2>4
  <2>8. InterfaceErrors(r) = I \ told
    BY <2>1, <2>5, <2>6, <2>7
  <2> QED
    BY <2>8 DEF r
<1> QED
  BY <1>7, <1>8, <1>9

\* One repair of what the other validators find.
LEMMA ValidatorRepair ==
    ASSUME NEW s, IsCleaned(s), Parses(s), NEW p,
           TreeErrors(s) # {}, NEW told \in Told(TreeErrors(s))
    PROVE  LET r == Repaired(s, told)
           IN IsCleaned(r) /\ Layers(r, p) = Layers(s, p) - 1
<1> DEFINE E == TreeErrors(s)
           r == Repaired(s, told)
<1>1. told \subseteq E /\ told # {} /\ Rounds(Cardinality(E)) \in Nat
      /\ Rounds(Cardinality(E \ told)) = Rounds(Cardinality(E)) - 1
  BY LayersFinite, ToldIsARound DEF IsCleaned
<1>2. \A f \in told : f = <<f[1], f[2]>> /\ f[1] \in {"import", "security", "interface", "lookahead"}
  BY <1>1 DEF TreeErrors, ImportErrors, SecurityErrors, InterfaceErrors, LookaheadErrors
<1>3. Named(told, "syntax") = {} /\ Named(told, "contract") = {} /\ Named(told, "smoke") = {}
  BY <1>2 DEF Named
<1>4. /\ r.fence = s.fence /\ r.parses = s.parses /\ r.breaks = s.breaks /\ r.fence # "whole"
      /\ r.misuses = s.misuses /\ r.trails = s.trails
  BY <1>3, UnnamedStays
<1>5. \A c, x : x \in Named(told, c) <=> <<c, x>> \in told
  BY <1>2 DEF Named
<1>6. IsCleaned(r)
  <2>1. \A x : <<"interface", x>> \in E => x \in {"class", "base", "init", "next"}
    BY DEF TreeErrors, ImportErrors, SecurityErrors, InterfaceErrors, LookaheadErrors
  <2>2. Named(told, "interface") \subseteq {"class", "base", "init", "next"}
    BY <1>1, <1>5, <2>1
  <2> QED
    BY <1>4, <2>2, RepairedIsSource DEF IsCleaned
<1>7. InterfaceErrors(r) = InterfaceErrors(s) \ told
  BY <1>1, InterfaceRepair
<1>8. /\ r.imports = s.imports \ Named(told, "import")
      /\ r.forbidden = s.forbidden \ Named(told, "security")
      /\ r.shifts = (IF Named(told, "lookahead") # {} THEN {} ELSE s.shifts)
  BY RepairedFields DEF IsCleaned
<1> HIDE DEF r
<1>9. ImportErrors(r) = ImportErrors(s) \ told /\ SecurityErrors(r) = SecurityErrors(s) \ told
  BY <1>5, <1>8 DEF ImportErrors, SecurityErrors
<1>10. LookaheadErrors(r) = LookaheadErrors(s) \ told
  <2>1. \A x : <<"lookahead", x>> \in E => x = "shift" /\ <<"lookahead", "shift">> \in LookaheadErrors(s)
    BY DEF TreeErrors, ImportErrors, SecurityErrors, InterfaceErrors, LookaheadErrors
  <2>2. Named(told, "lookahead") # {} <=> <<"lookahead", "shift">> \in told
    <3>1. \A x \in Named(told, "lookahead") : x = "shift"
      BY <1>1, <1>5, <2>1
    <3>2. "shift" \in Named(told, "lookahead") <=> <<"lookahead", "shift">> \in told
      BY <1>5
    <3> QED
      BY <3>1, <3>2
  <2>3. CASE <<"lookahead", "shift">> \in told
    BY <1>8, <2>2, <2>3 DEF LookaheadErrors
  <2>4. CASE <<"lookahead", "shift">> \notin told
    BY <1>8, <2>2, <2>4 DEF LookaheadErrors
  <2> QED
    BY <2>3, <2>4
<1>11. TreeErrors(r) = E \ told
  BY <1>7, <1>9, <1>10 DEF TreeErrors
<1>12. TreeContract(r, p) = TreeContract(s, p) /\ SmokeLayer(r) = SmokeLayer(s) /\ Parses(r) = Parses(s)
  BY <1>4, SameTree
<1>13. SyntaxLayer(r) = 0 /\ SyntaxLayer(s) = 0
  BY <1>6, <1>12, CleanedLayer
<1>14. Layers(r, p) = Layers(s, p) - 1
  <2>1. IsSource(r) /\ IsSource(s)
    BY <1>6 DEF IsCleaned
  <2>2. /\ Layers(r, p) = SyntaxLayer(r) + Rounds(Cardinality(TreeContract(r, p)))
                             + Rounds(Cardinality(TreeErrors(r))) + SmokeLayer(r)
        /\ Layers(s, p) = SyntaxLayer(s) + Rounds(Cardinality(TreeContract(s, p)))
                             + Rounds(Cardinality(TreeErrors(s))) + SmokeLayer(s)
    BY <2>1, LayersByField
  <2> QED
    BY <1>1, <1>11, <1>12, <1>13, <2>1, <2>2, LayersAreNumbers
<1> QED
  BY <1>6, <1>14 DEF r

-----------------------------------------------------------------------------
(* The versions of a run whose model does what it is told.                 *)

LEMMA CodeIsCleaned ==
    ASSUME NEW s, IsSource(s), NEW p
    PROVE  IsCleaned(CleanCode(s)) /\ Layers(CleanCode(s), p) = Layers(s, p)
<1> DEFINE c == CleanCode(s)
<1>1. /\ IsSource(c) /\ CleanCode(c) = c /\ c.fence # "whole"
      /\ c.imports = s.imports /\ c.forbidden = s.forbidden /\ c.class = s.class /\ c.shifts = s.shifts
      /\ c.misuses = s.misuses /\ c.trails = s.trails /\ c.breaks = s.breaks
  BY CleanFields
<1>2. SyntaxLayer(c) = SyntaxLayer(s)
  BY <1>1 DEF SyntaxLayer
<1> HIDE DEF c
<1>3. TreeErrors(c) = TreeErrors(s) /\ TreeContract(c, p) = TreeContract(s, p) /\ SmokeLayer(c) = SmokeLayer(s)
  BY <1>1, SameTree
<1>4. Layers(c, p) = Layers(s, p)
  BY <1>1, <1>2, <1>3, LayersByField
<1> QED
  BY <1>1, <1>4 DEF c, IsCleaned

LEMMA OneFindingFits ==
    ASSUME NEW f, NEW told \in Told({f})
    PROVE  told = {f}
<1>1. Cardinality({f}) = 1
  BY FS_Singleton
<1>2. Cardinality({f}) <= MaxFindings
  BY <1>1, FindingsAssumption
<1> QED
  BY <1>2 DEF Told

LEMMA ContextNamesFindings ==
    ASSUME NEW in, NEW type, NEW family, NEW F, NEW told \in Context(in, type, family, F)
    PROVE  told.findings \in Told(F)
  BY DEF Context

LEMMA ContextsNameFindings ==
    ASSUME NEW in, NEW type, NEW F, NEW runtime, NEW contract,
           NEW told \in BuildRepairContext(in, type, F, runtime, contract)
    PROVE  /\ contract # {} => told.findings \in Told(contract)
           /\ contract = {} /\ runtime = None /\ in = "static" => told.findings \in Told(F)
           /\ contract = {} => \/ told.findings \in Told(F)
                              \/ \E x : told.findings \in Told({<<"smoke", x>>})
<1>1. CASE contract # {}
  <2>1. told \in Context(in, type, "position_management", contract)
    BY <1>1 DEF BuildRepairContext
  <2> QED
    BY <1>1, <2>1, ContextNamesFindings
<1>2. CASE contract = {} /\ runtime = "position_management"
  <2>1. told \in Context(in, type, "position_management", {<<"smoke", "invalid attribute">>})
    BY <1>2, NoneAssumption DEF BuildRepairContext
  <2> QED
    BY <1>2, <2>1, ContextNamesFindings, NoneAssumption
<1>3. CASE contract = {} /\ in = "smoke" /\ runtime = None
  <2>1. told \in Context(in, type, "unknown", {<<"smoke", "failed">>})
    BY <1>3, NoneAssumption DEF BuildRepairContext
  <2> QED
    BY <1>3, <2>1, ContextNamesFindings
<1>4. CASE contract = {} /\ runtime # "position_management" /\ ~(in = "smoke" /\ runtime = None)
  <2>1. told \in Context(in, type, "indicator_adapter", F)
    BY <1>4 DEF BuildRepairContext
  <2> QED
    BY <1>4, <2>1, ContextNamesFindings
<1> QED
  BY <1>1, <1>2, <1>3, <1>4

\* What the model is told of a version that failed validation, if it is
\* told of the version and not of the request.
LEMMA StaticRepair ==
    ASSUME IsSource(source), prompt # "unclear", ~IsValid(Verdict), NEW told \in StaticContexts
    PROVE  LET r == Repaired(Code, told.findings)
           IN IsSource(r) /\ Layers(r, prompt) = Layers(source, prompt) - 1
<1>1. IsCleaned(Code) /\ Layers(Code, prompt) = Layers(source, prompt)
  BY CodeIsCleaned DEF Code
<1>2. CASE ~Parses(Code)
  <2>1. Findings = {} /\ Verdict.errors = {<<"syntax", "invalid">>}
    BY <1>2 DEF Findings, ContractFindings, Verdict, Validate, Response
  <2>2. told.findings \in Told({<<"syntax", "invalid">>})
    BY <2>1, ContextsNameFindings DEF StaticContexts
  <2>3. told.findings = {<<"syntax", "invalid">>}
    BY <2>2, OneFindingFits
  <2> QED
    BY <1>1, <1>2, <2>3, SyntaxRepair DEF IsCleaned
<1>3. CASE Parses(Code) /\ Findings # {}
  <2>1. Findings = TreeContract(Code, prompt)
    BY <1>3 DEF Findings, ContractFindings, TreeContract
  <2>2. told.findings \in Told(Findings)
    BY <1>3, ContextsNameFindings DEF StaticContexts
  <2> QED
    BY <1>1, <1>3, <2>1, <2>2, ContractRepair DEF IsCleaned
<1>4. CASE Parses(Code) /\ Findings = {}
  <2>1. Verdict.errors = TreeErrors(Code)
    BY <1>4 DEF Verdict, Validate, Response, TreeErrors
  <2>2. TreeErrors(Code) # {}
    BY <1>4 DEF Verdict, Validate, Response, TreeErrors, IsValid
  <2>3. told.findings \in Told(TreeErrors(Code))
    BY <1>4, <2>1, ContextsNameFindings DEF StaticContexts
  <2> QED
    BY <1>1, <1>4, <2>2, <2>3, ValidatorRepair DEF IsCleaned
<1> QED
  BY <1>2, <1>3, <1>4

\* And of one that failed its smoke run.
LEMMA SmokeFailureRepair ==
    ASSUME IsSource(source), source.breaks # None, NEW p, NEW told \in SmokeContexts
    PROVE  LET r == Repaired(Code, told.findings)
           IN IsSource(r) /\ Layers(r, p) = Layers(source, p) - 1
<1>1. IsCleaned(Code) /\ Layers(Code, p) = Layers(source, p)
  BY CodeIsCleaned DEF Code
<1>2. Code.breaks # None
  BY CleanFields DEF Code
<1>3. \E x : told.findings \in Told({<<"smoke", x>>})
  <2> DEFINE code == source.breaks.code
  <2>1. told \in BuildRepairContext("smoke", {code}, {<<"smoke", code>>}, source.breaks.family, {})
    BY DEF SmokeContexts
  <2> HIDE DEF code
  <2>2. \/ told.findings \in Told({<<"smoke", code>>})
        \/ \E x : told.findings \in Told({<<"smoke", x>>})
    BY <2>1, ContextsNameFindings
  <2> QED
    BY <2>2
<1>4. PICK x : told.findings \in Told({<<"smoke", x>>})
  BY <1>3
<1>6. told.findings = {<<"smoke", x>>}
  BY <1>4, OneFindingFits
<1>7. told.findings # {} /\ \A f \in told.findings : f[1] = "smoke"
  BY <1>6
<1> QED
  BY <1>1, <1>2, <1>7, SmokeRepair DEF IsCleaned

\* A version that is given up has a layer left.
LEMMA FaultsLeft ==
    ASSUME IsSource(source), prompt # "unclear", ~IsValid(Verdict) \/ source.breaks # None
    PROVE  Layers(source, prompt) >= 1
<1>1. IsCleaned(Code) /\ Layers(Code, prompt) = Layers(source, prompt)
  BY CodeIsCleaned DEF Code
<1>2. /\ Rounds(Cardinality(TreeContract(Code, prompt))) \in Nat
      /\ Rounds(Cardinality(TreeErrors(Code))) \in Nat
      /\ SyntaxLayer(Code) \in {0, 1} /\ SmokeLayer(Code) \in {0, 1}
      /\ Layers(Code, prompt) = SyntaxLayer(Code) + Rounds(Cardinality(TreeContract(Code, prompt)))
                                  + Rounds(Cardinality(TreeErrors(Code))) + SmokeLayer(Code)
  BY <1>1, LayersByField, LayersAreNumbers DEF IsCleaned
<1>3. \A F : IsFiniteSet(F) /\ F # {} => Rounds(Cardinality(F)) > 0
  <2> SUFFICES ASSUME NEW F, IsFiniteSet(F), F # {} PROVE Rounds(Cardinality(F)) > 0
    OBVIOUS
  <2>1. Cardinality(F) \in Nat /\ Cardinality(F) > 0
    BY FS_CardinalityType, FS_EmptySet
  <2> QED
    BY <2>1, RoundsFall
<1>4. IsFiniteSet(TreeContract(Code, prompt)) /\ IsFiniteSet(TreeErrors(Code))
  BY <1>1, LayersFinite DEF IsCleaned
<1>5. CASE source.breaks # None
  <2>1. SmokeLayer(Code) = 1
    BY <1>5, CleanFields DEF Code, SmokeLayer
  <2> QED
    BY <1>1, <1>2, <2>1
<1>6. CASE ~IsValid(Verdict) /\ ~Parses(Code)
  <2>1. SyntaxLayer(Code) = 1
    BY <1>1, <1>6, CleanedLayer
  <2> QED
    BY <1>1, <1>2, <2>1
<1>7. CASE ~IsValid(Verdict) /\ Parses(Code)
  <2>1. Findings = TreeContract(Code, prompt)
    BY <1>7 DEF Findings, ContractFindings, TreeContract
  <2>2. Findings # {} \/ TreeErrors(Code) # {}
    BY <1>7 DEF Verdict, Validate, Response, TreeErrors, IsValid
  <2> QED
    BY <1>1, <1>2, <1>3, <1>4, <2>1, <2>2
<1> QED
  BY <1>5, <1>6, <1>7

RoundsInv ==
    /\ version \in Nat
    /\ IsSource(draft)
    /\ obedient /\ prompt # "unclear" => IsSource(source)
    /\ ending = "pretest" => stage = "ended"
    /\ obedient /\ prompt # "unclear" /\ stage # "ended"
         => Layers(source, prompt) + version - 1 <= Layers(draft, prompt)
    /\ GivenUpForItsLayers

LEMMA InitRounds == RoundsInit => RoundsInv
<1> SUFFICES ASSUME RoundsInit PROVE RoundsInv
  OBVIOUS
<1>1. /\ version = 1 /\ stage = "generate" /\ ending = None
      /\ source \in Sources /\ draft = source
  BY DEF RoundsInit, Init
<1>2. ending # "pretest"
  BY <1>1, NoneAssumption
<1>3. IsSource(source) /\ Layers(source, prompt) \in Nat
  BY <1>1, SourcesAssumption, LayersAreNumbers
<1> QED
  BY <1>1, <1>2, <1>3 DEF RoundsInv, GivenUpForItsLayers

\* A repair costs one version and, if it does what it is told, one layer.
LEMMA RepairKeepsRounds ==
    ASSUME RoundsInv, Repair, NEW contexts, Rewrite(contexts),
           obedient /\ prompt # "unclear" =>
               \A told \in contexts :
                  LET r == Repaired(Code, told.findings)
                  IN IsSource(r) /\ Layers(r, prompt) = Layers(source, prompt) - 1
    PROVE  RoundsInv'
<1>1. /\ stage \in {"generate", "smoke"} /\ stage' = "generate" /\ version' = version + 1
      /\ prompt' = prompt /\ ending' = ending /\ draft' = draft
  BY DEF Repair, Rewrite
<1>2. ending # "pretest" /\ version \in Nat /\ IsSource(draft)
  BY <1>1 DEF RoundsInv
<1>3. ASSUME obedient', prompt # "unclear"
      PROVE  IsSource(source') /\ Layers(source', prompt) + version' - 1 <= Layers(draft, prompt)
  <2>1. obedient /\ context' \in contexts /\ source' = Repaired(Code, context'.findings)
    BY <1>3 DEF Rewrite
  <2>2. IsSource(source') /\ Layers(source', prompt) = Layers(source, prompt) - 1
    BY <1>3, <2>1
  <2>3. IsSource(source) /\ Layers(source, prompt) + version - 1 <= Layers(draft, prompt)
    BY <1>1, <1>3, <2>1 DEF RoundsInv
  <2>4. Layers(source, prompt) \in Nat /\ Layers(draft, prompt) \in Nat
    BY <1>2, <2>3, LayersAreNumbers
  <2> QED
    BY <1>1, <1>2, <2>2, <2>3, <2>4
<1> QED
  BY <1>1, <1>2, <1>3 DEF RoundsInv, GivenUpForItsLayers

LEMMA StepKeepsRounds ==
    ASSUME RoundsInv, [RoundsNext]_<<vars, rounds>>
    PROVE  RoundsInv'
<1>1. CASE RepairStatic
  <2>1. ~IsValid(Verdict) /\ Repair /\ Rewrite(StaticContexts)
    BY <1>1 DEF RepairStatic
  <2>2. obedient /\ prompt # "unclear" => IsSource(source)
    BY DEF RoundsInv
  <2> QED
    BY <2>1, <2>2, StaticRepair, RepairKeepsRounds
<1>2. CASE RepairSmoke
  <2>1. source.breaks # None /\ Repair /\ Rewrite(SmokeContexts)
    BY <1>2 DEF RepairSmoke
  <2>2. obedient /\ prompt # "unclear" => IsSource(source)
    BY DEF RoundsInv
  <2> QED
    BY <2>1, <2>2, SmokeFailureRepair, RepairKeepsRounds
<1>3. CASE Accept
  <2>1. /\ stage = "generate" /\ stage' = "smoke" /\ version' = version /\ source' = Code
        /\ prompt' = prompt /\ ending' = ending /\ draft' = draft /\ obedient' = obedient
    BY <1>3 DEF Accept, Advance
  <2>2. IsSource(source) => IsSource(Code) /\ Layers(Code, prompt) = Layers(source, prompt)
    BY CodeIsCleaned DEF Code, IsCleaned
  <2> QED
    BY <2>1, <2>2 DEF RoundsInv, GivenUpForItsLayers
<1>4. CASE Freeze \/ Load
  <2>1. /\ stage # "ended" /\ stage' # "ended" /\ version' = version /\ UNCHANGED rounds
    BY <1>4 DEF Freeze, Load, Advance
  <2> QED
    BY <2>1 DEF RoundsInv, GivenUpForItsLayers, rounds
<1>5. CASE PretestError
  <2>1. /\ stage \in {"generate", "smoke"} /\ stage' = "ended" /\ version' = version
        /\ version >= MaxVersions /\ ending' = "pretest"
        /\ source' = source /\ prompt' = prompt /\ draft' = draft /\ obedient' = obedient
        /\ ~IsValid(Verdict) \/ source.breaks # None
    BY <1>5, DeploymentAssumption DEF PretestError, MayRepair, End, Finish, RoundsInv
  <2>2. ASSUME obedient, prompt # "unclear"
        PROVE  Layers(draft, prompt) >= MaxVersions
    <3>1. IsSource(source) /\ Layers(source, prompt) + version - 1 <= Layers(draft, prompt)
      BY <2>1, <2>2 DEF RoundsInv
    <3>2. Layers(source, prompt) >= 1
      BY <2>1, <2>2, <3>1, FaultsLeft
    <3>3. Layers(source, prompt) \in Nat /\ Layers(draft, prompt) \in Nat /\ version \in Nat
      BY <3>1, LayersAreNumbers DEF RoundsInv
    <3> QED
      BY <2>1, <3>1, <3>2, <3>3, DeploymentAssumption
  <2> QED
    BY <2>1, <2>2 DEF RoundsInv, GivenUpForItsLayers
<1>6. CASE Scored \/ Failed
  <2>1. /\ stage' = "ended" /\ version' = version /\ ending' # "pretest"
        /\ source' = source /\ prompt' = prompt /\ draft' = draft /\ obedient' = obedient
    BY <1>6 DEF Scored, Failed, End, Finish
  <2> QED
    BY <2>1 DEF RoundsInv, GivenUpForItsLayers
<1>7. CASE Outside \/ UNCHANGED <<vars, rounds>>
  <2>1. stage' = stage /\ version' = version /\ UNCHANGED rounds
    BY <1>7 DEF Outside, GiveUp, Tick, vars, backend
  <2> QED
    BY <2>1 DEF RoundsInv, GivenUpForItsLayers, rounds
<1> QED
  BY <1>1, <1>2, <1>3, <1>4, <1>5, <1>6, <1>7 DEF RoundsNext

\* For every number of versions and of findings in a context: a model that
\* does what it is told is given up only with a first version whose faults
\* lie in as many layers as there are versions (repair_context.py:126-168).
THEOREM NoRepairIsWasted == RoundsSpec => []GivenUpForItsLayers
<1>1. RoundsInv => GivenUpForItsLayers
  BY DEF RoundsInv
<1> QED
  BY <1>1, InitRounds, StepKeepsRounds, PTL DEF RoundsSpec
=============================================================================
