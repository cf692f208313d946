------------------------- MODULE NvidiaClientProofs -------------------------
(* Proofs about NvidiaClient, for every budget, retry count and back-off.  *)
EXTENDS NvidiaClient, TLAPS

-----------------------------------------------------------------------------
(* The inductive invariant: TypeOK and three facts about the control state.*)

\* Which of the context's fields are set at which point of its life.
ContextShape ==
    /\ live = IF client \/ pc = "closing" THEN 1 ELSE 0
    /\ client => managed
    /\ pc \in {"outside", "closing"} => ~managed
    /\ pc \in InFlight \cup {"ready", "leaving"} => managed

\* What a leg remembers of the provider's failures while it runs.
LegShape ==
    /\ pc = "calling" => backoffFailure = NoKind /\ cut = "none"
    /\ pc = "backoff" => /\ attempt < MaxRetries
                         /\ backoffFailure = heard
                         /\ heard \in Retryable
                         /\ cut = "none"
    /\ pc = "raised" => error = IF cut = "calling" THEN "TIMEOUT" ELSE heard
    /\ pc \in InFlight /\ model # Primary =>
          HasFallback /\ (primaryCut = "calling" \/ primaryHeard \in FallbackKinds)

\* Requests and time of the completion, by the leg it is in.
Usage ==
    pc \in InFlight =>
        /\ model = Primary => calls <= attempt + 1 /\ spent <= elapsed
        /\ model # Primary =>
              /\ calls <= (MaxRetries + 1) + (attempt + 1)
              /\ spent <= RequestTimeout + elapsed

IInv == TypeOK /\ ContextShape /\ LegShape /\ Usage

-----------------------------------------------------------------------------
(* An SDK error always falls into a category a caller knows.               *)
LEMMA KindType == \A e : Kind(e) \in ProviderErrorKind
BY DEF Kind, ProviderErrorKind

(* The initial states satisfy the inductive invariant.                     *)
LEMMA InitIInv == Init => IInv
<1> SUFFICES ASSUME Init PROVE IInv
  OBVIOUS
<1> USE SettingsAssumption DEF Init, InFlight, NoKind
<1>0. FlagsOK
  BY DEF FlagsOK
<1>1. TypeOK
  BY <1>0 DEF TypeOK, Models, Ends, Retryable, ProviderErrorKind
<1>2. ContextShape /\ LegShape /\ Usage
  BY DEF ContextShape, LegShape, Usage
<1> QED BY <1>1, <1>2 DEF IInv

(* Every step preserves it.                                                *)
LEMMA NextIInv == IInv /\ [Next]_vars => IInv'
<1> SUFFICES ASSUME IInv, [Next]_vars PROVE IInv'
  OBVIOUS
<1> USE SettingsAssumption DEF IInv, TypeOK, Models, Ends, NoKind, ProviderErrorKind,
                Retryable, InFlight
<1>0. FlagsOK'
  <2>1. CASE Complete
    BY <2>1 DEF Complete, FlagsOK
  <2>2. CASE Aenter \/ Aexit
    BY <2>2 DEF Aenter, Aexit, FlagsOK
  <2>3. CASE ~Complete /\ ~Aenter /\ ~Aexit
    <3>1. UNCHANGED <<hasKey, managed, client>>
      BY <2>3 DEF Next, vars, context, Provider, Loop, Answered, AnsweredEmpty, Failed,
                Retry, BudgetExpired, Tick, FallBack, Raise, Closed, Cancelled
    <3> QED BY <3>1 DEF FlagsOK
  <2> QED BY <2>1, <2>2, <2>3
<1>1. CASE Aenter
  BY <1>0, <1>1 DEF Aenter, ContextShape, LegShape, Usage, leg, history
<1>2. CASE Complete
  <2>1. CASE client \/ hasKey
    BY <1>0, <1>2, <2>1 DEF Complete, StartLeg, ContextShape, LegShape, Usage
  <2>2. CASE ~(client \/ hasKey)
    BY <1>0, <1>2, <2>2 DEF Complete, AfterCompletion, ContextShape, LegShape, Usage, leg
  <2> QED BY <2>1, <2>2
<1>3. CASE Provider
  <2>1. ASSUME NEW reported \in ReportedModels \cup {NoModel}, Answered(reported)
        PROVE IInv'
    BY <1>0, <2>1 DEF Answered, AfterCompletion, ContextShape, LegShape, Usage, leg, history
  <2>2. CASE AnsweredEmpty
    BY <1>0, <2>2 DEF AnsweredEmpty, ContextShape, LegShape, Usage, leg, context
  <2>3. ASSUME NEW e \in SdkErrors, Failed(e) PROVE IInv'
    BY <1>0, <2>3, KindType DEF Failed, MayRetry, ContextShape, LegShape, Usage, context
  <2> QED BY <1>3, <2>1, <2>2, <2>3 DEF Provider
<1>4. CASE Loop
  <2>1. CASE Retry
    BY <1>0, <2>1 DEF Retry, NextAttempt, ContextShape, LegShape, Usage, context
  <2>2. CASE BudgetExpired
    BY <1>0, <2>2 DEF BudgetExpired, UnderDeadline, BudgetError, ContextShape, LegShape,
                Usage, context, leg
  <2>3. CASE Tick
    BY <1>0, <2>3 DEF Tick, ContextShape, LegShape, Usage, context
  <2>4. CASE FallBack
    BY <1>0, <2>4 DEF FallBack, MayFallBack, StartLeg, HasFallback, FallbackKinds,
                ContextShape, LegShape, Usage, context
  <2>5. CASE Raise
    BY <1>0, <2>5 DEF Raise, AfterCompletion, ContextShape, LegShape, Usage, leg, history
  <2>6. CASE Closed
    BY <1>0, <2>6 DEF Closed, ContextShape, LegShape, Usage, leg, history
  <2> QED BY <1>4, <2>1, <2>2, <2>3, <2>4, <2>5, <2>6 DEF Loop
<1>5. CASE Cancelled
  BY <1>0, <1>5 DEF Cancelled, ContextShape, LegShape, Usage, context, leg, history
<1>6. CASE Aexit
  BY <1>0, <1>6 DEF Aexit, ClosesClient, ContextShape, LegShape, Usage, leg, history
<1>7. CASE UNCHANGED vars
  BY <1>0, <1>7 DEF vars, context, leg, history, ContextShape, LegShape, Usage
<1> QED BY <1>1, <1>2, <1>3, <1>4, <1>5, <1>6, <1>7 DEF Next

THEOREM Inductive == Spec => []IInv
BY InitIInv, NextIInv, PTL DEF Spec

-----------------------------------------------------------------------------
(* Type correctness of the client object and its running leg.              *)
THEOREM TypeCorrect == Spec => []TypeOK
<1>1. IInv => TypeOK
  BY DEF IInv
<1> QED BY <1>1, Inductive, PTL

(* The fallback model is never asked because of a 429, a 5xx or any other  *)
(* refusal of the primary, in whatever order answers and timers come.      *)
THEOREM FallbackOnlyWhenJustified == Spec => []FallbackJustified
<1>1. IInv => FallbackJustified
  BY DEF IInv, LegShape, FallbackJustified
<1> QED BY <1>1, Inductive, PTL

(* Requests and time of one completion stay within the configured bounds.  *)
THEOREM CompletionBounded == Spec => []BoundedCompletion
<1>1. IInv => BoundedCompletion
  BY SettingsAssumption DEF IInv, TypeOK, LegShape, Usage, BoundedCompletion, Legs,
                HasFallback, InFlight
<1> QED BY <1>1, Inductive, PTL

(* No SDK client outlives its context, on any way out.                     *)
THEOREM ClientAlwaysReleased == Spec => []ClientReleased
<1>1. IInv => ClientReleased
  BY DEF IInv, TypeOK, ContextShape, ClientReleased
<1> QED BY <1>1, Inductive, PTL

(* The reported category is the cause, for every schedule of the deadline. *)
THEOREM OutcomeIsCause == Spec => []OutcomeNamesCause
<1>1. IInv => OutcomeNamesCause
  BY DEF IInv, LegShape, OutcomeNamesCause
<1> QED BY <1>1, Inductive, PTL

-----------------------------------------------------------------------------
(* Why a completion ends.  Completes also needs that a timer or the loop   *)
(* always has a step to take, which TLC checks; that no schedule of them   *)
(* goes on for ever is shown here.                                         *)

\* The steps a completion has left: those of a fallback leg still to come, the
\* ticks of this leg's budget, three for a retry, and its place in a request.
StepsLeft ==
    LET oneLeg == RequestTimeout + 3 * MaxRetries + 4
    IN  (IF model = Primary /\ HasFallback THEN oneLeg ELSE 0)
          + (RequestTimeout - elapsed) + 3 * (MaxRetries - attempt)
          + (IF pc = "calling" THEN 3 ELSE IF pc = "backoff" THEN 2 ELSE 0)

\* Every step of a completion that does not end it leaves fewer to take.
CompletionProgress ==
    pc \in InFlight /\ pc' \in InFlight => StepsLeft' < StepsLeft

LEMMA StepsLeftType ==
  IInv => StepsLeft \in 0..(2 * RequestTimeout + 6 * MaxRetries + 7)
BY SettingsAssumption DEF StepsLeft, IInv, TypeOK

LEMMA StepMakesProgress == IInv /\ [Next]_vars => [CompletionProgress]_vars
<1> SUFFICES ASSUME IInv, Next, pc \in InFlight, pc' \in InFlight
             PROVE  StepsLeft' < StepsLeft
  BY DEF CompletionProgress
<1> USE SettingsAssumption DEF IInv, TypeOK, StepsLeft
<1>1. CASE Aenter \/ Complete \/ Cancelled \/ Aexit \/ Closed
  BY <1>1 DEF Aenter, Complete, Cancelled, Aexit, Closed, InFlight
<1>2. CASE Provider
  <2>1. ASSUME NEW reported, Answered(reported) PROVE FALSE
    BY <2>1 DEF Answered, AfterCompletion, InFlight
  <2>2. CASE AnsweredEmpty
    BY <2>2 DEF AnsweredEmpty, leg
  <2>3. ASSUME NEW e \in SdkErrors, Failed(e) PROVE StepsLeft' < StepsLeft
    BY <2>3 DEF Failed
  <2> QED BY <1>2, <2>1, <2>2, <2>3 DEF Provider
<1>3. CASE Retry
  BY <1>3 DEF Retry, NextAttempt, LegShape
<1>4. CASE BudgetExpired
  BY <1>4 DEF BudgetExpired, UnderDeadline, leg
<1>5. CASE Tick
  BY <1>5 DEF Tick
<1>6. CASE FallBack
  <2>1. /\ model = Primary /\ HasFallback /\ model' = Fallback /\ Fallback # Primary
        /\ attempt' = 0 /\ elapsed' = 0 /\ pc = "raised" /\ pc' = "calling"
    BY <1>6 DEF FallBack, MayFallBack, StartLeg, HasFallback
  <2>2. StepsLeft' = RequestTimeout + 3 * MaxRetries + 3
    BY <2>1
  <2>3. StepsLeft >= RequestTimeout + 3 * MaxRetries + 4
    BY <2>1
  <2> QED BY <2>2, <2>3
<1>7. CASE Raise
  BY <1>7 DEF Raise, AfterCompletion, InFlight
<1> QED BY <1>1, <1>2, <1>3, <1>4, <1>5, <1>6, <1>7 DEF Next, Loop

(* For every budget, retry count and behaviour of the provider: between    *)
(* its start and its end a completion takes fewer steps than this bound,   *)
(* for each step lowers what is left of it.                                *)
THEOREM CompletionsMakeProgress ==
    Spec => /\ [](StepsLeft \in 0..(2 * RequestTimeout + 6 * MaxRetries + 7))
            /\ [][CompletionProgress]_vars
<1>1. Spec => [](StepsLeft \in 0..(2 * RequestTimeout + 6 * MaxRetries + 7))
  BY StepsLeftType, Inductive, PTL
<1>2. Spec => [][CompletionProgress]_vars
  BY StepMakesProgress, Inductive, PTL DEF Spec
<1> QED BY <1>1, <1>2
=============================================================================
