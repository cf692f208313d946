----------------------- MODULE MobileControllerProofs -----------------------
(* Proofs about MobileController, for any number of runs.                   *)
EXTENDS MobileController, TLAPS

-----------------------------------------------------------------------------
(* The inductive invariant.                                                *)

\* Requests are numbered as they are sent; the latest one is in flight only
\* while the controller waits for it, and cancelled only with the app.
RequestsNumbered ==
    \A i \in Ids : http[i] # "none" =>
        /\ i <= requestId
        /\ i = requestId => isSubmitting /\ (http[i] = "cancelled" => disposed)

\* The token is that of the run being waited for.
TokenOfLatest == cancelToken # 0 => cancelToken = requestId /\ isSubmitting

\* No run before the capabilities are there, nor under a frame that offers to
\* load them again; a run starts with the failure cleared.
RunsNeedCapabilities ==
    /\ load # "none" <=> capabilitiesStatus = "loading"
    /\ capabilitiesStatus # "ready" => runStatus = "idle"
    /\ shown = "offline" => runStatus = "idle"
    /\ isSubmitting => failure = NoFailure

IInv ==
    /\ TypeOK /\ ScreenHasData /\ ShownAnswersLatest /\ OneLiveRequest
    /\ RequestsNumbered /\ TokenOfLatest /\ RunsNeedCapabilities

-----------------------------------------------------------------------------
(* Every reply has a failure type.                                         *)
LEMMA FailureOfType == \A reply : FailureOf(reply) \in FailureTypes
BY DEF FailureOf, FailureTypes

(* The error statuses, apart from the other three.                         *)
LEMMA ErrorStatusType ==
  /\ \A type \in FailureTypes : StatusFor(type) \in ErrorStatuses
  /\ "idle" \notin ErrorStatuses /\ "loading" \notin ErrorStatuses
  /\ "success" \notin ErrorStatuses
BY DEF ErrorStatuses, StatusFor, FailureTypes

(* What the backend or the network answers is a reply.                     *)
LEMMA AnswersAreReplies ==
  \A d : BackendReplies(d) \cup OtherReplies \subseteq Replies \ {"unsent"}
BY DEF BackendReplies, Reply200, OtherReplies, Replies

LEMMA DraftTypes ==
  /\ NewDraft \in Drafts
  /\ \A d \in Drafts : InputErrors(d) \subseteq Fields
  /\ \A d \in Drafts : [d EXCEPT !.symbol = "listed"] \in Drafts
  /\ \A d \in Drafts, p \in Prompts : [d EXCEPT !.prompt = p] \in Drafts
  /\ \A d \in Drafts, n \in Amounts : [d EXCEPT !.cash = n] \in Drafts
  /\ \A d \in Drafts, n \in Rates : [d EXCEPT !.commission = n] \in Drafts
  /\ \A d \in Drafts :
        [d EXCEPT !.symbol = "listed", !.cash = "amount", !.commission = "rate"] \in Drafts
BY ProtocolAssumption DEF ProtocolAssumption, NewDraft, Drafts, InputErrors

LEMMA InitIInv == Init => IInv
<1> SUFFICES ASSUME Init PROVE IInv
  OBVIOUS
<1>1. TypeOK
  <2>1. /\ 0 \in 0..MaxRequests /\ 0 \in 0..requestId
        /\ http \in [Ids -> {"none", "pending", "cancelled"} \cup Replies]
    BY RequestAssumption DEF Init, Ids
  <2> QED BY <2>1, DraftTypes DEF Init, TypeOK, Screens
<1>2. ScreenHasData /\ ShownAnswersLatest
  BY ErrorStatusType DEF Init, ScreenHasData, ShownAnswersLatest, NoFailure
<1>3. OneLiveRequest /\ RequestsNumbered /\ TokenOfLatest /\ RunsNeedCapabilities
  BY DEF Init, OneLiveRequest, RequestsNumbered, TokenOfLatest, RunsNeedCapabilities,
         isSubmitting
<1> QED BY <1>1, <1>2, <1>3 DEF IInv

(* Loading starts before any run.                                          *)
LEMMA StartIInv == IInv /\ Start => IInv'
BY RequestAssumption, ErrorStatusType
  DEF Start, LoadCapabilities, IInv, TypeOK, ScreenHasData, ShownAnswersLatest,
      OneLiveRequest, RequestsNumbered, TokenOfLatest, RunsNeedCapabilities, isSubmitting,
      NoFailure, Failure, Ids, Screens, Tap, caps, session, inputs, widgets

(* It starts again only from the offline screen.                           *)
LEMMA RetryCapabilitiesIInv == IInv /\ RetryCapabilities => IInv'
BY RequestAssumption, ErrorStatusType
  DEF RetryCapabilities, LoadCapabilities, IInv, TypeOK, ScreenHasData,
      ShownAnswersLatest, OneLiveRequest, RequestsNumbered, TokenOfLatest,
      RunsNeedCapabilities, isSubmitting, NoFailure, Failure, Ids, Screens, Tap, caps,
      session, inputs, widgets

(* The capabilities' answers.                                              *)
LEMMA CapabilitiesAnsweredIInv == IInv /\ CapabilitiesAnswered => IInv'
BY RequestAssumption, ErrorStatusType
  DEF CapabilitiesAnswered, CapabilitiesReplies, IInv, TypeOK, ScreenHasData,
      ShownAnswersLatest, OneLiveRequest, RequestsNumbered, TokenOfLatest,
      RunsNeedCapabilities, isSubmitting, NoFailure, Failure, Ids, Screens, Tap, caps,
      session, inputs, widgets

LEMMA CapabilitiesLoadedIInv == IInv /\ CapabilitiesLoaded => IInv'
<1> SUFFICES ASSUME IInv, CapabilitiesLoaded PROVE IInv'
  OBVIOUS
<1>1. /\ draft' \in Drafts
      /\ capabilitiesStatus' = "ready" /\ load' = "none" /\ capabilities' = TRUE
  BY DraftTypes DEF CapabilitiesLoaded, IInv, TypeOK
<1>2. UNCHANGED <<session, failure, validation, sent, widgets>>
  BY DEF CapabilitiesLoaded
<1> QED BY <1>1, <1>2
  DEF IInv, TypeOK, ScreenHasData, ShownAnswersLatest, OneLiveRequest, RequestsNumbered,
      TokenOfLatest, RunsNeedCapabilities, isSubmitting, session, widgets

LEMMA CapabilitiesFailedIInv == IInv /\ CapabilitiesFailed => IInv'
<1> SUFFICES ASSUME IInv, CapabilitiesFailed PROVE IInv'
  OBVIOUS
<1>1. /\ failure' \in [run : 0..MaxRequests, type : FailureTypes] /\ failure'.run = 0
      /\ capabilitiesStatus' = "error" /\ load' = "none"
  BY RequestAssumption, FailureOfType DEF CapabilitiesFailed, Failure
<1>2. runStatus = "idle" /\ runStatus' = "idle"
  BY DEF CapabilitiesFailed, CapabilitiesReplies, IInv, RunsNeedCapabilities, session
<1>3. UNCHANGED <<capabilities, session, inputs, widgets>>
  BY DEF CapabilitiesFailed
<1> QED BY <1>1, <1>2, <1>3, ErrorStatusType
  DEF IInv, TypeOK, ScreenHasData, ShownAnswersLatest, OneLiveRequest, RequestsNumbered,
      TokenOfLatest, RunsNeedCapabilities, isSubmitting, session, inputs, widgets

(* Editing touches the draft only.                                         *)
LEMMA UpdatePromptIInv == IInv /\ UpdatePrompt => IInv'
<1> SUFFICES ASSUME IInv, UpdatePrompt PROVE IInv'
  OBVIOUS
<1>1. draft' \in Drafts /\ validation' \subseteq Fields
  BY DraftTypes DEF UpdatePrompt, IInv, TypeOK
<1>2. UNCHANGED <<sent, caps, session, failure, widgets>>
  BY DEF UpdatePrompt
<1> QED BY <1>1, <1>2
  DEF IInv, TypeOK, ScreenHasData, ShownAnswersLatest, OneLiveRequest, RequestsNumbered,
      TokenOfLatest, RunsNeedCapabilities, isSubmitting, caps, session, widgets

LEMMA UpdateFieldIInv == IInv /\ UpdateField => IInv'
<1> SUFFICES ASSUME IInv, UpdateField PROVE IInv'
  OBVIOUS
<1>1. draft' \in Drafts /\ validation' \subseteq Fields
  BY DraftTypes DEF UpdateField, IInv, TypeOK
<1>2. UNCHANGED <<sent, caps, session, failure, widgets>>
  BY DEF UpdateField
<1> QED BY <1>1, <1>2
  DEF IInv, TypeOK, ScreenHasData, ShownAnswersLatest, OneLiveRequest, RequestsNumbered,
      TokenOfLatest, RunsNeedCapabilities, isSubmitting, caps, session, widgets

LEMMA RunRejectedIInv == IInv /\ RunRejected => IInv'
<1> SUFFICES ASSUME IInv, RunRejected PROVE IInv'
  OBVIOUS
<1>1. draft' \in Drafts /\ validation' \subseteq Fields
  BY DraftTypes DEF RunRejected, IInv, TypeOK
<1>2. UNCHANGED <<sent, caps, session, failure, widgets>>
  BY DEF RunRejected
<1> QED BY <1>1, <1>2
  DEF IInv, TypeOK, ScreenHasData, ShownAnswersLatest, OneLiveRequest, RequestsNumbered,
      TokenOfLatest, RunsNeedCapabilities, isSubmitting, caps, session, widgets

(* A run takes the next number and the token.                              *)
LEMMA RunIInv == IInv /\ Run => IInv'
BY RequestAssumption, ErrorStatusType
  DEF Run, MayRun, Replies, IInv, TypeOK, ScreenHasData, ShownAnswersLatest,
      OneLiveRequest, RequestsNumbered, TokenOfLatest, RunsNeedCapabilities, isSubmitting,
      NoFailure, Failure, Ids, Screens, Tap, caps, session, inputs, widgets

(* A reply arrives for a pending run.                                      *)
LEMMA AnsweredIInv == ASSUME NEW i \in Ids PROVE IInv /\ Answered(i) => IInv'
<1> SUFFICES ASSUME IInv, Answered(i) PROVE IInv'
  OBVIOUS
<1>1. PICK reply \in Replies : http' = [http EXCEPT ![i] = reply]
  BY AnswersAreReplies DEF Answered
<1>2. UNCHANGED <<runStatus, response, requestId, cancelToken, caps, failure, inputs, widgets>>
  BY DEF Answered
<1>3. http[i] = "pending" /\ reply \notin {"none", "pending", "cancelled"}
  BY DEF Answered, Replies, OtherReplies
<1>4. http' \in [Ids -> {"none", "pending", "cancelled"} \cup Replies]
  BY <1>1 DEF IInv, TypeOK
<1>5. TypeOK'
  BY <1>2, <1>4 DEF IInv, TypeOK, caps, inputs, widgets
<1>6. \A j \in Ids : http'[j] = IF j = i THEN reply ELSE http[j]
  BY <1>1 DEF IInv, TypeOK
<1>7. OneLiveRequest' /\ RequestsNumbered'
  BY <1>2, <1>3, <1>6 DEF IInv, OneLiveRequest, RequestsNumbered, isSubmitting, widgets
<1>8. ScreenHasData' /\ ShownAnswersLatest' /\ TokenOfLatest' /\ RunsNeedCapabilities'
  BY <1>2 DEF IInv, ScreenHasData, ShownAnswersLatest, TokenOfLatest, RunsNeedCapabilities,
              isSubmitting, caps, widgets
<1> QED BY <1>5, <1>7, <1>8 DEF IInv

(* A continuation shows its answer only for the latest run.                *)
LEMMA SettleIInv == ASSUME NEW i \in Ids PROVE IInv /\ Settle(i) => IInv'
<1> SUFFICES ASSUME IInv, Settle(i) PROVE IInv'
  OBVIOUS
<1> USE DEF Stale, FinallyToken, Ids
<1>1. /\ UNCHANGED <<requestId, caps, draft, validation, widgets>>
      /\ sent' = [sent EXCEPT ![i] = NewDraft]
      /\ http' = [http EXCEPT ![i] = "none"]
      /\ cancelToken' = IF i = requestId THEN 0 ELSE cancelToken
      /\ http[i] # "none" /\ http[i] # "pending" /\ i <= requestId
      /\ i = requestId => isSubmitting /\ (http[i] = "cancelled" => disposed)
  BY DEF Settle, IInv, RequestsNumbered, Replies, OtherReplies
<1>2. /\ failure' \in [run : 0..MaxRequests, type : FailureTypes] \cup {NoFailure}
      /\ runStatus' \in {"idle", "loading", "success"} \cup ErrorStatuses
      /\ response' \in 0..MaxRequests
  BY RequestAssumption, FailureOfType, ErrorStatusType DEF Settle, IInv, TypeOK, Failure
<1>3. TypeOK'
  <2>1. http' \in [Ids -> {"none", "pending", "cancelled"} \cup Replies]
    BY <1>1 DEF IInv, TypeOK
  <2>2. sent' \in [Ids -> Drafts]
    BY <1>1, DraftTypes DEF IInv, TypeOK
  <2>3. cancelToken' \in 0..requestId'
    BY <1>1, RequestAssumption DEF IInv, TypeOK
  <2> QED BY <1>1, <1>2, <2>1, <2>2, <2>3 DEF IInv, TypeOK, caps, widgets
<1>4. i = requestId => /\ response = 0 /\ failure = NoFailure
                       /\ capabilitiesStatus = "ready" /\ shown # "offline"
  BY <1>1, ErrorStatusType
  DEF IInv, ShownAnswersLatest, RunsNeedCapabilities, isSubmitting, NoFailure
<1>5. CASE i = requestId /\ http[i] = "200"
  <2>1. response' = i /\ runStatus' = "success" /\ failure' = failure
    BY <1>5 DEF Settle
  <2>2. ~isSubmitting' /\ runStatus' \notin ErrorStatuses /\ cancelToken' = 0 /\ i # 0
    BY <1>1, <1>5, <2>1, ErrorStatusType DEF isSubmitting
  <2>3. \A j \in Ids : http'[j] # "pending" /\ (http'[j] # "none" => http'[j] = http[j] /\ j # i)
    BY <1>1, <1>5 DEF IInv, TypeOK, OneLiveRequest
  <2>4. OneLiveRequest' /\ RequestsNumbered' /\ TokenOfLatest'
    BY <1>1, <1>5, <2>2, <2>3 DEF IInv, OneLiveRequest, RequestsNumbered, TokenOfLatest
  <2>5. ScreenHasData' /\ ShownAnswersLatest' /\ RunsNeedCapabilities'
    BY <1>1, <1>4, <1>5, <2>1, <2>2
    DEF IInv, ScreenHasData, ShownAnswersLatest, RunsNeedCapabilities, NoFailure, caps, widgets
  <2> QED BY <1>3, <2>4, <2>5 DEF IInv
<1>6. CASE i = requestId /\ http[i] \notin {"200", "cancelled"}
  <2>1. /\ failure' = Failure(i, FailureOf(http[i])) /\ response' = response
        /\ runStatus' = StatusFor(failure'.type) /\ runStatus' \in ErrorStatuses
    BY <1>6, FailureOfType, ErrorStatusType DEF Settle, Failure
  <2>2. failure'.run = i /\ failure' # NoFailure
    BY <2>1, RequestAssumption DEF Failure, NoFailure
  <2> QED BY <1>1, <1>3, <1>4, <1>6, <2>1, <2>2, ErrorStatusType
    DEF IInv, TypeOK, ScreenHasData, ShownAnswersLatest, OneLiveRequest, RequestsNumbered,
        TokenOfLatest, RunsNeedCapabilities, isSubmitting, caps, widgets
<1>7. CASE i # requestId \/ http[i] = "cancelled"
  <2>1. UNCHANGED <<response, runStatus, failure>>
    BY <1>7 DEF Settle
  <2> QED BY <1>1, <1>3, <1>7, <2>1, ErrorStatusType
    DEF IInv, TypeOK, ScreenHasData, ShownAnswersLatest, OneLiveRequest, RequestsNumbered,
        TokenOfLatest, RunsNeedCapabilities, isSubmitting, caps, widgets
<1> QED BY <1>5, <1>6, <1>7

(* Cancelling takes a number too.                                          *)
LEMMA CancelIInv == IInv /\ Cancel => IInv'
BY RequestAssumption, ErrorStatusType
  DEF Cancel, CancelRun, CancelPending, Replies, IInv, TypeOK, ScreenHasData,
      ShownAnswersLatest, OneLiveRequest, RequestsNumbered, TokenOfLatest,
      RunsNeedCapabilities, isSubmitting, NoFailure, Failure, Ids, Screens, Tap, caps,
      session, inputs, widgets

LEMMA ReturnToInputIInv == IInv /\ ReturnToInput => IInv'
BY RequestAssumption, ErrorStatusType
  DEF ReturnToInput, CancelRun, CancelPending, Replies, IInv, TypeOK, ScreenHasData,
      ShownAnswersLatest, OneLiveRequest, RequestsNumbered, TokenOfLatest,
      RunsNeedCapabilities, isSubmitting, NoFailure, Failure, Ids, Screens, Tap, caps,
      session, inputs, widgets

(* The widgets touch nothing of the session.                               *)
LEMMA ToggleAboutIInv == IInv /\ ToggleAbout => IInv'
BY RequestAssumption, ErrorStatusType
  DEF ToggleAbout, IInv, TypeOK, ScreenHasData, ShownAnswersLatest, OneLiveRequest,
      RequestsNumbered, TokenOfLatest, RunsNeedCapabilities, isSubmitting, NoFailure,
      Failure, Ids, Screens, Tap, caps, session, inputs, widgets

LEMMA FrameIInv == IInv /\ Frame => IInv'
BY RequestAssumption, ErrorStatusType
  DEF Frame, CurrentScreen, IInv, TypeOK, ScreenHasData, ShownAnswersLatest,
      OneLiveRequest, RequestsNumbered, TokenOfLatest, RunsNeedCapabilities, isSubmitting,
      NoFailure, Failure, Ids, Screens, Tap, caps, session, inputs, widgets

(* Dispose cancels the live request.                                       *)
LEMMA DisposeIInv == IInv /\ Dispose => IInv'
BY RequestAssumption, ErrorStatusType
  DEF Dispose, CancelPending, Replies, IInv, TypeOK, ScreenHasData, ShownAnswersLatest,
      OneLiveRequest, RequestsNumbered, TokenOfLatest, RunsNeedCapabilities, isSubmitting,
      NoFailure, Failure, Ids, Screens, Tap, caps, session, inputs, widgets

(* A stutter changes nothing.                                              *)
LEMMA StutterIInv == IInv /\ UNCHANGED vars => IInv'
BY DEF vars, caps, session, inputs, widgets, IInv, TypeOK, ScreenHasData,
       ShownAnswersLatest, OneLiveRequest, RequestsNumbered, TokenOfLatest,
       RunsNeedCapabilities, isSubmitting

(* Every step keeps the invariant.                                         *)
LEMMA NextIInv == IInv /\ [Next]_vars => IInv'
<1> SUFFICES ASSUME IInv, [Next]_vars PROVE IInv'
  OBVIOUS
<1>1. CASE Start \/ Frame \/ Dispose
  BY <1>1, StartIInv, FrameIInv, DisposeIInv
<1>2. CASE Network
  BY <1>2, CapabilitiesAnsweredIInv, AnsweredIInv DEF Network
<1>3. CASE Continuation
  BY <1>3, CapabilitiesLoadedIInv, CapabilitiesFailedIInv, SettleIInv DEF Continuation
<1>4. CASE User
  BY <1>4, RetryCapabilitiesIInv, UpdatePromptIInv, UpdateFieldIInv, RunRejectedIInv, RunIInv,
     CancelIInv, ReturnToInputIInv, ToggleAboutIInv DEF User
<1>5. CASE UNCHANGED vars
  BY <1>5, StutterIInv
<1> QED BY <1>1, <1>2, <1>3, <1>4, <1>5 DEF Next

(* The invariant holds in every reachable state of the client.             *)
THEOREM Inductive == Spec => []IInv
BY InitIInv, NextIInv, PTL DEF Spec

(* The controller's fields keep their types.                               *)
THEOREM TypeCorrect == Spec => []TypeOK
<1>1. IInv => TypeOK
  BY DEF IInv
<1> QED BY <1>1, Inductive, PTL

(* No frame is ever built on a null response, failure or capabilities.     *)
THEOREM ScreensHaveData == Spec => []ScreenHasData
<1>1. IInv => ScreenHasData
  BY DEF IInv
<1> QED BY <1>1, Inductive, PTL

(* What is shown always answers the latest run, however late an earlier    *)
(* answer comes in.                                                        *)
THEOREM LatestRunIsShown == Spec => []ShownAnswersLatest
<1>1. IInv => ShownAnswersLatest
  BY DEF IInv
<1> QED BY <1>1, Inductive, PTL

(* One request at most is pending, and Cancel and dispose can reach it.    *)
THEOREM LiveRequestIsReachable == Spec => []OneLiveRequest
<1>1. IInv => OneLiveRequest
  BY DEF IInv
<1> QED BY <1>1, Inductive, PTL

-----------------------------------------------------------------------------
(* App and backend.                                                        *)

\* Only requests without input errors are open, and of these only what can
\* be encoded is sent, and only what the schema refuses is answered so.
RequestsChecked ==
    \A i \in Ids : http[i] # "none" =>
        /\ PromptFits(sent[i]) /\ CashFits(sent[i]) /\ CommissionFits(sent[i])
        /\ http[i] = "unsent" <=> ~Encodes(sent[i])
        /\ http[i] = "invalid" => ~ValidRequest(sent[i])
        /\ http[i] # "unread"

(* A request is built only when every field passes the app's rules.        *)
LEMMA NoErrorsMeansFit ==
  ASSUME NEW d, InputErrors(d) = {}
  PROVE  PromptFits(d) /\ CashFits(d) /\ CommissionFits(d)
<1>1. \A f \in Fields : f \notin InputErrors(d)
  OBVIOUS
<1>2. "prompt" \in Fields /\ "initialCash" \in Fields /\ "commission" \in Fields
  BY DEF Fields
<1>3. PromptFits(d)
  BY <1>1, <1>2 DEF InputErrors
<1>4. CashFits(d)
  BY <1>1, <1>2 DEF InputErrors
<1>5. CommissionFits(d)
  BY <1>1, <1>2 DEF InputErrors
<1> QED BY <1>3, <1>4, <1>5

(* The app reads every response the schema lets the backend send.          *)
LEMMA BodiesAreRead == "unread" \notin Reply200
<1> SUFFICES ASSUME NEW body \in Bodies PROVE Reads(body)
  BY DEF Reply200
<1>1. PICK stats \in Sandbox!Stats :
         body = [status |-> "success", valid |-> TRUE, sandboxed |-> TRUE, smoke |-> TRUE,
                 metrics |-> Sandbox!MetricsFromStats(stats)]
  BY DEF Bodies
<1> DEFINE metrics == Sandbox!MetricsFromStats(stats)
<1>2. /\ DOMAIN metrics = {"initial_cash", "final_equity", "net_profit", "number_of_trades",
                           "average_trade_duration"}
      /\ metrics.initial_cash = "number" /\ metrics.number_of_trades = "number"
      /\ metrics.final_equity \in {"number", Null} /\ metrics.net_profit \in {"number", Null}
      /\ metrics.average_trade_duration \in {"number", Null}
  BY DEF Sandbox!MetricsFromStats, Sandbox!OptionalFloat, Sandbox!DurationString
<1>3. ReadsMetrics(metrics)
  BY <1>2, ProtocolAssumption DEF ReadsMetrics, ProtocolAssumption
<1> QED BY <1>1, <1>3 DEF Reads

LEMMA RequestsCheckedStep ==
  IInv /\ RequestsChecked /\ [Next]_vars => RequestsChecked'
<1> SUFFICES ASSUME IInv, RequestsChecked, [Next]_vars PROVE RequestsChecked'
  OBVIOUS
<1>1. CASE UNCHANGED <<http, sent>>
  BY <1>1 DEF RequestsChecked
<1>2. CASE Run
  <2>1. /\ InputErrors(draft) = {} /\ requestId + 1 \in Ids
        /\ \A i \in Ids : i # requestId + 1 => sent'[i] = sent[i] /\ http'[i] = http[i]
        /\ sent'[requestId + 1] = draft
        /\ http'[requestId + 1] = IF Encodes(draft) THEN "pending" ELSE "unsent"
    BY <1>2, RequestAssumption DEF Run, IInv, TypeOK, Ids
  <2> QED BY <2>1, NoErrorsMeansFit DEF RequestsChecked
<1>3. ASSUME NEW i \in Ids, Answered(i) PROVE RequestsChecked'
  <2>1. PICK reply \in BackendReplies(sent[i]) \cup OtherReplies :
           http' = [http EXCEPT ![i] = reply]
    BY <1>3 DEF Answered
  <2>2. reply \notin {"unsent", "unread"} /\ (reply = "invalid" => ~ValidRequest(sent[i]))
    BY <2>1, BodiesAreRead DEF BackendReplies, Reply200, OtherReplies
  <2>3. \A j \in Ids : http'[j] = IF j = i THEN reply ELSE http[j]
    BY <2>1 DEF IInv, TypeOK
  <2>4. http[i] = "pending" /\ sent' = sent
    BY <1>3 DEF Answered, inputs
  <2> QED BY <2>2, <2>3, <2>4 DEF RequestsChecked
<1>4. ASSUME NEW i \in Ids, Settle(i) PROVE RequestsChecked'
  <2>1. \A j \in Ids : j # i => sent'[j] = sent[j] /\ http'[j] = http[j]
    BY <1>4 DEF Settle, IInv, TypeOK
  <2>2. http'[i] = "none"
    BY <1>4 DEF Settle, IInv, TypeOK
  <2> QED BY <2>1, <2>2 DEF RequestsChecked
<1>5. CASE CancelPending /\ sent' = sent
  <2>1. \A j \in Ids : \/ http'[j] = http[j]
                       \/ http[j] = "pending" /\ http'[j] = "cancelled"
    BY <1>5 DEF CancelPending
  <2> QED BY <1>5, <2>1 DEF RequestsChecked
<1> QED
  BY <1>1, <1>2, <1>3, <1>4, <1>5
  DEF Next, Network, Continuation, User, Start, RetryCapabilities, LoadCapabilities,
      CapabilitiesAnswered, CapabilitiesLoaded, CapabilitiesFailed, UpdatePrompt, UpdateField,
      RunRejected, Cancel, ReturnToInput, CancelRun, ToggleAbout, Frame, Dispose, vars, session,
      inputs

(* Whatever the limits, the texts and the statistics of the run, the app's *)
(* rules and the schema's differ on prompts outside the basic plane only.  *)
THEOREM PeersAlwaysAgree == Spec => []PeersAgree
<1>1. Init => RequestsChecked
  BY DEF Init, RequestsChecked
<1>2. IInv /\ RequestsChecked => PeersAgree
  <2> SUFFICES ASSUME IInv, RequestsChecked, NEW i \in Ids, http[i] # "none"
               PROVE  /\ http[i] = "invalid" => /\ sent[i].prompt.chars < MinLength
                                                /\ sent[i].prompt.units > sent[i].prompt.chars
                      /\ http[i] = "unsent" => sent[i].cash = "infinite"
                      /\ http[i] # "unread"
    BY DEF PeersAgree
  <2>1. /\ sent[i] \in Drafts /\ sent[i].prompt \in Prompts
        /\ sent[i].prompt.chars \in Nat /\ sent[i].prompt.units \in Nat
        /\ sent[i].prompt.chars <= sent[i].prompt.units
    BY ProtocolAssumption DEF IInv, TypeOK, Drafts, ProtocolAssumption, Text
  <2>2. PromptFits(sent[i]) /\ CashFits(sent[i]) /\ CommissionFits(sent[i])
    BY DEF RequestsChecked
  <2>3. http[i] = "unsent" => sent[i].cash = "infinite"
    BY <2>2 DEF RequestsChecked, Encodes, CashFits, CommissionFits
  <2>4. ASSUME http[i] = "invalid"
        PROVE  sent[i].prompt.chars < MinLength /\ sent[i].prompt.units > sent[i].prompt.chars
    <3>1. sent[i].cash \in {"rate", "amount"} /\ sent[i].commission \in {"zero", "rate"}
      BY <2>2, <2>4 DEF RequestsChecked, Encodes, CashFits, CommissionFits
    <3>2. ~ValidRequest(sent[i])
      BY <2>4 DEF RequestsChecked
    <3> QED BY <2>1, <2>2, <3>1, <3>2, ProtocolAssumption
      DEF ValidRequest, PromptFits, ProtocolAssumption
  <2> QED BY <2>3, <2>4 DEF RequestsChecked
<1> QED BY <1>1, <1>2, Inductive, RequestsCheckedStep, PTL DEF Spec
=============================================================================
