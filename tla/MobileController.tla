--------------------------- MODULE MobileController ---------------------------
(***************************************************************************)
(* The mobile client: StrategyLabController with the repository and the    *)
(* HTTP client under it (mobile/lib/app/features/strategy_lab,             *)
(* mobile/lib/app/core/api) and the screens of mobile/lib/app.dart over    *)
(* it.  The code runs on one event loop; what interleaves are the user's   *)
(* taps, the answers of the network, the continuations that await them and *)
(* the frames.  A tap goes to the screen of the last frame, which may no   *)
(* longer fit the controller's state.                                      *)
(***************************************************************************)
EXTENDS Naturals, FiniteSets, AppProtocol

CONSTANT MaxRequests  \* bound on requestId: runs started plus runs cancelled

ASSUME RequestAssumption == MaxRequests \in Nat \ {0}

Ids == 1..MaxRequests

FailureTypes ==
    {"validation", "provider", "sandbox", "backend", "network", "unknown", "cancelled"}

-----------------------------------------------------------------------------
(* What a request comes back with: an HTTP status, or an error of the HTTP *)
(* client.  "invalid" is the schema's 422, "unread" a 200 of the backend   *)
(* that the app cannot parse, "malformed" one of somebody else's, "unsent" *)
(* a body that could not be encoded.                                       *)

Reply200 == {IF Reads(body) THEN "200" ELSE "unread" : body \in Bodies}

\* The backend's answers to a request.
BackendReplies(d) == IF ValidRequest(d) THEN Reply200 \cup {"422", "500", "502", "503"} ELSE {"invalid"}

\* The network's, the proxy's or the timer's.
OtherReplies == {"malformed", "504", "timeout", "network"}

Replies == {"200", "unread", "422", "500", "502", "503", "invalid", "unsent"} \cup OtherReplies

CapabilitiesReplies == {"200", "incomplete", "504", "timeout", "network"}

FailureOf_NoDefault(reply) ==                                       \* mutant
    CASE reply \in {"network", "timeout"} -> "network"
      [] reply = "422" -> "validation"
      [] OTHER -> "none"

\* ApiClient._request and _mapApiError.
FailureOf(reply) ==
    CASE reply = "cancelled" -> "cancelled"
      [] reply \in {"network", "timeout", "unsent"} -> "network"
      [] reply \in {"422", "invalid"} -> "validation"
      [] reply = "502" -> "provider"
      [] reply = "503" -> "sandbox"
      [] reply = "500" -> "backend"
      [] OTHER -> "unknown"

\* _statusFor
StatusFor(type) ==
    CASE type = "validation" -> "validationError"
      [] type = "provider" -> "providerError"
      [] type = "sandbox" -> "sandboxError"
      [] type = "backend" -> "backendError"
      [] type = "network" -> "networkError"
      [] OTHER -> "unknownError"

ErrorStatuses == {StatusFor(type) : type \in FailureTypes}

-----------------------------------------------------------------------------
VARIABLES
    capabilitiesStatus,  \* "initial", "loading", "ready", "error"
    capabilities,        \* whether capabilities are there
    runStatus,           \* "idle", "loading", "success" or an error status
    response,            \* the run whose response is kept, or 0 for null
    failure,             \* [run, type]; run 0 for the capabilities; or NoFailure
    draft,               \* what the form's texts come to
    validation,          \* the fields shown with an error
    sent,                \* sent[i]: the request of run i, while it is open
    requestId,           \* _requestId
    cancelToken,         \* the run whose token _cancelToken is, or 0 for null
    http,                \* http[i]: run i's request: "none", "pending", or its reply
    load,                \* the capabilities request, likewise
    showAbout,           \* _showAbout
    shown,               \* the screen of the last frame
    disposed

inputs  == <<draft, validation, sent>>
caps    == <<capabilitiesStatus, capabilities, load>>
session == <<runStatus, response, requestId, cancelToken, http>>
widgets == <<showAbout, shown, disposed>>
vars == <<caps, session, failure, inputs, widgets>>

NoFailure == [run |-> 0, type |-> "none"]

Failure(run, type) == [run |-> run, type |-> type]

Init ==
    /\ capabilitiesStatus = "initial" /\ capabilities = FALSE /\ load = "none"
    /\ runStatus = "idle" /\ response = 0 /\ failure = NoFailure
    /\ draft = NewDraft /\ validation = {} /\ sent = [i \in Ids |-> NewDraft]
    /\ requestId = 0 /\ cancelToken = 0
    /\ http = [i \in Ids |-> "none"]
    /\ showAbout = FALSE /\ shown = "none" /\ disposed = FALSE

isSubmitting == runStatus = "loading"

\* _buildCurrentScreen, and the body of the input screen.
CurrentScreen ==
    CASE showAbout -> "about"
      [] runStatus = "loading" -> "running"
      [] runStatus = "success" -> "result"
      [] runStatus \in ErrorStatuses -> "error"
      [] capabilitiesStatus = "error" -> "offline"
      [] capabilitiesStatus = "ready" -> "form"
      [] OTHER -> "connecting"

\* A tap on a screen of the last frame.
Tap(screens) == ~disposed /\ shown \in screens

-----------------------------------------------------------------------------
(* Capabilities.                                                           *)

\* loadCapabilities, up to its await.
LoadCapabilities ==
    /\ capabilitiesStatus # "loading"
    /\ capabilitiesStatus' = "loading"
    /\ failure' = NoFailure
    /\ load' = "pending"
    /\ UNCHANGED <<capabilities, session, inputs, widgets>>

\* initState
Start == ~disposed /\ capabilitiesStatus = "initial" /\ LoadCapabilities

RetryCapabilities == Tap({"offline"}) /\ LoadCapabilities

CapabilitiesAnswered ==
    /\ load = "pending"
    /\ \E reply \in CapabilitiesReplies : load' = reply
    /\ UNCHANGED <<capabilitiesStatus, capabilities, session, failure, inputs, widgets>>

\* loadCapabilities, after its await: the defaults fill an untouched draft.
CapabilitiesLoaded ==
    /\ load = "200"
    /\ load' = "none"
    /\ capabilities' = TRUE
    /\ capabilitiesStatus' = "ready"
    /\ draft' = IF draft.symbol = "listed" THEN draft
                ELSE [draft EXCEPT !.symbol = "listed", !.cash = "amount", !.commission = "rate"]
    /\ UNCHANGED <<session, failure, validation, sent, widgets>>

CapabilitiesFailed ==
    /\ load \in CapabilitiesReplies \ {"200"}
    /\ load' = "none"
    /\ failure' = Failure(0, FailureOf(load))
    /\ capabilitiesStatus' = "error"
    /\ UNCHANGED <<capabilities, session, inputs, widgets>>

-----------------------------------------------------------------------------
(* The form.                                                               *)

UpdatePrompt ==
    /\ Tap({"form"})
    /\ \E p \in Prompts : draft' = [draft EXCEPT !.prompt = p]
    /\ validation' = IF "prompt" \in validation THEN {} ELSE validation
    /\ UNCHANGED <<sent, caps, session, failure, widgets>>

\* updateSymbol takes one of the supported symbols, the others free text.
UpdateField ==
    /\ Tap({"form"})
    /\ \/ draft' = [draft EXCEPT !.symbol = "listed"]
       \/ \E n \in Amounts : draft' = [draft EXCEPT !.cash = n]
       \/ \E n \in Rates : draft' = [draft EXCEPT !.commission = n]
    /\ UNCHANGED <<validation, sent, caps, session, failure, widgets>>

-----------------------------------------------------------------------------
(* Runs.                                                                   *)

MayRun == ~isSubmitting /\ capabilitiesStatus = "ready"

\* _buildRequest finds errors.
RunRejected ==
    /\ Tap({"form", "error"})
    /\ MayRun
    /\ InputErrors(draft) # {}
    /\ validation' = InputErrors(draft)
    /\ UNCHANGED <<draft, sent, caps, session, failure, widgets>>

\* run(), up to its await.
Run ==
    /\ Tap({"form", "error"})
    /\ MayRun
    /\ InputErrors(draft) = {}
    /\ requestId < MaxRequests
    /\ validation' = {}
    /\ requestId' = requestId + 1
    /\ cancelToken' = requestId + 1
    /\ sent' = [sent EXCEPT ![requestId + 1] = draft]
    /\ http' = [http EXCEPT ![requestId + 1] = IF Encodes(draft) THEN "pending" ELSE "unsent"]
    /\ runStatus' = "loading"
    /\ response' = 0
    /\ failure' = NoFailure
    /\ UNCHANGED <<draft, caps, widgets>>

\* The response, a timeout or a network error reaches the HTTP client.
Answered(i) ==
    /\ http[i] = "pending"
    /\ \E reply \in BackendReplies(sent[i]) \cup OtherReplies : http' = [http EXCEPT ![i] = reply]
    /\ UNCHANGED <<runStatus, response, requestId, cancelToken, caps, failure, inputs, widgets>>

Stale_Never(i) == FALSE                                             \* mutant

Stale(i) == i # requestId

FinallyToken_Always(i) == 0                                         \* mutant

\* The finally clause drops the token of its own run only.
FinallyToken(i) == IF i = requestId THEN 0 ELSE cancelToken

\* run(), after its await.  A run that was cancelled or superseded leaves
\* what is shown alone.
Settle(i) ==
    /\ http[i] \in Replies \cup {"cancelled"}
    /\ http' = [http EXCEPT ![i] = "none"]
    /\ sent' = [sent EXCEPT ![i] = NewDraft]
    /\ cancelToken' = FinallyToken(i)
    /\ \/ /\ ~Stale(i) /\ http[i] = "200"
          /\ response' = i
          /\ runStatus' = "success"
          /\ UNCHANGED failure
       \/ /\ ~Stale(i) /\ http[i] \notin {"200", "cancelled"}
          /\ failure' = Failure(i, FailureOf(http[i]))
          /\ runStatus' = StatusFor(FailureOf(http[i]))
          /\ UNCHANGED response
       \/ /\ Stale(i) \/ http[i] = "cancelled"
          /\ UNCHANGED <<response, runStatus, failure>>
    /\ UNCHANGED <<requestId, caps, draft, validation, widgets>>

\* CancelToken.cancel(): a request that is still pending fails as cancelled;
\* one whose reply is in keeps it.
CancelPending ==
    http' = [i \in Ids |-> IF i = cancelToken /\ http[i] = "pending" THEN "cancelled"
                           ELSE http[i]]

\* cancelRun, while a run is loading.
CancelRun ==
    /\ isSubmitting
    /\ requestId < MaxRequests
    /\ requestId' = requestId + 1
    /\ CancelPending
    /\ cancelToken' = 0

Cancel_KeepsStatus ==                                               \* mutant
    /\ Tap({"running"})
    /\ CancelRun
    /\ failure' = NoFailure
    /\ UNCHANGED <<runStatus, response, caps, inputs, widgets>>

Cancel ==
    /\ Tap({"running"})
    /\ CancelRun
    /\ runStatus' = "idle"
    /\ failure' = NoFailure
    /\ UNCHANGED <<response, caps, inputs, widgets>>

ReturnToInput_ClearsOnly ==                                         \* mutant
    /\ Tap({"result", "error"})
    /\ IF isSubmitting THEN CancelRun ELSE UNCHANGED <<requestId, cancelToken, http>>
    /\ response' = 0
    /\ failure' = NoFailure
    /\ UNCHANGED <<runStatus, caps, inputs, widgets>>

\* returnToInput: Back on the result, Edit or the Strategy Lab tab on an error.
ReturnToInput ==
    /\ Tap({"result", "error"})
    /\ IF isSubmitting THEN CancelRun ELSE UNCHANGED <<requestId, cancelToken, http>>
    /\ runStatus' = "idle"
    /\ response' = 0
    /\ failure' = NoFailure
    /\ UNCHANGED <<caps, inputs, widgets>>

-----------------------------------------------------------------------------
(* Widgets.                                                                *)

ToggleAbout ==
    /\ Tap({"about", "connecting", "offline", "form", "running", "result", "error"})
    /\ showAbout' = (shown # "about")
    /\ showAbout' # showAbout
    /\ UNCHANGED <<shown, disposed, caps, session, failure, inputs>>

Frame ==
    /\ ~disposed
    /\ capabilitiesStatus # "initial"
    /\ shown # CurrentScreen
    /\ shown' = CurrentScreen
    /\ UNCHANGED <<showAbout, disposed, caps, session, failure, inputs>>

\* The widget tree is torn down: the controller cancels the live request.
Dispose ==
    /\ ~disposed
    /\ disposed' = TRUE
    /\ CancelPending
    /\ UNCHANGED <<showAbout, shown, caps, runStatus, response, requestId, cancelToken,
                   failure, inputs>>

Network == CapabilitiesAnswered \/ \E i \in Ids : Answered(i)

Continuation ==
    CapabilitiesLoaded \/ CapabilitiesFailed \/ \E i \in Ids : Settle(i)

User ==
    \/ RetryCapabilities \/ UpdatePrompt \/ UpdateField
    \/ RunRejected \/ Run \/ Cancel \/ ReturnToInput \/ ToggleAbout

Next == Start \/ Network \/ Continuation \/ User \/ Frame \/ Dispose

\* The HTTP client times every request out, and the event loop runs every
\* continuation and frame.  Nothing is assumed of the user.
Spec ==
    /\ Init /\ [][Next]_vars
    /\ WF_vars(CapabilitiesAnswered) /\ WF_vars(CapabilitiesLoaded \/ CapabilitiesFailed)
    /\ WF_vars(Frame)
    /\ \A i \in Ids : WF_vars(Answered(i)) /\ WF_vars(Settle(i))

-----------------------------------------------------------------------------
(* Properties.                                                             *)

Screens == {"none", "about", "running", "result", "error", "offline", "form", "connecting"}

\* Type invariant.
TypeOK ==
    /\ capabilitiesStatus \in {"initial", "loading", "ready", "error"}
    /\ capabilities \in BOOLEAN
    /\ runStatus \in {"idle", "loading", "success"} \cup ErrorStatuses
    /\ response \in 0..MaxRequests
    /\ failure \in [run : 0..MaxRequests, type : FailureTypes] \cup {NoFailure}
    /\ draft \in Drafts /\ validation \subseteq Fields /\ sent \in [Ids -> Drafts]
    /\ requestId \in 0..MaxRequests
    /\ cancelToken \in 0..requestId
    /\ http \in [Ids -> {"none", "pending", "cancelled"} \cup Replies]
    /\ load \in {"none", "pending"} \cup CapabilitiesReplies
    /\ showAbout \in BOOLEAN /\ disposed \in BOOLEAN
    /\ shown \in Screens

\* Whenever a frame may come, the null-checked fields of the screen it builds
\* are there: response! of the result, failure! of the error and
\* capabilities! of the form.
ScreenHasData ==
    /\ runStatus = "success" => response # 0
    /\ runStatus \in ErrorStatuses => failure # NoFailure
    /\ capabilitiesStatus = "ready" => capabilities

\* What is shown answers the latest run: an answer that comes after its run
\* was cancelled or superseded is discarded, however it races with the taps.
ShownAnswersLatest ==
    /\ response # 0 => response = requestId /\ runStatus = "success"
    /\ failure.run # 0 => failure.run = requestId /\ runStatus = StatusFor(failure.type)
    /\ runStatus = "success" => failure = NoFailure

\* At most one request is pending, that of the run being waited for, and the
\* controller holds its token: Cancel and dispose always reach the request.
OneLiveRequest ==
    LET live == {i \in Ids : http[i] = "pending"}
    IN  /\ live \subseteq (IF isSubmitting /\ ~disposed THEN {requestId} ELSE {})
        /\ isSubmitting /\ ~disposed => cancelToken = requestId
        /\ ~isSubmitting => cancelToken = 0

\* App and backend agree on what a request is: the schema refuses what the
\* app let through only for a prompt with characters outside the basic plane
\* (which count twice in the app), nothing but an infinite amount of cash
\* fails to be sent, and the app reads every response of the backend.
PeersAgree ==
    \A i \in Ids :
        /\ http[i] = "invalid" => /\ sent[i].prompt.chars < MinLength
                                 /\ sent[i].prompt.units > sent[i].prompt.chars
        /\ http[i] = "unsent" => sent[i].cash = "infinite"
        /\ http[i] # "unread"

\* A run the user waits for ends: with an answer, cancelled, or with the app.
EveryRunSettles == isSubmitting ~> ~isSubmitting \/ disposed
=============================================================================
