---------------------------- MODULE NvidiaClient ----------------------------
(***************************************************************************)
(* NvidiaNimClient (backend/app/llm/nvidia_client.py): one client object,  *)
(* the AsyncOpenAI client it opens lazily inside an `async with` context,  *)
(* and the completions it runs, each a primary leg of at most              *)
(* MaxRetries + 1 requests inside one time budget, then at most one        *)
(* fallback leg with a budget of its own.  The provider is the environment:*)
(* it answers, answers emptily, fails with any SDK error, or hangs.        *)
(* Time is counted in ticks; a tick is long against a scheduling step.     *)
(***************************************************************************)
EXTENDS Naturals

CONSTANTS
    Primary,         \* settings.nvidia_model
    Fallback,        \* settings.nvidia_fallback_model, or NoModel
    NoModel,         \* Python's None where a model name may stand
    ReportedModels,  \* names a completion may carry in its `model` field
    MaxRetries,      \* settings.nvidia_max_retries (0 or 1)
    RequestTimeout,  \* settings.nvidia_request_timeout_seconds, in ticks
    RetryBackoff     \* settings.nvidia_retry_backoff_seconds, in ticks

ASSUME SettingsAssumption ==
    /\ Primary # NoModel
    /\ NoModel \notin ReportedModels
    /\ MaxRetries \in Nat
    /\ RequestTimeout \in Nat \ {0}
    /\ RetryBackoff \in Nat

-----------------------------------------------------------------------------
(* Error categories and how an SDK error falls into one.                   *)

ProviderErrorKind ==
    {"AUTHENTICATION", "PERMISSION", "MODEL_UNAVAILABLE", "RATE_LIMIT",
     "TIMEOUT", "SERVER", "NETWORK", "INVALID_REQUEST", "INVALID_RESPONSE",
     "UNKNOWN"}

NoKind == "none"

\* An SDK error, by what the classification reads of it: its class and the
\* HTTP status it carries (0: the attribute is absent).
SdkErrors ==
    [class : {"APITimeoutError", "APIConnectionError"}, status : {0}]
      \cup [class : {"APIError"},
            status : {0, 200, 400, 401, 403, 404, 410, 422, 429, 500, 503}]

\* APITimeoutError derives from APIConnectionError in the SDK.
IsConnectionError(e) == e.class \in {"APITimeoutError", "APIConnectionError"}

Kind(e) ==
    IF e.class = "APITimeoutError" THEN "TIMEOUT"
    ELSE IF e.status = 401 THEN "AUTHENTICATION"
    ELSE IF e.status = 403 THEN "PERMISSION"
    ELSE IF e.status \in {404, 410} THEN "MODEL_UNAVAILABLE"
    ELSE IF e.status = 429 THEN "RATE_LIMIT"
    ELSE IF e.status \in 500..599 THEN "SERVER"
    ELSE IF IsConnectionError(e) THEN "NETWORK"
    ELSE IF e.status \in 400..499 THEN "INVALID_REQUEST"
    ELSE "UNKNOWN"

Retryable == {"TIMEOUT", "RATE_LIMIT", "SERVER"}

FallbackKinds == {"MODEL_UNAVAILABLE", "TIMEOUT"}

HasFallback == Fallback # NoModel /\ Fallback # Primary

-----------------------------------------------------------------------------
VARIABLES
    hasKey,          \* whether settings.nvidia_api_key is set, fixed at start
    managed,         \* self._managed
    client,          \* whether self._client is set
    live,            \* AsyncOpenAI objects created and not yet closed
    lastModel,       \* self._last_model
    pc,              \* where the task stands
    owner,           \* who entered the context: "caller", "self" or "none"
    model,           \* the model of the running leg
    attempt,         \* loop variable of _attempts
    backoffFailure,  \* state["backoff_failure"] of the running leg
    elapsed,         \* ticks of this leg's budget already used
    slept,           \* ticks of the running back-off sleep
    error,           \* kind of the NvidiaNimError being raised, or NoKind
    outcome,         \* "none", "answered", "cancelled" or the error kind
    \* History, read by properties only:
    calls,           \* requests sent in this completion
    spent,           \* ticks used in this completion
    heard,           \* kind of the provider's last failure in this leg
    cut,             \* pc at which the leg's deadline fell, or "none"
    primaryHeard,    \* heard and cut of the primary leg, at the fallback
    primaryCut

context == <<hasKey, managed, client, live, owner>>
leg     == <<model, attempt, backoffFailure, elapsed, slept>>
history == <<calls, spent, heard, cut, primaryHeard, primaryCut>>
vars    == <<context, lastModel, pc, leg, error, outcome, history>>

InFlight == {"calling", "backoff", "raised"}

Init ==
    /\ hasKey \in BOOLEAN
    /\ managed = FALSE /\ client = FALSE /\ live = 0 /\ owner = "none"
    /\ lastModel = Primary
    /\ pc = "outside"
    /\ model = NoModel /\ attempt = 0 /\ backoffFailure = NoKind
    /\ elapsed = 0 /\ slept = 0
    /\ error = NoKind /\ outcome = "none"
    /\ calls = 0 /\ spent = 0 /\ heard = NoKind /\ cut = "none"
    /\ primaryHeard = NoKind /\ primaryCut = "none"

\* __aenter__, by the FastAPI dependency: marks the context, opens nothing.
Aenter ==
    /\ pc = "outside"
    /\ managed' = TRUE
    /\ owner' = "caller"
    /\ pc' = "ready"
    /\ UNCHANGED <<hasKey, client, live, lastModel, leg, error, outcome, history>>

\* _complete_model up to the first request of _attempts.
StartLeg(m) ==
    /\ pc' = "calling"
    /\ model' = m
    /\ attempt' = 0
    /\ backoffFailure' = NoKind
    /\ elapsed' = 0
    /\ slept' = 0
    /\ heard' = NoKind
    /\ cut' = "none"

\* A finished completion returns to its caller; an unmanaged one leaves the
\* context it entered itself.
AfterCompletion == IF owner' = "self" THEN "leaving" ELSE "ready"

\* generate_code / repair_code -> _complete: enter a context of its own when
\* there is none, open the SDK client on first use, start the primary leg.
\* A missing key fails here, outside the fallback's try block.
Complete ==
    /\ \/ pc = "ready" /\ UNCHANGED <<managed, owner>>
       \/ pc = "outside" /\ managed' = TRUE /\ owner' = "self"
    /\ spent' = 0
    /\ primaryHeard' = NoKind /\ primaryCut' = "none"
    /\ IF client \/ hasKey
       THEN /\ client' = TRUE
            /\ live' = IF client THEN live ELSE live + 1
            /\ StartLeg(Primary)
            /\ calls' = 1
            /\ error' = NoKind
            /\ outcome' = "none"
       ELSE /\ calls' = 0
            /\ error' = "AUTHENTICATION"
            /\ outcome' = "AUTHENTICATION"
            /\ pc' = AfterCompletion
            /\ UNCHANGED <<client, live, leg, heard, cut>>
    /\ UNCHANGED <<hasKey, lastModel>>

-----------------------------------------------------------------------------
(* One request: pc = "calling" is the await of chat.completions.create.    *)

\* Non-empty content: remember the model that answered and return.
Answered(reported) ==
    /\ pc = "calling"
    /\ lastModel' = IF reported # NoModel THEN reported ELSE model
    /\ outcome' = "answered"
    /\ UNCHANGED owner
    /\ pc' = AfterCompletion
    /\ UNCHANGED <<hasKey, managed, client, live, leg, error, history>>

\* No choices, or blank content: INVALID_RESPONSE, never retried.
AnsweredEmpty ==
    /\ pc = "calling"
    /\ error' = "INVALID_RESPONSE"
    /\ heard' = "INVALID_RESPONSE"
    /\ pc' = "raised"
    /\ UNCHANGED <<context, lastModel, leg, outcome, calls, spent, cut, primaryHeard, primaryCut>>

MayRetry_OffByOne(kind) == kind \in Retryable /\ attempt <= MaxRetries  \* mutant

MayRetry(kind) == kind \in Retryable /\ attempt < MaxRetries

\* An OpenAIError: back off and retry, or raise with its category.
Failed(e) ==
    /\ pc = "calling"
    /\ heard' = Kind(e)
    /\ IF MayRetry(Kind(e))
       THEN /\ backoffFailure' = Kind(e)
            /\ slept' = 0
            /\ pc' = "backoff"
            /\ UNCHANGED error
       ELSE /\ error' = Kind(e)
            /\ pc' = "raised"
            /\ UNCHANGED <<backoffFailure, slept>>
    /\ UNCHANGED <<context, lastModel, model, attempt, elapsed, outcome,
                   calls, spent, cut, primaryHeard, primaryCut>>

NextAttempt_KeepsCause ==                                          \* mutant
    attempt' = attempt + 1 /\ UNCHANGED <<backoffFailure, elapsed>>

NextAttempt_NewBudget ==                                           \* mutant
    attempt' = attempt + 1 /\ backoffFailure' = NoKind /\ elapsed' = 0

\* The loop's next turn forgets the back-off's cause; the budget runs on.
NextAttempt ==
    attempt' = attempt + 1 /\ backoffFailure' = NoKind /\ UNCHANGED elapsed

\* The back-off sleep is over: ask the same model again.
Retry ==
    /\ pc = "backoff"
    /\ slept = RetryBackoff
    /\ NextAttempt
    /\ calls' = calls + 1
    /\ pc' = "calling"
    /\ UNCHANGED <<context, lastModel, model, slept, error, outcome,
                   spent, heard, cut, primaryHeard, primaryCut>>

BudgetError_AlwaysTimeout == "TIMEOUT"                             \* mutant

BudgetError == IF backoffFailure # NoKind THEN backoffFailure ELSE "TIMEOUT"

UnderDeadline_SleepOnly == {"backoff"}                             \* mutant

\* The awaits asyncio.timeout surrounds.
UnderDeadline == {"calling", "backoff"}

\* asyncio.timeout fires on the whole leg, in a request or in a back-off.
BudgetExpired ==
    /\ pc \in UnderDeadline
    /\ elapsed = RequestTimeout
    /\ error' = BudgetError
    /\ cut' = pc
    /\ pc' = "raised"
    /\ UNCHANGED <<context, lastModel, leg, outcome, calls, spent, heard, primaryHeard, primaryCut>>

\* Time passes inside the leg, never beyond the armed deadline.
Tick ==
    /\ pc \in {"calling", "backoff"}
    /\ elapsed < RequestTimeout
    /\ elapsed' = elapsed + 1
    /\ spent' = spent + 1
    /\ slept' = IF pc = "backoff" /\ slept < RetryBackoff THEN slept + 1 ELSE slept
    /\ UNCHANGED <<context, lastModel, pc, model, attempt, backoffFailure, error,
                   outcome, calls, heard, cut, primaryHeard, primaryCut>>

-----------------------------------------------------------------------------
MayFallBack == model = Primary /\ HasFallback /\ error \in FallbackKinds

\* _complete catches the primary's error and starts the fallback leg.
FallBack ==
    /\ pc = "raised"
    /\ MayFallBack
    /\ primaryHeard' = heard /\ primaryCut' = cut
    /\ StartLeg(Fallback)
    /\ calls' = calls + 1
    /\ error' = NoKind
    /\ UNCHANGED <<context, lastModel, outcome, spent>>

\* ... or lets it pass to the caller.
Raise ==
    /\ pc = "raised"
    /\ ~MayFallBack
    /\ outcome' = error
    /\ UNCHANGED owner
    /\ pc' = AfterCompletion
    /\ UNCHANGED <<hasKey, managed, client, live, lastModel, leg, error, history>>

\* The awaiting task is cancelled from outside: CancelledError passes every
\* handler of this class and unwinds the context.
Cancelled ==
    /\ pc \in {"calling", "backoff"}
    /\ outcome' = "cancelled"
    /\ pc' = "leaving"
    /\ UNCHANGED <<context, lastModel, leg, error, history>>

ClosesClient_UnlessCancelled == client /\ outcome # "cancelled"      \* mutant

ClosesClient == client

\* __aexit__: the field is emptied before the close is awaited.
Aexit ==
    /\ pc \in {"ready", "leaving"}
    /\ client' = FALSE
    /\ managed' = FALSE
    /\ owner' = "none"
    /\ pc' = IF ClosesClient THEN "closing" ELSE "outside"
    /\ UNCHANGED <<hasKey, live, lastModel, leg, error, outcome, history>>

\* client.close() has returned.
Closed ==
    /\ pc = "closing"
    /\ live' = live - 1
    /\ pc' = "outside"
    /\ UNCHANGED <<hasKey, managed, client, owner, lastModel, leg, error, outcome, history>>

Provider ==
    \/ \E reported \in ReportedModels \cup {NoModel} : Answered(reported)
    \/ AnsweredEmpty
    \/ \E e \in SdkErrors : Failed(e)

Loop == Retry \/ BudgetExpired \/ Tick \/ FallBack \/ Raise \/ Closed

Leave == pc = "leaving" /\ Aexit

Next == Aenter \/ Complete \/ Provider \/ Loop \/ Cancelled \/ Aexit

\* The event loop runs timers and ready tasks; nothing obliges the provider
\* to answer, the caller to ask, or anyone to cancel.
Spec == Init /\ [][Next]_vars /\ WF_vars(Loop) /\ WF_vars(Leave)

-----------------------------------------------------------------------------
(* Properties.                                                             *)

Models == {Primary, Fallback, NoModel}
Ends   == {"none", "calling", "backoff"}

FlagsOK == hasKey \in BOOLEAN /\ managed \in BOOLEAN /\ client \in BOOLEAN

\* Type invariant: the client object's fields and the leg's locals.
TypeOK ==
    /\ FlagsOK
    /\ live \in {0, 1}
    /\ lastModel \in Models \cup ReportedModels
    /\ pc \in {"outside", "ready", "calling", "backoff", "raised", "leaving", "closing"}
    /\ owner \in {"none", "caller", "self"}
    /\ model \in Models
    /\ attempt \in 0..MaxRetries
    /\ backoffFailure \in Retryable \cup {NoKind}
    /\ elapsed \in 0..RequestTimeout
    /\ slept \in 0..RetryBackoff
    /\ error \in ProviderErrorKind \cup {NoKind}
    /\ outcome \in ProviderErrorKind \cup {"none", "answered", "cancelled"}
    /\ calls \in Nat
    /\ spent \in Nat
    /\ heard \in ProviderErrorKind \cup {NoKind}
    /\ cut \in Ends
    /\ primaryHeard \in ProviderErrorKind \cup {NoKind}
    /\ primaryCut \in Ends

\* nvidia-provider.md: a 429 or 5xx that uses the budget up in a back-off
\* keeps its category and cannot trigger the fallback.  The fallback model
\* is asked only after the primary leg ended in a request cut off by the
\* deadline, or with a timeout or 404/410 as the provider's last word.
FallbackJustified ==
    pc \in InFlight /\ model # Primary =>
        \/ primaryCut = "calling"
        \/ primaryHeard \in FallbackKinds

\* Retries share their leg's budget and the fallback adds one leg: a
\* completion sends at most (MaxRetries + 1) requests per configured model
\* and takes at most RequestTimeout per configured model.
Legs == IF HasFallback THEN 2 ELSE 1

BoundedCompletion ==
    pc \in InFlight =>
        /\ calls <= Legs * (MaxRetries + 1)
        /\ spent <= Legs * RequestTimeout

\* The SDK client opened for a context is closed on every way out of it -
\* answer, error or cancellation - and none is opened beside a live one.
ClientReleased ==
    /\ pc = "outside" => live = 0 /\ ~managed
    /\ client => live = 1 /\ managed

\* A category that reached the caller names what went wrong last: the
\* provider's last failure, unless the deadline cut a request off.
OutcomeNamesCause ==
    pc = "raised" => error = IF cut = "calling" THEN "TIMEOUT" ELSE heard

\* A completion ends whatever the provider does, even if it never answers.
Completes == pc \in InFlight ~> pc \in {"ready", "outside"}
=============================================================================
