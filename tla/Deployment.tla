----------------------------- MODULE Deployment -----------------------------
(***************************************************************************)
(* One installation of the app against the backend, directly or through    *)
(* the nginx of deploy/azure: who gives up first on a run that is one long *)
(* HTTP request (mobile/lib/app/core/api/, strategy_lab_api.dart). Time is *)
(* in minutes. The backend is its stages and their limits; each stage may  *)
(* end at any time up to its limit.                                        *)
(***************************************************************************)
EXTENDS Integers

CONSTANTS
    MaxVersions,   \* MAX_STRATEGY_VERSIONS
    ProviderTime,  \* budget of a generation or repair, with its fallback
    SandboxTime,   \* limit of an execution, with cold start and removal
    MarketTime     \* limit of a download

ASSUME DeploymentAssumption ==
    /\ MaxVersions \in Nat \ {0}
    /\ ProviderTime \in Nat /\ SandboxTime \in Nat /\ MarketTime \in Nat

RunTimeout == 5
ProxyReadTimeout == 6

VARIABLES
    web,      \* the app is the web build, behind nginx
    http,     \* the app's request
    waited,   \* how long the app has waited
    stage,    \* the backend's work for it
    version,  \* versions of the strategy so far
    spent,    \* time in this stage
    total     \* time in all stages

client  == <<http, waited>>
backend == <<stage, version, spent, total>>
vars    == <<web, client, backend>>

Init ==
    /\ web \in BOOLEAN
    /\ http = "waiting" /\ waited = 0
    /\ stage = "generate" /\ version = 1
    /\ spent = 0 /\ total = 0

IsWorking == stage # "ended"

Limit ==
    CASE stage = "generate" -> ProviderTime
      [] stage \in {"smoke", "backtest"} -> SandboxTime
      [] stage = "market" -> MarketTime

MayRepair_OffByOne == version <= MaxVersions                         \* mutant
MayRepair == version < MaxVersions

\* A version that fails validation or the smoke run is repaired.
Repair ==
    /\ stage \in {"generate", "smoke"}
    /\ MayRepair
    /\ stage' = "generate"
    /\ version' = version + 1
    /\ spent' = 0
    /\ UNCHANGED <<web, client, total>>

Advance ==
    /\ \/ stage = "generate" /\ stage' = "smoke"
       \/ stage = "smoke" /\ stage' = "market"
       \/ stage = "market" /\ stage' = "backtest"
    /\ spent' = 0
    /\ UNCHANGED <<web, client, version, total>>

\* A result, or an error of any stage; a waiting client receives it.
Finish ==
    /\ IsWorking
    /\ stage' = "ended"
    /\ http' = IF http = "waiting" THEN "answered" ELSE http
    /\ UNCHANGED <<web, waited, version, spent, total>>

\* Who may give up now.
TimersDue ==
    (IF waited = RunTimeout THEN {"timeout"} ELSE {})
        \cup (IF web /\ waited = ProxyReadTimeout THEN {"gateway"} ELSE {})

\* The user, the client's timer or the proxy's ends the request. The
\* backend goes on: no handler of a run looks at its connection.
GiveUp ==
    /\ http = "waiting"
    /\ http' \in {"cancelled"} \cup TimersDue
    /\ UNCHANGED <<web, waited, backend>>

\* A minute, unless a limit has been reached.
Tick ==
    /\ http = "waiting" \/ IsWorking
    /\ http = "waiting" => TimersDue = {}
    /\ IsWorking => spent < Limit
    /\ waited' = IF http = "waiting" THEN waited + 1 ELSE waited
    /\ spent' = IF IsWorking THEN spent + 1 ELSE spent
    /\ total' = IF IsWorking THEN total + 1 ELSE total
    /\ UNCHANGED <<web, http, stage, version>>

Next == Repair \/ Advance \/ Finish \/ GiveUp \/ Tick

Spec == Init /\ [][Next]_vars

-----------------------------------------------------------------------------
(* Properties.                                                             *)

Version == ProviderTime + SandboxTime
Longest == MaxVersions * Version + MarketTime + SandboxTime

\* The backend works on a run no longer than its versions, the market data
\* and the final execution allow, whoever waits (nvidia-provider.md:58-61).
RunBounded == total <= Longest

\* The app gives up before the proxy does (api_config.dart:22 against
\* nginx.conf:23): users of the web build read the app's own timeout
\* message, never the proxy's error page.
ProxyOutlastsClient == http # "gateway"

\* "Any deployment proxy/client deadline must account for the full
\* synchronous request" (nvidia-provider.md:61-62): the app's timer does not
\* end the wait for a run that is within its limits.
DeadlineCoversRun == http = "timeout" => stage = "ended"
=============================================================================
