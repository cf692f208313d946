# Verification of the LLM trading strategy lab

The program turns a sentence ("buy when RSI is below 35 ...") into a trading
strategy written by a language model, validates it, runs it in a Docker sandbox,
lets the model repair it a bounded number of times, freezes it, and only then
backtests it on the last six months of a BIST share: data no version of the
strategy was developed against. A Flutter app drives it over one long HTTP request.

This directory holds TLA+ models of that program, the TLC runs that check them and
TLAPS proofs about them. `PROJECT.json` maps every definition to the lines it models.

## 1. Inventory

| Component | State it keeps | Operations | Interacts with | What is hard |
|---|---|---|---|---|
| Mobile controller (`strategy_lab_controller.dart`, repository, `app.dart`) | capabilities and run status, request number, cancel token, draft, result or failure | load capabilities, edit, run, cancel, return, dispose; one continuation per request | repository (futures), widgets (notifications) | answers that come after cancellation, a newer run or disposal; a status shown without its data |
| App protocol: input rules (`input_parsers.dart`, `_buildRequest`) and response models (`models/*.dart`) | none | text to numbers, limits; `fromJson` | server schemas | two implementations of each rule, in units that differ |
| Deployment (`nginx.conf`, `api_config.dart`) | one request with its timers | wait, time out, proxy | app, backend | three clocks run on one request; the backend works on when nobody waits |
| Strategy Lab route and service (`strategy_lab_routes.py`, `strategy_lab_service.py`) | per request: attempt count, current code, frozen strategy, market split | generate, validate, smoke, repair, freeze, load market, backtest, report | provider client, validators, sandbox and market through `asyncio.to_thread` | concurrent requests on one thread pool; which failure may lead to a repair; what may be seen when |
| NVIDIA client (`nvidia_client.py`) | SDK client, managed flag, last model; per leg: attempt, budget, back-off reason | enter, complete, retry, fall back, exit | provider over HTTP, event loop | time budget shared by attempts and sleeps; cancellation at any await; error categories that decide the fallback |
| Static validators (`validators/`, `validation_service.py`) | per analysis: bindings, facts, calls | clean, parse, walk, iterate to a fixed point, report | service | abstract interpretation whose iteration must end, whatever order it takes; the verdict is on cleaned code, which must be what runs |
| Strategy contract (`strategy_contract.py`) | aliases while walking `next`; names that hold trades | prove or refuse a trailing stop; allow a fixed API of trades and positions | validators | a proof about a small language with rebinding: what is accepted must do what was asked |
| Prompts and repair context (`llm/`) | none | choose findings, assemble text | validators, sandbox results, provider client | what is not told cannot be repaired, and versions are few |
| Sandbox executor (`docker_executor.py`) | temporary directories, CLI process, container name | launch, poll, measure, remove, reap, collect | docker CLI and daemon | three processes and a daemon fail independently; the container can outlive the CLI |
| Sandbox worker (`worker.py`, `runtime/models.py`) | stage and hash known so far, alarm | read inputs, run, emit one message | executor through standard output | the alarm is an exception inside untrusted frames; two code bases agree on a protocol without sharing code |
| Market data (`market/`) | none; time passes between requests | download, clean, split | Yahoo | order of cleaning steps; the cutoff day; months of different lengths |
| Trusted backtest (`backtest_service.py`, `backtest/`, route) | none | run the reference strategy, read its statistics | market data | non-finite statistics; which failure has which status |
| Configuration, schemas, other routes | settings, read once | validation | all | limits |
| Reliability matrix (`scripts/run_strategy_reliability_matrix.py`) | records of runs | send, observe, classify, aggregate | service through its observer | a report that names the wrong stage |
| Other scripts, QA drivers | reports | acceptance runs | the API | not part of the product |

What makes each modelled component correct:

* **Controller** - the screen never dereferences missing data; what is shown answers
  the latest run; the one open request can always be cancelled; waiting ends; app and
  server agree on what a request is and what a response holds.
* **Service** - held-out data stays behind the freeze; repairs are spent on the
  strategy's own faults; the response describes what was scored; every request is
  answered although requests outnumber threads.
* **Provider client** - the fallback is asked only for the reasons documented; one
  completion has bounded time and calls; the error names its cause; nothing stays open.
* **Sandbox** - the two sides agree on every message; a strategy is blamed only for
  what it did; a container outlives its execution only for known reasons; the caller
  is always answered, once, with a reply it can classify.
* **Market data** - cleaning keeps the right bar of a day, the split loses and repeats
  none, no bar still trading is used, and test data never grows backwards.
* **Contract analysis** - a strategy accepted for a trailing stop trails at that
  distance on every bar; the loop the prompt teaches is accepted; an accepted method
  touches nothing of a trade, an order or a position but what is supported.
* **Security analysis** - it ends with the least fixed point, on any program.
* **Validation and repair rounds** - only code that passed every validator runs; a model
  that repairs what it is told is given up only when its faults need that many rounds.
* **Deployment** - the backend's work on a run is bounded; who waits learns from the
  app, not from the proxy.
* **Reliability matrix** - a failed run is reported under the stage that failed it, and
  the gate is passed only by runs that were scored.

## 2. Modules

```
NvidiaClient ------------ NvidiaClientProofs
FrozenEvaluation <------- StrategyLab --- ReliabilityMatrix --- StrategyLabProofs
SandboxReplies ---+------ StrategyLab
                  +------ SandboxJob
SandboxProtocol --------- SandboxExecution ---- SandboxExecutionProofs,  MCSandboxExecution
SandboxJob <------------- SandboxExecution
SandboxProtocol <-------- AppProtocol
AppProtocol ------------- MobileController ---- MobileControllerProofs,  MCMobileController
MarketData -------------- MarketDataProofs,  MCMarketData
StrategyNumbers --------- StrategyLanguage,  TrailingStop
ApiVisitor -------------- TrailingStop -------- ContractProofs
TrailingStop -------+---- TrailingContract ---- MCTrailingContract
StrategyLanguage ---+
SecurityOrigins --------- BindingLoop --------- BindingLoopProofs
BindingLoop ------------- SecurityBindings ---- MCSecurityBindings
Deployment -------------- RepairRounds -------- RepairRoundsProofs,  MCRepairRounds
```

An arrow points to an abstract module or to one whose operators are used; the other
lines are EXTENDS from left to right.

**NvidiaClient** models one `NvidiaNimClient`. `managed`, `client`, `lastModel` are
the object's fields; `model`, `attempt`, `backoffFailure` are the locals of
`_complete_model` and `_attempts`. `pc` names the await at which the coroutine
stands. `elapsed` is the time under the leg's `asyncio.timeout`, `slept` the time in
`asyncio.sleep`. `Complete` is `_complete` up to the first request, including the
self-managed context and the missing key; `Failed` is the `except OpenAIError` block
with classification, retry decision and re-raise; `BudgetExpired` is
`except TimeoutError`; `FallBack` and `Raise` are the two ends of `_complete`'s
handler; `Cancelled` may strike at every await; `Aexit` and `Closed` are `__aexit__`
before and after `client.close()`. `live` counts SDK clients not yet closed. The
variables under `history` are read by properties only.

**StrategyLab** models `run()` for a set of requests and the shared thread pool. `pc`
is the await at which a request stands; each action is the code from one await to the
next, so a validation failure that leads to a repair, or to the pre-test error with its
HTTP status, is one step. Versions are numbered by `attempt_count`; `author` is the
model reported with each version, `frozen` the frozen version's number, `held` says
whether the request holds the split. `job`, `reply` and `queue` are the pool behind
`asyncio.to_thread`. `verdict` and `scored` are history. The provider, the sandbox and
the market are the sets of outcomes they can have; NvidiaClient is where the first come
from. For the sandbox that is a refinement: **SandboxReplies** says which replies the
service tells apart, **SandboxJob** is what the service relies on in three lines (it is
answered, once, with such a reply, and a strategy is called good or charged with a
failure of its own only after it ran), and SandboxExecution is shown to implement it.

**FrozenEvaluation** is the promise, in five actions: a strategy is written any number
of times, frozen, shown its test data, and scored or given up; nothing is written
after the freeze. `StrategyLab!Evaluation` is the refinement mapping: phases from
`pc` and the response, version from `attempt`, subject from `frozen`.

**SandboxProtocol** holds both messages and both sides' checks as pure operators, each
translated from its own side: the host's `Request` and the worker's `LoadsRequest`;
the worker's `FailureType`, `FailureContext` and `MetricsFromStats` and the host's
`ModelValidate` (`SandboxResult`, `BacktestMetrics`). An exception is a record of its
class name, whether it is an AttributeError instance, and the kind of object it was
raised on; a chain is a sequence of them. A statistic is a number, has no finite value,
is not there or does not convert: that is all the conversion looks at.

**SandboxExecution** models one `_execute`: the host thread (`host`, `limit`,
`result`), the docker CLI and container (`cli`, `rc`, `container`), the worker
(`worker`, `alarm`, `message`, `spent`) and a clock. The poll, the measurement, the
forced removal, the wait and the parse are separate steps because the other processes
run between them. `docker rm` can succeed, fail, or come before the daemon has created
the container. A strategy can be no class, no `Strategy`, fail to import, print too
much, raise, swallow the alarm or return statistics that do not convert. CPython runs the
handler of the alarm between two bytecodes only, so a strategy in one long C call lets
time pass with the alarm due (`Tick` asks nothing of it); when the call returns, the
handler comes before any other end of the strategy (`StrategyEnds`), at the latest in the
`finally` block that disarms the timer: that is `AlarmRaised` too. The inputs
vanish when the host returns, so a worker that boots late refuses them. `image =
"outdated"` is a worker of the previous protocol version.
MCSandboxExecution supplies exception chains that tell the two walks apart. `Job` is the
refinement mapping to SandboxJob: `startedAt` tells whether the strategy ran, `result` is
the reply, with the subclass `SandboxProtocolError` as the class the service catches.

**ReliabilityMatrix** adds no state: the acceptance script observes the service and keeps
one record per run, so its records are a view of StrategyLab's variables. `Category` is
`classify_failure` over the response's status and error and the first failed check,
`FirstPass` the flag of a record, `GatePassed` the decision of `aggregate`.

**MobileController** models the controller, the repository's error mapping and the
screen the shell builds. `http[i]` is request `i` on the network and the answer waiting
for its continuation, so answers can be delivered in any order and after cancellation;
`shown` is the last frame drawn, so a tap belongs to a screen that may be out of date
with respect to the state it acts on. Failures carry the run they came from.

**AppProtocol** is what the two sides of the HTTP boundary ask of the same data: the rules
of `_buildRequest` against `StrategyLabRunRequest`, and the server's response (with the
metrics of SandboxProtocol) against `fromJson`. A prompt is a pair of lengths, since Dart
counts UTF-16 units and Python code points; an amount is what its text came to. The
controller extends it: `draft` is edited, `sent[i]` is what request `i` carried, and the
schema's refusal, a request that JSON cannot encode and a body that cannot be read are
outcomes of a request beside the server's own errors. MCMobileController supplies prompts.

**MarketData** models backtest requests that follow one another while days pass. A
request downloads the window before today, cleans, splits, tests and answers; the
actions are `Request`, `Download`, `Prepare`, `Test`, and `NewDay`. A date is a pair of
month number and day, so that "six months before" is the calendar arithmetic of
`DateOffset`. Cleaning, the split and the reading of statistics are operators
(`CleanRows`, `SplitOutcome`, `MetricsAreReadable`). Each pandas step of the cleaning is
what it is in the code, a boolean mask (`Masked`: the rows at the places kept, in the
order they have) or a reordering (`Listed`: each row at the number of places that do not
come after it), so that none needs recursion; `held` is history: the latest date
and the cutoff of the newest split. StrategyLab's `market` step is the same download and split.

**StrategyLanguage** is the part of Python in which a strategy can write its stop: what
an expression is worth (`Eval`), what a statement does (`Run`), with loops, conditions,
rebinding, class and instance attributes, and exceptions. **TrailingContract** is
`analyze_contract`: `Expand` replaces an alias by what it stood for when it was
assigned, `Constants` decides which parameters are constants, `NextSetsStop` reads the
statements of `next` in order. The specification is **TrailingStop**: it judges a strategy
and then executes it, bar by bar with a price chosen at each, so that the analysis is
judged by what happens. What the proof of a stop reads of the program (`Proven`), whether
the program loads (`IsLoaded`) and what one call of `next` does to the stop (`StopAfter`)
are operator constants there, to which the configuration gives TrailingContract's
definitions, so that the specification can be reasoned about without their recursion over
syntax. StrategyNumbers holds the scaled decimals both sides compute with.
**ApiVisitor** is the walk of the same analysis that limits what a class may use. The
class is a listing, its statements in the order of the text, of which only the paths
count (loads, conditions, calls, stores, deletions); a loop or a function opens a block
and an `End` closes it, so that the walk is a sequence of steps: `VisitStatement`,
`EnterBlock` (`visit_For`, `visit_FunctionDef`), `LeaveBlock`, which restores what the
recursion of the code restores when it returns. A listing without a finding runs:
`RunStatement` executes any statement of it, in any order and as often as it likes, which
covers every branch, every number of turns of a loop, every call of a function and every
alias these leave behind, on the objects backtesting.py hands out (`Kind`). The visitor
compares paths as they are written, and knows the strategy as `self`; a class may also reach
it as `super()`, by the name of its class or by another name for a method's first parameter.
Paths that start so begin with one of `OtherSelves` and reach the same objects (`Root`).
TrailingStop takes the steps of the visit before `AnalyzeContract` and those of the run after it.

**SecurityBindings** models `_Bindings` and `SecurityVisitor`. `Collect` is the walk
that yields places, seeds, facts and calls in order. What an expression stands for under
given bindings is **SecurityOrigins**: lookup, attributes, results of calls, the passing
of arguments (`Supply`). `origins` calls itself on the parts of an expression;
`OriginsOf` is one level of it, with the values of the parts as a parameter, and
MCSecurityBindings gives the constant `Origins` the operator that evaluates the parts by
itself. In this form the definitions can be used in proofs, which a RECURSIVE operator
cannot. The iteration is **BindingLoop**: `ApplyFact` for one assignment, `BeginCall`,
`SupplyArguments`, `EndCall` for one call, `EndRound`, `Read`. SecurityBindings extends it
with the program and the report, and says what the loop should end with (`Closed`, computed
without an order). The sets of origins are live objects in the code, and `Shared`
says which expressions hand out the live one: `callees` is iterated while arguments are
supplied, and when the live set has grown the next step of the iteration raises.
`Compound` stands for every statement that holds statements or reads without binding:
loops, `with`, `if`, `while`, `try`, augmented assignment, decorators. `Annotation` is what
the first walk passes over and the second reads, with the scope the first one ended in.

**Deployment** is one run on the clocks of app, proxy and backend, in minutes. The
backend is stages with limits. **RepairRounds** refines that backend: a source is a
record of what the validators read of it (a fence, whether it parses, its imports,
forbidden calls, class, shifts, contract misuses, whether its stop is proven, how it
fails in the sandbox). `Validate` is the pipeline with its skipped steps after a syntax
error; `BuildRepairContext` decides what the model is told, and `Repaired` is a model
that does exactly that, beside models that send something else. `draft` and `obedient`
are history. `Layers` measures a version by its faults; `IsSource` says what any source
is, for the proofs.

Three modules were compared with the program by executing both. `SecurityBindings`: the
2 625 programs of `MCSecurityBindings`, printed as Python and given to the real
validator with the run's name sets and depth, get the same reports, and the 64 programs
for which the model reaches `RuntimeError` are the ones for which Python raises it.
`TrailingContract`: 8 274 pairs of a program and a prompt get the same verdict from the
real `analyze_contract`. `ApiVisitor`: the 686 classes of `MCTrailingContract` get the same
findings.

## 3. Runs

| Run | Asks | Bounds |
|---|---|---|
| `nvidia_client` | Fallback, bound, release, cause, termination | two models, one retry, budget of 3 ticks, back-off of 1 |
| `strategy_lab` | Isolation, trail, response, the report on the runs, refinement, termination | two requests, two versions, one thread, two model names |
| `sandbox_execution` | Protocol, blame, grace, orphans, refinement of SandboxJob (with termination) | timeout and grace of 2 ticks, clock to 5, seven chains |
| `sandbox_budget` | Does the timer bound the strategy? (violated) | as above |
| `mobile_controller` | Screen data, latest answer, live request, agreement with the server, termination | three runs or cancellations, four prompts under limits of two and three |
| `market_data` | Cleaning, split, unfinished bars, movement of the cutoff | all tables of up to four rows from a pool; three days around the end of August; two test bars |
| `trailing_contract` | Does an accepted strategy trail as asked, and use only the supported API? Is the canonical loop accepted? | 1 981 strategies (686 of them classes for the visitor), three prices, three bars |
| `trailing_nested` | The same with parameters rebound in compound statements (violated) | as above |
| `security_bindings` | Fixed point, depth of origins, termination | 2 625 programs of up to four statements, origins of up to two dots, an import of three |
| `security_iteration` | Does the analysis get through every program? (violated) | as above |
| `deployment` | Bound on the backend, clean code, wasted repairs | three versions, each stage up to one minute, thirty first sources, two findings in a context |
| `deployment_deadline` | Does the app wait for a run within its limits? (violated) | the configured minutes: three per version at the provider |

Why the bounds suffice. *nvidia_client*: a leg has a first, a middle and a last tick, a
back-off that fits in the budget and one that runs into its end, a retry that is
allowed and one that is not; more retries repeat the same steps (`config.py` allows 0
or 1). *strategy_lab*: two requests on one thread queue and overtake each other; two
versions give a repair and an exhausted limit. The proofs cover all larger values.
*sandbox_execution*: with two ticks each, a strategy can start within or after the
grace, and end before, at or after its timer; `Horizon` is one tick past the host's
limit, where the host acts without fail. *mobile_controller*: three numbers let a
cancelled run, a newer run and its late answers coexist; the prompts are one that is too
short, one that only the app accepts (one character of two units), one both accept and
one that is too long, the amounts one that parses and that JSON cannot carry. *market_data*: four rows give a
duplicate, an incomplete one and one on each side of a cutoff; the days are those where
six months earlier has fewer days. *trailing_contract*: a stop is set at the entry,
kept and raised, so three bars show a second write undone and a factor that moves;
every way to bind a name that the analysis distinguishes occurs, with every place of
use. *security_bindings*: two dots let a cycle of attributes grow and meet the limit
(eight in the code); four statements let a binding come after its use and through two
functions, and a compound statement stand at each place among them. *deployment*: three versions and contexts of two findings make it possible
both to finish in time and to run out, within one layer and across layers; a fault of
each kind occurs alone, together with an unproven stop, and in threes. The counting
bounds that are part of a model are named: `MaxRequests`, `Horizon`, `MaxBars`.

Deadlock is checked for the provider client, which can always be used again. The other
systems stop: when each request is answered, when the execution has returned and its
container is gone, when the app is disposed, when the days or bars are over, when an
analysis is done.

### Findings

* `sandbox_budget` - the documented limit on a strategy's own running time
  (`backend/docs/strategy_lab_backend_hardening_obsidian.md:371-373`: the cold-start
  grace gives generated code no extra running time, the limit inside the worker is still
  10 seconds). The shortest trace is a C call: the strategy starts and time passes, three
  ticks for a budget of two, with the alarm due all along. The other way is
  `AlarmSwallowed`, then `Tick`: the one alarm is an ordinary exception raised in the
  strategy's frames, and a handler there that catches it lets the strategy run on. Both
  end with the host's limit of timeout plus grace.
* `trailing_nested` - a class parameter bound again inside an `if`, `for`, `with` or
  `try` of the class body still counts as a constant (`strategy_contract.py:298-300`), so
  the proof of the stop uses the first value and the strategy trails at the second.
  Executing the validators on such a strategy confirms that all of them accept it.
* `security_iteration` - `for function in origins(call.func)` iterates a live set that
  its body may enlarge (`security_validator.py:88-97`); a function passed to itself makes
  the analysis raise instead of reaching the fixed point its docstring announces.
* `deployment_deadline` - `nvidia-provider.md:58-62` demands that a client's deadline
  covers the full synchronous request; three versions at their budgets take longer than
  the app's five minutes.

Observations that no property states. A prompt with a trailing stop but without one
clear percentage can never be satisfied: the finding is about the request, so the model
spends all its versions on it (`GivenUpForItsLayers` excludes such prompts). For a
source that does not parse under such a prompt, the failure type names the syntax while
the context names only the percentage. `docs/architecture.md:69` and the hardening note
give earlier values of `schema_version`, which is 3 on both sides. The visitor follows
the names a loop binds: a loop whose target is an attribute or a subscript
(`for self.t in self.trades`) is accepted, and any member of a trade may then be used
through it, which the message at `strategy_contract.py:34` forbids; `AcceptedUsesApi`
is stated of loops that bind names (`BindsNames`). The rules for `sell`, `closed_trades`
and `orders` compare with `self.sell` and the like (`strategy_contract.py:138,144`), so that
`super().sell()`, `super().orders`, `Strategy.closed_trades`, or `me.sell()` in a method
whose first parameter is `me`, are accepted, although "never self.sell()" (`strategy_contract.py:35`) means
what they do. `AcceptedUsesApi` says what holds then:
position, open trades and private members stay protected by every name, nothing protected
is assigned, and only a class that writes such a name gets at the rest of the strategy.
The reliability report names a
lack of market data after a repair by the version that was repaired, because that is
the last failure its observer saw.

## 4. Fairness

* NvidiaClient: timers and ready tasks of the event loop (`Loop`, `Leave`). Nothing
  makes the provider answer; the deadline alone gives `Completes`.
* StrategyLab: ready coroutines run, idle threads take queued jobs, and jobs end. The
  last is what `SandboxExecution!ImplementsSandboxJob` (the weak fairness of SandboxJob's
  `Answer`) and the download's timeout provide, and a completion ends by
  `NvidiaClient!Completes`.
* SandboxExecution: the host thread and time. No fairness of the daemon, the container
  or the strategy, whose C call may last for ever and keep the alarm waiting: the job is
  answered if they hang.
* MobileController: the HTTP client times out, and continuations and frames run. None
  of the user.
* SecurityBindings: the analysis is one synchronous call, so its next step happens
  (weak fairness of `Next`). MarketData, TrailingContract, Deployment and RepairRounds
  state no liveness and assume no fairness.

## 5. Proofs

| Module | Theorems |
|---|---|
| NvidiaClientProofs | TypeCorrect, FallbackOnlyWhenJustified, CompletionBounded, ClientAlwaysReleased, OutcomeIsCause, CompletionsMakeProgress |
| StrategyLabProofs | TypeCorrect, HeldOutIsIsolated, TrailIsJustified, ResponsesDescribeFrozen, ReportsNameStages, NoRunIsStranded, RunsMakeProgress, ServiceImplementsProtocol |
| MobileControllerProofs | TypeCorrect, ScreensHaveData, LatestRunIsShown, LiveRequestIsReachable, PeersAlwaysAgree |
| SandboxExecutionProofs | TypeCorrect, WorkerAlwaysSpeaksProtocol, BlameIsAlwaysEarned, GraceAlwaysCoversStart, OrphansAreExplained, LateAnswersAreTimeouts, ExecutionImplementsJob |
| RepairRoundsProofs | BackendIsBounded, AppTimesOutFirst, DeadlineCoversShortRuns, RoundsImplementDeployment, RoundsAreBounded, OnlyCleanCodeIsRun, NoRepairIsWasted |
| MarketDataProofs | CutoffIsDate, CutoffMonotone, CleaningIsExact, SplitIsACut, SplitMeetsTable, TypeCorrect, EveryDayKeepsItsBar, SplitAlwaysExact, OnlyTheCleanerRejects, TodayIsNeverUsed, CutoffNeverGoesBack |
| ContractProofs | AcceptedKeepsToApi, AcceptedStrategyKeepsToApi, AcceptedStopTrails |
| BindingLoopProofs | MoreFromMore, OriginsStayShort, LeastBindingsReported, LeastIsUnique, LeastExists, FixedPointIsReached, NothingIsInvented, AnalysisMakesProgress |

Most rest on one inductive invariant `IInv`, proved by a lemma per action:

* **NvidiaClient** (`SettingsAssumption`: a primary model, natural numbers, a positive
  budget). `TypeOK` and the properties do not carry themselves: the bound on `calls`
  needs to know which leg is running and that `calls` counts exactly its attempts
  (`Usage`); the fallback property needs what the primary leg ended with (`LegShape`);
  the release property needs who opened the context (`ContextShape`).
  `CompletionsMakeProgress` is the half of `Completes` that no fairness gives: a measure
  (`StepsLeft`: the legs still to come, the ticks of this one, its retries) that every
  step inside a completion lowers, for every deadline and every number of retries. The
  other half, that a timer or the event loop always has a step to take, stays with TLC.
* **StrategyLab** (`LabAssumption`: positive numbers of versions and threads, 0 is no
  model). For each request `Progress` ties the label to the frozen version and the held
  data, `Trail` says why each version was given up, `Answers` what a response may hold,
  `Waiting` that a coroutine waits exactly while its job exists; `QueueShape` is needed
  so that starting the head of the queue disturbs no other request. A step of one
  request leaves the other requests' part unchanged (lemma `Frame`). The report
  (`RunsAssumption`: finitely many runs) needs `Causes`: a status comes of its error, an
  error before the held-out data leaves nothing scored, and only a run with held-out
  data can end in its error; the gate's bound on repairs is a counting lemma
  (`GateBoundsRepairs`). Two theorems are the safety half of `EveryRunAnswered`:
  `NoRunIsStranded` (with `PoolInv`: never more running jobs than threads, and the queue
  forgets no job) says that each accepted request that is not answered has a step to take
  or a job that has, and `RunsMakeProgress` that each step of the system brings exactly
  one request nearer to its answer, at most `5 * MaxVersions + 8` steps away, and sets no
  other back.
  `ServiceImplementsProtocol` is the refinement: initial states map to initial states and,
  under `IInv`, each action maps to one action of FrozenEvaluation or to a stutter.
* **MobileController** (`RequestAssumption`: a positive bound on requests). The four
  invariants are inductive together once requests are numbered in order, the token is
  that of the latest, and runs need capabilities. `PeersAgree` adds `ProtocolAssumption`
  (a non-empty range of lengths, one or two UTF-16 units per character): a draft the
  app lets through fits every rule of the schema except when its characters count
  twice, and can be encoded unless its cash is infinite.
* **SandboxExecution** (`ExecutionAssumption`, `NoValueAssumption`, `MetricsAssumption`).
  The properties speak of the end, the invariant of the way there: `DockerInv` ties the
  container's life to the CLI's and to the removal, `WorkerInv` the strategy's time to
  the clock, `MessageInv` the message to how far the worker came, `ResultInv` the host's
  result to both. `ExecutionImplementsJob` is the safety part of the refinement:
  `ReplyInv` says that the service knows each reply and that one held against the
  strategy comes after the strategy's start. The run `sandbox_budget` refutes
  `StrategyWithinBudget`; `LateAnswersAreTimeouts` proves what is left of the budget: a
  strategy past it that did not catch the alarm itself is never answered as a success, and
  brings about no message but `STRATEGY_TIMEOUT` (`LateInv`). `GraceAlwaysCoversStart` needs
  nothing of the alarm either: it compares the host's clock with the strategy's time.
* **Deployment** (`DeploymentAssumption`: natural limits, at least one version). The
  bound on `total` is not inductive: one needs what the finished versions and stages can
  have used (`IInv` states it as a sum over the versions so far) and that the current
  stage is within its limit. That the proxy never fires needs that the app stops waiting
  at its own limit, which is the smaller. `DeadlineCoversShortRuns` says what the finding
  of `deployment_deadline` is due to: with limits whose sum is below the app's timer,
  `DeadlineCoversRun` holds. It needs that the clocks of the two ends agree while both
  wait (`ClocksAgree`).
* **RepairRounds**: every step is a step of Deployment on the variables they share, so
  the bounds carry over (`RoundsImplementDeployment`). `OnlyCleanCodeRuns` is inductive
  because of one lemma: a verdict without complaint means a clean program (`ValidIsClean`),
  for every record a source may be. `NoRepairIsWasted` holds for any number of findings,
  versions and identifiers (`FindingsAssumption`, `IdentifiersAssumption`,
  `NoneAssumption`, `SourcesAssumption`). Its measure is the number of context-sized
  layers of faults left: while the model obeys, `Layers` of the current source plus the
  repairs spent does not exceed `Layers` of the first one (`RoundsInv`). A context that
  is full takes its whole size from one layer, one that is not full empties the layer;
  that a layer then shrinks by one is arithmetic of quotients, and there is one repair
  lemma for each kind of layer.
* **MarketData** (`MarketAssumption`: at least one test bar is asked for;
  `DaysAssumption`: requests arrive on dates of the calendar; `FramesAssumption`: a frame
  is any sequence of rows, each with a date or none and five numbers or gaps). All five
  invariants and the action property hold for every table and every sequence of days.
  The argument has two halves. The lemmas on tables say what a step of the cleaning does
  to any table: `Masked` and `Listed` put each kept row at one place (a counting argument
  with the bijections of the library, because a place is the cardinality of a set of
  places), so a clean table is followed back, place by place, to the rows received
  (`CleaningIsExact`), and a table in the order of the days is cut at one place
  (`SplitIsACut`, `SplitMeetsTable`). Then the inductive invariant carries them through a
  request: `FrameIsPast` (what was downloaded has only days before the request's),
  `RowsAreClean` (the prepared table is a clean one of it), `AnswersFit` and `HeldFits`
  (the recorded cutoff is that of the recorded latest date). `CutoffNeverGoesBack` is then
  `CutoffMonotone`: with months of 28 to 31 days the clamped date six months before still
  preserves order, leap years included.

* **BindingLoop**: the theorems hold for every tree a walk may collect (`EvaluatesSyntax`):
  lists are lists, facts bind places of the tree (`TreesAreWhole`), the parts of an
  expression are smaller than it (`IsSyntax`, with any natural number as its height), and
  `Origins` evaluates the parts by itself. TLC evaluates what this says of trees
  (`SyntaxAssumption` in MCSecurityBindings) for the trees of all programs of the two
  security runs. That an evaluation yields origins, and that more bindings never take one
  away, is a theorem (`MoreFromMore`): induction over the height of an expression, as an
  argument about a least counterexample, because the induction theorems of the library
  cannot be used here. The lemmas under it say it of one step each: attributes (`Member`,
  which is where the limit on dots is needed), results, lookups, and the passing of
  arguments one after the other, each under what the last one left.
  `OriginsStayShort` is `TypeOK` of the run: no cycle of assignments makes an origin longer
  than the limit. An import is as long as it is written (`Imported`; `visit_Import` has no
  limit), so an origin that is longer is one of the imports, and an attribute of it is
  `TooDeep` (`MemberIsShort`). The invariant of the loop has two sides. `NothingTooMuch`: the bindings
  are below every closed environment, and so are the callees of the call at hand, a set
  computed before the bindings grew. `PassedHolds`: as long as nothing changed in this round, each
  fact and call already passed holds under the bindings, which at the end of such a round
  is all of them. So what is reported is the least closed environment
  (`LeastBindingsReported`), of which there is one (`LeastIsUnique`) and always one
  (`LeastExists`: the meet of all closed environments is closed, because what is found
  under it is found under each). `FixedPointIsReached` is then the run's property for all
  programs, with any `Solution` that yields least closed bindings. `NothingIsInvented` adds that an iteration that fails (the finding
  `security_iteration`) has not gone too far. `AnalysisMakesProgress` is the safety half of
  `AnalysisEnds`, for finitely many names, places and imports (`IsFiniteAnalysis`; that there are then
  finitely many origins is a lemma, by the limit on dots): the measure is twice the room the
  bindings have left, since each change costs one more round, times the length of a round.

* **ContractProofs**, the API: `AcceptedUsesApi` for every class, of any length and nesting, and every
  set of private names and of other names of the strategy (nothing is assumed of them but that `self`
  is not among the latter). What a class reaches by another name is held to less
  (`Supported`), so that the theorem is exact about what passes. The property itself carries nothing: what
  a statement touches depends on what all earlier ones bound, in an order nobody knows. The
  invariant has one part for each side. `Examined`: for each statement passed there is a state
  of the visitor, with the trade names of this class, in which it found nothing beyond
  `findings`; `RunIsSound`: when the strategy runs, `self` is bound to nothing else and a path
  holds nothing of interest, except that a loop's name may hold a trade, or a path what was
  reached by another name. Two lemmas join them.
  `PathSupported`: a path without a finding touches only the API, in every sound environment;
  the case that matters is a name that may hold a trade, which is refused outside its loop
  (`LostTrade`) and may be followed by two attributes in it. `StatementIsSafe`: a statement
  without a finding leaves the environment sound, because no whole path that holds an object
  passes as a value (`WholeUse`). Neither needs to know when the statement runs.
  `AcceptedKeepsToApi` says it of the visitor alone, `AcceptedStrategyKeepsToApi` of the
  whole contract, whose steps stutter for the visitor or are its own.
* **ContractProofs**, the stop: `StopIsRequested` for any number of bars, any prices and any
  programs of which a proof of the stop means what it is trusted to mean
  (`ProofsSetStops`): one call of `next` raises an open trade's stop, or the entry's if it
  has none, to the last high's, or raises an exception. The theorem is what follows
  over a whole trade. The property is not inductive, because it says nothing of the bar
  before the first that sees the trade and nothing of trades opened later: `StopInv` says
  which stop each phase of a trade has, that `first` is a bar of this run or the next one,
  and that an accepted prompt has one percentage at most. The step needs that rounding down
  at each bar loses nothing against rounding once at the end: lowering a price by a
  percentage keeps the order of prices (`ScaledIsMonotone`), so the greater of two stops is
  the stop of the greater price. `ProofsSetStops` itself speaks of expressions of any depth;
  TLC evaluates it (`ProvenAssumption` in MCTrailingContract) for the 1 981 strategies of
  the run, all its prompts, and every stop and series of up to two bars its prices give. With
  parameters rebound in compound statements it fails: that is the finding of
  `trailing_nested`.

What stays with TLC, and why:

* liveness (`Completes`, `EveryRunAnswered`, `EveryRunSettles`, `AnalysisEnds`) and the
  fairness part of `ImplementsSandboxJob`: the provers do not reach ENABLED;
* the temporal parts of refinements, for the same reason;
* `CanonicalAccepted` and the hypothesis `ProofsSetStops` of `AcceptedStopTrails`: they
  speak of what RECURSIVE operators read in a program;
* that `Solution` of the security runs, `Closed` of SecurityBindings, is the least closed
  environment: it is computed by recursion. The run compares it with the loop's result.

## 6. Not modelled, and why

Rendering, texts, logging and JSON layout carry no property. The validators' verdict on
a source text is a choice of the environment in StrategyLab; RepairRounds says what it
is. A second cancellation while the SDK client is closing is left out: its outcome is
inside the SDK. An exit status of 137 is in SandboxExecution the memory limit's kill;
a SIGKILL from outside (an operator's `docker kill`) has the same status and would be
reported as the strategy's use of resources (`docker_executor.py:153`). `yfinance` keeps shared state between threads; its effect is not
observable at this boundary. Of the contract analysis the regular expressions of
`parse_requirements` are left out. TrailingContract leaves out the nesting limit of 20 and an alias
carried from one trade to the next, which one open trade at a time (`exclusive_orders`)
never shows. In RepairRounds the order of findings is a choice of which ones a full
context names. The regular expressions that read a prompt are the three kinds of prompt.
How a text becomes a number is Dart's. The answer of `loadCapabilities` after the
controller's disposal (`strategy_lab_controller.dart:49`) has no property: what it does
depends on the framework's assertions. The scripts other than the reliability matrix,
and the QA drivers, drive these parts and print. Numbers of MarketData are small
integers: NaN, missing and unreadable values are marks.

## 7. Plan

Done, the core first: NvidiaClient, StrategyLab with FrozenEvaluation, SandboxProtocol
and SandboxExecution, MobileController, their proofs; then MarketData, TrailingContract,
SecurityBindings, Deployment, RepairRounds, and the proofs about three of them; then
SandboxJob with SandboxReplies, through which StrategyLab and SandboxExecution meet, and
SandboxExecutionProofs; AppProtocol for both directions between app and server;
ApiVisitor; ReliabilityMatrix; the remaining syntax of SecurityBindings; the proof of
`GivenUpForItsLayers`; the proofs of all of MarketData; the measures of
progress; BindingLoop with its proofs; the class-body rules of the visitor, and its proof;
SecurityOrigins, with the monotonicity of evaluation proved; TrailingStop, with the proof of
the stop over a trade.

Left, in order of weight:

1. the evidence log of the hardening script, which counts the provider's attempts, as a
   view of NvidiaClient like ReliabilityMatrix is of StrategyLab;
2. the parsing of capabilities in AppProtocol.
