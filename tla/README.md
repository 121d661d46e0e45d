# A verification of the NVIDIA multi-agent builder

TLA+ modules that model the parts of this repository that keep state and run
concurrently, TLC configurations that check them on small instances, and TLAPS
proofs of their main properties for every value of the constants. Paths below
are relative to the root of the repository.

## The system

A user creates a project through a FastAPI application and starts it. A run of
a project asks a planner agent for a plan, eleven specialist agents for their
contributions, at most `max_parallel_agents` at one time, and a reviewer for a
review of it all. Each agent call goes to NVIDIA's API through a route of models
that is reordered by what is known of their health. Beside this path, the
repository holds a second, task-graph based orchestration stack, a synchronous
orchestrator with repairs, a shared workspace of files, and a runner of tests over a
sandbox; none of the four has a caller outside the tests yet.

| Component | Source | State | Operations | Module |
|---|---|---|---|---|
| Project run | `app/api/projects.py`, `app/project_store.py`, `app/project_execution.py`, `app/checkpoints.py`, `app/orchestrator/__init__.py` | projects and their status; checkpoints; the coroutine of each start request; the orchestrator's semaphore | create, start, the agent calls and their ends, gather | `ProjectExecution`, promising `ResumableProject` |
| Agent execution and model routing | `app/execution.py`, `app/model_health.py`, `app/sqlite_model_health_store.py`, `app/model_registry.py` | health of each model, in memory and in SQLite; candidates left to each execution | execute, order_candidates, record_success, record_failure, save, load | `ModelRouting` |
| Performance controller | `app/performance.py` | a semaphore, counters, the cache of results | run, cached, get, put | `OperationCache`; run also in `ModelRouting` |
| Workspace | `app/workspace.py` | files with revisions, locks | acquire, release, read, write, delete | `Workspace` |
| Repair orchestrator | `src/orchestrator.py` | status and attempts of each task | the check of the graph, ready_tasks, mark_*, request_repair, run_ready | `RepairOrchestrator`, `CycleCheck` |
| Task scheduler | `app/orchestrator/scheduler.py`, `graph.py`, `context.py`, `bootstrap.py`, `app/events/bus.py`, `app/memory/project.py` | the graph, status of each task, semaphore, history of events, project memory | add, run_ready, publish, append, ready | `TaskScheduler`, `CycleCheck` |
| Agent executor, retries | `app/agents/`, `app/orchestrator/retry.py` | the call that is under way | execute, with_backoff | `AgentCall`, promising `AwaitedCall` |
| NVIDIA provider | `app/providers/` | the attempts of a call | complete, stream, list_models | complete in `AgentCall` |
| Capability router | `app/models/` | the profiles of the models | register, candidates, select | `AgentCall` |
| Test runner, sandbox | `app/testing.py`, `app/sandbox.py` | the cases of a suite that is running, its semaphore | run_case, run_suite, validate, run | `TestSuite` |
| Security review | `app/security_review.py` | none | a scan of text | not modelled: a pure function |
| Catalogues, settings, schemas, entry point | `app/agent_catalog.py`, `app/sound_engineer.py`, `app/core/config.py`, `app/schemas/`, `app/main.py` | none | | constants of the modules |
| Earlier stack | `backend/`, `src/model_*.py`, `src/providers/` | none | | not modelled: superseded by `app/` |
| Scripts, SQL schema, frontend | `scripts/`, `database/`, `frontend/` | | | not modelled: manual benchmarks, a schema no code uses, a single static page |

How they interact: the endpoint calls `ProjectExecutionService.start`, which
reads and writes `ProjectStore` and `CheckpointStore` and calls
`MultiAgentOrchestrator.execute`; both call `AgentExecutionService.execute` for
each agent, which calls the provider through `PerformanceController.run` and
reports to `ModelHealthRegistry`. `ProjectExecution` and `ModelRouting` meet at
the agent call: for the former it is an await that ends with a result or an
exception, the latter says when it ends with which. In the same way
`TaskScheduler` takes the call of an agent for an await, and `AgentCall` is shown
to be one (`AwaitedCall`), with the outcomes `TaskScheduler` tells apart. The two
stacks meet in `NvidiaProvider.complete`: `AgentExecutionService` calls it under the
controller and without `with_backoff`, `AgentExecutor` the other way round.
`TaskScheduler` and `RepairOrchestrator` share the search of `CycleCheck`.

What is hard here: one event loop interleaves the runs of several projects at
every await; a run works from a copy of its checkpoint; a failure in one of
thirteen calls must leave the project startable and the other results kept;
permits are taken and given back on many paths; the order of candidates is
fixed before awaits during which health changes; the process may restart while
models cool down; callbacks re-enter the orchestrator they are called from; a
gather that raises leaves its coroutines running; workspace calls act on what
was read some calls ago; two loops of retries are nested and know nothing of each
other; a timer races the answer it waits for; a cache is read before an await and
written after it. `PROJECT.json` lists each of these hazards at its line.

What makes each component correct, in a sentence: a project has one run at a
time, ends startable or complete, never loses or repeats work; a working model
is found if there is one and nobody else is put aside for good; the workspace
never changes under the holder of a lock nor loses an update; tasks run once,
after their dependencies, and are never left without a verdict; a call of an agent
sends a bounded number of requests, gives none of its retries or answers away,
and ends; the cache gives the last result at its true age; a test passes only if
its command was run and exited with 0, and a suite ends in time.

## The modules

Throughout, an action is the code between two awaits (for `Workspace` and
`RepairOrchestrator`, which are synchronous, the code of one call, or between a
call and a callback). Nothing else of the event loop can come in between, so what
an action changes is changed in one step. Definitions keep the names of the
source where they can; `map` in `PROJECT.json` gives the lines of each. The
definitions named `..._Slip` are the source with a plausible mistake in it. They
are in no specification; each shows that a property notices such a mistake.

**ProjectExecution.** `status` and `prompt` are `ProjectStore`, `ckpt` is
`CheckpointStore`; `pc`, `proj`, `snap`, `task` and `outcome` are the coroutine that serves
each open start request: where it waits, for which project, its copy of the
checkpoint, its gathered specialists, the HTTP answer. `permits` is the
semaphore of the one `MultiAgentOrchestrator`, which all projects share. `Start`
has a disjunct for each way the code from the endpoint to the first await may
go. A text is `"text"` or `"blank"`, for all the code asks of a text is whether
`strip()` leaves anything. The copy of a checkpoint is kept apart from the store
as in the code, though the proofs show that they agree where it matters.

**ResumableProject** is the abstract specification: phases and a growing set
of results per project, no requests and no permits. `ProjectExecution`
implements it (`ImplementsPromise`) under the mapping of statuses to phases and
of checkpoints to results.

**ModelRouting.** `health` and `disk` are the registry and the SQLite table. Of
a `ModelHealth` the module keeps the consecutive failures (up to the threshold),
the average latency and the remaining cooldown: what `state` and the sort key
look at. The counters of successes and failures weigh the average only; its new
value is any between the old one and the measurement. `cooldown_until` is a time
left, which `Tick` counts down in both stores, since a restart does not stop the
clock. A model without a record is one without history. `Restart` is a crash at
any point: every execution dies, the table is loaded. `unsaved` is not in the
code: it is the set of models for which the last save raised (`StoreFails` says
whether one may).

**Workspace.** Every method runs under one `threading.Lock`, so a call is a
step; a call that raises changes nothing and is a stuttering step. `view` and
`current` are what the tasks know from their calls, and `deleted`, which is not in
the code either, the files ever deleted. The content of a write is
its number, so that equal contents are the same write. Normalisation of paths is
a function given by the constant `Normalized`; the model instance has two
spellings of one file and one path that is refused.

**RepairOrchestrator.** `current` and `wave` are the position of `run_ready` in
its list. While a callback runs, any other method may be called, for the agent
it talks to can reach the orchestrator. `Refreshed` is the side effect of
`ready_tasks`, which also happens when `mark_running` then raises. Status
`REVIEWING` and `TESTING` are left out since nothing assigns them. `repairs` is
not in the code: it counts what `request_repair` has granted.

**TaskScheduler.** `pc[k][t]` is where the `_run` of task `t` that round `k` made
is. `log` is `EventBus.history` for each task, `memory` the tasks whose results
are in `ProjectMemory`. The awaits are the wait for a permit, the handlers of
each of the three events, and the agent. `HandlersRaise` and `StrayErrors` say
whether handlers raise and whether agents raise what `SCHEDULER_FAILURES` does not
name. The graph grows by `Add`, also between and during rounds; a dependency may
name a task that is added later or never.

**CycleCheck** is the depth-first search both orchestrators use, as a recursive
function (`Search`) of the tasks being visited, those visited and those to do,
beside what it is for (`Acyclic`). `Visit` is one call of `visit` with what its loop
goes on to. The search is part of the actions; that it finds what it is for is
an invariant of the graphs that come out of it, and a theorem about all others.

**AgentCall.** One call of `AgentExecutor.execute` after the other, and the registry
it chooses from, which may change at any time. `round` is the attempt of
`with_backoff`, `attempt` that of `complete`; `pc` is the await: a request, the sleep of
the one loop or that of the other. Every reply is one of an answer, a failure for
now (a timeout, 429, 5xx), a refusal (another status, or a reply that is no
completion) and an exception no handler names. `waited` and `tally` are not in
the code: they sum the sleeps up and count the requests by what they brought.

**AwaitedCall** is what the callers take such a call for. `AgentCall` implements it
with `pending` as "not idle" and `result` as the outcome.

**OperationCache.** `entries` is the `OrderedDict`; an entry's age is counted by `Tick`
up to its time to live. An operation returns a result or `None`, which `get` cannot
tell from no result. `Run` is the controller without the cache, as
`AgentExecutionService` uses it. Cancellation is modelled here, for `run` tells it
from failures. `stored`, `recency`, `calls` and `cancelled` are not in the code: the
last result of each key and its age, the keys in the order of use, and how many
calls there were.

**TestSuite.** One call of `run_suite`, for calls share nothing but a backend: any
cases, any `max_parallel`. `verdict` is the result of each case. What the backend
does is nondeterministic: it answers in time, or after it was cancelled, raises,
ends by the cancellation, or raises `CancelledError` before its timer, which leaves
`run_case`'s `except Exception`, and the gather, without a result (`Escape`). Time is in ticks; all that is due happens before the next
one. `reply`, `spent` and `age` are the history: how the backend ended each
command, the time it took, and that of the suite.

The `MC...` modules add the symmetry sets and model values for TLC.
`RepairOrchestrator`, `OperationCache` and `TestSuite` are run as they are. The `...Proofs` modules hold the theorems.

## What is model-checked

| Run | Instance | Shows |
|---|---|---|
| `project` | 2 projects, 3 requests, 3 specialists, 2 permits, blank prompts and plans | `OneRunPerProject`, `StatusTellsTheRun`, `NoRepeatedWork`, `ReviewerSeesEverySpecialist`, `CompletedIsWhole`, and that it implements `ResumableProject` |
| `project_liveness` | 2 projects, 2 requests, 2 specialists, 1 permit, texts that are not blank | every start request ends (`RunsEnd`); a project that is started again after failures completes (`RetriedProjectCompletes`) |
| `workspace` | 3 tasks, 2 files, 4 spellings, 3 writes | `LockedViewIsCurrent`, and until a file is deleted `NoLostUpdateUnlessDeleted` |
| `routing` | 2 executions, 2 models (1 reliable), a route of both and one of the unreliable model alone, threshold 2, cooldown 2, 2 latencies, 1 permit, a store that may raise | `AWorkingModelIsFound`, `CooldownIsEarned`, `HealthSurvivesRestart`, `ActiveIsBounded`, `ExecutionsEnd`, `CooledModelsComeBack` |
| `repair` | 3 tasks, all graphs, 2 repairs | `DependenciesFirst`, `RunOnce`, `CompletedIsFinal`, `ReleasedTasksAreStarted`, `NobodyWaitsInVain` |
| `scheduler` | 3 tasks, added in any order with any dependencies, 3 overlapping rounds, 2 permits, everything may raise | `OnlyCyclesAreRefused`, `ContextHasDependencies`, `VerdictsAreRecorded`, `RunOnce`, `RoundsEnd` |
| `agent_call` | 2 models, 1 capability, 2 classes, 2 retries of `complete` in 1 of `with_backoff`, headers below zero and above the limit | `RequestsAreBounded`, `RetriesAreUsed`, `NoAnswerIsWasted`, `WaitingIsBounded`, `TheBestFitIsAsked`, `ImplementsAwait` |
| `cache` | 2 callers, 3 keys, 2 entries, time to live 2, 1 permit, 4 calls | `EntriesAreLastResults`, `ForgottenOnlyWhenFull`, `CountersAddUp`, `CallsEnd` |
| `suite` | up to 3 cases of 12 kinds, `max_parallel` 0 to 2, timeouts up to 3 with 2 allowed, grace 1 | `VerdictsAreEarned`, `SuiteTellsAll`, `TimeIsBounded`, `CasesEnd` |

The runs spend their time on the properties that relate several steps or actors.
What every configuration satisfies by a proof, for all values of the constants,
is not checked again on an instance: `TypeOK` of each module, that permits are conserved
(`PermitsConserved` and `ParallelismIsBounded`, `LimitIsKept` and the like; `routing` checks
`ActiveIsBounded` as a representative, and `CountersAddUp` of `cache` that `active` is
not left behind), `Inv`, `ResultsAreKept` and
`OnlyTheRunMovesItsProject` of `ProjectExecution`, `RevisionsIdentifyContents` of `Workspace`,
and `CacheIsBounded` of `OperationCache`.

Why these sizes are enough for the interesting cases to happen: two projects
and three requests give a race on one project while another project holds the
permits; three specialists with two permits make one wait, and let one fail with
others done, in flight and waiting. Two executions over two models, for one of
which a working model is behind the failing one and for the other nothing, give concurrent updates of the same model's health, a chain that is older
than the health it was made from, cooldowns of part of a route, and restarts at any of
these points. Three tasks hold every shape of dependency that
matters to `ready` (a chain, a fork, a join); three rounds are as many as a chain
of three needs, and let two abandoned rounds run on beside a third. Every way
to build a graph of them is tried, with rounds that begin in those graphs whose
dependencies point to lower numbers and are not all empty (`MCNext`): the others
are the same with the tasks renamed, and the graph of three unrelated tasks has
most of the states and the concurrency of two unrelated tasks and a third one. Three
writes suffice to make a file, delete it, make it again and write it once more.
The counts of failures saturate at the threshold and the granted repairs at one
past the limit; beyond these the code makes no difference. Two retries within one
give each loop a first, a middle or a last attempt, a doubling that goes on and one
that begins anew; the settings' default for the inner loop is two. Two entries for
three keys evict, two callers overlap on one key, and four calls store a key,
use it, and store two others. Three cases under two permits make one wait for
the others, in a second round. Named bounds are `MaxWrites`, `MaxRounds`,
`MaxRequests` of `OperationCache`, `MaxCases`, `MaxParallel` and `Grace` of `TestSuite`;
runs in which rounds, calls or cases come to an end do not check for deadlock.

Symmetry is used for safety only. Constants whose
members are told apart by the configuration (models, paths, the insertion order of tasks) are not symmetric.

### Where the code does not do what the repository says

Each of these runs checks one property, which is violated; `findings` in
`PROJECT.json` quotes the sentence it is about.

| Run | What happens |
|---|---|
| `project_poisoned` | A blank planner output is checkpointed before it is refused: the project can never be run again (`app/project_execution.py:73`). |
| `workspace_delete` | Revisions start over when a file is deleted and made again, so a conflict goes undetected (`app/workspace.py:114`). |
| `repair_bounded` | Repairs do not count as attempts, so the limit is never reached (`src/orchestrator.py:132`). |

The passing runs show what holds beside them: `RetriedProjectCompletes` when
planners answer with text, `NoLostUpdateUnlessDeleted`, `AWorkingModelIsFound`
(no route is exhausted, though an execution may end with the store's exception),
`VerdictsAreRecorded` of the tasks whose `_run` did not raise.

The models also contain these, without a run of their own (the outcome is an
alternative of the action named, and the properties hold in spite of it):

- An exception of the health store while a failure is recorded ends the execution,
  and the fallback models are not asked (`ProviderRaises`,
  `app/execution.py:73`; `project_execution.py:67` speaks of falling back
  transparently).
- An error `SCHEDULER_FAILURES` does not name leaves the task RUNNING without an
  event (`AgentStrays`, `app/orchestrator/scheduler.py:72`; "Failures are recorded as
  task events", `docs/phase-2.md:28`).
- An error reply whose JSON is not an object makes `_error_detail` raise
  `AttributeError` before its status is looked at, so that a 429 or 503 of this
  form is not tried again (`Strays`, `app/providers/nvidia.py:48`; "bounded retry for
  429/5xx", `docs/phase-8-nvidia-integration.md`).
- A missing API key, and whatever `complete` found not worth trying again, is
  tried again by `with_backoff` (`RoundFails`, `app/orchestrator/retry.py:24`).
- A malformed case, or a `CancelledError` of the backend, makes `run_suite` raise while other cases run on, and their results are
  lost (`Finish`, `app/testing.py:104`).
- Concurrent requests for a key that is not cached all run the operation
  (`Miss`, `app/performance.py:97`).

### Fairness

- Agent calls and provider calls end (weak fairness): an attempt is bounded by
  `request_timeout_seconds`, the attempts by `max_agent_retries`, the candidates
  by the route. An answer and an exception are one fair action, so neither is
  promised.
- A coroutine that waits for an `asyncio.Semaphore` gets a permit if permits
  come free again and again (strong fairness): its waiters are served in order.
- `gather` returns and other runnable coroutines run (weak fairness of the loop).
- Time passes (`Tick`).
- `RepairOrchestrator`: `run_ready` is called again and callbacks end. Nothing
  is assumed of repairs or of the other methods.
- `AgentCall`: a request is answered or times out, whatever the reply, and the
  loop wakes those that sleep. Nobody has to call or to be cancelled.
- `OperationCache`: operations end, and permits as above.
- `TestSuite`: the loop goes on as long as something can (weak fairness of
  `Next`): timers go off, and a backend that is cancelled ends, `Grace` ticks later at
  most. A backend that ignores its cancellation would keep the suite waiting.
- `TaskScheduler`: handlers and agents end, and the loop lets some coroutine go
  on as long as one can (one weak fairness condition for all `_run`s together,
  none for each); nobody has to call `run_ready`.

Nothing is assumed about `Create`, `Start`, `Execute` or `Restart` in `FairSpec`.
`RetriedProjectCompletes` has a premise of its own, `Persistent(p)`: the user starts
the failed project again, and an agent that is called for it again and again
answers at some time. "A failed project can resume" says nothing without it, so
it is part of the property and not of the specification.

## What is proved

All theorems are of `Spec`, hold for every value of the constants the named
assumption of the module allows (finiteness of the sets that are counted,
positive limits, routes that are not empty and repeat no model), and are checked
by TLAPS to the last leaf. TLC evaluates the assumptions on every run.

**ProjectExecutionProofs.** The properties are not inductive: that no project has
two runs depends on the status being busy whenever a run is in flight, on all
paths. `Inv` in `ProjectExecution` says what a coroutine may rely on at each
await: the status of its project, that its copy of the checkpoint was as empty
as the store or that gathered results and the store agree, and that nobody else runs
its project. It is proved inductive with one lemma per action; from it follow
`OneRunPerProject`, `StatusTellsTheRun`, `NoRepeatedWork`,
`ReviewerSeesEverySpecialist`, `CompletedIsWhole` and the action properties
`ResultsAreKept` and `OnlyTheRunMovesItsProject`. `PermitsConserved` needs only
the types, and lemmas on the cardinality of the set of holders; `SomeRunCanGoOn`
draws from it that requests waiting for permits never all wait for each other.
`Refinement` proves that every step is a step or a stutter of `ResumableProject`.
`BlankIsFinal` is what `project_poisoned` shows, for all parameters: a blank prompt
or plan is stored, never replaced, and no project that has one ever runs.

**ModelRoutingProofs.** `Inv` adds to the types that cooldowns are earned in
memory and in the table alike, since a restart moves one into the other.
`WorkingModelFound` rests on `OrderIsPermutation`: the sort key is a strict order
(`BeforeIsStrict`), hence places are distinct and fill 1..n, and the ordered
chain holds each model that is not cooling once. A reliable model never cools, so
it is in the chain, and it stays ahead until it is asked; what the store does
can end the execution but not skip the model. `HealthIsDurable` rests on the table
holding what memory holds of each model that is not in `unsaved`.

**WorkspaceProofs.** `LocksProtect` for any tasks, files and spellings.
`RevisionsCorrect` and `NoUpdateLost` speak of files that have not been deleted;
`workspace_delete` shows that they have to.

**RepairOrchestratorProofs.** One action may settle a task and start another, so
the invariant is stated of any vector of statuses (`Sound`), and lemmas carry it
through settling, refreshing and starting. `SomeoneGoesOn` needs that the graph is
acyclic, which `Init` says of it only as far as the constructor's search is right
about it: its premise, which `SearchIsRight` (below) proves of every finite graph.
`RepairsAreNeverRefused` is the reason for `repair_bounded`: by `RunOnce` attempts
never exceed one.

**TaskSchedulerProofs.** That a dependency's results are in memory is inductive
together with: completed tasks are remembered, and rounds to come have no runs.
Permits are conserved over all overlapping rounds. `StartedAtMostOnce` and
`VerdictsRecorded` follow from a second invariant, `History`, that ties the events of
a task to where its `_run`s are.

`SearchIsRight`: on every finite graph, `HasCycle` is the negation of `Acyclic`. A
recursive function says something only if there is a function that satisfies its
equation, and the induction theorems of the library cannot be used; so both this
and what the search finds are proved by way of a smallest counterexample. A point
of the search has a weight, a number that gets smaller with each task that is put
on the way or taken off the list (`Lighter`). A visit looks at lighter points only
(`VisitLocal`), hence some function does what visits do at points of any weight
(`Walkable`), and the search is that function (`SearchVisits`). `OnTheWay` is what
holds wherever the search gets to: the visited tasks depend on nothing else and
are acyclic, and each task on the way depends on another or on all that is to be
done. From there it tells the truth (`SearchTells`). It follows that `add` refuses the
right tasks (`RefusalsAreRight`), that the graph never has a cycle
(`GraphStaysAcyclic`), and that tasks that wait are waiting for one that failed, is
at work or was never added, if none of them is ready (`ProgressIsPossible`).

**AgentCallProofs.** The tally of a call is tied to the two attempt counters: what a
call has sent in finished rounds is between the number of rounds and that many
times the attempts of one. The bounds follow from it by arithmetic, for any
settings. `WaitingBounded` is such an invariant of the time asleep (`Slept`): what
the rounds so far may have slept, the attempts of this one, and the sleep it is in.
That delays double, and powers of two grow, is proved by counting subsets, for
lack of induction (`Powers`). `Implementation` has the safety part of the refinement: initial states and
steps of `AgentCall` are those of `AwaitedCall`, or stutter.

**OperationCacheProofs.** One invariant for the accounts (permits, active and the
counters, by the cardinalities of the sets of waiting and working callers) and one
for the contents (`Faithful`: keys are distinct, and each entry is the last result
of its key). Each way to change the entries, `Touching`, `Forgetting`, `Putting`, is a
lemma that rests on what removing one entry leaves (`Removed`).

`ForgottenWhenFull` relates two orders, that of use and that of the entries.
`Remembered` says that they agree on the keys in the cache, and of each key that is
not but whose result is young, that as many keys as there is room for were used
since. An entry that makes room for another is the first, so that all others were
used after it (`MakingRoom`); what a use does to the order and to the keys used since
is in lemmas of its own (`Using`, `UseForgets`). `SomeCallCanGoOn` draws from the permits
that waiting callers never all wait for each other.

**TestSuiteProofs.** `Known` says of each case what follows from where it is,
`Gathered` what the gather knows of them; a step moves one case, so that
`OneCase` reduces it to that case and `Finishing` does the same for the gather.

`TimeBounded` is proved by way of `Timed`: as cases take their permits in order
(`InOrder`) and at once, a command that has q times max_parallel or fewer commands up
to and including it has been started when q - 1 rounds of the longest timeout have
passed, and the grace (`Prompt`). Before the clock moves nothing is urgent, so that the
permits a queued case waits for are all held, by cases before it (`Holders`), and the
bound of the tick is that of the round those belong to (`TickTimed`).

## What is only model-checked

- The liveness properties, and so the fairness of the refinements: out of the
  prover's reach.
- The runs of the table of violations: each shows one behaviour.

Every invariant and action property of the passing runs is a theorem as well. Only
`SomeoneGoesOn` has a premise (`HasCycle` is right about the graph): it is
proved in another module, since both modules have variables of the same names.

## What is not modelled

The texts of prompts and tasks, logging, the HTTP schemas, and the components
marked so in the table. Cancellation of a request (whether a client that goes
away cancels the handler is up to the framework): it would leave a project busy for
good, since `except Exception` does not catch it. A restart of the process in
`ProjectExecution`: projects and checkpoints are in memory, so that it leads
back to `Init`. Counters of successes of `ModelHealth`.

Of the provider, `stream` and `list_models` (one request each, no state), the time a
request takes, and a `retry-after` header that reads "nan". Of the sandbox, the
workspace path (a constant in `run`) and the truncation of output. The security
review and the tables (`app/agent_catalog.py`, `app/sound_engineer.py`) are pure
functions of text without history; the earlier stack (`backend/`, `src/model_*.py`,
`src/providers/nvidia.py`) makes a single request for each call, without retries,
concurrency or state; `max_agent_calls` of the settings is enforced nowhere. There is
nothing in them that a state could break.

## Plan

All components that keep state or run concurrently are modelled. What would add
most from here: cancellation of requests in `ProjectExecution`, once the framework's
behaviour is fixed; the composition of `AgentCall` with `ModelRouting`, to bound
the requests of one `AgentExecutionService.execute` over all its candidates; and
refinements for the cache and the workspace (a map with ages, a register for each
path), whose invariants are proved here one by one.
