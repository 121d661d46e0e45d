---------------------------- MODULE TaskScheduler ----------------------------
(***************************************************************************)
(* The asynchronous scheduler of app/orchestrator/scheduler.py over a      *)
(* TaskGraph: run_ready gathers one _run per ready task, and a semaphore   *)
(* lets max_parallel of them work.  Each _run marks its task, publishes    *)
(* events, calls the agent and writes what it decided to ProjectMemory.    *)
(*                                                                         *)
(* gather raises with the first _run that raises and leaves the others     *)
(* running, so that the next run_ready may overlap with what is left.      *)
(***************************************************************************)
EXTENDS Naturals, Sequences, FiniteSets, CycleCheck

CONSTANTS
    Tasks,
    MaxParallel,
    MaxRounds,      \* bound: how often run_ready is called
    HandlersRaise,  \* whether handlers of the event bus may raise
    StrayErrors     \* whether the executor may raise what SCHEDULER_FAILURES misses

ASSUME SchedulerAssumption ==
    /\ IsFiniteSet(Tasks)
    /\ MaxParallel \in Nat \ {0}
    /\ MaxRounds \in Nat
    /\ HandlersRaise \in BOOLEAN
    /\ StrayErrors \in BOOLEAN

VARIABLES
    added,         \* the tasks in the graph
    dependencies,  \* of each of them; they may name tasks not in the graph
    status,
    round,         \* how often run_ready was called
    awaiting,      \* whether its caller waits for the gather
    pc,            \* where the _run of a task that a round made is suspended
    permits,       \* the semaphore
    memory,        \* the tasks whose results are in ProjectMemory
    log            \* of each task, what EventBus.history tells

vars == <<added, dependencies, status, round, awaiting, pc, permits, memory, log>>

Rounds == 1 .. MaxRounds

InProgress == {"starting", "executing", "completing", "failing"}

Places == {"none", "queued", "ended", "raised"} \cup InProgress

TypeOK ==
    /\ added \in SUBSET Tasks
    /\ dependencies \in [Tasks -> SUBSET Tasks]
    /\ status \in [Tasks -> {"pending", "running", "completed", "failed"}]
    /\ round \in 0 .. MaxRounds
    /\ awaiting \in BOOLEAN
    /\ pc \in [Rounds -> [Tasks -> Places]]
    /\ permits \in 0 .. MaxParallel
    /\ memory \in SUBSET Tasks
    /\ log \in [Tasks -> Seq({"AGENT_STARTED", "TASK_COMPLETED", "TASK_FAILED"})]

Init ==
    /\ added = {}
    /\ dependencies = [t \in Tasks |-> {}]
    /\ status = [t \in Tasks |-> "pending"]
    /\ round = 0
    /\ awaiting = FALSE
    /\ pc = [k \in Rounds |-> [t \in Tasks |-> "none"]]
    /\ permits = MaxParallel
    /\ memory = {}
    /\ log = [t \in Tasks |-> <<>>]

-----------------------------------------------------------------------------
Goto(k, t, place) == pc' = [pc EXCEPT ![k][t] = place]

Publish(t, event) == log' = [log EXCEPT ![t] = Append(@, event)]

Mark(t, s) == status' = [status EXCEPT ![t] = s]

Extended(t, deps) ==
    [u \in added \cup {t} |-> IF u = t THEN deps ELSE dependencies[u]]

(* Why TaskGraph.add raises, leaving the graph as it was: the task is a    *)
(* duplicate, depends on itself, or closes a cycle.                        *)
Refused(t, deps) == t \in added \/ t \in deps \/ HasCycle(Extended(t, deps))

Add(t, deps) ==
    /\ ~Refused(t, deps)
    /\ added' = added \cup {t}
    /\ dependencies' = [dependencies EXCEPT ![t] = deps]
    /\ UNCHANGED <<status, round, awaiting, pc, permits, memory, log>>

-----------------------------------------------------------------------------
(* Variants with a slip in them, as each definition below whose name holds *)
(* _Slip: one completed dependency is enough.                              *)
Ready_Slip ==
    {t \in added : /\ status[t] = "pending"
                   /\ dependencies[t] # {} => \E d \in dependencies[t] : status[d] = "completed"}

(* TaskGraph.ready *)
Ready ==
    {t \in added : /\ status[t] = "pending"
                   /\ \A d \in dependencies[t] : d \in added /\ status[d] = "completed"}

RunReady ==
    /\ ~awaiting
    /\ round < MaxRounds
    /\ round' = round + 1
    /\ awaiting' = (Ready # {})
    /\ pc' = [pc EXCEPT ![round'] = [t \in Tasks |-> IF t \in Ready THEN "queued" ELSE "none"]]
    /\ UNCHANGED <<added, dependencies, status, permits, memory, log>>

(* The caller goes on after the first result, not the last. *)
GatherEnds_Slip ==
    /\ awaiting
    /\ \E t \in Tasks : pc[round][t] \in {"ended", "raised"}
    /\ awaiting' = FALSE
    /\ UNCHANGED <<added, dependencies, status, round, pc, permits, memory, log>>

(* The gather returns when every _run has ended, raises when one raises. *)
GatherEnds ==
    /\ awaiting
    /\ \/ \A t \in Tasks : pc[round][t] \in {"none", "ended"}
       \/ \E t \in Tasks : pc[round][t] = "raised"
    /\ awaiting' = FALSE
    /\ UNCHANGED <<added, dependencies, status, round, pc, permits, memory, log>>

-----------------------------------------------------------------------------
(* _run, from the permit to the handlers of AGENT_STARTED. *)
Start(k, t) ==
    /\ pc[k][t] = "queued"
    /\ permits > 0
    /\ permits' = permits - 1
    /\ Mark(t, "running")
    /\ Publish(t, "AGENT_STARTED")
    /\ Goto(k, t, "starting")
    /\ UNCHANGED <<added, dependencies, round, awaiting, memory>>

(* Leaving the `async with`, in the end or because of an exception. *)
Leave(k, t, place) ==
    /\ permits' = permits + 1
    /\ Goto(k, t, place)

(* The failure is not published. *)
Fail_Slip(k, t) ==
    /\ Mark(t, "failed")
    /\ Goto(k, t, "failing")
    /\ UNCHANGED <<added, dependencies, round, awaiting, permits, memory, log>>

(* One of SCHEDULER_FAILURES was raised inside the try. *)
Fail(k, t) ==
    /\ Mark(t, "failed")
    /\ Publish(t, "TASK_FAILED")
    /\ Goto(k, t, "failing")
    /\ UNCHANGED <<added, dependencies, round, awaiting, permits, memory>>

(* The handlers are done: the context is built and the agent called.  What *)
(* they raise is outside the try.                                          *)
StartHandled(k, t) ==
    /\ pc[k][t] = "starting"
    /\ \/ Goto(k, t, "executing") /\ UNCHANGED permits
       \/ HandlersRaise /\ Leave(k, t, "raised")
    /\ UNCHANGED <<added, dependencies, status, round, awaiting, memory, log>>

AgentAnswers(k, t) ==
    /\ pc[k][t] = "executing"
    /\ memory' = memory \cup {t}
    /\ Mark(t, "completed")
    /\ Publish(t, "TASK_COMPLETED")
    /\ Goto(k, t, "completing")
    /\ UNCHANGED <<added, dependencies, round, awaiting, permits>>

(* Also for an agent or a model that is not there. *)
AgentFails(k, t) ==
    /\ pc[k][t] = "executing"
    /\ Fail(k, t)

AgentStrays(k, t) ==
    /\ StrayErrors
    /\ pc[k][t] = "executing"
    /\ Leave(k, t, "raised")
    /\ UNCHANGED <<added, dependencies, status, round, awaiting, memory, log>>

(* The handlers of TASK_COMPLETED are inside the try: a KeyError of theirs *)
(* is taken for a failure of the task.                                     *)
CompletionHandled(k, t) ==
    /\ pc[k][t] = "completing"
    /\ \/ /\ Leave(k, t, "ended")
          /\ UNCHANGED <<added, dependencies, status, round, awaiting, memory, log>>
       \/ /\ HandlersRaise
          /\ Leave(k, t, "raised")
          /\ UNCHANGED <<added, dependencies, status, round, awaiting, memory, log>>
       \/ /\ HandlersRaise
          /\ Fail(k, t)

(* The permit is kept. *)
FailureHandled_Slip(k, t) ==
    /\ pc[k][t] = "failing"
    /\ Goto(k, t, "ended")
    /\ UNCHANGED <<added, dependencies, status, round, awaiting, permits, memory, log>>

FailureHandled(k, t) ==
    /\ pc[k][t] = "failing"
    /\ \/ Leave(k, t, "ended")
       \/ HandlersRaise /\ Leave(k, t, "raised")
    /\ UNCHANGED <<added, dependencies, status, round, awaiting, memory, log>>

Run(k, t) ==
    \/ Start(k, t) \/ StartHandled(k, t)
    \/ AgentAnswers(k, t) \/ AgentFails(k, t) \/ AgentStrays(k, t)
    \/ CompletionHandled(k, t) \/ FailureHandled(k, t)

Next ==
    \/ \E t \in Tasks, deps \in SUBSET Tasks : Add(t, deps)
    \/ RunReady
    \/ GatherEnds
    \/ \E k \in Rounds, t \in Tasks : Run(k, t)

Spec == Init /\ [][Next]_vars

(* Handlers and provider calls end, and the event loop does not sleep on a *)
(* coroutine that can go on.  Which one it lets go on is not assumed.      *)
Fairness ==
    /\ WF_vars(GatherEnds)
    /\ WF_vars(\E k \in Rounds, t \in Tasks : Run(k, t))

FairSpec == Spec /\ Fairness

-----------------------------------------------------------------------------
(* However the graph grows, also by tasks that others have been waiting    *)
(* for, the search finds every cycle and nothing but cycles: of the tasks  *)
(* that may come next it refuses those that would close one, which would   *)
(* never be ready, and no others.                                          *)
OnlyCyclesAreRefused ==
    \A t \in Tasks \ added, deps \in SUBSET Tasks :
        Refused(t, deps) <=> ~Acyclic(Extended(t, deps))

Holders == {kt \in Rounds \X Tasks : pc[kt[1]][kt[2]] \in InProgress}

(* "The scheduler bounds parallelism" (phase-2.md), and whatever a _run    *)
(* ends with gives its permit back.                                        *)
ParallelismIsBounded == permits + Cardinality(Holders) = MaxParallel

(* An agent works with what all the agents it depends on have decided: it  *)
(* is in memory from the moment the task may be picked to be run, whatever *)
(* became of the tasks, of the handlers and of the rounds since.           *)
ContextHasDependencies ==
    \A k \in Rounds, t \in Tasks : pc[k][t] # "none" => dependencies[t] \subseteq memory

(* As long as gather does not raise, no task is run twice. *)
RunOnce ==
    (\A k \in Rounds, t \in Tasks : pc[k][t] # "raised") =>
       \A t \in Tasks : \A i, j \in DOMAIN log[t] :
           log[t][i] = "AGENT_STARTED" /\ log[t][j] = "AGENT_STARTED" => i = j

(* What is recorded of a task that is not worked on: its last event tells  *)
(* what became of it, and so does its status.                              *)
Recorded(t) ==
    (\A k \in Rounds : pc[k][t] \notin InProgress) /\ log[t] # <<>> =>
       \/ status[t] = "completed" /\ log[t][Len(log[t])] = "TASK_COMPLETED"
       \/ status[t] = "failed" /\ log[t][Len(log[t])] = "TASK_FAILED"

(* Status and history agree about a task none of whose _runs has raised,   *)
(* also when _runs of two rounds were at work on it at once, and when a    *)
(* handler has made a failure of its completion.                           *)
VerdictsAreRecorded ==
    \A t \in Tasks : (\A k \in Rounds : pc[k][t] # "raised") => Recorded(t)

(* Each call of run_ready returns or raises. *)
RoundsEnd == awaiting ~> ~awaiting
=============================================================================
