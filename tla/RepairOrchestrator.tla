-------------------------- MODULE RepairOrchestrator --------------------------
(***************************************************************************)
(* The synchronous task orchestrator of src/orchestrator.py: a graph of    *)
(* tasks, the waves of run_ready, and the repair of failed tasks.          *)
(*                                                                         *)
(* Agents are run by a callback.  While it runs, whoever it talks to may   *)
(* call the other methods, so each of them may come between the start of a *)
(* task and the moment run_ready records how the callback ended.  A nested *)
(* run_ready is a sequence of such calls: mark_running, then mark_failed   *)
(* or mark_completed, for each task of its wave.                           *)
(*                                                                         *)
(* REVIEWING and TESTING are left out: nothing assigns them.               *)
(***************************************************************************)
EXTENDS Naturals, CycleCheck

CONSTANTS
    NumTasks,         \* the tasks are numbered in their insertion order
    MaxRepairCycles   \* max_repair_cycles

ASSUME RepairAssumption ==
    /\ NumTasks \in Nat \ {0}
    /\ MaxRepairCycles \in Nat

Tasks  == 1 .. NumTasks
NoTask == 0
Unknown == NumTasks + 1   \* an identifier no task has

VARIABLES
    dependencies,   \* of each task; never changed after the constructor
    status,
    attempts,
    current,        \* the task whose callback a wave of run_ready is in
    wave,           \* the tasks that were ready when the wave began, still to run
    repairs         \* how often a repair was granted, counted to one past the limit

vars == <<dependencies, status, attempts, current, wave, repairs>>

Statuses == {"pending", "waiting", "running", "failed", "repairing", "completed"}

TypeOK ==
    /\ dependencies \in [Tasks -> SUBSET Tasks]
    /\ status \in [Tasks -> Statuses]
    /\ attempts \in [Tasks -> Nat]
    /\ current \in Tasks \cup {NoTask}
    /\ wave \in SUBSET Tasks
    /\ repairs \in [Tasks -> 0 .. MaxRepairCycles + 1]

(* Variant with a slip in it: cycles are not looked for. *)
ValidGraph_Slip(deps) == \A t \in Tasks : deps[t] \subseteq Tasks

(* _validate_graph *)
ValidGraph(deps) ==
    /\ \A t \in Tasks : deps[t] \subseteq Tasks
    /\ ~HasCycle(deps)

Init ==
    /\ dependencies \in {deps \in [Tasks -> SUBSET (Tasks \cup {Unknown})] : ValidGraph(deps)}
    /\ status = [t \in Tasks |-> "pending"]
    /\ attempts = [t \in Tasks |-> 0]
    /\ current = NoTask
    /\ wave = {}
    /\ repairs = [t \in Tasks |-> 0]

-----------------------------------------------------------------------------
NotStarted == {"pending", "waiting"}
Underway   == {"running", "repairing"}

Released(t, st) == \A d \in dependencies[t] : st[d] = "completed"

(* Variants with a slip in them, as each definition below whose name holds *)
(* _Slip: tasks that wait are not looked at again; one dependency will do. *)
Ready_Slip(st) == {t \in Tasks : st[t] = "pending" /\ Released(t, st)}

Ready_Slip2(st) ==
    {t \in Tasks : /\ st[t] \in NotStarted
                   /\ dependencies[t] # {} => \E d \in dependencies[t] : st[d] = "completed"}

(* ready_tasks: what it returns, and what it does to the other tasks. *)
Ready(st) == {t \in Tasks : st[t] \in NotStarted /\ Released(t, st)}

Refreshed(st) ==
    [t \in Tasks |-> IF st[t] \in NotStarted /\ ~Released(t, st) THEN "waiting" ELSE st[t]]

First(ts) == CHOOSE t \in ts : \A u \in ts : t <= u

(* Whether the task is ready is not asked. *)
Start_Slip(t, st) ==
    /\ status' = [Refreshed(st) EXCEPT ![t] = "running"]
    /\ attempts' = [attempts EXCEPT ![t] = @ + 1]

(* mark_running of a ready task, from the statuses st. *)
Start(t, st) ==
    /\ t \in Ready(st)
    /\ status' = [Refreshed(st) EXCEPT ![t] = "running"]
    /\ attempts' = [attempts EXCEPT ![t] = @ + 1]

(* mark_running of any other task: ready_tasks has run before it raises. *)
StartRefused(t, st) ==
    /\ t \notin Ready(st)
    /\ status' = Refreshed(st)
    /\ UNCHANGED attempts

-----------------------------------------------------------------------------
(* run_ready down to the first callback, or all of it if nothing is ready. *)
RunReady ==
    /\ current = NoTask
    /\ \/ /\ Ready(status) # {}
          /\ current' = First(Ready(status))
          /\ wave' = Ready(status) \ {current'}
          /\ Start(current', status)
       \/ /\ Ready(status) = {}
          /\ status' = Refreshed(status)
          /\ UNCHANGED <<attempts, current, wave>>
    /\ UNCHANGED <<dependencies, repairs>>

(* The next task of the wave, of which st are the statuses.  When someone  *)
(* else has started that task, mark_running raises and the wave is over.   *)
Continue(st) ==
    \/ /\ wave = {}
       /\ current' = NoTask
       /\ status' = st
       /\ UNCHANGED <<attempts, wave>>
    \/ /\ wave # {}
       /\ Start(First(wave), st)
       /\ current' = First(wave)
       /\ wave' = wave \ {current'}
    \/ /\ wave # {}
       /\ StartRefused(First(wave), st)
       /\ current' = NoTask
       /\ wave' = {}

(* A callback that has already settled its task has it settled again. *)
RunnerEnds_Slip(result) ==
    /\ current # NoTask
    /\ Continue([status EXCEPT ![current] = result])
    /\ UNCHANGED <<dependencies, repairs>>

(* The callback returns or raises, and the task is marked as result says.  *)
(* The mark raises, and ends the wave, if the callback has settled it.     *)
RunnerEnds(result) ==
    /\ current # NoTask
    /\ \/ /\ status[current] \in Underway
          /\ Continue([status EXCEPT ![current] = result])
       \/ /\ status[current] \notin Underway
          /\ current' = NoTask
          /\ wave' = {}
          /\ UNCHANGED <<status, attempts>>
    /\ UNCHANGED <<dependencies, repairs>>

MarkRunning(t) ==
    /\ Start(t, status) \/ StartRefused(t, status)
    /\ UNCHANGED <<dependencies, current, wave, repairs>>

MarkCompleted(t) ==
    /\ status[t] \in Underway
    /\ status' = [status EXCEPT ![t] = "completed"]
    /\ UNCHANGED <<dependencies, attempts, current, wave, repairs>>

MarkFailed(t) ==
    /\ status[t] \in Underway
    /\ status' = [status EXCEPT ![t] = "failed"]
    /\ UNCHANGED <<dependencies, attempts, current, wave, repairs>>

(* The repairs used are the attempts beyond the first. *)
RequestRepair(t) ==
    /\ status[t] = "failed"
    /\ (IF attempts[t] > 1 THEN attempts[t] - 1 ELSE 0) < MaxRepairCycles
    /\ status' = [status EXCEPT ![t] = "repairing"]
    /\ repairs' = [repairs EXCEPT ![t] = IF @ > MaxRepairCycles THEN @ ELSE @ + 1]
    /\ UNCHANGED <<dependencies, attempts, current, wave>>

Next ==
    \/ RunReady
    \/ \E result \in {"completed", "failed"} : RunnerEnds(result)
    \/ \E t \in Tasks : MarkRunning(t) \/ MarkCompleted(t) \/ MarkFailed(t) \/ RequestRepair(t)

Spec == Init /\ [][Next]_vars

(* run_ready is called again and again, and every callback ends. *)
FairSpec ==
    /\ Spec
    /\ WF_vars(RunReady)
    /\ WF_vars(\E result \in {"completed", "failed"} : RunnerEnds(result))

-----------------------------------------------------------------------------
(* "dependencies [...] take priority over raw parallelism" (README.md): a  *)
(* task is never started before all it depends on is completed, whoever    *)
(* starts it and whatever fails, is repaired or is skipped meanwhile.      *)
DependenciesFirst ==
    \A t \in Tasks : status[t] \notin NotStarted => Released(t, status)

(* A task is run at most once, although callbacks may start tasks that the *)
(* wave is still to reach.  (That is why attempts never counts a repair.)  *)
RunOnce ==
    \A t \in Tasks : attempts[t] = IF status[t] \in NotStarted THEN 0 ELSE 1

(* The graphs that are let through cannot keep everyone waiting: as long   *)
(* as a task is not started, one can be, or is under way, or has failed    *)
(* and may be repaired.                                                    *)
NobodyWaitsInVain ==
    (\E t \in Tasks : status[t] \in NotStarted) =>
        \/ Ready(status) # {}
        \/ \E t \in Tasks : status[t] \in Underway \cup {"failed"}

(* What is completed stays so: neither a late mark_failed nor a repair can *)
(* take it back from under the tasks that were started on the strength of it. *)
CompletedIsFinal ==
    [][\A t \in Tasks : status[t] = "completed" => status'[t] = "completed"]_vars

(* A task whose dependencies are all completed is started, also when they  *)
(* failed first and it was put to wait, and when waves are broken off.     *)
ReleasedTasksAreStarted ==
    \A t \in Tasks : Released(t, status) ~> status[t] \notin NotStarted

(* "Repair loops are bounded" (README.md): no task is granted more repairs *)
(* than max_repair_cycles.                                                 *)
RepairsBounded == \A t \in Tasks : repairs[t] <= MaxRepairCycles
=============================================================================
