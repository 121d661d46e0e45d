----------------------- MODULE RepairOrchestratorProofs -----------------------
(***************************************************************************)
(* Safety of RepairOrchestrator, for any number of tasks, any dependencies *)
(* that the constructor accepts and any max_repair_cycles.                 *)
(***************************************************************************)
EXTENDS RepairOrchestrator, TLAPS

(* The actions mark a task and then start another, from statuses that are  *)
(* not those of any state; what holds of a state is said of such statuses. *)
Sound(st) ==
    /\ st \in [Tasks -> Statuses]
    /\ \A t \in Tasks : st[t] \notin NotStarted => Released(t, st)
    /\ \A t \in Tasks : attempts[t] = IF st[t] \in NotStarted THEN 0 ELSE 1

Keeps(st, next) == \A t \in Tasks : st[t] = "completed" => next[t] = "completed"

Inv == TypeOK /\ DependenciesFirst /\ RunOnce

USE DEF Tasks, NoTask, Statuses, NotStarted, Underway

-----------------------------------------------------------------------------
(* Starting a task keeps statuses sound: it is released, for it is ready,  *)
(* and starting completes and un-completes nothing.                        *)
LEMMA Starting ==
    ASSUME NEW st, Sound(st), NEW t, Start(t, st),
           attempts \in [Tasks -> Nat],
           dependencies \in [Tasks -> SUBSET Tasks], UNCHANGED dependencies
    PROVE  Sound(status)' /\ Keeps(st, status') /\ attempts' \in [Tasks -> Nat] /\ t \in Tasks
<1>1. t \in Tasks /\ st[t] \in NotStarted /\ Released(t, st)
  BY DEF Start, Ready
<1>2. /\ status' \in [Tasks -> Statuses]
      /\ \A u \in Tasks : status'[u] = IF u = t THEN "running" ELSE Refreshed(st)[u]
  BY <1>1 DEF Start, Refreshed, Sound
<1>3. \A u \in Tasks : st[u] \notin NotStarted => status'[u] = st[u]
  BY <1>1, <1>2 DEF Refreshed
<1>4. \A u \in Tasks : u # t => (status'[u] \in NotStarted <=> st[u] \in NotStarted)
  BY <1>2 DEF Refreshed
<1>5. Keeps(st, status')
  BY <1>3 DEF Keeps
<1>6. \A u \in Tasks : Released(u, st) => Released(u, status')
  BY <1>5 DEF Released, Keeps
<1>7. \A u \in Tasks : attempts'[u] = IF status'[u] \in NotStarted THEN 0 ELSE 1
  BY <1>1, <1>2, <1>4 DEF Start, Sound
<1>8. \A u \in Tasks : status'[u] \notin NotStarted => Released(u, status')
  BY <1>1, <1>4, <1>6 DEF Sound
<1>9. Sound(status)'
  BY <1>2, <1>7, <1>8 DEF Sound, Released
<1> QED
  BY <1>1, <1>5, <1>9 DEF Start

(* Putting tasks to wait keeps statuses sound. *)
LEMMA Refreshing ==
    ASSUME NEW st, Sound(st), status' = Refreshed(st), UNCHANGED <<attempts, dependencies>>,
           dependencies \in [Tasks -> SUBSET Tasks]
    PROVE  Sound(status)' /\ Keeps(st, status')
<1>1. \A u \in Tasks : /\ st[u] \notin NotStarted => status'[u] = st[u]
                       /\ status'[u] \in NotStarted <=> st[u] \in NotStarted
  BY DEF Refreshed
<1>2. status' \in [Tasks -> Statuses]
  BY DEF Refreshed, Sound
<1>3. Keeps(st, status')
  BY <1>1 DEF Keeps
<1>4. \A u \in Tasks : Released(u, st) => Released(u, status')
  BY <1>3 DEF Released, Keeps
<1>5. \A u \in Tasks : status'[u] \notin NotStarted => Released(u, status')
  BY <1>1, <1>4 DEF Sound
<1>6. \A u \in Tasks : attempts'[u] = IF status'[u] \in NotStarted THEN 0 ELSE 1
  BY <1>1 DEF Sound
<1> QED
  BY <1>2, <1>3, <1>5, <1>6 DEF Sound, Released

(* Settling a task that is underway, or repairing one that failed, keeps   *)
(* statuses sound: the task was started, and was not completed.            *)
LEMMA Settling ==
    ASSUME NEW t \in Tasks, status[t] \in Underway \cup {"failed"}, Sound(status),
           dependencies \in [Tasks -> SUBSET Tasks],
           NEW result \in {"completed", "failed", "repairing"}
    PROVE  /\ Sound([status EXCEPT ![t] = result])
           /\ Keeps(status, [status EXCEPT ![t] = result])
<1> DEFINE st == [status EXCEPT ![t] = result]
<1>1. /\ st \in [Tasks -> Statuses]
      /\ \A u \in Tasks : st[u] = IF u = t THEN result ELSE status[u]
  BY DEF Sound
<1> HIDE DEF st
<1>2. Keeps(status, st)
  BY <1>1 DEF Keeps
<1>3. \A u \in Tasks : Released(u, status) => Released(u, st)
  BY <1>2 DEF Released, Keeps
<1>4. \A u \in Tasks : st[u] \in NotStarted <=> status[u] \in NotStarted
  BY <1>1
<1>5. Sound(st)
  BY <1>1, <1>3, <1>4 DEF Sound
<1> QED
  BY <1>2, <1>5 DEF st

(* The part of the invariant the lemmas are about. *)
LEMMA InvIsSound == Inv <=> TypeOK /\ Sound(status)
BY DEF Inv, TypeOK, DependenciesFirst, RunOnce, Sound

-----------------------------------------------------------------------------
LEMMA InitInv == Init => Inv
<1> SUFFICES ASSUME Init PROVE Inv
  OBVIOUS
<1>1. TypeOK
  <2>1. dependencies \in [Tasks -> SUBSET Tasks]
    BY DEF Init, ValidGraph
  <2> QED
    BY <2>1, RepairAssumption DEF Init, TypeOK
<1> QED
  BY <1>1 DEF Init, Inv, DependenciesFirst, RunOnce

(* One step: the invariant, and what is completed stays so. *)
LEMMA StepInv == Inv /\ [Next]_vars => Inv' /\ Keeps(status, status')
<1> SUFFICES ASSUME Inv, [Next]_vars PROVE Inv' /\ Keeps(status, status')
  OBVIOUS
<1> USE RepairAssumption
<1>1. TypeOK /\ Sound(status)
  BY InvIsSound
<1>2. Sound(status)' /\ TypeOK' => Inv'
  BY InvIsSound, PTL
<1>3. ASSUME NEW st, Sound(st), Keeps(status, st), Continue(st), UNCHANGED <<dependencies, repairs>>
      PROVE  TypeOK' /\ Sound(status)' /\ Keeps(status, status')
  <2>1. CASE current' = NoTask /\ status' = st /\ UNCHANGED <<attempts, wave>>
    <3>1. Sound(status)'
      BY <1>3, <2>1 DEF Sound, Released
    <3> QED
      BY <1>1, <1>3, <2>1, <3>1 DEF TypeOK, Sound
  <2>2. CASE Start(First(wave), st) /\ current' = First(wave) /\ wave' = wave \ {current'}
    <3>1. /\ Sound(status)' /\ Keeps(st, status')
          /\ attempts' \in [Tasks -> Nat] /\ First(wave) \in Tasks
      BY <1>1, <1>3, <2>2, Starting DEF TypeOK
    <3>2. status' \in [Tasks -> Statuses]
      BY <3>1 DEF Sound
    <3> QED
      BY <1>1, <1>3, <2>2, <3>1, <3>2 DEF TypeOK, Keeps
  <2>3. CASE StartRefused(First(wave), st) /\ current' = NoTask /\ wave' = {}
    <3>1. Sound(status)' /\ Keeps(st, status')
      BY <1>1, <1>3, <2>3, Refreshing DEF TypeOK, StartRefused
    <3>2. status' \in [Tasks -> Statuses]
      BY <3>1 DEF Sound
    <3> QED
      BY <1>1, <1>3, <2>3, <3>1, <3>2 DEF TypeOK, Keeps, StartRefused
  <2> QED
    BY <1>3, <2>1, <2>2, <2>3 DEF Continue
<1>4. ASSUME NEW t, Start(t, status), UNCHANGED <<dependencies, repairs>>,
             current' \in Tasks \cup {NoTask}, wave' \in SUBSET Tasks
      PROVE  Inv' /\ Keeps(status, status')
  <2>1. Sound(status)' /\ Keeps(status, status') /\ attempts' \in [Tasks -> Nat]
    BY <1>1, <1>4, Starting DEF TypeOK
  <2>2. status' \in [Tasks -> Statuses]
    BY <2>1 DEF Sound
  <2> QED
    BY <1>1, <1>2, <1>4, <2>1, <2>2 DEF TypeOK
<1>5. ASSUME status' = Refreshed(status), UNCHANGED <<dependencies, attempts, current, wave, repairs>>
      PROVE  Inv' /\ Keeps(status, status')
  <2>1. Sound(status)' /\ Keeps(status, status')
    BY <1>1, <1>5, Refreshing DEF TypeOK
  <2>2. status' \in [Tasks -> Statuses]
    BY <2>1 DEF Sound
  <2> QED
    BY <1>1, <1>2, <1>5, <2>1, <2>2 DEF TypeOK
<1>6. CASE RunReady
  <2>1. CASE Ready(status) # {}
    <3>1. Start(current', status) /\ wave' = Ready(status) \ {current'}
      BY <1>6, <2>1 DEF RunReady
    <3>2. current' \in Tasks /\ wave' \in SUBSET Tasks
      BY <3>1 DEF Start, Ready
    <3> QED
      BY <1>4, <1>6, <3>1, <3>2 DEF RunReady
  <2> QED
    BY <1>5, <1>6, <2>1 DEF RunReady
<1>7. ASSUME NEW result \in {"completed", "failed"}, RunnerEnds(result)
      PROVE  Inv' /\ Keeps(status, status')
  <2>1. CASE status[current] \in Underway /\ Continue([status EXCEPT ![current] = result])
    <3>1. current \in Tasks
      BY <1>1, <1>7 DEF RunnerEnds, TypeOK
    <3>2. /\ Sound([status EXCEPT ![current] = result])
          /\ Keeps(status, [status EXCEPT ![current] = result])
      BY <1>1, <2>1, <3>1, Settling DEF TypeOK
    <3> QED
      BY <1>2, <1>3, <1>7, <2>1, <3>2 DEF RunnerEnds
  <2>2. CASE current' = NoTask /\ wave' = {} /\ UNCHANGED <<status, attempts>>
    <3>1. UNCHANGED <<dependencies, repairs>>
      BY <1>7 DEF RunnerEnds
    <3> QED
      BY <1>1, <1>2, <2>2, <3>1 DEF TypeOK, Sound, Keeps, Released
  <2> QED
    BY <1>7, <2>1, <2>2 DEF RunnerEnds
<1>8. ASSUME NEW t \in Tasks, MarkRunning(t)
      PROVE  Inv' /\ Keeps(status, status')
  <2>1. CASE Start(t, status)
    BY <1>1, <1>4, <1>8, <2>1 DEF MarkRunning, TypeOK
  <2>2. CASE StartRefused(t, status)
    BY <1>5, <1>8, <2>2 DEF MarkRunning, StartRefused
  <2> QED
    BY <1>8, <2>1, <2>2 DEF MarkRunning
<1>9. ASSUME NEW t \in Tasks, MarkCompleted(t) \/ MarkFailed(t) \/ RequestRepair(t)
      PROVE  Inv' /\ Keeps(status, status')
  <2>1. PICK result \in {"completed", "failed", "repairing"} :
             status[t] \in Underway \cup {"failed"} /\ status' = [status EXCEPT ![t] = result]
    BY <1>9 DEF MarkCompleted, MarkFailed, RequestRepair
  <2>2. Sound(status') /\ Keeps(status, status')
    BY <1>1, <2>1, Settling DEF TypeOK
  <2>3. UNCHANGED <<dependencies, attempts, current, wave>>
    BY <1>9 DEF MarkCompleted, MarkFailed, RequestRepair
  <2>4. repairs' \in [Tasks -> 0 .. MaxRepairCycles + 1]
    <3>1. CASE UNCHANGED repairs
      BY <1>1, <3>1 DEF TypeOK
    <3>2. CASE repairs' = [repairs EXCEPT ![t] = IF @ > MaxRepairCycles THEN @ ELSE @ + 1]
      <4>1. repairs[t] \in 0 .. MaxRepairCycles + 1
        BY <1>1 DEF TypeOK
      <4>2. (IF repairs[t] > MaxRepairCycles THEN repairs[t] ELSE repairs[t] + 1)
               \in 0 .. MaxRepairCycles + 1
        BY <4>1
      <4> QED
        BY <1>1, <3>2, <4>2 DEF TypeOK
    <3> QED
      BY <1>9, <3>1, <3>2 DEF MarkCompleted, MarkFailed, RequestRepair
  <2>5. Sound(status)'
    BY <2>2, <2>3 DEF Sound, Released
  <2> QED
    BY <1>1, <1>2, <2>2, <2>3, <2>4, <2>5 DEF TypeOK, Sound
<1>10. CASE UNCHANGED vars
  BY <1>1, <1>10, <1>2 DEF vars, TypeOK, Sound, Keeps, Released
<1> QED
  BY <1>6, <1>7, <1>8, <1>9, <1>10 DEF Next

-----------------------------------------------------------------------------
LEMMA InvHolds == Spec => []Inv
BY InitInv, StepInv, PTL DEF Spec

(* Every variable of the orchestrator keeps its type. *)
THEOREM TypeCorrect == Spec => []TypeOK
BY InvHolds, PTL DEF Inv

(* No task is started before all that it depends on is completed. *)
THEOREM DependenciesRespected == Spec => []DependenciesFirst
BY InvHolds, PTL DEF Inv

(* No task is run twice, whoever starts it. *)
THEOREM RunAtMostOnce == Spec => []RunOnce
BY InvHolds, PTL DEF Inv

(* A completed task is never anything else again. *)
THEOREM CompletionIsFinal == Spec => CompletedIsFinal
<1>1. Inv /\ [Next]_vars => [\A t \in Tasks : status[t] = "completed" => status'[t] = "completed"]_vars
  BY StepInv DEF Keeps
<1> QED
  BY <1>1, InvHolds, PTL DEF Spec, CompletedIsFinal

(* What request_repair asks about max_repair_cycles. *)
RepairsLeft(t) == (IF attempts[t] > 1 THEN attempts[t] - 1 ELSE 0) < MaxRepairCycles

(* Attempts never count a repair, so that no repair is ever refused for    *)
(* the sake of max_repair_cycles, however often the task has failed.       *)
THEOREM RepairsAreNeverRefused ==
    ASSUME MaxRepairCycles > 0
    PROVE  Spec => [](\A t \in Tasks : RepairsLeft(t))
<1>1. Inv => \A t \in Tasks : RepairsLeft(t)
  <2> SUFFICES ASSUME Inv, NEW t \in Tasks PROVE RepairsLeft(t)
    OBVIOUS
  <2>1. attempts[t] \in {0, 1}
    BY DEF Inv, RunOnce
  <2> QED
    BY <2>1, RepairAssumption DEF RepairsLeft
<1> QED
  BY <1>1, InvHolds, PTL

-----------------------------------------------------------------------------
LEMMA SomeoneCanGoOn == ASSUME TypeOK, Acyclic(dependencies) PROVE NobodyWaitsInVain
<1> SUFFICES ASSUME NEW w \in Tasks, status[w] \in NotStarted,
                    \A t \in Tasks : status[t] \notin Underway \cup {"failed"}
             PROVE  Ready(status) # {}
  BY DEF NobodyWaitsInVain
<1> DEFINE Waiting == {t \in Tasks : status[t] \in NotStarted}
<1>1. DOMAIN dependencies = Tasks
  BY DEF TypeOK
<1>2. PICK t \in Waiting : dependencies[t] \cap Waiting = {}
  BY <1>1 DEF Acyclic
<1>3. \A d \in dependencies[t] : d \in Tasks /\ status[d] = "completed"
  BY <1>2 DEF TypeOK, Statuses, NotStarted, Underway
<1>4. t \in Ready(status)
  BY <1>2, <1>3 DEF Ready, Released
<1> QED
  BY <1>4

(* Not all tasks can be waiting for others: the constructor accepts no     *)
(* graph in which its search finds a cycle.  That the search is right      *)
(* about the graph is so for every finite one: SearchIsRight of            *)
(* TaskSchedulerProofs, whose scheduler uses the same search.              *)
THEOREM SomeoneGoesOn ==
    Spec /\ (HasCycle(dependencies) <=> ~Acyclic(dependencies)) => []NobodyWaitsInVain
<1>1. Init /\ (HasCycle(dependencies) <=> ~Acyclic(dependencies)) => Acyclic(dependencies)
  BY DEF Init, ValidGraph
<1>2. Acyclic(dependencies) /\ Inv /\ [Next]_vars => Acyclic(dependencies)'
  <2> SUFFICES ASSUME [Next]_vars PROVE dependencies' = dependencies
    BY DEF Acyclic
  <2> QED
    BY DEF Next, vars, RunReady, RunnerEnds, MarkRunning, MarkCompleted, MarkFailed, RequestRepair
<1>3. Inv /\ Acyclic(dependencies) => NobodyWaitsInVain
  BY SomeoneCanGoOn DEF Inv
<1> QED
  BY <1>1, <1>2, <1>3, InitInv, StepInv, PTL DEF Spec
=============================================================================
