------------------------- MODULE TaskSchedulerProofs -------------------------
(***************************************************************************)
(* Safety of TaskScheduler for any tasks and dependencies, any number of   *)
(* overlapping rounds, and whatever handlers and agents raise; and, for    *)
(* any finite graph, the search for cycles that guards it.                 *)
(***************************************************************************)
EXTENDS TaskScheduler, FiniteSetTheorems, WellFoundedInduction, TLAPS

(* A completed task is remembered, but so is one that a handler of its     *)
(* TASK_COMPLETED made a failure.                                          *)
CompletedIsRemembered == \A t \in Tasks : status[t] = "completed" => t \in memory

(* A round that is to come has no _run yet. *)
RoundsToCome == \A k \in Rounds, t \in Tasks : k > round => pc[k][t] = "none"

(* A task that was picked is in the graph, where no add can change it.     *)
PickedIsAdded == \A k \in Rounds, t \in Tasks : pc[k][t] # "none" => t \in added

Inv ==
    /\ TypeOK
    /\ RoundsToCome
    /\ PickedIsAdded
    /\ ParallelismIsBounded
    /\ CompletedIsRemembered
    /\ ContextHasDependencies

USE DEF Rounds, InProgress, Places

-----------------------------------------------------------------------------
LEMMA RunsFinite == IsFiniteSet(Rounds \X Tasks)
<1>1. IsFiniteSet(Rounds) /\ IsFiniteSet(Tasks)
  BY FS_Interval, SchedulerAssumption
<1> QED
  BY <1>1, FS_Product

LEMMA HoldersFinite == IsFiniteSet(Holders)
BY RunsFinite, FS_Subset DEF Holders

(* What one _run's step does to the places and to the holders of permits. *)
LEMMA Moving ==
    ASSUME TypeOK, NEW k \in Rounds, NEW t \in Tasks, NEW place \in Places, Goto(k, t, place)
    PROVE  /\ pc' \in [Rounds -> [Tasks -> Places]]
           /\ \A l \in Rounds, u \in Tasks : pc'[l][u] = IF l = k /\ u = t THEN place ELSE pc[l][u]
           /\ Holders' = IF place \in InProgress THEN Holders \cup {<<k, t>>}
                                                 ELSE Holders \ {<<k, t>>}
<1>1. /\ pc' \in [Rounds -> [Tasks -> Places]]
      /\ \A l \in Rounds, u \in Tasks : pc'[l][u] = IF l = k /\ u = t THEN place ELSE pc[l][u]
  BY DEF TypeOK, Goto
<1>2. \A kt \in Rounds \X Tasks :
          pc'[kt[1]][kt[2]] = IF kt = <<k, t>> THEN place ELSE pc[kt[1]][kt[2]]
  BY <1>1
<1>3. <<k, t>> \in Rounds \X Tasks
  OBVIOUS
<1>4. Holders' = {kt \in Rounds \X Tasks : pc'[kt[1]][kt[2]] \in InProgress}
  BY DEF Holders
<1>5. place \in InProgress => Holders' = Holders \cup {<<k, t>>}
  BY <1>2, <1>3, <1>4 DEF Holders
<1>6. place \notin InProgress => Holders' = Holders \ {<<k, t>>}
  BY <1>2, <1>3, <1>4 DEF Holders
<1> QED
  BY <1>1, <1>5, <1>6

(* Permits and their holders, through the three kinds of step of a _run.   *)
LEMMA Counting ==
    ASSUME TypeOK, ParallelismIsBounded, NEW k \in Rounds, NEW t \in Tasks, NEW place \in Places,
           \/ pc[k][t] = "queued" /\ place = "starting" /\ permits' = permits - 1
           \/ pc[k][t] \in InProgress /\ place \in InProgress /\ permits' = permits
           \/ pc[k][t] \in InProgress /\ place \notin InProgress /\ permits' = permits + 1,
           Goto(k, t, place)
    PROVE  ParallelismIsBounded'
<1>1. Cardinality(Holders) \in Nat /\ permits \in Nat /\ MaxParallel \in Nat
  BY HoldersFinite, FS_CardinalityType, SchedulerAssumption DEF TypeOK
<1>2. <<k, t>> \in Holders <=> pc[k][t] \in InProgress
  BY DEF Holders
<1>3. CASE pc[k][t] = "queued" /\ place = "starting" /\ permits' = permits - 1
  <2>1. Holders' = Holders \cup {<<k, t>>} /\ <<k, t>> \notin Holders
    BY <1>2, <1>3, Moving
  <2>2. Cardinality(Holders') = Cardinality(Holders) + 1
    BY <2>1, HoldersFinite, FS_AddElement
  <2> QED
    BY <1>1, <1>3, <2>2 DEF ParallelismIsBounded
<1>4. CASE pc[k][t] \in InProgress /\ place \in InProgress /\ permits' = permits
  <2>1. Holders' = Holders
    BY <1>2, <1>4, Moving
  <2> QED
    BY <1>4, <2>1 DEF ParallelismIsBounded
<1>5. CASE pc[k][t] \in InProgress /\ place \notin InProgress /\ permits' = permits + 1
  <2>1. Holders' = Holders \ {<<k, t>>} /\ <<k, t>> \in Holders
    BY <1>2, <1>5, Moving
  <2>2. Cardinality(Holders') = Cardinality(Holders) - 1
    BY <2>1, HoldersFinite, FS_RemoveElement
  <2> QED
    BY <1>1, <1>5, <2>2 DEF ParallelismIsBounded
<1> QED
  BY <1>3, <1>4, <1>5

LEMMA PermitType ==
    ASSUME ParallelismIsBounded', permits' \in Int, permits' >= 0
    PROVE  permits' \in 0 .. MaxParallel
<1>1. IsFiniteSet(Holders')
  BY RunsFinite, FS_Subset DEF Holders
<1> QED
  BY <1>1, FS_CardinalityType, SchedulerAssumption DEF ParallelismIsBounded

-----------------------------------------------------------------------------
(* The invariant after a step of a _run that was at a place of its round:  *)
(* the step moves it, may mark its task and may add to the memory.         *)
LEMMA Stepping ==
    ASSUME Inv, NEW k \in Rounds, NEW t \in Tasks, NEW place \in Places,
           \/ pc[k][t] = "queued" /\ place = "starting" /\ permits' = permits - 1 /\ permits > 0
           \/ pc[k][t] \in InProgress /\ place \in InProgress /\ permits' = permits
           \/ pc[k][t] \in InProgress /\ place \notin InProgress /\ permits' = permits + 1,
           Goto(k, t, place),
           NEW s \in {"running", "completed", "failed"},
           status' = status \/ Mark(t, s),
           s = "completed" => t \in memory',
           memory' = memory \/ memory' = memory \cup {t},
           log' = log \/ \E e \in {"AGENT_STARTED", "TASK_COMPLETED", "TASK_FAILED"} : Publish(t, e),
           UNCHANGED <<added, dependencies, round, awaiting>>
    PROVE  Inv'
<1>1. /\ TypeOK /\ RoundsToCome /\ PickedIsAdded /\ ParallelismIsBounded
      /\ CompletedIsRemembered /\ ContextHasDependencies
  BY DEF Inv
<1>2. /\ pc' \in [Rounds -> [Tasks -> Places]]
      /\ \A l \in Rounds, u \in Tasks : pc'[l][u] = IF l = k /\ u = t THEN place ELSE pc[l][u]
  BY <1>1, Moving
<1>3. ParallelismIsBounded'
  BY <1>1, Counting
<1>4. permits' \in 0 .. MaxParallel
  <2>1. permits' \in Int /\ permits' >= 0
    BY <1>1, SchedulerAssumption DEF TypeOK
  <2> QED
    BY <1>3, <2>1, PermitType
<1>5. /\ status' \in [Tasks -> {"pending", "running", "completed", "failed"}]
      /\ \A u \in Tasks : u # t \/ status'[u] # s => status'[u] = status[u]
  <2>1. CASE status' = status
    BY <1>1, <2>1 DEF TypeOK
  <2>2. CASE status' = [status EXCEPT ![t] = s]
    BY <1>1, <2>2 DEF TypeOK
  <2> QED
    BY <2>1, <2>2 DEF Mark
<1>6. log' \in [Tasks -> Seq({"AGENT_STARTED", "TASK_COMPLETED", "TASK_FAILED"})]
  <2>1. CASE log' = log
    BY <1>1, <2>1 DEF TypeOK
  <2>2. ASSUME NEW e \in {"AGENT_STARTED", "TASK_COMPLETED", "TASK_FAILED"},
               log' = [log EXCEPT ![t] = Append(@, e)]
        PROVE  log' \in [Tasks -> Seq({"AGENT_STARTED", "TASK_COMPLETED", "TASK_FAILED"})]
    BY <1>1, <2>2 DEF TypeOK
  <2> QED
    BY <2>1, <2>2 DEF Publish
<1>7. TypeOK'
  BY <1>1, <1>2, <1>4, <1>5, <1>6 DEF TypeOK
<1>8. CompletedIsRemembered'
  BY <1>1, <1>5 DEF CompletedIsRemembered
<1>9. pc[k][t] # "none"
  OBVIOUS
<1>10. ContextHasDependencies'
  BY <1>1, <1>2, <1>9 DEF ContextHasDependencies
<1>11. RoundsToCome'
  BY <1>1, <1>2, <1>9 DEF RoundsToCome
<1>12. PickedIsAdded'
  BY <1>1, <1>2, <1>9 DEF PickedIsAdded
<1> QED
  BY <1>3, <1>7, <1>8, <1>10, <1>11, <1>12 DEF Inv

LEMMA RunStep ==
    ASSUME Inv, NEW k \in Rounds, NEW t \in Tasks, Run(k, t)
    PROVE  Inv'
<1>1. CASE Start(k, t)
  BY <1>1, Stepping DEF Start
<1>2. CASE StartHandled(k, t)
  BY <1>2, Stepping DEF StartHandled, Leave
<1>3. CASE AgentAnswers(k, t)
  BY <1>3, Stepping DEF AgentAnswers
<1>4. CASE AgentFails(k, t)
  BY <1>4, Stepping DEF AgentFails, Fail
<1>5. CASE AgentStrays(k, t)
  BY <1>5, Stepping DEF AgentStrays, Leave
<1>6. CASE CompletionHandled(k, t)
  BY <1>6, Stepping DEF CompletionHandled, Leave, Fail
<1>7. CASE FailureHandled(k, t)
  BY <1>7, Stepping DEF FailureHandled, Leave
<1> QED
  BY <1>1, <1>2, <1>3, <1>4, <1>5, <1>6, <1>7 DEF Run

LEMMA RunReadyStep == ASSUME Inv, RunReady PROVE Inv'
<1>1. /\ TypeOK /\ RoundsToCome /\ PickedIsAdded /\ ParallelismIsBounded
      /\ CompletedIsRemembered /\ ContextHasDependencies
  BY DEF Inv
<1>2. round' \in Rounds /\ round' \in 0 .. MaxRounds /\ round' = round + 1 /\ round \in Nat
  BY <1>1, SchedulerAssumption DEF RunReady, TypeOK
<1>3. /\ pc' \in [Rounds -> [Tasks -> Places]]
      /\ \A k \in Rounds, t \in Tasks :
            pc'[k][t] = IF k = round' THEN IF t \in Ready THEN "queued" ELSE "none" ELSE pc[k][t]
  BY <1>1, <1>2 DEF RunReady, TypeOK
<1>4. \A t \in Tasks : pc[round'][t] = "none"
  BY <1>1, <1>2 DEF RoundsToCome
<1>5. \A kt \in Rounds \X Tasks :
         pc'[kt[1]][kt[2]] \in InProgress <=> pc[kt[1]][kt[2]] \in InProgress
  BY <1>3, <1>4
<1>6. Holders' = Holders
  BY <1>5 DEF Holders
<1>7. ParallelismIsBounded'
  BY <1>1, <1>6 DEF ParallelismIsBounded, RunReady
<1>8. TypeOK'
  BY <1>1, <1>2, <1>3 DEF TypeOK, RunReady
<1>9. RoundsToCome'
  BY <1>1, <1>2, <1>3 DEF RoundsToCome
<1>10. CompletedIsRemembered'
  BY <1>1 DEF CompletedIsRemembered, RunReady
<1>11. \A t \in Ready : dependencies[t] \subseteq memory
  BY <1>1 DEF Ready, CompletedIsRemembered, TypeOK
<1>12. ContextHasDependencies'
  BY <1>1, <1>3, <1>11 DEF ContextHasDependencies, RunReady
<1>13. PickedIsAdded'
  BY <1>1, <1>3 DEF PickedIsAdded, RunReady, Ready
<1> QED
  BY <1>7, <1>8, <1>9, <1>10, <1>12, <1>13 DEF Inv

LEMMA AddStep ==
    ASSUME Inv, NEW t \in Tasks, NEW deps \in SUBSET Tasks, Add(t, deps)
    PROVE  Inv'
<1>1. /\ TypeOK /\ RoundsToCome /\ PickedIsAdded /\ ParallelismIsBounded
      /\ CompletedIsRemembered /\ ContextHasDependencies
  BY DEF Inv
<1>2. t \notin added /\ added' = added \cup {t}
  BY DEF Add, Refused
<1>3. /\ dependencies' \in [Tasks -> SUBSET Tasks]
      /\ \A u \in Tasks : u # t => dependencies'[u] = dependencies[u]
  BY <1>1 DEF Add, TypeOK
<1>4. \A k \in Rounds : pc[k][t] = "none"
  BY <1>1, <1>2 DEF PickedIsAdded
<1>5. TypeOK'
  BY <1>1, <1>2, <1>3 DEF TypeOK, Add
<1>6. ContextHasDependencies'
  BY <1>1, <1>3, <1>4 DEF ContextHasDependencies, Add
<1>7. PickedIsAdded' /\ RoundsToCome' /\ CompletedIsRemembered'
  BY <1>1, <1>2 DEF PickedIsAdded, RoundsToCome, CompletedIsRemembered, Add
<1>8. ParallelismIsBounded'
  BY <1>1 DEF ParallelismIsBounded, Holders, Add
<1> QED
  BY <1>5, <1>6, <1>7, <1>8 DEF Inv

-----------------------------------------------------------------------------
LEMMA InitInv == ASSUME Init PROVE Inv
<1>1. TypeOK
  <2>1. dependencies \in [Tasks -> SUBSET Tasks]
    BY DEF Init
  <2>2. pc \in [Rounds -> [Tasks -> Places]]
    BY DEF Init
  <2>3. log \in [Tasks -> Seq({"AGENT_STARTED", "TASK_COMPLETED", "TASK_FAILED"})]
    BY DEF Init
  <2>4. round \in 0 .. MaxRounds /\ permits \in 0 .. MaxParallel
    BY SchedulerAssumption DEF Init
  <2> QED
    BY <2>1, <2>2, <2>3, <2>4 DEF Init, TypeOK
<1>2. RoundsToCome /\ PickedIsAdded /\ CompletedIsRemembered /\ ContextHasDependencies
  BY DEF Init, RoundsToCome, PickedIsAdded, CompletedIsRemembered, ContextHasDependencies
<1>3. Holders = {}
  BY DEF Holders, Init
<1>4. ParallelismIsBounded
  BY <1>3, FS_EmptySet, SchedulerAssumption DEF ParallelismIsBounded, Init
<1> QED
  BY <1>1, <1>2, <1>4 DEF Inv

LEMMA InvStep == ASSUME Inv, [Next]_vars PROVE Inv'
<1>1. CASE RunReady
  BY <1>1, RunReadyStep
<1>2. CASE GatherEnds \/ UNCHANGED vars
  BY <1>2 DEF GatherEnds, vars, Inv, TypeOK, RoundsToCome, PickedIsAdded, ParallelismIsBounded, Holders,
     CompletedIsRemembered, ContextHasDependencies
<1>3. CASE \E k \in Rounds, t \in Tasks : Run(k, t)
  BY <1>3, RunStep
<1>4. CASE \E t \in Tasks, deps \in SUBSET Tasks : Add(t, deps)
  BY <1>4, AddStep
<1> QED
  BY <1>1, <1>2, <1>3, <1>4 DEF Next

LEMMA InvHolds == Spec => []Inv
BY InitInv, InvStep, PTL DEF Spec

(* Every variable of the scheduler keeps its type; permits are never       *)
(* negative nor more than there were.                                      *)
THEOREM TypeCorrect == Spec => []TypeOK
BY InvHolds, PTL DEF Inv

(* No more than max_parallel tasks are worked on, and no permit is lost,   *)
(* however rounds overlap and whatever is raised.                          *)
THEOREM ParallelismBounded == Spec => []ParallelismIsBounded
BY InvHolds, PTL DEF Inv

(* No agent is called without the decisions of those it depends on.        *)
THEOREM ContextIsComplete == Spec => []ContextHasDependencies
BY InvHolds, PTL DEF Inv

-----------------------------------------------------------------------------
(* What the history of a task and its status have to do with each other.   *)
LastEvent(t) == log[t][Len(log[t])]

Matches(t) ==
    \/ status[t] = "pending" /\ log[t] = <<>>
    \/ /\ log[t] # <<>>
       /\ \/ status[t] = "running" /\ LastEvent(t) = "AGENT_STARTED"
          \/ status[t] = "completed" /\ LastEvent(t) = "TASK_COMPLETED"
          \/ status[t] = "failed" /\ LastEvent(t) = "TASK_FAILED"

RunningIsWorkedOn(t) ==
    status[t] = "running" => \E k \in Rounds : pc[k][t] \in {"starting", "executing", "raised"}

(* As long as nothing raises, rounds do not overlap, and a round only ever *)
(* starts tasks that no one has started.                                   *)
NothingRaised == \A k \in Rounds, t \in Tasks : pc[k][t] # "raised"

OneRoundAtATime ==
    \A k \in Rounds, t \in Tasks : pc[k][t] \notin {"none", "ended"} => awaiting /\ k = round

QueuedIsPending == \A k \in Rounds, t \in Tasks : pc[k][t] = "queued" => status[t] = "pending"

StartsAreUnique ==
    \A t \in Tasks : \A i, j \in DOMAIN log[t] :
        log[t][i] = "AGENT_STARTED" /\ log[t][j] = "AGENT_STARTED" => i = j

History ==
    /\ \A t \in Tasks : Matches(t) /\ RunningIsWorkedOn(t)
    /\ NothingRaised => OneRoundAtATime /\ QueuedIsPending /\ StartsAreUnique

Events == {"AGENT_STARTED", "TASK_COMPLETED", "TASK_FAILED"}

LEMMA AppendedEvent ==
    ASSUME NEW s \in Seq(Events), NEW e \in Events
    PROVE  /\ Append(s, e) # <<>> /\ Append(s, e)[Len(Append(s, e))] = e
           /\ DOMAIN Append(s, e) = 1 .. Len(s) + 1 /\ DOMAIN s = 1 .. Len(s)
           /\ \A i \in 1 .. Len(s) : Append(s, e)[i] = s[i]
           /\ Append(s, e)[Len(s) + 1] = e
OBVIOUS

(* A step of a _run that records something of its task. *)
LEMMA RecordingStep ==
    ASSUME TypeOK, History, NEW k \in Rounds, NEW t \in Tasks, NEW place \in Places,
           NEW s \in {"running", "completed", "failed"}, NEW e \in Events,
           Goto(k, t, place), Mark(t, s), Publish(t, e), UNCHANGED <<round, awaiting>>,
           \/ s = "running" /\ e = "AGENT_STARTED" /\ pc[k][t] = "queued" /\ place = "starting"
           \/ s = "completed" /\ e = "TASK_COMPLETED" /\ pc[k][t] \in InProgress /\ place = "completing"
           \/ s = "failed" /\ e = "TASK_FAILED" /\ pc[k][t] \in InProgress /\ place = "failing"
    PROVE  History'
<1>1. \A l \in Rounds, u \in Tasks : pc'[l][u] = IF l = k /\ u = t THEN place ELSE pc[l][u]
  BY Moving
<1>2. /\ status'[t] = s /\ log'[t] = Append(log[t], e) /\ log[t] \in Seq(Events)
      /\ \A u \in Tasks : u # t => status'[u] = status[u] /\ log'[u] = log[u]
  BY DEF Mark, Publish, TypeOK, Events
<1>3. ASSUME NEW u \in Tasks PROVE Matches(u)' /\ RunningIsWorkedOn(u)'
  <2>1. CASE u = t
    <3>1. Matches(u)'
      BY <1>2, <2>1, AppendedEvent DEF Matches, LastEvent
    <3>2. s = "running" => pc'[k][t] = "starting"
      BY <1>1
    <3> QED
      BY <1>2, <2>1, <3>1, <3>2 DEF RunningIsWorkedOn
  <2>2. CASE u # t
    <3>1. \A l \in Rounds : pc'[l][u] = pc[l][u]
      BY <1>1, <2>2
    <3>2. Matches(u) /\ RunningIsWorkedOn(u)
      BY DEF History
    <3> QED
      BY <1>2, <2>2, <3>1, <3>2 DEF Matches, RunningIsWorkedOn, LastEvent
  <2> QED
    BY <2>1, <2>2
<1>4. ASSUME NothingRaised' PROVE OneRoundAtATime' /\ QueuedIsPending' /\ StartsAreUnique'
  <2>1. NothingRaised
    BY <1>1, <1>4 DEF NothingRaised
  <2>2. OneRoundAtATime /\ QueuedIsPending /\ StartsAreUnique
    BY <2>1 DEF History
  <2>3. OneRoundAtATime'
    BY <1>1, <2>2 DEF OneRoundAtATime
  <2>4. \A l \in Rounds : pc'[l][t] # "queued"
    BY <1>1, <2>2 DEF OneRoundAtATime
  <2>5. QueuedIsPending'
    BY <1>1, <1>2, <2>2, <2>4 DEF QueuedIsPending
  <2>6. e = "AGENT_STARTED" => log[t] = <<>>
    BY <2>2 DEF QueuedIsPending, History, Matches
  <2>7. \A i, j \in DOMAIN log'[t] :
           log'[t][i] = "AGENT_STARTED" /\ log'[t][j] = "AGENT_STARTED" => i = j
    BY <1>2, <2>2, <2>6, AppendedEvent DEF StartsAreUnique
  <2>8. StartsAreUnique'
    BY <1>2, <2>2, <2>7 DEF StartsAreUnique
  <2> QED
    BY <2>3, <2>5, <2>8
<1> QED
  BY <1>3, <1>4 DEF History

(* A step of a _run that records nothing. *)
LEMMA SilentStep ==
    ASSUME TypeOK, History, NEW k \in Rounds, NEW t \in Tasks, NEW place \in Places,
           Goto(k, t, place), UNCHANGED <<status, log, round, awaiting>>,
           \/ pc[k][t] = "starting" /\ place \in {"executing", "raised"}
           \/ pc[k][t] = "executing" /\ place = "raised"
           \/ pc[k][t] \in {"completing", "failing"} /\ place \in {"ended", "raised"}
    PROVE  History'
<1>1. \A l \in Rounds, u \in Tasks : pc'[l][u] = IF l = k /\ u = t THEN place ELSE pc[l][u]
  BY Moving
<1>2. ASSUME NEW u \in Tasks PROVE Matches(u)' /\ RunningIsWorkedOn(u)'
  <2>1. Matches(u) /\ RunningIsWorkedOn(u)
    BY DEF History
  <2>2. \A l \in Rounds :
          pc[l][u] \in {"starting", "executing", "raised"}
            => pc'[l][u] \in {"starting", "executing", "raised"}
    BY <1>1
  <2> QED
    BY <2>1, <2>2 DEF Matches, RunningIsWorkedOn, LastEvent
<1>3. ASSUME NothingRaised' PROVE OneRoundAtATime' /\ QueuedIsPending' /\ StartsAreUnique'
  <2>1. NothingRaised
    BY <1>1, <1>3 DEF NothingRaised
  <2>2. OneRoundAtATime /\ QueuedIsPending /\ StartsAreUnique
    BY <2>1 DEF History
  <2>3. OneRoundAtATime'
    BY <1>1, <2>2 DEF OneRoundAtATime
  <2>4. QueuedIsPending'
    BY <1>1, <2>2 DEF QueuedIsPending
  <2> QED
    BY <2>2, <2>3, <2>4 DEF StartsAreUnique
<1> QED
  BY <1>2, <1>3 DEF History

LEMMA RunHistory ==
    ASSUME TypeOK, History, NEW k \in Rounds, NEW t \in Tasks, Run(k, t)
    PROVE  History'
<1>1. CASE Start(k, t)
  BY <1>1, RecordingStep DEF Start, Events
<1>2. CASE StartHandled(k, t)
  BY <1>2, SilentStep DEF StartHandled, Leave
<1>3. CASE AgentAnswers(k, t)
  BY <1>3, RecordingStep DEF AgentAnswers, Events
<1>4. CASE AgentFails(k, t)
  BY <1>4, RecordingStep DEF AgentFails, Fail, Events
<1>5. CASE AgentStrays(k, t)
  BY <1>5, SilentStep DEF AgentStrays, Leave
<1>6. CASE CompletionHandled(k, t)
  <2>1. CASE Fail(k, t)
    BY <1>6, <2>1, RecordingStep DEF CompletionHandled, Fail, Events
  <2>2. CASE ~Fail(k, t)
    BY <1>6, <2>2, SilentStep DEF CompletionHandled, Leave
  <2> QED
    BY <2>1, <2>2
<1>7. CASE FailureHandled(k, t)
  BY <1>7, SilentStep DEF FailureHandled, Leave
<1> QED
  BY <1>1, <1>2, <1>3, <1>4, <1>5, <1>6, <1>7 DEF Run

LEMMA RunReadyHistory == ASSUME Inv, History, RunReady PROVE History'
<1>1. TypeOK /\ RoundsToCome
  BY DEF Inv
<1>2. round' \in Rounds /\ round' = round + 1 /\ round \in Nat
  BY <1>1, SchedulerAssumption DEF RunReady, TypeOK
<1>3. \A k \in Rounds, t \in Tasks :
         pc'[k][t] = IF k = round' THEN IF t \in Ready THEN "queued" ELSE "none" ELSE pc[k][t]
  BY <1>1, <1>2 DEF RunReady, TypeOK
<1>4. \A t \in Tasks : pc[round'][t] = "none"
  BY <1>1, <1>2 DEF RoundsToCome
<1>5. ASSUME NEW t \in Tasks PROVE Matches(t)' /\ RunningIsWorkedOn(t)'
  <2>1. Matches(t) /\ RunningIsWorkedOn(t)
    BY DEF History
  <2> QED
    BY <1>3, <1>4, <2>1 DEF Matches, RunningIsWorkedOn, LastEvent, RunReady
<1>6. ASSUME NothingRaised' PROVE OneRoundAtATime' /\ QueuedIsPending' /\ StartsAreUnique'
  <2>1. NothingRaised
    BY <1>3, <1>4, <1>6 DEF NothingRaised
  <2>2. OneRoundAtATime /\ QueuedIsPending /\ StartsAreUnique
    BY <2>1 DEF History
  <2>3. OneRoundAtATime'
    <3>1. ~awaiting /\ \A k \in Rounds, t \in Tasks : pc[k][t] \in {"none", "ended"}
      BY <2>2 DEF OneRoundAtATime, RunReady
    <3>2. ASSUME NEW k \in Rounds, NEW t \in Tasks, pc'[k][t] \notin {"none", "ended"}
          PROVE  awaiting' /\ k = round'
      <4>1. k = round' /\ t \in Ready
        BY <1>3, <3>1, <3>2
      <4>2. awaiting' = (Ready # {})
        BY DEF RunReady
      <4> QED
        BY <4>1, <4>2
    <3> QED
      BY <3>2 DEF OneRoundAtATime
  <2>4. QueuedIsPending'
    BY <1>3, <2>2 DEF QueuedIsPending, RunReady, Ready
  <2> QED
    BY <2>2, <2>3, <2>4 DEF StartsAreUnique, RunReady
<1> QED
  BY <1>5, <1>6 DEF History

LEMMA GatherEndsHistory == ASSUME TypeOK, History, GatherEnds PROVE History'
<1>1. UNCHANGED <<status, log, pc, round>> /\ awaiting /\ ~awaiting'
  BY DEF GatherEnds
<1>2. ASSUME NEW t \in Tasks PROVE Matches(t)' /\ RunningIsWorkedOn(t)'
  BY <1>1 DEF History, Matches, RunningIsWorkedOn, LastEvent
<1>3. ASSUME NothingRaised' PROVE OneRoundAtATime' /\ QueuedIsPending' /\ StartsAreUnique'
  <2>1. OneRoundAtATime /\ QueuedIsPending /\ StartsAreUnique /\ NothingRaised
    BY <1>1, <1>3 DEF History, NothingRaised
  <2>2. ASSUME NEW k \in Rounds, NEW t \in Tasks, pc[k][t] \notin {"none", "ended"} PROVE FALSE
    <3>1. k = round
      BY <2>1, <2>2 DEF OneRoundAtATime
    <3> QED
      BY <2>1, <2>2, <3>1 DEF GatherEnds, NothingRaised
  <2>3. OneRoundAtATime'
    BY <1>1, <2>2 DEF OneRoundAtATime
  <2> QED
    BY <1>1, <2>1, <2>3 DEF QueuedIsPending, StartsAreUnique
<1> QED
  BY <1>2, <1>3 DEF History

LEMMA HistoryHolds == Spec => []History
<1>1. Init => History
  BY DEF Init, History, Matches, RunningIsWorkedOn, NothingRaised, OneRoundAtATime,
     QueuedIsPending, StartsAreUnique
<1>2. ASSUME Inv, History, [Next]_vars PROVE History'
  <2>1. TypeOK
    BY <1>2 DEF Inv
  <2>2. CASE RunReady
    BY <1>2, <2>2, RunReadyHistory
  <2>3. CASE GatherEnds
    BY <1>2, <2>1, <2>3, GatherEndsHistory
  <2>4. CASE \E k \in Rounds, t \in Tasks : Run(k, t)
    BY <1>2, <2>1, <2>4, RunHistory
  <2>5. CASE UNCHANGED <<status, log, pc, round, awaiting>>
    BY <1>2, <2>5 DEF History, Matches, RunningIsWorkedOn, LastEvent, NothingRaised,
       OneRoundAtATime, QueuedIsPending, StartsAreUnique
  <2> QED
    <3>1. (\E t \in Tasks, deps \in SUBSET Tasks : Add(t, deps)) \/ UNCHANGED vars
            => UNCHANGED <<status, log, pc, round, awaiting>>
      BY DEF Add, vars
    <3> QED
      BY <1>2, <2>2, <2>3, <2>4, <2>5, <3>1 DEF Next
<1> QED
  BY <1>1, <1>2, InvHolds, PTL DEF Spec

(* Without an exception that leaves a _run, no agent is started twice.     *)
THEOREM StartedAtMostOnce == Spec => []RunOnce
<1>1. History => RunOnce
  BY DEF History, RunOnce, NothingRaised, StartsAreUnique
<1> QED
  BY <1>1, HistoryHolds, PTL

(* The event history and the graph agree about what became of a task, in   *)
(* whatever order overlapping rounds have worked on it.                    *)
THEOREM VerdictsRecorded == Spec => []VerdictsAreRecorded
<1>1. ASSUME History PROVE VerdictsAreRecorded
  <2> SUFFICES ASSUME NEW t \in Tasks, \A k \in Rounds : pc[k][t] # "raised",
                      \A k \in Rounds : pc[k][t] \notin InProgress, log[t] # <<>>
               PROVE  \/ status[t] = "completed" /\ log[t][Len(log[t])] = "TASK_COMPLETED"
                      \/ status[t] = "failed" /\ log[t][Len(log[t])] = "TASK_FAILED"
    BY DEF VerdictsAreRecorded, Recorded
  <2>1. Matches(t) /\ RunningIsWorkedOn(t)
    BY <1>1 DEF History
  <2> QED
    BY <2>1 DEF Matches, RunningIsWorkedOn, LastEvent
<1> QED
  BY <1>1, HistoryHolds, PTL

-----------------------------------------------------------------------------
(* Where a _run has a step to take: awaited handlers and agents end, and a *)
(* permit can be had.                                                      *)
CanGoOn(k, t) == pc[k][t] \in InProgress \/ (pc[k][t] = "queued" /\ permits > 0)

(* The _runs of all rounds that compete for the permits never all wait for *)
(* each other: while one of them has not ended, one can go on.             *)
THEOREM SomeRunCanGoOn ==
    Spec => []((\E k \in Rounds, t \in Tasks : pc[k][t] \in InProgress \cup {"queued"}) =>
                   \E k \in Rounds, t \in Tasks : CanGoOn(k, t))
<1>1. ASSUME TypeOK, ParallelismIsBounded,
             NEW k \in Rounds, NEW t \in Tasks, pc[k][t] \in InProgress \cup {"queued"}
      PROVE  \E l \in Rounds, u \in Tasks : CanGoOn(l, u)
  <2> SUFFICES ASSUME ~CanGoOn(k, t) PROVE \E l \in Rounds, u \in Tasks : CanGoOn(l, u)
    BY <1>1
  <2>1. permits = 0
    BY <1>1 DEF CanGoOn, TypeOK
  <2>2. Cardinality(Holders) # 0
    BY <1>1, <2>1, HoldersFinite, FS_CardinalityType, SchedulerAssumption DEF ParallelismIsBounded
  <2>3. PICK lu \in Holders : TRUE
    BY <2>2, FS_EmptySet
  <2> QED
    BY <2>3 DEF Holders, CanGoOn
<1>2. TypeOK /\ ParallelismIsBounded =>
          ((\E k \in Rounds, t \in Tasks : pc[k][t] \in InProgress \cup {"queued"}) =>
               \E k \in Rounds, t \in Tasks : CanGoOn(k, t))
  BY <1>1
<1> QED
  BY <1>2, TypeCorrect, ParallelismBounded, PTL

-----------------------------------------------------------------------------
(* The search for cycles.  Its recursion ends, for what is still to do     *)
(* gets lighter: a task is on the way that was not, or there is one less   *)
(* to do.                                                                  *)
Results(deps) == [cycle : BOOLEAN, visited : SUBSET DOMAIN deps]

Weight(deps, at) ==
    Cardinality(DOMAIN deps \ at.visiting) * (Cardinality(DOMAIN deps) + 1) + Cardinality(at.todo)

Below(deps, at, t) == [at EXCEPT !.visiting = @ \cup {t}, !.todo = deps[t] \cap DOMAIN deps]

Beside(at, t, visited) == [at EXCEPT !.visited = visited, !.todo = @ \ {t}]

LEMMA Least ==
    ASSUME NEW S, S \subseteq Nat, S # {}
    PROVE  \E m \in S : \A n \in S : m <= n
<1>1. IsWellFoundedOn(OpToRel(<, Nat), Nat)
  BY NatLessThanWellFounded
<1>2. PICK m \in S : \A n \in S : ~(<<n, m>> \in OpToRel(<, Nat))
  BY <1>1, WFMin
<1>3. \A n \in S : ~(n < m)
  BY <1>2 DEF OpToRel
<1> QED
  BY <1>3

LEMMA WeightBounded ==
    ASSUME NEW deps, IsFiniteSet(DOMAIN deps), NEW at \in Points(deps)
    PROVE  /\ Weight(deps, at) \in Nat
           /\ \A n \in Nat : n = Cardinality(DOMAIN deps) => Weight(deps, at) <= n * (n + 1) + n
<1> DEFINE D == DOMAIN deps
<1>1. /\ at.todo \subseteq D
      /\ D \ at.visiting \subseteq D
  BY DEF Points
<1>2. PICK n \in Nat : n = Cardinality(D)
  BY FS_CardinalityType
<1>3. PICK i \in Nat : i = Cardinality(D \ at.visiting) /\ i <= n
  BY <1>1, <1>2, FS_Subset, FS_CardinalityType
<1>4. PICK j \in Nat : j = Cardinality(at.todo) /\ j <= n
  BY <1>1, <1>2, FS_Subset, FS_CardinalityType
<1>5. Weight(deps, at) = i * (n + 1) + j
  BY <1>2, <1>3, <1>4 DEF Weight
<1>6. i * (n + 1) \in Nat /\ i * (n + 1) <= n * (n + 1)
  BY <1>2, <1>3, Z3
<1> QED
  BY <1>2, <1>4, <1>5, <1>6

LEMMA OneLess ==
    ASSUME NEW S, IsFiniteSet(S), NEW x \in S
    PROVE  \E n \in Nat : n = Cardinality(S \ {x}) /\ Cardinality(S) = n + 1
<1>1. IsFiniteSet(S \ {x}) /\ Cardinality(S \ {x}) = Cardinality(S) - 1
  BY FS_RemoveElement
<1>2. Cardinality(S) \in Nat /\ Cardinality(S \ {x}) \in Nat
  BY <1>1, FS_CardinalityType
<1> QED
  BY <1>1, <1>2

LEMMA Lighter ==
    ASSUME NEW deps, IsFiniteSet(DOMAIN deps), NEW at \in Points(deps), NEW t \in at.todo
    PROVE  /\ t \notin at.visiting =>
                  Below(deps, at, t) \in Points(deps) /\ Weight(deps, Below(deps, at, t)) < Weight(deps, at)
           /\ \A visited \in SUBSET DOMAIN deps :
                  /\ Beside(at, t, visited) \in Points(deps)
                  /\ Weight(deps, Beside(at, t, visited)) < Weight(deps, at)
<1> DEFINE D == DOMAIN deps
           U == D \ at.visiting
<1>1. t \in D /\ at.todo \subseteq D /\ at.visiting \subseteq D /\ U \subseteq D
  BY DEF Points
<1>2. PICK n \in Nat : n = Cardinality(D)
  BY FS_CardinalityType
<1>3. IsFiniteSet(U) /\ IsFiniteSet(at.todo)
  BY <1>1, FS_Subset
<1>4. PICK i \in Nat : i = Cardinality(U)
  BY <1>3, FS_CardinalityType
<1>5. PICK j \in Nat : j = Cardinality(at.todo)
  BY <1>3, FS_CardinalityType
<1>6. Weight(deps, at) = i * (n + 1) + j
  BY <1>2, <1>4, <1>5 DEF Weight
<1>7. ASSUME t \notin at.visiting
      PROVE  Below(deps, at, t) \in Points(deps) /\ Weight(deps, Below(deps, at, t)) < Weight(deps, at)
  <2> DEFINE b == Below(deps, at, t)
  <2>1. /\ b \in Points(deps)
        /\ D \ b.visiting = U \ {t}
        /\ b.todo \subseteq D
    BY <1>1 DEF Below, Points
  <2>2. t \in U
    BY <1>1, <1>7
  <2>3. PICK k \in Nat : k = Cardinality(U \ {t}) /\ i = k + 1
    BY <1>3, <1>4, <2>2, OneLess
  <2>4. PICK l \in Nat : l = Cardinality(b.todo) /\ l <= n
    BY <1>2, <2>1, FS_Subset, FS_CardinalityType
  <2>5. Weight(deps, b) = k * (n + 1) + l
    BY <1>2, <2>1, <2>3, <2>4 DEF Weight
  <2>6. (k + 1) * (n + 1) = k * (n + 1) + (n + 1) /\ k * (n + 1) \in Nat
    BY Z3
  <2>7. k * (n + 1) + l < i * (n + 1) + j
    BY <2>3, <2>4, <2>6
  <2> QED
    BY <1>6, <2>1, <2>5, <2>7
<1>8. ASSUME NEW visited \in SUBSET D
      PROVE  /\ Beside(at, t, visited) \in Points(deps)
             /\ Weight(deps, Beside(at, t, visited)) < Weight(deps, at)
  <2> DEFINE b == Beside(at, t, visited)
  <2>1. /\ b \in Points(deps)
        /\ b.visiting = at.visiting
        /\ b.todo = at.todo \ {t}
    BY <1>1 DEF Beside, Points
  <2>2. PICK l \in Nat : l = Cardinality(b.todo) /\ j = l + 1
    BY <1>3, <1>5, <2>1, OneLess
  <2>3. Weight(deps, b) = i * (n + 1) + l
    BY <1>2, <1>4, <2>1, <2>2 DEF Weight
  <2>4. i * (n + 1) \in Nat
    BY Z3
  <2> QED
    BY <1>6, <2>1, <2>2, <2>3, <2>4
<1> QED
  BY <1>7, <1>8

(* One visit, by cases of the task it begins with. *)
VisitOf(deps, w, at, t) ==
    /\ t \in at.visiting => Visit(deps, w, at) = [cycle |-> TRUE, visited |-> at.visited]
    /\ t \notin at.visiting /\ t \in at.visited =>
           Visit(deps, w, at) = w[Beside(at, t, at.visited)]
    /\ t \notin at.visiting \cup at.visited =>
        \A r \in Results(deps) : r = w[Below(deps, at, t)] =>
           Visit(deps, w, at) =
               IF r.cycle THEN [cycle |-> TRUE, visited |-> r.visited \cup {t}]
               ELSE w[Beside(at, t, r.visited \cup {t})]

LEMMA VisitCases ==
    ASSUME NEW deps, NEW at \in Points(deps), at.todo # {}
    PROVE  \E t \in at.todo : \A w : VisitOf(deps, w, at, t)
<1>1. PICK t \in at.todo : t = CHOOSE u \in at.todo : TRUE
  OBVIOUS
<1>2. ASSUME NEW w, t \in at.visiting PROVE Visit(deps, w, at) = [cycle |-> TRUE, visited |-> at.visited]
  BY <1>1, <1>2 DEF Visit
<1>3. ASSUME NEW w, t \notin at.visiting, t \in at.visited
      PROVE  Visit(deps, w, at) = w[Beside(at, t, at.visited)]
  BY <1>1, <1>3 DEF Visit, Beside
<1>4. ASSUME NEW w, t \notin at.visiting \cup at.visited, NEW r \in Results(deps), r = w[Below(deps, at, t)]
      PROVE  Visit(deps, w, at) =
                IF r.cycle THEN [cycle |-> TRUE, visited |-> r.visited \cup {t}]
                ELSE w[Beside(at, t, r.visited \cup {t})]
  <2>1. [r EXCEPT !.visited = @ \cup {t}] = [cycle |-> r.cycle, visited |-> r.visited \cup {t}]
    BY DEF Results
  <2>2. r.cycle \in BOOLEAN
    BY DEF Results
  <2> QED
    BY <1>1, <1>4, <2>1, <2>2 DEF Visit, Beside, Below
<1> QED
  BY <1>1, <1>2, <1>3, <1>4 DEF VisitOf

(* What a visit finds depends only on lighter points.                      *)
LEMMA VisitLocal ==
    ASSUME NEW deps, IsFiniteSet(DOMAIN deps), NEW at \in Points(deps),
           NEW v \in [Points(deps) -> Results(deps)], NEW w,
           \A p \in Points(deps) : Weight(deps, p) < Weight(deps, at) => w[p] = v[p]
    PROVE  Visit(deps, w, at) \in Results(deps) /\ Visit(deps, w, at) = Visit(deps, v, at)
<1>1. CASE at.todo = {}
  BY <1>1 DEF Visit, Points, Results
<1>2. CASE at.todo # {}
  <2>1. PICK t \in at.todo : \A f : VisitOf(deps, f, at, t)
    BY <1>2, VisitCases
  <2>2. t \in DOMAIN deps /\ at.visited \in SUBSET DOMAIN deps
    BY DEF Points
  <2>3. \A visited \in SUBSET DOMAIN deps :
           /\ v[Beside(at, t, visited)] \in Results(deps)
           /\ w[Beside(at, t, visited)] = v[Beside(at, t, visited)]
    BY Lighter
  <2>4. CASE t \in at.visiting
    <3>1. \A f : Visit(deps, f, at) = [cycle |-> TRUE, visited |-> at.visited]
      BY <2>1, <2>4 DEF VisitOf
    <3>2. [cycle |-> TRUE, visited |-> at.visited] \in Results(deps)
      BY <2>2 DEF Results
    <3> QED
      BY <3>1, <3>2
  <2>5. CASE t \notin at.visiting /\ t \in at.visited
    BY <2>1, <2>2, <2>3, <2>5 DEF VisitOf
  <2>6. CASE t \notin at.visiting \cup at.visited
    <3>1. PICK r \in Results(deps) : r = v[Below(deps, at, t)] /\ r = w[Below(deps, at, t)]
      BY <2>6, Lighter
    <3>2. r.visited \cup {t} \in SUBSET DOMAIN deps
      BY <2>2 DEF Results
    <3>3. \A f : r = f[Below(deps, at, t)] =>
             Visit(deps, f, at) =
                 IF r.cycle THEN [cycle |-> TRUE, visited |-> r.visited \cup {t}]
                 ELSE f[Beside(at, t, r.visited \cup {t})]
      BY <2>1, <2>6 DEF VisitOf
    <3>4. [cycle |-> TRUE, visited |-> r.visited \cup {t}] \in Results(deps)
      BY <3>2 DEF Results
    <3> QED
      BY <2>3, <3>1, <3>2, <3>3, <3>4
  <2> QED
    BY <2>4, <2>5, <2>6
<1> QED
  BY <1>1, <1>2

(* So some function does what visit does, down to points of any weight.    *)
LEMMA Walkable ==
    ASSUME NEW deps, IsFiniteSet(DOMAIN deps), NEW n \in Nat
    PROVE  \E w \in [Points(deps) -> Results(deps)] : \A p \in Points(deps) :
               Weight(deps, p) < n => w[p] = Visit(deps, w, p)
<1> DEFINE P == Points(deps)
           Good(m) == \E w \in [P -> Results(deps)] : \A p \in P :
                          Weight(deps, p) < m => w[p] = Visit(deps, w, p)
           Bad == {m \in Nat : ~Good(m)}
<1>1. \A p \in P : Weight(deps, p) \in Nat
  BY WeightBounded
<1> SUFFICES ASSUME Bad # {} PROVE FALSE
  OBVIOUS
<1>2. PICK m \in Bad : \A k \in Bad : m <= k
  BY Least
<1>3. Good(0)
  <2> DEFINE w == [p \in P |-> [cycle |-> FALSE, visited |-> {}]]
  <2>1. w \in [P -> Results(deps)]
    BY DEF Results
  <2> QED
    <3>1. \A p \in P : ~(Weight(deps, p) < 0)
      BY <1>1
    <3> HIDE DEF w
    <3> QED
      BY <2>1, <3>1
<1>4. PICK k \in Nat : m = k + 1 /\ Good(k)
  <2>1. m \in Nat /\ m # 0
    BY <1>3
  <2>2. m - 1 \in Nat /\ m = (m - 1) + 1 /\ ~(m <= m - 1)
    BY <2>1
  <2>3. Good(m - 1)
    BY <1>2, <2>2
  <2> QED
    BY <2>2, <2>3
<1>5. PICK w \in [P -> Results(deps)] : \A p \in P :
                          Weight(deps, p) < k => w[p] = Visit(deps, w, p)
  BY <1>4
<1> DEFINE next == [p \in P |-> IF Weight(deps, p) < k THEN w[p] ELSE Visit(deps, w, p)]
<1>6. \A p \in P : Visit(deps, w, p) \in Results(deps)
  BY VisitLocal
<1>7. next \in [P -> Results(deps)]
  BY <1>6
<1>8. ASSUME NEW p \in P, Weight(deps, p) < m PROVE next[p] = Visit(deps, next, p)
  <2>1. next[p] = Visit(deps, w, p)
    BY <1>5
  <2>2. \A q \in P : Weight(deps, q) < Weight(deps, p) => next[q] = w[q]
    BY <1>1, <1>4, <1>8
  <2>3. Visit(deps, next, p) = Visit(deps, w, p)
    <3> HIDE DEF next
    <3> QED
      BY <2>2, VisitLocal
  <2> QED
    BY <2>1, <2>3
<1>9. Good(m)
  <2> HIDE DEF next
  <2> QED
    BY <1>7, <1>8
<1> QED
  BY <1>9

(* The search is that function. *)
LEMMA SearchVisits ==
    ASSUME NEW deps, IsFiniteSet(DOMAIN deps)
    PROVE  /\ Search(deps) \in [Points(deps) -> Results(deps)]
           /\ \A p \in Points(deps) : Search(deps)[p] = Visit(deps, Search(deps), p)
<1> DEFINE P == Points(deps)
           Follows(w) == w = [at \in P |-> Visit(deps, w, at)]
           S == Search(deps)
<1>1. S = CHOOSE w : Follows(w)
  BY Zenon DEF Search
<1>2. \A p \in P : Weight(deps, p) \in Nat
  BY WeightBounded
<1>3. PICK n \in Nat : \A p \in P : Weight(deps, p) < n
  <2>1. PICK c \in Nat : c = Cardinality(DOMAIN deps)
    BY FS_CardinalityType
  <2>2. c * (c + 1) \in Nat
    BY Z3
  <2>3. \A p \in P : Weight(deps, p) <= c * (c + 1) + c
    BY <2>1, WeightBounded
  <2>4. PICK b \in Nat : b = c * (c + 1) + c
    BY <2>2
  <2>5. b + 1 \in Nat /\ \A p \in P : Weight(deps, p) < b + 1
    BY <1>2, <2>3, <2>4
  <2> QED
    BY <2>5
<1>4. PICK w \in [P -> Results(deps)] : \A p \in P : w[p] = Visit(deps, w, p)
  BY <1>3, Walkable
<1>5. Follows(w)
  BY <1>4
<1>6. Follows(S)
  <2> HIDE DEF Follows
  <2> QED
    BY <1>1, <1>5, Zenon
<1>7. \A p \in P : S[p] = Visit(deps, S, p)
  <2> HIDE DEF S
  <2> QED
    BY <1>6
<1>8. \A p \in P : S[p] = w[p]
  <2> DEFINE Apart == {Weight(deps, p) : p \in {q \in P : S[q] # w[q]}}
  <2> SUFFICES ASSUME Apart # {} PROVE FALSE
    OBVIOUS
  <2>1. Apart \subseteq Nat
    BY <1>2
  <2>2. PICK m \in Apart : \A k \in Apart : m <= k
    BY <2>1, Least
  <2>3. PICK p \in P : S[p] # w[p] /\ m = Weight(deps, p)
    OBVIOUS
  <2>4. \A q \in P : Weight(deps, q) < Weight(deps, p) => S[q] = w[q]
    BY <1>2, <2>2, <2>3
  <2>5. Visit(deps, S, p) = Visit(deps, w, p)
    <3> HIDE DEF S
    <3> QED
      BY <2>4, VisitLocal
  <2> QED
    BY <1>4, <1>7, <2>3, <2>5
<1>9. DOMAIN S = P
  <2> HIDE DEF S
  <2> QED
    BY <1>6
<1>10. S = [p \in P |-> S[p]]
  <2> HIDE DEF S
  <2> QED
    BY <1>6
<1> QED
  <2> HIDE DEF S
  <2>1. S \in [P -> Results(deps)]
    BY <1>8, <1>10
  <2> QED
    BY <1>7, <2>1 DEF S

-----------------------------------------------------------------------------
(* Where the search may be: what is visited depends on nothing else and    *)
(* has no cycle, and each task on the way depends on another of them or on *)
(* any of those still to do.                                               *)
Settled(deps, ts) ==
    /\ \A t \in ts : deps[t] \cap DOMAIN deps \subseteq ts
    /\ \A us \in SUBSET ts : us # {} => \E t \in us : deps[t] \cap us = {}

OnTheWay(deps, at) ==
    /\ at.visiting \cap at.visited = {}
    /\ Settled(deps, at.visited)
    /\ \A s \in at.todo, u \in at.visiting : deps[u] \cap (at.visiting \cup {s}) # {}

(* What it then tells. *)
Tells(deps, at, r) ==
    /\ r.cycle => ~Acyclic(deps)
    /\ ~r.cycle => /\ at.visited \cup at.todo \subseteq r.visited
                   /\ r.visited \cap at.visiting = {}
                   /\ Settled(deps, r.visited)

LEMMA SettledGrows ==
    ASSUME NEW deps, NEW ts \in SUBSET DOMAIN deps, Settled(deps, ts),
           NEW t \in DOMAIN deps \ ts, deps[t] \cap DOMAIN deps \subseteq ts
    PROVE  Settled(deps, ts \cup {t})
<1>1. ASSUME NEW us \in SUBSET (ts \cup {t}), us # {}
      PROVE  \E u \in us : deps[u] \cap us = {}
  <2>1. CASE us \cap ts = {}
    BY <1>1, <2>1
  <2>2. CASE us \cap ts # {}
    <3>1. PICK u \in us \cap ts : deps[u] \cap (us \cap ts) = {}
      BY <2>2 DEF Settled
    <3>2. deps[u] \cap us = {}
      BY <3>1 DEF Settled
    <3> QED
      BY <3>1, <3>2
  <2> QED
    BY <2>1, <2>2
<1> QED
  BY <1>1 DEF Settled

LEMMA SearchTells ==
    ASSUME NEW deps, IsFiniteSet(DOMAIN deps), NEW at \in Points(deps), OnTheWay(deps, at)
    PROVE  Tells(deps, at, Search(deps)[at])
<1> DEFINE P == Points(deps)
           Wrong == {p \in P : OnTheWay(deps, p) /\ ~Tells(deps, p, Search(deps)[p])}
           Weights == {Weight(deps, p) : p \in Wrong}
<1>1. \A p \in P : Weight(deps, p) \in Nat
  BY WeightBounded
<1> SUFFICES ASSUME Wrong # {} PROVE FALSE
  OBVIOUS
<1>2. PICK m \in Weights : \A k \in Weights : m <= k
  <2>1. Weights \subseteq Nat /\ Weights # {}
    BY <1>1
  <2> QED
    BY <2>1, Least
<1>3. PICK p \in Wrong : m = Weight(deps, p)
  OBVIOUS
<1>4. \A q \in P : Weight(deps, q) < Weight(deps, p) /\ OnTheWay(deps, q) =>
          Tells(deps, q, Search(deps)[q])
  BY <1>1, <1>2, <1>3
<1> DEFINE r == Search(deps)[p]
<1>5. r \in Results(deps) /\ r = Visit(deps, Search(deps), p)
  BY SearchVisits
<1>6. p \in P /\ OnTheWay(deps, p)
  OBVIOUS
<1> HIDE DEF r
<1>7. Tells(deps, p, r)
  <2>1. CASE p.todo = {}
    BY <1>5, <1>6, <2>1 DEF Visit, Tells, OnTheWay
  <2>2. CASE p.todo # {}
    <3>1. PICK t \in p.todo : VisitOf(deps, Search(deps), p, t)
      BY <1>6, <2>2, VisitCases
    <3>2. t \in DOMAIN deps /\ p.visiting \subseteq DOMAIN deps /\ p.visited \subseteq DOMAIN deps
      BY <1>6 DEF Points
    <3>3. CASE t \in p.visiting
      <4>1. r.cycle
        BY <1>5, <3>1, <3>3 DEF VisitOf
      <4>2. \A u \in p.visiting : deps[u] \cap p.visiting # {}
        BY <1>6, <3>3 DEF OnTheWay
      <4>3. ~Acyclic(deps)
        BY <3>2, <3>3, <4>2 DEF Acyclic
      <4> QED
        BY <4>1, <4>3 DEF Tells
    <3>4. ASSUME NEW visited \in SUBSET DOMAIN deps, Settled(deps, visited),
                 p.visited \cup {t} \subseteq visited, visited \cap p.visiting = {},
                 r = Search(deps)[Beside(p, t, visited)]
          PROVE  Tells(deps, p, r)
      <4> DEFINE b == Beside(p, t, visited)
      <4>1. b \in P /\ Weight(deps, b) < Weight(deps, p)
        BY <1>6, Lighter
      <4>2. b.visiting = p.visiting /\ b.visited = visited /\ b.todo = p.todo \ {t}
        BY <1>6 DEF Points, Beside
      <4>3. OnTheWay(deps, b)
        BY <1>6, <3>4, <4>2 DEF OnTheWay
      <4>4. Tells(deps, b, r)
        BY <1>4, <3>4, <4>1, <4>3
      <4> QED
        BY <3>4, <4>2, <4>4 DEF Tells
    <3>5. CASE t \notin p.visiting /\ t \in p.visited
      <4>1. r = Search(deps)[Beside(p, t, p.visited)]
        BY <1>5, <3>1, <3>5 DEF VisitOf
      <4> QED
        BY <1>6, <3>2, <3>4, <3>5, <4>1 DEF OnTheWay
    <3>6. CASE t \notin p.visiting \cup p.visited
      <4> DEFINE b == Below(deps, p, t)
      <4>1. b \in P /\ Weight(deps, b) < Weight(deps, p)
        BY <1>6, <3>6, Lighter
      <4>2. /\ b.visiting = p.visiting \cup {t}
            /\ b.visited = p.visited
            /\ b.todo = deps[t] \cap DOMAIN deps
        BY <1>6 DEF Points, Below
      <4>3. OnTheWay(deps, b)
        BY <1>6, <3>6, <4>2 DEF OnTheWay
      <4>4. PICK q \in Results(deps) : q = Search(deps)[b] /\ Tells(deps, b, q)
        BY <1>4, <4>1, <4>3, SearchVisits
      <4>5. r = IF q.cycle THEN [cycle |-> TRUE, visited |-> q.visited \cup {t}]
                ELSE Search(deps)[Beside(p, t, q.visited \cup {t})]
        BY <1>5, <3>1, <3>6, <4>4 DEF VisitOf
      <4>6. CASE q.cycle
        BY <4>4, <4>5, <4>6 DEF Tells
      <4>7. CASE ~q.cycle
        <5>1. /\ p.visited \cup (deps[t] \cap DOMAIN deps) \subseteq q.visited
              /\ q.visited \cap (p.visiting \cup {t}) = {}
              /\ Settled(deps, q.visited)
              /\ q.visited \subseteq DOMAIN deps
          BY <4>2, <4>4, <4>7 DEF Tells, Results
        <5>2. Settled(deps, q.visited \cup {t})
          BY <3>2, <5>1, SettledGrows
        <5>3. r = Search(deps)[Beside(p, t, q.visited \cup {t})]
          BY <4>5, <4>7
        <5> QED
          BY <3>2, <3>4, <3>6, <5>1, <5>2, <5>3
      <4> QED
        BY <4>6, <4>7
    <3> QED
      BY <3>3, <3>5, <3>6
  <2> QED
    BY <2>1, <2>2
<1> QED
  BY <1>3, <1>7 DEF r

(* The depth-first search finds a cycle exactly where there is one.        *)
THEOREM SearchIsRight ==
    ASSUME NEW deps, IsFiniteSet(DOMAIN deps)
    PROVE  HasCycle(deps) <=> ~Acyclic(deps)
<1> DEFINE start == [visiting |-> {}, visited |-> {}, todo |-> DOMAIN deps]
           r == Search(deps)[start]
<1>1. start \in Points(deps)
  BY DEF Points
<1>2. OnTheWay(deps, start)
  BY DEF OnTheWay, Settled
<1>3. Tells(deps, start, r)
  BY <1>1, <1>2, SearchTells
<1>4. r \in Results(deps) /\ HasCycle(deps) = r.cycle
  BY <1>1, SearchVisits DEF HasCycle
<1> HIDE DEF r
<1>5. CASE r.cycle
  BY <1>3, <1>4, <1>5 DEF Tells
<1>6. CASE ~r.cycle
  <2>1. r.visited = DOMAIN deps /\ Settled(deps, r.visited)
    BY <1>3, <1>4, <1>6 DEF Tells, Results
  <2>2. Acyclic(deps)
    BY <2>1 DEF Settled, Acyclic
  <2> QED
    BY <1>4, <1>6, <2>2
<1> QED
  BY <1>5, <1>6

LEMMA ExtendedFinite ==
    ASSUME TypeOK, NEW t \in Tasks, NEW deps
    PROVE  IsFiniteSet(DOMAIN Extended(t, deps))
<1>1. DOMAIN Extended(t, deps) \subseteq Tasks
  BY DEF Extended, TypeOK
<1> QED
  BY <1>1, SchedulerAssumption, FS_Subset

(* Of the tasks that may come next, add refuses those that would close a   *)
(* cycle, and no others.                                                   *)
THEOREM RefusalsAreRight == Spec => []OnlyCyclesAreRefused
<1>1. ASSUME TypeOK PROVE OnlyCyclesAreRefused
  <2> SUFFICES ASSUME NEW t \in Tasks \ added, NEW deps \in SUBSET Tasks
               PROVE  Refused(t, deps) <=> ~Acyclic(Extended(t, deps))
    BY DEF OnlyCyclesAreRefused
  <2>1. HasCycle(Extended(t, deps)) <=> ~Acyclic(Extended(t, deps))
    BY <1>1, ExtendedFinite, SearchIsRight
  <2>2. ASSUME t \in deps PROVE ~Acyclic(Extended(t, deps))
    <3>1. t \in DOMAIN Extended(t, deps) /\ Extended(t, deps)[t] = deps
      BY DEF Extended
    <3>2. {t} \in SUBSET DOMAIN Extended(t, deps) /\ {t} # {} /\ deps \cap {t} # {}
      BY <2>2, <3>1
    <3> QED
      BY <3>1, <3>2 DEF Acyclic
  <2> QED
    BY <2>1, <2>2 DEF Refused
<1> QED
  BY <1>1, TypeCorrect, PTL

Graph == [t \in added |-> dependencies[t]]

(* However add is called, the graph never has a cycle.                     *)
THEOREM GraphStaysAcyclic == Spec => []Acyclic(Graph)
<1>1. Init => Acyclic(Graph)
  BY DEF Init, Acyclic, Graph
<1>2. ASSUME TypeOK, Acyclic(Graph), [Next]_vars PROVE Acyclic(Graph)'
  <2>1. ASSUME NEW t \in Tasks, NEW deps \in SUBSET Tasks, Add(t, deps) PROVE Acyclic(Graph)'
    <3>1. Graph' = Extended(t, deps)
      BY <1>2, <2>1 DEF Graph, Extended, Add, TypeOK
    <3>2. Acyclic(Extended(t, deps))
      BY <1>2, <2>1, ExtendedFinite, SearchIsRight DEF Add, Refused
    <3> QED
      BY <3>1, <3>2 DEF Acyclic
  <2>2. CASE UNCHANGED <<added, dependencies>>
    BY <1>2, <2>2 DEF Graph, Acyclic
  <2>3. ASSUME NEW k \in Rounds, NEW t \in Tasks, Run(k, t) PROVE UNCHANGED <<added, dependencies>>
    BY <2>3 DEF Run, Start, StartHandled, AgentAnswers, AgentFails, AgentStrays,
       CompletionHandled, FailureHandled, Fail
  <2>4. RunReady \/ GatherEnds \/ UNCHANGED vars => UNCHANGED <<added, dependencies>>
    BY DEF RunReady, GatherEnds, vars
  <2> QED
    BY <1>2, <2>1, <2>2, <2>3, <2>4 DEF Next
<1> QED
  BY <1>1, <1>2, TypeCorrect, PTL DEF Spec

(* Tasks wait for each other in no circle: while no task has failed or is  *)
(* at work, and none depends on a task that is not in the graph, one of    *)
(* those that are pending is ready.                                        *)
SomeoneIsReady ==
    /\ \A t \in added : status[t] \in {"pending", "completed"} /\ dependencies[t] \subseteq added
    /\ \E t \in added : status[t] = "pending"
    => Ready # {}

(* run_ready starts something, then, whenever the graph may still progress. *)
THEOREM ProgressIsPossible == Spec => []SomeoneIsReady
<1>1. ASSUME TypeOK, Acyclic(Graph) PROVE SomeoneIsReady
  <2> DEFINE Waiting == {t \in added : status[t] = "pending"}
  <2> SUFFICES ASSUME \A t \in added : status[t] \in {"pending", "completed"},
                      \A t \in added : dependencies[t] \subseteq added,
                      Waiting # {}
               PROVE  Ready # {}
    BY DEF SomeoneIsReady
  <2>1. PICK t \in Waiting : Graph[t] \cap Waiting = {}
    BY <1>1 DEF Acyclic, Graph
  <2>2. \A d \in dependencies[t] : d \in added /\ status[d] = "completed"
    BY <2>1 DEF Graph
  <2> QED
    BY <2>1, <2>2 DEF Ready
<1> QED
  BY <1>1, TypeCorrect, GraphStaysAcyclic, PTL
=============================================================================
