----------------------- MODULE ProjectExecutionProofs -----------------------
(***************************************************************************)
(* Theorems about ProjectExecution, for any projects, clients, specialists *)
(* and number of permits.                                                  *)
(***************************************************************************)
EXTENDS ProjectExecution, FiniteSetTheorems, TLAPS

(* The members of the enumerations, so that no step below has to expand    *)
(* them to type a variable.                                                *)
LEMMA Members ==
    /\ {"absent", "created", "failed", "planning", "running", "completed"} \subseteq Statuses
    /\ {"none", "waiting", "calling", "ok", "error"} \subseteq TaskStates
    /\ {"none", "200", "404", "409", "500"} \subseteq Outcomes
    /\ EmptyCheckpoint \in Checkpoint
    /\ NoTasks \in [Specialists -> TaskStates]
BY DEF Statuses, Startable, Busy, TaskStates, Outcomes, EmptyCheckpoint, Checkpoint, NoTasks, Texts

LEMMA InitInv == ASSUME Init PROVE Inv
<1> USE DEF Init
<1>1. TypeOK
  BY Members, ExecutionAssumption DEF TypeOK, Texts
<1>2. OneRunPerProject /\ BusyIsRun
  BY DEF OneRunPerProject, BusyIsRun, Running, Busy
<1>3. \A c \in Clients : RunInv(c)
  BY DEF RunInv
<1>4. \A p \in Projects : ProjectInv(p)
  BY DEF ProjectInv, EmptyCheckpoint
<1> QED BY <1>1, <1>2, <1>3, <1>4 DEF Inv

(* The three ways a coroutine moves on, typed once for all its callers. *)
LEMMA AnswerType ==
    ASSUME TypeOK, NEW c \in Clients, NEW code \in Outcomes, Answer(c, code)
    PROVE  /\ pc' \in [Clients -> {"idle", "planner", "specialists", "reviewer"}]
           /\ snap' \in [Clients -> Checkpoint]
           /\ task' \in [Clients -> [Specialists -> TaskStates]]
           /\ outcome' \in [Clients -> Outcomes]
<1>1. task' \in [Clients -> [Specialists -> TaskStates]]
  BY Members DEF TypeOK, Answer
<1>2. snap' \in [Clients -> Checkpoint]
  BY Members DEF TypeOK, Answer
<1> QED BY <1>1, <1>2 DEF TypeOK, Answer

LEMMA FailType ==
    ASSUME TypeOK, NEW c \in Clients, NEW p \in Projects, NEW code \in Outcomes, Fail(c, p, code)
    PROVE  /\ status' \in [Projects -> Statuses]
           /\ pc' \in [Clients -> {"idle", "planner", "specialists", "reviewer"}]
           /\ snap' \in [Clients -> Checkpoint]
           /\ task' \in [Clients -> [Specialists -> TaskStates]]
           /\ outcome' \in [Clients -> Outcomes]
<1>1. status' \in [Projects -> Statuses]
  BY Members DEF TypeOK, Fail
<1> QED BY <1>1, AnswerType DEF Fail

LEMMA OrchestrateType ==
    ASSUME TypeOK, NEW c \in Clients, NEW p \in Projects, NEW planner \in Texts,
           NEW copy \in Checkpoint, Orchestrate(c, p, planner, copy)
    PROVE  /\ status' \in [Projects -> Statuses]
           /\ pc' \in [Clients -> {"idle", "planner", "specialists", "reviewer"}]
           /\ snap' \in [Clients -> Checkpoint]
           /\ task' \in [Clients -> [Specialists -> TaskStates]]
           /\ outcome' \in [Clients -> Outcomes]
<1>1. CASE Fail(c, p, "409")
  BY <1>1, Members, FailType
<1>2. CASE ~Fail(c, p, "409")
  <2>1. [a \in Specialists |-> IF a \in copy.specialists THEN "ok" ELSE "waiting"]
           \in [Specialists -> TaskStates]
    BY Members
  <2>2. task' \in [Clients -> [Specialists -> TaskStates]]
    BY <1>2, <2>1 DEF TypeOK, Orchestrate
  <2>3. status' \in [Projects -> Statuses]
    BY <1>2, Members DEF TypeOK, Orchestrate
  <2>4. snap' \in [Clients -> Checkpoint]
    BY <1>2 DEF TypeOK, Orchestrate
  <2>5. pc' \in [Clients -> {"idle", "planner", "specialists", "reviewer"}]
    BY <1>2 DEF TypeOK, Orchestrate
  <2>6. outcome' \in [Clients -> Outcomes]
    BY <1>2, Members DEF TypeOK, Orchestrate
  <2> QED BY <2>2, <2>3, <2>4, <2>5, <2>6
<1> QED BY <1>1, <1>2

LEMMA TypeStep == ASSUME TypeOK, [Next]_vars PROVE TypeOK'
<1> USE DEF TypeOK, store, request
<1>0. TypeOK /\ PlannerOutputs \subseteq Texts /\ PromptKinds \subseteq Texts
  BY ExecutionAssumption
<1> USE Members
<1>1. ASSUME NEW p \in Projects, Create(p) PROVE TypeOK'
  BY <1>0, <1>1 DEF Create
<1>2. ASSUME NEW c \in Clients, NEW p \in Projects, Start(c, p) PROVE TypeOK'
  <2>1. CASE StartUnknown(c, p) \/ StartRefused(c, p)
    BY <1>2, <2>1, AnswerType DEF Start, StartUnknown, StartRefused
  <2>2. CASE StartPlanning(c, p)
    BY <1>2, <2>2 DEF Start, StartPlanning
  <2>3. CASE StartResumed(c, p)
    <3>1. ckpt[p].planner \in Texts
      BY <2>3 DEF StartResumed, Checkpoint
    <3> QED BY <1>2, <2>3, <3>1, OrchestrateType DEF Start, StartResumed
  <2> QED BY <1>2, <2>1, <2>2, <2>3 DEF Start
<1>3. ASSUME NEW c \in Clients, PlannerAnswers(c) PROVE TypeOK'
  <2>1. PICK content \in PlannerOutputs :
           /\ ckpt' = [ckpt EXCEPT ![proj[c]].planner = content]
           /\ Orchestrate(c, proj[c], content, snap[c])
    BY <1>3 DEF PlannerAnswers
  <2>2. ckpt' \in [Projects -> Checkpoint]
    BY <1>0, <2>1 DEF Checkpoint
  <2> QED BY <1>0, <1>3, <2>1, <2>2, OrchestrateType DEF PlannerAnswers
<1>4. ASSUME NEW c \in Clients, PlannerRaises(c) \/ ReviewerRaises(c) PROVE TypeOK'
  BY <1>4, FailType DEF PlannerRaises, ReviewerRaises
<1>5. ASSUME NEW c \in Clients, NEW a \in Specialists, CallSpecialist(c, a) PROVE TypeOK'
  BY <1>5 DEF CallSpecialist
<1>6. ASSUME NEW c \in Clients, NEW a \in Specialists, SpecialistAnswers(c, a) PROVE TypeOK'
  <2>1. ckpt' \in [Projects -> Checkpoint]
    BY <1>6 DEF SpecialistAnswers, Checkpoint
  <2> QED BY <1>6, <2>1 DEF SpecialistAnswers
<1>7. ASSUME NEW c \in Clients, NEW a \in Specialists, SpecialistRaises(c, a) PROVE TypeOK'
  BY <1>7 DEF SpecialistRaises
<1>8. ASSUME NEW c \in Clients, GatherEnds(c) PROVE TypeOK'
  <2>1. CASE Fail(c, proj[c], "500")
    BY <1>8, <2>1, FailType DEF GatherEnds
  <2>2. CASE Complete(c, proj[c])
    BY <1>8, <2>2, AnswerType DEF GatherEnds, Complete
  <2>3. CASE UNCHANGED <<status, snap, task, outcome>>
    BY <1>8, <2>1, <2>2, <2>3 DEF GatherEnds
  <2> QED BY <1>8, <2>1, <2>2, <2>3 DEF GatherEnds
<1>9. ASSUME NEW c \in Clients, ReviewerAnswers(c) PROVE TypeOK'
  <2>1. ckpt' \in [Projects -> Checkpoint]
    BY <1>9 DEF ReviewerAnswers, Checkpoint
  <2> QED BY <1>9, <2>1, AnswerType DEF ReviewerAnswers, Complete
<1>10. CASE UNCHANGED vars
  BY <1>10 DEF vars
<1> QED BY <1>1, <1>2, <1>3, <1>4, <1>5, <1>6, <1>7, <1>8, <1>9, <1>10 DEF Next, AgentStep

(* Every variable always has its type. *)
THEOREM TypeCorrect == Spec => []TypeOK
<1>1. Init => TypeOK
  BY InitInv DEF Inv
<1>2. TypeOK /\ [Next]_vars => TypeOK'
  BY TypeStep
<1> QED BY <1>1, <1>2, PTL DEF Spec

-----------------------------------------------------------------------------
(* A step of one request c about one project p that no other request runs. *)
(* It is enough to look at c and p: nothing of the others changes.         *)
LEMMA RunStep ==
    ASSUME Inv, TypeOK', NEW c \in Clients, NEW p \in Projects,
           \A d \in Clients \ {c} : /\ ~Running(d, p)
                                    /\ pc'[d] = pc[d] /\ proj'[d] = proj[d]
                                    /\ snap'[d] = snap[d] /\ task'[d] = task[d]
                                    /\ outcome'[d] = outcome[d],
           \A q \in Projects \ {p} : status'[q] = status[q] /\ ckpt'[q] = ckpt[q],
           pc[c] = "idle" \/ proj[c] = p,
           proj'[c] = p,
           status[p] # "completed",
           status'[p] \in Busy => pc'[c] # "idle",
           RunInv(c)',
           ProjectInv(p)'
    PROVE  Inv'
<1>1. OneRunPerProject'
  BY DEF Inv, OneRunPerProject, Running
<1>2. BusyIsRun'
  <2> SUFFICES ASSUME NEW q \in Projects, status'[q] \in Busy
               PROVE  \E d \in Clients : pc'[d] # "idle" /\ proj'[d] = q
    BY DEF BusyIsRun, Running
  <2>1. CASE q = p
    BY <2>1
  <2>2. CASE q # p
    <3>1. PICK d \in Clients : Running(d, q)
      BY <2>2 DEF Inv, BusyIsRun
    <3> QED BY <2>2, <3>1 DEF Running
  <2> QED BY <2>1, <2>2
<1>3. ASSUME NEW d \in Clients PROVE RunInv(d)'
  <2>1. CASE d = c
    BY <2>1
  <2>2. CASE d # c /\ proj[d] # p
    <3>1. RunInv(d) /\ proj[d] \in Projects \ {p}
      BY <2>2 DEF Inv, TypeOK
    <3> QED BY <2>2, <3>1 DEF RunInv
  <2>3. CASE d # c /\ proj[d] = p
    <3>1. RunInv(d) /\ pc[d] = "idle" /\ outcome[d] # "200"
      BY <2>3 DEF Inv, Running, RunInv
    <3> QED BY <2>3, <3>1 DEF RunInv
  <2> QED BY <2>1, <2>2, <2>3
<1>4. ASSUME NEW q \in Projects PROVE ProjectInv(q)'
  BY DEF Inv, ProjectInv
<1> QED BY <1>1, <1>2, <1>3, <1>4 DEF Inv

(* The project of a running request has that request only. *)
LEMMA RunsAlone ==
    ASSUME Inv, NEW c \in Clients, pc[c] # "idle"
    PROVE  /\ proj[c] \in Projects
           /\ status[proj[c]] \in Busy
           /\ \A d \in Clients \ {c} : ~Running(d, proj[c])
BY DEF Inv, TypeOK, RunInv, OneRunPerProject, Running, Busy

(* A project that is not busy has no request. *)
LEMMA NotBusyHasNoRun ==
    ASSUME Inv, NEW p \in Projects, status[p] \notin Busy, NEW c \in Clients
    PROVE  ~Running(c, p)
BY DEF Inv, TypeOK, RunInv, Running, Busy

LEMMA CreateInv ==
    ASSUME Inv, NEW p \in Projects, Create(p), TypeOK'
    PROVE  Inv'
<1> USE DEF store, request
<1>1. \A c \in Clients : ~Running(c, p)
  BY NotBusyHasNoRun DEF Create, Busy
<1>2. OneRunPerProject' /\ BusyIsRun'
  BY <1>1 DEF Inv, OneRunPerProject, BusyIsRun, Running, Busy, Create, TypeOK
<1>3. \A c \in Clients : RunInv(c)'
  BY <1>1 DEF Inv, RunInv, Running, Create, TypeOK
<1>4. \A q \in Projects : ProjectInv(q)'
  BY DEF Inv, ProjectInv, Create, TypeOK
<1> QED BY <1>2, <1>3, <1>4 DEF Inv

(* A refused request changes nothing but its own answer. *)
LEMMA RefusedInv ==
    ASSUME Inv, NEW c \in Clients, NEW p \in Projects, Start(c, p),
           StartUnknown(c, p) \/ StartRefused(c, p), TypeOK'
    PROVE  Inv'
<1> USE DEF Start, StartUnknown, StartRefused, Answer
<1>1. pc' = pc /\ task' = task
  <2>1. task[c] = NoTasks
    BY DEF Inv, RunInv
  <2> QED BY <2>1 DEF Inv, TypeOK
<1>2. OneRunPerProject' /\ BusyIsRun'
  BY <1>1 DEF Inv, OneRunPerProject, BusyIsRun, Running, TypeOK
<1>3. \A d \in Clients : RunInv(d)'
  BY <1>1 DEF Inv, RunInv, TypeOK
<1>4. \A q \in Projects : ProjectInv(q)'
  BY DEF Inv, ProjectInv
<1> QED BY <1>2, <1>3, <1>4 DEF Inv

(* Any failure of a run is a RunStep: it only gives the lock back. *)
LEMMA FailInv ==
    ASSUME Inv, TypeOK', NEW c \in Clients, NEW p \in Projects, NEW code \in Outcomes \ {"200"},
           Fail(c, p, code), ckpt' = ckpt \/ ProjectInv(p)',
           \A d \in Clients \ {c} : ~Running(d, p) /\ proj'[d] = proj[d],
           \A q \in Projects \ {p} : ckpt'[q] = ckpt[q],
           proj'[c] = p, pc[c] = "idle" \/ proj[c] = p,
           status[p] \in Startable \cup Busy
    PROVE  Inv'
<1> USE DEF Fail, Answer
<1>1. RunInv(c)'
  BY DEF Inv, TypeOK, RunInv
<1>2. status[p] \notin {"completed", "absent"}
  BY DEF Startable, Busy
<1>3. ProjectInv(p)'
  BY <1>2 DEF Inv, TypeOK, ProjectInv
<1>4. status'[p] \notin Busy
  BY DEF Inv, TypeOK, Busy
<1> QED BY <1>1, <1>2, <1>3, <1>4, RunStep DEF Inv, TypeOK

(* A run that passes the checks of execute starts its specialists from a   *)
(* copy that says what the checkpoint says.                                *)
LEMMA OrchestrateInv ==
    ASSUME Inv, TypeOK', NEW c \in Clients, NEW p \in Projects, NEW planner,
           NEW copy \in Checkpoint, Orchestrate(c, p, planner, copy),
           copy.specialists = ckpt'[p].specialists, ~copy.reviewer,
           ckpt'[p].planner # "none", ~ckpt'[p].reviewer,
           \A d \in Clients \ {c} : ~Running(d, p) /\ proj'[d] = proj[d],
           \A q \in Projects \ {p} : ckpt'[q] = ckpt[q],
           proj'[c] = p, pc[c] = "idle" \/ proj[c] = p,
           status[p] \in Startable \cup Busy
    PROVE  Inv'
<1>1. CASE Fail(c, p, "409")
  <2>1. ProjectInv(p)'
    BY <1>1 DEF Inv, TypeOK, Fail, ProjectInv
  <2> QED BY <1>1, <2>1, FailInv DEF Outcomes
<1>2. CASE ~Fail(c, p, "409")
  <2> USE <1>2 DEF Orchestrate
  <2>1. /\ status'[p] = "running" /\ pc'[c] = "specialists"
        /\ snap'[c] = copy /\ outcome'[c] = "none"
        /\ \A a \in Specialists : task'[c][a] = IF a \in copy.specialists THEN "ok" ELSE "waiting"
    BY DEF Inv, TypeOK
  <2>2. RunInv(c)'
    BY <2>1 DEF RunInv
  <2>3. ProjectInv(p)'
    BY <2>1 DEF ProjectInv
  <2>4. /\ \A d \in Clients \ {c} : /\ pc'[d] = pc[d] /\ snap'[d] = snap[d]
                                     /\ task'[d] = task[d] /\ outcome'[d] = outcome[d]
        /\ \A q \in Projects \ {p} : status'[q] = status[q]
    BY DEF Inv, TypeOK
  <2>5. status[p] # "completed" /\ pc'[c] # "idle"
    BY <2>1 DEF Startable, Busy
  <2> HIDE DEF Orchestrate
  <2> QED BY <2>2, <2>3, <2>4, <2>5, RunStep
<1> QED BY <1>1, <1>2

LEMMA StartInv ==
    ASSUME Inv, NEW c \in Clients, NEW p \in Projects, Start(c, p), TypeOK'
    PROVE  Inv'
<1>1. CASE StartUnknown(c, p) \/ StartRefused(c, p)
  BY <1>1, RefusedInv
<1>2. ASSUME status[p] \in Startable
      PROVE  /\ status[p] # "completed" /\ status[p] \notin Busy
             /\ \A d \in Clients : ~Running(d, p)
             /\ \A d \in Clients \ {c} : proj'[d] = proj[d]
             /\ pc[c] = "idle" /\ proj'[c] = p /\ ckpt' = ckpt
             /\ ~ckpt[p].reviewer /\ ckpt[p] \in Checkpoint
  <2>1. status[p] # "completed" /\ status[p] \notin Busy
    BY <1>2 DEF Startable, Busy
  <2> QED BY <2>1, NotBusyHasNoRun DEF Inv, TypeOK, ProjectInv, Start
<1>3. CASE StartPlanning(c, p)
  <2> USE <1>2, <1>3 DEF Start, StartPlanning
  <2>1. /\ status'[p] = "planning" /\ pc'[c] = "planner" /\ snap'[c] = ckpt[p]
        /\ outcome'[c] = "none" /\ task'[c] = NoTasks
    BY DEF Inv, TypeOK, RunInv
  <2>2. ckpt[p] = EmptyCheckpoint
    BY DEF Inv, ProjectInv
  <2>3. RunInv(c)'
    BY <2>1, <2>2 DEF RunInv
  <2>4. ProjectInv(p)'
    BY <2>1, <2>2 DEF ProjectInv
  <2> QED BY <2>1, <2>3, <2>4, RunStep DEF Inv, TypeOK
<1>4. CASE StartResumed(c, p)
  BY <1>2, <1>4, OrchestrateInv DEF StartResumed
<1> QED BY <1>1, <1>3, <1>4 DEF Start

LEMMA PlannerAnswersInv ==
    ASSUME Inv, NEW c \in Clients, PlannerAnswers(c), TypeOK'
    PROVE  Inv'
<1> DEFINE p == proj[c]
<1>1. PICK content \in PlannerOutputs :
         ckpt' = [ckpt EXCEPT ![p].planner = content] /\ Orchestrate(c, p, content, snap[c])
  BY DEF PlannerAnswers
<1>2. /\ p \in Projects /\ status[p] \in Busy
      /\ \A d \in Clients \ {c} : ~Running(d, p)
      /\ snap[c] = EmptyCheckpoint /\ ckpt[p] = EmptyCheckpoint
  BY RunsAlone DEF PlannerAnswers, Inv, RunInv
<1>0. EmptyCheckpoint.planner = "none" /\ EmptyCheckpoint.specialists = {} /\ ~EmptyCheckpoint.reviewer
  BY DEF EmptyCheckpoint
<1>3. /\ ckpt'[p].planner = content /\ content # "none"
      /\ ckpt'[p].specialists = {} /\ ~ckpt'[p].reviewer
      /\ \A q \in Projects \ {p} : ckpt'[q] = ckpt[q]
  <2>1. ckpt'[p] = [EmptyCheckpoint EXCEPT !.planner = content] /\ content \in Texts
    BY <1>1, <1>2, ExecutionAssumption DEF Inv, TypeOK
  <2>2. \A q \in Projects \ {p} : ckpt'[q] = ckpt[q]
    BY <1>1, <1>2 DEF Inv, TypeOK
  <2> QED BY <2>1, <2>2 DEF EmptyCheckpoint, Texts
<1>4. snap[c] \in Checkpoint /\ snap[c].specialists = {} /\ ~snap[c].reviewer
  BY <1>0, <1>2 DEF Inv, TypeOK
<1> QED BY <1>1, <1>2, <1>3, <1>4, OrchestrateInv DEF PlannerAnswers

LEMMA RaisesInv ==
    ASSUME Inv, NEW c \in Clients, PlannerRaises(c) \/ ReviewerRaises(c), TypeOK'
    PROVE  Inv'
<1>1. /\ proj[c] \in Projects /\ status[proj[c]] \in Busy
      /\ \A d \in Clients \ {c} : ~Running(d, proj[c])
      /\ ckpt' = ckpt /\ proj' = proj /\ Fail(c, proj[c], "500")
  BY RunsAlone DEF PlannerRaises, ReviewerRaises
<1> QED BY <1>1, FailInv DEF Outcomes

(* A specialist's coroutine takes a permit, or ends: only its own record   *)
(* and, when it succeeds, the checkpoint of its project change.            *)
LEMMA SpecialistInv ==
    ASSUME Inv, NEW c \in Clients, NEW a \in Specialists, TypeOK',
           CallSpecialist(c, a) \/ SpecialistAnswers(c, a) \/ SpecialistRaises(c, a)
    PROVE  Inv'
<1>0. PICK p \in Projects : p = proj[c]
  BY DEF Inv, TypeOK
<1> USE DEF CallSpecialist, SpecialistAnswers, SpecialistRaises, store
<1>1. pc[c] = "specialists"
  BY DEF Inv, TypeOK, RunInv, NoTasks
<1>2. /\ p \in Projects /\ status[p] \in Busy
      /\ \A d \in Clients \ {c} : ~Running(d, p)
  BY <1>0, <1>1, RunsAlone
<1>3. /\ status' = status /\ pc' = pc /\ proj' = proj /\ snap' = snap /\ outcome' = outcome
      /\ \A d \in Clients \ {c} : task'[d] = task[d]
      /\ \A b \in Specialists \ {a} : task'[c][b] = task[c][b]
      /\ \A q \in Projects \ {p} : ckpt'[q] = ckpt[q]
  BY <1>0, <1>2 DEF Inv, TypeOK
<1>4. /\ ckpt'[p].planner = ckpt[p].planner /\ ckpt'[p].reviewer = ckpt[p].reviewer
      /\ ckpt'[p].specialists = ckpt[p].specialists \cup (IF task'[c][a] = "ok" THEN {a} ELSE {})
      /\ task[c][a] # "ok" /\ task'[c][a] # "none"
  <2>1. CASE SpecialistAnswers(c, a)
    <3>1. ckpt[p] \in Checkpoint
      BY <1>2 DEF Inv, TypeOK
    <3>2. ckpt'[p] = [ckpt[p] EXCEPT !.specialists = @ \cup {a}]
      BY <1>0, <1>2, <2>1 DEF Inv, TypeOK
    <3>3. task'[c][a] = "ok"
      BY <2>1 DEF Inv, TypeOK
    <3> HIDE DEF SpecialistAnswers, CallSpecialist, SpecialistRaises
    <3> QED BY <2>1, <3>1, <3>2, <3>3 DEF Checkpoint, SpecialistAnswers
  <2>2. CASE ~SpecialistAnswers(c, a)
    <3>1. ckpt' = ckpt /\ task'[c][a] \in {"calling", "error"} /\ task[c][a] \in {"waiting", "calling"}
      BY <2>2 DEF Inv, TypeOK
    <3> QED BY <3>1
  <2> QED BY <2>1, <2>2
<1> HIDE DEF CallSpecialist, SpecialistAnswers, SpecialistRaises
<1>5. RunInv(c)'
  BY <1>0, <1>1, <1>3, <1>4 DEF Inv, RunInv
<1>6. ProjectInv(p)'
  <2>1. status[p] \notin {"completed", "absent"} /\ ckpt[p].planner # "none" /\ ~ckpt[p].reviewer
    BY <1>0, <1>1, <1>2 DEF Inv, RunInv, ProjectInv, Busy
  <2>2. ckpt'[p].planner # "none" /\ ~ckpt'[p].reviewer /\ status'[p] = status[p]
    BY <1>3, <1>4, <2>1
  <2> QED BY <2>1, <2>2 DEF ProjectInv
<1>7. status[p] # "completed" /\ pc'[c] # "idle" /\ proj'[c] = p
  BY <1>0, <1>1, <1>2, <1>3 DEF Busy
<1> QED BY <1>0, <1>2, <1>3, <1>5, <1>6, <1>7, RunStep

LEMMA CompleteInv ==
    ASSUME Inv, NEW c \in Clients, TypeOK', pc[c] # "idle", Complete(c, proj[c]),
           ckpt'[proj[c]].reviewer, ckpt'[proj[c]].planner # "none",
           ckpt'[proj[c]].specialists = Specialists,
           \A q \in Projects \ {proj[c]} : ckpt'[q] = ckpt[q],
           proj' = proj
    PROVE  Inv'
<1> DEFINE p == proj[c]
<1>1. /\ p \in Projects /\ status[p] \in Busy
      /\ \A d \in Clients \ {c} : ~Running(d, p)
  BY RunsAlone
<1>2. /\ status'[p] = "completed" /\ pc'[c] = "idle" /\ task'[c] = NoTasks
      /\ \A d \in Clients \ {c} : /\ pc'[d] = pc[d] /\ snap'[d] = snap[d]
                                   /\ task'[d] = task[d] /\ outcome'[d] = outcome[d]
      /\ \A q \in Projects \ {p} : status'[q] = status[q]
  BY <1>1 DEF Inv, TypeOK, Complete, Answer
<1>3. RunInv(c)'
  BY <1>2 DEF RunInv
<1>4. ProjectInv(p)'
  BY <1>2 DEF ProjectInv
<1>5. status[p] # "completed" /\ status'[p] \notin Busy /\ proj'[c] = p
  BY <1>1, <1>2 DEF Busy
<1> QED BY <1>1, <1>2, <1>3, <1>4, <1>5, RunStep

LEMMA GatherEndsInv ==
    ASSUME Inv, NEW c \in Clients, GatherEnds(c), TypeOK'
    PROVE  Inv'
<1>1. /\ pc[c] = "specialists" /\ ckpt' = ckpt /\ proj' = proj /\ ~snap[c].reviewer
      /\ proj[c] \in Projects /\ status[proj[c]] = "running"
      /\ \A d \in Clients \ {c} : ~Running(d, proj[c])
  BY RunsAlone DEF GatherEnds, Inv, RunInv
<1>2. CASE Fail(c, proj[c], "500")
  BY <1>1, <1>2, FailInv DEF Outcomes, Busy
<1>3. CASE ~Fail(c, proj[c], "500")
  <2>1. /\ \A a \in Specialists : task[c][a] = "ok"
        /\ pc'[c] = "reviewer" /\ \A d \in Clients \ {c} : pc'[d] = pc[d]
        /\ UNCHANGED <<status, snap, task, outcome>>
    BY <1>1, <1>3 DEF GatherEnds, Inv, TypeOK
  <2>2. ckpt[proj[c]].specialists = Specialists
    <3>1. ckpt[proj[c]].specialists \subseteq Specialists
      BY <1>1 DEF Inv, TypeOK, Checkpoint
    <3> QED BY <1>1, <2>1, <3>1 DEF Inv, RunInv
  <2>3. RunInv(c)'
    BY <1>1, <2>1, <2>2 DEF Inv, RunInv
  <2>4. ProjectInv(proj[c])'
    BY <1>1, <2>1 DEF Inv, ProjectInv
  <2> QED BY <1>1, <2>1, <2>3, <2>4, RunStep
<1> QED BY <1>2, <1>3

LEMMA ReviewerAnswersInv ==
    ASSUME Inv, NEW c \in Clients, ReviewerAnswers(c), TypeOK'
    PROVE  Inv'
<1>1. /\ pc[c] = "reviewer" /\ proj' = proj /\ Complete(c, proj[c])
      /\ proj[c] \in Projects /\ ckpt[proj[c]] \in Checkpoint
      /\ ckpt[proj[c]].planner # "none" /\ ckpt[proj[c]].specialists = Specialists
      /\ ckpt' = [ckpt EXCEPT ![proj[c]].reviewer = TRUE]
  BY DEF ReviewerAnswers, Inv, TypeOK, RunInv
<1>2. /\ ckpt'[proj[c]] = [ckpt[proj[c]] EXCEPT !.reviewer = TRUE]
      /\ \A q \in Projects \ {proj[c]} : ckpt'[q] = ckpt[q]
  BY <1>1 DEF Inv, TypeOK
<1>3. /\ ckpt'[proj[c]].reviewer
      /\ ckpt'[proj[c]].planner = ckpt[proj[c]].planner
      /\ ckpt'[proj[c]].specialists = ckpt[proj[c]].specialists
  BY <1>1, <1>2 DEF Checkpoint
<1> QED BY <1>1, <1>2, <1>3, CompleteInv

LEMMA InvStep == ASSUME Inv, [Next]_vars PROVE Inv'
<1>0. TypeOK'
  BY TypeStep DEF Inv
<1>1. ASSUME NEW p \in Projects, Create(p) PROVE Inv'
  BY <1>0, <1>1, CreateInv
<1>2. ASSUME NEW c \in Clients, NEW p \in Projects, Start(c, p) PROVE Inv'
  BY <1>0, <1>2, StartInv
<1>3. ASSUME NEW c \in Clients, AgentStep(c) PROVE Inv'
  BY <1>0, <1>3, PlannerAnswersInv, RaisesInv, SpecialistInv, GatherEndsInv, ReviewerAnswersInv
     DEF AgentStep
<1>4. CASE UNCHANGED vars
  BY <1>4 DEF vars, Inv, TypeOK, OneRunPerProject, BusyIsRun, Running, RunInv, ProjectInv
<1> QED BY <1>1, <1>2, <1>3, <1>4 DEF Next

(* The invariant that the theorems below are read off. *)
THEOREM InvCorrect == Spec => []Inv
BY InitInv, InvStep, PTL DEF Spec

-----------------------------------------------------------------------------
(* Which agents' results a checkpoint holds, for a project in any state of *)
(* the invariant.                                                          *)
LEMMA ResultsHold ==
    ASSUME TypeOK, NEW p \in Projects
    PROVE  /\ "planner" \in Results(p) <=> ckpt[p].planner # "none"
           /\ "reviewer" \in Results(p) <=> ckpt[p].reviewer
           /\ \A a \in Specialists : a \in Results(p) <=> a \in ckpt[p].specialists
           /\ Results(p) \subseteq Agents
<1>1. ckpt[p].specialists \subseteq Specialists
  BY DEF TypeOK, Checkpoint
<1>2. "planner" \notin Specialists /\ "reviewer" \notin Specialists
  BY ExecutionAssumption
<1> QED BY <1>1, <1>2 DEF Results, Agents

LEMMA InvGivesSafety ==
    ASSUME Inv
    PROVE  /\ OneRunPerProject
           /\ StatusTellsTheRun
           /\ NoRepeatedWork
           /\ ReviewerSeesEverySpecialist
           /\ CompletedIsWhole
<1>1. StatusTellsTheRun
  BY DEF Inv, TypeOK, BusyIsRun, Busy, RunInv, Running, StatusTellsTheRun
<1>2. NoRepeatedWork
  <2>1. ASSUME NEW p \in Projects, NEW a \in Agents, NEW c \in Clients, InFlight(c, p, a),
               a \in Results(p)
        PROVE  FALSE
    <3>1. Running(c, p) /\ RunInv(c) /\ ProjectInv(p)
      BY <2>1 DEF Inv, InFlight
    <3>2. CASE a = "planner" /\ pc[c] = "planner"
      BY <2>1, <3>1, <3>2, ResultsHold DEF Inv, RunInv, Running, EmptyCheckpoint
    <3>3. CASE a = "reviewer" /\ pc[c] = "reviewer"
      BY <2>1, <3>1, <3>3, ResultsHold DEF Inv, RunInv, ProjectInv, Running
    <3>4. CASE a \in Specialists /\ task[c][a] = "calling"
      <4>1. a \in ckpt[p].specialists
        BY <2>1, <3>4, ResultsHold DEF Inv
      <4>2. pc[c] = "specialists"
        BY <3>1, <3>4 DEF Inv, TypeOK, RunInv, Running, NoTasks
      <4> QED BY <3>1, <3>4, <4>1, <4>2 DEF RunInv, Running
    <3> QED BY <2>1, <3>2, <3>3, <3>4 DEF InFlight
  <2> QED BY <2>1 DEF Inv, OneRunPerProject, InFlight, NoRepeatedWork
<1>3. ReviewerSeesEverySpecialist
  <2> SUFFICES ASSUME NEW c \in Clients, pc[c] = "reviewer"
               PROVE  Results(proj[c]) = Agents \ {"reviewer"}
    BY DEF ReviewerSeesEverySpecialist
  <2>1. /\ proj[c] \in Projects /\ ckpt[proj[c]].planner # "none" /\ ~ckpt[proj[c]].reviewer
        /\ ckpt[proj[c]].specialists = Specialists
    BY DEF Inv, TypeOK, RunInv, ProjectInv
  <2> QED BY <2>1, ResultsHold, ExecutionAssumption DEF Inv, Agents
<1>4. CompletedIsWhole
  <2>1. ASSUME NEW p \in Projects
        PROVE  /\ status[p] = "completed" <=> "reviewer" \in Results(p)
               /\ status[p] = "completed" => Results(p) = Agents
    <3>1. ProjectInv(p) /\ TypeOK
      BY DEF Inv
    <3>2. status[p] = "completed" => ckpt[p].planner # "none"
      BY <3>1 DEF ProjectInv, EmptyCheckpoint
    <3> QED BY <3>1, <3>2, ResultsHold DEF ProjectInv, Agents
  <2> QED BY <2>1 DEF CompletedIsWhole, Inv, RunInv
<1> QED BY <1>1, <1>2, <1>3, <1>4 DEF Inv

(* Two start requests never run one project at the same time: the status   *)
(* is a lock although nothing in the code is called one.                   *)
THEOREM MutualExclusion == Spec => []OneRunPerProject
BY InvCorrect, InvGivesSafety, PTL

(* No project is left in PLANNING or RUNNING without a coroutine that will *)
(* leave that status again.                                                *)
THEOREM NoStuckProject == Spec => []StatusTellsTheRun
BY InvCorrect, InvGivesSafety, PTL

(* A restarted project asks no agent for a result that is checkpointed.    *)
THEOREM NoWorkTwice == Spec => []NoRepeatedWork
BY InvCorrect, InvGivesSafety, PTL

(* The review is made of the planner's and all the specialists' results.   *)
THEOREM ReviewIsOfEverything == Spec => []ReviewerSeesEverySpecialist
BY InvCorrect, InvGivesSafety, PTL

(* COMPLETED projects, and they alone, have every result and a review.     *)
THEOREM CompletedCorrect == Spec => []CompletedIsWhole
BY InvCorrect, InvGivesSafety, PTL

(* No step loses or replaces a checkpointed result. *)
THEOREM ResultsKept == Spec => ResultsAreKept
<1>1. ASSUME Inv, Inv', [Next]_vars, NEW p \in Projects
      PROVE  /\ Results(p) \subseteq Results(p)'
             /\ ckpt[p].planner # "none" => ckpt[p]'.planner = ckpt[p].planner
  <2>1. \/ ckpt' = ckpt
        \/ \E c \in Clients : PlannerAnswers(c)
        \/ \E c \in Clients, a \in Specialists : SpecialistAnswers(c, a)
        \/ \E c \in Clients : ReviewerAnswers(c)
    BY <1>1 DEF Next, AgentStep, Create, Start, PlannerRaises, CallSpecialist, SpecialistRaises,
                GatherEnds, ReviewerRaises, vars
  <2> DEFINE Kept == /\ ckpt[p].planner # "none" => ckpt'[p].planner = ckpt[p].planner
                     /\ ckpt[p].specialists \subseteq ckpt'[p].specialists
                     /\ ckpt[p].reviewer => ckpt'[p].reviewer
  <2>2. Kept
    <3>1. CASE ckpt' = ckpt
      BY <3>1
    <3>2. ASSUME NEW c \in Clients, PlannerAnswers(c) PROVE Kept
      <4>1. ckpt[proj[c]] = EmptyCheckpoint /\ proj[c] \in Projects
        BY <1>1, <3>2 DEF PlannerAnswers, Inv, TypeOK, RunInv
      <4>2. p # proj[c] => ckpt'[p] = ckpt[p]
        BY <1>1, <3>2, <4>1 DEF PlannerAnswers, Inv, TypeOK
      <4>3. ckpt'[p] \in Checkpoint
        BY <1>1 DEF Inv, TypeOK
      <4> QED BY <4>1, <4>2, <4>3 DEF EmptyCheckpoint
    <3>3. ASSUME NEW c \in Clients, NEW a \in Specialists, SpecialistAnswers(c, a) PROVE Kept
      BY <1>1, <3>3 DEF SpecialistAnswers, Inv, TypeOK, Checkpoint
    <3>4. ASSUME NEW c \in Clients, ReviewerAnswers(c) PROVE Kept
      BY <1>1, <3>4 DEF ReviewerAnswers, Inv, TypeOK, Checkpoint
    <3> QED BY <2>1, <3>1, <3>2, <3>3, <3>4
  <2> QED BY <2>2 DEF Results
<1>2. Inv /\ Inv' /\ [Next]_vars =>
        [\A p \in Projects :
          /\ Results(p) \subseteq Results(p)'
          /\ ckpt[p].planner # "none" => ckpt[p]'.planner = ckpt[p].planner]_vars
  BY <1>1
<1> QED BY <1>2, InvCorrect, PTL DEF Spec, ResultsAreKept

-----------------------------------------------------------------------------
(* The status of a running project changes only in a step of its run. *)
THEOREM OnlyTheRunMoves == Spec => OnlyTheRunMovesItsProject
<1>1. ASSUME Inv, [Next]_vars, NEW p \in Projects, NEW c \in Clients, Running(c, p),
             status'[p] # status[p]
      PROVE  pc'[c] # pc[c]
  <2>1. proj[c] = p /\ pc[c] # "idle" /\ status[p] \in Busy
        /\ \A d \in Clients : Running(d, p) => d = c
    BY <1>1, RunsAlone DEF Running
  <2>2. ASSUME NEW d \in Clients, NEW q \in Projects, Start(d, q) PROVE FALSE
    <3>1. d # c /\ status[q] \in Startable
      BY <1>1, <2>1, <2>2 DEF Start, StartUnknown, StartRefused, StartPlanning, StartResumed
    <3>2. q # p
      BY <2>1, <3>1 DEF Startable, Busy
    <3> QED BY <1>1, <2>2, <3>2 DEF Inv, TypeOK, Start, StartUnknown, StartRefused,
                                    StartPlanning, StartResumed, Orchestrate, Fail
  <2>3. ASSUME NEW q \in Projects, Create(q) PROVE FALSE
    BY <1>1, <2>1, <2>3 DEF Inv, TypeOK, Create, Busy
  <2>4. ASSUME NEW d \in Clients, AgentStep(d), d # c PROVE FALSE
    <3>1. PICK q \in Projects : q = proj[d]
      BY <1>1 DEF Inv, TypeOK
    <3>2. \/ status' = status
          \/ /\ pc[d] # "idle"
             /\ \E s : status' = [status EXCEPT ![q] = s]
      BY <2>4, <3>1 DEF AgentStep, PlannerAnswers, PlannerRaises, CallSpecialist, SpecialistAnswers,
           SpecialistRaises, GatherEnds, ReviewerAnswers, ReviewerRaises, Orchestrate, Fail,
           Complete, store
    <3>3. pc[d] # "idle" /\ q = p
      BY <1>1, <3>2 DEF Inv, TypeOK
    <3> QED BY <2>1, <2>4, <3>1, <3>3 DEF Running
  <2>5. CASE AgentStep(c)
    BY <1>1, <2>1, <2>5 DEF Inv, TypeOK, AgentStep, PlannerAnswers, PlannerRaises, CallSpecialist,
         SpecialistAnswers, SpecialistRaises, GatherEnds, ReviewerAnswers, ReviewerRaises,
         Orchestrate, Fail, Complete, Answer, store
  <2> QED BY <1>1, <2>2, <2>3, <2>4, <2>5 DEF Next, vars
<1>2. Inv /\ [Next]_vars =>
        [\A p \in Projects, c \in Clients :
          Running(c, p) /\ status[p]' # status[p] => pc[c]' # pc[c]]_vars
  BY <1>1
<1> QED BY <1>2, InvCorrect, PTL DEF Spec, OnlyTheRunMovesItsProject

-----------------------------------------------------------------------------
(* The permits. *)
Holder(c, a) == task[c][a] = "calling"

LEMMA HoldersFinite == TypeOK => IsFiniteSet(Holders)
<1>1. IsFiniteSet(Clients \X Specialists)
  BY FS_Product, ExecutionAssumption
<1> QED BY <1>1, FS_Subset DEF Holders

LEMMA SameHolders ==
    ASSUME \A c \in Clients, a \in Specialists : Holder(c, a)' <=> Holder(c, a)
    PROVE  Holders' = Holders
BY DEF Holder, Holders

(* A step that takes or returns no permit starts and ends no call. *)
LEMMA OtherStepsKeepHolders ==
    ASSUME Inv, [Next]_vars,
           \A c \in Clients, a \in Specialists :
              ~CallSpecialist(c, a) /\ ~SpecialistAnswers(c, a) /\ ~SpecialistRaises(c, a)
    PROVE  Holders' = Holders /\ permits' = permits
<1>1. permits' = permits
  BY DEF Next, AgentStep, Create, Start, PlannerAnswers, PlannerRaises, GatherEnds,
         ReviewerAnswers, ReviewerRaises, vars
<1>2. ASSUME NEW c \in Clients,
             \A a \in Specialists : task[c][a] # "calling" /\ task'[c][a] # "calling",
             \A d \in Clients \ {c} : task'[d] = task[d]
      PROVE  Holders' = Holders
  BY <1>2, SameHolders DEF Holder
<1>3. ASSUME NEW c \in Clients, pc[c] # "specialists"
      PROVE  \A a \in Specialists : task[c][a] # "calling"
  BY <1>3 DEF Inv, TypeOK, RunInv, NoTasks
<1>4. ASSUME NEW c \in Clients, NEW code, Answer(c, code),
             \A a \in Specialists : task[c][a] # "calling"
      PROVE  Holders' = Holders
  BY <1>2, <1>4 DEF Answer, NoTasks, Inv, TypeOK
<1>5. ASSUME NEW c \in Clients, NEW p \in Projects, NEW planner, NEW copy,
             pc[c] # "specialists", Orchestrate(c, p, planner, copy)
      PROVE  Holders' = Holders
  <2>1. CASE Fail(c, p, "409")
    BY <1>3, <1>5, <1>4, <2>1 DEF Fail
  <2>2. CASE task' = [task EXCEPT ![c] = [a \in Specialists |->
                        IF a \in copy.specialists THEN "ok" ELSE "waiting"]]
    <3>1. \A a \in Specialists : task'[c][a] # "calling"
      BY <2>2 DEF Inv, TypeOK
    <3>2. \A d \in Clients \ {c} : task'[d] = task[d]
      BY <2>2 DEF Inv, TypeOK
    <3> QED BY <1>2, <1>3, <1>5, <3>1, <3>2
  <2> QED BY <1>5, <2>1, <2>2 DEF Orchestrate
<1>6. task' = task => Holders' = Holders
  BY DEF Holders
<1>7. ASSUME NEW p \in Projects, Create(p) PROVE Holders' = Holders
  BY <1>6, <1>7 DEF Create, request
<1>8. ASSUME NEW c \in Clients, NEW p \in Projects, Start(c, p) PROVE Holders' = Holders
  BY <1>3, <1>4, <1>5, <1>6, <1>8 DEF Start, StartUnknown, StartRefused, StartPlanning, StartResumed
<1>9. ASSUME NEW c \in Clients, PlannerAnswers(c) PROVE Holders' = Holders
  BY <1>5, <1>9 DEF PlannerAnswers, Inv, TypeOK
<1>10. ASSUME NEW c \in Clients, PlannerRaises(c) \/ ReviewerAnswers(c) \/ ReviewerRaises(c)
       PROVE  Holders' = Holders
  BY <1>3, <1>4, <1>10 DEF PlannerRaises, ReviewerAnswers, ReviewerRaises, Fail, Complete
<1>11. ASSUME NEW c \in Clients, GatherEnds(c) PROVE Holders' = Holders
  <2>1. \A a \in Specialists : task[c][a] # "calling"
    BY <1>11 DEF GatherEnds
  <2> QED BY <1>4, <1>6, <1>11, <2>1 DEF GatherEnds, Fail, Complete
<1> QED BY <1>1, <1>6, <1>7, <1>8, <1>9, <1>10, <1>11 DEF Next, AgentStep, vars

(* A call takes exactly one permit and gives exactly one back. *)
LEMMA PermitStep ==
    ASSUME Inv, PermitsConserved, [Next]_vars
    PROVE  PermitsConserved'
<1>1. IsFiniteSet(Holders) /\ MaxParallel \in Nat /\ permits \in Nat
  BY HoldersFinite, ExecutionAssumption DEF Inv, TypeOK
<1>2. ASSUME NEW c \in Clients, NEW a \in Specialists, CallSpecialist(c, a)
      PROVE  PermitsConserved'
  <2>1. <<c, a>> \notin Holders /\ Holders' = Holders \cup {<<c, a>>}
    BY <1>2 DEF Holders, CallSpecialist, Inv, TypeOK
  <2>2. Cardinality(Holders') = Cardinality(Holders) + 1
    BY <1>1, <2>1, FS_AddElement
  <2> QED BY <1>1, <1>2, <2>2, FS_CardinalityType DEF PermitsConserved, CallSpecialist
<1>3. ASSUME NEW c \in Clients, NEW a \in Specialists,
             SpecialistAnswers(c, a) \/ SpecialistRaises(c, a)
      PROVE  PermitsConserved'
  <2>1. <<c, a>> \in Holders /\ Holders' = Holders \ {<<c, a>>}
    BY <1>3 DEF Holders, SpecialistAnswers, SpecialistRaises, Inv, TypeOK
  <2>2. Cardinality(Holders') = Cardinality(Holders) - 1
    BY <1>1, <2>1, FS_RemoveElement
  <2> QED BY <1>1, <1>3, <2>2, FS_CardinalityType
             DEF PermitsConserved, SpecialistAnswers, SpecialistRaises
<1>4. CASE \A c \in Clients, a \in Specialists :
              ~CallSpecialist(c, a) /\ ~SpecialistAnswers(c, a) /\ ~SpecialistRaises(c, a)
  BY <1>4, OtherStepsKeepHolders DEF PermitsConserved
<1> QED BY <1>2, <1>3, <1>4

(* No permit is lost or made up, whatever fails. *)
THEOREM PermitsCorrect == Spec => []PermitsConserved
<1>1. Init => PermitsConserved
  <2> SUFFICES ASSUME Init PROVE PermitsConserved
    OBVIOUS
  <2>1. Holders = {}
    BY DEF Init, Holders, NoTasks
  <2> QED BY <2>1, FS_EmptySet, ExecutionAssumption DEF PermitsConserved, Init
<1>2. Inv /\ PermitsConserved /\ [Next]_vars => PermitsConserved'
  BY PermitStep
<1> QED BY <1>1, <1>2, InvCorrect, PTL DEF Spec

(* At most max_parallel_agents specialists are called at a time, over all  *)
(* the projects that share the orchestrator.                               *)
THEOREM ParallelBound == Spec => [](Cardinality(Holders) \in 0 .. MaxParallel)
<1>1. Inv /\ PermitsConserved => Cardinality(Holders) \in 0 .. MaxParallel
  BY HoldersFinite, FS_CardinalityType, ExecutionAssumption DEF Inv, TypeOK, PermitsConserved
<1> QED BY <1>1, InvCorrect, PermitsCorrect, PTL

(* Where some step of request c's run is possible. *)
CanGoOn(c) ==
    \/ pc[c] \in {"planner", "reviewer"}
    \/ \E a \in Specialists : task[c][a] = "calling"
    \/ permits > 0 /\ \E a \in Specialists : task[c][a] = "waiting"
    \/ pc[c] = "specialists" /\ \A a \in Specialists : task[c][a] \in {"ok", "error"}

(* The projects that compete for the permits never all wait for each       *)
(* other: while a request is open, the run of one of them can go on.       *)
THEOREM SomeRunCanGoOn ==
    Spec => []((\E c \in Clients : pc[c] # "idle") => \E c \in Clients : CanGoOn(c))
<1>1. ASSUME Inv, PermitsConserved, NEW c \in Clients, pc[c] # "idle"
      PROVE  \E d \in Clients : CanGoOn(d)
  <2> SUFFICES ASSUME ~CanGoOn(c) PROVE \E d \in Clients : CanGoOn(d)
    OBVIOUS
  <2>1. /\ pc[c] = "specialists"
        /\ task[c] \in [Specialists -> TaskStates]
        /\ \A a \in Specialists : task[c][a] # "none"
    BY <1>1 DEF CanGoOn, Inv, TypeOK, RunInv
  <2>2. PICK a \in Specialists : task[c][a] = "waiting"
    BY <2>1 DEF CanGoOn, TaskStates
  <2>3. permits = 0
    BY <1>1, <2>2 DEF CanGoOn, Inv, TypeOK
  <2>4. Cardinality(Holders) = MaxParallel /\ MaxParallel # 0
    BY <1>1, <2>3, ExecutionAssumption DEF PermitsConserved
  <2>5. Holders # {}
    BY <2>4, FS_EmptySet
  <2> QED BY <2>5 DEF Holders, CanGoOn
<1>2. Inv /\ PermitsConserved => ((\E c \in Clients : pc[c] # "idle") => \E c \in Clients : CanGoOn(c))
  BY <1>1
<1> QED BY <1>2, InvCorrect, PermitsCorrect, PTL

-----------------------------------------------------------------------------
(* A blank prompt or plan is stored, and what is stored stays. *)
Blank(p) == "blank" \in {prompt[p], ckpt[p].planner}

BlankNeverRuns ==
    \A p \in Projects : Blank(p) => status[p] \in {"created", "planning", "failed"}

LEMMA OrchestrateBlank ==
    ASSUME Inv, NEW c \in Clients, NEW p \in Projects, NEW planner, NEW copy,
           Orchestrate(c, p, planner, copy), prompt' = prompt, ckpt'[p].planner = planner,
           \A q \in Projects \ {p} : ckpt'[q] = ckpt[q],
           BlankNeverRuns
    PROVE  BlankNeverRuns'
<1>1. \A q \in Projects \ {p} : status'[q] = status[q]
  BY DEF Orchestrate, Fail, Inv, TypeOK
<1>2. \/ "blank" \notin {prompt[p], planner}
      \/ status'[p] = "failed"
  BY DEF Orchestrate, Fail, Inv, TypeOK
<1> QED BY <1>1, <1>2 DEF BlankNeverRuns, Blank

LEMMA BlankStep ==
    ASSUME Inv, BlankNeverRuns, [Next]_vars
    PROVE  BlankNeverRuns' /\ \A p \in Projects : Blank(p) => Blank(p)'
<1>1. ASSUME NEW p \in Projects, Create(p)
      PROVE  BlankNeverRuns' /\ \A q \in Projects : Blank(q) => Blank(q)'
  <2>1. ~Blank(p) /\ status'[p] = "created" /\ ckpt' = ckpt
    BY <1>1 DEF Create, BlankNeverRuns, Inv, TypeOK
  <2>2. \A q \in Projects \ {p} : status'[q] = status[q] /\ prompt'[q] = prompt[q]
    BY <1>1 DEF Create, Inv, TypeOK
  <2> QED BY <2>1, <2>2 DEF BlankNeverRuns, Blank
<1>2. ASSUME NEW c \in Clients, NEW p \in Projects, Start(c, p)
      PROVE  BlankNeverRuns' /\ \A q \in Projects : Blank(q) => Blank(q)'
  <2>1. prompt' = prompt /\ ckpt' = ckpt
    BY <1>2 DEF Start
  <2>2. CASE status' = status
    BY <2>1, <2>2 DEF BlankNeverRuns, Blank
  <2>3. CASE StartPlanning(c, p)
    BY <2>1, <2>3 DEF StartPlanning, BlankNeverRuns, Blank, Inv, TypeOK
  <2>4. CASE StartResumed(c, p)
    BY <2>1, <2>4, OrchestrateBlank DEF StartResumed, Blank
  <2> QED BY <1>2, <2>2, <2>3, <2>4 DEF Start, StartUnknown, StartRefused
<1>3. ASSUME NEW c \in Clients, PlannerAnswers(c)
      PROVE  BlankNeverRuns' /\ \A q \in Projects : Blank(q) => Blank(q)'
  <2>1. PICK p \in Projects : p = proj[c]
    BY DEF Inv, TypeOK
  <2>2. PICK content \in PlannerOutputs :
           ckpt' = [ckpt EXCEPT ![p].planner = content] /\ Orchestrate(c, p, content, snap[c])
    BY <1>3, <2>1 DEF PlannerAnswers
  <2>3. prompt' = prompt /\ ckpt[p] = EmptyCheckpoint
    BY <1>3, <2>1 DEF PlannerAnswers, Inv, RunInv
  <2>4. ckpt'[p].planner = content /\ \A q \in Projects \ {p} : ckpt'[q] = ckpt[q]
    BY <2>2 DEF Inv, TypeOK, Checkpoint
  <2>5. \A q \in Projects : Blank(q) => Blank(q)'
    BY <2>3, <2>4 DEF Blank, EmptyCheckpoint
  <2> QED BY <2>2, <2>3, <2>4, <2>5, OrchestrateBlank
<1>4. ASSUME NEW c \in Clients, AgentStep(c), ~PlannerAnswers(c)
      PROVE  BlankNeverRuns' /\ \A q \in Projects : Blank(q) => Blank(q)'
  <2>1. PICK p \in Projects : p = proj[c]
    BY DEF Inv, TypeOK
  <2>2. prompt' = prompt
    BY <1>4 DEF AgentStep, PlannerRaises, CallSpecialist, SpecialistAnswers, SpecialistRaises,
                GatherEnds, ReviewerAnswers, ReviewerRaises, store
  <2>3. \A q \in Projects : ckpt'[q].planner = ckpt[q].planner
    <3>1. \/ ckpt' = ckpt
          \/ \E a \in Specialists : ckpt' = [ckpt EXCEPT ![p].specialists = @ \cup {a}]
          \/ ckpt' = [ckpt EXCEPT ![p].reviewer = TRUE]
      BY <1>4, <2>1 DEF AgentStep, PlannerRaises, CallSpecialist, SpecialistAnswers, SpecialistRaises,
           GatherEnds, ReviewerAnswers, ReviewerRaises
    <3>2. DOMAIN ckpt = Projects /\ \A q \in Projects : ckpt[q] \in Checkpoint
      BY DEF Inv, TypeOK
    <3>3. ASSUME NEW ts, NEW r, \/ ckpt' = [ckpt EXCEPT ![p].specialists = ts]
                                \/ ckpt' = [ckpt EXCEPT ![p].reviewer = r]
          PROVE  \A q \in Projects : ckpt'[q].planner = ckpt[q].planner
      BY <3>2, <3>3 DEF Checkpoint
    <3> QED BY <3>1, <3>3
  <2>4. \/ status' = status
        \/ status' = [status EXCEPT ![p] = "failed"]
        \/ status[p] = "running" /\ status' = [status EXCEPT ![p] = "completed"]
    BY <1>4, <2>1 DEF AgentStep, PlannerRaises, CallSpecialist, SpecialistAnswers, SpecialistRaises,
         GatherEnds, ReviewerAnswers, ReviewerRaises, Complete, Fail, store, Inv, RunInv
  <2>5. \A q \in Projects : Blank(q)' <=> Blank(q)
    BY <2>2, <2>3 DEF Blank
  <2> QED BY <2>4, <2>5 DEF BlankNeverRuns, Inv, TypeOK
<1>5. CASE UNCHANGED vars
  BY <1>5 DEF vars, BlankNeverRuns, Blank
<1> QED BY <1>1, <1>2, <1>3, <1>4, <1>5 DEF Next

(* One blank plan is enough: whatever the agents answer later and however  *)
(* often the project is started again, it never runs and never completes.  *)
THEOREM BlankIsFinal ==
    ASSUME NEW p \in Projects
    PROVE  Spec => [](Blank(p) => [](status[p] \notin {"running", "completed"}))
<1>1. Init => BlankNeverRuns
  BY ExecutionAssumption DEF Init, BlankNeverRuns, Blank, EmptyCheckpoint
<1>2. Inv /\ BlankNeverRuns /\ [Next]_vars => BlankNeverRuns'
  BY BlankStep
<1>3. Inv /\ BlankNeverRuns /\ [Next]_vars => (Blank(p) => Blank(p)')
  BY BlankStep
<1>4. BlankNeverRuns => (Blank(p) => status[p] \notin {"running", "completed"})
  BY DEF BlankNeverRuns
<1> QED BY <1>1, <1>2, <1>3, <1>4, InvCorrect, PTL DEF Spec

-----------------------------------------------------------------------------
(* Refinement: the project seen through PhaseOf and Results.               *)
phase   == [p \in Projects |-> PhaseOf(status[p])]
results == [p \in Projects |-> Results(p)]

LEMMA PhaseValues ==
    /\ PhaseOf("absent") = "absent"
    /\ PhaseOf("created") = "stopped" /\ PhaseOf("failed") = "stopped"
    /\ PhaseOf("planning") = "active" /\ PhaseOf("running") = "active"
    /\ PhaseOf("completed") = "finished"
BY DEF PhaseOf, Startable, Busy

LEMMA PhaseStep ==
    ASSUME TypeOK, NEW p \in Projects
    PROVE  /\ \A s \in Busy : status' = [status EXCEPT ![p] = s]
                                => phase' = [phase EXCEPT ![p] = "active"]
           /\ \A s \in Startable : status' = [status EXCEPT ![p] = s]
                                => phase' = [phase EXCEPT ![p] = "stopped"]
           /\ status' = [status EXCEPT ![p] = "completed"]
                                => phase' = [phase EXCEPT ![p] = "finished"]
<1>1. ASSUME NEW s, status' = [status EXCEPT ![p] = s]
      PROVE  phase' = [phase EXCEPT ![p] = PhaseOf(s)]
  BY <1>1 DEF TypeOK, phase
<1>2. \A s \in Busy : PhaseOf(s) = "active"
  BY PhaseValues DEF Busy
<1>3. \A s \in Startable : PhaseOf(s) = "stopped"
  BY PhaseValues DEF Startable
<1> QED BY <1>1, <1>2, <1>3, PhaseValues

LEMMA ResultsStep ==
    ASSUME NEW p \in Projects, \A q \in Projects \ {p} : ckpt'[q] = ckpt[q]
    PROVE  results' = [results EXCEPT ![p] = Results(p)']
BY DEF results, Results

LEMMA SameResults == ASSUME ckpt' = ckpt PROVE results' = results
BY DEF results, Results

(* A run that fails: stopped, or still stopped if it never started. *)
LEMMA FailRefines ==
    ASSUME Inv, NEW p \in Projects, status[p] \in Startable \cup Busy,
           status' = [status EXCEPT ![p] = "failed"], ckpt' = ckpt
    PROVE  Promise!Next \/ UNCHANGED Promise!vars
<1>1. phase' = [phase EXCEPT ![p] = "stopped"] /\ results' = results
  BY PhaseStep, SameResults DEF Inv, Startable
<1>2. CASE status[p] \in Startable
  <2>1. phase' = phase
    BY <1>1, <1>2, PhaseValues DEF phase, Startable
  <2> QED BY <1>1, <2>1 DEF Promise!vars, phase, results
<1>3. CASE status[p] \in Busy
  <2>1. phase[p] = "active"
    BY <1>3, PhaseValues DEF phase, Busy
  <2> QED BY <1>1, <2>1 DEF Promise!Next, Promise!Stop, phase, results
<1> QED BY <1>2, <1>3

LEMMA StartRefines ==
    ASSUME Inv, NEW c \in Clients, NEW p \in Projects, Start(c, p)
    PROVE  Promise!Next \/ UNCHANGED Promise!vars
<1>1. ckpt' = ckpt /\ results' = results
  BY SameResults DEF Start
<1>2. CASE status' = status
  <2>1. phase' = phase
    BY <1>2 DEF phase
  <2> QED BY <1>1, <2>1 DEF Promise!vars, phase, results
<1>3. CASE status[p] \in Startable /\ \E s \in {"planning", "running"} : status' = [status EXCEPT ![p] = s]
  <2>1. phase' = [phase EXCEPT ![p] = "active"]
    BY <1>3, PhaseStep DEF Inv, Busy
  <2>2. phase[p] = "stopped"
    BY <1>3, PhaseValues DEF phase, Startable
  <2> QED BY <1>1, <2>1, <2>2 DEF Promise!Next, Promise!Begin, phase, results
<1>4. CASE status[p] \in Startable /\ status' = [status EXCEPT ![p] = "failed"]
  BY <1>1, <1>4, FailRefines
<1> QED BY <1>2, <1>3, <1>4 DEF Start, StartUnknown, StartRefused, StartPlanning, StartResumed,
            Orchestrate, Fail

(* A result delivered in the right order and for the first time. *)
LEMMA DeliverRefines ==
    ASSUME TypeOK, NEW p \in Projects, NEW a \in Agents, status[p] \in Busy,
           a \notin Results(p), Promise!Inputs(a) \subseteq Results(p),
           Results(p)' = Results(p) \cup {a},
           \A q \in Projects \ {p} : ckpt'[q] = ckpt[q],
           \/ a = "reviewer" /\ status' = [status EXCEPT ![p] = "completed"]
           \/ a # "reviewer" /\ (status' = status \/ status' = [status EXCEPT ![p] = "running"])
           \/ a = "planner"  /\ status' = [status EXCEPT ![p] = "failed"]
    PROVE  Promise!Next
<1>1. results' = [results EXCEPT ![p] = @ \cup {a}] /\ results[p] = Results(p)
  BY ResultsStep DEF results
<1>2. phase[p] = "active"
  BY PhaseValues DEF phase, Busy
<1>3. \/ a = "reviewer" /\ phase' = [phase EXCEPT ![p] = "finished"]
      \/ a # "reviewer" /\ phase' = phase
      \/ a = "planner"  /\ phase' = [phase EXCEPT ![p] = "stopped"]
  <2>1. CASE status' = status
    <3>1. phase' = phase
      BY <2>1 DEF phase
    <3>2. a # "reviewer"
      BY <2>1, PhaseValues DEF TypeOK, Busy
    <3> QED BY <3>1, <3>2
  <2>2. CASE status' = [status EXCEPT ![p] = "running"] /\ a # "reviewer"
    <3>1. phase' = [phase EXCEPT ![p] = "active"]
      BY <2>2, PhaseStep DEF Busy
    <3> QED BY <1>2, <2>2, <3>1 DEF phase
  <2>3. CASE a = "reviewer" /\ status' = [status EXCEPT ![p] = "completed"]
    BY <2>3, PhaseStep
  <2>4. CASE a = "planner" /\ status' = [status EXCEPT ![p] = "failed"]
    BY <2>4, PhaseStep DEF Startable
  <2> QED BY <2>1, <2>2, <2>3, <2>4
<1>4. Promise!Deliver(p, a)
  BY <1>1, <1>2, <1>3 DEF Promise!Deliver, phase, results
<1>5. a \in Promise!Agents
  BY DEF Promise!Agents, Agents
<1> QED BY <1>4, <1>5 DEF Promise!Next

LEMMA InputsOf ==
    /\ Promise!Inputs("planner") = {}
    /\ Promise!Inputs("reviewer") = Agents \ {"reviewer"}
    /\ \A a \in Specialists : Promise!Inputs(a) = {"planner"}
BY ExecutionAssumption DEF Promise!Inputs, Promise!Agents, Agents

LEMMA PlannerRefines ==
    ASSUME Inv, NEW c \in Clients, PlannerAnswers(c)
    PROVE  Promise!Next
<1>1. PICK p \in Projects : p = proj[c]
  BY DEF Inv, TypeOK
<1>2. PICK content \in PlannerOutputs :
         ckpt' = [ckpt EXCEPT ![p].planner = content] /\ Orchestrate(c, p, content, snap[c])
  BY <1>1 DEF PlannerAnswers
<1>3. ckpt[p] = EmptyCheckpoint /\ status[p] \in Busy
  BY <1>1 DEF PlannerAnswers, Inv, RunInv, Busy
<1>4. /\ ckpt'[p] = [EmptyCheckpoint EXCEPT !.planner = content] /\ content # "none"
      /\ \A q \in Projects \ {p} : ckpt'[q] = ckpt[q]
  BY <1>2, <1>3, ExecutionAssumption DEF Inv, TypeOK, Texts
<1>5. Results(p) = {} /\ Results(p)' = {"planner"}
  BY <1>3, <1>4 DEF Results, EmptyCheckpoint
<1>6. status' = [status EXCEPT ![p] = "running"] \/ status' = [status EXCEPT ![p] = "failed"]
  BY <1>2 DEF Orchestrate, Fail
<1> QED BY <1>3, <1>4, <1>5, <1>6, InputsOf, DeliverRefines DEF Inv, Agents

LEMMA SpecialistRefines ==
    ASSUME Inv, NEW c \in Clients, NEW a \in Specialists, SpecialistAnswers(c, a)
    PROVE  Promise!Next
<1>1. PICK p \in Projects : p = proj[c]
  BY DEF Inv, TypeOK
<1>2. pc[c] = "specialists" /\ task[c][a] = "calling"
  BY DEF SpecialistAnswers, Inv, TypeOK, RunInv, NoTasks
<1>3. /\ ckpt[p].planner # "none" /\ a \notin ckpt[p].specialists
      /\ status[p] \in Busy /\ ckpt[p] \in Checkpoint
  BY <1>1, <1>2 DEF Inv, TypeOK, RunInv, Busy
<1>4. /\ ckpt'[p] = [ckpt[p] EXCEPT !.specialists = @ \cup {a}]
      /\ \A q \in Projects \ {p} : ckpt'[q] = ckpt[q]
      /\ status' = status
  BY <1>1 DEF SpecialistAnswers, Inv, TypeOK, store
<1>5. /\ ckpt'[p].planner = ckpt[p].planner /\ ckpt'[p].reviewer = ckpt[p].reviewer
      /\ ckpt'[p].specialists = ckpt[p].specialists \cup {a}
  BY <1>3, <1>4 DEF Checkpoint
<1>6. Results(p)' = Results(p) \cup {a}
  BY <1>5 DEF Results
<1>7. "planner" \in Results(p) /\ a \notin Results(p) /\ a # "reviewer" /\ a \in Agents
  BY <1>3, ResultsHold, ExecutionAssumption DEF Inv, Agents
<1> QED BY <1>3, <1>4, <1>6, <1>7, InputsOf, DeliverRefines DEF Inv

LEMMA ReviewerRefines ==
    ASSUME Inv, NEW c \in Clients, ReviewerAnswers(c)
    PROVE  Promise!Next
<1>1. PICK p \in Projects : p = proj[c]
  BY DEF Inv, TypeOK
<1>2. /\ status[p] \in Busy /\ status[p] # "completed" /\ ckpt[p] \in Checkpoint
      /\ Results(p) = Agents \ {"reviewer"}
  BY <1>1, InvGivesSafety DEF ReviewerAnswers, Inv, TypeOK, RunInv, Busy, ReviewerSeesEverySpecialist
<1>3. /\ ckpt'[p] = [ckpt[p] EXCEPT !.reviewer = TRUE]
      /\ \A q \in Projects \ {p} : ckpt'[q] = ckpt[q]
      /\ status' = [status EXCEPT ![p] = "completed"]
  BY <1>1 DEF ReviewerAnswers, Complete, Inv, TypeOK
<1>4. /\ ckpt'[p].planner = ckpt[p].planner /\ ckpt'[p].reviewer
      /\ ckpt'[p].specialists = ckpt[p].specialists
  BY <1>2, <1>3 DEF Checkpoint
<1>5. Results(p)' = Results(p) \cup {"reviewer"}
  BY <1>4 DEF Results
<1> QED BY <1>2, <1>3, <1>5, InputsOf, DeliverRefines DEF Inv, Agents

(* ProjectExecution implements ResumableProject: a project collects one    *)
(* result from each agent, in order, over any number of runs, requests and *)
(* failures, and is finished by the review.                                *)
THEOREM Refinement == Spec => ImplementsPromise
<1>1. Init => Promise!Init
  <2> SUFFICES ASSUME Init PROVE Promise!Init
    OBVIOUS
  <2>1. phase = [p \in Projects |-> "absent"]
    BY PhaseValues DEF Init, phase
  <2>2. results = [p \in Projects |-> {}]
    BY DEF Init, results, Results, EmptyCheckpoint
  <2> QED BY <2>1, <2>2 DEF Promise!Init, phase, results
<1>2. ASSUME Inv, [Next]_vars PROVE Promise!Next \/ UNCHANGED Promise!vars
  <2>1. ASSUME status' = status, ckpt' = ckpt PROVE UNCHANGED Promise!vars
    BY <2>1, SameResults DEF Promise!vars, phase, results
  <2>2. ASSUME NEW p \in Projects, Create(p) PROVE Promise!Next
    <3>1. results' = results
      BY <2>2, SameResults DEF Create
    <3>2. phase' = [phase EXCEPT ![p] = "stopped"]
      BY <1>2, <2>2, PhaseStep DEF Create, Inv, Startable
    <3>3. phase[p] = "absent"
      BY <2>2, PhaseValues DEF Create, phase
    <3> QED BY <3>1, <3>2, <3>3 DEF Promise!Next, Promise!Create, phase, results
  <2>3. ASSUME NEW c \in Clients, AgentStep(c) PROVE Promise!Next \/ UNCHANGED Promise!vars
    <3>1. CASE PlannerAnswers(c)
      BY <1>2, <3>1, PlannerRefines
    <3>2. CASE PlannerRaises(c) \/ ReviewerRaises(c)
      <4>1. proj[c] \in Projects /\ status[proj[c]] \in Busy
        BY <1>2, <3>2, RunsAlone DEF PlannerRaises, ReviewerRaises
      <4> QED BY <1>2, <3>2, <4>1, FailRefines DEF PlannerRaises, ReviewerRaises, Fail
    <3>3. CASE \E a \in Specialists : CallSpecialist(c, a) \/ SpecialistRaises(c, a)
      BY <2>1, <3>3 DEF CallSpecialist, SpecialistRaises, store
    <3>4. CASE \E a \in Specialists : SpecialistAnswers(c, a)
      BY <1>2, <3>4, SpecialistRefines
    <3>5. CASE GatherEnds(c)
      <4>1. proj[c] \in Projects /\ status[proj[c]] \in Busy /\ ~snap[c].reviewer
        BY <1>2, <3>5, RunsAlone DEF GatherEnds, Inv, RunInv
      <4> QED BY <1>2, <2>1, <3>5, <4>1, FailRefines DEF GatherEnds, Fail
    <3>6. CASE ReviewerAnswers(c)
      BY <1>2, <3>6, ReviewerRefines
    <3> QED BY <2>3, <3>1, <3>2, <3>3, <3>4, <3>5, <3>6 DEF AgentStep
  <2>4. CASE UNCHANGED vars
    BY <2>1, <2>4 DEF vars
  <2> QED BY <1>2, <2>2, <2>3, <2>4, StartRefines DEF Next
<1>3. Inv /\ [Next]_vars => [Promise!Next]_(Promise!vars)
  BY <1>2
<1> QED BY <1>1, <1>3, InvCorrect, PTL DEF Spec, ImplementsPromise, Promise!Spec
=============================================================================
