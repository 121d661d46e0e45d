-------------------------- MODULE ProjectExecution --------------------------
(***************************************************************************)
(* The project run: app/api/projects.py (the endpoints), project_store.py, *)
(* project_execution.py, checkpoints.py and app/orchestrator/__init__.py   *)
(* composed as one asyncio event loop executes them.  One action is the    *)
(* code between two awaits, so everything an action changes is changed in  *)
(* one step of the loop.                                                   *)
(*                                                                         *)
(* An agent call (AgentRunner.execute) is an await that ends with a result *)
(* or an exception; ModelRouting models what happens inside it.            *)
(***************************************************************************)
EXTENDS Naturals, FiniteSets

CONSTANTS
    Projects,        \* the project ids that may be created
    Clients,         \* the HTTP start requests that may be open at one time
    Specialists,     \* SPECIALIST_AGENTS
    MaxParallel,     \* max_parallel_agents, the permits of the semaphore
    PromptKinds,     \* what a stored prompt can be
    PlannerOutputs   \* what the content of a planner answer can be

(* All a text is asked is whether .strip() leaves anything of it. *)
Texts == {"text", "blank"}

ASSUME ExecutionAssumption ==
    /\ IsFiniteSet(Clients)
    /\ IsFiniteSet(Specialists)
    /\ {"planner", "reviewer"} \cap Specialists = {}
    /\ MaxParallel \in Nat \ {0}
    /\ PromptKinds \subseteq Texts
    /\ PlannerOutputs \subseteq Texts

VARIABLES
    status,    \* ProjectStore: the status of each project, "absent" before create
    prompt,    \* ProjectStore: the stored prompt
    ckpt,      \* CheckpointStore: one ProjectCheckpoint for each project
    pc,        \* where the coroutine that serves each request is suspended
    proj,      \* the project a request is, or was last, about
    snap,      \* the copy of the checkpoint the coroutine took when it started
    task,      \* the gathered run_specialist coroutines of each request
    permits,   \* the orchestrator's asyncio.Semaphore, shared by all projects
    outcome    \* the last HTTP answer of each request

store   == <<status, prompt>>
request == <<pc, proj, snap, task, outcome>>
vars    == <<status, prompt, ckpt, pc, proj, snap, task, permits, outcome>>

Startable  == {"created", "failed"}
Busy       == {"planning", "running"}
Statuses   == {"absent", "completed"} \cup Startable \cup Busy
Checkpoint == [planner : Texts \cup {"none"}, specialists : SUBSET Specialists, reviewer : BOOLEAN]
TaskStates == {"none", "waiting", "calling", "ok", "error"}
Outcomes   == {"none", "200", "404", "409", "500"}

EmptyCheckpoint == [planner |-> "none", specialists |-> {}, reviewer |-> FALSE]
NoTasks         == [a \in Specialists |-> "none"]

TypeOK ==
    /\ status \in [Projects -> Statuses]
    /\ prompt \in [Projects -> Texts]
    /\ ckpt \in [Projects -> Checkpoint]
    /\ pc \in [Clients -> {"idle", "planner", "specialists", "reviewer"}]
    /\ proj \in [Clients -> Projects]
    /\ snap \in [Clients -> Checkpoint]
    /\ task \in [Clients -> [Specialists -> TaskStates]]
    /\ permits \in Nat
    /\ outcome \in [Clients -> Outcomes]

Init ==
    /\ status = [p \in Projects |-> "absent"]
    /\ prompt = [p \in Projects |-> "text"]
    /\ ckpt = [p \in Projects |-> EmptyCheckpoint]
    /\ pc = [c \in Clients |-> "idle"]
    /\ \E p \in Projects : proj = [c \in Clients |-> p]
    /\ snap = [c \in Clients |-> EmptyCheckpoint]
    /\ task = [c \in Clients |-> NoTasks]
    /\ permits = MaxParallel
    /\ outcome = [c \in Clients |-> "none"]

-----------------------------------------------------------------------------
(* POST /projects.  The length of the prompt is validated before it is     *)
(* stripped, so twenty spaces are stored as a blank prompt.                *)
Create(p) ==
    /\ status[p] = "absent"
    /\ status' = [status EXCEPT ![p] = "created"]
    /\ \E text \in PromptKinds : prompt' = [prompt EXCEPT ![p] = text]
    /\ UNCHANGED <<ckpt, permits, request>>

(* The coroutine of request c ends and the endpoint answers.  Its locals   *)
(* (the checkpoint copy, the gathered records) die with it.                *)
Answer(c, code) ==
    /\ pc' = [pc EXCEPT ![c] = "idle"]
    /\ outcome' = [outcome EXCEPT ![c] = code]
    /\ snap' = [snap EXCEPT ![c] = EmptyCheckpoint]
    /\ task' = [task EXCEPT ![c] = NoTasks]

(* A variant with a slip in it, as each definition below whose name ends   *)
(* in _Slip: an exception that leaves the status as it is.                 *)
Fail_Slip(c, p, code) ==
    /\ UNCHANGED status
    /\ Answer(c, code)

(* `except Exception`: the project is FAILED and the exception goes to the *)
(* endpoint, which makes 409 of a ValueError and 500 of any other.  It     *)
(* would make 502 of an NvidiaProviderError, but AgentExecutionService     *)
(* raises a ModelFallbackError in its place.                               *)
Fail(c, p, code) ==
    /\ status' = [status EXCEPT ![p] = "failed"]
    /\ Answer(c, code)

(* The checkpointed specialists run again. *)
Orchestrate_Slip(c, p, planner, copy) ==
    \/ /\ "blank" \in {prompt[p], planner}
       /\ Fail(c, p, "409")
    \/ /\ "blank" \notin {prompt[p], planner}
       /\ status' = [status EXCEPT ![p] = "running"]
       /\ pc' = [pc EXCEPT ![c] = "specialists"]
       /\ snap' = [snap EXCEPT ![c] = copy]
       /\ task' = [task EXCEPT ![c] = [a \in Specialists |-> "waiting"]]
       /\ outcome' = [outcome EXCEPT ![c] = "none"]

(* set_status(RUNNING) and MultiAgentOrchestrator.execute down to the      *)
(* gather.  A blank prompt or planner output is a ValueError; otherwise    *)
(* one run_specialist coroutine starts for each agent, and those whose     *)
(* result is in `copy`, the checkpoint read by start, return it without    *)
(* taking a permit.                                                        *)
Orchestrate(c, p, planner, copy) ==
    \/ /\ "blank" \in {prompt[p], planner}
       /\ Fail(c, p, "409")
    \/ /\ "blank" \notin {prompt[p], planner}
       /\ status' = [status EXCEPT ![p] = "running"]
       /\ pc' = [pc EXCEPT ![c] = "specialists"]
       /\ snap' = [snap EXCEPT ![c] = copy]
       /\ task' = [task EXCEPT ![c] = [a \in Specialists |->
                      IF a \in copy.specialists THEN "ok" ELSE "waiting"]]
       /\ outcome' = [outcome EXCEPT ![c] = "none"]

(* POST /projects/{id}/start down to its first await: an unknown project,  *)
(* a project that may not start, one without a planner output, and one     *)
(* whose planner output is checkpointed.                                   *)
StartUnknown(c, p) ==
    /\ status[p] = "absent"
    /\ Answer(c, "404")
    /\ UNCHANGED status

StartRefused(c, p) ==
    /\ status[p] \notin Startable \cup {"absent"}
    /\ Answer(c, "409")
    /\ UNCHANGED status

(* A start accepted while another one is planning. *)
StartPlanning_Slip(c, p) ==
    /\ status[p] \in Startable \cup {"planning"}
    /\ ckpt[p].planner = "none"
    /\ status' = [status EXCEPT ![p] = "planning"]
    /\ pc' = [pc EXCEPT ![c] = "planner"]
    /\ snap' = [snap EXCEPT ![c] = ckpt[p]]
    /\ outcome' = [outcome EXCEPT ![c] = "none"]
    /\ UNCHANGED task

StartPlanning(c, p) ==
    /\ status[p] \in Startable
    /\ ckpt[p].planner = "none"
    /\ status' = [status EXCEPT ![p] = "planning"]
    /\ pc' = [pc EXCEPT ![c] = "planner"]
    /\ snap' = [snap EXCEPT ![c] = ckpt[p]]
    /\ outcome' = [outcome EXCEPT ![c] = "none"]
    /\ UNCHANGED task

StartResumed(c, p) ==
    /\ status[p] \in Startable
    /\ ckpt[p].planner # "none"
    /\ Orchestrate(c, p, ckpt[p].planner, ckpt[p])

Start(c, p) ==
    /\ pc[c] = "idle"
    /\ proj' = [proj EXCEPT ![c] = p]
    /\ StartUnknown(c, p) \/ StartRefused(c, p) \/ StartPlanning(c, p) \/ StartResumed(c, p)
    /\ UNCHANGED <<prompt, ckpt, permits>>

(* The planner call ends: its output is checkpointed before anything looks *)
(* at it, or the project fails.                                            *)
PlannerAnswers(c) ==
    /\ pc[c] = "planner"
    /\ \E content \in PlannerOutputs :
          /\ ckpt' = [ckpt EXCEPT ![proj[c]].planner = content]
          /\ Orchestrate(c, proj[c], content, snap[c])
    /\ UNCHANGED <<prompt, proj, permits>>

PlannerRaises(c) ==
    /\ pc[c] = "planner"
    /\ Fail(c, proj[c], "500")
    /\ UNCHANGED <<prompt, ckpt, proj, permits>>

(* `async with self._semaphore` in run_specialist, and the agent call.     *)
CallSpecialist(c, a) ==
    /\ task[c][a] = "waiting"
    /\ permits > 0
    /\ permits' = permits - 1
    /\ task' = [task EXCEPT ![c][a] = "calling"]
    /\ UNCHANGED <<store, ckpt, pc, proj, snap, outcome>>

(* A specialist's result is not checkpointed. *)
SpecialistAnswers_Slip(c, a) ==
    /\ task[c][a] = "calling"
    /\ task' = [task EXCEPT ![c][a] = "ok"]
    /\ permits' = permits + 1
    /\ UNCHANGED <<store, ckpt, pc, proj, snap, outcome>>

(* The agent call ends: on_checkpoint and the release of the permit happen *)
(* in the same step.  An exception becomes an error record.                *)
SpecialistAnswers(c, a) ==
    /\ task[c][a] = "calling"
    /\ task' = [task EXCEPT ![c][a] = "ok"]
    /\ ckpt' = [ckpt EXCEPT ![proj[c]].specialists = @ \cup {a}]
    /\ permits' = permits + 1
    /\ UNCHANGED <<store, pc, proj, snap, outcome>>

(* A failed call is tried again without end. *)
SpecialistRaises_Slip(c, a) ==
    /\ task[c][a] = "calling"
    /\ task' = [task EXCEPT ![c][a] = "waiting"]
    /\ permits' = permits + 1
    /\ UNCHANGED <<store, ckpt, pc, proj, snap, outcome>>

SpecialistRaises(c, a) ==
    /\ task[c][a] = "calling"
    /\ task' = [task EXCEPT ![c][a] = "error"]
    /\ permits' = permits + 1
    /\ UNCHANGED <<store, ckpt, pc, proj, snap, outcome>>

(* execute returns: the project is COMPLETED. *)
Complete(c, p) ==
    /\ status' = [status EXCEPT ![p] = "completed"]
    /\ Answer(c, "200")

(* The reviewer is called although a specialist failed. *)
GatherEnds_Slip(c) ==
    /\ pc[c] = "specialists"
    /\ \A a \in Specialists : task[c][a] \in {"ok", "error"}
    /\ pc' = [pc EXCEPT ![c] = "reviewer"]
    /\ UNCHANGED <<status, prompt, ckpt, proj, snap, task, permits, outcome>>

(* gather returns when every record is there.  One error is enough for an  *)
(* OrchestrationError; with none the reviewer is called, unless the copy   *)
(* of the checkpoint already holds its result.                             *)
GatherEnds(c) ==
    /\ pc[c] = "specialists"
    /\ \A a \in Specialists : task[c][a] \in {"ok", "error"}
    /\ \/ /\ \E a \in Specialists : task[c][a] = "error"
          /\ Fail(c, proj[c], "500")
       \/ /\ \A a \in Specialists : task[c][a] = "ok"
          /\ IF snap[c].reviewer
             THEN Complete(c, proj[c])
             ELSE /\ pc' = [pc EXCEPT ![c] = "reviewer"]
                  /\ UNCHANGED <<status, snap, task, outcome>>
    /\ UNCHANGED <<prompt, ckpt, proj, permits>>

(* The review is not checkpointed. *)
ReviewerAnswers_Slip(c) ==
    /\ pc[c] = "reviewer"
    /\ Complete(c, proj[c])
    /\ UNCHANGED <<prompt, ckpt, proj, permits>>

(* A failed review completes the project all the same. *)
ReviewerRaises_Slip(c) ==
    /\ pc[c] = "reviewer"
    /\ Complete(c, proj[c])
    /\ UNCHANGED <<prompt, ckpt, proj, permits>>

(* The reviewer call takes no permit.  Its result is checkpointed in the   *)
(* step that completes the project.                                        *)
ReviewerAnswers(c) ==
    /\ pc[c] = "reviewer"
    /\ ckpt' = [ckpt EXCEPT ![proj[c]].reviewer = TRUE]
    /\ Complete(c, proj[c])
    /\ UNCHANGED <<prompt, proj, permits>>

ReviewerRaises(c) ==
    /\ pc[c] = "reviewer"
    /\ Fail(c, proj[c], "500")
    /\ UNCHANGED <<prompt, ckpt, proj, permits>>

AgentStep(c) ==
    \/ PlannerAnswers(c) \/ PlannerRaises(c)
    \/ \E a \in Specialists : CallSpecialist(c, a) \/ SpecialistAnswers(c, a) \/ SpecialistRaises(c, a)
    \/ GatherEnds(c)
    \/ ReviewerAnswers(c) \/ ReviewerRaises(c)

Next ==
    \/ \E p \in Projects : Create(p)
    \/ \E c \in Clients, p \in Projects : Start(c, p)
    \/ \E c \in Clients : AgentStep(c)

Spec == Init /\ [][Next]_vars

(* Every agent call ends: the provider bounds each attempt by a timeout    *)
(* and the number of attempts.  The waiters of an asyncio.Semaphore are    *)
(* served in order, so a waiter for whom a permit comes free again and     *)
(* again gets one: strong fairness.                                        *)
FairSpec ==
    /\ Spec
    /\ \A c \in Clients :
          /\ WF_vars(PlannerAnswers(c) \/ PlannerRaises(c))
          /\ WF_vars(GatherEnds(c))
          /\ WF_vars(ReviewerAnswers(c) \/ ReviewerRaises(c))
          /\ \A a \in Specialists :
                /\ SF_vars(CallSpecialist(c, a))
                /\ WF_vars(SpecialistAnswers(c, a) \/ SpecialistRaises(c, a))

(* A user who starts project p again after each failure, and agents that   *)
(* fail any number of times but not for ever.  Nothing guarantees this: it *)
(* is the premise of RetriedProjectCompletes.                              *)
Restart(p) == status[p] \in Startable /\ \E c \in Clients : Start(c, p)

Persistent(p) ==
    /\ SF_vars(Restart(p))
    /\ SF_vars(\E c \in Clients : proj[c] = p /\ PlannerAnswers(c))
    /\ SF_vars(\E c \in Clients : proj[c] = p /\ ReviewerAnswers(c))
    /\ \A a \in Specialists :
          SF_vars(\E c \in Clients : proj[c] = p /\ SpecialistAnswers(c, a))

-----------------------------------------------------------------------------
Running(c, p) == pc[c] # "idle" /\ proj[c] = p

InFlight(c, p, a) ==
    /\ Running(c, p)
    /\ \/ a = "planner" /\ pc[c] = "planner"
       \/ a = "reviewer" /\ pc[c] = "reviewer"
       \/ a \in Specialists /\ task[c][a] = "calling"

Agents == Specialists \cup {"planner", "reviewer"}

(* The results a project has, as the agents that produced them. *)
Results(p) ==
    ckpt[p].specialists
       \cup (IF ckpt[p].planner = "none" THEN {} ELSE {"planner"})
       \cup (IF ckpt[p].reviewer THEN {"reviewer"} ELSE {})

Holders == {h \in Clients \X Specialists : task[h[1]][h[2]] = "calling"}

(* The status guard of start is read and the status set without an await   *)
(* between them: two requests never run the same project at once.          *)
OneRunPerProject ==
    \A p \in Projects : \A c, d \in Clients : Running(c, p) /\ Running(d, p) => c = d

(* A project that says PLANNING or RUNNING has a coroutine that will move  *)
(* it on (whatever fails, start leaves no project stuck in a status from   *)
(* which it cannot be started again), and the status says how far it is.   *)
StatusTellsTheRun ==
    \A p \in Projects :
       /\ status[p] = "planning" <=> \E c \in Clients : Running(c, p) /\ pc[c] = "planner"
       /\ status[p] = "running" <=> \E c \in Clients : Running(c, p) /\ pc[c] # "planner"

(* Every path out of run_specialist gives its permit back, for all the     *)
(* projects that share the orchestrator; so at most MaxParallel specialist *)
(* calls run at once.                                                      *)
PermitsConserved == Cardinality(Holders) = MaxParallel - permits

(* What is checkpointed is never asked for again, and no agent works twice *)
(* at once for a project.                                                  *)
NoRepeatedWork ==
    \A p \in Projects, a \in Agents :
       /\ \A c \in Clients : InFlight(c, p, a) => a \notin Results(p)
       /\ \A c, d \in Clients : InFlight(c, p, a) /\ InFlight(d, p, a) => c = d

(* The reviewer is called on the records a run gathered, some of this run  *)
(* and some of its checkpoint copy: they are the results of all the        *)
(* specialists, and the checkpoint store holds every one of them.          *)
ReviewerSeesEverySpecialist ==
    \A c \in Clients : pc[c] = "reviewer" => Results(proj[c]) = Agents \ {"reviewer"}

(* COMPLETED is said of exactly the projects whose checkpoint has a        *)
(* review, and then it has every result; a request answered 200 is about   *)
(* such a project, and nothing un-completes it afterwards.                 *)
CompletedIsWhole ==
    /\ \A p \in Projects :
          /\ status[p] = "completed" <=> "reviewer" \in Results(p)
          /\ status[p] = "completed" => Results(p) = Agents
    /\ \A c \in Clients : outcome[c] = "200" => status[proj[c]] = "completed"

(* No failure, refusal or restart loses or replaces a checkpointed result. *)
ResultsAreKept ==
    [][\A p \in Projects :
          /\ Results(p) \subseteq Results(p)'
          /\ ckpt[p].planner # "none" => ckpt[p]'.planner = ckpt[p].planner]_vars

(* The status of a project with a run changes only in a step of that run:  *)
(* other requests, refused or about other projects, cannot move it.        *)
OnlyTheRunMovesItsProject ==
    [][\A p \in Projects, c \in Clients :
          Running(c, p) /\ status[p]' # status[p] => pc[c]' # pc[c]]_vars

(* Every start is answered: no failure of an agent, and no number of other *)
(* projects that compete for the permits, leaves a request waiting.        *)
RunsEnd == \A c \in Clients : pc[c] # "idle" ~> pc[c] = "idle"

(* "retained so a failed project can resume without repeating work"        *)
(* (checkpoints.py): a project that is started again after each failure    *)
(* completes, even if in no single run all the agents succeed.             *)
RetriedProjectCompletes ==
    \A p \in Projects : Persistent(p) => (status[p] = "created" ~> status[p] = "completed")

(* The detailed run implements the promise of ResumableProject: seen       *)
(* through the store and the checkpoints only, a project collects each     *)
(* result once, in order, over any number of runs, and finishes with the   *)
(* review.                                                                 *)
PhaseOf(s) == CASE s = "absent"    -> "absent"
                [] s \in Startable -> "stopped"
                [] s \in Busy      -> "active"
                [] s = "completed" -> "finished"

Promise == INSTANCE ResumableProject WITH
    phase   <- [p \in Projects |-> PhaseOf(status[p])],
    results <- [p \in Projects |-> Results(p)]

ImplementsPromise == Promise!Spec

-----------------------------------------------------------------------------
(* The inductive invariant behind the properties above.  RunInv says what  *)
(* the coroutine of a request may rely on.  It works from a copy of the    *)
(* checkpoint, and yet what it has gathered and what the store holds       *)
(* agree, because nobody else adds to the checkpoint of its project.       *)
RunInv(c) ==
    /\ pc[c] = "idle" => task[c] = NoTasks
    /\ pc[c] = "planner" =>
          /\ status[proj[c]] = "planning"
          /\ task[c] = NoTasks
          /\ snap[c] = EmptyCheckpoint
          /\ ckpt[proj[c]] = EmptyCheckpoint
    /\ pc[c] = "specialists" =>
          /\ status[proj[c]] = "running"
          /\ ~snap[c].reviewer
          /\ \A a \in Specialists : task[c][a] # "none"
          /\ ckpt[proj[c]].planner # "none"
          /\ \A a \in Specialists : a \in ckpt[proj[c]].specialists <=> task[c][a] = "ok"
    /\ pc[c] = "reviewer" =>
          /\ status[proj[c]] = "running"
          /\ \A a \in Specialists : task[c][a] = "ok"
          /\ ckpt[proj[c]].planner # "none"
          /\ ckpt[proj[c]].specialists = Specialists
    /\ outcome[c] = "200" => status[proj[c]] = "completed"

ProjectInv(p) ==
    /\ ckpt[p].planner = "none" => ckpt[p] = EmptyCheckpoint
    /\ ckpt[p].reviewer <=> status[p] = "completed"
    /\ status[p] = "completed" => ckpt[p].specialists = Specialists
    /\ status[p] = "absent" => ckpt[p] = EmptyCheckpoint

BusyIsRun == \A p \in Projects : status[p] \in Busy => \E c \in Clients : Running(c, p)

(* Together these say that the status start checks is a lock on the        *)
(* project, and what the holder of the lock may rely on.                   *)
Inv ==
    /\ TypeOK
    /\ OneRunPerProject
    /\ BusyIsRun
    /\ \A c \in Clients : RunInv(c)
    /\ \A p \in Projects : ProjectInv(p)
=============================================================================
