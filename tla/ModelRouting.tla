---------------------------- MODULE ModelRouting ----------------------------
(***************************************************************************)
(* What happens inside one agent call: AgentExecutionService.execute walks *)
(* the models of the agent's route, PerformanceController.run bounds the   *)
(* provider calls in flight, and ModelHealthRegistry, written through to   *)
(* SQLite, decides which models are asked and in which order.              *)
(*                                                                         *)
(* An action is the code between two awaits: the wait for a permit and the *)
(* provider call are the awaits of one attempt.                            *)
(***************************************************************************)
EXTENDS Naturals, Sequences, FiniteSets

CONSTANTS
    Calls,       \* the executions that may be in progress at one time
    Models,
    Reliable,    \* those of them whose calls never raise
    Routes,      \* the candidate sequences of the agents
    MaxActive,   \* max_parallel_agents, the permits of the controller
    Threshold,   \* failure_threshold
    Cooldown,    \* cooldown_seconds, in ticks of the clock
    Latencies,   \* what an attempt may be measured to take
    StoreFails   \* whether SQLiteModelHealthStore.save may raise

ASSUME RoutingAssumption ==
    /\ IsFiniteSet(Calls)
    /\ Reliable \subseteq Models
    /\ Routes \subseteq Seq(Models)
    /\ \A r \in Routes : r # <<>> /\ \A i, j \in DOMAIN r : r[i] = r[j] => i = j
    /\ MaxActive \in Nat \ {0} /\ Threshold \in Nat \ {0} /\ Cooldown \in Nat \ {0}
    /\ Latencies \subseteq Nat \ {0}
    /\ StoreFails \in BOOLEAN

VARIABLES
    health,   \* ModelHealthRegistry._models
    disk,     \* the rows of the model_health table
    unsaved,  \* history: the models for which the last save has raised
    pc,       \* where each execution is suspended
    route,    \* the agent's route, as configured
    chain,    \* the candidates still to be asked, ordered when execute began
    permits,  \* the controller's asyncio.Semaphore
    active,   \* the controller's _active
    outcome   \* how each execution ended

registry   == <<health, disk, unsaved>>
controller == <<permits, active>>
execution  == <<pc, route, chain, outcome>>
vars       == <<health, disk, unsaved, pc, route, chain, permits, active, outcome>>

(* Of a ModelHealth: consecutive_failures, which only matters up to the    *)
(* threshold; the average latency, 0 when there is none; and the time left *)
(* until cooldown_until, 0 when that is None or past.                      *)
Health == [failures : 0 .. Threshold, latency : Latencies \cup {0}, cooling : 0 .. Cooldown]

NoHistory == [failures |-> 0, latency |-> 0, cooling |-> 0]

TypeOK ==
    /\ health \in [Models -> Health]
    /\ disk \in [Models -> Health]
    /\ unsaved \subseteq Models
    /\ pc \in [Calls -> {"idle", "waiting", "calling"}]
    /\ route \in [Calls -> Routes]
    /\ chain \in [Calls -> Seq(Models)]
    /\ \A c \in Calls : pc[c] # "idle" => chain[c] # <<>>
    /\ permits \in Nat
    /\ active \in Nat
    /\ outcome \in [Calls -> {"none", "answered", "exhausted", "store_error"}]

Init ==
    /\ health = [m \in Models |-> NoHistory]
    /\ disk = health
    /\ unsaved = {}
    /\ pc = [c \in Calls |-> "idle"]
    /\ \E r \in Routes : route = [c \in Calls |-> r]
    /\ chain = [c \in Calls |-> <<>>]
    /\ permits = MaxActive
    /\ active = 0
    /\ outcome = [c \in Calls |-> "none"]

-----------------------------------------------------------------------------
(* ModelHealth.state for the models that are not cooling: healthy before   *)
(* degraded.                                                               *)
Degraded(m) == health[m].failures > 0
Cooling(m)  == health[m].cooling > 0

(* The sort key of order_candidates for the models at i and j of r: state, *)
(* then measured before unmeasured, then latency, then configured place.   *)
Before(r, i, j) ==
    LET h == health[r[i]]  k == health[r[j]] IN
    \/ ~Degraded(r[i]) /\ Degraded(r[j])
    \/ /\ Degraded(r[i]) = Degraded(r[j])
       /\ \/ h.latency # 0 /\ k.latency = 0
          \/ h.latency # 0 /\ k.latency # 0 /\ h.latency < k.latency
          \/ h.latency = k.latency /\ i < j

Available(r) == {i \in DOMAIN r : ~Cooling(r[i])}

(* Where the sort puts the model at i. *)
Place(r, i) == 1 + Cardinality({j \in Available(r) : Before(r, j, i)})

(* Variants with a slip in them, as each definition below whose name holds *)
(* _Slip: only the best candidate is kept; health is not looked at.        *)
OrderCandidates_Slip(r) ==
    IF Available(r) = {} THEN r ELSE <<r[CHOOSE i \in Available(r) : Place(r, i) = 1]>>

OrderCandidates_Slip2(r) == r

(* order_candidates: the models that are not cooling, sorted; the route as *)
(* it is when all are cooling.                                             *)
OrderCandidates(r) ==
    IF Available(r) = {} THEN r
    ELSE [n \in 1 .. Cardinality(Available(r)) |-> r[CHOOSE i \in Available(r) : Place(r, i) = n]]

(* record_success: the average moves towards the new latency. *)
Between(a, b) == {x \in Latencies : (a <= x /\ x <= b) \/ (b <= x /\ x <= a)}

AfterSuccess(h) ==
    {[failures |-> 0, latency |-> average, cooling |-> 0] :
        average \in IF h.latency = 0 THEN Latencies
                    ELSE UNION {Between(h.latency, measured) : measured \in Latencies}}

(* One failure too few, and the count is not kept at the threshold. *)
AfterFailure_Slip(h) ==
    IF h.failures + 2 >= Threshold
    THEN [h EXCEPT !.failures = @ + 1, !.cooling = Cooldown]
    ELSE [h EXCEPT !.failures = @ + 1]

(* record_failure: from the threshold on, every failure starts the         *)
(* cooldown anew.                                                          *)
AfterFailure(h) ==
    IF h.failures + 1 >= Threshold
    THEN [h EXCEPT !.failures = Threshold, !.cooling = Cooldown]
    ELSE [h EXCEPT !.failures = @ + 1]

(* Nothing is written to the table. *)
Saved_Slip(m, h) ==
    /\ health' = [health EXCEPT ![m] = h]
    /\ UNCHANGED <<disk, unsaved>>

(* _save: memory first, then the row. *)
Saved(m, h) ==
    /\ health' = [health EXCEPT ![m] = h]
    /\ disk' = [disk EXCEPT ![m] = h]
    /\ unsaved' = unsaved \ {m}

SaveRaises(m, h) ==
    /\ StoreFails
    /\ health' = [health EXCEPT ![m] = h]
    /\ unsaved' = unsaved \cup {m}
    /\ UNCHANGED disk

Finish(c, how) ==
    /\ pc' = [pc EXCEPT ![c] = "idle"]
    /\ chain' = [chain EXCEPT ![c] = <<>>]
    /\ outcome' = [outcome EXCEPT ![c] = how]
    /\ UNCHANGED route

-----------------------------------------------------------------------------
(* execute down to the wait for the first permit.  The order of the        *)
(* candidates is fixed here, however their health changes later.           *)
Execute(c, r) ==
    /\ pc[c] = "idle"
    /\ pc' = [pc EXCEPT ![c] = "waiting"]
    /\ route' = [route EXCEPT ![c] = r]
    /\ chain' = [chain EXCEPT ![c] = OrderCandidates(r)]
    /\ outcome' = [outcome EXCEPT ![c] = "none"]
    /\ UNCHANGED <<registry, controller>>

CallProvider(c) ==
    /\ pc[c] = "waiting"
    /\ permits > 0
    /\ permits' = permits - 1
    /\ active' = active + 1
    /\ pc' = [pc EXCEPT ![c] = "calling"]
    /\ UNCHANGED <<registry, route, chain, outcome>>

(* The permit is kept. *)
LeaveController_Slip ==
    /\ permits' = permits
    /\ active' = active - 1

(* `finally` in PerformanceController.run, and the end of its `async with`. *)
LeaveController ==
    /\ permits' = permits + 1
    /\ active' = active - 1

(* The provider answers.  Recording the success is outside the try of      *)
(* execute: if it raises, the answer is lost.                              *)
ProviderAnswers(c) ==
    /\ pc[c] = "calling"
    /\ LeaveController
    /\ \E h \in AfterSuccess(health[Head(chain[c])]) :
          \/ Saved(Head(chain[c]), h) /\ Finish(c, "answered")
          \/ SaveRaises(Head(chain[c]), h) /\ Finish(c, "store_error")

(* The same candidate is asked again until it answers. *)
ProviderRaises_Slip(c) ==
    LET m == Head(chain[c]) IN
    /\ pc[c] = "calling"
    /\ m \notin Reliable
    /\ LeaveController
    /\ Saved(m, AfterFailure(health[m]))
    /\ pc' = [pc EXCEPT ![c] = "waiting"]
    /\ UNCHANGED <<route, chain, outcome>>

(* The provider raises: the next candidate's turn, or, after the last one, *)
(* ModelFallbackError.  Recording the failure is inside the handler: if it *)
(* raises, execute is left and the other candidates are not asked.         *)
ProviderRaises(c) ==
    LET m == Head(chain[c])  h == AfterFailure(health[m])  rest == Tail(chain[c]) IN
    /\ pc[c] = "calling"
    /\ m \notin Reliable
    /\ LeaveController
    /\ \/ /\ Saved(m, h)
          /\ rest = <<>>
          /\ Finish(c, "exhausted")
       \/ /\ Saved(m, h)
          /\ rest # <<>>
          /\ pc' = [pc EXCEPT ![c] = "waiting"]
          /\ chain' = [chain EXCEPT ![c] = rest]
          /\ UNCHANGED <<route, outcome>>
       \/ /\ SaveRaises(m, h)
          /\ Finish(c, "store_error")

(* Time passes, for the rows of the table as well. *)
Elapse(hs) == [m \in Models |-> [hs[m] EXCEPT !.cooling = IF @ = 0 THEN 0 ELSE @ - 1]]

Tick ==
    /\ \E m \in Models : Cooling(m) \/ disk[m].cooling > 0
    /\ health' = Elapse(health)
    /\ disk' = Elapse(disk)
    /\ UNCHANGED <<unsaved, controller, execution>>

(* The process dies, with every execution in it, and a new one loads the   *)
(* table.                                                                  *)
Restart ==
    /\ health' = disk
    /\ unsaved' = {}
    /\ pc' = [c \in Calls |-> "idle"]
    /\ chain' = [c \in Calls |-> <<>>]
    /\ permits' = MaxActive
    /\ active' = 0
    /\ outcome' = [c \in Calls |-> "none"]
    /\ UNCHANGED <<disk, route>>

Next ==
    \/ \E c \in Calls :
          \/ \E r \in Routes : Execute(c, r)
          \/ CallProvider(c) \/ ProviderAnswers(c) \/ ProviderRaises(c)
    \/ Tick
    \/ Restart

Spec == Init /\ [][Next]_vars

(* Provider calls end (each attempt has a timeout, and the attempts are    *)
(* counted), the semaphore serves its waiters in order, and time passes.   *)
FairSpec ==
    /\ Spec
    /\ WF_vars(Tick)
    /\ \A c \in Calls :
          /\ SF_vars(CallProvider(c))
          /\ WF_vars(ProviderAnswers(c) \/ ProviderRaises(c))

-----------------------------------------------------------------------------
Candidates(r) == {r[i] : i \in DOMAIN r}

InFlight == {c \in Calls : pc[c] = "calling"}

(* Provider calls never exceed the limit, and whatever an attempt ends     *)
(* with gives its permit back; _active counts the calls in flight.         *)
ActiveIsBounded ==
    /\ active = Cardinality(InFlight)
    /\ permits + active = MaxActive

(* "transparently fall back if the primary NVIDIA model fails"             *)
(* (project_execution.py): an execution whose route holds a model that     *)
(* works does not run out of models, however the health of the others,     *)
(* cooldowns, the order of concurrent attempts, saves that raise and       *)
(* restarts have shaped its chain.                                         *)
AWorkingModelIsFound ==
    \A c \in Calls : Candidates(route[c]) \cap Reliable # {} => outcome[c] # "exhausted"

(* A model cools down only after Threshold failures with no success after  *)
(* them, and so a model whose calls never raise is never skipped.          *)
CooldownIsEarned ==
    \A m \in Models :
       /\ Cooling(m) => health[m].failures = Threshold
       /\ m \in Reliable => health[m].failures = 0

(* A restart forgets nothing, not a cooldown and not a latency, but what a *)
(* save that raised has kept from the table.                               *)
HealthSurvivesRestart ==
    [][Restart => \A m \in Models \ unsaved : health'[m] = health[m]]_vars

(* Every execution ends. *)
ExecutionsEnd == \A c \in Calls : pc[c] # "idle" ~> pc[c] = "idle"

(* A model in cooldown is asked by an execution that has no other choice.  *)
Hopeless(c) == pc[c] = "calling" /\ Cooling(Head(chain[c])) /\ Candidates(route[c]) \cap Reliable = {}

(* No model is put aside for good, unless agents without a model that      *)
(* works keep asking it while it cools down: new executions of the others  *)
(* pass it over, and those that had it in their chain already can prolong  *)
(* its cooldown only so often.                                             *)
CooledModelsComeBack ==
    \A m \in Models : []<>(~Cooling(m) \/ \E c \in Calls : Hopeless(c) /\ Head(chain[c]) = m)
=============================================================================
