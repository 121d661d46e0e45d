-------------------------- MODULE ResumableProject --------------------------
(***************************************************************************)
(* What a project promises, without requests, coroutines, permits or an    *)
(* HTTP interface: it collects one result from each agent, first the       *)
(* planner, then the specialists in any order, then the reviewer; a run    *)
(* may stop at any point and a later one goes on from the results there    *)
(* are; the reviewer's result, and nothing else, finishes the project.     *)
(***************************************************************************)
CONSTANTS Projects, Specialists

VARIABLES phase, results

vars == <<phase, results>>

Agents == Specialists \cup {"planner", "reviewer"}

(* The results an agent's task is made from. *)
Inputs(a) == CASE a = "planner"  -> {}
               [] a = "reviewer" -> Agents \ {"reviewer"}
               [] OTHER          -> {"planner"}

Init ==
    /\ phase = [p \in Projects |-> "absent"]
    /\ results = [p \in Projects |-> {}]

Create(p) ==
    /\ phase[p] = "absent"
    /\ phase' = [phase EXCEPT ![p] = "stopped"]
    /\ UNCHANGED results

Begin(p) ==
    /\ phase[p] = "stopped"
    /\ phase' = [phase EXCEPT ![p] = "active"]
    /\ UNCHANGED results

Stop(p) ==
    /\ phase[p] = "active"
    /\ phase' = [phase EXCEPT ![p] = "stopped"]
    /\ UNCHANGED results

(* An agent delivers, once.  A planner output may be one no run can go on  *)
(* with: then the run stops in the same step.                              *)
Deliver(p, a) ==
    /\ phase[p] = "active"
    /\ a \notin results[p]
    /\ Inputs(a) \subseteq results[p]
    /\ results' = [results EXCEPT ![p] = @ \cup {a}]
    /\ \/ /\ a = "reviewer"
          /\ phase' = [phase EXCEPT ![p] = "finished"]
       \/ /\ a # "reviewer"
          /\ UNCHANGED phase
       \/ /\ a = "planner"
          /\ phase' = [phase EXCEPT ![p] = "stopped"]

Next == \E p \in Projects :
    \/ Create(p) \/ Begin(p) \/ Stop(p)
    \/ \E a \in Agents : Deliver(p, a)

Spec == Init /\ [][Next]_vars
=============================================================================
