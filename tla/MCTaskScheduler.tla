--------------------------- MODULE MCTaskScheduler ---------------------------
(***************************************************************************)
(* TaskScheduler with a few tasks.  All orders of adding them, and all     *)
(* requests to, are tried; but tasks differ only in their dependencies, so *)
(* that rounds need be looked at only for the graphs in which a task       *)
(* depends on tasks of lower numbers: any other is one of them with its    *)
(* tasks renamed.  Bound: some task depends on another (it is unrelated    *)
(* tasks that have most of the states).  Tasks that are not in the graph   *)
(* when the first round begins may be added at any later time.             *)
(***************************************************************************)
EXTENDS TaskScheduler

Numbered == \A t \in added : dependencies[t] \subseteq 1 .. (t - 1)

Linked == \E t \in added : dependencies[t] # {}

MCNext ==
    /\ Next
    /\ round' = 1 => Numbered' /\ Linked'

MCFairSpec == Init /\ [][MCNext]_vars /\ Fairness
=============================================================================
