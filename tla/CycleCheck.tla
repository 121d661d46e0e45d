------------------------------ MODULE CycleCheck ------------------------------
(***************************************************************************)
(* The depth-first search with which app/orchestrator/graph.py and         *)
(* src/orchestrator.py look for a cycle, beside what they look for.        *)
(*                                                                         *)
(* A graph maps each of its tasks to the tasks it depends on, which need   *)
(* not be in the graph.  Bound: the tasks in a list of dependencies are    *)
(* visited in one order.                                                   *)
(***************************************************************************)

(* A variant with a slip in it: a task met on two ways is one that is      *)
(* being visited.                                                          *)
HasCycle_Slip(deps) ==
    LET walk[visiting \in SUBSET DOMAIN deps, todo \in SUBSET DOMAIN deps] ==
            IF todo = {} THEN [cycle |-> FALSE, visiting |-> visiting]
            ELSE LET t == CHOOSE t \in todo : TRUE
                     tried ==
                         IF t \in visiting THEN [cycle |-> TRUE, visiting |-> visiting]
                         ELSE walk[visiting \cup {t}, deps[t] \cap DOMAIN deps]
                 IN  IF tried.cycle THEN tried ELSE walk[tried.visiting, todo \ {t}]
    IN  walk[{}, DOMAIN deps].cycle

(* A point of the search: the tasks on the way to those still to do, and   *)
(* the tasks known to be harmless.                                         *)
Points(deps) == [visiting : SUBSET DOMAIN deps, visited : SUBSET DOMAIN deps, todo : SUBSET DOMAIN deps]

(* visit, for each task still to do in turn until one has a cycle; walk is *)
(* what it does with the tasks below a task, and then with the others.     *)
Visit(deps, walk, at) ==
    IF at.todo = {} THEN [cycle |-> FALSE, visited |-> at.visited]
    ELSE LET t == CHOOSE t \in at.todo : TRUE
             below == walk[[at EXCEPT !.visiting = @ \cup {t}, !.todo = deps[t] \cap DOMAIN deps]]
             tried ==
                 IF t \in at.visiting THEN [cycle |-> TRUE, visited |-> at.visited]
                 ELSE IF t \in at.visited THEN [cycle |-> FALSE, visited |-> at.visited]
                 ELSE [below EXCEPT !.visited = @ \cup {t}]
         IN  IF tried.cycle THEN tried
             ELSE walk[[at EXCEPT !.visited = tried.visited, !.todo = @ \ {t}]]

Search(deps) ==
    LET walk[at \in Points(deps)] == Visit(deps, walk, at)
    IN  walk

HasCycle(deps) ==
    Search(deps)[[visiting |-> {}, visited |-> {}, todo |-> DOMAIN deps]].cycle

(* What the search is for: tasks each of which depends on another of them  *)
(* form, or lead into, a cycle.                                            *)
Acyclic(deps) ==
    \A ts \in SUBSET DOMAIN deps : ts # {} => \E t \in ts : deps[t] \cap ts = {}
=============================================================================
