------------------------- MODULE MCProjectExecution -------------------------
(***************************************************************************)
(* ProjectExecution on small instances.  Clients, projects and specialists *)
(* are interchangeable, which the safety runs use; liveness is checked     *)
(* without symmetry.                                                       *)
(***************************************************************************)
EXTENDS ProjectExecution, TLC

Symmetry == Permutations(Projects) \cup Permutations(Clients) \cup Permutations(Specialists)
=============================================================================
