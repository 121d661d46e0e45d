--------------------------- MODULE MCModelRouting ---------------------------
(***************************************************************************)
(* ModelRouting with two agents that have the same model first, and of     *)
(* which one has nothing else to fall back to.                             *)
(***************************************************************************)
EXTENDS ModelRouting

CONSTANTS m1, m2

MCRoutes == {<<m1, m2>>, <<m1>>}
=============================================================================
