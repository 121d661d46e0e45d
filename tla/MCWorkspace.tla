---------------------------- MODULE MCWorkspace -----------------------------
(***************************************************************************)
(* Workspace with two spellings of one file, one of another, and one path  *)
(* outside the workspace.                                                  *)
(***************************************************************************)
EXTENDS Workspace, TLC

CONSTANTS f1, f2

MCPaths == {"src/app.py", "src\\app.py", "README.md", "../secret"}

MCNormalized == [path \in MCPaths |->
    CASE path \in {"src/app.py", "src\\app.py"} -> f1
      [] path = "README.md"                     -> f2
      [] path = "../secret"                     -> Unsafe]

Symmetry == Permutations(Tasks)
=============================================================================
