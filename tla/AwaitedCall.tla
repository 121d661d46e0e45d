----------------------------- MODULE AwaitedCall -----------------------------
(***************************************************************************)
(* What callers take the call of an agent for: it is awaited, and after a  *)
(* while it returns an answer, raises one of the errors they expect        *)
(* (SCHEDULER_FAILURES of the task scheduler), raises another one, or is   *)
(* cancelled.  It may also raise at once.                                  *)
(***************************************************************************)

VARIABLES
    pending,
    result    \* of the last call that ended

Results == {"answer", "failure", "stray", "cancelled"}

Init ==
    /\ pending = FALSE
    /\ result = "none"

Await ==
    /\ ~pending
    /\ pending' = TRUE
    /\ result' = "none"

RaiseAtOnce ==
    /\ ~pending
    /\ pending' = FALSE
    /\ result' = "failure"

End ==
    /\ pending
    /\ pending' = FALSE
    /\ result' \in Results

Next == Await \/ RaiseAtOnce \/ End

Spec == Init /\ [][Next]_<<pending, result>> /\ WF_<<pending, result>>(End)
=============================================================================
