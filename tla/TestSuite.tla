------------------------------ MODULE TestSuite ------------------------------
(***************************************************************************)
(* A call of TestRunner.run_suite with a SecureSandboxExecutor: gather     *)
(* runs the cases under a semaphore of the call, each asks the sandbox to  *)
(* run its command, and wait_for bounds the time of that.  Calls share     *)
(* nothing but the runner and its backend, so that one call is modelled.   *)
(*                                                                         *)
(* Time is counted in ticks, and the event loop keeps up with it: what is  *)
(* due happens before the next tick.                                       *)
(***************************************************************************)
EXTENDS Naturals, Sequences, FiniteSets

CONSTANTS
    MaxCases,    \* bound: the length of a suite
    MaxParallel, \* bound: the max_parallel of a call
    Timeouts,    \* of cases; 0 stands for those that are not positive
    MaxTimeout,  \* the policy's max_timeout_seconds
    Grace        \* bound: how long a cancelled backend goes on

ASSUME SuiteAssumption ==
    /\ MaxCases \in Nat /\ MaxParallel \in Nat
    /\ Timeouts \subseteq Nat
    /\ MaxTimeout \in Nat
    /\ Grace \in Nat

VARIABLES
    cases,    \* the arguments of the call
    parallel,
    outcome,  \* of the gather
    permits,  \* the semaphore
    pc,       \* where each case's guarded is suspended
    verdict,
    spent,    \* how long each command has been with the backend,
    reply,    \* history: how the backend has ended it,
    age       \* and how long the call has taken

args == <<cases, parallel>>
vars == <<cases, parallel, outcome, permits, pc, verdict, spent, reply, age>>

(* A command may be missing, or have an executable or argument that the    *)
(* policy does not allow.                                                  *)
Case == [command : {"empty", "forbidden", "allowed"}, timeout : Timeouts]

Ids == DOMAIN cases

(* What run_case raises a ValueError for. *)
Malformed(i) == cases[i].command = "empty" \/ cases[i].timeout = 0

(* validate, whose own checks for what is malformed run_case has made.     *)
Refused(i) == cases[i].command = "forbidden" \/ cases[i].timeout > MaxTimeout

AtBackend == {i \in Ids : pc[i] \in {"running", "stopping"}}

TypeOK ==
    /\ cases \in Seq(Case)
    /\ parallel \in Nat
    /\ outcome \in {"running", "returned", "raised"}
    /\ permits \in Nat
    /\ pc \in [Ids -> {"queued", "running", "stopping", "ended", "raised"}]
    /\ verdict \in [Ids -> {"none", "passed", "failed", "timed_out", "error"}]
    /\ spent \in [Ids -> Nat]
    /\ reply \in [Ids -> {"none", "zero", "nonzero", "TimeoutError", "exception", "cancelled"}]
    /\ age \in Nat

(* run_suite refuses a max_parallel of 0, and gathers nothing at once. *)
Init ==
    /\ cases \in UNION {[1 .. n -> Case] : n \in 0 .. MaxCases}
    /\ parallel \in 0 .. MaxParallel
    /\ outcome = IF parallel = 0 THEN "raised" ELSE IF cases = <<>> THEN "returned" ELSE "running"
    /\ permits = parallel
    /\ pc = [i \in Ids |-> IF parallel = 0 THEN "ended" ELSE "queued"]
    /\ verdict = [i \in Ids |-> "none"]
    /\ spent = [i \in Ids |-> 0]
    /\ reply = [i \in Ids |-> "none"]
    /\ age = 0

-----------------------------------------------------------------------------
(* Variants with a slip in them, as each definition below whose name holds *)
(* _Slip: the gather is told to return exceptions.                         *)
Finish_Slip(i, place) ==
    /\ pc' = [pc EXCEPT ![i] = place]
    /\ outcome' = IF outcome = "running" /\ \A j \in Ids : pc'[j] \in {"ended", "raised"}
                  THEN "returned" ELSE outcome

(* The end of a guarded, and what the gather makes of it: it raises with   *)
(* the first that raises, returns with the last, and cancels none.         *)
Finish(i, place) ==
    /\ pc' = [pc EXCEPT ![i] = place]
    /\ outcome' = IF outcome = "running" /\ place = "raised" THEN "raised"
                  ELSE IF outcome = "running" /\ \A j \in Ids : pc'[j] = "ended" THEN "returned"
                  ELSE outcome

(* The head of the semaphore's queue, which is in the order of the cases. *)
IsNext(i) ==
    /\ pc[i] = "queued"
    /\ permits > 0
    /\ \A j \in Ids : j < i => pc[j] # "queued"

(* There is no `async with`, and the permit is lost. *)
Raise_Slip(i) ==
    /\ IsNext(i)
    /\ Malformed(i)
    /\ permits' = permits - 1
    /\ Finish(i, "raised")
    /\ UNCHANGED <<args, verdict, spent, reply, age>>

(* run_case raises, and `async with` gives the permit back. *)
Raise(i) ==
    /\ IsNext(i)
    /\ Malformed(i)
    /\ Finish(i, "raised")
    /\ UNCHANGED <<args, permits, verdict, spent, reply, age>>

(* The sandbox raises SandboxViolation. *)
Refuse(i) ==
    /\ IsNext(i)
    /\ ~Malformed(i) /\ Refused(i)
    /\ Finish(i, "ended")
    /\ verdict' = [verdict EXCEPT ![i] = "error"]
    /\ UNCHANGED <<args, permits, spent, reply, age>>

(* The command goes to the backend, and wait_for sets its timer. *)
Execute(i) ==
    /\ IsNext(i)
    /\ ~Malformed(i) /\ ~Refused(i)
    /\ permits' = permits - 1
    /\ pc' = [pc EXCEPT ![i] = "running"]
    /\ UNCHANGED <<args, outcome, verdict, spent, reply, age>>

(* There is no wait_for: the backend is trusted to keep to the timeout. *)
Due_Slip(i) == pc[i] = "running" /\ FALSE

Due(i) == pc[i] = "running" /\ spent[i] >= cases[i].timeout

(* wait_for cancels the backend, and waits until it ends. *)
TimeOut(i) ==
    /\ Due(i)
    /\ pc' = [pc EXCEPT ![i] = "stopping"]
    /\ UNCHANGED <<args, outcome, permits, verdict, spent, reply, age>>

(* No exit code is taken for an exit code of zero. *)
Status_Slip(r) ==
    CASE r \in {"zero", "cancelled"} -> "passed"
      [] r = "nonzero" -> "failed"
      [] r = "TimeoutError" -> "timed_out"
      [] r = "exception" -> "error"

(* The status that run_case finds for how the backend has ended. *)
Status(r) ==
    CASE r = "zero" -> "passed"
      [] r = "nonzero" -> "failed"
      [] r \in {"TimeoutError", "cancelled"} -> "timed_out"
      [] r = "exception" -> "error"

(* The backend ends, in time, in the meantime or because it was cancelled; *)
(* what it returns or raises after the timer went off still counts.        *)
End(i) ==
    /\ i \in AtBackend
    /\ \E r \in {"zero", "nonzero", "TimeoutError", "exception"}
                    \cup (IF pc[i] = "stopping" THEN {"cancelled"} ELSE {}) :
          /\ reply' = [reply EXCEPT ![i] = r]
          /\ verdict' = [verdict EXCEPT ![i] = Status(r)]
    /\ permits' = permits + 1
    /\ Finish(i, "ended")
    /\ UNCHANGED <<args, spent, age>>

(* The backend raises CancelledError of its own accord, which no except    *)
(* clause of run_case catches: the case has no result.                     *)
Escape(i) ==
    /\ pc[i] = "running"
    /\ reply' = [reply EXCEPT ![i] = "cancelled"]
    /\ permits' = permits + 1
    /\ Finish(i, "raised")
    /\ UNCHANGED <<args, verdict, spent, age>>

(* What must happen before time goes on.  Nothing but its timer bounds a   *)
(* command that has not been cancelled.                                    *)
Urgent ==
    \/ \E i \in Ids : IsNext(i) \/ Due(i)
    \/ \E i \in Ids : pc[i] = "stopping" /\ spent[i] >= cases[i].timeout + Grace

Tick ==
    /\ AtBackend # {}
    /\ ~Urgent
    /\ spent' = [i \in Ids |-> IF i \in AtBackend THEN spent[i] + 1 ELSE spent[i]]
    /\ age' = age + 1
    /\ UNCHANGED <<args, outcome, permits, pc, verdict, reply>>

Next ==
    \/ \E i \in Ids : Raise(i) \/ Refuse(i) \/ Execute(i)
    \/ \E i \in Ids : TimeOut(i) \/ End(i) \/ Escape(i)
    \/ Tick

Spec == Init /\ [][Next]_vars

(* The event loop runs what is ready, timers go off, and a backend that is *)
(* cancelled ends.                                                         *)
FairSpec == Spec /\ WF_vars(Next)

-----------------------------------------------------------------------------
(* No command is with the backend without a permit, and none is lost.      *)
ParallelismIsBounded == Cardinality(AtBackend) + permits = parallel

Earned(i) ==
    /\ verdict[i] \in {"passed", "failed"} => ~Malformed(i) /\ ~Refused(i)
    /\ verdict[i] = "passed" => reply[i] = "zero"
    /\ verdict[i] = "failed" => reply[i] = "nonzero"
    /\ verdict[i] = "timed_out" =>
          \/ reply[i] = "TimeoutError"
          \/ reply[i] = "cancelled" /\ spent[i] >= cases[i].timeout
    /\ verdict[i] = "error" => reply[i] = "exception" \/ (reply[i] = "none" /\ Refused(i))

(* "Never claim a generated project or platform change passed tests unless *)
(* those tests were actually executed successfully" (README.md): a verdict *)
(* tells what the backend has done, and what was not run has none or is an *)
(* error.  A command may pass after its timer went off, but then the       *)
(* backend has answered instead of being cancelled.                        *)
VerdictsAreEarned == \A i \in Ids : Earned(i)

(* A suite that returns has a verdict for every case ("suite preserves     *)
(* case order" in test_testing_system.py: one for each, at its place); it  *)
(* raises only for an argument that is malformed or a backend that raised  *)
(* CancelledError itself; and it does not keep its caller waiting when no  *)
(* case is left.                                                           *)
SuiteTellsAll ==
    /\ outcome = "returned" => \A i \in Ids : verdict[i] # "none"
    /\ outcome = "raised" =>
          \/ parallel = 0
          \/ \E i \in Ids : verdict[i] = "none" /\ (Malformed(i) \/ reply[i] = "cancelled")
    /\ outcome = "running" => \E i \in Ids : pc[i] \notin {"ended", "raised"}

Run == {i \in Ids : ~Malformed(i) /\ ~Refused(i)}

(* The timeouts of the cases bound the time of the suite, the waiting for  *)
(* permits included: it takes no more rounds than the commands fill, and   *)
(* no round takes longer than the longest timeout and the grace.           *)
TimeIsBounded ==
    \A longest \in Timeouts :
        (parallel > 0 /\ \A i \in Run : cases[i].timeout <= longest) =>
            age <= ((Cardinality(Run) + (parallel - 1)) \div parallel) * (longest + Grace)

(* Every case of a suite ends, those of a suite that has raised too.       *)
CasesEnd ==
    \A i \in 1 .. MaxCases :
        (i \in Ids /\ pc[i] = "queued") ~> (i \in Ids /\ pc[i] \in {"ended", "raised"})
=============================================================================
