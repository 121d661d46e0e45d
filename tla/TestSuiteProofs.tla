--------------------------- MODULE TestSuiteProofs ---------------------------
(***************************************************************************)
(* Safety of TestSuite for suites of any length, any bound on parallel     *)
(* commands, any timeouts and any backend.                                 *)
(***************************************************************************)
EXTENDS TestSuite, FiniteSetTheorems, WellFoundedInduction, TLAPS

(* What is known of a case, from where its guarded is.                     *)
Known(i) ==
    /\ pc[i] \in {"queued", "running", "stopping"} => verdict[i] = "none" /\ reply[i] = "none"
    /\ pc[i] \in {"running", "stopping"} => ~Malformed(i) /\ ~Refused(i)
    /\ pc[i] = "stopping" => spent[i] >= cases[i].timeout
    /\ pc[i] = "raised" => verdict[i] = "none" /\ (Malformed(i) \/ reply[i] = "cancelled")
    /\ pc[i] = "ended" => verdict[i] # "none" \/ parallel = 0

(* What the gather knows of its cases.                                     *)
Gathered ==
    /\ parallel = 0 => outcome = "raised" /\ \A i \in Ids : pc[i] = "ended"
    /\ outcome = "returned" => \A i \in Ids : pc[i] = "ended"
    /\ outcome = "running" => /\ \A i \in Ids : pc[i] # "raised"
                              /\ \E i \in Ids : pc[i] # "ended"
    /\ outcome = "raised" => parallel = 0 \/ \E i \in Ids : pc[i] = "raised"

Inv ==
    /\ TypeOK
    /\ ParallelismIsBounded
    /\ VerdictsAreEarned
    /\ Gathered
    /\ \A i \in Ids : Known(i)

-----------------------------------------------------------------------------
LEMMA IdsFinite ==
    ASSUME TypeOK
    PROVE  /\ Ids = 1 .. Len(cases) /\ Len(cases) \in Nat
           /\ IsFiniteSet(Ids)
           /\ IsFiniteSet(AtBackend) /\ Cardinality(AtBackend) \in Nat
<1>1. Ids = 1 .. Len(cases) /\ Len(cases) \in Nat
  BY DEF TypeOK, Ids
<1>2. IsFiniteSet(Ids)
  BY <1>1, FS_Interval
<1>3. AtBackend \subseteq Ids
  BY DEF AtBackend
<1> QED
  BY <1>1, <1>2, <1>3, FS_Subset, FS_CardinalityType

LEMMA TimeoutType ==
    ASSUME TypeOK, NEW i \in Ids
    PROVE  cases[i].timeout \in Nat
<1>1. cases[i] \in Case
  BY DEF TypeOK, Ids
<1> QED
  BY <1>1, SuiteAssumption DEF Case

(* One case's move to another place.                                       *)
LEMMA Moving ==
    ASSUME TypeOK, NEW i \in Ids, UNCHANGED args,
           NEW place \in {"queued", "running", "stopping", "ended", "raised"},
           pc' = [pc EXCEPT ![i] = place]
    PROVE  /\ Ids' = Ids
           /\ pc' \in [Ids -> {"queued", "running", "stopping", "ended", "raised"}]
           /\ \A j \in Ids : pc'[j] = IF j = i THEN place ELSE pc[j]
           /\ AtBackend' = IF place \in {"running", "stopping"} THEN AtBackend \cup {i}
                                                                ELSE AtBackend \ {i}
<1>1. Ids' = Ids
  BY DEF Ids, args
<1>2. /\ pc' \in [Ids -> {"queued", "running", "stopping", "ended", "raised"}]
      /\ \A j \in Ids : pc'[j] = IF j = i THEN place ELSE pc[j]
  BY DEF TypeOK
<1> QED
  BY <1>1, <1>2 DEF AtBackend

(* Permits follow their holders, however a case moves.                     *)
LEMMA Counting ==
    ASSUME TypeOK, ParallelismIsBounded, NEW i \in Ids, UNCHANGED args,
           NEW place \in {"queued", "running", "stopping", "ended", "raised"},
           pc' = [pc EXCEPT ![i] = place],
           \/ pc[i] = "queued" /\ place = "running" /\ permits' = permits - 1
           \/ pc[i] = "queued" /\ place \in {"ended", "raised"} /\ permits' = permits
           \/ pc[i] = "running" /\ place = "stopping" /\ permits' = permits
           \/ i \in AtBackend /\ place \in {"ended", "raised"} /\ permits' = permits + 1
    PROVE  ParallelismIsBounded'
<1>1. i \in AtBackend <=> pc[i] \in {"running", "stopping"}
  BY DEF AtBackend
<1>2. Cardinality(AtBackend) \in Nat /\ permits \in Nat /\ parallel \in Nat
  BY IdsFinite DEF TypeOK
<1>3. parallel' = parallel
  BY DEF args
<1>4. CASE pc[i] = "queued" /\ place = "running" /\ permits' = permits - 1
  <2>1. AtBackend' = AtBackend \cup {i} /\ i \notin AtBackend
    BY <1>1, <1>4, Moving
  <2>2. Cardinality(AtBackend') = Cardinality(AtBackend) + 1
    BY <2>1, IdsFinite, FS_AddElement
  <2> QED
    BY <1>2, <1>3, <1>4, <2>2 DEF ParallelismIsBounded
<1>5. CASE \/ pc[i] = "queued" /\ place \in {"ended", "raised"} /\ permits' = permits
           \/ pc[i] = "running" /\ place = "stopping" /\ permits' = permits
  <2>1. \/ AtBackend' = AtBackend \ {i} /\ i \notin AtBackend
        \/ AtBackend' = AtBackend \cup {i} /\ i \in AtBackend
    BY <1>1, <1>5, Moving
  <2>2. AtBackend' = AtBackend
    BY <2>1
  <2> QED
    BY <1>3, <1>5, <2>2 DEF ParallelismIsBounded
<1>6. CASE i \in AtBackend /\ place \in {"ended", "raised"} /\ permits' = permits + 1
  <2>1. AtBackend' = AtBackend \ {i}
    BY <1>6, Moving
  <2>2. Cardinality(AtBackend') = Cardinality(AtBackend) - 1
    BY <1>6, <2>1, IdsFinite, FS_RemoveElement
  <2> QED
    BY <1>2, <1>3, <1>6, <2>2 DEF ParallelismIsBounded
<1> QED
  BY <1>4, <1>5, <1>6

-----------------------------------------------------------------------------
(* What a step that moves the i-th case must show of that case alone.      *)
LEMMA OneCase ==
    ASSUME Inv, NEW i \in Ids, UNCHANGED args,
           \A j \in Ids : j # i => /\ pc'[j] = pc[j] /\ verdict'[j] = verdict[j]
                                   /\ reply'[j] = reply[j] /\ spent'[j] = spent[j],
           Known(i)', Earned(i)'
    PROVE  VerdictsAreEarned' /\ (\A j \in Ids : Known(j))'
<1>1. Ids' = Ids /\ cases' = cases /\ parallel' = parallel
  BY DEF Ids, args
<1>2. ASSUME NEW j \in Ids, j # i
      PROVE  Known(j)' /\ Earned(j)'
  <2>1. /\ pc'[j] = pc[j] /\ verdict'[j] = verdict[j]
        /\ reply'[j] = reply[j] /\ spent'[j] = spent[j]
    BY <1>2
  <2>2. Known(j) /\ Earned(j)
    BY DEF Inv, VerdictsAreEarned
  <2>3. Known(j)'
    BY <1>1, <2>1, <2>2 DEF Known, Malformed, Refused
  <2>4. Earned(j)'
    BY <1>1, <2>1, <2>2 DEF Earned, Malformed, Refused
  <2> QED
    BY <2>3, <2>4
<1> QED
  BY <1>1, <1>2 DEF VerdictsAreEarned

(* What finishing the i-th case means for the gather.                      *)
LEMMA Finishing ==
    ASSUME Inv, NEW i \in Ids, UNCHANGED args, pc[i] \notin {"ended", "raised"},
           NEW place \in {"ended", "raised"}, Finish(i, place)
    PROVE  Gathered' /\ outcome' \in {"running", "returned", "raised"}
<1>1. Ids' = Ids /\ cases' = cases /\ parallel' = parallel
  BY DEF Ids, args
<1>2. \A j \in Ids : pc'[j] = IF j = i THEN place ELSE pc[j]
  BY Moving DEF Finish, Inv
<1>3. parallel # 0 /\ outcome # "returned"
  BY DEF Inv, Gathered
<1>4. outcome' = IF outcome = "running" /\ place = "raised" THEN "raised"
                 ELSE IF outcome = "running" /\ \A j \in Ids : pc'[j] = "ended" THEN "returned"
                 ELSE outcome
  BY <1>1 DEF Finish
<1>5. outcome \in {"running", "raised"}
  BY <1>3 DEF Inv, TypeOK
<1>6. CASE outcome = "raised"
  <2>1. outcome' = "raised" /\ \E j \in Ids : pc[j] = "raised"
    BY <1>3, <1>4, <1>6 DEF Inv, Gathered
  <2>2. \E j \in Ids : pc'[j] = "raised"
    BY <1>2, <2>1
  <2> QED
    BY <1>1, <1>3, <2>1, <2>2 DEF Gathered
<1>7. CASE outcome = "running" /\ place = "raised"
  <2>1. outcome' = "raised" /\ \E j \in Ids : pc'[j] = "raised"
    BY <1>2, <1>4, <1>7
  <2> QED
    BY <1>1, <1>3, <2>1 DEF Gathered
<1>8. CASE outcome = "running" /\ place = "ended"
  <2>1. outcome' = IF \A j \in Ids : pc'[j] = "ended" THEN "returned" ELSE "running"
    BY <1>4, <1>8
  <2>2. \A j \in Ids : pc'[j] # "raised"
    BY <1>2, <1>8 DEF Inv, Gathered
  <2> QED
    BY <1>1, <1>3, <2>1, <2>2 DEF Gathered
<1> QED
  BY <1>5, <1>6, <1>7, <1>8

(* A case that moves on without an end.                                    *)
LEMMA GoingOn ==
    ASSUME Inv, NEW i \in Ids, UNCHANGED <<cases, parallel, outcome>>, pc[i] \notin {"ended", "raised"},
           NEW place \in {"running", "stopping"}, pc' = [pc EXCEPT ![i] = place]
    PROVE  Gathered'
<1>1. Ids' = Ids /\ \A j \in Ids : pc'[j] = IF j = i THEN place ELSE pc[j]
  BY Moving DEF Inv, args
<1>2. parallel # 0 /\ outcome # "returned"
  BY DEF Inv, Gathered
<1> QED
  BY <1>1, <1>2 DEF Inv, Gathered

-----------------------------------------------------------------------------
LEMMA InitInv == ASSUME Init PROVE Inv
<1>1. PICK n \in 0 .. MaxCases : cases \in [1 .. n -> Case]
  BY DEF Init
<1>2. n \in Nat
  BY SuiteAssumption
<1>3. cases \in Seq(Case) /\ Len(cases) = n /\ Ids = 1 .. n
  BY <1>1, <1>2 DEF Ids
<1>4. parallel \in Nat
  BY SuiteAssumption DEF Init
<1>5. TypeOK
  BY <1>3, <1>4 DEF Init, TypeOK
<1>6. ParallelismIsBounded
  <2>1. AtBackend = {}
    BY DEF Init, AtBackend
  <2>2. Cardinality(AtBackend) = 0
    BY <2>1, FS_EmptySet
  <2> QED
    BY <1>4, <2>2 DEF Init, ParallelismIsBounded
<1>7. VerdictsAreEarned
  BY DEF Init, VerdictsAreEarned, Earned
<1>8. \A i \in Ids : Known(i)
  BY DEF Init, Known
<1>9. Gathered
  <2>1. cases # <<>> => 1 \in Ids
    BY <1>2, <1>3
  <2>2. cases = <<>> => Ids = {}
    BY <1>3
  <2> QED
    BY <1>4, <2>1, <2>2 DEF Init, Gathered
<1> QED
  BY <1>5, <1>6, <1>7, <1>8, <1>9 DEF Inv

LEMMA RaiseInv == ASSUME Inv, NEW i \in Ids, Raise(i) PROVE Inv'
<1>1. pc[i] = "queued" /\ Malformed(i) /\ pc' = [pc EXCEPT ![i] = "raised"]
  BY DEF Raise, IsNext, Finish
<1>2. /\ Ids' = Ids /\ cases' = cases /\ parallel' = parallel
      /\ pc' \in [Ids -> {"queued", "running", "stopping", "ended", "raised"}]
      /\ \A j \in Ids : pc'[j] = IF j = i THEN "raised" ELSE pc[j]
  BY <1>1, Moving DEF Raise, args, Inv
<1>3. Gathered' /\ outcome' \in {"running", "returned", "raised"}
  BY <1>1, Finishing DEF Raise
<1>4. ParallelismIsBounded'
  BY <1>1, Counting DEF Raise, Inv
<1>5. TypeOK'
  BY <1>2, <1>3 DEF Raise, Inv, TypeOK
<1>6. verdict' = verdict /\ reply' = reply /\ spent' = spent
  BY DEF Raise
<1>7. Known(i)' /\ Earned(i)'
  <2>1. Known(i) /\ Earned(i)
    BY DEF Inv, VerdictsAreEarned
  <2> QED
    BY <1>1, <1>2, <1>6, <2>1 DEF Known, Earned, Malformed, Refused
<1>8. VerdictsAreEarned' /\ (\A j \in Ids : Known(j))'
  BY <1>2, <1>6, <1>7, OneCase DEF Raise
<1> QED
  BY <1>3, <1>4, <1>5, <1>8 DEF Inv

LEMMA RefuseInv == ASSUME Inv, NEW i \in Ids, Refuse(i) PROVE Inv'
<1>1. pc[i] = "queued" /\ Refused(i) /\ pc' = [pc EXCEPT ![i] = "ended"]
  BY DEF Refuse, IsNext, Finish
<1>2. /\ Ids' = Ids /\ cases' = cases /\ parallel' = parallel
      /\ pc' \in [Ids -> {"queued", "running", "stopping", "ended", "raised"}]
      /\ \A j \in Ids : pc'[j] = IF j = i THEN "ended" ELSE pc[j]
  BY <1>1, Moving DEF Refuse, args, Inv
<1>3. Gathered' /\ outcome' \in {"running", "returned", "raised"}
  BY <1>1, Finishing DEF Refuse
<1>4. ParallelismIsBounded'
  BY <1>1, Counting DEF Refuse, Inv
<1>5. /\ verdict' \in [Ids -> {"none", "passed", "failed", "timed_out", "error"}]
      /\ \A j \in Ids : verdict'[j] = IF j = i THEN "error" ELSE verdict[j]
      /\ reply' = reply /\ spent' = spent
  BY DEF Refuse, Inv, TypeOK
<1>6. TypeOK'
  BY <1>2, <1>3, <1>5 DEF Refuse, Inv, TypeOK
<1>7. Known(i)' /\ Earned(i)'
  <2>1. reply[i] = "none"
    BY <1>1 DEF Inv, Known
  <2> QED
    BY <1>1, <1>2, <1>5, <2>1 DEF Known, Earned, Malformed, Refused
<1>8. VerdictsAreEarned' /\ (\A j \in Ids : Known(j))'
  BY <1>2, <1>5, <1>7, OneCase DEF Refuse
<1> QED
  BY <1>3, <1>4, <1>6, <1>8 DEF Inv

LEMMA ExecuteInv == ASSUME Inv, NEW i \in Ids, Execute(i) PROVE Inv'
<1>1. /\ pc[i] = "queued" /\ ~Malformed(i) /\ ~Refused(i)
      /\ pc' = [pc EXCEPT ![i] = "running"]
      /\ verdict' = verdict /\ reply' = reply /\ spent' = spent
  BY DEF Execute, IsNext
<1>2. /\ Ids' = Ids /\ cases' = cases /\ parallel' = parallel
      /\ pc' \in [Ids -> {"queued", "running", "stopping", "ended", "raised"}]
      /\ \A j \in Ids : pc'[j] = IF j = i THEN "running" ELSE pc[j]
  BY <1>1, Moving DEF Execute, args, Inv
<1>3. Gathered'
  BY <1>1, GoingOn DEF Execute, args
<1>4. ParallelismIsBounded'
  BY <1>1, Counting DEF Execute, Inv
<1>5. TypeOK'
  BY <1>2 DEF Execute, IsNext, Inv, TypeOK
<1>6. Known(i)' /\ Earned(i)'
  <2>1. Known(i) /\ Earned(i)
    BY DEF Inv, VerdictsAreEarned
  <2> QED
    BY <1>1, <1>2, <2>1 DEF Known, Earned, Malformed, Refused
<1>7. VerdictsAreEarned' /\ (\A j \in Ids : Known(j))'
  BY <1>1, <1>2, <1>6, OneCase DEF Execute
<1> QED
  BY <1>3, <1>4, <1>5, <1>7 DEF Inv

LEMMA TimeOutInv == ASSUME Inv, NEW i \in Ids, TimeOut(i) PROVE Inv'
<1>1. /\ pc[i] = "running" /\ spent[i] >= cases[i].timeout
      /\ pc' = [pc EXCEPT ![i] = "stopping"]
      /\ verdict' = verdict /\ reply' = reply /\ spent' = spent
  BY DEF TimeOut, Due
<1>2. /\ Ids' = Ids /\ cases' = cases /\ parallel' = parallel
      /\ pc' \in [Ids -> {"queued", "running", "stopping", "ended", "raised"}]
      /\ \A j \in Ids : pc'[j] = IF j = i THEN "stopping" ELSE pc[j]
  BY <1>1, Moving DEF TimeOut, args, Inv
<1>3. Gathered'
  BY <1>1, GoingOn DEF TimeOut, args
<1>4. ParallelismIsBounded'
  BY <1>1, Counting DEF TimeOut, Inv
<1>5. TypeOK'
  BY <1>2 DEF TimeOut, Inv, TypeOK
<1>6. Known(i)' /\ Earned(i)'
  <2>1. Known(i) /\ Earned(i)
    BY DEF Inv, VerdictsAreEarned
  <2> QED
    BY <1>1, <1>2, <2>1 DEF Known, Earned, Malformed, Refused
<1>7. VerdictsAreEarned' /\ (\A j \in Ids : Known(j))'
  BY <1>1, <1>2, <1>6, OneCase DEF TimeOut
<1> QED
  BY <1>3, <1>4, <1>5, <1>7 DEF Inv

LEMMA EndInv == ASSUME Inv, NEW i \in Ids, End(i) PROVE Inv'
<1>1. /\ i \in AtBackend /\ pc[i] \in {"running", "stopping"}
      /\ pc' = [pc EXCEPT ![i] = "ended"] /\ spent' = spent
  BY DEF End, Finish, AtBackend
<1>2. /\ Ids' = Ids /\ cases' = cases /\ parallel' = parallel
      /\ pc' \in [Ids -> {"queued", "running", "stopping", "ended", "raised"}]
      /\ \A j \in Ids : pc'[j] = IF j = i THEN "ended" ELSE pc[j]
  BY <1>1, Moving DEF End, args, Inv
<1>3. Gathered' /\ outcome' \in {"running", "returned", "raised"}
  BY <1>1, Finishing DEF End
<1>4. ParallelismIsBounded'
  BY <1>1, Counting DEF End, Inv
<1>5. PICK r \in {"zero", "nonzero", "TimeoutError", "exception", "cancelled"} :
          /\ r = "cancelled" => pc[i] = "stopping"
          /\ reply' = [reply EXCEPT ![i] = r]
          /\ verdict' = [verdict EXCEPT ![i] = Status(r)]
  BY DEF End
<1>6. /\ Status(r) \in {"passed", "failed", "timed_out", "error"}
      /\ Status(r) = "passed" => r = "zero"
      /\ Status(r) = "failed" => r = "nonzero"
      /\ Status(r) = "timed_out" => r \in {"TimeoutError", "cancelled"}
      /\ Status(r) = "error" => r = "exception"
  BY DEF Status
<1>7. /\ reply' \in [Ids -> {"none", "zero", "nonzero", "TimeoutError", "exception", "cancelled"}]
      /\ \A j \in Ids : reply'[j] = IF j = i THEN r ELSE reply[j]
  BY <1>5 DEF Inv, TypeOK
<1>8. /\ verdict' \in [Ids -> {"none", "passed", "failed", "timed_out", "error"}]
      /\ \A j \in Ids : verdict'[j] = IF j = i THEN Status(r) ELSE verdict[j]
  BY <1>5, <1>6 DEF Inv, TypeOK
<1>9. TypeOK'
  BY <1>2, <1>3, <1>7, <1>8 DEF End, Inv, TypeOK
<1>10. Known(i)' /\ Earned(i)'
  <2>1. Known(i)
    BY DEF Inv
  <2>2. ~Malformed(i)' /\ ~Refused(i)'
    BY <1>1, <1>2, <2>1 DEF Known, Malformed, Refused
  <2>3. r = "cancelled" => spent[i] >= cases[i].timeout
    BY <1>5, <2>1 DEF Known
  <2>4. Known(i)'
    BY <1>2, <1>6, <1>8 DEF Known
  <2>5. Earned(i)'
    BY <1>1, <1>2, <1>6, <1>7, <1>8, <2>2, <2>3 DEF Earned
  <2> QED
    BY <2>4, <2>5
<1>11. VerdictsAreEarned' /\ (\A j \in Ids : Known(j))'
  BY <1>1, <1>2, <1>7, <1>8, <1>10, OneCase DEF End
<1> QED
  BY <1>3, <1>4, <1>9, <1>11 DEF Inv

LEMMA EscapeInv == ASSUME Inv, NEW i \in Ids, Escape(i) PROVE Inv'
<1>1. /\ i \in AtBackend /\ pc[i] = "running"
      /\ pc' = [pc EXCEPT ![i] = "raised"] /\ verdict' = verdict /\ spent' = spent
  BY DEF Escape, Finish, AtBackend
<1>2. /\ Ids' = Ids /\ cases' = cases /\ parallel' = parallel
      /\ pc' \in [Ids -> {"queued", "running", "stopping", "ended", "raised"}]
      /\ \A j \in Ids : pc'[j] = IF j = i THEN "raised" ELSE pc[j]
  BY <1>1, Moving DEF Escape, args, Inv
<1>3. Gathered' /\ outcome' \in {"running", "returned", "raised"}
  BY <1>1, Finishing DEF Escape
<1>4. ParallelismIsBounded'
  BY <1>1, Counting DEF Escape, Inv
<1>5. /\ reply' \in [Ids -> {"none", "zero", "nonzero", "TimeoutError", "exception", "cancelled"}]
      /\ \A j \in Ids : reply'[j] = IF j = i THEN "cancelled" ELSE reply[j]
  BY DEF Escape, Inv, TypeOK
<1>6. TypeOK'
  BY <1>2, <1>3, <1>5 DEF Escape, Inv, TypeOK
<1>7. Known(i)' /\ Earned(i)'
  <2>1. verdict[i] = "none"
    BY <1>1 DEF Inv, Known
  <2> QED
    BY <1>1, <1>2, <1>5, <2>1 DEF Known, Earned
<1>8. VerdictsAreEarned' /\ (\A j \in Ids : Known(j))'
  BY <1>1, <1>2, <1>5, <1>7, OneCase DEF Escape
<1> QED
  BY <1>3, <1>4, <1>6, <1>8 DEF Inv

LEMMA TickInv == ASSUME Inv, Tick PROVE Inv'
<1>1. /\ Ids' = Ids /\ cases' = cases /\ parallel' = parallel /\ outcome' = outcome
      /\ permits' = permits /\ pc' = pc /\ verdict' = verdict /\ reply' = reply
  BY DEF Tick, args, Ids
<1>2. /\ spent' \in [Ids -> Nat]
      /\ \A i \in Ids : spent'[i] >= spent[i]
      /\ \A i \in Ids \ AtBackend : spent'[i] = spent[i]
  BY DEF Tick, Inv, TypeOK
<1>3. TypeOK'
  BY <1>1, <1>2 DEF Tick, Inv, TypeOK
<1>4. ParallelismIsBounded'
  BY <1>1 DEF Inv, ParallelismIsBounded, AtBackend
<1>5. Gathered'
  BY <1>1 DEF Inv, Gathered
<1>6. ASSUME NEW i \in Ids
      PROVE  Known(i)' /\ Earned(i)'
  <2>1. Known(i) /\ Earned(i)
    BY DEF Inv, VerdictsAreEarned
  <2>2. cases[i].timeout \in Nat /\ spent[i] \in Nat /\ spent'[i] \in Nat
    BY <1>2, TimeoutType DEF Inv, TypeOK
  <2>3. spent[i] >= cases[i].timeout => spent'[i] >= cases[i].timeout
    BY <1>2, <2>2
  <2>4. Known(i)'
    BY <1>1, <2>1, <2>3 DEF Known, Malformed, Refused
  <2>5. Earned(i)'
    BY <1>1, <2>1, <2>3 DEF Earned, Malformed, Refused
  <2> QED
    BY <2>4, <2>5
<1>7. VerdictsAreEarned' /\ (\A i \in Ids : Known(i))'
  BY <1>1, <1>6 DEF VerdictsAreEarned
<1> QED
  BY <1>3, <1>4, <1>5, <1>7 DEF Inv

LEMMA InvStep == ASSUME Inv, [Next]_vars PROVE Inv'
<1>1. CASE UNCHANGED vars
  BY <1>1 DEF vars, Inv, TypeOK, ParallelismIsBounded, AtBackend, VerdictsAreEarned, Earned,
              Gathered, Known, Malformed, Refused, Ids
<1> QED
  BY <1>1, RaiseInv, RefuseInv, ExecuteInv, TimeOutInv, EndInv, EscapeInv, TickInv DEF Next

LEMMA InvHolds == Spec => []Inv
BY InitInv, InvStep, PTL DEF Spec

(* Types are kept.                                                         *)
THEOREM TypeCorrect == Spec => []TypeOK
<1>1. Inv => TypeOK
  BY DEF Inv
<1> QED
  BY <1>1, InvHolds, PTL

(* No command is with the backend without a permit, and no permit is lost, *)
(* whether a case raises, is refused, ends or is timed out.                *)
THEOREM ParallelismBounded == Spec => []ParallelismIsBounded
<1>1. Inv => ParallelismIsBounded
  BY DEF Inv
<1> QED
  BY <1>1, InvHolds, PTL

(* A verdict tells what the backend did with the command of the case.      *)
THEOREM VerdictsEarned == Spec => []VerdictsAreEarned
<1>1. Inv => VerdictsAreEarned
  BY DEF Inv
<1> QED
  BY <1>1, InvHolds, PTL

(* A suite returns with all verdicts, raises for a malformed argument or a *)
(* backend's CancelledError, and waits only for cases that go on.          *)
THEOREM SuiteComplete == Spec => []SuiteTellsAll
<1>1. ASSUME Inv
      PROVE  SuiteTellsAll
  <2>1. outcome = "returned" => \A i \in Ids : verdict[i] # "none"
    BY <1>1 DEF Inv, Gathered, Known
  <2>2. outcome = "running" => \E i \in Ids : pc[i] \notin {"ended", "raised"}
    BY <1>1 DEF Inv, Gathered
  <2>3. \A i \in Ids : pc[i] = "raised" =>
            verdict[i] = "none" /\ (Malformed(i) \/ reply[i] = "cancelled")
    BY <1>1 DEF Inv, Known
  <2> QED
    BY <1>1, <2>1, <2>2, <2>3 DEF SuiteTellsAll, Inv, Gathered
<1> QED
  BY <1>1, InvHolds, PTL

-----------------------------------------------------------------------------
(* The time of a suite.  The n-th command to run starts once all but the   *)
(* last parallel - 1 of those before it have ended, since cases take       *)
(* permits in their order and a free permit is taken before the next tick. *)
LEMMA Least ==
    ASSUME NEW S, S \subseteq Nat, S # {}
    PROVE  \E m \in S : \A n \in S : m <= n
<1>1. IsWellFoundedOn(OpToRel(<, Nat), Nat)
  BY NatLessThanWellFounded
<1>2. PICK m \in S : \A n \in S : ~(<<n, m>> \in OpToRel(<, Nat))
  BY <1>1, WFMin
<1>3. \A n \in S : ~(n < m)
  BY <1>2 DEF OpToRel
<1> QED
  BY <1>3

Before(i) == {j \in Run : j <= i}

Rank(i) == Cardinality(Before(i))

(* Cases leave the queue in their order. *)
InOrder == \A i, j \in Ids : pc[i] = "queued" /\ pc[j] # "queued" => j < i

(* No command is given more time than this. *)
Within(longest) == parallel > 0 /\ \A i \in Run : cases[i].timeout <= longest

(* A command among the first q + 1 times parallel has started, or will,    *)
(* when q rounds have passed.                                              *)
Prompt(span) ==
    \A q \in Nat : \A i \in Run :
        Rank(i) <= (q + 1) * parallel /\ pc[i] \in {"queued", "running", "stopping"} =>
            age <= q * span + spent[i]

Over(span) == \A q \in Nat : Cardinality(Run) <= q * parallel => age <= q * span

Timed ==
    /\ InOrder
    /\ \A i \in Ids : pc[i] = "queued" => spent[i] = 0
    /\ \A longest \in Timeouts :
          Within(longest) => Prompt(longest + Grace) /\ Over(longest + Grace)

LEMMA RunFinite ==
    ASSUME TypeOK
    PROVE  /\ Run \subseteq Ids /\ IsFiniteSet(Run) /\ Cardinality(Run) \in Nat
           /\ \A i \in Ids : Before(i) \subseteq Run /\ IsFiniteSet(Before(i)) /\ Rank(i) \in Nat
           /\ \A i \in Run : Rank(i) >= 1 /\ Rank(i) <= Cardinality(Run)
<1>1. Run \subseteq Ids /\ IsFiniteSet(Run)
  BY IdsFinite, FS_Subset DEF Run
<1>2. \A i \in Ids : Before(i) \subseteq Run
  BY DEF Before
<1>3. \A i \in Ids : IsFiniteSet(Before(i)) /\ Rank(i) \in Nat /\ Rank(i) <= Cardinality(Run)
  BY <1>1, <1>2, FS_Subset, FS_CardinalityType DEF Rank
<1>4. \A i \in Run : i \in Before(i)
  BY <1>1, IdsFinite DEF Before
<1>5. \A i \in Run : Rank(i) # 0
  BY <1>1, <1>3, <1>4, FS_EmptySet DEF Rank
<1> QED
  BY <1>1, <1>2, <1>3, <1>5, FS_CardinalityType

(* The commands between two.                                               *)
LEMMA Ranks ==
    ASSUME TypeOK, NEW m \in Run, NEW i \in Run, NEW S, S \subseteq Run,
           \A j \in S : m <= j /\ j < i
    PROVE  Cardinality(S) <= Rank(i) - Rank(m) \/ S = {}
<1>0. Ids = 1 .. Len(cases) /\ Run \subseteq 1 .. Len(cases)
  BY IdsFinite, RunFinite
<1>1. IsFiniteSet(S) /\ Cardinality(S) \in Nat
  BY RunFinite, FS_Subset, FS_CardinalityType
<1>2. SUFFICES ASSUME S # {}
               PROVE  Cardinality(S) <= Rank(i) - Rank(m)
  OBVIOUS
<1>n. Run \subseteq Nat
  BY <1>0
<1>3. m < i
  <2>1. PICK j \in S : m <= j /\ j < i
    BY <1>2
  <2>2. j \in Nat /\ m \in Nat /\ i \in Nat
    BY <1>n
  <2> QED
    BY <2>1, <2>2
<1> DEFINE T == Before(m) \ {m}
<1>4. /\ m \in Before(m) /\ i \in Before(i) /\ IsFiniteSet(Before(m)) /\ IsFiniteSet(Before(i))
      /\ Rank(m) \in Nat /\ Rank(i) \in Nat
  BY <1>0, RunFinite DEF Before
<1>5. IsFiniteSet(T) /\ Cardinality(T) = Rank(m) - 1
  BY <1>4, FS_RemoveElement DEF Rank
<1>6. IsFiniteSet(Before(i) \ {i}) /\ Cardinality(Before(i) \ {i}) = Rank(i) - 1
  BY <1>4, FS_RemoveElement DEF Rank
<1>7. S \cap T = {} /\ S \cup T \subseteq Before(i) \ {i}
  <2>1. \A j \in S : j \in Run /\ j \in Nat /\ m <= j /\ j < i
    BY <1>n
  <2>2. \A j \in T : j \in Run /\ j \in Nat /\ j < m
    BY <1>n DEF Before
  <2>3. m \in Nat /\ i \in Nat
    BY <1>n
  <2> HIDE DEF T
  <2>4. \A j \in S \cup T : j \in Run /\ j <= i /\ j # i
    BY <1>3, <2>1, <2>2, <2>3
  <2>5. S \cap T = {}
    BY <2>1, <2>2, <2>3
  <2> QED
    BY <2>4, <2>5 DEF Before
<1> HIDE DEF T
<1>8. Cardinality(S \cup T) = Cardinality(S) + Cardinality(T)
  <2>1. Cardinality(S \cup T) = Cardinality(S) + Cardinality(T) - Cardinality(S \cap T)
    BY <1>1, <1>5, FS_Union
  <2>2. Cardinality(S \cap T) = 0
    BY <1>7, FS_EmptySet
  <2>3. Cardinality(T) \in Int
    BY <1>4, <1>5
  <2> QED
    BY <1>1, <2>1, <2>2, <2>3
<1>9. Cardinality(S \cup T) <= Cardinality(Before(i) \ {i})
  BY <1>6, <1>7, FS_Subset
<1> QED
  BY <1>1, <1>4, <1>5, <1>6, <1>8, <1>9

-----------------------------------------------------------------------------
LEMMA InitTimed == ASSUME Init PROVE Timed
<1>1. TypeOK
  BY InitInv DEF Inv
<1>2. age = 0 /\ \A i \in Ids : spent[i] = 0
  BY DEF Init
<1>3. InOrder
  BY DEF Init, InOrder
<1>4. ASSUME NEW longest \in Timeouts
      PROVE  Prompt(longest + Grace) /\ Over(longest + Grace)
  <2>1. \A q \in Nat : 0 <= q * (longest + Grace)
    BY SuiteAssumption
  <2>2. \A i \in Run : i \in Ids
    BY <1>1, RunFinite
  <2>3. ASSUME NEW q \in Nat, NEW i \in Run
        PROVE  age <= q * (longest + Grace) + spent[i]
    <3>1. 0 <= q * (longest + Grace) /\ longest + Grace \in Nat
      BY <2>1, SuiteAssumption
    <3> QED
      BY <1>2, <2>2, <3>1
  <2> QED
    BY <1>2, <2>1, <2>3 DEF Prompt, Over
<1> QED
  BY <1>2, <1>3, <1>4 DEF Timed

(* A step of one case takes no time: only its start could be late.         *)
LEMMA OneCaseTimed ==
    ASSUME Inv, Timed, NEW i \in Ids, UNCHANGED <<args, spent, age>>,
           NEW place \in {"running", "stopping", "ended", "raised"},
           pc' = [pc EXCEPT ![i] = place],
           pc[i] = "queued" => IsNext(i), pc[i] \in {"queued", "running", "stopping"}
    PROVE  Timed'
<1>1. /\ Ids' = Ids /\ cases' = cases /\ parallel' = parallel /\ spent' = spent /\ age' = age
      /\ \A j \in Ids : pc'[j] = IF j = i THEN place ELSE pc[j]
  BY Moving DEF Inv, args, Ids
<1>2. Run' = Run
  BY <1>1 DEF Run, Malformed, Refused
<1>3. InOrder'
  <2>1. \A j \in Ids : j \in Nat
    BY IdsFinite DEF Inv
  <2> QED
    BY <1>1, <2>1 DEF Timed, InOrder, IsNext
<1>4. ASSUME NEW span
      PROVE  /\ Prompt(span) => Prompt(span)'
             /\ Over(span) => Over(span)'
  <2>1. \A j \in Run : Rank(j)' = Rank(j)
    BY <1>2 DEF Rank, Before
  <2>2. Run \subseteq Ids
    BY RunFinite DEF Inv
  <2>3. \A j \in Run : pc'[j] \in {"queued", "running", "stopping"} =>
                           pc[j] \in {"queued", "running", "stopping"}
    BY <1>1, <2>2
  <2>4. Prompt(span) => Prompt(span)'
    BY <1>1, <1>2, <2>1, <2>3 DEF Prompt
  <2>5. Over(span) => Over(span)'
    BY <1>1, <1>2 DEF Over
  <2> QED
    BY <2>4, <2>5
<1>5. \A longest \in Timeouts : Within(longest)' => Within(longest)
  BY <1>1, <1>2 DEF Within
<1>6. \A j \in Ids : pc'[j] = "queued" => spent'[j] = 0
  BY <1>1 DEF Timed
<1> QED
  BY <1>1, <1>3, <1>4, <1>5, <1>6 DEF Timed

(* What holds when time goes on: no permit is left for a case that waits,  *)
(* and no command has run for longer than it may.                          *)
LEMMA NotUrgent ==
    ASSUME Inv, Timed, ~Urgent, NEW longest \in Timeouts, Within(longest)
    PROVE  /\ (\E i \in Ids : pc[i] = "queued") => Cardinality(AtBackend) = parallel
           /\ \A j \in AtBackend : j \in Run /\ spent[j] + 1 <= longest + Grace
<1>1. ASSUME NEW i \in Ids, pc[i] = "queued"
      PROVE  Cardinality(AtBackend) = parallel
  <2> DEFINE Q == {j \in Ids : pc[j] = "queued"}
  <2>1. Q \subseteq Nat /\ Q # {}
    BY <1>1, IdsFinite DEF Inv
  <2>2. PICK m \in Q : \A n \in Q : m <= n
    BY <2>1, Least
  <2>3. \A j \in Ids : j < m => pc[j] # "queued"
    BY <2>1, <2>2
  <2>4. ~IsNext(m)
    BY DEF Urgent
  <2>5. permits \in Nat /\ ~(permits > 0)
    BY <2>3, <2>4 DEF IsNext, Inv, TypeOK
  <2> QED
    BY <2>5, IdsFinite DEF Inv, ParallelismIsBounded
<1>2. ASSUME NEW j \in AtBackend
      PROVE  j \in Run /\ spent[j] + 1 <= longest + Grace
  <2>1. j \in Ids /\ pc[j] \in {"running", "stopping"}
    BY DEF AtBackend
  <2>2. j \in Run
    BY <2>1 DEF Inv, Known, Run
  <2>3. cases[j].timeout <= longest
    BY <2>2 DEF Within
  <2>4. cases[j].timeout \in Nat /\ spent[j] \in Nat /\ longest \in Nat /\ Grace \in Nat
    BY <2>1, TimeoutType, SuiteAssumption DEF Inv, TypeOK
  <2>5. \/ pc[j] = "running" /\ ~(spent[j] >= cases[j].timeout)
        \/ pc[j] = "stopping" /\ ~(spent[j] >= cases[j].timeout + Grace)
    BY <2>1 DEF Urgent, Due
  <2> QED
    BY <2>2, <2>3, <2>4, <2>5
<1> QED
  BY <1>1, <1>2

(* If a command waits for a permit, then the command that has had one for  *)
(* longest is less than parallel places before it.                         *)
LEMMA Holders ==
    ASSUME Inv, Timed, NEW i \in Run, pc[i] = "queued", Cardinality(AtBackend) = parallel,
           parallel > 0, AtBackend \subseteq Run
    PROVE  \E m \in AtBackend : Rank(m) + parallel <= Rank(i)
<1>1. AtBackend # {}
  BY FS_EmptySet
<1>2. Ids \subseteq Nat /\ AtBackend \subseteq Ids /\ Run \subseteq Ids
  BY IdsFinite, RunFinite DEF Inv, AtBackend
<1>3. PICK m \in AtBackend : \A j \in AtBackend : m <= j
  BY <1>1, <1>2, Least
<1>4. \A j \in AtBackend : j < i
  BY <1>2 DEF Timed, InOrder, AtBackend
<1>5. parallel <= Rank(i) - Rank(m)
  BY <1>1, <1>3, <1>4, Ranks DEF Inv
<1>6. Rank(i) \in Nat /\ Rank(m) \in Nat /\ parallel \in Nat
  BY <1>2, RunFinite DEF Inv, TypeOK
<1> QED
  BY <1>5, <1>6

LEMMA TickTimed == ASSUME Inv, Timed, Tick PROVE Timed'
<1>1. /\ Ids' = Ids /\ cases' = cases /\ parallel' = parallel /\ pc' = pc
      /\ age' = age + 1 /\ ~Urgent /\ AtBackend # {}
      /\ \A i \in Ids : spent'[i] = IF i \in AtBackend THEN spent[i] + 1 ELSE spent[i]
  BY DEF Tick, args, Ids
<1>2. Run' = Run
  BY <1>1 DEF Run, Malformed, Refused
<1>3. \A j \in Run : Rank(j)' = Rank(j)
  BY <1>2 DEF Rank, Before
<1>4. InOrder'
  BY <1>1 DEF Timed, InOrder
<1>5. \A i \in Ids : pc'[i] = "queued" => spent'[i] = 0
  BY <1>1 DEF Timed, AtBackend
<1>6. ASSUME NEW longest \in Timeouts, Within(longest)
      PROVE  Prompt(longest + Grace)' /\ Over(longest + Grace)'
  <2> DEFINE span == longest + Grace
  <2>1. Prompt(span) /\ Over(span)
    BY <1>6 DEF Timed
  <2>2. span \in Nat /\ age \in Nat /\ parallel \in Nat /\ parallel > 0
    BY <1>6, SuiteAssumption DEF Inv, TypeOK, Within
  <2>3. \A j \in AtBackend : j \in Run /\ spent[j] + 1 <= span
    BY <1>1, <1>6, NotUrgent
  <2>4. /\ Run \subseteq Ids /\ Cardinality(Run) \in Nat
        /\ \A j \in Run : spent[j] \in Nat /\ Rank(j) \in Nat /\ Rank(j) >= 1
        /\ \A j \in Run : Rank(j) <= Cardinality(Run)
    BY RunFinite DEF Inv, TypeOK
  <2>5. \A j \in AtBackend : j \in Ids /\ pc[j] \in {"queued", "running", "stopping"}
    BY DEF AtBackend
  <2> HIDE DEF span
  <2>6. ASSUME NEW q \in Nat, NEW j \in AtBackend, Rank(j) <= q * parallel
        PROVE  age + 1 <= q * span
    <3>1. q # 0
      BY <2>2, <2>3, <2>4, <2>6
    <3>2. q - 1 \in Nat /\ Rank(j) <= ((q - 1) + 1) * parallel
      BY <2>6, <3>1
    <3>3. age <= (q - 1) * span + spent[j]
      BY <2>1, <2>3, <2>5, <3>2 DEF Prompt
    <3>4. (q - 1) * span = q * span - span /\ q * span \in Nat
      BY <2>2
    <3> QED
      BY <2>2, <2>3, <2>4, <3>3, <3>4
  <2>7. ASSUME NEW q \in Nat, NEW i \in Run, Rank(i) <= (q + 1) * parallel,
               pc[i] \in {"queued", "running", "stopping"}
        PROVE  age + 1 <= q * span + spent'[i]
    <3>1. CASE i \in AtBackend
      <4>1. age <= q * span + spent[i]
        BY <2>1, <2>7 DEF Prompt
      <4>2. spent'[i] = spent[i] + 1
        BY <1>1, <2>4, <3>1
      <4>3. q * span \in Nat
        BY <2>2
      <4> QED
        BY <2>2, <2>4, <4>1, <4>2, <4>3
    <3>2. CASE i \notin AtBackend
      <4>1. i \in Ids /\ pc[i] = "queued" /\ spent'[i] = 0
        BY <1>1, <1>5, <2>4, <2>7, <3>2 DEF AtBackend
      <4>2. Cardinality(AtBackend) = parallel
        BY <1>1, <1>6, <4>1, NotUrgent
      <4>3. PICK m \in AtBackend : Rank(m) + parallel <= Rank(i)
        BY <2>2, <2>3, <4>1, <4>2, Holders
      <4>4. Rank(m) <= q * parallel
        <5>1. (q + 1) * parallel = q * parallel + parallel /\ q * parallel \in Nat
          BY <2>2
        <5> QED
          BY <2>2, <2>3, <2>4, <2>7, <4>3, <5>1
      <4>5. age + 1 <= q * span
        BY <2>6, <4>4
      <4> QED
        BY <4>1, <4>5, <2>2
    <3> QED
      BY <3>1, <3>2
  <2>8. ASSUME NEW q \in Nat, Cardinality(Run) <= q * parallel
        PROVE  age + 1 <= q * span
    <3>1. PICK j \in AtBackend : j \in Run
      BY <1>1, <2>3
    <3>2. q * parallel \in Nat
      BY <2>2
    <3>3. Rank(j) <= q * parallel
      BY <2>4, <2>8, <3>1, <3>2
    <3> QED
      BY <2>6, <3>3
  <2>9. Prompt(span)'
    BY <1>1, <1>2, <1>3, <2>7 DEF Prompt, span
  <2>10. Over(span)'
    BY <1>1, <1>2, <2>8 DEF Over, span
  <2> QED
    BY <2>9, <2>10 DEF span
<1>7. \A longest \in Timeouts : Within(longest)' => Within(longest)
  BY <1>1, <1>2 DEF Within
<1> QED
  BY <1>1, <1>4, <1>5, <1>6, <1>7 DEF Timed

LEMMA TimedStep == ASSUME Inv, Timed, [Next]_vars PROVE Timed'
<1>1. CASE UNCHANGED vars
  BY <1>1 DEF vars, Timed, InOrder, Within, Prompt, Over, Rank, Before, Run, Malformed, Refused, Ids
<1>2. ASSUME NEW i \in Ids, Raise(i) \/ Refuse(i) \/ Execute(i) \/ TimeOut(i) \/ End(i) \/ Escape(i)
      PROVE  Timed'
  <2>1. UNCHANGED <<args, spent, age>>
    BY <1>2 DEF Raise, Refuse, Execute, TimeOut, End, Escape
  <2>2. \E place \in {"running", "stopping", "ended", "raised"} : pc' = [pc EXCEPT ![i] = place]
    BY <1>2 DEF Raise, Refuse, Execute, TimeOut, End, Escape, Finish
  <2>3. /\ pc[i] = "queued" => IsNext(i)
        /\ pc[i] \in {"queued", "running", "stopping"}
    BY <1>2 DEF Raise, Refuse, Execute, TimeOut, End, Escape, IsNext, Due, AtBackend
  <2> QED
    BY <2>1, <2>2, <2>3, OneCaseTimed
<1> QED
  BY <1>1, <1>2, TickTimed DEF Next

(* The rounds that the commands fill.                                      *)
LEMMA Rounds ==
    ASSUME NEW n \in Nat, NEW p \in Nat, p > 0
    PROVE  (n + (p - 1)) \div p \in Nat /\ n <= ((n + (p - 1)) \div p) * p
OBVIOUS

(* A suite takes no more time than its commands may fill, round after      *)
(* round, with the longest timeout and the grace for each: no permit is    *)
(* left unused while a case waits for one, and no command is given more    *)
(* than its time.                                                          *)
THEOREM TimeBounded == Spec => []TimeIsBounded
<1>1. ASSUME Inv, Timed
      PROVE  TimeIsBounded
  <2>1. ASSUME NEW longest \in Timeouts, parallel > 0, \A i \in Run : cases[i].timeout <= longest
        PROVE  age <= ((Cardinality(Run) + (parallel - 1)) \div parallel) * (longest + Grace)
    <3>1. Over(longest + Grace)
      BY <1>1, <2>1 DEF Timed, Within
    <3>2. Cardinality(Run) \in Nat /\ parallel \in Nat
      BY <1>1, RunFinite DEF Inv, TypeOK
    <3> QED
      BY <2>1, <3>1, <3>2, Rounds DEF Over
  <2> QED
    BY <2>1 DEF TimeIsBounded
<1>2. Spec => []Timed
  BY InitTimed, TimedStep, InvHolds, PTL DEF Spec
<1> QED
  BY <1>1, <1>2, InvHolds, PTL
=============================================================================
