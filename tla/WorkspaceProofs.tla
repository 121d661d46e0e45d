-------------------------- MODULE WorkspaceProofs ---------------------------
(***************************************************************************)
(* Theorems about Workspace, for any tasks, files and spellings of paths.  *)
(***************************************************************************)
EXTENDS Workspace, TLAPS

LEMMA RecordsKnown ==
    /\ Absent \in Record /\ Absent.revision = 0
    /\ Unknown.revision = -1
    /\ \A r \in Record : r.revision \in Nat /\ r.content \in Nat
BY DEF Absent, Unknown, Record

(* What a successful call does, whichever it is: it changes the lock of    *)
(* one file or the file itself, and never against another task's lock.     *)
LEMMA TypeStep == ASSUME TypeOK, [Next]_vars PROVE TypeOK'
<1> USE WorkspaceAssumption, RecordsKnown DEF TypeOK, Learn
<1>1. ASSUME NEW t \in Tasks, NEW f \in Files, NEW record \in Record, Learn(t, f, record)
      PROVE  /\ view' \in [Tasks -> [Files -> Record \cup {Unknown}]]
             /\ current' \subseteq Tasks \X Files
  BY <1>1
<1>2. ASSUME NEW t \in Tasks, NEW f \in Files, Put(t, f) PROVE TypeOK'
  <2>1. [revision |-> files[f].revision + 1, content |-> writes + 1] \in Record
    BY DEF Record
  <2>2. files' \in [Files -> Record] /\ writes' \in 0 .. MaxWrites
    BY <1>2, <2>1 DEF Put
  <2> HIDE DEF Learn
  <2> QED BY <1>1, <1>2, <2>1, <2>2 DEF Put
<1>3. ASSUME NEW t \in Tasks, NEW path \in Paths, Acquire(t, path) \/ Release(t, path) PROVE TypeOK'
  BY <1>3 DEF Acquire, Release
<1>4. ASSUME NEW t \in Tasks, NEW path \in Paths, Read(t, path) \/ Delete(t, path) PROVE TypeOK'
  <2>1. Normalized[path] \in Files /\ files' \in [Files -> Record]
    BY <1>4 DEF Read, Delete
  <2>2. /\ view' \in [Tasks -> [Files -> Record \cup {Unknown}]]
        /\ current' \subseteq Tasks \X Files
    BY <1>1, <1>4, <2>1 DEF Read, Delete
  <2> QED BY <1>4, <2>1, <2>2 DEF Read, Delete
<1>5. ASSUME NEW t \in Tasks, NEW path \in Paths, Write(t, path) \/ GuardedWrite(t, path)
      PROVE  TypeOK'
  BY <1>2, <1>5 DEF Write, GuardedWrite
<1>6. CASE UNCHANGED vars
  BY <1>6 DEF vars
<1> QED BY <1>3, <1>4, <1>5, <1>6 DEF Next

(* Every variable always has its type. *)
THEOREM TypeCorrect == Spec => []TypeOK
<1>1. Init => TypeOK
  BY WorkspaceAssumption, RecordsKnown DEF Init, TypeOK
<1> QED BY <1>1, TypeStep, PTL DEF Spec

-----------------------------------------------------------------------------
(* A change of file f by task t, which has the lock if anyone has. *)
LEMMA ChangeKeepsLockedViews ==
    ASSUME TypeOK, LockedViewIsCurrent, NEW t \in Tasks, NEW f \in Files, NEW record,
           MayChange(t, f), files' = [files EXCEPT ![f] = record], Learn(t, f, record),
           locks' = locks
    PROVE  LockedViewIsCurrent'
<1> SUFFICES ASSUME NEW u \in Tasks, NEW g \in Files, <<u, g>> \in current'
             PROVE  locks'[g] = u /\ files'[g] = view'[u][g]
  BY DEF LockedViewIsCurrent
<1>1. CASE u = t /\ g = f
  <2>1. locks[f] = t
    BY <1>1 DEF Learn, LockedViewIsCurrent
  <2> QED BY <1>1, <2>1 DEF TypeOK, Learn
<1>2. CASE <<u, g>> # <<t, f>>
  <2>1. <<u, g>> \in current
    BY <1>2 DEF Learn
  <2>2. locks[g] = u /\ files[g] = view[u][g]
    BY <2>1 DEF LockedViewIsCurrent
  <2>3. g # f
    BY <1>2, <2>2, WorkspaceAssumption DEF MayChange
  <2> QED BY <2>2, <2>3 DEF TypeOK, Learn
<1> QED BY <1>1, <1>2

LEMMA LockedViewStep ==
    ASSUME TypeOK, LockedViewIsCurrent, [Next]_vars
    PROVE  LockedViewIsCurrent'
<1>1. ASSUME NEW t \in Tasks, NEW path \in Paths, Acquire(t, path) PROVE LockedViewIsCurrent'
  BY <1>1, WorkspaceAssumption DEF Acquire, MayChange, LockedViewIsCurrent, TypeOK
<1>2. ASSUME NEW t \in Tasks, NEW path \in Paths, Release(t, path) PROVE LockedViewIsCurrent'
  BY <1>2, WorkspaceAssumption DEF Release, LockedViewIsCurrent, TypeOK
<1>3. ASSUME NEW t \in Tasks, NEW path \in Paths, Read(t, path) PROVE LockedViewIsCurrent'
  BY <1>3, WorkspaceAssumption DEF Read, Learn, LockedViewIsCurrent, TypeOK
<1>4. ASSUME NEW t \in Tasks, NEW path \in Paths, Write(t, path) \/ GuardedWrite(t, path)
      PROVE  LockedViewIsCurrent'
  <2>1. Normalized[path] \in Files
    BY <1>4, WorkspaceAssumption DEF Write, GuardedWrite
  <2> QED BY <1>4, <2>1, ChangeKeepsLockedViews DEF Write, GuardedWrite, Put
<1>5. ASSUME NEW t \in Tasks, NEW path \in Paths, Delete(t, path) PROVE LockedViewIsCurrent'
  <2>1. Normalized[path] \in Files
    BY <1>5, WorkspaceAssumption DEF Delete
  <2> QED BY <1>5, <2>1, ChangeKeepsLockedViews DEF Delete
<1>6. CASE UNCHANGED vars
  BY <1>6 DEF vars, LockedViewIsCurrent
<1> QED BY <1>1, <1>2, <1>3, <1>4, <1>5, <1>6 DEF Next

(* Under its lock a task's knowledge of a file cannot be made stale. *)
THEOREM LocksProtect == Spec => []LockedViewIsCurrent
<1>1. Init => LockedViewIsCurrent
  BY DEF Init, LockedViewIsCurrent
<1>2. TypeOK /\ LockedViewIsCurrent /\ [Next]_vars => LockedViewIsCurrent'
  BY LockedViewStep
<1> QED BY <1>1, <1>2, TypeCorrect, PTL DEF Spec

-----------------------------------------------------------------------------
LEMMA RevisionStep ==
    ASSUME TypeOK, RevisionsIdentifyContents, [Next]_vars
    PROVE  RevisionsIdentifyContents'
<1> USE RecordsKnown, WorkspaceAssumption
<1>1. ASSUME NEW t \in Tasks, NEW path \in Paths, Acquire(t, path) \/ Release(t, path)
      PROVE  RevisionsIdentifyContents'
  BY <1>1 DEF Acquire, Release, RevisionsIdentifyContents
<1>2. ASSUME NEW t \in Tasks, NEW path \in Paths, Read(t, path)
      PROVE  RevisionsIdentifyContents'
  BY <1>2 DEF Read, Learn, RevisionsIdentifyContents, TypeOK
<1>3. ASSUME NEW t \in Tasks, NEW path \in Paths, Write(t, path) \/ GuardedWrite(t, path)
      PROVE  RevisionsIdentifyContents'
  <2>1. PICK f \in Files : f = Normalized[path] /\ Put(t, f)
    BY <1>3 DEF Write, GuardedWrite
  <2>2. /\ deleted' = deleted
        /\ files'[f].revision = files[f].revision + 1 /\ view'[t][f] = files'[f]
        /\ \A u \in Tasks, g \in Files : u # t \/ g # f => view'[u][g] = view[u][g]
        /\ \A g \in Files : g # f => files'[g] = files[g]
        /\ files[f].revision \in Nat
    BY <2>1 DEF Put, Learn, TypeOK
  <2>3. f \notin deleted => \A u \in Tasks : view[u][f].revision \in Int /\ view[u][f].revision <= files[f].revision
    BY DEF TypeOK, RevisionsIdentifyContents
  <2> QED BY <2>2, <2>3 DEF RevisionsIdentifyContents
<1>4. ASSUME NEW t \in Tasks, NEW path \in Paths, Delete(t, path)
      PROVE  RevisionsIdentifyContents'
  <2>1. PICK f \in Files : f = Normalized[path]
    BY <1>4 DEF Delete
  <2>2. \A g \in Files \ deleted' : g \in Files \ deleted /\ g # f
    BY <1>4, <2>1 DEF Delete
  <2>3. \A u \in Tasks, g \in Files : g # f => view'[u][g] = view[u][g] /\ files'[g] = files[g]
    BY <1>4, <2>1 DEF Delete, Learn, TypeOK
  <2> QED BY <2>2, <2>3 DEF RevisionsIdentifyContents
<1>5. CASE UNCHANGED vars
  BY <1>5 DEF vars, RevisionsIdentifyContents
<1> QED BY <1>1, <1>2, <1>3, <1>4, <1>5 DEF Next

LEMMA RevisionInit == Init => RevisionsIdentifyContents
BY RecordsKnown DEF Init, RevisionsIdentifyContents

(* Until a file is deleted a revision number stands for one content. *)
THEOREM RevisionsCorrect == Spec => []RevisionsIdentifyContents
<1>1. TypeOK /\ RevisionsIdentifyContents /\ [Next]_vars
         => RevisionsIdentifyContents'
  BY RevisionStep
<1> QED BY <1>1, RevisionInit, TypeCorrect, PTL DEF Spec

(* Until a file is deleted the revision check detects every conflicting    *)
(* write to it.                                                            *)
THEOREM NoUpdateLost == Spec => NoLostUpdateUnlessDeleted
<1>1. TypeOK /\ RevisionsIdentifyContents =>
        \A t \in Tasks, path \in Paths :
          GuardedWrite(t, path) /\ Normalized[path] \notin deleted
             => files[Normalized[path]] = view[t][Normalized[path]]
  BY WorkspaceAssumption DEF GuardedWrite, RevisionsIdentifyContents
<1>2. TypeOK /\ RevisionsIdentifyContents =>
        [\A t \in Tasks, path \in Paths :
          GuardedWrite(t, path) /\ Normalized[path] \notin deleted
             => files[Normalized[path]] = view[t][Normalized[path]]]_vars
  BY <1>1
<1> QED BY <1>2, TypeCorrect, RevisionsCorrect, PTL DEF NoLostUpdateUnlessDeleted
=============================================================================
