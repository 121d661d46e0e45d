----------------------------- MODULE Workspace ------------------------------
(***************************************************************************)
(* app/workspace.py: the files agents' tasks share, with advisory locks    *)
(* and revisions.  Each method runs under one threading.Lock, so a call is *)
(* one step; the interleaving that matters is between the calls of tasks,  *)
(* each of which acts on what it read some calls ago.                      *)
(*                                                                         *)
(* A call that raises WorkspaceError changes nothing: it is a stuttering   *)
(* step, and the guard of each action is what makes the call not raise.    *)
(***************************************************************************)
EXTENDS Integers

CONSTANTS
    Tasks,       \* the task ids that call the workspace
    Files,       \* the normalised paths
    Paths,       \* the paths as callers spell them
    Normalized,  \* normalize_path: the file a spelling means, or Unsafe
    Unsafe,      \* not a file: normalize_path raises
    Nobody,      \* not a task
    MaxWrites    \* bound on the number of writes

ASSUME WorkspaceAssumption ==
    /\ Unsafe \notin Files
    /\ Normalized \in [Paths -> Files \cup {Unsafe}]
    /\ Nobody \notin Tasks
    /\ MaxWrites \in Nat

VARIABLES
    files,    \* _files: revision and content; revision 0 where there is no file
    locks,    \* _locks: the task that holds each path, or Nobody
    view,     \* what each task last learned of each file
    current,  \* the <<task, file>> pairs looked at since the task got the lock
    writes,   \* the number of writes so far; the content of a write is its number
    deleted   \* history: the files that have ever been deleted

vars == <<files, locks, view, current, writes, deleted>>

Absent  == [revision |-> 0, content |-> 0]
Unknown == [revision |-> -1, content |-> 0]
Record  == [revision : Nat, content : Nat]

TypeOK ==
    /\ files \in [Files -> Record]
    /\ locks \in [Files -> Tasks \cup {Nobody}]
    /\ view \in [Tasks -> [Files -> Record \cup {Unknown}]]
    /\ current \subseteq Tasks \X Files
    /\ writes \in 0 .. MaxWrites
    /\ deleted \subseteq Files

Init ==
    /\ files = [f \in Files |-> Absent]
    /\ locks = [f \in Files |-> Nobody]
    /\ view = [t \in Tasks |-> [f \in Files |-> Unknown]]
    /\ current = {}
    /\ writes = 0
    /\ deleted = {}

-----------------------------------------------------------------------------
(* The guard of acquire, write and delete: locked by nobody else. *)
MayChange(t, f) == locks[f] \in {Nobody, t}

(* The task knows what the call has told it; if it holds the lock, that is *)
(* something it may go on to rely on.                                      *)
Learn(t, f, record) ==
    /\ view' = [view EXCEPT ![t][f] = record]
    /\ current' = IF locks[f] = t THEN current \cup {<<t, f>>} ELSE current

Acquire(t, path) ==
    LET f == Normalized[path] IN
    /\ f # Unsafe
    /\ MayChange(t, f)
    /\ locks' = [locks EXCEPT ![f] = t]
    /\ UNCHANGED <<files, view, current, writes, deleted>>

(* A release by a task that does not hold the lock is ignored. *)
Release(t, path) ==
    LET f == Normalized[path] IN
    /\ f # Unsafe
    /\ locks[f] = t
    /\ locks' = [locks EXCEPT ![f] = Nobody]
    /\ current' = current \ {<<t, f>>}
    /\ UNCHANGED <<files, view, writes, deleted>>

(* The error "File not found" tells the task as much as a record does. *)
Read(t, path) ==
    LET f == Normalized[path] IN
    /\ f # Unsafe
    /\ Learn(t, f, files[f])
    /\ UNCHANGED <<files, locks, writes, deleted>>

Put(t, f) ==
    LET record == [revision |-> files[f].revision + 1, content |-> writes + 1] IN
    /\ writes < MaxWrites
    /\ writes' = writes + 1
    /\ files' = [files EXCEPT ![f] = record]
    /\ Learn(t, f, record)
    /\ UNCHANGED <<locks, deleted>>

(* write without expected_revision. *)
Write(t, path) ==
    LET f == Normalized[path] IN
    /\ f # Unsafe
    /\ MayChange(t, f)
    /\ Put(t, f)

(* A variant with a slip in it, as each definition below whose name ends   *)
(* in _Slip: only a revision from the future conflicts.                    *)
GuardedWrite_Slip(t, path) ==
    LET f == Normalized[path] IN
    /\ f # Unsafe
    /\ view[t][f] # Unknown
    /\ MayChange(t, f)
    /\ files[f].revision >= view[t][f].revision
    /\ Put(t, f)

(* write with the revision of the record the task last saw, 0 for none. *)
GuardedWrite(t, path) ==
    LET f == Normalized[path] IN
    /\ f # Unsafe
    /\ view[t][f] # Unknown
    /\ MayChange(t, f)
    /\ files[f].revision = view[t][f].revision
    /\ Put(t, f)

(* The locks are not looked at. *)
Delete_Slip(t, path) ==
    LET f == Normalized[path] IN
    /\ f # Unsafe
    /\ files[f] # Absent
    /\ files' = [files EXCEPT ![f] = Absent]
    /\ deleted' = deleted \cup {f}
    /\ Learn(t, f, Absent)
    /\ UNCHANGED <<locks, writes>>

(* The lock, if any, outlives the file. *)
Delete(t, path) ==
    LET f == Normalized[path] IN
    /\ f # Unsafe
    /\ MayChange(t, f)
    /\ files[f] # Absent
    /\ files' = [files EXCEPT ![f] = Absent]
    /\ deleted' = deleted \cup {f}
    /\ Learn(t, f, Absent)
    /\ UNCHANGED <<locks, writes>>

Next == \E t \in Tasks, path \in Paths :
    \/ Acquire(t, path) \/ Release(t, path)
    \/ Read(t, path)
    \/ Write(t, path) \/ GuardedWrite(t, path)
    \/ Delete(t, path)

Spec == Init /\ [][Next]_vars

-----------------------------------------------------------------------------
(* What a task has read, or written itself, while it holds the lock stays  *)
(* true until it releases the lock: no call of another task, by whatever   *)
(* spelling of the path, changes or removes the file, and nothing but its  *)
(* own release takes the lock away.                                        *)
LockedViewIsCurrent ==
    \A t \in Tasks, f \in Files :
       <<t, f>> \in current => locks[f] = t /\ files[f] = view[t][f]

(* "Conflicting revisions must be detected rather than silently            *)
(* overwritten" (README.md): a write that passes the revision check        *)
(* replaces the very content its task last saw.                            *)
NoLostUpdate ==
    [][\A t \in Tasks, path \in Paths :
          GuardedWrite(t, path) => files[Normalized[path]] = view[t][Normalized[path]]]_vars

(* That holds of the files that have not been deleted.                     *)
NoLostUpdateUnlessDeleted ==
    [][\A t \in Tasks, path \in Paths :
          GuardedWrite(t, path) /\ Normalized[path] \notin deleted
             => files[Normalized[path]] = view[t][Normalized[path]]]_vars

(* Until a file is deleted its revisions identify its contents: nobody     *)
(* holds a record that the revision check would take for another one.      *)
RevisionsIdentifyContents ==
    \A t \in Tasks, f \in Files \ deleted :
       /\ view[t][f].revision <= files[f].revision
       /\ view[t][f].revision = files[f].revision => view[t][f] = files[f]
=============================================================================
