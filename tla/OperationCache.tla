---------------------------- MODULE OperationCache ----------------------------
(***************************************************************************)
(* PerformanceController with its TTLCache: cached looks a key up, runs    *)
(* the operation under the controller's semaphore when there is no result, *)
(* and stores what it returns.  An action is the code between two awaits.  *)
(***************************************************************************)
EXTENDS Naturals, Sequences, FiniteSets

CONSTANTS
    Callers,
    Keys,
    NoKey,         \* the operation is given to run, not to cached
    MaxParallel,   \* max_parallel_agents
    MaxEntries,    \* cache_entries
    TTL,           \* cache_ttl_seconds, in ticks of the clock
    MaxRequests    \* bound: how often the controller is called

ASSUME CacheAssumption ==
    /\ IsFiniteSet(Callers)
    /\ NoKey \notin Keys
    /\ MaxParallel \in Nat \ {0} /\ MaxEntries \in Nat \ {0} /\ TTL \in Nat \ {0}
    /\ MaxRequests \in Nat

VARIABLES
    entries,  \* the OrderedDict, least recently used first
    pc,
    asked,    \* the key each caller has called with
    permits,
    active,   \* the counters of the controller
    peak,
    completed,
    failed,
    hits,
    misses,
    calls,    \* history: how many were made, and how many were cancelled,
    cancelled,
    stored,   \* the last result stored for each key, and how long ago,
    recency   \* and all keys in the order of their last use

entry    == <<entries, stored, recency>>
counters == <<completed, failed, hits, misses, calls, cancelled>>
vars     == <<entries, pc, asked, permits, active, peak, completed, failed, hits, misses,
              calls, cancelled, stored, recency>>

(* What an operation returns.  A result that is None is stored, but get    *)
(* cannot tell it from no result.                                          *)
Results == {"result", "None"}

(* Ages are counted up to TTL, at which results have expired. *)
Entry == [key : Keys, age : 0 .. TTL, value : Results]

Never == [age |-> TTL, value |-> "None"]

TypeOK ==
    /\ entries \in Seq(Entry)
    /\ pc \in [Callers -> {"idle", "waiting", "working"}]
    /\ asked \in [Callers -> Keys \cup {NoKey}]
    /\ permits \in Nat /\ active \in Nat /\ peak \in Nat
    /\ completed \in Nat /\ failed \in Nat /\ hits \in Nat /\ misses \in Nat
    /\ calls \in Nat /\ cancelled \in Nat
    /\ stored \in [Keys -> [age : 0 .. TTL, value : Results]]
    /\ recency \in Seq(Keys)

Init ==
    /\ entries = <<>>
    /\ pc = [c \in Callers |-> "idle"]
    /\ asked = [c \in Callers |-> NoKey]
    /\ permits = MaxParallel
    /\ active = 0 /\ peak = 0
    /\ completed = 0 /\ failed = 0 /\ hits = 0 /\ misses = 0
    /\ calls = 0 /\ cancelled = 0
    /\ stored = [k \in Keys |-> Never]
    /\ recency = <<>>

-----------------------------------------------------------------------------
Without(s, i) == [j \in 1 .. Len(s) - 1 |-> IF j < i THEN s[j] ELSE s[j + 1]]

Places(k) == {i \in DOMAIN entries : entries[i].key = k}

(* The history of use. *)
Used(k) ==
    recency' = IF \E i \in DOMAIN recency : recency[i] = k
               THEN Append(Without(recency, CHOOSE i \in DOMAIN recency : recency[i] = k), k)
               ELSE Append(recency, k)

(* Variants with a slip in them, as each definition below whose name holds *)
(* _Slip: an entry that is used is as good as new; its place is kept.      *)
Touch_Slip(i) == entries' = Append(Without(entries, i), [entries[i] EXCEPT !.age = 0])

Touch_Slip2(i) == UNCHANGED entries

(* move_to_end *)
Touch(i) == entries' = Append(Without(entries, i), entries[i])

(* put: the result takes the place of the last one for the key, or of the  *)
(* entry least recently used when there is no room.                        *)
Put(k, v) ==
    LET fresh == [key |-> k, age |-> 0, value |-> v] IN
    /\ \/ \E i \in Places(k) : entries' = Append(Without(entries, i), fresh)
       \/ /\ Places(k) = {}
          /\ Len(entries) < MaxEntries
          /\ entries' = Append(entries, fresh)
       \/ /\ Places(k) = {}
          /\ Len(entries) >= MaxEntries
          /\ entries' = Append(Without(entries, 1), fresh)
    /\ stored' = [stored EXCEPT ![k] = [age |-> 0, value |-> v]]
    /\ Used(k)

(* get finds a result, in the i-th entry. *)
Live(i) == entries[i].age < TTL

-----------------------------------------------------------------------------
(* cached, with a result to return. *)
Hit(c, k) ==
    /\ pc[c] = "idle" /\ calls < MaxRequests
    /\ \E i \in Places(k) : Live(i) /\ entries[i].value # "None" /\ Touch(i)
    /\ Used(k)
    /\ hits' = hits + 1
    /\ calls' = calls + 1
    /\ UNCHANGED <<pc, asked, permits, active, peak, completed, failed, misses, cancelled, stored>>

(* cached down to its wait for a permit: there is no result, it has        *)
(* expired, or it is None.                                                 *)
Miss(c, k) ==
    /\ pc[c] = "idle" /\ calls < MaxRequests
    /\ \/ Places(k) = {} /\ UNCHANGED <<entries, recency>>
       \/ \E i \in Places(k) :
             \/ ~Live(i) /\ entries' = Without(entries, i) /\ UNCHANGED recency
             \/ Live(i) /\ entries[i].value = "None" /\ Touch(i) /\ Used(k)
    /\ misses' = misses + 1
    /\ calls' = calls + 1
    /\ pc' = [pc EXCEPT ![c] = "waiting"]
    /\ asked' = [asked EXCEPT ![c] = k]
    /\ UNCHANGED <<permits, active, peak, completed, failed, hits, cancelled, stored>>

(* run, called for itself as AgentExecutionService does. *)
Run(c) ==
    /\ pc[c] = "idle" /\ calls < MaxRequests
    /\ calls' = calls + 1
    /\ pc' = [pc EXCEPT ![c] = "waiting"]
    /\ asked' = [asked EXCEPT ![c] = NoKey]
    /\ UNCHANGED <<entry, permits, active, peak, completed, failed, hits, misses, cancelled>>

Begin(c) ==
    /\ pc[c] = "waiting"
    /\ permits > 0
    /\ permits' = permits - 1
    /\ active' = active + 1
    /\ peak' = IF active' > peak THEN active' ELSE peak
    /\ pc' = [pc EXCEPT ![c] = "working"]
    /\ UNCHANGED <<entry, asked, counters>>

(* `finally`, and the end of the `async with`. *)
Leave(c) ==
    /\ permits' = permits + 1
    /\ active' = active - 1
    /\ pc' = [pc EXCEPT ![c] = "idle"]
    /\ UNCHANGED <<asked, peak>>

(* What run returns, cached stores. *)
Succeeds(c) ==
    /\ pc[c] = "working"
    /\ Leave(c)
    /\ completed' = completed + 1
    /\ \/ asked[c] = NoKey /\ UNCHANGED entry
       \/ asked[c] # NoKey /\ \E v \in Results : Put(asked[c], v)
    /\ UNCHANGED <<failed, hits, misses, calls, cancelled>>

(* The permit is kept. *)
Fails_Slip(c) ==
    /\ pc[c] = "working"
    /\ active' = active - 1
    /\ pc' = [pc EXCEPT ![c] = "idle"]
    /\ failed' = failed + 1
    /\ UNCHANGED <<entry, asked, permits, peak, completed, hits, misses, calls, cancelled>>

Fails(c) ==
    /\ pc[c] = "working"
    /\ Leave(c)
    /\ failed' = failed + 1
    /\ UNCHANGED <<entry, completed, hits, misses, calls, cancelled>>

(* A cancellation counts as success. *)
Cancel_Slip(c) ==
    /\ \/ /\ pc[c] = "waiting"
          /\ pc' = [pc EXCEPT ![c] = "idle"]
          /\ UNCHANGED <<asked, permits, active, peak, completed>>
       \/ /\ pc[c] = "working"
          /\ Leave(c)
          /\ completed' = completed + 1
    /\ cancelled' = cancelled + 1
    /\ UNCHANGED <<entry, failed, hits, misses, calls>>

(* CancelledError is no Exception: neither counter moves. *)
Cancel(c) ==
    /\ \/ /\ pc[c] = "waiting"
          /\ pc' = [pc EXCEPT ![c] = "idle"]
          /\ UNCHANGED <<asked, permits, active, peak>>
       \/ /\ pc[c] = "working"
          /\ Leave(c)
    /\ cancelled' = cancelled + 1
    /\ UNCHANGED <<entry, completed, failed, hits, misses, calls>>

Older(age) == IF age < TTL THEN age + 1 ELSE age

Tick ==
    /\ \E k \in Keys : stored[k].age < TTL
    /\ entries' = [i \in DOMAIN entries |-> [entries[i] EXCEPT !.age = Older(@)]]
    /\ stored' = [k \in Keys |-> [stored[k] EXCEPT !.age = Older(@)]]
    /\ UNCHANGED <<pc, asked, permits, active, peak, counters, recency>>

Next ==
    \/ \E c \in Callers :
          \/ \E k \in Keys : Hit(c, k) \/ Miss(c, k)
          \/ Run(c) \/ Begin(c) \/ Succeeds(c) \/ Fails(c) \/ Cancel(c)
    \/ Tick

Spec == Init /\ [][Next]_vars

(* The semaphore serves its waiters in order, and operations end. *)
FairSpec ==
    /\ Spec
    /\ \A c \in Callers : SF_vars(Begin(c)) /\ WF_vars(Succeeds(c) \/ Fails(c))

-----------------------------------------------------------------------------
(* "Small bounded in-memory cache" (performance.py), with one entry a key. *)
CacheIsBounded ==
    /\ Len(entries) <= MaxEntries
    /\ \A i, j \in DOMAIN entries : entries[i].key = entries[j].key => i = j

(* What is in the cache is the last result stored for its key and as old   *)
(* as that: a hit does not make it younger, and concurrent operations for  *)
(* a key do not leave two of them.                                         *)
EntriesAreLastResults ==
    \A i \in DOMAIN entries :
        LET e == entries[i] IN stored[e.key] = [age |-> e.age, value |-> e.value]

(* How many other keys have been used since k was. *)
UsedSince(k) ==
    {recency[j] : j \in {j \in DOMAIN recency :
                            \E i \in DOMAIN recency : recency[i] = k /\ i < j}}

(* "Avoids repeated work" (performance.py): a result is forgotten before   *)
(* its time only when as many other keys as there is room for have been    *)
(* used after it, in lookups or by operations that ended meanwhile.        *)
ForgottenOnlyWhenFull ==
    \A k \in Keys : stored[k].age < TTL /\ Places(k) = {} => Cardinality(UsedSince(k)) >= MaxEntries

Waiting == {c \in Callers : pc[c] = "waiting"}
Working == {c \in Callers : pc[c] = "working"}

(* No more operations at once than the limit, and no permit is lost,       *)
(* whatever they end with; peak_active never tells of more.                *)
LimitIsKept ==
    /\ active = Cardinality(Working)
    /\ permits + active = MaxParallel
    /\ active <= peak /\ peak <= MaxParallel

(* The snapshot accounts for every call: it was a hit, it is waiting or at *)
(* work, or it was completed, failed or cancelled; active tells how many   *)
(* are at work; and no more calls were misses than were made and were no   *)
(* hits.                                                                   *)
CountersAddUp ==
    /\ calls = hits + completed + failed + cancelled + Cardinality(Waiting) + active
    /\ active = Cardinality(Working)
    /\ hits + misses <= calls

(* Every call of the controller ends. *)
CallsEnd == \A c \in Callers : pc[c] # "idle" ~> pc[c] = "idle"
=============================================================================
