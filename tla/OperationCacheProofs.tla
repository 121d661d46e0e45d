------------------------ MODULE OperationCacheProofs ------------------------
(***************************************************************************)
(* Safety of OperationCache for any callers, keys and limits: the bound on *)
(* parallel operations, the counters, and what the cache holds and forgets.*)
(***************************************************************************)
EXTENDS OperationCache, FiniteSetTheorems, TLAPS

-----------------------------------------------------------------------------
(* The operations at work and the calls that wait for a permit.            *)
LEMMA CallersFinite ==
    /\ IsFiniteSet(Waiting) /\ Cardinality(Waiting) \in Nat
    /\ IsFiniteSet(Working) /\ Cardinality(Working) \in Nat
BY CacheAssumption, FS_Subset, FS_CardinalityType DEF Waiting, Working

LEMMA Moving ==
    ASSUME TypeOK, NEW c \in Callers, NEW place \in {"idle", "waiting", "working"},
           pc' = [pc EXCEPT ![c] = place]
    PROVE  /\ pc' \in [Callers -> {"idle", "waiting", "working"}]
           /\ Waiting' = IF place = "waiting" THEN Waiting \cup {c} ELSE Waiting \ {c}
           /\ Working' = IF place = "working" THEN Working \cup {c} ELSE Working \ {c}
<1>1. /\ pc' \in [Callers -> {"idle", "waiting", "working"}]
      /\ \A d \in Callers : pc'[d] = IF d = c THEN place ELSE pc[d]
  BY DEF TypeOK
<1> QED
  BY <1>1 DEF Waiting, Working

LEMMA Standing ==
    ASSUME UNCHANGED pc
    PROVE  Waiting' = Waiting /\ Working' = Working
BY DEF Waiting, Working

(* How far the sets grow and shrink, for the three ways a call can go.     *)
LEMMA Counted ==
    ASSUME TypeOK, NEW c \in Callers
    PROVE  /\ pc[c] = "idle" /\ pc' = [pc EXCEPT ![c] = "waiting"] =>
                  /\ Cardinality(Waiting') = Cardinality(Waiting) + 1
                  /\ Cardinality(Working') = Cardinality(Working)
           /\ pc[c] = "waiting" /\ pc' = [pc EXCEPT ![c] = "working"] =>
                  /\ Cardinality(Waiting') = Cardinality(Waiting) - 1
                  /\ Cardinality(Working') = Cardinality(Working) + 1
           /\ pc[c] = "waiting" /\ pc' = [pc EXCEPT ![c] = "idle"] =>
                  /\ Cardinality(Waiting') = Cardinality(Waiting) - 1
                  /\ Cardinality(Working') = Cardinality(Working)
           /\ pc[c] = "working" /\ pc' = [pc EXCEPT ![c] = "idle"] =>
                  /\ Cardinality(Waiting') = Cardinality(Waiting)
                  /\ Cardinality(Working') = Cardinality(Working) - 1
<1>1. c \in Waiting <=> pc[c] = "waiting"
  BY DEF Waiting
<1>2. c \in Working <=> pc[c] = "working"
  BY DEF Working
<1>3. /\ c \notin Waiting => Cardinality(Waiting \cup {c}) = Cardinality(Waiting) + 1
      /\ c \in Waiting => Cardinality(Waiting \ {c}) = Cardinality(Waiting) - 1
      /\ c \notin Working => Cardinality(Working \cup {c}) = Cardinality(Working) + 1
      /\ c \in Working => Cardinality(Working \ {c}) = Cardinality(Working) - 1
  BY CallersFinite, FS_AddElement, FS_RemoveElement
<1>4. /\ c \notin Waiting => Waiting \ {c} = Waiting
      /\ c \notin Working => Working \ {c} = Working
  OBVIOUS
<1>5. ASSUME pc[c] = "idle", pc' = [pc EXCEPT ![c] = "waiting"]
      PROVE  /\ Cardinality(Waiting') = Cardinality(Waiting) + 1
             /\ Cardinality(Working') = Cardinality(Working)
  <2>1. Waiting' = Waiting \cup {c} /\ Working' = Working \ {c}
    BY <1>5, Moving
  <2> QED
    BY <1>1, <1>2, <1>3, <1>4, <1>5, <2>1
<1>6. ASSUME pc[c] = "waiting", pc' = [pc EXCEPT ![c] = "working"]
      PROVE  /\ Cardinality(Waiting') = Cardinality(Waiting) - 1
             /\ Cardinality(Working') = Cardinality(Working) + 1
  <2>1. Waiting' = Waiting \ {c} /\ Working' = Working \cup {c}
    BY <1>6, Moving
  <2> QED
    BY <1>1, <1>2, <1>3, <1>4, <1>6, <2>1
<1>7. ASSUME pc[c] = "waiting", pc' = [pc EXCEPT ![c] = "idle"]
      PROVE  /\ Cardinality(Waiting') = Cardinality(Waiting) - 1
             /\ Cardinality(Working') = Cardinality(Working)
  <2>1. Waiting' = Waiting \ {c} /\ Working' = Working \ {c}
    BY <1>7, Moving
  <2> QED
    BY <1>1, <1>2, <1>3, <1>4, <1>7, <2>1
<1>8. ASSUME pc[c] = "working", pc' = [pc EXCEPT ![c] = "idle"]
      PROVE  /\ Cardinality(Waiting') = Cardinality(Waiting)
             /\ Cardinality(Working') = Cardinality(Working) - 1
  <2>1. Waiting' = Waiting \ {c} /\ Working' = Working \ {c}
    BY <1>8, Moving
  <2> QED
    BY <1>1, <1>2, <1>3, <1>4, <1>8, <2>1
<1> QED
  BY <1>5, <1>6, <1>7, <1>8

-----------------------------------------------------------------------------
(* The entries but the i-th, each at most once.                            *)
LEMMA Removed ==
    ASSUME NEW S, NEW s \in Seq(S), NEW i \in 1 .. Len(s)
    PROVE  /\ Without(s, i) \in Seq(S)
           /\ Len(Without(s, i)) = Len(s) - 1
           /\ \A j \in 1 .. Len(s) - 1 :
                  Without(s, i)[j] = s[IF j < i THEN j ELSE j + 1]
<1>1. Len(s) \in Nat /\ Len(s) - 1 \in Nat
  OBVIOUS
<1>2. \A j \in 1 .. Len(s) - 1 : (IF j < i THEN s[j] ELSE s[j + 1]) \in S
  BY <1>1
<1>3. Without(s, i) \in [1 .. Len(s) - 1 -> S]
  BY <1>2 DEF Without
<1>4. Without(s, i) \in Seq(S) /\ Len(Without(s, i)) = Len(s) - 1
  BY <1>1, <1>3
<1> QED
  BY <1>4 DEF Without

LEMMA ManyEntries == MaxEntries \in Nat /\ MaxEntries >= 1 /\ TTL \in Nat /\ 0 \in 0 .. TTL
BY CacheAssumption

LEMMA EntryKeys == \A e \in Entry : e.key \in Keys
BY DEF Entry

(* What the cache must be about the history `last`.                        *)
Faithful(s, last) ==
    /\ \A i, j \in 1 .. Len(s) : s[i].key = s[j].key => i = j
    /\ \A i \in 1 .. Len(s) : last[s[i].key] = [age |-> s[i].age, value |-> s[i].value]

LEMMA FaithfulEntries ==
    ASSUME entries \in Seq(Entry)
    PROVE  CacheIsBounded /\ EntriesAreLastResults
             <=> Len(entries) <= MaxEntries /\ Faithful(entries, stored)
BY DEF CacheIsBounded, EntriesAreLastResults, Faithful

LEMMA FaithfulWithout ==
    ASSUME NEW s \in Seq(Entry), NEW last, Faithful(s, last), NEW i \in 1 .. Len(s)
    PROVE  /\ Faithful(Without(s, i), last)
           /\ \A j \in 1 .. Len(Without(s, i)) : Without(s, i)[j].key # s[i].key
<1> DEFINE w    == Without(s, i)
           P(j) == IF j < i THEN j ELSE j + 1
<1>1. /\ Len(w) = Len(s) - 1 /\ Len(s) \in Nat
      /\ \A j \in 1 .. Len(s) - 1 : w[j] = s[P(j)]
  <2>1. Len(s) \in Nat
    OBVIOUS
  <2>2. Len(w) = Len(s) - 1 /\ \A j \in 1 .. Len(s) - 1 : w[j] = s[IF j < i THEN j ELSE j + 1]
    BY Removed
  <2> QED
    BY <2>1, <2>2
<1>2. \A j \in 1 .. Len(w) : w[j] = s[P(j)] /\ P(j) \in 1 .. Len(s) /\ P(j) # i
  BY <1>1
<1>3. \A j, l \in 1 .. Len(w) : P(j) = P(l) => j = l
  BY <1>1
<1> HIDE DEF w, P
<1>4. Faithful(w, last) /\ \A j \in 1 .. Len(w) : w[j].key # s[i].key
  <2>1. \A j \in 1 .. Len(w) : w[j].key # s[i].key
    BY <1>2 DEF Faithful
  <2>2. \A j, l \in 1 .. Len(w) : w[j].key = w[l].key => j = l
    BY <1>2, <1>3 DEF Faithful
  <2>3. \A j \in 1 .. Len(w) : last[w[j].key] = [age |-> w[j].age, value |-> w[j].value]
    BY <1>2 DEF Faithful
  <2> QED
    BY <2>1, <2>2, <2>3 DEF Faithful
<1> QED
  BY <1>4 DEF w

(* A fresh result at the end of entries that have none for its key.        *)
LEMMA FaithfulAppend ==
    ASSUME NEW s \in Seq(Entry), NEW last, Faithful(s, last),
           NEW e \in Entry, NEW new, new[e.key] = [age |-> e.age, value |-> e.value],
           \A i \in 1 .. Len(s) : s[i].key # e.key /\ new[s[i].key] = last[s[i].key]
    PROVE  /\ Append(s, e) \in Seq(Entry)
           /\ Len(Append(s, e)) = Len(s) + 1
           /\ Faithful(Append(s, e), new)
<1>1. /\ Append(s, e) \in Seq(Entry)
      /\ Len(Append(s, e)) = Len(s) + 1 /\ Len(s) \in Nat
      /\ \A i \in 1 .. Len(s) : Append(s, e)[i] = s[i]
      /\ Append(s, e)[Len(s) + 1] = e
  OBVIOUS
<1>2. \A i \in 1 .. Len(s) + 1 : i \in 1 .. Len(s) \/ i = Len(s) + 1
  BY <1>1
<1>3. Faithful(Append(s, e), new)
  BY <1>1, <1>2 DEF Faithful
<1> QED
  BY <1>1, <1>3

(* The four things a step can do to the cache.                             *)
Cache == entries \in Seq(Entry) /\ Len(entries) <= MaxEntries /\ Faithful(entries, stored)

LEMMA Touching ==
    ASSUME Cache, NEW i \in DOMAIN entries, Touch(i), UNCHANGED stored
    PROVE  Cache'
<1> DEFINE w == Without(entries, i)
<1>1. i \in 1 .. Len(entries) /\ entries[i] \in Entry
  BY DEF Cache
<1>2. /\ w \in Seq(Entry) /\ Len(w) = Len(entries) - 1
      /\ Faithful(w, stored)
      /\ \A j \in 1 .. Len(w) : w[j].key # entries[i].key
  BY <1>1, Removed, FaithfulWithout DEF Cache
<1>3. stored[entries[i].key] = [age |-> entries[i].age, value |-> entries[i].value]
  BY <1>1 DEF Cache, Faithful
<1>4. entries' = Append(w, entries[i]) /\ stored' = stored
  BY DEF Touch
<1> HIDE DEF w
<1>5. entries' \in Seq(Entry) /\ Len(entries') = Len(w) + 1 /\ Faithful(entries', stored')
  BY <1>1, <1>2, <1>3, <1>4, FaithfulAppend
<1> QED
  BY <1>2, <1>5, ManyEntries DEF Cache

LEMMA Forgetting ==
    ASSUME Cache, NEW i \in DOMAIN entries, entries' = Without(entries, i), UNCHANGED stored
    PROVE  Cache'
<1>1. i \in 1 .. Len(entries)
  BY DEF Cache
<1>2. /\ entries' \in Seq(Entry) /\ Len(entries') = Len(entries) - 1
      /\ Faithful(entries', stored)
  BY <1>1, Removed, FaithfulWithout DEF Cache
<1> QED
  BY <1>2, ManyEntries DEF Cache

LEMMA Putting ==
    ASSUME Cache, stored \in [Keys -> [age : 0 .. TTL, value : Results]],
           NEW k \in Keys, NEW v \in Results, Put(k, v)
    PROVE  Cache' /\ stored' \in [Keys -> [age : 0 .. TTL, value : Results]]
<1> DEFINE e == [key |-> k, age |-> 0, value |-> v]
<1>1. /\ e \in Entry /\ e.key = k /\ e.age = 0 /\ e.value = v
  BY ManyEntries DEF Entry
<1>2. /\ stored' \in [Keys -> [age : 0 .. TTL, value : Results]]
      /\ stored'[k] = [age |-> 0, value |-> v]
      /\ \A l \in Keys : l # k => stored'[l] = stored[l]
  BY ManyEntries DEF Put
<1>3. \A j \in 1 .. Len(entries) : j \in DOMAIN entries /\ entries[j] \in Entry /\ entries[j].key \in Keys
  BY EntryKeys DEF Cache
<1>4. PICK base \in Seq(Entry) :
          /\ entries' = Append(base, e)
          /\ Len(base) < MaxEntries
          /\ Faithful(base, stored)
          /\ \A j \in 1 .. Len(base) : base[j].key # k
  <2>1. \/ \E i \in Places(k) : entries' = Append(Without(entries, i), e)
        \/ Places(k) = {} /\ Len(entries) < MaxEntries /\ entries' = Append(entries, e)
        \/ Places(k) = {} /\ Len(entries) >= MaxEntries /\ entries' = Append(Without(entries, 1), e)
    BY DEF Put
  <2>2. CASE \E i \in Places(k) : entries' = Append(Without(entries, i), e)
    <3>1. PICK i \in Places(k) : entries' = Append(Without(entries, i), e)
      BY <2>2
    <3>2. i \in 1 .. Len(entries) /\ entries[i].key = k
      BY DEF Places, Cache
    <3>3. /\ Without(entries, i) \in Seq(Entry) /\ Len(Without(entries, i)) = Len(entries) - 1
          /\ Faithful(Without(entries, i), stored)
          /\ \A j \in 1 .. Len(Without(entries, i)) : Without(entries, i)[j].key # k
      BY <3>2, Removed, FaithfulWithout DEF Cache
    <3>4. Len(entries) - 1 < MaxEntries
      BY ManyEntries DEF Cache
    <3> QED
      BY <3>1, <3>3, <3>4
  <2>3. CASE Places(k) = {} /\ Len(entries) < MaxEntries /\ entries' = Append(entries, e)
    <3>1. \A j \in 1 .. Len(entries) : entries[j].key # k
      BY <1>3, <2>3 DEF Places
    <3> QED
      BY <2>3, <3>1 DEF Cache
  <2>4. CASE Places(k) = {} /\ Len(entries) >= MaxEntries /\ entries' = Append(Without(entries, 1), e)
    <3>1. \A j \in 1 .. Len(entries) : entries[j].key # k
      BY <1>3, <2>4 DEF Places
    <3>2. 1 \in 1 .. Len(entries)
      BY <2>4, ManyEntries DEF Cache
    <3>3. /\ Without(entries, 1) \in Seq(Entry) /\ Len(Without(entries, 1)) = Len(entries) - 1
          /\ Faithful(Without(entries, 1), stored)
          /\ \A j \in 1 .. Len(entries) - 1 : Without(entries, 1)[j] = entries[IF j < 1 THEN j ELSE j + 1]
      BY <3>2, Removed, FaithfulWithout DEF Cache
    <3>4. \A j \in 1 .. Len(entries) - 1 : Without(entries, 1)[j] = entries[j + 1] /\ j + 1 \in 1 .. Len(entries)
      BY <3>3
    <3>5. Len(entries) - 1 < MaxEntries
      BY ManyEntries DEF Cache
    <3> QED
      BY <2>4, <3>1, <3>3, <3>4, <3>5
  <2> QED
    BY <2>1, <2>2, <2>3, <2>4
<1> HIDE DEF e
<1>5. \A j \in 1 .. Len(base) : base[j].key \in Keys
  BY EntryKeys
<1>6. \A j \in 1 .. Len(base) : base[j].key # e.key /\ stored'[base[j].key] = stored[base[j].key]
  BY <1>1, <1>2, <1>4, <1>5
<1>7. stored'[e.key] = [age |-> e.age, value |-> e.value]
  BY <1>1, <1>2
<1>8. /\ Append(base, e) \in Seq(Entry) /\ Len(Append(base, e)) = Len(base) + 1
      /\ Faithful(Append(base, e), stored')
  BY <1>1, <1>4, <1>6, <1>7, FaithfulAppend
<1>9. Len(base) \in Nat
  OBVIOUS
<1> QED
  BY <1>2, <1>4, <1>8, <1>9, ManyEntries DEF Cache
-----------------------------------------------------------------------------
(* Everything but the cache, through a step of one call.                   *)
Accounts ==
    /\ pc \in [Callers -> {"idle", "waiting", "working"}]
    /\ asked \in [Callers -> Keys \cup {NoKey}]
    /\ permits \in Nat /\ active \in Nat /\ peak \in Nat
    /\ completed \in Nat /\ failed \in Nat /\ hits \in Nat /\ misses \in Nat
    /\ calls \in Nat /\ cancelled \in Nat
    /\ LimitIsKept
    /\ CountersAddUp

Contents ==
    /\ Cache
    /\ stored \in [Keys -> [age : 0 .. TTL, value : Results]]
    /\ recency \in Seq(Keys)

Inv == Accounts /\ Contents

LEMMA InvType == ASSUME Inv PROVE TypeOK
BY DEF Inv, TypeOK, Accounts, Contents, Cache

LEMMA AskedType ==
    ASSUME asked \in [Callers -> Keys \cup {NoKey}], NEW c \in Callers,
           NEW k \in Keys \cup {NoKey}
    PROVE  [asked EXCEPT ![c] = k] \in [Callers -> Keys \cup {NoKey}]
OBVIOUS

LEMMA UsedType ==
    ASSUME recency \in Seq(Keys), NEW k \in Keys, Used(k)
    PROVE  recency' \in Seq(Keys)
<1>1. CASE \E i \in DOMAIN recency : recency[i] = k
  <2> DEFINE i == CHOOSE i \in DOMAIN recency : recency[i] = k
  <2>1. i \in 1 .. Len(recency)
    BY <1>1
  <2>2. Without(recency, i) \in Seq(Keys)
    BY <2>1, Removed
  <2>3. recency' = Append(Without(recency, i), k)
    BY <1>1 DEF Used
  <2> HIDE DEF i
  <2> QED
    BY <2>2, <2>3
<1>2. CASE ~ \E i \in DOMAIN recency : recency[i] = k
  BY <1>2 DEF Used
<1> QED
  BY <1>1, <1>2

-----------------------------------------------------------------------------
LEMMA InitInv == ASSUME Init PROVE Inv
<1>1. Waiting = {} /\ Working = {}
  BY DEF Init, Waiting, Working
<1>2. Cardinality(Waiting) = 0 /\ Cardinality(Working) = 0
  BY <1>1, FS_EmptySet
<1>3. Accounts
  BY <1>2, CacheAssumption DEF Init, Accounts, LimitIsKept, CountersAddUp
<1>4. stored \in [Keys -> [age : 0 .. TTL, value : Results]]
  BY ManyEntries DEF Init, Never, Results
<1>5. Len(entries) = 0 /\ entries \in Seq(Entry) /\ recency \in Seq(Keys)
  BY DEF Init
<1>6. Contents
  BY <1>4, <1>5, ManyEntries DEF Contents, Cache, Faithful
<1> QED
  BY <1>3, <1>6 DEF Inv

LEMMA HitInv == ASSUME Inv, NEW c \in Callers, NEW k \in Keys, Hit(c, k) PROVE Inv'
<1>1. Accounts'
  BY Standing, CallersFinite DEF Inv, Accounts, Hit, LimitIsKept, CountersAddUp
<1>2. Contents'
  <2>1. PICK i \in DOMAIN entries : Touch(i)
    BY DEF Hit, Places
  <2>2. Cache'
    BY <2>1, Touching DEF Inv, Hit, Contents
  <2>3. recency' \in Seq(Keys) /\ stored' = stored
    BY UsedType DEF Hit, Inv, Accounts, Cache, Contents
  <2> QED
    BY <2>2, <2>3 DEF Contents, Inv, Accounts, Cache
<1> QED
  BY <1>1, <1>2 DEF Inv

LEMMA MissInv == ASSUME Inv, NEW c \in Callers, NEW k \in Keys, Miss(c, k) PROVE Inv'
<1>1. Accounts'
  <2>1. /\ Cardinality(Waiting') = Cardinality(Waiting) + 1
        /\ Cardinality(Working') = Cardinality(Working)
    BY Counted, InvType DEF Inv, Miss
  <2>2. pc' \in [Callers -> {"idle", "waiting", "working"}]
    BY Moving, InvType DEF Inv, Miss
  <2>3. asked' \in [Callers -> Keys \cup {NoKey}]
    BY AskedType DEF Inv, Accounts, Miss
  <2> QED
    BY <2>1, <2>2, <2>3, CallersFinite
       DEF Inv, Accounts, Miss, LimitIsKept, CountersAddUp
<1>2. Contents'
  <2>1. Cache /\ stored' = stored
    BY DEF Inv, Contents, Miss
  <2>2. CASE UNCHANGED <<entries, recency>>
    BY <2>1, <2>2 DEF Contents, Cache, Inv, Accounts
  <2>3. CASE \E i \in Places(k) : entries' = Without(entries, i) /\ UNCHANGED recency
    <3>1. Cache'
      BY <2>1, <2>3, Forgetting DEF Places
    <3> QED
      BY <2>1, <2>3, <3>1 DEF Contents, Inv, Accounts, Cache
  <2>4. CASE \E i \in Places(k) : Touch(i) /\ Used(k)
    <3>1. Cache'
      BY <2>1, <2>4, Touching DEF Places
    <3>2. recency' \in Seq(Keys)
      BY <2>4, UsedType DEF Inv, Accounts, Contents, Cache
    <3> QED
      BY <2>1, <3>1, <3>2 DEF Contents, Inv, Accounts, Cache
  <2> QED
    BY <2>2, <2>3, <2>4 DEF Miss
<1> QED
  BY <1>1, <1>2 DEF Inv

(* A step that leaves the cache and its history alone.                     *)
LEMMA CacheStands == ASSUME Inv, UNCHANGED entry PROVE Contents'
<1>1. Contents /\ entries' = entries /\ stored' = stored /\ recency' = recency
  BY DEF Inv, entry
<1> QED
  BY <1>1 DEF Contents, Cache

LEMMA RunInv == ASSUME Inv, NEW c \in Callers, Run(c) PROVE Inv'
<1>1. /\ Cardinality(Waiting') = Cardinality(Waiting) + 1
      /\ Cardinality(Working') = Cardinality(Working)
  BY Counted, InvType DEF Inv, Run
<1>2. pc' \in [Callers -> {"idle", "waiting", "working"}]
  BY Moving, InvType DEF Inv, Run
<1>3. asked' \in [Callers -> Keys \cup {NoKey}]
  BY AskedType DEF Inv, Accounts, Contents, Cache, Run
<1>4. Accounts'
  BY <1>1, <1>2, <1>3, CallersFinite
     DEF Inv, Accounts, Run, LimitIsKept, CountersAddUp
<1> QED
  BY <1>4, CacheStands DEF Inv, Run

LEMMA BeginInv == ASSUME Inv, NEW c \in Callers, Begin(c) PROVE Inv'
<1>1. /\ Cardinality(Waiting') = Cardinality(Waiting) - 1
      /\ Cardinality(Working') = Cardinality(Working) + 1
  BY Counted, InvType DEF Inv, Begin
<1>2. pc' \in [Callers -> {"idle", "waiting", "working"}]
  BY Moving, InvType DEF Inv, Begin
<1>3. Accounts'
  BY <1>1, <1>2, CallersFinite, CacheAssumption
     DEF Inv, Accounts, Begin, counters, LimitIsKept, CountersAddUp
<1> QED
  BY <1>3, CacheStands DEF Inv, Begin

(* The end of an operation: `finally`, and one counter.                    *)
LEMMA Leaving ==
    ASSUME Inv, NEW c \in Callers, pc[c] = "working", Leave(c),
           UNCHANGED <<hits, misses, calls>>,
           \/ completed' = completed + 1 /\ UNCHANGED <<failed, cancelled>>
           \/ failed' = failed + 1 /\ UNCHANGED <<completed, cancelled>>
           \/ cancelled' = cancelled + 1 /\ UNCHANGED <<completed, failed>>
    PROVE  Accounts'
<1>1. /\ Cardinality(Waiting') = Cardinality(Waiting)
      /\ Cardinality(Working') = Cardinality(Working) - 1
  BY Counted, InvType DEF Inv, Leave
<1>2. pc' \in [Callers -> {"idle", "waiting", "working"}]
  BY Moving, InvType DEF Inv, Leave
<1>3. c \in Working
  BY DEF Working
<1>4. Cardinality(Working) # 0
  BY <1>3, CallersFinite, FS_EmptySet
<1> QED
  BY <1>1, <1>2, <1>4, CallersFinite, CacheAssumption
     DEF Inv, Accounts, Leave, LimitIsKept, CountersAddUp

LEMMA SucceedsInv == ASSUME Inv, NEW c \in Callers, Succeeds(c) PROVE Inv'
<1>1. Accounts'
  BY Leaving DEF Succeeds
<1>2. Contents'
  <2>1. CASE UNCHANGED entry
    BY <2>1, CacheStands
  <2>2. CASE asked[c] # NoKey /\ \E v \in Results : Put(asked[c], v)
    <3>1. asked[c] \in Keys
      BY <2>2 DEF Inv, Accounts, Contents, Cache
    <3>2. Cache' /\ stored' \in [Keys -> [age : 0 .. TTL, value : Results]]
      BY <2>2, <3>1, Putting DEF Inv, Contents
    <3>3. recency' \in Seq(Keys)
      BY <2>2, <3>1, UsedType DEF Put, Inv, Accounts, Cache, Contents
    <3> QED
      BY <3>2, <3>3 DEF Contents
  <2> QED
    BY <2>1, <2>2 DEF Succeeds
<1> QED
  BY <1>1, <1>2 DEF Inv

LEMMA FailsInv == ASSUME Inv, NEW c \in Callers, Fails(c) PROVE Inv'
<1>1. Accounts'
  BY Leaving DEF Fails
<1> QED
  BY <1>1, CacheStands DEF Inv, Fails

LEMMA CancelInv == ASSUME Inv, NEW c \in Callers, Cancel(c) PROVE Inv'
<1>1. CASE pc[c] = "working" /\ Leave(c)
  <2>1. Accounts'
    BY <1>1, Leaving DEF Cancel
  <2> QED
    BY <2>1, CacheStands DEF Inv, Cancel
<1>2. CASE /\ pc[c] = "waiting" /\ pc' = [pc EXCEPT ![c] = "idle"]
           /\ UNCHANGED <<asked, permits, active, peak>>
  <2>1. /\ Cardinality(Waiting') = Cardinality(Waiting) - 1
        /\ Cardinality(Working') = Cardinality(Working)
    BY <1>2, Counted, InvType
  <2>2. pc' \in [Callers -> {"idle", "waiting", "working"}]
    BY <1>2, Moving, InvType
  <2>3. Accounts'
    BY <1>2, <2>1, <2>2, CallersFinite
       DEF Inv, Accounts, Cancel, LimitIsKept, CountersAddUp
  <2> QED
    BY <2>3, CacheStands DEF Inv, Cancel
<1> QED
  BY <1>1, <1>2 DEF Cancel

LEMMA TickInv == ASSUME Inv, Tick PROVE Inv'
<1>1. Accounts'
  BY Standing DEF Inv, Accounts, Tick, counters, LimitIsKept, CountersAddUp
<1>2. \A a \in 0 .. TTL : Older(a) \in 0 .. TTL
  BY ManyEntries DEF Older
<1>3. /\ stored' \in [Keys -> [age : 0 .. TTL, value : Results]]
      /\ \A k \in Keys : stored'[k] = [age |-> Older(stored[k].age), value |-> stored[k].value]
  BY <1>2 DEF Tick, Inv, Accounts, Cache, Contents
<1>4. Len(entries) \in Nat /\ \A i \in 1 .. Len(entries) : entries[i] \in Entry
  BY DEF Inv, Accounts, Contents, Cache
<1> DEFINE Aged(i) == [entries[i] EXCEPT !.age = Older(@)]
<1>5. \A i \in 1 .. Len(entries) :
          /\ Aged(i) \in Entry
          /\ Aged(i).key = entries[i].key /\ Aged(i).value = entries[i].value
          /\ Aged(i).age = Older(entries[i].age)
  BY <1>2, <1>4 DEF Entry
<1>6. entries' = [i \in 1 .. Len(entries) |-> Aged(i)]
  BY DEF Tick, Inv, Accounts, Cache, Contents
<1> HIDE DEF Aged
<1>7. /\ entries' \in Seq(Entry) /\ Len(entries') = Len(entries)
      /\ \A i \in 1 .. Len(entries) : entries'[i] = Aged(i)
  BY <1>4, <1>5, <1>6
<1>8. Faithful(entries, stored) /\ Len(entries) <= MaxEntries
  BY DEF Inv, Contents, Cache
<1>9. \A i \in 1 .. Len(entries) :
          stored'[entries[i].key] = [age |-> Older(entries[i].age), value |-> entries[i].value]
  <2> TAKE i \in 1 .. Len(entries)
  <2>1. entries[i].key \in Keys
    BY <1>4, EntryKeys
  <2>2. stored[entries[i].key] = [age |-> entries[i].age, value |-> entries[i].value]
    BY <1>8 DEF Faithful
  <2>3. stored[entries[i].key].age = entries[i].age /\ stored[entries[i].key].value = entries[i].value
    BY <2>2
  <2> QED
    BY <1>3, <2>1, <2>3
<1>10. Faithful(entries', stored')
  BY <1>5, <1>7, <1>8, <1>9 DEF Faithful
<1>11. Contents'
  BY <1>3, <1>7, <1>8, <1>10 DEF Contents, Cache, Tick, Inv, Accounts
<1> QED
  BY <1>1, <1>11 DEF Inv

LEMMA InvStep == ASSUME Inv, [Next]_vars PROVE Inv'
<1>1. CASE UNCHANGED vars
  <2>1. Contents'
    BY <1>1, CacheStands DEF vars, entry
  <2>2. Accounts'
    BY <1>1, Standing DEF vars, Inv, Accounts, LimitIsKept, CountersAddUp
  <2> QED
    BY <2>1, <2>2 DEF Inv
<1> QED
  BY <1>1, HitInv, MissInv, RunInv, BeginInv, SucceedsInv, FailsInv, CancelInv, TickInv DEF Next

LEMMA InvHolds == Spec => []Inv
<1> QED
  BY InitInv, InvStep, PTL DEF Spec

(* Types are kept.                                                         *)
THEOREM TypeCorrect == Spec => []TypeOK
<1>1. Inv => TypeOK
  BY InvType
<1> QED
  BY <1>1, InvHolds, PTL

(* The semaphore of the controller bounds its operations, and gets every   *)
(* permit back from an operation that returns, raises or is cancelled.     *)
THEOREM LimitKept == Spec => []LimitIsKept
<1>1. Inv => LimitIsKept
  BY DEF Inv, Accounts
<1> QED
  BY <1>1, InvHolds, PTL

(* The calls that wait for a permit never all wait for each other: while a *)
(* call has not ended, an operation is at work or a permit can be had.     *)
THEOREM SomeCallCanGoOn ==
    Spec => []((\E c \in Callers : pc[c] # "idle") =>
                   \E c \in Callers : pc[c] = "working" \/ (pc[c] = "waiting" /\ permits > 0))
<1>1. ASSUME TypeOK, LimitIsKept, NEW c \in Callers, pc[c] # "idle"
      PROVE  \E d \in Callers : pc[d] = "working" \/ (pc[d] = "waiting" /\ permits > 0)
  <2>1. CASE pc[c] = "working" \/ permits > 0
    BY <1>1, <2>1 DEF TypeOK
  <2>2. CASE ~(permits > 0)
    <3>1. Cardinality(Working) # 0
      BY <1>1, <2>2, CacheAssumption DEF LimitIsKept, TypeOK
    <3>2. PICK d \in Working : TRUE
      BY <3>1, FS_EmptySet
    <3> QED
      BY <3>2 DEF Working
  <2> QED
    BY <2>1, <2>2
<1>2. TypeOK /\ LimitIsKept =>
          ((\E c \in Callers : pc[c] # "idle") =>
               \E c \in Callers : pc[c] = "working" \/ (pc[c] = "waiting" /\ permits > 0))
  BY <1>1
<1> QED
  BY <1>2, TypeCorrect, LimitKept, PTL

(* The counters of the snapshot account for every call.                    *)
THEOREM CountersRight == Spec => []CountersAddUp
<1>1. Inv => CountersAddUp
  BY DEF Inv, Accounts
<1> QED
  BY <1>1, InvHolds, PTL

(* The cache has at most MaxEntries entries, one for a key.                *)
THEOREM CacheBounded == Spec => []CacheIsBounded
<1>1. Inv => CacheIsBounded
  BY FaithfulEntries DEF Inv, Contents, Cache
<1> QED
  BY <1>1, InvHolds, PTL

(* An entry is the last result stored for its key, and of its age.         *)
THEOREM EntriesRight == Spec => []EntriesAreLastResults
<1>1. Inv => EntriesAreLastResults
  BY FaithfulEntries DEF Inv, Contents, Cache
<1> QED
  BY <1>1, InvHolds, PTL

-----------------------------------------------------------------------------
(* What is forgotten.  The cache is a part of the history of use, in its   *)
(* order: so all entries behind the first, and the key that takes its      *)
(* place, were used after it.                                              *)
Seen == {recency[j] : j \in 1 .. Len(recency)}

KeysOf(s) == {s[j].key : j \in 1 .. Len(s)}

NoRepeats == \A i, j \in 1 .. Len(recency) : recency[i] = recency[j] => i = j

InOrder(s) ==
    \A i \in 1 .. Len(s) :
        /\ s[i].key \in Seen
        /\ \A j \in 1 .. Len(s) : i < j => s[j].key \in UsedSince(s[i].key)

Remembered ==
    /\ NoRepeats
    /\ InOrder(entries)
    /\ ForgottenOnlyWhenFull

LEMMA Since ==
    ASSUME recency \in Seq(Keys), NEW a, NEW b
    PROVE  b \in UsedSince(a) <=>
               \E i, j \in 1 .. Len(recency) : i < j /\ recency[i] = a /\ recency[j] = b
BY DEF UsedSince

LEMMA SinceFinite ==
    ASSUME recency \in Seq(Keys), NEW a
    PROVE  IsFiniteSet(UsedSince(a)) /\ Cardinality(UsedSince(a)) \in Nat
<1>1. recency \in Surjection(1 .. Len(recency), Seen)
  BY DEF Seen, Surjection
<1>2. IsFiniteSet(Seen)
  BY <1>1, FS_Surjection, FS_Interval
<1>3. UsedSince(a) \subseteq Seen
  BY Since DEF Seen
<1> QED
  BY <1>2, <1>3, FS_Subset, FS_CardinalityType

(* A use puts a key behind all others, whose order stays.                  *)
LEMMA Using ==
    ASSUME recency \in Seq(Keys), NoRepeats, NEW k \in Keys, Used(k)
    PROVE  /\ recency' \in Seq(Keys) /\ NoRepeats'
           /\ Seen' = Seen \cup {k}
           /\ \A a \in Seen : a # k => UsedSince(a) \cup {k} \subseteq UsedSince(a)'
<1> DEFINE n == Len(recency)
<1>1. PICK w \in Seq(Keys) : \E P \in [1 .. Len(w) -> 1 .. n] :
          /\ recency' = Append(w, k)
          /\ \A i \in 1 .. Len(w) : w[i] = recency[P[i]] /\ w[i] # k
          /\ \A i, j \in 1 .. Len(w) : i < j => P[i] < P[j]
          /\ \A l \in 1 .. n : recency[l] # k => \E i \in 1 .. Len(w) : P[i] = l
  <2>1. CASE \E i \in DOMAIN recency : recency[i] = k
    <3> DEFINE i == CHOOSE i \in DOMAIN recency : recency[i] = k
               w == Without(recency, i)
               P == [j \in 1 .. n - 1 |-> IF j < i THEN j ELSE j + 1]
    <3>1. i \in 1 .. n /\ recency[i] = k /\ recency' = Append(w, k)
      BY <2>1 DEF Used
    <3>2. /\ w \in Seq(Keys) /\ Len(w) = n - 1
          /\ \A j \in 1 .. n - 1 : w[j] = recency[IF j < i THEN j ELSE j + 1]
      BY <3>1, Removed
    <3> HIDE DEF i, w
    <3>3. n \in Nat /\ n >= 1
      BY <3>1
    <3>4. P \in [1 .. n - 1 -> 1 .. n]
      BY <3>1, <3>3
    <3>5. \A j \in 1 .. n - 1 : w[j] = recency[P[j]] /\ P[j] # i
      BY <3>1, <3>2, <3>3
    <3>6. \A j, l \in 1 .. n - 1 : j < l => P[j] < P[l]
      BY <3>1, <3>3
    <3>7. ASSUME NEW l \in 1 .. n, recency[l] # k
          PROVE  \E j \in 1 .. n - 1 : P[j] = l
      <4>1. l # i
        BY <3>1, <3>7
      <4>2. CASE l < i
        <5>1. l \in 1 .. n - 1 /\ P[l] = l
          BY <3>1, <3>3, <4>2
        <5> QED
          BY <5>1
      <4>3. CASE l > i
        <5>1. l - 1 \in 1 .. n - 1 /\ P[l - 1] = l
          BY <3>1, <3>3, <4>3
        <5> QED
          BY <5>1
      <4> QED
        BY <3>1, <4>1, <4>2, <4>3
    <3>8. \A j \in 1 .. n - 1 : w[j] # k
      BY <3>1, <3>4, <3>5 DEF NoRepeats
    <3> HIDE DEF P, n
    <3>9. /\ P \in [1 .. Len(w) -> 1 .. n]
          /\ recency' = Append(w, k)
          /\ \A j \in 1 .. Len(w) : w[j] = recency[P[j]] /\ w[j] # k
          /\ \A j, l \in 1 .. Len(w) : j < l => P[j] < P[l]
          /\ \A l \in 1 .. n : recency[l] # k => \E j \in 1 .. Len(w) : P[j] = l
      <4>1. 1 .. Len(w) = 1 .. n - 1
        BY <3>2
      <4> QED
        BY <4>1, <3>1, <3>2, <3>4, <3>5, <3>6, <3>7, <3>8
    <3> QED
      BY <3>2, <3>9
  <2>2. CASE ~ \E i \in DOMAIN recency : recency[i] = k
    <3> DEFINE P == [j \in 1 .. n |-> j]
    <3>1. recency' = Append(recency, k) /\ \A j \in 1 .. n : recency[j] # k
      BY <2>2 DEF Used
    <3>2. /\ P \in [1 .. n -> 1 .. n]
          /\ \A j \in 1 .. n : P[j] = j
      OBVIOUS
    <3> HIDE DEF P
    <3> QED
      BY <3>1, <3>2
  <2> QED
    BY <2>1, <2>2
<1>2. PICK P \in [1 .. Len(w) -> 1 .. n] :
          /\ recency' = Append(w, k)
          /\ \A i \in 1 .. Len(w) : w[i] = recency[P[i]] /\ w[i] # k
          /\ \A i, j \in 1 .. Len(w) : i < j => P[i] < P[j]
          /\ \A l \in 1 .. n : recency[l] # k => \E i \in 1 .. Len(w) : P[i] = l
  BY <1>1
<1>3. /\ recency' \in Seq(Keys) /\ Len(recency') = Len(w) + 1 /\ Len(w) \in Nat /\ n \in Nat
      /\ \A i \in 1 .. Len(w) : recency'[i] = w[i]
      /\ recency'[Len(w) + 1] = k
  BY <1>2
<1> HIDE DEF n
<1>4. \A i \in 1 .. Len(recency') : i \in 1 .. Len(w) \/ i = Len(w) + 1
  BY <1>3
<1>5. \A i, j \in 1 .. Len(w) : w[i] = w[j] => i = j
  <2>1. ASSUME NEW i \in 1 .. Len(w), NEW j \in 1 .. Len(w), w[i] = w[j], i # j
        PROVE  FALSE
    <3>1. P[i] = P[j]
      BY <1>2, <2>1 DEF NoRepeats, n
    <3>2. P[i] < P[j] \/ P[j] < P[i]
      BY <1>2, <1>3, <2>1
    <3>3. P[i] \in Nat /\ P[j] \in Nat
      <4>1. P[i] \in 1 .. n /\ P[j] \in 1 .. n
        OBVIOUS
      <4> QED
        BY <1>3, <4>1
    <3> QED
      BY <3>1, <3>2, <3>3
  <2> QED
    BY <2>1
<1>6. NoRepeats'
  BY <1>2, <1>3, <1>4, <1>5 DEF NoRepeats
<1>7. Seen' = Seen \cup {k}
  <2>1. ASSUME NEW a \in Seen'
        PROVE  a \in Seen \cup {k}
    <3>1. PICK i \in 1 .. Len(recency') : a = recency'[i]
      BY DEF Seen
    <3>2. CASE i = Len(w) + 1
      BY <1>3, <3>1, <3>2
    <3>3. CASE i \in 1 .. Len(w)
      <4>1. a = recency[P[i]] /\ P[i] \in 1 .. n
        BY <1>2, <1>3, <3>1, <3>3
      <4> QED
        BY <4>1 DEF Seen, n
    <3> QED
      BY <1>4, <3>2, <3>3
  <2>2. ASSUME NEW a \in Seen, a # k
        PROVE  a \in Seen'
    <3>1. PICK l \in 1 .. n : a = recency[l]
      BY DEF Seen, n
    <3>2. PICK i \in 1 .. Len(w) : P[i] = l
      BY <1>2, <2>2, <3>1
    <3>3. recency'[i] = a /\ i \in 1 .. Len(recency')
      BY <1>2, <1>3, <3>1, <3>2
    <3> QED
      BY <3>3 DEF Seen
  <2>3. k \in Seen'
    <3>1. Len(w) + 1 \in 1 .. Len(recency')
      BY <1>3
    <3> QED
      BY <1>3, <3>1 DEF Seen
  <2> QED
    BY <2>1, <2>2, <2>3
<1>8. ASSUME NEW a \in Seen, a # k
      PROVE  UsedSince(a) \cup {k} \subseteq UsedSince(a)'
  <2>1. PICK l \in 1 .. n : a = recency[l]
    BY DEF Seen, n
  <2>2. PICK i \in 1 .. Len(w) : P[i] = l
    BY <1>2, <1>8, <2>1
  <2>3. recency'[i] = a /\ i \in 1 .. Len(recency')
    BY <1>2, <1>3, <2>1, <2>2
  <2>4. Len(w) + 1 \in 1 .. Len(recency') /\ i < Len(w) + 1
    BY <1>3
  <2>5. k \in UsedSince(a)'
    BY <1>3, <2>3, <2>4 DEF UsedSince
  <2>6. ASSUME NEW b \in UsedSince(a), b # k
        PROVE  b \in UsedSince(a)'
    <3>1. PICK h, m \in 1 .. n : h < m /\ recency[h] = a /\ recency[m] = b
      BY Since DEF n
    <3>2. h = l
      BY <2>1, <3>1 DEF NoRepeats, n
    <3>3. PICK j \in 1 .. Len(w) : P[j] = m
      BY <1>2, <2>6, <3>1
    <3>4. i < j
      <4>1. P[i] < P[j]
        BY <2>2, <3>1, <3>2, <3>3
      <4>2. P[i] \in Nat /\ P[j] \in Nat /\ ~(P[j] < P[i]) /\ P[i] # P[j]
        BY <1>3, <4>1
      <4> QED
        BY <1>2, <1>3, <4>2
    <3>5. recency'[j] = b /\ j \in 1 .. Len(recency')
      BY <1>2, <1>3, <3>1, <3>3
    <3> QED
      BY <2>3, <3>4, <3>5 DEF UsedSince
  <2> QED
    BY <2>5, <2>6
<1> QED
  BY <1>3, <1>6, <1>7, <1>8

(* What an entry less, and an entry more at the end, means for the order   *)
(* and the keys of the cache.                                              *)
LEMMA OrderWithout ==
    ASSUME NEW s \in Seq(Entry), NEW last, Faithful(s, last), InOrder(s), NEW i \in 1 .. Len(s)
    PROVE  /\ InOrder(Without(s, i))
           /\ KeysOf(Without(s, i)) = KeysOf(s) \ {s[i].key}
<1> DEFINE w    == Without(s, i)
           P(j) == IF j < i THEN j ELSE j + 1
<1>1. /\ Len(w) = Len(s) - 1 /\ Len(s) \in Nat
      /\ \A j \in 1 .. Len(s) - 1 : w[j] = s[P(j)]
  <2>1. Len(w) = Len(s) - 1 /\ \A j \in 1 .. Len(s) - 1 : w[j] = s[IF j < i THEN j ELSE j + 1]
    BY Removed
  <2> QED
    BY <2>1
<1>2. \A j \in 1 .. Len(w) : w[j] = s[P(j)] /\ P(j) \in 1 .. Len(s) /\ P(j) # i
  BY <1>1
<1>3. \A j, l \in 1 .. Len(w) : j < l => P(j) < P(l)
  BY <1>1
<1>4. ASSUME NEW l \in 1 .. Len(s), l # i
      PROVE  \E j \in 1 .. Len(w) : P(j) = l
  <2>1. CASE l < i
    <3>1. l \in 1 .. Len(w) /\ P(l) = l
      BY <1>1, <2>1
    <3> QED
      BY <3>1
  <2>2. CASE l > i
    <3>1. l - 1 \in 1 .. Len(w) /\ P(l - 1) = l
      BY <1>1, <2>2
    <3> QED
      BY <3>1
  <2> QED
    BY <1>1, <1>4, <2>1, <2>2
<1>5. \A j \in 1 .. Len(w) : w[j].key # s[i].key
  BY FaithfulWithout DEF w
<1> HIDE DEF w, P
<1>6. InOrder(w)
  BY <1>2, <1>3 DEF InOrder
<1>7. KeysOf(w) = KeysOf(s) \ {s[i].key}
  <2>1. \A j \in 1 .. Len(w) : w[j].key \in KeysOf(s) \ {s[i].key}
    BY <1>2, <1>5 DEF KeysOf
  <2>2. ASSUME NEW a \in KeysOf(s), a # s[i].key
        PROVE  a \in KeysOf(w)
    <3>1. PICK l \in 1 .. Len(s) : a = s[l].key
      BY DEF KeysOf
    <3>2. PICK j \in 1 .. Len(w) : P(j) = l
      BY <1>4, <2>2, <3>1
    <3> QED
      BY <1>2, <3>1, <3>2 DEF KeysOf
  <2> QED
    BY <2>1, <2>2 DEF KeysOf
<1> QED
  BY <1>6, <1>7 DEF w

LEMMA OrderAppend ==
    ASSUME recency \in Seq(Keys), NoRepeats,
           NEW s \in Seq(Entry), InOrder(s), NEW e \in Entry, Used(e.key), e.key \notin KeysOf(s),
           entries' = Append(s, e)
    PROVE  /\ InOrder(entries)'
           /\ KeysOf(entries') = KeysOf(s) \cup {e.key}
<1> DEFINE t == Append(s, e)
<1>1. /\ Len(t) = Len(s) + 1 /\ Len(s) \in Nat
      /\ \A i \in 1 .. Len(s) : t[i] = s[i]
      /\ t[Len(s) + 1] = e
  OBVIOUS
<1> HIDE DEF t
<1>2. \A i \in 1 .. Len(t) : i \in 1 .. Len(s) \/ i = Len(s) + 1
  BY <1>1
<1>3. /\ Seen' = Seen \cup {e.key}
      /\ \A a \in Seen : a # e.key => UsedSince(a) \cup {e.key} \subseteq UsedSince(a)'
  BY EntryKeys, Using
<1>4. \A i \in 1 .. Len(s) : s[i].key # e.key
  BY DEF KeysOf
<1>5. ASSUME NEW i \in 1 .. Len(t)
      PROVE  /\ t[i].key \in Seen'
             /\ \A j \in 1 .. Len(t) : i < j => t[j].key \in UsedSince(t[i].key)'
  <2>1. CASE i = Len(s) + 1
    <3>1. \A j \in 1 .. Len(t) : ~(i < j)
      BY <1>1, <2>1
    <3> QED
      BY <1>1, <1>3, <2>1, <3>1
  <2>2. CASE i \in 1 .. Len(s)
    <3>1. t[i] = s[i] /\ s[i].key \in Seen /\ s[i].key # e.key
      BY <1>1, <1>4, <2>2 DEF InOrder
    <3>2. ASSUME NEW j \in 1 .. Len(t), i < j
          PROVE  t[j].key \in UsedSince(t[i].key)'
      <4>1. CASE j = Len(s) + 1
        BY <1>1, <1>3, <3>1, <4>1
      <4>2. CASE j \in 1 .. Len(s)
        <5>1. t[j] = s[j] /\ s[j].key \in UsedSince(s[i].key)
          BY <1>1, <2>2, <3>2, <4>2 DEF InOrder
        <5> QED
          BY <1>3, <3>1, <5>1
      <4> QED
        BY <1>2, <4>1, <4>2
    <3> QED
      BY <1>3, <3>1, <3>2
  <2> QED
    BY <1>2, <2>1, <2>2
<1>6. InOrder(entries)'
  BY <1>5 DEF InOrder, t
<1>7. KeysOf(t) = KeysOf(s) \cup {e.key}
  <2>1. Len(s) + 1 \in 1 .. Len(t)
    BY <1>1
  <2>2. \A i \in 1 .. Len(s) : i \in 1 .. Len(t)
    BY <1>1
  <2>3. KeysOf(s) \cup {e.key} \subseteq KeysOf(t)
    BY <1>1, <2>1, <2>2 DEF KeysOf
  <2>4. KeysOf(t) \subseteq KeysOf(s) \cup {e.key}
    BY <1>1, <1>2 DEF KeysOf
  <2> QED
    BY <2>3, <2>4
<1> QED
  BY <1>6, <1>7 DEF t

LEMMA PlacesAndKeys ==
    ASSUME entries \in Seq(Entry), NEW k
    PROVE  Places(k) = {} <=> k \notin KeysOf(entries)
BY DEF Places, KeysOf

(* A use changes what is forgotten only by what leaves the cache.          *)
LEMMA UseForgets ==
    ASSUME recency \in Seq(Keys), NoRepeats, ForgottenOnlyWhenFull, NEW k \in Keys, Used(k),
           entries \in Seq(Entry), entries' \in Seq(Entry),
           \A l \in Keys : l # k => stored'[l] = stored[l],
           k \in KeysOf(entries'),
           \A l \in KeysOf(entries) : l \notin KeysOf(entries') =>
               Cardinality(UsedSince(l)') >= MaxEntries
    PROVE  ForgottenOnlyWhenFull'
<1>1. SUFFICES ASSUME NEW l \in Keys, stored'[l].age < TTL, l \notin KeysOf(entries')
               PROVE  Cardinality(UsedSince(l)') >= MaxEntries
  <2>1. \A l \in Keys : Places(l)' = {} <=> l \notin KeysOf(entries')
    BY DEF Places, KeysOf
  <2> QED
    BY <1>1, <2>1 DEF ForgottenOnlyWhenFull
<1>2. l # k /\ stored[l].age < TTL
  BY <1>1
<1>3. CASE l \in KeysOf(entries)
  BY <1>1, <1>3
<1>4. CASE l \notin KeysOf(entries)
  <2>1. Cardinality(UsedSince(l)) >= MaxEntries
    BY <1>2, <1>4, PlacesAndKeys DEF ForgottenOnlyWhenFull
  <2>2. UsedSince(l) # {}
    <3>1. Cardinality(UsedSince(l)) # 0
      BY <2>1, SinceFinite, ManyEntries
    <3> QED
      BY <3>1, FS_EmptySet
  <2>3. l \in Seen
    BY <2>2, Since DEF Seen
  <2>4. UsedSince(l) \subseteq UsedSince(l)' /\ recency' \in Seq(Keys)
    BY <1>2, <2>3, Using
  <2>5. IsFiniteSet(UsedSince(l)')
    <3>1. recency' \in Surjection(1 .. Len(recency'), Seen')
      BY <2>4 DEF Seen, Surjection
    <3>2. IsFiniteSet(Seen')
      BY <2>4, <3>1, FS_Surjection, FS_Interval
    <3>3. UsedSince(l)' \subseteq Seen'
      BY <2>4 DEF UsedSince, Seen
    <3> QED
      BY <3>2, <3>3, FS_Subset
  <2>6. Cardinality(UsedSince(l)) <= Cardinality(UsedSince(l)')
    BY <2>4, <2>5, FS_Subset
  <2> QED
    BY <2>1, <2>4, <2>5, <2>6, SinceFinite, FS_CardinalityType, ManyEntries
<1> QED
  BY <1>3, <1>4

(* The three things a step can do to the cache and its history.            *)
LEMMA TouchRemembered ==
    ASSUME Contents, Remembered, NEW i \in DOMAIN entries, Touch(i), Used(entries[i].key),
           UNCHANGED stored
    PROVE  Remembered'
<1>1. /\ i \in 1 .. Len(entries) /\ entries \in Seq(Entry) /\ Faithful(entries, stored)
      /\ recency \in Seq(Keys)
  BY DEF Contents, Cache
<1>2. PICK e \in Entry : e = entries[i] /\ e.key \in Keys
  BY <1>1, EntryKeys
<1>3. PICK w \in Seq(Entry) : w = Without(entries, i)
  BY <1>1, Removed
<1>4. InOrder(w) /\ KeysOf(w) = KeysOf(entries) \ {e.key}
  BY <1>1, <1>2, <1>3, OrderWithout DEF Remembered
<1>5. entries' = Append(w, e) /\ Used(e.key) /\ entries' \in Seq(Entry)
  BY <1>2, <1>3 DEF Touch
<1>6. InOrder(entries)' /\ KeysOf(entries') = KeysOf(w) \cup {e.key}
  BY <1>1, <1>4, <1>5, OrderAppend DEF Remembered
<1>7. NoRepeats'
  BY <1>1, <1>2, <1>5, Using DEF Remembered
<1>8. \A l \in KeysOf(entries) : l \in KeysOf(entries')
  BY <1>4, <1>6
<1>9. ForgottenOnlyWhenFull'
  BY <1>1, <1>2, <1>5, <1>6, <1>8, UseForgets DEF Remembered
<1> QED
  BY <1>6, <1>7, <1>9 DEF Remembered

LEMMA ForgetRemembered ==
    ASSUME Contents, Remembered, NEW i \in DOMAIN entries, ~Live(i),
           entries' = Without(entries, i), UNCHANGED <<stored, recency>>
    PROVE  Remembered'
<1>1. /\ i \in 1 .. Len(entries) /\ entries \in Seq(Entry) /\ Faithful(entries, stored)
      /\ recency \in Seq(Keys)
  BY DEF Contents, Cache
<1>3. stored[entries[i].key].age = entries[i].age
  <2>1. stored[entries[i].key] = [age |-> entries[i].age, value |-> entries[i].value]
    BY <1>1 DEF Faithful
  <2> QED
    BY <2>1
<1>4. ~(stored[entries[i].key].age < TTL)
  BY <1>3 DEF Live
<1>5. /\ InOrder(Without(entries, i))
      /\ KeysOf(Without(entries, i)) = KeysOf(entries) \ {entries[i].key}
  BY <1>1, OrderWithout DEF Remembered
<1>6. recency' = recency /\ stored' = stored /\ entries' \in Seq(Entry)
  BY <1>1, Removed
<1>7. InOrder(entries)'
  BY <1>5, <1>6 DEF InOrder, Seen, UsedSince
<1>8. NoRepeats'
  BY <1>6 DEF Remembered, NoRepeats
<1>9. ForgottenOnlyWhenFull'
  <2>1. \A k \in Keys : Places(k)' = {} <=> k \notin KeysOf(entries')
    BY <1>6 DEF Places, KeysOf
  <2>2. \A k : UsedSince(k)' = UsedSince(k)
    BY <1>6 DEF UsedSince
  <2>3. \A k \in Keys : stored'[k].age < TTL /\ k \notin KeysOf(entries') => k \notin KeysOf(entries)
    BY <1>4, <1>5, <1>6
  <2>4. \A k \in Keys : stored[k].age < TTL /\ k \notin KeysOf(entries) =>
                            Cardinality(UsedSince(k)) >= MaxEntries
    BY <1>1, PlacesAndKeys DEF Remembered, ForgottenOnlyWhenFull
  <2> QED
    BY <1>6, <2>1, <2>2, <2>3, <2>4 DEF ForgottenOnlyWhenFull
<1> QED
  BY <1>7, <1>8, <1>9 DEF Remembered

(* All the entries of a full cache are keys used after the one that had to *)
(* make room.                                                              *)
LEMMA MakingRoom ==
    ASSUME entries' \in Seq(Entry), Len(entries') = MaxEntries, recency' \in Seq(Keys),
           \A i, j \in 1 .. Len(entries') : entries'[i].key = entries'[j].key => i = j,
           NEW l, KeysOf(entries') \subseteq UsedSince(l)'
    PROVE  Cardinality(UsedSince(l)') >= MaxEntries
<1> DEFINE U == UsedSince(l)'
           f == [j \in 1 .. MaxEntries |-> entries'[j].key]
<1>1. IsFiniteSet(U)
  <2>1. recency' \in Surjection(1 .. Len(recency'), Seen')
    BY DEF Seen, Surjection
  <2>2. IsFiniteSet(Seen')
    BY <2>1, FS_Surjection, FS_Interval
  <2>3. UsedSince(l)' \subseteq Seen'
    BY DEF UsedSince, Seen
  <2> QED
    BY <2>2, <2>3, FS_Subset
<1>2. \A j \in 1 .. MaxEntries : entries'[j].key \in U
  BY DEF KeysOf
<1>3. f \in Injection(1 .. MaxEntries, U)
  <2>1. \A i, j \in 1 .. MaxEntries : entries'[i].key = entries'[j].key => i = j
    OBVIOUS
  <2>2. f \in [1 .. MaxEntries -> U]
    BY <1>2
  <2>3. \A j \in 1 .. MaxEntries : f[j] = entries'[j].key
    OBVIOUS
  <2> HIDE DEF f, U
  <2> QED
    BY <2>1, <2>2, <2>3 DEF Injection, IsInjective
<1>4. Cardinality(1 .. MaxEntries) = MaxEntries
  BY ManyEntries, FS_Interval
<1> HIDE DEF f, U
<1>5. Cardinality(1 .. MaxEntries) <= Cardinality(U)
  BY <1>1, <1>3, FS_Injection
<1>6. Cardinality(U) \in Nat
  BY <1>1, FS_CardinalityType
<1> QED
  BY <1>4, <1>5, <1>6, ManyEntries DEF U

LEMMA PutRemembered ==
    ASSUME Contents, Remembered, NEW k \in Keys, NEW v \in Results, Put(k, v)
    PROVE  Remembered'
<1>1. /\ entries \in Seq(Entry) /\ Faithful(entries, stored) /\ recency \in Seq(Keys)
      /\ Len(entries) <= MaxEntries /\ Used(k)
      /\ stored \in [Keys -> [age : 0 .. TTL, value : Results]]
  BY DEF Contents, Cache, Put
<1>2. PICK e \in Entry : e = [key |-> k, age |-> 0, value |-> v] /\ e.key = k
  <2>1. [key |-> k, age |-> 0, value |-> v] \in Entry
    BY ManyEntries DEF Entry
  <2> QED
    BY <2>1
<1>3. \A l \in Keys : l # k => stored'[l] = stored[l]
  BY <1>1 DEF Put
<1>4. /\ recency' \in Seq(Keys) /\ NoRepeats'
      /\ \A a \in Seen : a # k => UsedSince(a) \cup {k} \subseteq UsedSince(a)'
  BY <1>1, Using DEF Remembered
<1>5. Cache'
  BY <1>1, Putting DEF Contents
<1>6. CASE \E i \in Places(k) : entries' = Append(Without(entries, i), e)
  <2>1. PICK i \in Places(k) : entries' = Append(Without(entries, i), e)
    BY <1>6
  <2>2. i \in 1 .. Len(entries) /\ entries[i].key = k
    BY <1>1 DEF Places
  <2>3. PICK w \in Seq(Entry) : w = Without(entries, i)
    BY <1>1, <2>2, Removed
  <2>4. InOrder(w) /\ KeysOf(w) = KeysOf(entries) \ {k}
    BY <1>1, <2>2, <2>3, OrderWithout DEF Remembered
  <2>5. InOrder(entries)' /\ KeysOf(entries') = KeysOf(w) \cup {k}
    BY <1>1, <1>2, <2>1, <2>3, <2>4, OrderAppend DEF Remembered
  <2>6. ForgottenOnlyWhenFull'
    BY <1>1, <1>3, <1>5, <2>4, <2>5, UseForgets DEF Remembered, Cache
  <2> QED
    BY <1>4, <2>5, <2>6 DEF Remembered
<1>7. CASE Places(k) = {} /\ Len(entries) < MaxEntries /\ entries' = Append(entries, e)
  <2>1. k \notin KeysOf(entries)
    BY <1>1, <1>7, PlacesAndKeys
  <2>2. InOrder(entries)' /\ KeysOf(entries') = KeysOf(entries) \cup {k}
    BY <1>1, <1>2, <1>7, <2>1, OrderAppend DEF Remembered
  <2>3. ForgottenOnlyWhenFull'
    BY <1>1, <1>3, <1>5, <2>2, UseForgets DEF Remembered, Cache
  <2> QED
    BY <1>4, <2>2, <2>3 DEF Remembered
<1>8. CASE Places(k) = {} /\ Len(entries) >= MaxEntries /\ entries' = Append(Without(entries, 1), e)
  <2>1. k \notin KeysOf(entries) /\ 1 \in 1 .. Len(entries)
    BY <1>1, <1>8, PlacesAndKeys, ManyEntries
  <2>2. PICK w \in Seq(Entry) : w = Without(entries, 1) /\ Len(w) = Len(entries) - 1
    BY <1>1, <2>1, Removed
  <2>3. InOrder(w) /\ KeysOf(w) = KeysOf(entries) \ {entries[1].key}
    BY <1>1, <2>1, <2>2, OrderWithout DEF Remembered
  <2>4. InOrder(entries)' /\ KeysOf(entries') = KeysOf(w) \cup {k}
    BY <1>1, <1>2, <1>8, <2>1, <2>2, <2>3, OrderAppend DEF Remembered
  <2>o. PICK l \in Keys : l = entries[1].key
    BY <1>1, <2>1, EntryKeys
  <2>5. l \in Seen /\ l # k
    BY <2>1, <2>o DEF Remembered, InOrder, KeysOf
  <2>6. KeysOf(w) \subseteq UsedSince(l)
    <3>1. \A j \in 1 .. Len(entries) : j # 1 => entries[j].key \in UsedSince(l)
      BY <1>1, <2>1, <2>o DEF Remembered, InOrder
    <3> QED
      BY <2>3, <2>o, <3>1 DEF KeysOf
  <2>7. KeysOf(entries') \subseteq UsedSince(l)'
    BY <1>4, <2>4, <2>5, <2>6
  <2>8. Len(entries') = MaxEntries /\ entries' \in Seq(Entry)
    BY <1>1, <1>8, <2>2, ManyEntries
  <2>9. \A i, j \in 1 .. Len(entries') : entries'[i].key = entries'[j].key => i = j
    BY <1>5 DEF Cache, Faithful
  <2>10. Cardinality(UsedSince(l)') >= MaxEntries
    BY <1>4, <2>7, <2>8, <2>9, MakingRoom
  <2>11. \A a \in KeysOf(entries) : a \notin KeysOf(entries') => a = l
    BY <2>3, <2>4, <2>o
  <2>12. ForgottenOnlyWhenFull'
    BY <1>1, <1>3, <2>4, <2>8, <2>10, <2>11, UseForgets DEF Remembered
  <2> QED
    BY <1>4, <2>4, <2>12 DEF Remembered
<1> QED
  BY <1>2, <1>6, <1>7, <1>8 DEF Put

LEMMA TickRemembered == ASSUME Contents, Contents', Remembered, Tick PROVE Remembered'
<1>1. entries \in Seq(Entry) /\ entries' \in Seq(Entry)
  BY DEF Contents, Cache
<1>2. /\ Len(entries') = Len(entries) /\ recency' = recency
      /\ \A i \in 1 .. Len(entries) : entries'[i].key = entries[i].key
  BY <1>1 DEF Tick, Entry
<1>3. NoRepeats' /\ InOrder(entries)'
  <2>1. NoRepeats'
    BY <1>2 DEF Remembered, NoRepeats
  <2>2. Seen' = Seen /\ \A k : UsedSince(k)' = UsedSince(k)
    BY <1>2 DEF Seen, UsedSince
  <2>3. InOrder(entries)'
    BY <1>2, <2>2 DEF Remembered, InOrder
  <2> QED
    BY <2>1, <2>3
<1>4. KeysOf(entries') = KeysOf(entries)
  BY <1>2 DEF KeysOf
<1>5. \A k \in Keys : stored'[k].age < TTL => stored[k].age < TTL
  BY ManyEntries DEF Tick, Older, Contents
<1>6. \A k \in Keys : Places(k)' = {} => Places(k) = {}
  <2>1. \A k \in Keys : Places(k)' = {} <=> k \notin KeysOf(entries')
    BY <1>1 DEF Places, KeysOf
  <2> QED
    BY <1>1, <1>4, <2>1, PlacesAndKeys
<1>7. \A k : UsedSince(k)' = UsedSince(k)
  BY <1>2 DEF UsedSince
<1>8. ForgottenOnlyWhenFull'
  BY <1>5, <1>6, <1>7 DEF Remembered, ForgottenOnlyWhenFull
<1> QED
  BY <1>3, <1>8 DEF Remembered

LEMMA RememberedStep == ASSUME Inv, Inv', Remembered, [Next]_vars PROVE Remembered'
<1>1. Contents /\ Contents'
  BY DEF Inv
<1>2. CASE UNCHANGED entry
  BY <1>2 DEF entry, Remembered, NoRepeats, InOrder, Seen, UsedSince, ForgottenOnlyWhenFull, Places
<1>3. ASSUME NEW c \in Callers, NEW k \in Keys, Hit(c, k)
      PROVE  Remembered'
  <2>1. PICK i \in Places(k) : Touch(i)
    BY <1>3 DEF Hit
  <2>2. i \in DOMAIN entries /\ Used(entries[i].key) /\ stored' = stored
    BY <1>3 DEF Hit, Places
  <2> QED
    BY <1>1, <2>1, <2>2, TouchRemembered
<1>4. ASSUME NEW c \in Callers, NEW k \in Keys, Miss(c, k)
      PROVE  Remembered'
  <2>1. stored' = stored
    BY <1>4 DEF Miss
  <2>2. CASE UNCHANGED <<entries, recency>>
    BY <1>2, <2>1, <2>2 DEF entry
  <2>3. CASE \E i \in Places(k) : ~Live(i) /\ entries' = Without(entries, i) /\ UNCHANGED recency
    BY <1>1, <2>1, <2>3, ForgetRemembered DEF Places
  <2>4. CASE \E i \in Places(k) : Touch(i) /\ Used(k)
    BY <1>1, <2>1, <2>4, TouchRemembered DEF Places
  <2> QED
    BY <1>4, <2>2, <2>3, <2>4 DEF Miss
<1>5. ASSUME NEW c \in Callers, Succeeds(c)
      PROVE  Remembered'
  <2>1. asked[c] \in Keys \cup {NoKey}
    BY DEF Inv, Accounts
  <2> QED
    BY <1>1, <1>2, <1>5, <2>1, PutRemembered DEF Succeeds
<1>6. ASSUME NEW c \in Callers, Run(c) \/ Begin(c) \/ Fails(c) \/ Cancel(c)
      PROVE  Remembered'
  BY <1>2, <1>6 DEF Run, Begin, Fails, Cancel
<1>7. CASE UNCHANGED vars
  BY <1>2, <1>7 DEF vars, entry
<1> QED
  BY <1>1, <1>3, <1>4, <1>5, <1>6, <1>7, TickRemembered DEF Next

(* A result that is still good leaves the cache only when at least as many *)
(* other keys have been used after it as the cache has entries: the entry  *)
(* that makes room is the one least recently used.                         *)
THEOREM ForgottenWhenFull == Spec => []ForgottenOnlyWhenFull
<1>1. ASSUME Init
      PROVE  Remembered
  <2>1. Len(recency) = 0 /\ Len(entries) = 0 /\ \A k \in Keys : ~(stored[k].age < TTL)
    BY <1>1, ManyEntries DEF Init, Never
  <2> QED
    BY <2>1 DEF Remembered, NoRepeats, InOrder, ForgottenOnlyWhenFull
<1>2. Remembered => ForgottenOnlyWhenFull
  BY DEF Remembered
<1> QED
  BY <1>1, <1>2, InvHolds, RememberedStep, PTL DEF Spec
=============================================================================
