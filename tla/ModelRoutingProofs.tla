-------------------------- MODULE ModelRoutingProofs --------------------------
(***************************************************************************)
(* Safety of ModelRouting for any calls, models, routes and limits.  The   *)
(* core is what order_candidates returns: a permutation of the models that *)
(* are not cooling down.                                                   *)
(***************************************************************************)
EXTENDS ModelRouting, FiniteSetTheorems, FunctionTheorems, TLAPS

(* What CooldownIsEarned says of health, of any record of it: of the rows  *)
(* too, for a restart loads them.                                          *)
EarnedBy(m, h) ==
    /\ h.cooling > 0 => h.failures = Threshold
    /\ m \in Reliable => h.failures = 0

Earned(hs) == \A m \in Models : EarnedBy(m, hs[m])

(* Memory and table agree but where a save has raised. *)
TableIsCurrent == \A m \in Models \ unsaved : disk[m] = health[m]

Inv == TypeOK /\ ActiveIsBounded /\ Earned(health) /\ Earned(disk) /\ TableIsCurrent

-----------------------------------------------------------------------------
LEMMA Limits ==
    /\ Threshold \in Nat \ {0} /\ Cooldown \in Nat \ {0} /\ MaxActive \in Nat \ {0}
    /\ Latencies \subseteq Nat /\ IsFiniteSet(Calls)
BY RoutingAssumption

(* What a ModelHealth is made of. *)
LEMMA HealthType ==
    ASSUME NEW h \in Health
    PROVE  /\ h.failures \in Nat /\ h.failures <= Threshold
           /\ h.cooling \in Nat /\ h.cooling <= Cooldown
           /\ h.latency \in Nat
<1>1. h.failures \in 0 .. Threshold /\ h.cooling \in 0 .. Cooldown /\ h.latency \in Latencies \cup {0}
  BY DEF Health
<1>2. h.failures \in Nat /\ h.failures <= Threshold
  BY <1>1, Limits
<1>3. h.cooling \in Nat /\ h.cooling <= Cooldown
  BY <1>1, Limits
<1>4. h.latency \in Nat
  <2>1. CASE h.latency \in Latencies
    BY <2>1, Limits, Zenon
  <2>2. CASE h.latency = 0
    BY <2>2
  <2> QED
    BY <1>1, <2>1, <2>2
<1> QED
  BY <1>2, <1>3, <1>4

LEMMA RouteType ==
    ASSUME NEW r \in Routes
    PROVE  /\ r \in Seq(Models) /\ r # <<>> /\ Len(r) \in Nat /\ DOMAIN r = 1 .. Len(r)
           /\ \A i \in DOMAIN r : r[i] \in Models
           /\ IsFiniteSet(DOMAIN r)
<1>1. /\ r \in Seq(Models) /\ r # <<>> /\ Len(r) \in Nat /\ DOMAIN r = 1 .. Len(r)
      /\ \A i \in DOMAIN r : r[i] \in Models
  BY RoutingAssumption
<1> QED
  BY <1>1, FS_Interval

LEMMA AvailableFinite ==
    ASSUME NEW r \in Routes
    PROVE  IsFiniteSet(Available(r)) /\ Cardinality(Available(r)) \in Nat
BY RouteType, FS_Subset, FS_CardinalityType DEF Available

(* The sort key orders the places of a route strictly and totally. *)
LEMMA BeforeIsStrict ==
    ASSUME TypeOK, NEW r \in Routes
    PROVE  /\ \A i \in DOMAIN r : ~Before(r, i, i)
           /\ \A i, j \in DOMAIN r : i = j \/ Before(r, i, j) \/ Before(r, j, i)
           /\ \A i, j, k \in DOMAIN r : Before(r, i, j) /\ Before(r, j, k) => Before(r, i, k)
<1>1. \A i \in DOMAIN r : /\ i \in Nat
                          /\ health[r[i]].latency \in Nat
                          /\ health[r[i]].failures \in Nat
                          /\ Degraded(r[i]) \in BOOLEAN
  <2> TAKE i \in DOMAIN r
  <2>1. i \in Nat /\ r[i] \in Models
    BY RouteType
  <2>2. health[r[i]] \in Health
    BY <2>1 DEF TypeOK
  <2>3. health[r[i]].latency \in Nat /\ health[r[i]].failures \in Nat
    BY <2>2, HealthType
  <2> QED
    BY <2>1, <2>3 DEF Degraded
<1> QED
  BY <1>1 DEF Before

(* So its places, counted from 1, are distinct and as many as the models.  *)
LEMMA PlaceIsInjection ==
    ASSUME TypeOK, NEW r \in Routes
    PROVE  [i \in Available(r) |-> Place(r, i)]
              \in Injection(Available(r), 1 .. Cardinality(Available(r)))
<1> DEFINE Earlier(i) == {j \in Available(r) : Before(r, j, i)}
<1>1. \A i \in Available(r) : i \in DOMAIN r
  BY DEF Available
<1>2. \A i \in Available(r) : IsFiniteSet(Earlier(i)) /\ Cardinality(Earlier(i)) \in Nat
  BY AvailableFinite, FS_Subset, FS_CardinalityType
<1>3. \A i \in Available(r) : Cardinality(Earlier(i)) < Cardinality(Available(r))
  <2> TAKE i \in Available(r)
  <2>1. i \notin Earlier(i) /\ Earlier(i) \in SUBSET Available(r)
    BY <1>1, BeforeIsStrict
  <2>2. Cardinality(Earlier(i)) <= Cardinality(Available(r)) /\ Earlier(i) # Available(r)
    BY <2>1, AvailableFinite, FS_Subset
  <2> QED
    BY <1>2, <2>1, <2>2, AvailableFinite, FS_Subset
<1>4. \A i, j \in Available(r) : Before(r, i, j) => Cardinality(Earlier(i)) < Cardinality(Earlier(j))
  <2> TAKE i, j \in Available(r)
  <2> HAVE Before(r, i, j)
  <2>1. Earlier(i) \in SUBSET Earlier(j)
    BY <1>1, BeforeIsStrict
  <2>2. i \in Earlier(j) /\ i \notin Earlier(i)
    BY <1>1, BeforeIsStrict
  <2> QED
    BY <1>2, <2>1, <2>2, FS_Subset
<1>5. \A i \in Available(r) : Place(r, i) = 1 + Cardinality(Earlier(i))
  BY DEF Place
<1> HIDE DEF Earlier
<1>6. \A i \in Available(r) : Place(r, i) \in 1 .. Cardinality(Available(r))
  BY <1>2, <1>3, <1>5, AvailableFinite
<1>7. \A i, j \in Available(r) : Place(r, i) = Place(r, j) => i = j
  BY <1>1, <1>2, <1>4, <1>5, BeforeIsStrict
<1> QED
  BY <1>6, <1>7 DEF Injection, IsInjective

(* order_candidates returns a permutation: each model of the route that is *)
(* not cooling, once each, and nothing else; or the route itself.          *)
LEMMA OrderIsPermutation ==
    ASSUME TypeOK, NEW r \in Routes
    PROVE  /\ OrderCandidates(r) \in Seq(Models)
           /\ OrderCandidates(r) # <<>>
           /\ \A i \in Available(r) : \E n \in DOMAIN OrderCandidates(r) : OrderCandidates(r)[n] = r[i]
           /\ Available(r) # {} =>
                 \A n \in DOMAIN OrderCandidates(r) : ~Cooling(OrderCandidates(r)[n])
<1>1. CASE Available(r) = {}
  BY <1>1, RouteType DEF OrderCandidates
<1>2. CASE Available(r) # {}
  <2> DEFINE place == [i \in Available(r) |-> Place(r, i)]
             N     == Cardinality(Available(r))
             At(n) == CHOOSE i \in Available(r) : Place(r, i) = n
             o     == [n \in 1 .. N |-> r[At(n)]]
  <2>1. OrderCandidates(r) = o
    BY <1>2 DEF OrderCandidates
  <2>2. N \in Nat /\ N # 0
    BY <1>2, AvailableFinite, FS_EmptySet
  <2>3. place \in Injection(Available(r), 1 .. N)
    BY PlaceIsInjection
  <2>4. IsFiniteSet(1 .. N) /\ Cardinality(1 .. N) = N
    BY <2>2, FS_Interval
  <2>5. place \in Surjection(Available(r), 1 .. N)
    BY <2>3, <2>4, FS_Injection
  <2>6. \A n \in 1 .. N : \E i \in Available(r) : Place(r, i) = n
    BY <2>5 DEF Surjection
  <2>7. \A n \in 1 .. N : At(n) \in Available(r) /\ Place(r, At(n)) = n
    BY <2>6
  <2>8. \A i \in Available(r) : Place(r, i) \in 1 .. N /\ At(Place(r, i)) = i
    <3> TAKE i \in Available(r)
    <3>1. Place(r, i) \in 1 .. N
      BY <2>3 DEF Injection
    <3>2. At(Place(r, i)) \in Available(r) /\ Place(r, At(Place(r, i))) = Place(r, i)
      BY <2>7, <3>1
    <3> HIDE DEF At
    <3> QED
      BY <2>3, <3>1, <3>2 DEF Injection, IsInjective
  <2>9. \A i \in Available(r) : i \in DOMAIN r /\ r[i] \in Models /\ ~Cooling(r[i])
    BY RouteType DEF Available
  <2> HIDE DEF At, N
  <2>10. o \in [1 .. N -> Models]
    BY <2>7, <2>9
  <2>11. o \in Seq(Models) /\ DOMAIN o = 1 .. N /\ o # <<>>
    BY <2>2, <2>10
  <2> QED
    BY <2>1, <2>7, <2>8, <2>9, <2>11
<1> QED
  BY <1>1, <1>2

-----------------------------------------------------------------------------
(* Recording a result gives a record of health that is earned.             *)
LEMMA SuccessIsEarned ==
    ASSUME NEW m \in Models, NEW h \in Health, NEW k \in AfterSuccess(h)
    PROVE  k \in Health /\ EarnedBy(m, k)
<1>1. PICK average \in Latencies : k = [failures |-> 0, latency |-> average, cooling |-> 0]
  BY DEF AfterSuccess, Between
<1> QED
  BY <1>1, Limits DEF Health, EarnedBy

LEMMA FailureIsEarned ==
    ASSUME NEW m \in Models \ Reliable, NEW h \in Health, EarnedBy(m, h)
    PROVE  AfterFailure(h) \in Health /\ EarnedBy(m, AfterFailure(h))
<1>1. /\ h = [failures |-> h.failures, latency |-> h.latency, cooling |-> h.cooling]
      /\ h.failures \in 0 .. Threshold /\ h.latency \in Latencies \cup {0} /\ h.cooling \in 0 .. Cooldown
  BY DEF Health
<1>2. CASE h.failures + 1 >= Threshold
  <2>1. AfterFailure(h) = [failures |-> Threshold, latency |-> h.latency, cooling |-> Cooldown]
    BY <1>1, <1>2 DEF AfterFailure
  <2>2. Threshold \in 0 .. Threshold /\ Cooldown \in 0 .. Cooldown
    BY Limits
  <2> QED
    BY <1>1, <2>1, <2>2 DEF Health, EarnedBy
<1>3. CASE ~(h.failures + 1 >= Threshold)
  <2>1. AfterFailure(h) = [failures |-> h.failures + 1, latency |-> h.latency, cooling |-> h.cooling]
    BY <1>1, <1>3 DEF AfterFailure
  <2>2. h.failures + 1 \in 0 .. Threshold /\ h.failures # Threshold
    BY <1>1, <1>3, Limits
  <2>3. ~(h.cooling > 0)
    BY <2>2 DEF EarnedBy
  <2> QED
    BY <1>1, <2>1, <2>2, <2>3 DEF Health, EarnedBy
<1> QED
  BY <1>2, <1>3

LEMMA SavingKeepsEarned ==
    ASSUME TypeOK, Earned(health), Earned(disk), TableIsCurrent,
           NEW m \in Models, NEW h \in Health, EarnedBy(m, h),
           Saved(m, h) \/ SaveRaises(m, h)
    PROVE  /\ health' \in [Models -> Health] /\ disk' \in [Models -> Health]
           /\ Earned(health') /\ Earned(disk')
           /\ unsaved' \subseteq Models /\ TableIsCurrent'
<1>1. health' = [health EXCEPT ![m] = h] /\ (disk' = disk \/ disk' = [disk EXCEPT ![m] = h])
  BY DEF Saved, SaveRaises
<1>2. \A n \in Models : /\ health'[n] = IF n = m THEN h ELSE health[n]
                        /\ disk'[n] = disk[n] \/ (n = m /\ disk'[n] = h)
  BY <1>1 DEF TypeOK
<1>3. unsaved' \subseteq Models /\ TableIsCurrent'
  <2>1. CASE Saved(m, h)
    BY <1>2, <2>1 DEF Saved, TypeOK, TableIsCurrent
  <2>2. CASE SaveRaises(m, h)
    BY <1>2, <2>2 DEF SaveRaises, TypeOK, TableIsCurrent
  <2> QED
    BY <2>1, <2>2
<1> QED
  BY <1>1, <1>2, <1>3 DEF TypeOK, Earned

LEMMA ElapsingKeepsEarned ==
    ASSUME NEW hs \in [Models -> Health], Earned(hs)
    PROVE  Elapse(hs) \in [Models -> Health] /\ Earned(Elapse(hs))
<1>1. ASSUME NEW m \in Models
      PROVE  Elapse(hs)[m] \in Health /\ EarnedBy(m, Elapse(hs)[m])
  <2>1. /\ hs[m] = [failures |-> hs[m].failures, latency |-> hs[m].latency, cooling |-> hs[m].cooling]
        /\ hs[m].failures \in 0 .. Threshold /\ hs[m].latency \in Latencies \cup {0}
        /\ hs[m].cooling \in 0 .. Cooldown /\ EarnedBy(m, hs[m])
    BY DEF Health, Earned
  <2> DEFINE left == IF hs[m].cooling = 0 THEN 0 ELSE hs[m].cooling - 1
  <2>2. Elapse(hs)[m] = [failures |-> hs[m].failures, latency |-> hs[m].latency, cooling |-> left]
    BY <2>1 DEF Elapse
  <2>3. left \in 0 .. Cooldown /\ (left > 0 => hs[m].cooling > 0)
    BY <2>1, Limits
  <2> QED
    BY <2>1, <2>2, <2>3 DEF Health, EarnedBy
<1> QED
  BY <1>1 DEF Elapse, Earned

-----------------------------------------------------------------------------
(* A call takes a permit, and gives it back.                               *)
LEMMA Counting ==
    ASSUME ActiveIsBounded, permits \in Nat, active \in Nat, NEW c \in Calls,
           pc \in [Calls -> {"idle", "waiting", "calling"}],
           NEW place \in {"idle", "waiting", "calling"}, pc' = [pc EXCEPT ![c] = place],
           \/ /\ pc[c] # "calling" /\ place # "calling"
              /\ UNCHANGED controller
           \/ /\ pc[c] = "waiting" /\ place = "calling"
              /\ permits > 0 /\ permits' = permits - 1 /\ active' = active + 1
           \/ /\ pc[c] = "calling" /\ place # "calling"
              /\ LeaveController
    PROVE  ActiveIsBounded' /\ permits' \in Nat /\ active' \in Nat
<1>1. IsFiniteSet(InFlight) /\ Cardinality(InFlight) \in Nat
  BY Limits, FS_Subset, FS_CardinalityType DEF InFlight
<1>2. InFlight' = IF place = "calling" THEN InFlight \cup {c} ELSE InFlight \ {c}
  BY DEF InFlight
<1>3. c \in InFlight <=> pc[c] = "calling"
  BY DEF InFlight
<1>4. CASE pc[c] # "calling" /\ place # "calling" /\ UNCHANGED controller
  <2>1. InFlight' = InFlight
    BY <1>2, <1>3, <1>4
  <2> QED
    BY <1>4, <2>1 DEF ActiveIsBounded, controller
<1>5. CASE pc[c] = "waiting" /\ place = "calling" /\ permits > 0 /\ permits' = permits - 1 /\ active' = active + 1
  <2>1. Cardinality(InFlight') = Cardinality(InFlight) + 1
    BY <1>1, <1>2, <1>3, <1>5, FS_AddElement
  <2> QED
    BY <1>1, <1>5, <2>1 DEF ActiveIsBounded
<1>6. CASE pc[c] = "calling" /\ place # "calling" /\ LeaveController
  <2>1. Cardinality(InFlight') = Cardinality(InFlight) - 1
    BY <1>1, <1>2, <1>3, <1>6, FS_RemoveElement
  <2> QED
    BY <1>1, <1>3, <1>6, <2>1, FS_EmptySet DEF ActiveIsBounded, LeaveController
<1> QED
  BY <1>4, <1>5, <1>6

(* How the end of an execution leaves its own variables.                   *)
LEMMA FinishType ==
    ASSUME TypeOK, NEW c \in Calls, NEW how \in {"answered", "exhausted", "store_error"}, Finish(c, how)
    PROVE  /\ pc' = [pc EXCEPT ![c] = "idle"]
           /\ pc' \in [Calls -> {"idle", "waiting", "calling"}]
           /\ route' \in [Calls -> Routes]
           /\ chain' \in [Calls -> Seq(Models)]
           /\ \A d \in Calls : pc'[d] # "idle" => chain'[d] # <<>>
           /\ outcome' \in [Calls -> {"none", "answered", "exhausted", "store_error"}]
BY DEF TypeOK, Finish

LEMMA InitInv == ASSUME Init PROVE Inv
<1>1. NoHistory \in Health /\ \A m \in Models : EarnedBy(m, NoHistory)
  BY Limits DEF NoHistory, Health, EarnedBy
<1>2. InFlight = {}
  BY DEF Init, InFlight
<1>3. ActiveIsBounded
  BY <1>2, FS_EmptySet, Limits DEF Init, ActiveIsBounded
<1>4. TypeOK
  BY <1>1, Limits DEF Init, TypeOK
<1> QED
  BY <1>1, <1>3, <1>4 DEF Inv, Init, Earned, TableIsCurrent

LEMMA RaisesInv == ASSUME Inv, NEW c \in Calls, ProviderRaises(c) PROVE Inv'
<1> DEFINE m == Head(chain[c])
           h == AfterFailure(health[m])
<1>1. TypeOK /\ ActiveIsBounded /\ Earned(health) /\ Earned(disk) /\ TableIsCurrent
  BY DEF Inv
<1>2. chain[c] \in Seq(Models) /\ chain[c] # <<>>
  BY <1>1 DEF TypeOK, ProviderRaises
<1>3. m \in Models \ Reliable /\ health[m] \in Health /\ EarnedBy(m, health[m])
  BY <1>1, <1>2 DEF ProviderRaises, TypeOK, Earned
<1>4. h \in Health /\ EarnedBy(m, h)
  BY <1>3, FailureIsEarned
<1>5. pc[c] = "calling" /\ LeaveController /\ (Saved(m, h) \/ SaveRaises(m, h))
  BY DEF ProviderRaises
<1>6. /\ health' \in [Models -> Health] /\ disk' \in [Models -> Health]
      /\ Earned(health') /\ Earned(disk')
      /\ unsaved' \subseteq Models /\ TableIsCurrent'
  <2> HIDE DEF m, h
  <2> QED
    BY <1>1, <1>3, <1>4, <1>5, SavingKeepsEarned
<1>7. CASE Finish(c, "exhausted") \/ Finish(c, "store_error")
  <2>1. ActiveIsBounded' /\ permits' \in Nat /\ active' \in Nat
    BY <1>1, <1>5, <1>7, Counting DEF Finish, TypeOK
  <2> QED
    BY <1>1, <1>5, <1>6, <1>7, <2>1, FinishType DEF Inv, TypeOK
<1>8. CASE /\ Tail(chain[c]) # <<>>
           /\ pc' = [pc EXCEPT ![c] = "waiting"]
           /\ chain' = [chain EXCEPT ![c] = Tail(chain[c])]
           /\ UNCHANGED <<route, outcome>>
  <2>1. ActiveIsBounded' /\ permits' \in Nat /\ active' \in Nat
    BY <1>1, <1>5, <1>8, Counting DEF TypeOK
  <2>2. Tail(chain[c]) \in Seq(Models)
    BY <1>2
  <2>3. /\ chain' \in [Calls -> Seq(Models)]
        /\ \A d \in Calls : pc'[d] # "idle" => chain'[d] # <<>>
    BY <1>1, <1>8, <2>2 DEF TypeOK
  <2> QED
    BY <1>1, <1>5, <1>6, <1>8, <2>1, <2>3 DEF Inv, TypeOK
<1> QED
  BY <1>7, <1>8 DEF ProviderRaises

LEMMA AnswersInv == ASSUME Inv, NEW c \in Calls, ProviderAnswers(c) PROVE Inv'
<1> DEFINE m == Head(chain[c])
<1>1. TypeOK /\ ActiveIsBounded /\ Earned(health) /\ Earned(disk) /\ TableIsCurrent
  BY DEF Inv
<1>2. chain[c] \in Seq(Models) /\ chain[c] # <<>>
  BY <1>1 DEF TypeOK, ProviderAnswers
<1>3. m \in Models /\ health[m] \in Health
  BY <1>1, <1>2 DEF TypeOK
<1>4. PICK h \in AfterSuccess(health[m]), how \in {"answered", "store_error"} :
          (Saved(m, h) \/ SaveRaises(m, h)) /\ Finish(c, how)
  BY DEF ProviderAnswers
<1>5. h \in Health /\ EarnedBy(m, h)
  BY <1>3, SuccessIsEarned
<1>6. /\ health' \in [Models -> Health] /\ disk' \in [Models -> Health]
      /\ Earned(health') /\ Earned(disk')
      /\ unsaved' \subseteq Models /\ TableIsCurrent'
  <2> HIDE DEF m
  <2> QED
    BY <1>1, <1>3, <1>4, <1>5, SavingKeepsEarned
<1>7. pc[c] = "calling" /\ LeaveController
  BY DEF ProviderAnswers
<1>8. ActiveIsBounded' /\ permits' \in Nat /\ active' \in Nat
  BY <1>1, <1>4, <1>7, Counting DEF Finish, TypeOK
<1> QED
  BY <1>1, <1>4, <1>6, <1>8, FinishType DEF Inv, TypeOK

LEMMA ExecuteInv == ASSUME Inv, NEW c \in Calls, NEW r \in Routes, Execute(c, r) PROVE Inv'
<1>1. TypeOK /\ ActiveIsBounded /\ Earned(health) /\ Earned(disk) /\ TableIsCurrent
  BY DEF Inv
<1>2. OrderCandidates(r) \in Seq(Models) /\ OrderCandidates(r) # <<>>
  BY <1>1, OrderIsPermutation
<1>3. ActiveIsBounded' /\ permits' \in Nat /\ active' \in Nat
  BY <1>1, Counting DEF Execute, TypeOK
<1>4. /\ pc' \in [Calls -> {"idle", "waiting", "calling"}]
      /\ route' \in [Calls -> Routes]
      /\ chain' \in [Calls -> Seq(Models)]
      /\ outcome' \in [Calls -> {"none", "answered", "exhausted", "store_error"}]
  BY <1>1, <1>2 DEF Execute, TypeOK
<1>5. \A d \in Calls : pc'[d] # "idle" => chain'[d] # <<>>
  BY <1>1, <1>2 DEF Execute, TypeOK
<1>6. health' = health /\ disk' = disk /\ unsaved' = unsaved
  BY DEF Execute, registry
<1> QED
  BY <1>1, <1>3, <1>4, <1>5, <1>6 DEF Inv, TypeOK, TableIsCurrent

LEMMA CallInv == ASSUME Inv, NEW c \in Calls, CallProvider(c) PROVE Inv'
<1>1. TypeOK /\ ActiveIsBounded /\ Earned(health) /\ Earned(disk) /\ TableIsCurrent
  BY DEF Inv
<1>2. ActiveIsBounded' /\ permits' \in Nat /\ active' \in Nat
  BY <1>1, Counting DEF CallProvider, TypeOK
<1>3. /\ pc' \in [Calls -> {"idle", "waiting", "calling"}]
      /\ \A d \in Calls : pc'[d] # "idle" => chain[d] # <<>>
  BY <1>1 DEF CallProvider, TypeOK
<1>4. UNCHANGED <<health, disk, unsaved, route, chain, outcome>>
  BY DEF CallProvider, registry
<1> QED
  BY <1>1, <1>2, <1>3, <1>4 DEF Inv, TypeOK, TableIsCurrent

LEMMA TickInv == ASSUME Inv, Tick PROVE Inv'
<1>1. TypeOK /\ ActiveIsBounded /\ Earned(health) /\ Earned(disk) /\ TableIsCurrent
  BY DEF Inv
<1>2. /\ health' \in [Models -> Health] /\ disk' \in [Models -> Health]
      /\ Earned(health') /\ Earned(disk')
  BY <1>1, ElapsingKeepsEarned DEF Tick, TypeOK
<1>3. UNCHANGED <<unsaved, permits, active, pc, route, chain, outcome>>
  BY DEF Tick, controller, execution
<1>4. TableIsCurrent'
  BY <1>1, <1>3 DEF Tick, Elapse, TableIsCurrent
<1> QED
  BY <1>1, <1>2, <1>3, <1>4 DEF Inv, TypeOK, ActiveIsBounded, InFlight

LEMMA RestartInv == ASSUME Inv, Restart PROVE Inv'
<1>1. TypeOK /\ Earned(disk)
  BY DEF Inv
<1>2. InFlight' = {}
  BY DEF Restart, InFlight
<1>3. ActiveIsBounded'
  BY <1>2, FS_EmptySet, Limits DEF Restart, ActiveIsBounded
<1>4. TypeOK'
  BY <1>1, Limits DEF Restart, TypeOK
<1> QED
  BY <1>1, <1>3, <1>4 DEF Restart, Inv, TableIsCurrent

LEMMA InvStep == ASSUME Inv, [Next]_vars PROVE Inv'
<1>1. CASE UNCHANGED vars
  BY <1>1 DEF vars, Inv, TypeOK, ActiveIsBounded, InFlight, TableIsCurrent
<1> QED
  BY <1>1, ExecuteInv, CallInv, AnswersInv, RaisesInv, TickInv, RestartInv DEF Next

LEMMA InvHolds == Spec => []Inv
BY InitInv, InvStep, PTL DEF Spec

-----------------------------------------------------------------------------
(* Every variable keeps its type; in particular execute never asks Head of *)
(* an empty chain.                                                         *)
THEOREM TypeCorrect == Spec => []TypeOK
BY InvHolds, PTL DEF Inv

(* Provider calls in flight never exceed the limit, no permit is lost, and *)
(* _active counts them, through failures and restarts.                     *)
THEOREM ActiveBounded == Spec => []ActiveIsBounded
BY InvHolds, PTL DEF Inv

(* Only models that failed often enough are put aside.                     *)
THEOREM CooldownCorrect == Spec => []CooldownIsEarned
<1>1. Inv => CooldownIsEarned
  BY DEF Inv, Earned, EarnedBy, CooldownIsEarned, Cooling
<1> QED
  BY <1>1, InvHolds, PTL

(* What a restart loads is what memory held, but for failed saves.         *)
THEOREM HealthIsDurable == Spec => HealthSurvivesRestart
<1>1. Inv /\ [Next]_vars => [Restart => \A m \in Models \ unsaved : health'[m] = health[m]]_vars
  BY DEF Inv, TableIsCurrent, Restart
<1> QED
  BY <1>1, InvHolds, PTL DEF Spec, HealthSurvivesRestart

-----------------------------------------------------------------------------
(* While an execution whose route has a model that works goes on, such a   *)
(* model is in what is left of its chain.                                  *)
HasHope(s) == Candidates(s) \cap Reliable # {}

WorkingModelIsAhead ==
    \A c \in Calls : HasHope(route[c]) =>
       /\ outcome[c] # "exhausted"
       /\ pc[c] # "idle" => HasHope(chain[c])

(* The chain made by execute holds every reliable model of the route: none *)
(* of them is cooling, for their failures are 0.                           *)
LEMMA ExecuteKeepsHope ==
    ASSUME Inv, NEW r \in Routes, HasHope(r)
    PROVE  HasHope(OrderCandidates(r))
<1>1. PICK i \in DOMAIN r : r[i] \in Reliable
  BY DEF HasHope, Candidates
<1>2. TypeOK /\ Earned(health) /\ r[i] \in Models
  BY RouteType DEF Inv
<1>3. health[r[i]].cooling \in Nat /\ ~(health[r[i]].cooling > 0)
  <2>1. health[r[i]] \in Health /\ EarnedBy(r[i], health[r[i]])
    BY <1>2 DEF TypeOK, Earned
  <2> QED
    BY <1>1, <2>1, HealthType, Limits DEF EarnedBy
<1>4. i \in Available(r)
  BY <1>3 DEF Available, Cooling
<1>5. \E n \in DOMAIN OrderCandidates(r) : OrderCandidates(r)[n] = r[i]
  BY <1>2, <1>4, OrderIsPermutation
<1> QED
  BY <1>1, <1>5 DEF HasHope, Candidates

(* A provider that raises was none of them, so they are in the rest. *)
LEMMA RaisingKeepsHope ==
    ASSUME NEW s \in Seq(Models), s # <<>>, Head(s) \notin Reliable, HasHope(s)
    PROVE  Tail(s) # <<>> /\ HasHope(Tail(s))
<1>1. PICK n \in 1 .. Len(s) : s[n] \in Reliable
  BY DEF HasHope, Candidates
<1>2. n # 1
  BY <1>1
<1>3. Len(Tail(s)) = Len(s) - 1 /\ DOMAIN Tail(s) = 1 .. Len(Tail(s)) /\ Tail(s)[n - 1] = s[n]
  BY <1>1, <1>2
<1>4. n - 1 \in DOMAIN Tail(s)
  BY <1>1, <1>2, <1>3
<1>5. Tail(s) # <<>>
  <2>1. Len(Tail(s)) # 0
    BY <1>1, <1>2, <1>3
  <2>2. Len(<<>>) = 0
    OBVIOUS
  <2> QED
    BY <2>1, <2>2, Zenon
<1>6. Tail(s)[n - 1] \in Candidates(Tail(s)) \cap Reliable
  BY <1>1, <1>3, <1>4 DEF Candidates
<1> QED
  BY <1>5, <1>6 DEF HasHope

LEMMA HopeStep ==
    ASSUME Inv, WorkingModelIsAhead, [Next]_vars
    PROVE  WorkingModelIsAhead'
<1> USE DEF WorkingModelIsAhead
<1>1. TypeOK
  BY DEF Inv
<1>2. ASSUME NEW c \in Calls, NEW r \in Routes, Execute(c, r)
      PROVE  WorkingModelIsAhead'
  <2>1. \A d \in Calls : /\ route'[d] = IF d = c THEN r ELSE route[d]
                         /\ chain'[d] = IF d = c THEN OrderCandidates(r) ELSE chain[d]
                         /\ outcome'[d] = IF d = c THEN "none" ELSE outcome[d]
                         /\ pc'[d] = IF d = c THEN "waiting" ELSE pc[d]
    BY <1>1, <1>2 DEF Execute, TypeOK
  <2> QED
    BY <2>1, ExecuteKeepsHope DEF HasHope, Candidates
<1>3. ASSUME NEW c \in Calls, CallProvider(c)
      PROVE  WorkingModelIsAhead'
  <2>1. \A d \in Calls : pc'[d] # "idle" => pc[d] # "idle"
    BY <1>1, <1>3 DEF CallProvider, TypeOK
  <2> QED
    BY <1>3, <2>1 DEF CallProvider, HasHope, Candidates
<1>4. ASSUME NEW c \in Calls, NEW how \in {"answered", "exhausted", "store_error"}, Finish(c, how),
             how = "exhausted" => ~HasHope(route[c])
      PROVE  WorkingModelIsAhead'
  <2>1. \A d \in Calls : /\ route'[d] = route[d]
                         /\ chain'[d] = IF d = c THEN <<>> ELSE chain[d]
                         /\ outcome'[d] = IF d = c THEN how ELSE outcome[d]
                         /\ pc'[d] = IF d = c THEN "idle" ELSE pc[d]
    BY <1>1, <1>4 DEF Finish, TypeOK
  <2> QED
    BY <1>4, <2>1 DEF HasHope, Candidates
<1>5. ASSUME NEW c \in Calls, ProviderAnswers(c)
      PROVE  WorkingModelIsAhead'
  <2>1. Finish(c, "answered") \/ Finish(c, "store_error")
    BY <1>5 DEF ProviderAnswers
  <2> QED
    BY <1>4, <2>1
<1>6. ASSUME NEW c \in Calls, ProviderRaises(c)
      PROVE  WorkingModelIsAhead'
  <2>1. chain[c] \in Seq(Models) /\ chain[c] # <<>> /\ Head(chain[c]) \notin Reliable /\ pc[c] # "idle"
    BY <1>1, <1>6 DEF ProviderRaises, TypeOK
  <2>2. HasHope(route[c]) => Tail(chain[c]) # <<>> /\ HasHope(Tail(chain[c]))
    BY <2>1, RaisingKeepsHope
  <2>3. CASE Tail(chain[c]) = <<>> /\ Finish(c, "exhausted")
    BY <1>4, <2>2, <2>3
  <2>5. CASE Finish(c, "store_error")
    BY <1>4, <2>5
  <2>4. CASE /\ pc' = [pc EXCEPT ![c] = "waiting"]
             /\ chain' = [chain EXCEPT ![c] = Tail(chain[c])]
             /\ UNCHANGED <<route, outcome>>
    <3>1. \A d \in Calls : /\ chain'[d] = IF d = c THEN Tail(chain[c]) ELSE chain[d]
                           /\ pc'[d] # "idle" => pc[d] # "idle"
      BY <1>1, <2>1, <2>4 DEF TypeOK
    <3> QED
      BY <2>2, <2>4, <3>1 DEF HasHope, Candidates
  <2> QED
    BY <1>6, <2>3, <2>4, <2>5 DEF ProviderRaises
<1>7. CASE Tick \/ UNCHANGED vars
  BY <1>7 DEF Tick, vars, execution, HasHope, Candidates
<1>8. CASE Restart
  BY <1>8 DEF Restart, HasHope, Candidates
<1> QED
  BY <1>2, <1>3, <1>5, <1>6, <1>7, <1>8 DEF Next

(* An execution whose route holds a model that works does not run out of   *)
(* models: for any routes, limits and histories of failures, cooldowns,    *)
(* failed saves and restarts.                                              *)
THEOREM WorkingModelFound == Spec => []AWorkingModelIsFound
<1>1. Init => WorkingModelIsAhead
  BY DEF Init, WorkingModelIsAhead
<1>2. Inv /\ WorkingModelIsAhead /\ [Next]_vars => WorkingModelIsAhead'
  BY HopeStep
<1>3. WorkingModelIsAhead => AWorkingModelIsFound
  BY DEF WorkingModelIsAhead, AWorkingModelIsFound, HasHope
<1> QED
  BY <1>1, <1>2, <1>3, InvHolds, PTL DEF Spec
=============================================================================
