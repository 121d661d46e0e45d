--------------------------- MODULE AgentCallProofs ---------------------------
(***************************************************************************)
(* Safety of AgentCall for any models, any number of retries in either     *)
(* loop and any headers, and that it implements AwaitedCall.               *)
(***************************************************************************)
EXTENDS AgentCall, FiniteSetTheorems, TLAPS

USE CallAssumption

(* The books of a call of which c rounds are over, and f attempts of the   *)
(* one that is not have failed, where h is its tally: a round is over by   *)
(* one failure that is final or by as many as it has attempts that are not. *)
Balanced(c, f, h) ==
    /\ h.final <= c
    /\ h.transient - f >= (c - h.final) * (MaxAgentRetries + 1)
    /\ h.transient - f <= (c - h.final) * (MaxAgentRetries + 1) + h.final * MaxAgentRetries

AllFailed(h, inFlight) == h.sent = h.transient + h.final + inFlight

(* All of TypeOK but the type of the time asleep.                          *)
Types ==
    /\ key \in BOOLEAN
    /\ registry \in Seq(Profile)
    /\ model \in Models \cup {NoModel}
    /\ pc \in {"idle", "requesting", "pausing", "backing_off"}
    /\ round \in 0 .. MaxRetries
    /\ attempt \in 1 .. MaxAgentRetries + 1
    /\ outcome \in Outcomes
    /\ tally \in [sent : Nat, transient : Nat, final : Nat]

Inv ==
    /\ Types
    /\ RequestsAreBounded
    /\ outcome # "none" => pc = "idle"
    /\ ~key => tally = NoTally /\ pc \notin {"requesting", "pausing"}
    /\ pc = "requesting" => AllFailed(tally, 1) /\ Balanced(round, attempt - 1, tally)
    /\ pc = "pausing" =>
          /\ attempt <= MaxAgentRetries
          /\ AllFailed(tally, 0) /\ Balanced(round, attempt, tally)
    /\ pc = "backing_off" =>
          /\ round < MaxRetries
          /\ AllFailed(tally, 0) /\ (key => Balanced(round + 1, 0, tally))
    /\ outcome = "exhausted" =>
          AllFailed(tally, 0) /\ (key => Balanced(MaxRetries + 1, 0, tally))

-----------------------------------------------------------------------------
Tallies == [sent : Nat, transient : Nat, final : Nat]

(* A round that is over on a failure that is not tried again. *)
LEMMA FinalFailure ==
    ASSUME NEW c \in Nat, NEW f \in 0 .. MaxAgentRetries, NEW h \in Tallies, Balanced(c, f, h)
    PROVE  Balanced(c + 1, 0, Counted(h.sent, h.transient, h.final + 1))
<1> DEFINE g == Counted(h.sent, h.transient, h.final + 1)
<1>1. g.final = h.final + 1 /\ g.transient = h.transient /\ h.final \in Nat /\ h.transient \in Nat
  BY DEF Tallies, Counted
<1>2. (c + 1) - g.final = c - h.final
  BY <1>1
<1>3. g.final * MaxAgentRetries = h.final * MaxAgentRetries + MaxAgentRetries
  BY <1>1
<1>4. (c - h.final) * (MaxAgentRetries + 1) \in Int /\ h.final * MaxAgentRetries \in Int
  BY <1>1
<1> HIDE DEF g
<1> QED
  BY <1>1, <1>2, <1>3, <1>4 DEF Balanced, g

(* A round that is over because its last attempt has failed. *)
LEMMA LastAttempt ==
    ASSUME NEW c \in Nat, NEW h \in Tallies, Balanced(c, MaxAgentRetries, h)
    PROVE  Balanced(c + 1, 0, Counted(h.sent, h.transient + 1, h.final))
<1> DEFINE g == Counted(h.sent, h.transient + 1, h.final)
<1>1. g.final = h.final /\ g.transient = h.transient + 1 /\ h.final \in Nat /\ h.transient \in Nat
  BY DEF Tallies, Counted
<1>2. ((c + 1) - h.final) * (MaxAgentRetries + 1)
        = (c - h.final) * (MaxAgentRetries + 1) + MaxAgentRetries + 1
  <2>1. \A x \in Int : (x + 1) * (MaxAgentRetries + 1) = x * (MaxAgentRetries + 1) + MaxAgentRetries + 1
    OBVIOUS
  <2>2. (c + 1) - h.final = (c - h.final) + 1 /\ c - h.final \in Int
    BY <1>1
  <2> QED
    BY <2>1, <2>2
<1>3. (c - h.final) * (MaxAgentRetries + 1) \in Int /\ h.final * MaxAgentRetries \in Int
  BY <1>1
<1> HIDE DEF g
<1> QED
  BY <1>1, <1>2, <1>3 DEF Balanced, g

LEMMA WhenOver ==
    ASSUME NEW c \in Nat, NEW h \in Tallies, Balanced(c, 0, h)
    PROVE  /\ h.final <= c
           /\ h.transient >= (c - h.final) * (MaxAgentRetries + 1)
           /\ h.transient <= (c - h.final) * (MaxAgentRetries + 1) + h.final * MaxAgentRetries
<1>1. h.transient \in Nat /\ h.transient - 0 = h.transient
  BY DEF Tallies
<1> QED
  BY <1>1 DEF Balanced

(* How many requests have failed by then. *)
LEMMA FailuresAreBounded ==
    ASSUME NEW c \in 0 .. MaxRetries, NEW f \in 0 .. MaxAgentRetries, NEW h \in Tallies,
           Balanced(c, f, h)
    PROVE  h.transient + h.final + 1 <= MaxRequests
<1>1. h.final \in Nat /\ h.transient \in Nat
  BY DEF Tallies
<1>2. /\ (c - h.final) * (MaxAgentRetries + 1) \in Int /\ h.final * MaxAgentRetries \in Int
      /\ (c - h.final) * (MaxAgentRetries + 1) + h.final * MaxAgentRetries + h.final
            = c * (MaxAgentRetries + 1)
  BY <1>1
<1>3. c * (MaxAgentRetries + 1) <= MaxRetries * (MaxAgentRetries + 1)
  BY <1>1
<1>4. MaxRequests = MaxRetries * (MaxAgentRetries + 1) + MaxAgentRetries + 1
  BY DEF MaxRequests
<1>5. /\ c * (MaxAgentRetries + 1) \in Int /\ MaxRetries * (MaxAgentRetries + 1) \in Int
      /\ MaxRequests \in Int
  BY DEF MaxRequests
<1> QED
  BY <1>1, <1>2, <1>3, <1>4, <1>5 DEF Balanced

-----------------------------------------------------------------------------
LEMMA ChoicesAreRegistered ==
    ASSUME Types, NEW required, NEW preferred, NEW i \in Choices(required, preferred)
    PROVE  i \in DOMAIN registry /\ registry[i].model \in Models
<1>1. i \in DOMAIN registry
  BY DEF Choices
<1>2. registry \in Seq(Profile)
  BY DEF Types
<1>3. registry[i] \in Profile
  BY <1>1, <1>2
<1> QED
  BY <1>1, <1>3 DEF Profile

LEMMA RoundEnds ==
    ASSUME Inv, NEW r \in 0 .. MaxRetries, NEW w, NEW h \in Tallies,
           RoundFails(r, w, h), AllFailed(h, 0), h.sent <= MaxRequests,
           IF key THEN Balanced(r + 1, 0, h) ELSE h = NoTally,
           key' = key, registry' = registry, model' \in Models \cup {NoModel},
           round' = r, attempt' \in 1 .. MaxAgentRetries + 1
    PROVE  Inv'
<1>1. CASE r < MaxRetries
  <2>1. pc' = "backing_off" /\ tally' = h /\ outcome' = "none"
    BY <1>1 DEF RoundFails
  <2> QED
    BY <1>1, <2>1 DEF Inv, Types, Tallies, Outcomes, RequestsAreBounded, MaxRequests, Balanced, AllFailed
<1>2. CASE r = MaxRetries
  <2>1. pc' = "idle" /\ tally' = h /\ outcome' = "exhausted"
    BY <1>2 DEF RoundFails
  <2> QED
    BY <1>2, <2>1 DEF Inv, Types, Tallies, Outcomes, RequestsAreBounded, MaxRequests, Balanced, AllFailed
<1> QED
  BY <1>1, <1>2

LEMMA RequestStep ==
    ASSUME Inv, key, NEW w, NEW h \in Tallies, Request(w, h), AllFailed(h, 0),
           key' = key, registry' = registry, model' \in Models \cup {NoModel},
           round' \in 0 .. MaxRetries, attempt' \in 1 .. MaxAgentRetries + 1,
           Balanced(round', attempt' - 1, h)
    PROVE  Inv'
<1>1. attempt' - 1 \in 0 .. MaxAgentRetries
  <2>1. \A a \in 1 .. MaxAgentRetries + 1 : a - 1 \in 0 .. MaxAgentRetries
    OBVIOUS
  <2> QED
    BY <2>1
<1>2. h.transient + h.final + 1 <= MaxRequests
  <2>1. \A c \in 0 .. MaxRetries, f \in 0 .. MaxAgentRetries :
            Balanced(c, f, h) => h.transient + h.final + 1 <= MaxRequests
    BY FailuresAreBounded
  <2> QED
    BY <1>1, <2>1
<1>3. /\ tally' = Counted(h.sent + 1, h.transient, h.final) /\ tally' \in Tallies
      /\ tally'.sent = h.sent + 1 /\ tally'.transient = h.transient /\ tally'.final = h.final
  BY DEF Request, Tallies, Counted
<1>4. RequestsAreBounded' /\ AllFailed(tally', 1) /\ Balanced(round', attempt' - 1, tally')
  BY <1>2, <1>3 DEF RequestsAreBounded, AllFailed, Tallies, MaxRequests, Balanced
<1>5. Types'
  BY <1>3 DEF Inv, Types, Request, Outcomes, Tallies
<1>6. pc' = "requesting" /\ outcome' = "none"
  BY DEF Request
<1> QED
  BY <1>4, <1>5, <1>6 DEF Inv

LEMMA NothingYet == NoTally \in Tallies /\ AllFailed(NoTally, 0) /\ Balanced(0, 0, NoTally)
<1>1. 0 * (MaxAgentRetries + 1) = 0 /\ 0 * MaxAgentRetries = 0
  OBVIOUS
<1> QED
  BY <1>1 DEF NoTally, Counted, Tallies, AllFailed, Balanced

LEMMA StartRoundStep ==
    ASSUME Inv, NEW r \in 0 .. MaxRetries, NEW w, NEW h \in Tallies, StartRound(r, w, h),
           AllFailed(h, 0), IF key THEN Balanced(r, 0, h) ELSE h = NoTally,
           key' = key, registry' = registry, model' \in Models \cup {NoModel}
    PROVE  Inv'
<1>1. round' = r /\ attempt' = 1
  BY DEF StartRound
<1>2. CASE key
  <2>1. Request(w, h)
    BY <1>2 DEF StartRound
  <2>2. Balanced(round', attempt' - 1, h)
    BY <1>1, <1>2
  <2> QED
    BY <1>1, <1>2, <2>1, <2>2, RequestStep
<1>3. CASE ~key
  <2>1. RoundFails(r, w, h)
    BY <1>3 DEF StartRound
  <2>2. h.sent <= MaxRequests
    BY <1>3 DEF NoTally, Counted, MaxRequests
  <2> QED
    BY <1>1, <1>3, <2>1, <2>2, RoundEnds
<1> QED
  BY <1>2, <1>3

-----------------------------------------------------------------------------
LEMMA TypesOfInv ==
    ASSUME Inv
    PROVE  /\ Types /\ tally \in Tallies /\ round \in 0 .. MaxRetries
           /\ attempt \in 1 .. MaxAgentRetries + 1 /\ model \in Models \cup {NoModel}
BY DEF Inv, Types, Tallies

LEMMA RegisterStep == ASSUME Inv, NEW p \in Profile, Register(p) PROVE Inv'
<1>1. registry' \in Seq(Profile)
  <2>1. registry \in Seq(Profile)
    BY TypesOfInv DEF Types
  <2>2. CASE \E i \in DOMAIN registry : registry[i].model = p.model
    <3>1. registry' = [i \in 1 .. Len(registry) |->
                          IF registry[i].model = p.model THEN p ELSE registry[i]]
      BY <2>1, <2>2 DEF Register
    <3>2. \A i \in 1 .. Len(registry) :
             (IF registry[i].model = p.model THEN p ELSE registry[i]) \in Profile
      BY <2>1
    <3> QED
      BY <2>1, <3>1, <3>2
  <2>3. CASE ~ \E i \in DOMAIN registry : registry[i].model = p.model
    <3>1. registry' = Append(registry, p)
      BY <2>3 DEF Register
    <3> QED
      BY <2>1, <3>1
  <2> QED
    BY <2>2, <2>3
<1>2. UNCHANGED <<key, model, pc, round, attempt, outcome, waited, tally>>
  BY DEF Register
<1> QED
  BY <1>1, <1>2 DEF Inv, Types, RequestsAreBounded, AllFailed, Balanced

LEMMA ExecuteStep ==
    ASSUME Inv, NEW required, NEW preferred, Execute(required, preferred)
    PROVE  Inv'
<1>1. key' = key /\ registry' = registry
  BY DEF Execute
<1>2. ASSUME NEW i \in Choices(required, preferred), model' = registry[i].model,
             StartRound(0, 0, NoTally)
      PROVE  Inv'
  <2>1. model' \in Models \cup {NoModel}
    BY <1>2, ChoicesAreRegistered, TypesOfInv
  <2> QED
    BY <1>1, <1>2, <2>1, NothingYet, StartRoundStep
<1>3. CASE /\ model' = NoModel /\ outcome' = "no_model" /\ tally' = NoTally
           /\ pc = "idle" /\ UNCHANGED <<pc, round, attempt>>
  BY <1>1, <1>3, NothingYet
     DEF Inv, Types, Tallies, Outcomes, RequestsAreBounded, MaxRequests, NoTally, Counted
<1> QED
  BY <1>2, <1>3 DEF Execute

LEMMA FailsForNowStep == ASSUME Inv, NEW headers, FailsForNow(headers) PROVE Inv'
<1> DEFINE h == Counted(tally.sent, tally.transient + 1, tally.final)
<1>1. /\ h \in Tallies /\ tally \in Tallies
      /\ h.sent = tally.sent /\ h.transient = tally.transient + 1 /\ h.final = tally.final
  BY TypesOfInv DEF Tallies, Counted
<1>2. /\ pc = "requesting" /\ key /\ outcome = "none"
      /\ UNCHANGED <<key, registry, model, round, attempt>>
  BY DEF FailsForNow, Inv
<1>3. AllFailed(h, 0) /\ h.sent <= MaxRequests /\ Balanced(round, attempt - 1, tally)
  BY <1>1, <1>2 DEF Inv, AllFailed, Tallies, RequestsAreBounded
<1>4. CASE attempt <= MaxAgentRetries /\ pc' = "pausing" /\ tally' = h /\ outcome' = outcome
  <2>1. Balanced(round, attempt, h)
    <3>1. tally.final \in Nat /\ tally.transient \in Nat /\ attempt \in Nat
      BY TypesOfInv DEF Tallies
    <3>2. h.transient - attempt = tally.transient - (attempt - 1)
      BY <1>1, <3>1
    <3> QED
      BY <1>1, <1>3, <3>2 DEF Balanced
  <2> QED
    BY <1>1, <1>2, <1>3, <1>4, <2>1, TypesOfInv
       DEF Inv, Types, Tallies, RequestsAreBounded
<1>5. CASE attempt > MaxAgentRetries /\ RoundFails(round, waited, h)
  <2>1. attempt - 1 = MaxAgentRetries
    BY <1>5, TypesOfInv
  <2>2. \A c \in Nat : Balanced(c, MaxAgentRetries, tally) => Balanced(c + 1, 0, h)
    BY <1>1, LastAttempt
  <2>3. Balanced(round + 1, 0, h)
    BY <1>3, <2>1, <2>2, TypesOfInv
  <2> QED
    BY <1>1, <1>2, <1>3, <1>5, <2>3, TypesOfInv, RoundEnds
<1> QED
  BY <1>4, <1>5 DEF FailsForNow

LEMMA RefusedStep == ASSUME Inv, Refused PROVE Inv'
<1> DEFINE h == Counted(tally.sent, tally.transient, tally.final + 1)
<1>1. /\ h \in Tallies /\ tally \in Tallies
      /\ h.sent = tally.sent /\ h.transient = tally.transient /\ h.final = tally.final + 1
  BY TypesOfInv DEF Tallies, Counted
<1>2. pc = "requesting" /\ key /\ UNCHANGED <<key, registry, model, round, attempt>>
  BY DEF Refused, Inv
<1>3. AllFailed(h, 0) /\ h.sent <= MaxRequests /\ Balanced(round, attempt - 1, tally)
  BY <1>1, <1>2 DEF Inv, AllFailed, Tallies, RequestsAreBounded
<1>4. attempt - 1 \in 0 .. MaxAgentRetries
  BY TypesOfInv
<1>5. \A c \in Nat, f \in 0 .. MaxAgentRetries : Balanced(c, f, tally) => Balanced(c + 1, 0, h)
  BY <1>1, FinalFailure
<1>6. Balanced(round + 1, 0, h)
  BY <1>3, <1>4, <1>5, TypesOfInv
<1> QED
  BY <1>1, <1>2, <1>3, <1>6, TypesOfInv, RoundEnds DEF Refused

LEMMA EndingStep ==
    ASSUME Inv, pc' = "idle", outcome' \in {"answered", "bad_output", "stray", "cancelled"},
           UNCHANGED <<key, registry, model, round, attempt, tally>>
    PROVE  Inv'
BY DEF Inv, Types, Outcomes, RequestsAreBounded

LEMMA RetryStep == ASSUME Inv, Retry PROVE Inv'
<1>1. /\ pc = "pausing" /\ key /\ attempt' = attempt + 1 /\ Request(waited, tally)
      /\ UNCHANGED <<key, registry, model, round>>
  BY DEF Retry, Inv
<1>2. AllFailed(tally, 0) /\ Balanced(round, attempt, tally) /\ attempt <= MaxAgentRetries
  BY <1>1 DEF Inv
<1>3. attempt' \in 1 .. MaxAgentRetries + 1 /\ attempt' - 1 = attempt
  BY <1>1, <1>2, TypesOfInv
<1>4. Balanced(round', attempt' - 1, tally)
  BY <1>1, <1>2, <1>3
<1> QED
  BY <1>1, <1>2, <1>3, <1>4, TypesOfInv, RequestStep

LEMMA NextRoundStep == ASSUME Inv, NextRound PROVE Inv'
<1>1. /\ pc = "backing_off" /\ StartRound(round + 1, waited, tally)
      /\ UNCHANGED <<key, registry, model>>
  BY DEF NextRound
<1>2. /\ round < MaxRetries /\ AllFailed(tally, 0)
      /\ IF key THEN Balanced(round + 1, 0, tally) ELSE tally = NoTally
  BY <1>1 DEF Inv
<1>3. round + 1 \in 0 .. MaxRetries
  BY <1>2, TypesOfInv
<1> QED
  BY <1>1, <1>2, <1>3, TypesOfInv, StartRoundStep

-----------------------------------------------------------------------------
LEMMA InvHolds == Spec => []Inv
<1>1. Init => Inv
  <2> SUFFICES ASSUME Init PROVE Inv
    OBVIOUS
  <2>1. registry \in Seq(Profile)
    BY DEF Init
  <2> QED
    BY <2>1 DEF Init, Inv, Types, Outcomes, NoTally, Counted, RequestsAreBounded, MaxRequests
<1>2. Inv /\ [Next]_vars => Inv'
  <2> SUFFICES ASSUME Inv, [Next]_vars PROVE Inv'
    OBVIOUS
  <2>1. CASE \E p \in Profile : Register(p)
    BY <2>1, RegisterStep
  <2>2. CASE \E required \in SUBSET Capabilities, preferred \in Models \cup {NoModel} :
                Execute(required, preferred)
    BY <2>2, ExecuteStep
  <2>3. CASE NoResponse \/ Busy
    BY <2>3, FailsForNowStep DEF NoResponse, Busy
  <2>4. CASE Refused
    BY <2>4, RefusedStep
  <2>5. CASE Answered \/ Strays \/ Cancel
    BY <2>5, EndingStep DEF Answered, Strays, Cancel
  <2>6. CASE Retry
    BY <2>6, RetryStep
  <2>7. CASE NextRound
    BY <2>7, NextRoundStep
  <2>8. CASE UNCHANGED vars
    BY <2>8 DEF vars, Inv, Types, RequestsAreBounded, AllFailed, Balanced
  <2> QED
    BY <2>1, <2>2, <2>3, <2>4, <2>5, <2>6, <2>7, <2>8 DEF Next, Reply
<1> QED
  BY <1>1, <1>2, PTL DEF Spec

(* No call sends more requests than the product of its two loops.          *)
THEOREM RequestsBounded == Spec => []RequestsAreBounded
BY InvHolds, PTL DEF Inv

(* No call gives up while there is an attempt or a round left to it.       *)
THEOREM RetriesUsed == Spec => []RetriesAreUsed
<1>1. Inv => RetriesAreUsed
  <2> SUFFICES ASSUME Inv, outcome = "exhausted", key
               PROVE  /\ tally.final <= MaxRetries + 1
                      /\ tally.transient >= (MaxRetries + 1 - tally.final) * (MaxAgentRetries + 1)
                      /\ tally.transient <= (MaxRetries + 1 - tally.final) * (MaxAgentRetries + 1)
                                              + tally.final * MaxAgentRetries
    BY DEF RetriesAreUsed
  <2> DEFINE rounds == MaxRetries + 1
  <2>1. Balanced(rounds, 0, tally) /\ rounds \in Nat
    BY DEF Inv
  <2> HIDE DEF rounds
  <2>2. /\ tally.final <= rounds
        /\ tally.transient >= (rounds - tally.final) * (MaxAgentRetries + 1)
        /\ tally.transient <= (rounds - tally.final) * (MaxAgentRetries + 1)
                                + tally.final * MaxAgentRetries
    BY <2>1, TypesOfInv, WhenOver
  <2>3. tally.final \in Nat /\ tally.transient \in Nat
    BY TypesOfInv DEF Tallies
  <2> QED
    BY <2>2, <2>3 DEF rounds
<1> QED
  BY <1>1, InvHolds, PTL

(* A request that is not in flight has failed, while its call goes on.     *)
THEOREM NoAnswerWasted == Spec => []NoAnswerIsWasted
<1>1. Inv => NoAnswerIsWasted
  <2> SUFFICES ASSUME Inv PROVE NoAnswerIsWasted
    OBVIOUS
  <2>1. tally.sent \in Nat /\ tally.transient \in Nat /\ tally.final \in Nat
    BY TypesOfInv DEF Tallies
  <2> QED
    BY <2>1 DEF Inv, NoAnswerIsWasted, AllFailed
<1> QED
  BY <1>1, InvHolds, PTL

(* A call asks the model preferred, if it will do, or the best that will.  *)
THEOREM BestFitAsked == Spec => TheBestFitIsAsked
<1>1. ASSUME NEW required \in SUBSET Capabilities, NEW preferred \in Models \cup {NoModel},
             Execute(required, preferred), model' # NoModel, Inv
      PROVE  \E i \in DOMAIN registry :
                /\ registry[i].model = model'
                /\ Fits(registry[i], required)
                /\ model' # preferred =>
                      \A j \in DOMAIN registry : Fits(registry[j], required) =>
                          /\ registry[j].model # preferred
                          /\ registry[j].class >= registry[i].class
  <2>1. PICK i \in Choices(required, preferred) : model' = registry[i].model
    BY <1>1 DEF Execute
  <2>2. registry \in Seq(Profile)
    BY <1>1, TypesOfInv DEF Types
  <2>3. ASSUME NEW j \in DOMAIN registry PROVE registry[j].class \in Nat
    <3>1. registry[j] \in Profile
      BY <2>2
    <3> QED
      BY <3>1 DEF Profile
  <2>4. CASE registry[i].model = preferred /\ Fits(registry[i], required)
    BY <2>1, <2>4 DEF Choices
  <2>5. CASE ~(registry[i].model = preferred /\ Fits(registry[i], required))
    <3>1. /\ IsCheapest(i, required) /\ i \in DOMAIN registry
          /\ \A j \in DOMAIN registry :
                 ~(registry[j].model = preferred /\ Fits(registry[j], required))
      BY <2>1, <2>5 DEF Choices
    <3>2. \A j \in DOMAIN registry :
             Fits(registry[j], required) => registry[j].class >= registry[i].class
      BY <2>3, <3>1 DEF IsCheapest
    <3> QED
      BY <2>1, <3>1, <3>2 DEF IsCheapest
  <2> QED
    BY <2>4, <2>5
<1>2. Inv /\ [Next]_vars =>
        [\A required \in SUBSET Capabilities, preferred \in Models \cup {NoModel} :
            Execute(required, preferred) /\ model' # NoModel =>
               \E i \in DOMAIN registry :
                  /\ registry[i].model = model'
                  /\ Fits(registry[i], required)
                  /\ model' # preferred =>
                        \A j \in DOMAIN registry : Fits(registry[j], required) =>
                            /\ registry[j].model # preferred
                            /\ registry[j].class >= registry[i].class]_vars
  BY <1>1
<1> QED
  BY <1>2, InvHolds, PTL DEF Spec, TheBestFitIsAsked

-----------------------------------------------------------------------------
(* Powers of two, from the subsets of 1 .. n that they count.              *)
TwoTo(n) == 2 ^ n

LEMMA Powers ==
    ASSUME NEW n \in Nat
    PROVE  /\ IsFiniteSet(SUBSET (1 .. n)) /\ Cardinality(SUBSET (1 .. n)) = TwoTo(n)
           /\ TwoTo(n) \in Nat
<1>1. IsFiniteSet(1 .. n) /\ Cardinality(1 .. n) = n
  BY FS_Interval
<1>2. IsFiniteSet(SUBSET (1 .. n)) /\ Cardinality(SUBSET (1 .. n)) = TwoTo(n)
  BY <1>1, FS_SUBSET DEF TwoTo
<1> QED
  BY <1>2, FS_CardinalityType

LEMMA PowerType == \A n \in Nat : TwoTo(n) \in Nat
BY Powers

LEMMA PowersGrow ==
    ASSUME NEW n \in Nat, NEW m \in Nat, n <= m
    PROVE  TwoTo(n) <= TwoTo(m)
<1>1. SUBSET (1 .. n) \subseteq SUBSET (1 .. m)
  OBVIOUS
<1>2. /\ IsFiniteSet(SUBSET (1 .. m)) /\ Cardinality(SUBSET (1 .. m)) = TwoTo(m)
      /\ Cardinality(SUBSET (1 .. n)) = TwoTo(n)
  BY Powers
<1>3. Cardinality(SUBSET (1 .. n)) <= Cardinality(SUBSET (1 .. m))
  BY <1>1, <1>2, FS_Subset
<1> QED
  BY <1>2, <1>3

(* As many subsets have the last element as have it not.                   *)
LEMMA NextPower ==
    ASSUME NEW n \in Nat
    PROVE  TwoTo(n + 1) = TwoTo(n) + TwoTo(n)
<1> DEFINE P == SUBSET (1 .. n)
           Q == {A \cup {n + 1} : A \in P}
           f == [A \in P |-> A \cup {n + 1}]
<1>1. \A A \in P : n + 1 \notin A
  OBVIOUS
<1>2. f \in Bijection(P, Q)
  <2>1. f \in [P -> Q] /\ \A A \in P : f[A] = A \cup {n + 1}
    OBVIOUS
  <2>2. \A B \in Q : \E A \in P : f[A] = B
    BY <2>1
  <2>3. ASSUME NEW A \in P, NEW B \in P, f[A] = f[B]
        PROVE  A = B
    <3>1. A \cup {n + 1} = B \cup {n + 1} /\ n + 1 \notin A /\ n + 1 \notin B
      BY <1>1, <2>1, <2>3
    <3> QED
      BY <3>1
  <2> HIDE DEF f, P, Q
  <2> QED
    BY <2>1, <2>2, <2>3 DEF Bijection, Injection, Surjection, IsInjective
<1>3. P \cap Q = {}
  BY <1>1
<1>4. SUBSET (1 .. n + 1) = P \cup Q
  <2>1. P \cup Q \subseteq SUBSET (1 .. n + 1)
    <3>1. 1 .. n \subseteq 1 .. n + 1 /\ n + 1 \in 1 .. n + 1
      OBVIOUS
    <3>2. \A A \in P : A \subseteq 1 .. n + 1 /\ A \cup {n + 1} \subseteq 1 .. n + 1
      BY <3>1
    <3> QED
      BY <3>2
  <2>2. ASSUME NEW A \in SUBSET (1 .. n + 1)
        PROVE  A \in P \cup Q
    <3>1. CASE n + 1 \in A
      <4>1. A \ {n + 1} \in P /\ A = (A \ {n + 1}) \cup {n + 1}
        BY <3>1
      <4> QED
        BY <4>1
    <3>2. CASE n + 1 \notin A
      <4>1. A \in P
        BY <3>2
      <4> QED
        BY <4>1
    <3> QED
      BY <3>1, <3>2
  <2> QED
    BY <2>1, <2>2
<1>5. IsFiniteSet(P) /\ Cardinality(P) = TwoTo(n)
  BY Powers
<1>6. Cardinality(SUBSET (1 .. n + 1)) = TwoTo(n + 1)
  BY Powers
<1> HIDE DEF P, Q, f
<1>7. IsFiniteSet(Q) /\ Cardinality(Q) = TwoTo(n)
  BY <1>2, <1>5, FS_Bijection DEF ExistsBijection
<1>8. Cardinality(P \cup Q) = Cardinality(P) + Cardinality(Q) - Cardinality(P \cap Q)
  BY <1>5, <1>7, FS_Union
<1>9. Cardinality(P \cap Q) = 0
  BY <1>3, FS_EmptySet
<1>10. TwoTo(n) \in Nat /\ TwoTo(n + 1) \in Nat
  BY PowerType
<1>11. Cardinality(P \cup Q) = TwoTo(n + 1)
  BY <1>4, <1>6
<1> QED
  BY <1>5, <1>7, <1>8, <1>9, <1>10, <1>11

-----------------------------------------------------------------------------
(* How long a call has slept at most, r rounds and p pauses of the next    *)
(* having passed: the doublings of the rounds add up to 2 ^ r - 1.         *)
Sleeps(r, p) == (r * MaxAgentRetries + p) * MaxPause + TwoTo(r) - 1

Slept ==
    /\ waited \in Nat
    /\ pc = "requesting" => waited <= Sleeps(round, attempt - 1)
    /\ pc = "pausing" => waited <= Sleeps(round, attempt)
    /\ pc = "backing_off" => waited <= Sleeps(round + 1, 0)
    /\ pc = "idle" => waited <= Sleeps(MaxRetries, MaxAgentRetries)

LEMMA SleepsType ==
    ASSUME NEW r \in Nat, NEW p \in Nat
    PROVE  Sleeps(r, p) \in Nat
<1>1. TwoTo(r) \in Nat /\ TwoTo(r) >= 1
  <2>1. TwoTo(0) = 1
    BY DEF TwoTo
  <2> QED
    BY <2>1, PowerType, PowersGrow
<1>2. (r * MaxAgentRetries + p) * MaxPause \in Nat
  <2>1. r * MaxAgentRetries + p \in Nat
    OBVIOUS
  <2> QED
    BY <2>1 DEF MaxPause
<1> QED
  BY <1>1, <1>2 DEF Sleeps

LEMMA SleepsGrow ==
    ASSUME NEW r \in Nat, NEW s \in Nat, r <= s, NEW p \in Nat, NEW q \in Nat, p <= q
    PROVE  Sleeps(r, p) <= Sleeps(s, q)
<1>1. TwoTo(r) \in Nat /\ TwoTo(s) \in Nat /\ TwoTo(r) <= TwoTo(s)
  BY PowerType, PowersGrow
<1>2. r * MaxAgentRetries <= s * MaxAgentRetries
  <2>1. s * MaxAgentRetries = r * MaxAgentRetries + (s - r) * MaxAgentRetries
    OBVIOUS
  <2>2. (s - r) * MaxAgentRetries >= 0
    OBVIOUS
  <2> QED
    BY <2>1, <2>2
<1>3. r * MaxAgentRetries \in Nat /\ s * MaxAgentRetries \in Nat
  OBVIOUS
<1> QED
  BY <1>1, <1>2, <1>3 DEF Sleeps, MaxPause

(* A pause more, and a round more.                                         *)
LEMMA SleepsAdd ==
    ASSUME NEW r \in Nat, NEW p \in Nat
    PROVE  /\ Sleeps(r, p + 1) = Sleeps(r, p) + MaxPause
           /\ Sleeps(r + 1, 0) = Sleeps(r, MaxAgentRetries) + TwoTo(r)
<1>1. TwoTo(r) \in Nat /\ TwoTo(r + 1) = TwoTo(r) + TwoTo(r)
  BY PowerType, NextPower
<1>2. r * MaxAgentRetries \in Nat /\ (r + 1) * MaxAgentRetries = r * MaxAgentRetries + MaxAgentRetries
  OBVIOUS
<1> QED
  BY <1>1, <1>2 DEF Sleeps, MaxPause

LEMMA RoundFailsSlept ==
    ASSUME NEW r \in 0 .. MaxRetries, NEW w \in Nat, w <= Sleeps(r, MaxAgentRetries), NEW h,
           RoundFails(r, w, h), round' = r
    PROVE  Slept'
<1>1. TwoTo(r) \in Nat /\ Sleeps(r + 1, 0) = Sleeps(r, MaxAgentRetries) + TwoTo(r)
  BY PowerType, SleepsAdd
<1>2. Sleeps(r, MaxAgentRetries) \in Nat
  BY SleepsType
<1>3. CASE r < MaxRetries /\ pc' = "backing_off" /\ waited' = w + TwoTo(r)
  BY <1>1, <1>2, <1>3 DEF Slept
<1>4. CASE r = MaxRetries /\ pc' = "idle" /\ waited' = w
  BY <1>4 DEF Slept
<1> QED
  BY <1>3, <1>4 DEF RoundFails, TwoTo

LEMMA StartRoundSlept ==
    ASSUME NEW r \in 0 .. MaxRetries, NEW w \in Nat, w <= Sleeps(r, 0), NEW h,
           StartRound(r, w, h)
    PROVE  Slept'
<1>1. round' = r /\ attempt' = 1
  BY DEF StartRound
<1>2. CASE Request(w, h)
  BY <1>1, <1>2 DEF Slept, Request
<1>3. CASE RoundFails(r, w, h)
  <2>1. Sleeps(r, 0) <= Sleeps(r, MaxAgentRetries)
    BY SleepsGrow
  <2>2. Sleeps(r, 0) \in Nat /\ Sleeps(r, MaxAgentRetries) \in Nat
    <3>1. r \in Nat /\ MaxAgentRetries \in Nat
      OBVIOUS
    <3> QED
      BY <3>1, SleepsType
  <2> QED
    BY <1>1, <1>3, <2>1, <2>2, RoundFailsSlept
<1> QED
  BY <1>2, <1>3 DEF StartRound

(* In every state the call has slept no longer than a call may.            *)
LEMMA SleptEnough ==
    ASSUME Inv, Slept
    PROVE  waited <= Sleeps(MaxRetries, MaxAgentRetries)
<1>1. /\ round \in 0 .. MaxRetries /\ attempt \in 1 .. MaxAgentRetries + 1
      /\ pc \in {"idle", "requesting", "pausing", "backing_off"}
  BY DEF Inv, Types
<1>2. Sleeps(MaxRetries, MaxAgentRetries) \in Nat /\ waited \in Nat
  BY SleepsType DEF Slept
<1>3. ASSUME NEW r \in 0 .. MaxRetries, NEW p \in 0 .. MaxAgentRetries, waited <= Sleeps(r, p)
      PROVE  waited <= Sleeps(MaxRetries, MaxAgentRetries)
  BY <1>2, <1>3, SleepsGrow, SleepsType
<1>4. CASE pc = "requesting"
  <2>1. waited <= Sleeps(round, attempt - 1) /\ attempt - 1 \in 0 .. MaxAgentRetries
    BY <1>1, <1>4 DEF Slept
  <2> QED
    BY <1>1, <1>3, <2>1
<1>5. CASE pc = "pausing"
  <2>1. waited <= Sleeps(round, attempt) /\ attempt \in 0 .. MaxAgentRetries
    BY <1>1, <1>5 DEF Slept, Inv
  <2> QED
    BY <1>1, <1>3, <2>1
<1>6. CASE pc = "backing_off"
  <2>1. waited <= Sleeps(round + 1, 0) /\ round + 1 \in 0 .. MaxRetries
    BY <1>1, <1>6 DEF Slept, Inv
  <2> QED
    BY <1>3, <2>1
<1> QED
  BY <1>1, <1>4, <1>5, <1>6 DEF Slept

(* No pause is longer than MaxPause.                                       *)
LEMMA PauseBound ==
    ASSUME attempt \in Nat \ {0}, NEW headers \in SUBSET RetryAfters, NEW pause \in Pauses(headers)
    PROVE  pause \in 0 .. MaxPause
<1>1. Doubling(attempt) \in 0 .. MaxPause
  <2>1. TwoTo(attempt - 1) \in Nat
    BY PowerType
  <2> QED
    BY <2>1 DEF Doubling, Lesser, MaxPause, TwoTo
<1>2. ASSUME NEW after \in headers
      PROVE  (IF after < 0 THEN 0 ELSE Lesser(after, MaxPause)) \in 0 .. MaxPause
  BY DEF Lesser, MaxPause
<1> QED
  BY <1>1, <1>2 DEF Pauses

LEMMA FailsForNowSlept ==
    ASSUME Inv, Slept, NEW headers \in SUBSET RetryAfters, FailsForNow(headers)
    PROVE  Slept'
<1>1. /\ round \in 0 .. MaxRetries /\ attempt \in 1 .. MaxAgentRetries + 1
      /\ waited \in Nat /\ pc = "requesting" /\ waited <= Sleeps(round, attempt - 1)
      /\ round' = round /\ attempt' = attempt
  BY DEF Inv, Types, Slept, FailsForNow
<1>2. Sleeps(round, attempt) = Sleeps(round, attempt - 1) + MaxPause
  <2>1. attempt - 1 \in Nat /\ (attempt - 1) + 1 = attempt /\ round \in Nat
    BY <1>1
  <2>2. Sleeps(round, (attempt - 1) + 1) = Sleeps(round, attempt - 1) + MaxPause
    BY <2>1, SleepsAdd
  <2> QED
    BY <2>1, <2>2
<1>3. Sleeps(round, attempt - 1) \in Nat
  BY <1>1, SleepsType
<1>4. CASE pc' = "pausing" /\ \E pause \in Pauses(headers) : waited' = waited + pause
  <2>1. PICK pause \in 0 .. MaxPause : waited' = waited + pause
    BY <1>1, <1>4, PauseBound
  <2>2. waited' \in Nat /\ waited' <= Sleeps(round, attempt)
    BY <1>1, <1>2, <1>3, <2>1 DEF MaxPause
  <2> QED
    BY <1>1, <1>4, <2>2 DEF Slept
<1>5. CASE attempt > MaxAgentRetries /\ \E h : RoundFails(round, waited, h)
  <2>1. attempt - 1 = MaxAgentRetries
    BY <1>1, <1>5
  <2> QED
    BY <1>1, <1>5, <2>1, RoundFailsSlept
<1> QED
  BY <1>4, <1>5 DEF FailsForNow

LEMMA SleptStep == ASSUME Inv, Slept, [Next]_vars PROVE Slept'
<1>1. /\ round \in 0 .. MaxRetries /\ attempt \in 1 .. MaxAgentRetries + 1 /\ waited \in Nat
  BY DEF Inv, Types, Slept
<1>2. CASE \E p \in Profile : Register(p)
  BY <1>2 DEF Register, Slept
<1>3. ASSUME NEW required, NEW preferred, Execute(required, preferred)
      PROVE  Slept'
  <2>1. CASE StartRound(0, 0, NoTally)
    <3>1. 0 <= Sleeps(0, 0)
      BY SleepsType
    <3> QED
      BY <2>1, <3>1, StartRoundSlept
  <2>2. CASE waited' = 0 /\ pc' = pc
    <3>1. pc' = "idle"
      BY <1>3, <2>2 DEF Execute
    <3>2. 0 <= Sleeps(MaxRetries, MaxAgentRetries)
      BY SleepsType
    <3> QED
      BY <2>2, <3>1, <3>2 DEF Slept
  <2> QED
    BY <1>3, <2>1, <2>2 DEF Execute
<1>4. CASE NoResponse \/ Busy
  BY <1>4, FailsForNowSlept DEF NoResponse, Busy
<1>5. CASE Refused
  <2>1. attempt - 1 \in 0 .. MaxAgentRetries /\ waited <= Sleeps(round, attempt - 1)
    BY <1>1, <1>5 DEF Refused, Slept
  <2>2. Sleeps(round, attempt - 1) <= Sleeps(round, MaxAgentRetries)
    BY <1>1, <2>1, SleepsGrow
  <2>3. Sleeps(round, attempt - 1) \in Nat /\ Sleeps(round, MaxAgentRetries) \in Nat
    <3>1. round \in Nat /\ attempt - 1 \in Nat /\ MaxAgentRetries \in Nat
      BY <1>1, <2>1
    <3> QED
      BY <3>1, SleepsType
  <2>4. waited <= Sleeps(round, MaxAgentRetries) /\ round' = round
    BY <1>1, <1>5, <2>1, <2>2, <2>3 DEF Refused
  <2> QED
    BY <1>1, <1>5, <2>4, RoundFailsSlept DEF Refused
<1>6. CASE Answered \/ Strays \/ Cancel
  <2>1. pc' = "idle" /\ waited' = waited
    BY <1>6 DEF Answered, Strays, Cancel
  <2> QED
    BY <1>1, <2>1, SleptEnough DEF Slept
<1>7. CASE Retry
  <2>1. /\ pc = "pausing" /\ pc' = "requesting" /\ waited' = waited /\ round' = round
        /\ attempt' - 1 = attempt
    BY <1>1, <1>7 DEF Retry, Request
  <2> QED
    BY <1>1, <2>1 DEF Slept
<1>8. CASE NextRound
  <2>1. pc = "backing_off" /\ waited <= Sleeps(round + 1, 0) /\ round + 1 \in 0 .. MaxRetries
    BY <1>1, <1>8 DEF NextRound, Slept, Inv
  <2> QED
    BY <1>1, <1>8, <2>1, StartRoundSlept DEF NextRound
<1>9. CASE UNCHANGED vars
  BY <1>9 DEF vars, Slept
<1> QED
  BY <1>2, <1>3, <1>4, <1>5, <1>6, <1>7, <1>8, <1>9 DEF Next, Reply

LEMMA SleptHolds == Spec => []Slept
<1>1. Init => Slept
  BY SleepsType DEF Init, Slept
<1> QED
  BY <1>1, InvHolds, SleptStep, PTL DEF Spec

(* Types are kept.                                                         *)
THEOREM TypeCorrect == Spec => []TypeOK
<1>1. Inv /\ Slept => TypeOK
  BY DEF Inv, Types, Slept, TypeOK
<1> QED
  BY <1>1, InvHolds, SleptHolds, PTL

(* A call sleeps no longer than the pauses of all its attempts and the     *)
(* doublings of its rounds add up to, whatever the headers of the replies. *)
THEOREM WaitingBounded == Spec => []WaitingIsBounded
<1>1. Sleeps(MaxRetries, MaxAgentRetries)
        = (MaxRetries + 1) * MaxAgentRetries * MaxPause + TwoTo(MaxRetries) - 1
  <2>1. MaxRetries * MaxAgentRetries + MaxAgentRetries = (MaxRetries + 1) * MaxAgentRetries
    OBVIOUS
  <2> QED
    BY <2>1 DEF Sleeps, TwoTo
<1>2. ASSUME Inv, Slept
      PROVE  WaitingIsBounded
  <2>1. waited <= Sleeps(MaxRetries, MaxAgentRetries)
    BY <1>2, SleptEnough
  <2> QED
    BY <1>1, <2>1 DEF WaitingIsBounded, TwoTo
<1> QED
  BY <1>2, InvHolds, SleptHolds, PTL

-----------------------------------------------------------------------------
LEMMA Ending ==
    ASSUME pc # "idle", pc' = "idle", outcome' \in Outcomes \ {"none"}
    PROVE  Awaited!End
<1>1. outcome' \in {"answered", "no_model", "exhausted", "bad_output", "stray", "cancelled"}
  BY DEF Outcomes
<1> QED
  BY <1>1 DEF Awaited!End, Awaited!Results, result

LEMMA RoundFailing ==
    ASSUME pc # "idle", outcome = "none", NEW r, NEW w, NEW h, RoundFails(r, w, h)
    PROVE  Awaited!End \/ UNCHANGED <<pc # "idle", result>>
<1>1. CASE pc' = "backing_off" /\ outcome' = "none"
  BY <1>1 DEF result
<1>2. CASE pc' = "idle" /\ outcome' = "exhausted"
  BY <1>2, Ending DEF Outcomes
<1> QED
  BY <1>1, <1>2 DEF RoundFails

(* Each step of a call is one of the await, or none: nothing can be seen   *)
(* of it between its beginning and its one result.  (That it ends is left  *)
(* to the runs.)                                                           *)
THEOREM Implementation ==
    Spec => Awaited!Init /\ [][Awaited!Next]_<<pc # "idle", result>>
<1>1. Init => Awaited!Init
  BY DEF Init, Awaited!Init, result
<1>2. ASSUME Inv, [Next]_vars
      PROVE  Awaited!Next \/ UNCHANGED <<pc # "idle", result>>
  <2>1. CASE \E p \in Profile : Register(p)
    BY <2>1 DEF Register, result
  <2>2. ASSUME NEW required, NEW preferred, Execute(required, preferred)
        PROVE  Awaited!Next
    <3>1. pc = "idle"
      BY <2>2 DEF Execute
    <3>2. CASE pc' # "idle" /\ outcome' = "none"
      BY <3>1, <3>2 DEF Awaited!Next, Awaited!Await, result
    <3>3. CASE pc' = "idle" /\ outcome' \in {"no_model", "exhausted"}
      BY <3>1, <3>3 DEF Awaited!Next, Awaited!RaiseAtOnce, result
    <3> QED
      BY <2>2, <3>1, <3>2, <3>3 DEF Execute, StartRound, RoundFails, Request
  <2>3. ASSUME NEW headers, FailsForNow(headers)
        PROVE  Awaited!End \/ UNCHANGED <<pc # "idle", result>>
    <3>1. pc = "requesting" /\ outcome = "none"
      BY <1>2, <2>3 DEF FailsForNow, Inv
    <3>2. CASE pc' = "pausing" /\ outcome' = outcome
      BY <3>1, <3>2 DEF result
    <3> QED
      BY <2>3, <3>1, <3>2, RoundFailing DEF FailsForNow
  <2>4. CASE Refused
    BY <1>2, <2>4, RoundFailing DEF Refused, Inv, Awaited!Next
  <2>5. CASE Answered \/ Strays \/ Cancel
    BY <2>5, Ending DEF Answered, Strays, Cancel, Outcomes, Awaited!Next
  <2>6. CASE Retry
    BY <1>2, <2>6 DEF Retry, Request, Inv, result
  <2>7. CASE NextRound
    <3>1. pc = "backing_off" /\ outcome = "none"
      BY <1>2, <2>7 DEF NextRound, Inv
    <3>2. CASE Request(waited, tally)
      BY <3>1, <3>2 DEF Request, result
    <3>3. CASE RoundFails(round + 1, waited, tally)
      BY <3>1, <3>3, RoundFailing DEF Awaited!Next
    <3> QED
      BY <2>7, <3>2, <3>3 DEF NextRound, StartRound
  <2>8. CASE UNCHANGED vars
    BY <2>8 DEF vars, result
  <2> QED
    BY <1>2, <2>1, <2>2, <2>3, <2>4, <2>5, <2>6, <2>7, <2>8
       DEF Next, Reply, NoResponse, Busy, Awaited!Next
<1>3. Inv /\ [Next]_vars => [Awaited!Next]_<<pc # "idle", result>>
  BY <1>2
<1> QED
  BY <1>1, <1>3, InvHolds, PTL DEF Spec

=============================================================================
