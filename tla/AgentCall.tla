------------------------------ MODULE AgentCall ------------------------------
(***************************************************************************)
(* One agent call, AgentExecutor.execute: ModelRouter picks a model of the *)
(* ModelRegistry, and with_backoff repeats NvidiaProvider.complete, which  *)
(* repeats its request.  The two loops know nothing of each other.         *)
(*                                                                         *)
(* AgentExecutionService calls complete without with_backoff: that is the  *)
(* call with MaxRetries = 0 whose answers are not parsed.                  *)
(*                                                                         *)
(* Delays are in quarters of a second.  Left out: how long a request takes.*)
(***************************************************************************)
EXTENDS Integers, Sequences

CONSTANTS
    Models,
    NoModel,           \* None
    Capabilities,
    Classes,           \* of cost and latency, as candidates compares them
    MaxAgentRetries,   \* max_agent_retries of the settings, for complete
    MaxRetries,        \* max_retries of the agent, for with_backoff
    RetryAfters        \* the retry-after headers that are numbers

ASSUME CallAssumption ==
    /\ NoModel \notin Models
    /\ Classes \subseteq Nat
    /\ MaxAgentRetries \in Nat
    /\ MaxRetries \in Nat
    /\ RetryAfters \subseteq Int

VARIABLES
    key,         \* whether NVIDIA_API_KEY is configured
    registry,    \* the profiles, in the order of their registration
    model,       \* the model this call asks
    pc,          \* where the call is suspended; "idle" when there is none
    round,       \* attempt of with_backoff
    attempt,     \* attempt of complete
    outcome,     \* how the last call ended
    waited,      \* history of the call: the time asleep, and the tally of its
    tally        \* requests: all that were sent, those that brought a failure
                 \* that complete tries again, and one that it does not

vars == <<key, registry, model, pc, round, attempt, outcome, waited, tally>>

Profile == [model : Models, capabilities : SUBSET Capabilities, class : Classes, enabled : BOOLEAN]

Outcomes == {"none", "answered", "no_model", "exhausted", "bad_output", "stray", "cancelled"}

Counted(sent, transient, final) == [sent |-> sent, transient |-> transient, final |-> final]

NoTally == Counted(0, 0, 0)

MaxRequests == (MaxAgentRetries + 1) * (MaxRetries + 1)

TypeOK ==
    /\ key \in BOOLEAN
    /\ registry \in Seq(Profile)
    /\ model \in Models \cup {NoModel}
    /\ pc \in {"idle", "requesting", "pausing", "backing_off"}
    /\ round \in 0 .. MaxRetries
    /\ attempt \in 1 .. MaxAgentRetries + 1
    /\ outcome \in Outcomes
    /\ waited \in Nat
    /\ tally \in [sent : Nat, transient : Nat, final : Nat]

Init ==
    /\ key \in BOOLEAN
    /\ registry = <<>>
    /\ model = NoModel
    /\ pc = "idle"
    /\ round = 0
    /\ attempt = 1
    /\ outcome = "none"
    /\ waited = 0
    /\ tally = NoTally

-----------------------------------------------------------------------------
(* register: the profile of a model takes the place of its last one. *)
Register(p) ==
    /\ registry' = IF \E i \in DOMAIN registry : registry[i].model = p.model
                   THEN [i \in DOMAIN registry |->
                           IF registry[i].model = p.model THEN p ELSE registry[i]]
                   ELSE Append(registry, p)
    /\ UNCHANGED <<key, model, pc, round, attempt, outcome, waited, tally>>

Fits(p, required) == p.enabled /\ required \subseteq p.capabilities

(* The first of candidates, sorted by class. *)
IsCheapest(i, required) ==
    /\ Fits(registry[i], required)
    /\ \A j \in DOMAIN registry :
          Fits(registry[j], required) =>
             \/ registry[i].class < registry[j].class
             \/ registry[i].class = registry[j].class /\ i <= j

(* Variants with a slip in them, as each definition below whose name holds *)
(* _Slip: the preferred model is taken as it is.                           *)
Choices_Slip(required, preferred) ==
    LET wished == {i \in DOMAIN registry : registry[i].model = preferred}
    IN  IF wished # {} THEN wished
        ELSE {i \in DOMAIN registry : IsCheapest(i, required)}

(* select: the place in the registry of its choice, none if it raises. *)
Choices(required, preferred) ==
    LET wished == {i \in DOMAIN registry :
                      registry[i].model = preferred /\ Fits(registry[i], required)}
    IN  IF wished # {} THEN wished
        ELSE {i \in DOMAIN registry : IsCheapest(i, required)}

-----------------------------------------------------------------------------
(* An error is reported before the next round. *)
RoundFails_Slip(r, w, h) ==
    \/ /\ r < MaxRetries
       /\ pc' = "backing_off"
       /\ waited' = w + 2 ^ r
       /\ tally' = h
       /\ outcome' = "exhausted"
    \/ /\ r = MaxRetries
       /\ pc' = "idle"
       /\ waited' = w
       /\ tally' = h
       /\ outcome' = "exhausted"

(* complete raises NvidiaProviderError in round r of with_backoff, after   *)
(* sleeping for w, with tally h: with_backoff sleeps as well, or raises    *)
(* RetryExhaustedError.                                                    *)
RoundFails(r, w, h) ==
    \/ /\ r < MaxRetries
       /\ pc' = "backing_off"
       /\ waited' = w + 2 ^ r
       /\ tally' = h
       /\ outcome' = "none"
    \/ /\ r = MaxRetries
       /\ pc' = "idle"
       /\ waited' = w
       /\ tally' = h
       /\ outcome' = "exhausted"

Request(w, h) ==
    /\ pc' = "requesting"
    /\ waited' = w
    /\ tally' = Counted(h.sent + 1, h.transient, h.final)
    /\ outcome' = "none"

(* complete, down to its first request.  Without a key none is sent, and   *)
(* with_backoff takes that for a failure that may pass.                    *)
StartRound(r, w, h) ==
    /\ round' = r
    /\ attempt' = 1
    /\ \/ key /\ Request(w, h)
       \/ ~key /\ RoundFails(r, w, h)

Execute(required, preferred) ==
    /\ pc = "idle"
    /\ \/ \E i \in Choices(required, preferred) :
             /\ model' = registry[i].model
             /\ StartRound(0, 0, NoTally)
       \/ /\ Choices(required, preferred) = {}
          /\ model' = NoModel
          /\ outcome' = "no_model"
          /\ waited' = 0
          /\ tally' = NoTally
          /\ UNCHANGED <<pc, round, attempt>>
    /\ UNCHANGED <<key, registry>>

-----------------------------------------------------------------------------
Lesser(a, b) == IF a < b THEN a ELSE b

Doubling(k) == Lesser(4 * 2 ^ (k - 1), 32)

(* The longest any request may make complete sleep before the next one. *)
MaxPause == 120

(* Before the next attempt: as long as the header of the reply asks for,   *)
(* though no longer than 30 seconds and not at all when it is negative, or *)
(* twice as long as before up to 8 seconds.                                *)
Pauses_Slip(headers) ==
    {Doubling(attempt)} \cup {IF after < 0 THEN 0 ELSE after : after \in headers}

Pauses(headers) ==
    {Doubling(attempt)} \cup {IF after < 0 THEN 0 ELSE Lesser(after, MaxPause) : after \in headers}

(* The last attempt is not made. *)
FailsForNow_Slip(headers) ==
    LET h == Counted(tally.sent, tally.transient + 1, tally.final) IN
    /\ pc = "requesting"
    /\ \/ /\ attempt < MaxAgentRetries
          /\ pc' = "pausing"
          /\ \E pause \in Pauses(headers) : waited' = waited + pause
          /\ tally' = h
          /\ UNCHANGED outcome
       \/ /\ attempt >= MaxAgentRetries
          /\ RoundFails(round, waited, h)
    /\ UNCHANGED <<key, registry, model, round, attempt>>

FailsForNow(headers) ==
    LET h == Counted(tally.sent, tally.transient + 1, tally.final) IN
    /\ pc = "requesting"
    /\ \/ /\ attempt <= MaxAgentRetries
          /\ pc' = "pausing"
          /\ \E pause \in Pauses(headers) : waited' = waited + pause
          /\ tally' = h
          /\ UNCHANGED outcome
       \/ /\ attempt > MaxAgentRetries
          /\ RoundFails(round, waited, h)
    /\ UNCHANGED <<key, registry, model, round, attempt>>

(* No reply in time, or no connection. *)
NoResponse == FailsForNow({})

(* 429 or 5xx. *)
Busy == FailsForNow(RetryAfters)

(* Any other error, or a success that is no completion or has no text.     *)
Refused ==
    /\ pc = "requesting"
    /\ RoundFails(round, waited, Counted(tally.sent, tally.transient, tally.final + 1))
    /\ UNCHANGED <<key, registry, model, round, attempt>>

(* The answer that has not the form that was asked for is asked for again. *)
Answered_Slip ==
    /\ pc = "requesting"
    /\ \/ pc' = "idle" /\ outcome' = "answered" /\ UNCHANGED <<round, attempt, waited, tally>>
       \/ RoundFails(round, waited, tally) /\ UNCHANGED <<round, attempt>>
    /\ UNCHANGED <<key, registry, model>>

(* The answer has the form that was asked for, or it does not, which is    *)
(* not tried again.                                                        *)
Answered ==
    /\ pc = "requesting"
    /\ pc' = "idle"
    /\ outcome' \in {"answered", "bad_output"}
    /\ UNCHANGED <<key, registry, model, round, attempt, waited, tally>>

(* What none of the handlers names: an AttributeError for an error reply   *)
(* whose JSON is no object, whatever its status, or a ValidationError for  *)
(* a completion whose usage or model is null.                              *)
Strays ==
    /\ pc = "requesting"
    /\ pc' = "idle"
    /\ outcome' = "stray"
    /\ UNCHANGED <<key, registry, model, round, attempt, waited, tally>>

(* The attempts are not counted. *)
Retry_Slip ==
    /\ pc = "pausing"
    /\ Request(waited, tally)
    /\ UNCHANGED <<key, registry, model, round, attempt>>

(* The next attempt of complete. *)
Retry ==
    /\ pc = "pausing"
    /\ attempt' = attempt + 1
    /\ Request(waited, tally)
    /\ UNCHANGED <<key, registry, model, round>>

(* The next round of with_backoff: the doubling begins anew. *)
NextRound ==
    /\ pc = "backing_off"
    /\ StartRound(round + 1, waited, tally)
    /\ UNCHANGED <<key, registry, model>>

(* The caller is cancelled, at whatever the call awaits. *)
Cancel ==
    /\ pc # "idle"
    /\ pc' = "idle"
    /\ outcome' = "cancelled"
    /\ UNCHANGED <<key, registry, model, round, attempt, waited, tally>>

Reply == NoResponse \/ Busy \/ Refused \/ Answered \/ Strays

Next ==
    \/ \E p \in Profile : Register(p)
    \/ \E required \in SUBSET Capabilities, preferred \in Models \cup {NoModel} :
          Execute(required, preferred)
    \/ Reply \/ Retry \/ NextRound \/ Cancel

Spec == Init /\ [][Next]_vars

(* A request is answered or times out, and the event loop wakes those that *)
(* sleep.                                                                  *)
FairSpec ==
    /\ Spec
    /\ WF_vars(Reply)
    /\ WF_vars(Retry)
    /\ WF_vars(NextRound)

-----------------------------------------------------------------------------
(* "The provider has bounded retry" (phase-8.md): the two loops multiply,  *)
(* but no call sends more requests than that.                              *)
RequestsAreBounded == tally.sent <= MaxRequests

(* A call does not give up early: when it raises RetryExhaustedError, each *)
(* of its rounds has come to a failure that complete does not try again or *)
(* has used all its attempts up on others.                                 *)
RetriesAreUsed ==
    outcome = "exhausted" /\ key =>
        /\ tally.final <= MaxRetries + 1
        /\ tally.transient >= (MaxRetries + 1 - tally.final) * (MaxAgentRetries + 1)
        /\ tally.transient <= (MaxRetries + 1 - tally.final) * (MaxAgentRetries + 1)
                                + tally.final * MaxAgentRetries

(* No answer is thrown away: while a call goes on, or when it fails, all   *)
(* its requests but the one in flight have failed.                         *)
NoAnswerIsWasted ==
    /\ pc = "requesting" => tally.sent = tally.transient + tally.final + 1
    /\ pc \in {"pausing", "backing_off"} \/ outcome = "exhausted" =>
          tally.sent = tally.transient + tally.final

(* However replies ask to be spared and however the doublings of the loops *)
(* meet, a call sleeps no longer than this.                                *)
WaitingIsBounded ==
    waited <= (MaxRetries + 1) * MaxAgentRetries * MaxPause + 2 ^ MaxRetries - 1

(* Whenever a call begins, the model it asks is enabled and able to do     *)
(* what is required, and none such is better but the one preferred.        *)
TheBestFitIsAsked ==
    [][\A required \in SUBSET Capabilities, preferred \in Models \cup {NoModel} :
          Execute(required, preferred) /\ model' # NoModel =>
             \E i \in DOMAIN registry :
                /\ registry[i].model = model'
                /\ Fits(registry[i], required)
                /\ model' # preferred =>
                      \A j \in DOMAIN registry : Fits(registry[j], required) =>
                          /\ registry[j].model # preferred
                          /\ registry[j].class >= registry[i].class]_vars

(* What the callers of the call see of it. *)
result ==
    CASE outcome = "answered" -> "answer"
      [] outcome \in {"no_model", "exhausted", "bad_output"} -> "failure"
      [] OTHER -> outcome

Awaited == INSTANCE AwaitedCall WITH pending <- pc # "idle"

(* The call is one await, whatever it sends, repeats and sleeps meanwhile. *)
ImplementsAwait == Awaited!Spec
=============================================================================
