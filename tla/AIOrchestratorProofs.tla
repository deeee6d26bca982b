------------------------ MODULE AIOrchestratorProofs ------------------------
(***************************************************************************)
(* Proofs about AIOrchestrator for any number of requests and providers:   *)
(* type correctness, that a request holds its place inside the breaker     *)
(* exactly while it waits, that the first usable reply of the chain wins,  *)
(* and that the service implements the fail-fast contract.                 *)
(***************************************************************************)
EXTENDS AIOrchestrator, TLAPS

LEMMA ChainLength == NumProviders \in Nat \ {0}
BY OrchestratorAssumption DEF NumProviders

\* The loop's body returns a summary exactly when the provider's service gave one
\* in time and without a bare amount that is none of those the code loses,
\* whichever provider it is and however the service fails.
LEMMA AcceptedIsUsable ==
    ASSUME NEW name, NEW reply \in Replies
    PROVE  Accepted(name, reply) <=> Usable(name, reply)
<1> USE DEF Usable, Worth, Lost, Accepted, CallProvider, GenerateJson, GroqGenerate, GeminiGenerate,
            OpenAIGenerate, OllamaGenerate, Raises, Responds, ParseModel,
            ExtractJson, ValidateSummary, Text, NoText, Null
<1>1. ASSUME NEW f \in SummaryForms, NEW a \in BOOLEAN, NEW q \in BOOLEAN,
             NEW u \in Usages, reply = Text(f, a, q, u)
      PROVE  Accepted(name, reply) <=> Usable(name, reply)
      BY <1>1 DEF SummaryForms, Usages, Supported
<1>2. ASSUME NEW f \in OtherForms, NEW u \in Usages, reply = Text(f, FALSE, FALSE, u)
      PROVE  Accepted(name, reply) <=> Usable(name, reply)
      BY <1>2 DEF OtherForms, SummaryForms, Supported
<1>3. ASSUME NEW k \in {"null", "absent", "timeout", "status", "broken", "stall"},
             reply = NoText(k)
      PROVE  Accepted(name, reply) <=> Usable(name, reply)
      BY <1>3 DEF SummaryForms, Supported
<1>4. QED
      BY <1>1, <1>2, <1>3 DEF Replies

LEMMA ReplyHeard ==
    ASSUME NEW r \in Requests, NEW accepted \in BOOLEAN, Reply(r, accepted)
    PROVE  Hear(r, accepted)
<1>1. PICK usable \in BOOLEAN : /\ <<provider[r], accepted, usable>> \in Turns
                                /\ Hear(r, usable)
      BY DEF Reply
<1>2. PICK i \in 1..NumProviders, reply \in Replies :
          /\ accepted = Accepted(Chain[i], reply)
          /\ usable = Usable(Chain[i], reply)
      BY <1>1 DEF Turns
<1>3. usable = accepted
      <2>1. Usable(Chain[i], reply) \in BOOLEAN /\ Accepted(Chain[i], reply) \in BOOLEAN
            BY <1>2
      <2>2. QED
            BY <1>2, <2>1, AcceptedIsUsable
<1>4. QED
      BY <1>1, <1>3

\* What has been heard of a call: nothing usable yet from any provider before
\* the one waited for.
Heard(r) ==
    /\ Waiting(r) => useful[r] = {} /\ useless[r] = 1..(provider[r] - 1)
    /\ summary[r] = "structured" =>
           \E i \in 1..NumProviders : useful[r] = {i} /\ useless[r] = 1..(i - 1)
    /\ summary[r] = "none" => useful[r] = {} /\ useless[r] \in {{}, 1..NumProviders}

\* Types, the request's place in the breaker, and that nobody waits when there
\* is no API key (MockSummary would otherwise answer a waiting request).
BaseInv ==
    /\ Breaker!TypeOK
    /\ apiKeySet \in BOOLEAN
    /\ provider \in [Requests -> 0..NumProviders]
    /\ summary \in [Requests -> Outcomes]
    /\ outages \in 0..FailureThreshold
    /\ PlaceHeldWhileWaiting
    /\ ~apiKeySet => \A r \in Requests : ~Waiting(r)

ReplyInv ==
    /\ useful \in [Requests -> SUBSET (1..NumProviders)]
    /\ useless \in [Requests -> SUBSET (1..NumProviders)]
    /\ \A r \in Requests : Heard(r)

LEMMA InitInd == Init => BaseInv /\ ReplyInv
<1> SUFFICES ASSUME Init PROVE BaseInv /\ ReplyInv
    OBVIOUS
<1>1. BaseInv
      BY OrchestratorAssumption, ChainLength
      DEF Init, BaseInv, PlaceHeldWhileWaiting, Waiting, Outcomes,
          Breaker!Init, Breaker!TypeOK, Breaker!States, Breaker!Admission,
          Breaker!Inside
<1>2. ReplyInv
      BY DEF Init, ReplyInv, Heard, Waiting
<1>3. QED
      BY <1>1, <1>2

LEMMA NextBase == BaseInv /\ [Next]_vars => BaseInv'
<1> SUFFICES ASSUME BaseInv, [Next]_vars
             PROVE  BaseInv'
    OBVIOUS
<1> USE OrchestratorAssumption, ChainLength
    DEF BaseInv, PlaceHeldWhileWaiting, Waiting, Outcomes, Finish,
        breakerVars, Breaker!TypeOK, Breaker!States, Breaker!TimedOut,
        Breaker!Admission, Breaker!Inside
<1>1. ASSUME NEW r \in Requests, MockSummary(r)
      PROVE  BaseInv'
      BY <1>1 DEF MockSummary
<1>2. ASSUME NEW r \in Requests, Begin(r)
      PROVE  BaseInv'
      BY <1>2 DEF Begin, Breaker!Admit
<1>3. ASSUME NEW r \in Requests, FailFast(r)
      PROVE  BaseInv'
      BY <1>3 DEF FailFast, Breaker!Refuse
<1>4. ASSUME NEW r \in Requests, ProviderAnswers(r)
      PROVE  BaseInv'
      BY <1>4 DEF ProviderAnswers, Breaker!ExitOk
<1>5. ASSUME NEW r \in Requests, TryNext(r)
      PROVE  BaseInv'
      BY <1>5 DEF TryNext
<1>6. ASSUME NEW r \in Requests, Exhausted(r)
      PROVE  BaseInv'
      BY <1>6 DEF Exhausted, Breaker!ExitOk
<1>7. ASSUME NEW r \in Requests, Cancel(r)
      PROVE  BaseInv'
      BY <1>7 DEF Cancel, Breaker!ExitError
<1>8. CASE Tick
      BY <1>8 DEF Tick, Breaker!Tick
<1>9. CASE UNCHANGED vars
      BY <1>9 DEF vars
<1>10. QED
      BY <1>1, <1>2, <1>3, <1>4, <1>5, <1>6, <1>7, <1>8, <1>9
      DEF Next, ProviderReturns

\* Only what is known of r's call moves.
LEMMA OthersKept ==
    ASSUME ReplyInv, NEW r \in Requests, Heard(r)',
           useful' \in [Requests -> SUBSET (1..NumProviders)],
           useless' \in [Requests -> SUBSET (1..NumProviders)],
           \A o \in Requests \ {r} :
               /\ provider'[o] = provider[o] /\ summary'[o] = summary[o]
               /\ useful'[o] = useful[o] /\ useless'[o] = useless[o]
    PROVE  ReplyInv'
<1>1. ASSUME NEW o \in Requests \ {r}
      PROVE  Heard(o)'
      BY <1>1 DEF ReplyInv, Heard, Waiting
<1>2. QED
      BY <1>1 DEF ReplyInv

LEMMA NextReply == BaseInv /\ ReplyInv /\ [Next]_vars => ReplyInv'
<1> SUFFICES ASSUME BaseInv, ReplyInv, [Next]_vars
             PROVE  ReplyInv'
    OBVIOUS
<1>0. /\ provider \in [Requests -> 0..NumProviders]
      /\ summary \in [Requests -> Outcomes]
      /\ useful \in [Requests -> SUBSET (1..NumProviders)]
      /\ useless \in [Requests -> SUBSET (1..NumProviders)]
      /\ NumProviders \in Nat \ {0}
      /\ \A r \in Requests : Waiting(r) <=> summary[r] = "pending"
      BY ChainLength DEF BaseInv, ReplyInv, PlaceHeldWhileWaiting
<1>1. ASSUME NEW r \in Requests, MockSummary(r)
      PROVE  ReplyInv'
  <2>1. summary'[r] = "mock" /\ ~Waiting(r)'
        BY <1>0, <1>1 DEF MockSummary, BaseInv, Waiting
  <2>2. Heard(r)'
        BY <2>1 DEF Heard
  <2>3. QED
        BY <1>0, <1>1, <2>2, OthersKept DEF MockSummary, replyVars
<1>2. ASSUME NEW r \in Requests, Begin(r)
      PROVE  ReplyInv'
  <2>1. /\ provider'[r] = 1 /\ summary'[r] = "pending"
        /\ useful'[r] = {} /\ useless'[r] = {}
        BY <1>0, <1>2 DEF Begin, HearNothing
  <2>2. 1..(provider'[r] - 1) = {}
        BY <2>1
  <2>3. Heard(r)'
        BY <2>1, <2>2 DEF Heard
  <2>4. QED
        BY <1>0, <1>2, <2>3, OthersKept DEF Begin, HearNothing
<1>3. ASSUME NEW r \in Requests, FailFast(r)
      PROVE  ReplyInv'
  <2>1. /\ ~Waiting(r)' /\ summary'[r] = "none"
        /\ useful'[r] = {} /\ useless'[r] = {}
        BY <1>0, <1>3 DEF FailFast, HearNothing, Waiting
  <2>2. Heard(r)'
        BY <2>1 DEF Heard
  <2>3. QED
        BY <1>0, <1>3, <2>2, OthersKept DEF FailFast, HearNothing
<1>4. ASSUME NEW r \in Requests, ProviderAnswers(r)
      PROVE  ReplyInv'
  <2>1. /\ Waiting(r) /\ Hear(r, TRUE) /\ Finish(r, "structured")
        BY <1>4, ReplyHeard DEF ProviderAnswers
  <2>2. useful[r] = {} /\ useless[r] = 1..(provider[r] - 1)
        BY <2>1 DEF ReplyInv, Heard
  <2>3. provider[r] \in 1..NumProviders
        BY <1>0, <2>1 DEF Waiting
  <2>4. /\ useful'[r] = {provider[r]} /\ useless'[r] = 1..(provider[r] - 1)
        /\ ~Waiting(r)' /\ summary'[r] = "structured"
        BY <1>0, <2>1, <2>2 DEF Hear, Finish, Waiting
  <2>5. Heard(r)'
        BY <2>3, <2>4 DEF Heard
  <2>6. QED
        BY <1>0, <2>1, <2>3, <2>5, OthersKept DEF Hear, Finish
<1>5. ASSUME NEW r \in Requests, TryNext(r)
      PROVE  ReplyInv'
  <2>1. /\ Waiting(r) /\ Hear(r, FALSE)
        /\ provider' = [provider EXCEPT ![r] = @ + 1] /\ summary' = summary
        BY <1>5, ReplyHeard DEF TryNext
  <2>2. useful[r] = {} /\ useless[r] = 1..(provider[r] - 1)
        BY <2>1 DEF ReplyInv, Heard
  <2>3. provider[r] \in 1..NumProviders
        BY <1>0, <2>1 DEF Waiting
  <2>4. 1..(provider[r] - 1) \cup {provider[r]} = 1..((provider[r] + 1) - 1)
        BY <1>0, <2>3
  <2>5. /\ provider'[r] = provider[r] + 1 /\ summary'[r] = "pending"
        /\ useful'[r] = {} /\ useless'[r] = 1..(provider[r] - 1) \cup {provider[r]}
        BY <1>0, <2>1, <2>2 DEF Hear
  <2>6. Heard(r)'
        BY <2>4, <2>5 DEF Heard
  <2>7. QED
        BY <1>0, <2>1, <2>3, <2>6, OthersKept DEF Hear
<1>6. ASSUME NEW r \in Requests, Exhausted(r)
      PROVE  ReplyInv'
  <2>1. /\ provider[r] = NumProviders /\ Hear(r, FALSE) /\ Finish(r, "none")
        BY <1>6, ReplyHeard DEF Exhausted
  <2>2. Waiting(r)
        BY <1>0, <2>1 DEF Waiting
  <2>3. useful[r] = {} /\ useless[r] = 1..(NumProviders - 1)
        BY <2>1, <2>2 DEF ReplyInv, Heard
  <2>4. 1..(NumProviders - 1) \cup {NumProviders} = 1..NumProviders
        BY <1>0
  <2>5. /\ useful'[r] = {} /\ useless'[r] = 1..NumProviders
        /\ ~Waiting(r)' /\ summary'[r] = "none"
        BY <1>0, <2>1, <2>3, <2>4 DEF Hear, Finish, Waiting
  <2>6. Heard(r)'
        BY <2>5 DEF Heard
  <2>7. QED
        BY <1>0, <2>1, <2>6, OthersKept DEF Hear, Finish
<1>7. ASSUME NEW r \in Requests, Cancel(r)
      PROVE  ReplyInv'
  <2>1. summary'[r] = "cancelled" /\ ~Waiting(r)'
        BY <1>0, <1>7 DEF Cancel, Finish, Waiting
  <2>2. Heard(r)'
        BY <2>1 DEF Heard
  <2>3. QED
        BY <1>0, <1>7, <2>2, OthersKept DEF Cancel, Finish, replyVars
<1>8. CASE UNCHANGED <<provider, summary, useful, useless>>
      BY <1>8 DEF ReplyInv, Heard, Waiting
<1>9. QED
      BY <1>1, <1>2, <1>3, <1>4, <1>5, <1>6, <1>7, <1>8
      DEF Next, ProviderReturns, Tick, replyVars, vars

\* Type correctness, for any number of requests and providers.
THEOREM TypeCorrect == Spec => []TypeOK
<1>1. BaseInv /\ ReplyInv => TypeOK
      BY DEF BaseInv, ReplyInv, TypeOK
<1>2. QED
      BY InitInd, NextBase, NextReply, <1>1, PTL DEF Spec

\* A request is inside the breaker exactly while it waits for a provider,
\* however its wait ends.
THEOREM PlaceHeld == Spec => []PlaceHeldWhileWaiting
<1>1. BaseInv => PlaceHeldWhileWaiting
      BY DEF BaseInv
<1>2. QED
      BY InitInd, NextBase, <1>1, PTL DEF Spec

\* The summary returned is that of the first provider with a usable reply, and
\* "none" means that there was none in the whole chain, whatever its length.
THEOREM FirstUsable == Spec => []FirstUsableWins
<1>1. ReplyInv => FirstUsableWins
      BY DEF ReplyInv, Heard, FirstUsableWins
<1>2. QED
      BY InitInd, NextBase, NextReply, <1>1, PTL DEF Spec

-----------------------------------------------------------------------------

\* Every step of the orchestrator is a step of the fail-fast contract, with the
\* waiting requests as the calls in flight, or leaves it unchanged.
LEMMA StepRefines == BaseInv /\ [Next]_vars => [Contract!Next]_Contract!vars
<1> SUFFICES ASSUME BaseInv, [Next]_vars
             PROVE  [Contract!Next]_Contract!vars
    OBVIOUS
<1> USE OrchestratorAssumption
    DEF BaseInv, PlaceHeldWhileWaiting, Waiting, Finish, breakerVars,
        Breaker!Cooling, Breaker!TimedOut, Breaker!TypeOK, Breaker!States,
        Breaker!Inside, Contract!vars
<1>1. ASSUME NEW r \in Requests, Begin(r)
      PROVE  Contract!Start(r)
      BY <1>1 DEF Begin, Breaker!Admit, Contract!Start
<1>2. ASSUME NEW r \in Requests, MockSummary(r) \/ FailFast(r)
      PROVE  UNCHANGED Contract!vars
      BY <1>2 DEF MockSummary, FailFast, Breaker!Refuse
<1>3. ASSUME NEW r \in Requests, ProviderAnswers(r) \/ Exhausted(r)
      PROVE  Contract!End(r)
      BY <1>3 DEF ProviderAnswers, Exhausted, Breaker!ExitOk, Contract!End
<1>4. ASSUME NEW r \in Requests, TryNext(r)
      PROVE  UNCHANGED Contract!vars
      BY <1>4 DEF TryNext
<1>5. ASSUME NEW r \in Requests, Cancel(r)
      PROVE  Contract!End(r)
      BY <1>5 DEF Cancel, Breaker!ExitError, Contract!End
<1>6. ASSUME Tick
      PROVE  Contract!Expire \/ UNCHANGED Contract!vars
      BY <1>6 DEF Tick, Breaker!Tick, Contract!Expire
<1>7. ASSUME UNCHANGED vars
      PROVE  UNCHANGED Contract!vars
      BY <1>7 DEF vars
<1>8. QED
      BY <1>1, <1>2, <1>3, <1>4, <1>5, <1>6, <1>7
      DEF Next, ProviderReturns, Contract!Next

\* The summary service as a whole implements the fail-fast contract.
THEOREM ImplementsFailFast == Spec => SummariesFailFast
<1>1. Init => Contract!Init
      BY OrchestratorAssumption
      DEF Init, Contract!Init, Breaker!Init, Breaker!Cooling, Waiting
<1>2. QED
      BY InitInd, NextBase, StepRefines, <1>1, PTL
      DEF Spec, SummariesFailFast, Contract!Spec

-----------------------------------------------------------------------------

\* The breaker's part of every step is one of the breaker's own actions, so
\* what CircuitBreakerProofs shows of any breaker holds of the one in use.
Own == INSTANCE CircuitBreakerProofs WITH Callers <- Requests

LEMMA BreakerConstants == Own!BreakerAssumption
BY OrchestratorAssumption DEF Own!BreakerAssumption

LEMMA BreakerStep == [Next]_vars => [Own!Next]_Own!vars
<1> SUFFICES ASSUME [Next]_vars
             PROVE  [Own!Next]_Own!vars
    OBVIOUS
<1>1. ASSUME NEW r \in Requests, Begin(r) \/ FailFast(r)
      PROVE  Own!Next
      BY <1>1 DEF Begin, FailFast, Breaker!Admit, Breaker!Refuse, Own!Next,
         Own!Admit, Own!Refuse, Breaker!TimedOut, Own!TimedOut, Breaker!Inside,
         Own!Inside
<1>2. ASSUME NEW r \in Requests, ProviderAnswers(r) \/ Exhausted(r)
      PROVE  Own!Next
      BY <1>2 DEF ProviderAnswers, Exhausted, Breaker!ExitOk, Own!Next,
         Own!ExitOk, Breaker!Inside, Own!Inside
<1>3. ASSUME NEW r \in Requests, Cancel(r)
      PROVE  Own!Next
      BY <1>3 DEF Cancel, Breaker!ExitError, Own!Next, Own!ExitError,
         Breaker!Inside, Own!Inside
<1>4. ASSUME Tick
      PROVE  Own!Next
      BY <1>4 DEF Tick, Breaker!Tick, Own!Next, Own!Tick
<1>5. ASSUME NEW r \in Requests, MockSummary(r) \/ TryNext(r)
      PROVE  UNCHANGED Own!vars
      BY <1>5 DEF MockSummary, TryNext, breakerVars, Own!vars
<1>6. ASSUME UNCHANGED vars
      PROVE  UNCHANGED Own!vars
      BY <1>6 DEF vars, Own!vars
<1>7. QED
      BY <1>1, <1>2, <1>3, <1>4, <1>5, <1>6 DEF Next, ProviderReturns

LEMMA BreakerRuns == Spec => Own!Spec
<1>1. Init => Own!Init
      BY DEF Init, Breaker!Init, Own!Init
<1>2. QED
      BY <1>1, BreakerStep, PTL DEF Spec, Own!Spec

\* A half-open breaker waits for a request that waits for a provider, and the
\* counter is below the threshold exactly while the breaker is closed, however
\* the chains of the requests inside end.
THEOREM BreakerIsDecided == Spec => []BreakerDecided
<1>1. Spec => []Own!CountMatchesState /\ []Own!HalfOpenHasTrial
      BY BreakerRuns, BreakerConstants, Own!CountAgrees, Own!TrialDecides, PTL
<1>2. BaseInv /\ Own!CountMatchesState /\ Own!HalfOpenHasTrial => BreakerDecided
      BY DEF BaseInv, PlaceHeldWhileWaiting, BreakerDecided, Breaker!Inside,
         Own!CountMatchesState, Own!HalfOpenHasTrial
<1>3. Spec => []BaseInv
      BY InitInd, NextBase, PTL DEF Spec
<1>4. QED
      BY <1>1, <1>2, <1>3, PTL

\* Without cancellation the breaker is closed for ever, whatever the providers
\* do and for however long: an exhausted chain counts as a success.
THEOREM OutagesIgnored == Spec => []OutagesNeverOpen
<1>1. Init => OutagesNeverOpen
      BY DEF Init, Breaker!Init, OutagesNeverOpen
<1>2. OutagesNeverOpen /\ [Next]_vars => OutagesNeverOpen'
  <2> SUFFICES ASSUME OutagesNeverOpen, [Next]_vars, ~Cancellable
               PROVE  state' = "CLOSED" /\ failureCount' = 0
      BY DEF OutagesNeverOpen
  <2>0. state = "CLOSED" /\ failureCount = 0
        BY DEF OutagesNeverOpen
  <2>1. ASSUME NEW r \in Requests, Begin(r) \/ FailFast(r)
        PROVE  state' = "CLOSED" /\ failureCount' = 0
        BY <2>0, <2>1 DEF Begin, FailFast, Breaker!Admit, Breaker!Refuse
  <2>2. ASSUME NEW r \in Requests, ProviderAnswers(r) \/ Exhausted(r)
        PROVE  state' = "CLOSED" /\ failureCount' = 0
        BY <2>0, <2>2 DEF ProviderAnswers, Exhausted, Breaker!ExitOk
  <2>3. ASSUME NEW r \in Requests, Cancel(r)
        PROVE  FALSE
        BY <2>3 DEF Cancel
  <2>4. CASE Tick
        BY <2>0, <2>4 DEF Tick, Breaker!Tick
  <2>5. ASSUME NEW r \in Requests, MockSummary(r) \/ TryNext(r)
        PROVE  state' = "CLOSED" /\ failureCount' = 0
        BY <2>0, <2>5 DEF MockSummary, TryNext, breakerVars
  <2>6. CASE UNCHANGED vars
        BY <2>0, <2>6 DEF vars
  <2>7. QED
        BY <2>1, <2>2, <2>3, <2>4, <2>5, <2>6 DEF Next, ProviderReturns
<1>3. QED
      BY <1>1, <1>2, PTL DEF Spec

\* The wait of a request only ever moves forward along the chain.
THEOREM AskedOnce == Spec => ProvidersAskedOnce
<1>1. ASSUME BaseInv, [Next]_vars, NEW r \in Requests, Waiting(r), Waiting(r)'
      PROVE  /\ provider'[r] \in provider[r]..NumProviders
             /\ ProviderReturns(r) => provider'[r] = provider[r] + 1
  <2>1. /\ provider \in [Requests -> 0..NumProviders]
        /\ NumProviders \in Nat \ {0} /\ provider[r] \in 1..NumProviders
        BY <1>1, ChainLength DEF BaseInv, Waiting
  <2>2. CASE provider'[r] = provider[r] /\ ~ProviderReturns(r)
        BY <2>1, <2>2
  <2>3. ASSUME ProviderAnswers(r) \/ Exhausted(r) \/ Cancel(r)
        PROVE  FALSE
        BY <1>1, <2>1, <2>3
        DEF ProviderAnswers, Exhausted, Cancel, Finish, Waiting
  <2>4. CASE TryNext(r)
        BY <2>1, <2>4 DEF TryNext, Waiting
  <2>5. ASSUME Begin(r) \/ FailFast(r)
        PROVE  FALSE
        BY <1>1, <2>5 DEF Begin, FailFast, Waiting
  <2>6. ASSUME NEW o \in Requests, o # r,
               MockSummary(o) \/ Begin(o) \/ FailFast(o)
                   \/ ProviderReturns(o) \/ Cancel(o)
        PROVE  provider'[r] = provider[r]
        BY <2>1, <2>6
        DEF MockSummary, Begin, FailFast, ProviderReturns, ProviderAnswers, TryNext,
            Exhausted, Cancel, Finish
  <2>7. ASSUME MockSummary(r) \/ Tick \/ UNCHANGED vars
        PROVE  provider'[r] = provider[r]
        BY <2>7 DEF MockSummary, Tick, vars
  <2>8. provider'[r] = provider[r] \/ TryNext(r)
        BY <1>1, <2>3, <2>5, <2>6, <2>7 DEF Next, ProviderReturns
  <2>9. TryNext(r) \/ ~ProviderReturns(r)
        BY <2>3 DEF ProviderReturns
  <2>10. QED
        BY <2>2, <2>4, <2>8, <2>9
<1>2. BaseInv /\ [Next]_vars =>
          [\A r \in Requests : Waiting(r) =>
              \/ ~Waiting(r)'
              \/ /\ provider'[r] \in provider[r]..NumProviders
                 /\ ProviderReturns(r) => provider'[r] = provider[r] + 1]_vars
      BY <1>1
<1>3. QED
      BY InitInd, NextBase, <1>2, PTL DEF Spec, ProvidersAskedOnce
=============================================================================
