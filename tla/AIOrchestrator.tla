--------------------------- MODULE AIOrchestrator ---------------------------
(***************************************************************************)
(* Summary generation (ai/orchestration/ai_orchestrator.py): concurrent    *)
(* requests, all through the one circuit breaker of the process, each      *)
(* trying a chain of LLM providers in order until one gives a summary that *)
(* parses and passes the hallucination check.                              *)
(*                                                                         *)
(* A provider call is awaited, so other requests run meanwhile; everything *)
(* between two awaits is one step.  The step that ends the last provider   *)
(* call of a request also leaves the breaker's body (__aexit__).           *)
(*                                                                         *)
(* A provider's reply is any that module Providers lists: a summary or one *)
(* of the ways not to give one, each of which is caught inside the         *)
(* breaker's body and continues with the next provider.                    *)
(***************************************************************************)
EXTENDS Integers, Providers

CONSTANTS Requests,          \* concurrent requests for a summary
          Chain,             \* the names [primary] + fallbacks
          Cancellable,       \* the server may cancel a request's task
          FailureThreshold, Timeout, MaxFailureCount, NoFailure

ASSUME OrchestratorAssumption ==
    /\ Chain \in Seq(STRING) /\ Chain # <<>>
    /\ Cancellable \in BOOLEAN
    /\ FailureThreshold \in Nat \ {0}
    /\ Timeout \in Nat \ {0}
    /\ MaxFailureCount \in Nat
    /\ MaxFailureCount >= FailureThreshold
    /\ NoFailure \notin Nat

VARIABLES state, failureCount, lastFailure, calls,  \* the circuit breaker
          apiKeySet, \* settings.groq_api_key is non-empty; fixed at start-up
          provider,  \* index of the provider each request waits for, 0 if none
          summary,   \* what generate_summary gave each request last time
          outages,   \* history: calls in a row that exhausted all providers
          useful,    \* history: providers whose reply to the request's last
          useless    \*   call was, or was not, a usable summary

breakerVars == <<state, failureCount, lastFailure, calls>>
replyVars == <<useful, useless>>
vars == <<state, failureCount, lastFailure, calls, apiKeySet, provider, summary,
          outages, useful, useless>>

NumProviders == Len(Chain)

Breaker == INSTANCE CircuitBreaker WITH Callers <- Requests

Outcomes == {"unasked", "pending", "mock", "structured", "none", "cancelled"}

TypeOK ==
    /\ Breaker!TypeOK
    /\ apiKeySet \in BOOLEAN
    /\ provider \in [Requests -> 0..NumProviders]
    /\ summary \in [Requests -> Outcomes]
    /\ outages \in 0..FailureThreshold
    /\ useful \in [Requests -> SUBSET (1..NumProviders)]
    /\ useless \in [Requests -> SUBSET (1..NumProviders)]

Init ==
    /\ Breaker!Init
    /\ apiKeySet \in BOOLEAN
    /\ provider = [r \in Requests |-> 0]
    /\ summary = [r \in Requests |-> "unasked"]
    /\ outages = 0
    /\ useful = [r \in Requests |-> {}]
    /\ useless = [r \in Requests |-> {}]

Waiting(r) == provider[r] # 0

Finish(r, outcome) ==
    /\ provider' = [provider EXCEPT ![r] = 0]
    /\ summary' = [summary EXCEPT ![r] = outcome]

\* History: what the reply of the provider that r waits for was worth.
Hear(r, usable) ==
    IF usable
    THEN /\ useful' = [useful EXCEPT ![r] = @ \cup {provider[r]}]
         /\ UNCHANGED useless
    ELSE /\ useless' = [useless EXCEPT ![r] = @ \cup {provider[r]}]
         /\ UNCHANGED useful

HearNothing(r) ==
    /\ useful' = [useful EXCEPT ![r] = {}]
    /\ useless' = [useless EXCEPT ![r] = {}]

\* What can come of asking the i-th provider: whether the loop's body returns,
\* and whether the reply was usable.
Turns ==
    {<<i, Accepted(Chain[i], reply), Usable(Chain[i], reply)>> :
        i \in 1..NumProviders, reply \in Replies}

\* A reply arrives.
Reply(r, accepted) ==
    \E usable \in BOOLEAN : /\ <<provider[r], accepted, usable>> \in Turns
                           /\ Hear(r, usable)

-----------------------------------------------------------------------------

\* Without an API key nobody is called: a mock summary is returned.
MockSummary(r) ==
    /\ ~apiKeySet
    /\ summary' = [summary EXCEPT ![r] = "mock"]
    /\ UNCHANGED <<breakerVars, apiKeySet, provider, outages, replyVars>>

\* "async with self.circuit_breaker" lets the request in and the first
\* provider is called.
Begin(r) ==
    /\ apiKeySet
    /\ ~Waiting(r)
    /\ Breaker!Admit(r)
    /\ provider' = [provider EXCEPT ![r] = 1]
    /\ summary' = [summary EXCEPT ![r] = "pending"]
    /\ HearNothing(r)
    /\ UNCHANGED <<apiKeySet, outages>>

\* The breaker raises; the outer except turns that into "no summary".
FailFast(r) ==
    /\ apiKeySet
    /\ ~Waiting(r)
    /\ Breaker!Refuse(r)
    /\ summary' = [summary EXCEPT ![r] = "none"]
    /\ HearNothing(r)
    /\ UNCHANGED <<apiKeySet, provider, outages>>

\* The awaited provider answers with a valid summary.
ProviderAnswers(r) ==
    /\ Waiting(r)
    /\ Reply(r, TRUE)
    /\ Breaker!ExitOk(r)
    /\ Finish(r, "structured")
    /\ outages' = 0
    /\ UNCHANGED apiKeySet

MutGiveUpEarly(r) ==
    /\ Waiting(r)
    /\ provider[r] < NumProviders
    /\ Reply(r, FALSE)
    /\ Breaker!ExitOk(r)
    /\ Finish(r, "none")
    /\ UNCHANGED <<apiKeySet, outages>>

MutRetryForever(r) ==
    /\ Waiting(r)
    /\ Reply(r, FALSE)
    /\ provider' = [provider EXCEPT ![r] = (@ % NumProviders) + 1]
    /\ UNCHANGED <<breakerVars, apiKeySet, summary, outages>>

MutTryPastEnd(r) ==
    /\ Waiting(r)
    /\ provider[r] <= NumProviders
    /\ Reply(r, FALSE)
    /\ provider' = [provider EXCEPT ![r] = @ + 1]
    /\ UNCHANGED <<breakerVars, apiKeySet, summary, outages>>

\* The awaited provider fails and the next one of the chain is called.
TryNext(r) ==
    /\ Waiting(r)
    /\ provider[r] < NumProviders
    /\ Reply(r, FALSE)
    /\ provider' = [provider EXCEPT ![r] = @ + 1]
    /\ UNCHANGED <<breakerVars, apiKeySet, summary, outages>>

MutExhaustedBypassesBreaker(r) ==
    /\ provider[r] = NumProviders
    /\ Reply(r, FALSE)
    /\ calls' = [calls EXCEPT ![r] = "outside"]
    /\ state' = "CLOSED"
    /\ UNCHANGED <<failureCount, lastFailure>>
    /\ Finish(r, "none")
    /\ UNCHANGED <<apiKeySet, outages>>

\* The last provider fails too: "return None" inside the body, which the
\* breaker takes for a success.
Exhausted(r) ==
    /\ provider[r] = NumProviders
    /\ Reply(r, FALSE)
    /\ Breaker!ExitOk(r)
    /\ Finish(r, "none")
    /\ outages' = IF outages < FailureThreshold THEN outages + 1 ELSE outages
    /\ UNCHANGED apiKeySet

MutCancelKeepsSlot(r) ==
    /\ Cancellable
    /\ Waiting(r)
    /\ Finish(r, "cancelled")
    /\ UNCHANGED <<breakerVars, apiKeySet, outages, replyVars>>

\* The task of the request is cancelled while it waits.  CancelledError is no
\* Exception: it passes every except clause and leaves the body as an error.
Cancel(r) ==
    /\ Cancellable
    /\ Waiting(r)
    /\ Breaker!ExitError(r)
    /\ Finish(r, "cancelled")
    /\ UNCHANGED <<apiKeySet, outages, replyVars>>

Tick ==
    /\ Breaker!Tick
    /\ UNCHANGED <<apiKeySet, provider, summary, outages, replyVars>>

ProviderReturns(r) == ProviderAnswers(r) \/ TryNext(r) \/ Exhausted(r)

Next ==
    \/ \E r \in Requests : \/ MockSummary(r) \/ Begin(r) \/ FailFast(r)
                           \/ ProviderReturns(r) \/ Cancel(r)
    \/ Tick

Spec == Init /\ [][Next]_vars

\* asyncio.wait_for bounds every provider call by ten seconds, so an awaited
\* call always comes back; time does not stop.
LiveSpec ==
    /\ Spec
    /\ \A r \in Requests : WF_vars(ProviderReturns(r))
    /\ WF_vars(Tick)

-----------------------------------------------------------------------------
(* Properties                                                              *)

\* A request holds a place inside the breaker exactly while it waits for a
\* provider: no outcome, however it arrives, leaks the place or gives it up
\* early (which would let HALF_OPEN be decided by nobody).
PlaceHeldWhileWaiting ==
    \A r \in Requests : /\ Waiting(r) <=> calls[r] \in Breaker!Inside
                        /\ Waiting(r) <=> summary[r] = "pending"

\* Seen from the service, the whole chain of provider calls is what the
\* breaker's contract is about: during a cool-down no request starts waiting
\* for a provider, and no answer, exhausted chain or cancellation of a request
\* that already waits cuts the cool-down short.
Contract == INSTANCE FailFast WITH
    Callers <- Requests,
    cooling <- Breaker!Cooling,
    inFlight <- {r \in Requests : Waiting(r)}

SummariesFailFast == Contract!Spec

\* "Non-blocking" AI: every request that started waiting gets an answer,
\* which may be none.
EveryRequestAnswered ==
    \A r \in Requests : summary[r] = "pending" ~> summary[r] # "pending"

\* A summary is that of the first provider of the chain with a usable reply,
\* and "none" of a call that was let in says that every provider was asked and
\* none had one: no way a service can fail and no combination of these over the
\* chain loses a usable summary or lets a bad one by.  Usable is every summary in
\* time without a bare amount except those Providers!Lost names: the code does
\* lose a summary between other braces and one whose token counts are null.
FirstUsableWins ==
    \A r \in Requests :
        /\ summary[r] = "structured" =>
               \E i \in 1..NumProviders : useful[r] = {i} /\ useless[r] = 1..(i - 1)
        /\ summary[r] = "none" =>
               useful[r] = {} /\ useless[r] \in {{}, 1..NumProviders}

\* The class comment of the breaker ("to prevent cascading LLM failures ...
\* OPEN: Failure threshold exceeded, calls fail fast", circuit_breaker.py:14-18):
\* after that many LLM failures in a row the breaker is not closed.
OutageOpensBreaker == outages >= FailureThreshold => state # "CLOSED"

\* What happens instead: no failure of a provider, of all of them, or of every
\* request's whole chain ever reaches the counter.  A breaker whose requests are
\* not cancelled is never anything but closed.
OutagesNeverOpen == ~Cancellable => state = "CLOSED" /\ failureCount = 0

\* A half-open breaker is decided by a request that still waits for a provider,
\* and state and counter agree: the breaker's own guarantees (module
\* CircuitBreaker) survive what generate_summary does inside its body.
BreakerDecided ==
    /\ state = "HALF_OPEN" => \E r \in Requests : Waiting(r) /\ calls[r] = "trial"
    /\ state = "CLOSED" <=> failureCount < FailureThreshold

\* Why every request is answered: each reply ends its wait or takes it to the next
\* provider of the finite chain, none is asked twice, and neither the breaker nor
\* another request sends it back.
ProvidersAskedOnce ==
    [][\A r \in Requests : Waiting(r) =>
          \/ ~Waiting(r)'
          \/ /\ provider'[r] \in provider[r]..NumProviders
             /\ ProviderReturns(r) => provider'[r] = provider[r] + 1]_vars
=============================================================================
