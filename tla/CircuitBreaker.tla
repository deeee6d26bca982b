--------------------------- MODULE CircuitBreaker ---------------------------
(***************************************************************************)
(* The asyncio circuit breaker in front of the LLM providers               *)
(* (ai/orchestration/circuit_breaker.py).  One breaker is shared by every  *)
(* request of the process.  A caller runs its calls inside                 *)
(* "async with breaker": __aenter__ asks allow_request, __aexit__ reports  *)
(* the outcome of the body.  Each method body runs under an asyncio.Lock   *)
(* and awaits nothing while holding it, so each method is one step; the    *)
(* bodies of different callers overlap freely.                             *)
(*                                                                         *)
(* Time: the code only ever compares the time since the last failure with  *)
(* the timeout, so the clock is that age, in ticks, saturated at Timeout.  *)
(***************************************************************************)
EXTENDS Integers

CONSTANTS Callers,           \* concurrent users of the breaker
          FailureThreshold,  \* failure_threshold
          Timeout,           \* timeout_seconds, in clock ticks
          MaxFailureCount,   \* bound on the counter, which the code never caps
          NoFailure          \* _last_failure_time is None

\* Zero is not a possible configuration: "x or settings.x" (lines 29-30)
\* replaces it by the configured default.
ASSUME BreakerAssumption ==
    /\ FailureThreshold \in Nat \ {0}
    /\ Timeout \in Nat \ {0}
    /\ MaxFailureCount \in Nat
    /\ MaxFailureCount >= FailureThreshold
    /\ NoFailure \notin Nat

VARIABLES state,         \* _state
          failureCount,  \* _failure_count
          lastFailure,   \* age of _last_failure_time, or NoFailure for None
          calls          \* what each caller is doing, see Admission

vars == <<state, failureCount, lastFailure, calls>>

States == {"CLOSED", "OPEN", "HALF_OPEN"}

\* A caller is outside the body, was refused on its last attempt, or is inside
\* the body: admitted as a "normal" call (CLOSED) or as a "trial" (HALF_OPEN).
Inside == {"normal", "trial"}
Admission == {"outside", "refused"} \cup Inside

TypeOK ==
    /\ state \in States
    /\ failureCount \in 0..MaxFailureCount
    /\ lastFailure \in {NoFailure} \cup 0..Timeout
    /\ calls \in [Callers -> Admission]

Init ==
    /\ state = "CLOSED"
    /\ failureCount = 0
    /\ lastFailure = NoFailure
    /\ calls = [c \in Callers |-> "outside"]

TimedOut == lastFailure # NoFailure /\ lastFailure = Timeout

-----------------------------------------------------------------------------
(* allow_request, called by __aenter__                                     *)

MutAdmitOpenTooEarly(c) ==
    /\ calls[c] \notin Inside
    /\ \/ /\ state = "CLOSED"
          /\ calls' = [calls EXCEPT ![c] = "normal"]
          /\ UNCHANGED state
       \/ /\ state \in {"OPEN", "HALF_OPEN"}
          /\ state' = "HALF_OPEN"
          /\ calls' = [calls EXCEPT ![c] = "trial"]
    /\ UNCHANGED <<failureCount, lastFailure>>

\* The breaker lets the call in.
Admit(c) ==
    /\ calls[c] \notin Inside
    /\ \/ /\ state = "CLOSED"
          /\ calls' = [calls EXCEPT ![c] = "normal"]
          /\ UNCHANGED state
       \/ /\ \/ state = "OPEN" /\ TimedOut
             \/ state = "HALF_OPEN"
          /\ state' = "HALF_OPEN"
          /\ calls' = [calls EXCEPT ![c] = "trial"]
    /\ UNCHANGED <<failureCount, lastFailure>>

\* The breaker refuses the call; __aenter__ raises.
Refuse(c) ==
    /\ calls[c] \notin Inside
    /\ state = "OPEN"
    /\ ~TimedOut
    /\ calls' = [calls EXCEPT ![c] = "refused"]
    /\ UNCHANGED <<state, failureCount, lastFailure>>

-----------------------------------------------------------------------------
(* __aexit__                                                               *)

MutSuccessClosesOpen(c) ==
    /\ calls[c] \in Inside
    /\ calls' = [calls EXCEPT ![c] = "outside"]
    /\ state' = "CLOSED"
    /\ failureCount' = 0
    /\ UNCHANGED lastFailure

MutSuccessKeepsCount(c) ==
    /\ calls[c] \in Inside
    /\ calls' = [calls EXCEPT ![c] = "outside"]
    /\ state' = IF state = "HALF_OPEN" THEN "CLOSED" ELSE state
    /\ failureCount' = IF state = "CLOSED" THEN 0 ELSE failureCount
    /\ UNCHANGED lastFailure

MutSuccessDecrements(c) ==
    /\ calls[c] \in Inside
    /\ calls' = [calls EXCEPT ![c] = "outside"]
    /\ state' = IF state = "HALF_OPEN" THEN "CLOSED" ELSE state
    /\ failureCount' = failureCount - 1
    /\ UNCHANGED lastFailure

\* record_success: the body ended without an exception.
ExitOk(c) ==
    /\ calls[c] \in Inside
    /\ calls' = [calls EXCEPT ![c] = "outside"]
    /\ state' = IF state = "HALF_OPEN" THEN "CLOSED" ELSE state
    /\ failureCount' = IF state = "OPEN" THEN failureCount ELSE 0
    /\ UNCHANGED lastFailure

MutFailureKeepsHalfOpen(c) ==
    /\ calls[c] \in Inside
    /\ failureCount < MaxFailureCount
    /\ calls' = [calls EXCEPT ![c] = "outside"]
    /\ failureCount' = failureCount + 1
    /\ lastFailure' = 0
    /\ state' = IF state = "CLOSED" /\ failureCount' >= FailureThreshold
                THEN "OPEN" ELSE state

\* record_failure: the body raised (the exception propagates to the caller).
ExitError(c) ==
    /\ calls[c] \in Inside
    /\ failureCount < MaxFailureCount
    /\ calls' = [calls EXCEPT ![c] = "outside"]
    /\ failureCount' = failureCount + 1
    /\ lastFailure' = 0
    /\ state' = IF \/ state = "CLOSED" /\ failureCount' >= FailureThreshold
                   \/ state = "HALF_OPEN"
                THEN "OPEN" ELSE state

MutTickStopsWhenOpen ==
    /\ lastFailure # NoFailure
    /\ lastFailure < Timeout
    /\ state # "OPEN"
    /\ lastFailure' = lastFailure + 1
    /\ UNCHANGED <<state, failureCount, calls>>

\* Time passes (time.time()).
Tick ==
    /\ lastFailure # NoFailure
    /\ lastFailure < Timeout
    /\ lastFailure' = lastFailure + 1
    /\ UNCHANGED <<state, failureCount, calls>>

Next ==
    \/ \E c \in Callers : Admit(c) \/ Refuse(c) \/ ExitOk(c) \/ ExitError(c)
    \/ Tick

Spec == Init /\ [][Next]_vars

\* Time does not stop.  Nothing is assumed of the callers.
LiveSpec == Spec /\ WF_vars(Tick)
-----------------------------------------------------------------------------
(* Properties                                                              *)

\* The state and the counter never drift apart, whatever late successes and
\* failures of calls admitted in an earlier state do to them: the breaker is
\* closed exactly while the counter is below the threshold.
CountMatchesState == state = "CLOSED" <=> failureCount < FailureThreshold

\* A HALF_OPEN breaker is always waiting for a trial call that is still inside:
\* it cannot be left half-open with nobody to decide its fate.
HalfOpenHasTrial == state = "HALF_OPEN" => \E c \in Callers : calls[c] = "trial"

\* A call that was admitted before the breaker opened and succeeds late does
\* not close it: OPEN is left only through HALF_OPEN.
OpenLeavesThroughTrial ==
    [][state = "OPEN" => state' \in {"OPEN", "HALF_OPEN"}]_vars

\* The breaker implements the fail-fast contract (module FailFast): between a
\* failure that leaves it open and the timeout nobody is let in, and nothing
\* but time ends that period.
Cooling == state = "OPEN" /\ ~TimedOut

Contract == INSTANCE FailFast WITH
    cooling <- Cooling,
    inFlight <- {c \in Callers : calls[c] \in Inside}

FailsFast == Contract!Spec

\* Every cool-down ends although calls already in flight may keep failing
\* and restart the clock: nobody new gets in meanwhile.
CoolDownEnds == Cooling ~> ~Cooling

\* Why it ends: whatever calls in flight do to the clock during a cool-down, each
\* time it is set back there is one of them less, and none is added.
InFlight == {c \in Callers : calls[c] \in Inside}

RestartsRunOut ==
    [][Cooling /\ Cooling' =>
          /\ InFlight' \subseteq InFlight
          /\ lastFailure' >= lastFailure \/ InFlight' # InFlight]_vars
=============================================================================
