------------------------ MODULE CircuitBreakerProofs ------------------------
(***************************************************************************)
(* Proofs about CircuitBreaker for any set of callers, threshold and       *)
(* timeout: type correctness, the relation between state and counter, the  *)
(* liveness-critical facts about OPEN and HALF_OPEN, and that the breaker  *)
(* implements the fail-fast contract.                                      *)
(***************************************************************************)
EXTENDS CircuitBreaker, TLAPS

\* The inductive invariant: the type invariant and the three state relations.
\* OpenHasFailureTime (below) is not inductive alone (a half-open breaker must carry
\* its failure time into OPEN, and a closed one must get one on the way).
FailureTimeKnown == state # "CLOSED" => lastFailure # NoFailure

\* allow_request refuses for ever when the breaker is OPEN and no failure time
\* is recorded (line 76 falls through to "return False"), so an open breaker
\* must have one.
OpenHasFailureTime == state = "OPEN" => lastFailure # NoFailure

IndInv == TypeOK /\ CountMatchesState /\ FailureTimeKnown /\ HalfOpenHasTrial

LEMMA InitInd == Init => IndInv
BY BreakerAssumption DEF Init, IndInv, TypeOK, CountMatchesState,
   FailureTimeKnown, HalfOpenHasTrial, States, Admission, Inside

LEMMA NextInd == IndInv /\ [Next]_vars => IndInv'
<1> SUFFICES ASSUME IndInv, [Next]_vars
             PROVE  IndInv'
    OBVIOUS
<1> USE BreakerAssumption
    DEF IndInv, TypeOK, CountMatchesState, FailureTimeKnown, HalfOpenHasTrial,
        States, Admission, Inside, TimedOut
<1>1. ASSUME NEW c \in Callers, Admit(c)
      PROVE  IndInv'
      BY <1>1 DEF Admit
<1>2. ASSUME NEW c \in Callers, Refuse(c)
      PROVE  IndInv'
      BY <1>2 DEF Refuse
<1>3. ASSUME NEW c \in Callers, ExitOk(c)
      PROVE  IndInv'
      BY <1>3 DEF ExitOk
<1>4. ASSUME NEW c \in Callers, ExitError(c)
      PROVE  IndInv'
      BY <1>4 DEF ExitError
<1>5. CASE Tick
      BY <1>5 DEF Tick
<1>6. CASE UNCHANGED vars
      BY <1>6 DEF vars
<1>7. QED
      BY <1>1, <1>2, <1>3, <1>4, <1>5, <1>6 DEF Next

\* Type correctness of the breaker, for any number of callers.
THEOREM TypeCorrect == Spec => []TypeOK
<1>1. IndInv => TypeOK
      BY DEF IndInv
<1>2. QED
      BY InitInd, NextInd, <1>1, PTL DEF Spec

\* The breaker is closed exactly while the failure counter is below the
\* threshold, for every interleaving of early and late call outcomes.
THEOREM CountAgrees == Spec => []CountMatchesState
<1>1. IndInv => CountMatchesState
      BY DEF IndInv
<1>2. QED
      BY InitInd, NextInd, <1>1, PTL DEF Spec

\* An open breaker always knows when it last failed, so allow_request can let
\* a trial call in after the timeout: it is never open for ever.
THEOREM OpenCanRecover == Spec => []OpenHasFailureTime
<1>1. IndInv => OpenHasFailureTime
      BY DEF IndInv, FailureTimeKnown, OpenHasFailureTime
<1>2. QED
      BY InitInd, NextInd, <1>1, PTL DEF Spec

\* A half-open breaker always has a trial call in flight that will decide it.
THEOREM TrialDecides == Spec => []HalfOpenHasTrial
<1>1. IndInv => HalfOpenHasTrial
      BY DEF IndInv
<1>2. QED
      BY InitInd, NextInd, <1>1, PTL DEF Spec

\* A late success never closes an open breaker.
THEOREM LateSuccessIgnored == Spec => OpenLeavesThroughTrial
<1>1. IndInv /\ [Next]_vars => [state = "OPEN" => state' \in {"OPEN", "HALF_OPEN"}]_vars
      BY DEF Next, Admit, Refuse, ExitOk, ExitError, Tick, vars
<1>2. QED
      BY InitInd, NextInd, <1>1, PTL DEF Spec, OpenLeavesThroughTrial

\* During a cool-down every restart of the clock uses up a call in flight, so it
\* is restarted at most as often as there were calls.
THEOREM CoolDownShortens == Spec => RestartsRunOut
<1>1. ASSUME IndInv, [Next]_vars, Cooling, Cooling'
      PROVE  /\ InFlight' \subseteq InFlight
             /\ lastFailure' >= lastFailure \/ InFlight' # InFlight
  <2> USE <1>1, BreakerAssumption
      DEF IndInv, TypeOK, Admission, Inside, Cooling, TimedOut, FailureTimeKnown
  <2>0. lastFailure \in Nat
        OBVIOUS
  <2>1. ASSUME NEW c \in Callers, Admit(c)
        PROVE  FALSE
        BY <2>1 DEF Admit
  <2>2. CASE UNCHANGED <<lastFailure, InFlight>>
        BY <2>0, <2>2
  <2>3. ASSUME NEW c \in Callers, Refuse(c)
        PROVE  UNCHANGED <<lastFailure, InFlight>>
        BY <2>3 DEF Refuse, InFlight
  <2>4. ASSUME NEW c \in Callers, ExitOk(c) \/ ExitError(c)
        PROVE  InFlight' \subseteq InFlight /\ InFlight' # InFlight
    <3>1. c \in InFlight /\ InFlight' = InFlight \ {c}
          BY <2>4 DEF ExitOk, ExitError, InFlight
    <3>2. QED
          BY <3>1
  <2>5. CASE Tick
        BY <2>0, <2>5 DEF Tick, InFlight
  <2>6. CASE UNCHANGED vars
        BY <2>2, <2>6 DEF vars, InFlight
  <2>7. QED
        BY <2>1, <2>2, <2>3, <2>4, <2>5, <2>6 DEF Next
<1>2. IndInv /\ [Next]_vars =>
          [Cooling /\ Cooling' =>
              /\ InFlight' \subseteq InFlight
              /\ lastFailure' >= lastFailure \/ InFlight' # InFlight]_vars
      BY <1>1
<1>3. QED
      BY InitInd, NextInd, <1>2, PTL DEF Spec, RestartsRunOut

-----------------------------------------------------------------------------

\* Every step of the breaker is a step of the contract or leaves it unchanged.
LEMMA StepRefines == IndInv /\ [Next]_vars => [Contract!Next]_Contract!vars
<1> SUFFICES ASSUME IndInv, [Next]_vars
             PROVE  [Contract!Next]_Contract!vars
    OBVIOUS
<1> USE BreakerAssumption
    DEF IndInv, TypeOK, States, Admission, Inside, TimedOut, Cooling,
        Contract!vars
<1>1. ASSUME NEW c \in Callers, Admit(c)
      PROVE  Contract!Start(c)
      BY <1>1 DEF Admit, Contract!Start
<1>2. ASSUME NEW c \in Callers, Refuse(c)
      PROVE  UNCHANGED Contract!vars
      BY <1>2 DEF Refuse
<1>3. ASSUME NEW c \in Callers, ExitOk(c)
      PROVE  Contract!End(c)
      BY <1>3 DEF ExitOk, Contract!End
<1>4. ASSUME NEW c \in Callers, ExitError(c)
      PROVE  Contract!End(c)
      BY <1>4 DEF ExitError, Contract!End
<1>5. ASSUME Tick
      PROVE  Contract!Expire \/ UNCHANGED Contract!vars
      BY <1>5 DEF Tick, Contract!Expire
<1>6. ASSUME UNCHANGED vars
      PROVE  UNCHANGED Contract!vars
      BY <1>6 DEF vars
<1>7. QED
      BY <1>1, <1>2, <1>3, <1>4, <1>5, <1>6 DEF Next, Contract!Next

\* The circuit breaker implements the fail-fast contract: during a cool-down
\* no new call starts, and no call outcome cuts a cool-down short.
THEOREM ImplementsFailFast == Spec => FailsFast
<1>1. Init => Contract!Init
      BY DEF Init, Contract!Init, Cooling, Inside
<1>2. QED
      BY InitInd, NextInd, StepRefines, <1>1, PTL
      DEF Spec, FailsFast, Contract!Spec
=============================================================================
