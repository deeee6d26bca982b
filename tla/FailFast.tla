------------------------------ MODULE FailFast ------------------------------
(***************************************************************************)
(* What a caller of the circuit breaker may rely on, with the breaker's    *)
(* three states and its counter hidden: there are cool-down periods, and   *)
(* during one no new call starts.  Calls that were already in flight may   *)
(* end at any moment; the end of a call can begin a cool-down but nothing  *)
(* that a call does can cut one short.  Only time ends a cool-down.        *)
(***************************************************************************)
CONSTANT Callers

VARIABLES cooling,   \* TRUE while calls fail fast
          inFlight   \* the callers whose call is running

vars == <<cooling, inFlight>>

TypeOK == cooling \in BOOLEAN /\ inFlight \in SUBSET Callers

Init == cooling = FALSE /\ inFlight = {}

Start(c) == /\ ~cooling
            /\ inFlight' = inFlight \cup {c}
            /\ UNCHANGED cooling

End(c) == /\ c \in inFlight
          /\ inFlight' = inFlight \ {c}
          /\ cooling' \in {cooling, TRUE}

Expire == /\ cooling
          /\ cooling' = FALSE
          /\ UNCHANGED inFlight

Next == \/ \E c \in Callers : Start(c) \/ End(c)
        \/ Expire

Spec == Init /\ [][Next]_vars
=============================================================================
