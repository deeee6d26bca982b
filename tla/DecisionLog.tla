----------------------------- MODULE DecisionLog -----------------------------
(***************************************************************************)
(* What the risk service promises its clients, with tables, transactions   *)
(* and use-case steps hidden: an append-only history of decisions.         *)
(*                                                                         *)
(* A decision enters the history once and for good, a job is confirmed to  *)
(* its client (201 or 200) only when its decision is in the history, and   *)
(* an event is announced only for such a decision.  A job may also end     *)
(* unconfirmed with its decision in the history: the answer of the         *)
(* database, the event or the client may be lost, the decision is not.     *)
(***************************************************************************)
CONSTANTS Jobs,      \* job ids, one per execution of a use case
          Findings   \* finding ids

VARIABLES history,    \* the decisions, [job, finding]
          confirmed,  \* jobs whose client was told of success
          announced   \* jobs with a published finding.scored event

vars == <<history, confirmed, announced>>

Decision == [job : Jobs, finding : Findings]

Recorded == {d.job : d \in history}

TypeOK ==
    /\ history \in SUBSET Decision
    /\ confirmed \in SUBSET Jobs
    /\ announced \in SUBSET Jobs

Init == history = {} /\ confirmed = {} /\ announced = {}

\* A decision is appended, at once with or ahead of its confirmation.
Append(j, f) ==
    /\ j \notin Recorded
    /\ history' = history \cup {[job |-> j, finding |-> f]}
    /\ confirmed' \in {confirmed, confirmed \cup {j}}
    /\ UNCHANGED announced

\* A recorded decision is announced, or not, and confirmed.
Confirm(j) ==
    /\ j \in Recorded
    /\ confirmed' = confirmed \cup {j}
    /\ announced' \in {announced, announced \cup {j}}
    /\ UNCHANGED history

Next == \E j \in Jobs : Confirm(j) \/ \E f \in Findings : Append(j, f)

Spec == Init /\ [][Next]_vars
=============================================================================
