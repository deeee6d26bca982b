------------------------ MODULE RiskServiceLockProofs ------------------------
(***************************************************************************)
(* Proofs about the row locks of RiskService, for any number of requests,  *)
(* faults and both table schemas: who waits for whom, why every request    *)
(* gets to its end, and when the disagreements that the violation runs     *)
(* find do not arise.                                                      *)
(***************************************************************************)
EXTENDS RiskServiceProofs

\* The steps at which a request has a transaction open.
Open(r) ==
    \/ pc[r] \in {"saveDecision", "deleteRec", "waitRec", "commit"}
    \/ pc[r] \in {"readDecision", "score"} /\ req[r].kind = "recalculate"

\* What a waiting request may find of the one it waits for: still about to
\* commit the deletion, or ended, with its decision stored unless a fault hit.
Resolves(b) ==
    \/ pc[b] = "commit" /\ tx[b].rec = "deleted"
    \/ pc[b] \in Past /\ (b \in faulted \/ \E d \in scores : d.job = b)

LocksOf(r) ==
    /\ Open(r) <=> tx[r].began # 0
    /\ ~Open(r) => tx[r] = NoTx
    /\ tx[r].rec # "untouched" => pc[r] = "commit"
    /\ pc[r] = "waitRec" => /\ req[r].kind = "recalculate"
                            /\ tx[r].blocker \in Requests \ {r}
                            /\ Resolves(tx[r].blocker)

Locks == \A r \in Requests : LocksOf(r)

LEMMA InitLocks == Init => Locks
BY DEF Init, Locks, LocksOf, Open, NoTx

LEMMA FaultsRemembered == [Next]_vars => faulted \subseteq faulted'
BY DEF Next, Step, Fault, Submit, ReadContext, CreateAsset, 
   Compute, ReadFinding, ReadDecision, SaveFinding, SaveDecision, DeleteRec,
   WakeRec, Commit, Publish, StepFails, CommitUnacknowledged,
   Vanish, Faulty, vars

\* A request that somebody waits for stays resolved once it is, and gets there
\* in no other way.
LEMMA ResolvesKept ==
    ASSUME IndInv, [Next]_vars, NEW b \in Requests, Resolves(b)
    PROVE  Resolves(b)'
<1> USE DEF Past
<1>0. /\ pc \in [Requests -> Stages] /\ tx \in [Requests -> Transaction]
      BY DEF IndInv, TypeOK
<1>1. faulted \subseteq faulted' /\ scores \subseteq scores'
      BY FaultsRemembered, ScoresGrow
<1>2. CASE pc[b] \in Past
      BY <1>1, <1>2, Kept DEF Resolves
<1>3. CASE pc[b] = "commit" /\ tx[b].rec = "deleted"
  <2>1. ASSUME NEW r \in Requests \ {b}, Submit(r) \/ Step(r) \/ Fault(r)
        PROVE  Resolves(b)'
    <3>1. pc'[b] = pc[b] /\ tx'[b] = tx[b]
          BY <2>1, Others
    <3>2. QED
          BY <1>3, <3>1 DEF Resolves
  <2>2. ASSUME Submit(b) \/ Step(b) \/ Fault(b)
        PROVE  Resolves(b)'
    <3>1. ~RecConflict(b)
          BY <1>3 DEF RecConflict
    <3>2. \/ Commit(b) \/ CommitUnacknowledged(b)
          \/ StepFails(b) \/ Vanish(b)
          BY <1>3, <2>2 DEF Step, Fault, Submit, ReadContext, CreateAsset,
             Compute, ReadFinding, ReadDecision, SaveFinding,
             SaveDecision, DeleteRec, WakeRec, Publish
    <3>3. ASSUME Commit(b) \/ CommitUnacknowledged(b)
          PROVE  Resolves(b)'
      <4>1. Persist(b) /\ pc'[b] \in Past
            BY <1>0, <3>1, <3>3 DEF Commit, CommitUnacknowledged, Goto, Answer
      <4>2. \E d \in scores' : d.job = b
        <5> DEFINE row == [finding |-> Target(b), job |-> b, tenant |-> req[b].tenant,
                           created_at |-> tx[b].began]
        <5>1. row \in scores'
              BY <1>3, <4>1, Persisted
        <5>2. row.job = b
              OBVIOUS
        <5>3. QED
              BY <5>1, <5>2
      <4>3. QED
            BY <4>1, <4>2 DEF Resolves
    <3>4. ASSUME StepFails(b) \/ Vanish(b)
          PROVE  Resolves(b)'
          BY <1>0, <3>4 DEF StepFails, Vanish, Faulty, Goto, Answer, Resolves
    <3>5. QED
          BY <3>2, <3>3, <3>4
  <2>3. CASE UNCHANGED vars
        BY <1>3, <2>3 DEF vars, Resolves
  <2>4. QED
        BY <2>1, <2>2, <2>3 DEF Next
<1>4. QED
      BY <1>2, <1>3 DEF Resolves

\* Only a recalculation can meet a locked recommendation: the finding id of an
\* evaluation is its own, and nobody recalculates it before it is stored.
LEMMA HolderRecalculates ==
    ASSUME IndInv, Locks, NEW r \in Requests, NEW b \in Requests \ {r},
           pc[r] = "deleteRec", HoldsRec(b, Target(r))
    PROVE  /\ pc[b] = "commit" /\ req[r].kind = "recalculate"
           /\ req[b].kind = "recalculate"
<1>0. Control /\ Pending /\ Rows
      BY DEF IndInv
<1>1. pc[b] = "commit"
      BY DEF HoldsRec, Locks, LocksOf
<1>2. req[r].kind \in {"evaluate", "recalculate"} /\ req[b].kind \in {"evaluate", "recalculate"}
      BY <1>0, <1>1 DEF Control, Computed, Writer
<1>3. ASSUME req[r].kind = "evaluate"
      PROVE  FALSE
  <2>1. Target(r) = r /\ Target(b) = r
        BY <1>3 DEF Target, HoldsRec
  <2>2. req[b].kind = "recalculate"
        BY <1>2, <2>1 DEF Target
  <2>3. PICK d \in scores : d.finding = r
        BY <1>0, <1>1, <2>1, <2>2 DEF Pending, Computed, Visible
  <2>4. pc[r] \in Past
        BY <1>0, <2>3 DEF Rows
  <2>5. QED
        BY <2>4 DEF Past
<1>4. ASSUME req[b].kind = "evaluate"
      PROVE  FALSE
  <2>1. Target(r) = b
        BY <1>4 DEF Target, HoldsRec
  <2>2. PICK d \in scores : d.finding = b
        BY <1>0, <1>2, <1>3, <2>1 DEF Pending, Computed, Visible
  <2>3. pc[b] \in Past
        BY <1>0, <2>2 DEF Rows
  <2>4. QED
        BY <1>1, <2>3 DEF Past
<1>5. QED
      BY <1>1, <1>2, <1>3, <1>4

LEMMA LocksStep == IndInv /\ Locks /\ [Next]_vars => Locks'
<1> SUFFICES ASSUME IndInv, Locks, [Next]_vars
             PROVE  Locks'
    OBVIOUS
<1> USE DEF tables, Goto, Answer, Discard
<1>0. /\ \A r \in Requests : LocksOf(r)
      /\ Control
      /\ pc \in [Requests -> Stages] /\ tx \in [Requests -> Transaction]
      /\ clock \in Nat \ {0}
      BY DEF IndInv, TypeOK, Locks
<1>1. ASSUME NEW o \in Requests, pc[o] # "idle"
      PROVE  req'[o] = req[o]
      BY <1>1, Kept
<1>2. ASSUME NEW o \in Requests,
             pc'[o] = pc[o], tx'[o] = tx[o], req'[o] = req[o]
      PROVE  LocksOf(o)'
  <2>1. ASSUME pc[o] = "waitRec"
        PROVE  Resolves(tx[o].blocker)'
    <3>1. tx[o].blocker \in Requests /\ Resolves(tx[o].blocker)
          BY <1>0, <2>1 DEF LocksOf
    <3>2. ASSUME NEW b \in Requests, b = tx[o].blocker
          PROVE  Resolves(b)'
          BY <3>1, <3>2, ResolvesKept
    <3>3. QED
          BY <1>2, <3>1, <3>2 DEF Resolves
  <2>2. QED
        BY <1>0, <1>2, <2>1 DEF LocksOf, Open
<1>3. ASSUME NEW r \in Requests, Submit(r)
      PROVE  LocksOf(r)'
  <2>1. /\ pc[r] = "idle" /\ tx'[r] = tx[r]
        /\ pc'[r] \in {"context", "readFinding", "readDecision"}
        /\ pc'[r] = "readDecision" => req'[r].kind # "recalculate"
    <3>1. CASE \E in \in EvaluateInput :
                  req' = [req EXCEPT ![r] = in] /\ Goto(r, "context")
          BY <1>0, <1>3, <3>1 DEF Submit
    <3>2. CASE \E in \in DecisionInput :
                  /\ req' = [req EXCEPT ![r] = in]
                  /\ Goto(r, IF in.kind = "get" THEN "readDecision"
                                                ELSE "readFinding")
      <4>1. PICK in \in DecisionInput :
               /\ req' = [req EXCEPT ![r] = in]
               /\ Goto(r, IF in.kind = "get" THEN "readDecision" ELSE "readFinding")
            BY <3>2
      <4>2. req \in [Requests -> EvaluateInput \cup DecisionInput \cup {NoRequest}]
            BY DEF IndInv, TypeOK
      <4>3. req'[r] = in
            BY <4>1, <4>2
      <4>4. QED
            BY <1>0, <1>3, <4>1, <4>3 DEF Submit
    <3>3. QED
          BY <1>3, <3>1, <3>2 DEF Submit
  <2>2. ~Open(r) /\ tx[r] = NoTx
        BY <1>0, <2>1 DEF LocksOf, Open
  <2>3. ~Open(r)'
        BY <2>1 DEF Open
  <2>4. QED
        BY <2>1, <2>2, <2>3 DEF LocksOf, NoTx
<1>4. ASSUME NEW r \in Requests, Step(r) \/ Fault(r)
      PROVE  LocksOf(r)'
  <2> USE DEF LocksOf, Open
  <2>0. pc[r] # "idle" /\ req'[r] = req[r] /\ LocksOf(r)
    <3>1. pc[r] # "idle"
          BY <1>4 DEF Step, Fault, ReadContext, CreateAsset, Compute,
             ReadFinding, ReadDecision, SaveFinding, SaveDecision, DeleteRec, WakeRec,
             Commit, Publish, StepFails, CommitUnacknowledged, Vanish
    <3>2. QED
          BY <1>0, <1>1, <3>1
  <2>1. ASSUME \/ ReadContext(r) \/ CreateAsset(r)
               \/ Publish(r)
        PROVE  LocksOf(r)'
    <3>1. /\ req[r].kind = "evaluate" /\ tx[r] = NoTx /\ tx'[r] = tx[r]
          /\ pc'[r] \in {"create", "score", "done"}
          BY <1>0, <2>0, <2>1 DEF Control, ReadContext, CreateAsset, 
             Publish
    <3>2. QED
          BY <2>0, <3>1 DEF NoTx
  <2>2. CASE Compute(r)
    <3>1. /\ tx'[r] = tx[r] /\ pc[r] = "score"
          /\ req[r].kind = "evaluate" => pc'[r] = "saveFinding"
          /\ req[r].kind = "recalculate" => pc'[r] = "saveDecision"
          /\ req[r].kind \in {"evaluate", "recalculate"}
          BY <1>0, <2>2 DEF Compute, Control, Computed, Writer
    <3>2. QED
          BY <2>0, <3>1 DEF NoTx
  <2>3. CASE ReadFinding(r)
    <3>1. \/ pc'[r] = "done" /\ tx'[r] = NoTx
          \/ pc'[r] = "readDecision" /\ tx'[r] = Begin(r)
          BY <1>0, <2>0, <2>3 DEF ReadFinding
    <3>2. req[r].kind = "recalculate"
          BY <1>0, <2>3 DEF ReadFinding, Control
    <3>3. QED
          BY <1>0, <2>0, <3>1, <3>2 DEF Begin, NoTx
  <2>4. CASE ReadDecision(r)
    <3>1. \/ pc'[r] = "done" /\ tx'[r] = NoTx
          \/ pc'[r] = "done" /\ tx'[r] = tx[r] /\ req[r].kind = "get"
          \/ /\ pc'[r] = "score" /\ req[r].kind # "get"
             /\ \E b \in BOOLEAN : tx' = [tx EXCEPT ![r].hadRec = b]
      <4>1. CASE Visible(r) = {}
            BY <1>0, <2>4, <4>1 DEF ReadDecision, Discard
      <4>2. CASE Visible(r) # {} /\ req[r].kind = "get"
            BY <1>0, <2>4, <4>2 DEF ReadDecision
      <4>3. CASE Visible(r) # {} /\ req[r].kind # "get"
        <5>1. (recs[Target(r)] # "absent") \in BOOLEAN
              OBVIOUS
        <5>2. pc'[r] = "score" /\ tx' = [tx EXCEPT ![r].hadRec = recs[Target(r)] # "absent"]
              BY <1>0, <2>4, <4>3 DEF ReadDecision
        <5>3. QED
              BY <4>3, <5>1, <5>2
      <4>4. QED
            BY <4>1, <4>2, <4>3
    <3>2. /\ pc[r] = "readDecision"
          /\ req[r].kind \in {"recalculate", "get"}
          BY <1>0, <2>4 DEF ReadDecision, Control
    <3>3. CASE /\ pc'[r] = "score" /\ req[r].kind = "recalculate"
               /\ \E b \in BOOLEAN : tx' = [tx EXCEPT ![r].hadRec = b]
      <4>1. /\ tx'[r].began = tx[r].began /\ tx'[r].rec = tx[r].rec
            BY <1>0, <3>3 DEF Transaction
      <4>2. QED
            BY <2>0, <3>2, <3>3, <4>1
    <3>4. CASE pc'[r] = "done" /\ tx'[r] = NoTx
          BY <3>4 DEF NoTx
    <3>5. CASE pc'[r] = "done" /\ tx'[r] = tx[r] /\ req[r].kind = "get"
          BY <2>0, <3>2, <3>5 DEF NoTx
    <3>6. QED
          BY <3>1, <3>2, <3>3, <3>4, <3>5
  <2>5. CASE SaveFinding(r)
    <3>1. pc'[r] = "saveDecision" /\ tx'[r] = [Begin(r) EXCEPT !.finding = TRUE]
          BY <1>0, <2>5 DEF SaveFinding
    <3>2. tx'[r].began = clock /\ tx'[r].rec = "untouched"
          BY <3>1 DEF Begin, NoTx
    <3>3. QED
          BY <1>0, <2>0, <3>1, <3>2
  <2>6. CASE SaveDecision(r)
    <3>1. \/ pc'[r] = "done" /\ tx'[r] = NoTx
          \/ pc'[r] = "deleteRec" /\ tx' = [tx EXCEPT ![r].score = TRUE]
          BY <1>0, <2>6 DEF SaveDecision
    <3>2. CASE pc'[r] = "done" /\ tx'[r] = NoTx
          BY <3>2 DEF NoTx
    <3>3. CASE pc'[r] = "deleteRec" /\ tx' = [tx EXCEPT ![r].score = TRUE]
      <4>1. /\ tx'[r].began = tx[r].began /\ tx'[r].rec = tx[r].rec
            /\ pc[r] = "saveDecision"
            BY <1>0, <2>6, <3>3 DEF Transaction, SaveDecision
      <4>2. QED
            BY <2>0, <3>3, <4>1
    <3>4. QED
          BY <3>1, <3>2, <3>3
  <2>7. CASE DeleteRec(r)
    <3>1. CASE \E o \in Requests \ {r} :
                  /\ HoldsRec(o, Target(r))
                  /\ tx' = [tx EXCEPT ![r].blocker = o]
                  /\ Goto(r, "waitRec")
      <4>1. PICK o \in Requests \ {r} :
               /\ HoldsRec(o, Target(r))
               /\ tx' = [tx EXCEPT ![r].blocker = o]
               /\ pc' = [pc EXCEPT ![r] = "waitRec"]
            BY <3>1
      <4>2. pc[o] = "commit" /\ req[r].kind = "recalculate"
            BY <2>7, <4>1, HolderRecalculates DEF DeleteRec
      <4>3. /\ tx'[r].blocker = o /\ tx'[r].began = tx[r].began
            /\ tx'[r].rec = tx[r].rec /\ tx'[o] = tx[o]
            /\ pc'[r] = "waitRec" /\ pc'[o] = "commit" /\ pc[r] = "deleteRec"
            BY <1>0, <2>7, <4>1, <4>2 DEF Transaction, DeleteRec
      <4>4. Resolves(o)'
            BY <4>1, <4>3 DEF Resolves, HoldsRec
      <4>5. QED
            BY <2>0, <4>2, <4>3, <4>4
    <3>2. CASE /\ \E x \in {"untouched", "deleted"} : tx' = [tx EXCEPT ![r].rec = x]
               /\ Goto(r, "commit")
      <4>1. pc'[r] = "commit" /\ tx'[r].began = tx[r].began /\ pc[r] = "deleteRec"
            BY <1>0, <2>7, <3>2 DEF Transaction, DeleteRec
      <4>2. QED
            BY <2>0, <4>1
    <3>3. QED
          BY <2>7, <3>1, <3>2 DEF DeleteRec
  <2>8. CASE WakeRec(r)
    <3>1. /\ pc[r] = "waitRec" /\ tx'[r].began = tx[r].began
          /\ \/ pc'[r] = "commit"
             \/ pc'[r] = "deleteRec" /\ tx'[r].rec = tx[r].rec
          BY <1>0, <2>8 DEF WakeRec, Transaction
    <3>2. QED
          BY <2>0, <3>1
  <2>9. CASE Commit(r) \/ StepFails(r) \/ CommitUnacknowledged(r) \/ Vanish(r)
    <3>1. pc'[r] \in {"publish", "done", "gone"} /\ tx'[r] = NoTx
          BY <1>0, <2>9 DEF Commit, StepFails, CommitUnacknowledged, Vanish
    <3>2. QED
          BY <3>1 DEF NoTx
  <2>10. QED
         BY <1>4, <2>1, <2>2, <2>3, <2>4, <2>5, <2>6, <2>7, <2>8, <2>9
         DEF Step, Fault
<1>5. ASSUME NEW r \in Requests, Submit(r) \/ Step(r) \/ Fault(r)
      PROVE  \A o \in Requests : LocksOf(o)'
      BY <1>2, <1>3, <1>4, <1>5, Others
<1>6. ASSUME UNCHANGED vars
      PROVE  \A o \in Requests : LocksOf(o)'
      BY <1>2, <1>6 DEF vars
<1>7. QED
      BY <1>5, <1>6 DEF Next, Locks

LEMMA LocksHold == Spec => [](IndInv /\ Locks)
BY InitInd, NextInd, InitLocks, LocksStep, PTL DEF Spec

-----------------------------------------------------------------------------
(* Every request gets to its end                                           *)

\* No request that is waited for waits itself, so waiting requests never form
\* a circle or a queue: a holder of a finding is past its only wait, for that
\* finding, and cannot meet a locked recommendation.
THEOREM NobodyWaitsInACircle == Spec => []NoCircularWait
<1>1. IndInv /\ Locks => NoCircularWait
  <2> SUFFICES ASSUME IndInv, Locks, NEW r \in Requests, NEW o \in Requests,
                      NEW p \in Requests, WaitsFor(r, o), WaitsFor(o, p)
               PROVE  FALSE
      BY DEF NoCircularWait
  <2>1. LocksOf(r) /\ LocksOf(o) /\ PendingOf(o) /\ TypeOK
        BY DEF IndInv, Locks, Pending, PendingOf
  <2>2. pc[o] \in {"saveFinding", "waitRec"}
        BY DEF WaitsFor
  <2>3. CASE pc[r] = "saveFinding" /\ tx[o].finding
    <3>1. pc[o] = "waitRec"
          BY <2>1, <2>2, <2>3 DEF LocksOf, Open, NoTx
    <3>2. QED
          BY <2>1, <2>3, <3>1 DEF LocksOf, PendingOf
  <2>4. CASE pc[r] = "waitRec" /\ tx[r].blocker = o /\ tx[o].began # 0
    <3>1. Resolves(o)
          BY <2>1, <2>4 DEF LocksOf
    <3>2. QED
          BY <2>2, <3>1 DEF Resolves, Past
  <2>5. QED
        BY <2>3, <2>4 DEF WaitsFor
<1>2. QED
      BY LocksHold, <1>1, PTL

\* A step that a request takes is one it has not taken before, except that a
\* DELETE is tried again once for each request it waited for that a fault ended.
LEMMA Forward ==
    ASSUME IndInv, Locks, NEW r \in Requests, Submit(r) \/ Step(r) \/ Fault(r)
    PROVE  \/ Rank[pc'[r]] > Rank[pc[r]]
           \/ /\ pc[r] = "waitRec" /\ pc'[r] = "deleteRec"
              /\ tx[r].blocker \in faulted
<1> USE DEF Goto, Answer
<1>0. /\ pc \in [Requests -> Stages] /\ LocksOf(r) /\ Control
      BY DEF IndInv, TypeOK, Locks
<1>1. ASSUME \/ Submit(r) \/ ReadContext(r) \/ CreateAsset(r)
             \/ Compute(r) \/ ReadFinding(r) \/ ReadDecision(r) \/ SaveFinding(r)
             \/ SaveDecision(r) \/ DeleteRec(r) \/ Commit(r) \/ Publish(r)
      PROVE  Rank[pc'[r]] > Rank[pc[r]]
  <2>1. pc'[r] \in CASE pc[r] = "idle" -> {"context", "readFinding", "readDecision"}
                     [] pc[r] = "context" -> {"create", "score"}
                     [] pc[r] = "create" -> {"score"}
                     [] pc[r] = "score" -> {"saveFinding", "saveDecision"}
                     [] pc[r] = "readFinding" -> {"readDecision", "done"}
                     [] pc[r] = "readDecision" -> {"score", "done"}
                     [] pc[r] = "saveFinding" -> {"saveDecision"}
                     [] pc[r] = "saveDecision" -> {"deleteRec", "done"}
                     [] pc[r] = "deleteRec" -> {"waitRec", "commit"}
                     [] pc[r] = "commit" -> {"publish", "done"}
                     [] pc[r] = "publish" -> {"done"}
                     [] OTHER -> {}
        BY <1>0, <1>1 DEF Submit, ReadContext, CreateAsset, Compute,
           ReadFinding, ReadDecision, SaveFinding, SaveDecision, DeleteRec, Commit,
           Publish
  <2>2. pc[r] \in Stages
        BY <1>0
  <2>3. QED
        BY <2>1, <2>2 DEF Stages, Rank
<1>2. ASSUME WakeRec(r)
      PROVE  \/ Rank[pc'[r]] > Rank[pc[r]]
             \/ /\ pc[r] = "waitRec" /\ pc'[r] = "deleteRec"
                /\ tx[r].blocker \in faulted
  <2>1. /\ pc[r] = "waitRec" /\ tx[tx[r].blocker].began = 0
        /\ \/ pc'[r] = "commit"
           \/ pc'[r] = "deleteRec" /\ ~ \E d \in scores : d.job = tx[r].blocker
        BY <1>0, <1>2 DEF WakeRec, JobOf
  <2>2. tx[r].blocker \in Requests /\ Resolves(tx[r].blocker)
        BY <1>0, <2>1 DEF LocksOf
  <2>3. pc[tx[r].blocker] # "commit"
        BY <2>1, <2>2 DEF Locks, LocksOf, Open
  <2>4. QED
        BY <2>1, <2>2, <2>3 DEF Resolves, Rank
<1>3. ASSUME Fault(r)
      PROVE  Rank[pc'[r]] > Rank[pc[r]]
  <2>1. /\ pc[r] \notin {"idle", "done", "gone"}
        /\ pc'[r] \in {"done", "gone"}
        BY <1>0, <1>3 DEF Fault, StepFails, CommitUnacknowledged,
           Vanish
  <2>2. pc[r] \in Stages
        BY <1>0
  <2>3. QED
        BY <2>1, <2>2 DEF Stages, Rank
<1>4. QED
      BY <1>1, <1>2, <1>3 DEF Step

\* With any number of overlapping requests and faults, no request repeats a
\* step but the DELETE, and that only after a fault of the one it waited for.
THEOREM RequestsAdvance == Spec => StepsForward
<1>1. IndInv /\ Locks /\ [Next]_vars
      => [\A r \in Requests :
            pc'[r] # pc[r] =>
                \/ Rank[pc'[r]] > Rank[pc[r]]
                \/ /\ pc[r] = "waitRec" /\ pc'[r] = "deleteRec"
                   /\ tx[r].blocker \in faulted]_vars
  <2> SUFFICES ASSUME IndInv, Locks, [Next]_vars, NEW r \in Requests, pc'[r] # pc[r]
               PROVE  \/ Rank[pc'[r]] > Rank[pc[r]]
                      \/ /\ pc[r] = "waitRec" /\ pc'[r] = "deleteRec"
                         /\ tx[r].blocker \in faulted
      OBVIOUS
  <2>1. Submit(r) \/ Step(r) \/ Fault(r)
    <3>1. PICK o \in Requests : Submit(o) \/ Step(o) \/ Fault(o)
          BY DEF Next, vars
    <3>2. o = r
          BY <3>1, Others
    <3>3. QED
          BY <3>1, <3>2
  <2>2. QED
        BY <2>1, Forward
<1>2. QED
      BY LocksHold, <1>1, PTL DEF Spec, StepsForward

-----------------------------------------------------------------------------
(* Where the violation runs stop                                           *)

\* Stored finding rows are written with a decision of the same id.
LEMMA RowsHaveStep == IndInv /\ RowsHaveDecisions /\ [Next]_vars => RowsHaveDecisions'
<1> SUFFICES ASSUME IndInv, RowsHaveDecisions, [Next]_vars,
                    NEW t \in Tenants, NEW k \in SourceKeys,
                    findings'[<<t, k>>] # Nothing
             PROVE  \E d \in scores' : d.finding = findings'[<<t, k>>] /\ d.tenant = t
    BY DEF RowsHaveDecisions
<1>0. scores \subseteq scores'
      BY ScoresGrow
<1>1. CASE findings'[<<t, k>>] = findings[<<t, k>>]
      BY <1>0, <1>1 DEF RowsHaveDecisions
<1>2. CASE findings'[<<t, k>>] # findings[<<t, k>>]
  <2>1. PICK r \in Requests : pc[r] = "commit" /\ Persist(r)
        BY <1>2, Writes
  <2>2. tx[r].finding /\ findings' = UpsertedFindings(r)
        BY <1>2, <2>1 DEF Persist
  <2>3. /\ req[r].kind = "evaluate" /\ req[r] \in EvaluateInput \cup DecisionInput
        /\ findings \in [Tenants \X SourceKeys -> Findings \cup {Nothing}]
        BY <2>1, <2>2 DEF IndInv, Pending, Control, TypeOK
  <2>4. /\ SourceKey(r) = <<t, k>> /\ findings'[<<t, k>>] = Target(r)
        BY <1>2, <2>2, <2>3 DEF UpsertedFindings
  <2>5. req[r].tenant = t
        BY <2>4 DEF SourceKey
  <2> DEFINE row == [finding |-> Target(r), job |-> r, tenant |-> req[r].tenant,
                     created_at |-> tx[r].began]
  <2>6. row \in scores'
        BY <2>1, Persisted
  <2>7. row.finding = Target(r) /\ row.tenant = t
        BY <2>5
  <2>8. QED
        BY <2>4, <2>6, <2>7
<1>3. QED
      BY <1>1, <1>2

\* Whatever overlaps or fails, the decision of an id found in the findings table
\* can be read by its tenant.
THEOREM RowsAreReadable == Spec => []RowsHaveDecisions
<1>1. Init => RowsHaveDecisions
      BY DEF Init, RowsHaveDecisions
<1>2. QED
      BY Inductive, RowsHaveStep, <1>1, PTL DEF Spec

\* A recalculation that overlaps none of the same finding meets no lock, finds
\* a recommendation to delete and so can insert its own.
ApartOf(r) ==
    req[r].kind = "recalculate" =>
        /\ pc[r] # "waitRec"
        /\ pc[r] = "commit" => tx[r].rec = "deleted"

Apart == \A r \in Requests : ApartOf(r)

LEMMA ApartStep ==
    ASSUME IndInv, Locks, Apart, RecalculationsApart, [Next]_vars
    PROVE  Apart'
<1> USE DEF Goto, Answer, Discard
<1>0. /\ pc \in [Requests -> Stages] /\ tx \in [Requests -> Transaction]
      /\ req \in [Requests -> EvaluateInput \cup DecisionInput \cup {NoRequest}]
      BY DEF IndInv, TypeOK
<1>1. ASSUME NEW r \in Requests, Submit(r)
      PROVE  ApartOf(r)'
      BY <1>0, <1>1 DEF Submit, ApartOf
<1>2. ASSUME NEW r \in Requests, Step(r) \/ Fault(r)
      PROVE  ApartOf(r)'
  <2>1. pc[r] # "idle"
        BY <1>2 DEF Step, Fault, ReadContext, CreateAsset, Compute,
           ReadFinding, ReadDecision, SaveFinding, SaveDecision, DeleteRec, WakeRec,
           Commit, Publish, StepFails, CommitUnacknowledged, Vanish
  <2>2. req'[r] = req[r]
        BY <2>1, Kept
  <2>3. SUFFICES ASSUME req[r].kind = "recalculate"
                 PROVE  /\ pc'[r] # "waitRec"
                        /\ pc'[r] = "commit" => tx'[r].rec = "deleted"
        BY <2>2 DEF ApartOf
  <2>4. CASE DeleteRec(r)
    <3>1. ASSUME NEW o \in Requests \ {r}, HoldsRec(o, Target(r))
          PROVE  FALSE
      <4>1. pc[r] = "deleteRec"
            BY <2>4 DEF DeleteRec
      <4>2. pc[o] = "commit" /\ req[o].kind = "recalculate"
            BY <3>1, <4>1, HolderRecalculates
      <4>3. tx[r].began # 0 /\ tx[o].began # 0
            BY <4>1, <4>2 DEF Locks, LocksOf, Open
      <4>4. Target(o) = Target(r)
            BY <3>1 DEF HoldsRec
      <4>5. QED
            BY <2>3, <4>2, <4>3, <4>4 DEF RecalculationsApart
    <3>2. recs[Target(r)] # "absent"
      <4>1. PICK d \in scores : d.finding = Target(r)
            BY <2>3, <2>4 DEF IndInv, Pending, Computed, Visible, DeleteRec
      <4>2. QED
            BY <4>1 DEF IndInv, AtomicPersist
    <3>3. pc' = [pc EXCEPT ![r] = "commit"] /\ tx' = [tx EXCEPT ![r].rec = "deleted"]
          BY <2>4, <3>1, <3>2 DEF DeleteRec
    <3>4. tx'[r].rec = "deleted"
          BY <1>0, <3>3 DEF Transaction
    <3>5. QED
          BY <1>0, <3>3, <3>4
  <2>5. CASE WakeRec(r)
        BY <2>3, <2>5 DEF WakeRec, Apart, ApartOf
  <2>6. CASE ~DeleteRec(r) /\ ~WakeRec(r)
        BY <1>0, <1>2, <2>6 DEF Step, Fault, ReadContext, CreateAsset,
           Compute, ReadFinding, ReadDecision, SaveFinding,
           SaveDecision, Commit, Publish, StepFails, 
           CommitUnacknowledged, Vanish
  <2>7. QED
        BY <2>4, <2>5, <2>6
<1>3. ASSUME NEW o \in Requests,
             pc'[o] = pc[o], tx'[o] = tx[o], req'[o] = req[o]
      PROVE  ApartOf(o)'
      BY <1>3 DEF Apart, ApartOf
<1>4. ASSUME NEW r \in Requests, Submit(r) \/ Step(r) \/ Fault(r)
      PROVE  \A o \in Requests : ApartOf(o)'
      BY <1>1, <1>2, <1>3, <1>4, Others
<1>5. ASSUME UNCHANGED vars
      PROVE  \A o \in Requests : ApartOf(o)'
      BY <1>3, <1>5 DEF vars
<1>6. QED
      BY <1>4, <1>5 DEF Next, Apart

\* What a recalculation needs from the tables of the models, in one step.
LEMMA RecordedStep ==
    ASSUME IndInv, Locks, Apart, RecalculationsApart, RecalculationRecorded,
           [Next]_vars
    PROVE  RecalculationRecorded'
<1> USE DEF Goto, Answer, Discard
<1>0. /\ pc \in [Requests -> Stages] /\ code \in [Requests -> {0, 200, 201, 404, 500}]
      /\ Control
      BY DEF IndInv, TypeOK
<1> SUFFICES ASSUME NEW o \in Requests, req'[o].kind = "recalculate",
                    code'[o] = 500, o \notin faulted'
             PROVE  FALSE
    BY DEF RecalculationRecorded
<1>1. faulted \subseteq faulted'
      BY FaultsRemembered
<1>2. code[o] # 500
  <2>1. ASSUME code[o] = 500
        PROVE  FALSE
    <3>1. pc[o] = "done"
          BY <1>0, <2>1 DEF Control
    <3>2. req'[o] = req[o]
          BY <3>1, Kept
    <3>3. QED
          BY <1>1, <2>1, <3>2 DEF RecalculationRecorded
  <2>2. QED
        BY <2>1
<1>3. PICK r \in Requests : Submit(r) \/ Step(r) \/ Fault(r)
      BY <1>2 DEF Next, vars
<1>4. r = o /\ (Commit(o) \/ SaveDecision(o))
  <2>1. \/ /\ SaveDecision(r) \/ Commit(r)
           /\ code' = [code EXCEPT ![r] = 500] \/ code' = code
              \/ code' = [code EXCEPT ![r] = 200]
        \/ /\ r \in faulted'
           /\ code' = [code EXCEPT ![r] = 500] \/ code' = code
        \/ \E c \in {200, 201, 404} : code' = [code EXCEPT ![r] = c]
        \/ code' = code
        BY <1>3 DEF Step, Fault, Submit, ReadContext, CreateAsset, 
           Compute, ReadFinding, ReadDecision, SaveFinding, SaveDecision, DeleteRec,
           WakeRec, Commit, Publish, StepFails, 
           CommitUnacknowledged, Vanish, Faulty
  <2>2. QED
        BY <1>0, <1>2, <2>1
<1>5. req[o].kind = "recalculate"
  <2>1. pc[o] # "idle"
        BY <1>4 DEF Commit, SaveDecision
  <2>2. QED
        BY <2>1, Kept
<1>6. CASE SaveDecision(o)
      BY <1>0, <1>2, <1>6
      DEF SaveDecision, LegacyConflict, OneScorePerFinding, RecalculationsApart
<1>7. CASE Commit(o)
  <2>1. tx[o].rec = "deleted"
        BY <1>5, <1>7 DEF Commit, Apart, ApartOf
  <2>2. ~RecConflict(o)
        BY <2>1 DEF RecConflict
  <2>3. QED
        BY <1>0, <1>2, <1>5, <1>7, <2>2 DEF Commit
<1>8. QED
      BY <1>4, <1>6, <1>7

\* On the tables of the models, recalculations of a finding that do not overlap
\* are all recorded, whatever else overlaps or fails: the conflict that the run
\* racing_recalculations finds needs two of them at once.
THEOREM RecalculatedIfApart == Spec => RecordedIfApart
<1>1. Init => Apart /\ RecalculationRecorded
      BY DEF Init, Apart, ApartOf, RecalculationRecorded, NoRequest
<1>2. /\ IndInv /\ Locks /\ Apart /\ RecalculationRecorded
      /\ RecalculationsApart /\ [Next]_vars
      => Apart' /\ RecalculationRecorded'
      BY ApartStep, RecordedStep
<1>3. QED
      BY LocksHold, <1>1, <1>2, PTL DEF Spec, RecordedIfApart

\* The finding row of a key that is evaluated once has that evaluation's id.
LEMMA LinkedStep ==
    ASSUME IndInv, KeyEvaluatedOnce, DecisionsLinked, [Next]_vars,
           \A k \in Tenants \X SourceKeys :
               findings[k] # Nothing =>
                   \E r \in Requests : /\ req[r].kind = "evaluate" /\ pc[r] \in Past
                                       /\ SourceKey(r) = k
    PROVE  DecisionsLinked'
<1>0. /\ TypeOK /\ Control /\ Pending /\ Rows
      BY DEF IndInv
<1>1. ASSUME NEW r \in Requests, pc[r] = "commit", Persist(r)
      PROVE  DecisionsLinked'
  <2>1. \A k \in Tenants \X SourceKeys :
            findings[k] # Nothing => findings'[k] = findings[k]
        BY <1>1, Persisted
  <2>2. DOMAIN findings = Tenants \X SourceKeys /\ DOMAIN findings' = Tenants \X SourceKeys
        BY <1>0, <1>1 DEF TypeOK, Persist, UpsertedFindings
  <2>3. ASSUME NEW d \in scores
        PROVE  \E k \in DOMAIN findings' : findings'[k] = d.finding
    <3>1. PICK k \in Tenants \X SourceKeys : findings[k] = d.finding
          BY <2>2, <2>3 DEF DecisionsLinked
    <3>2. d.finding # Nothing
          BY <1>0, ServiceAssumption DEF TypeOK, ScoreRow, Findings
    <3>3. QED
          BY <2>1, <2>2, <3>1, <3>2
  <2>4. \E k \in DOMAIN findings' : findings'[k] = Target(r)
    <3>1. CASE req[r].kind = "evaluate"
      <4>1. /\ tx[r].finding /\ Target(r) = r
            /\ req[r] \in EvaluateInput \cup DecisionInput
            BY <1>0, <1>1, <3>1 DEF Pending, Computed, Target, Control
      <4>2. SourceKey(r) \in Tenants \X SourceKeys
            BY <3>1, <4>1 DEF SourceKey, EvaluateInput, DecisionInput
      <4>3. findings[SourceKey(r)] = Nothing
        <5>1. ASSUME findings[SourceKey(r)] # Nothing
              PROVE  FALSE
          <6>1. PICK o \in Requests : /\ req[o].kind = "evaluate" /\ pc[o] \in Past
                                      /\ SourceKey(o) = SourceKey(r)
                BY <4>2, <5>1
          <6>2. o # r
                BY <1>1, <6>1 DEF Past
          <6>3. QED
                BY <3>1, <6>1, <6>2 DEF KeyEvaluatedOnce
        <5>2. QED
              BY <5>1
      <4>4. findings'[SourceKey(r)] = r
            BY <1>0, <1>1, <4>1, <4>2, <4>3 DEF Persist, UpsertedFindings, TypeOK
      <4>5. QED
            BY <2>2, <4>1, <4>2, <4>4
    <3>2. CASE req[r].kind = "recalculate"
      <4>1. PICK d \in scores : d.finding = Target(r)
            BY <1>0, <1>1, <3>2 DEF Pending, Computed, Visible
      <4>2. QED
            BY <2>3, <4>1
    <3>3. req[r].kind \in {"evaluate", "recalculate"}
          BY <1>0, <1>1 DEF Control, Computed, Writer
    <3>4. QED
          BY <3>1, <3>2, <3>3
  <2>5. ASSUME NEW d \in scores'
        PROVE  d \in scores \/ d.finding = Target(r)
    <3> DEFINE row == [finding |-> Target(r), job |-> r, tenant |-> req[r].tenant,
                       created_at |-> tx[r].began]
    <3>1. scores' = scores \cup {row}
          BY <1>1, Persisted
    <3>2. row.finding = Target(r)
          OBVIOUS
    <3>3. QED
          BY <3>1, <3>2
  <2>6. QED
        BY <2>3, <2>4, <2>5 DEF DecisionsLinked
<1>2. CASE UNCHANGED <<findings, scores, recs>>
      BY <1>2 DEF DecisionsLinked
<1>3. QED
      BY <1>1, <1>2, Writes

\* A finding row was written by an evaluation of its source key.
RowsEvaluated ==
    \A k \in Tenants \X SourceKeys :
        findings[k] # Nothing =>
            \E r \in Requests : /\ req[r].kind = "evaluate" /\ pc[r] \in Past
                                /\ SourceKey(r) = k

LEMMA RowsEvaluatedStep == IndInv /\ RowsEvaluated /\ [Next]_vars => RowsEvaluated'
<1> SUFFICES ASSUME IndInv, RowsEvaluated, [Next]_vars,
                    NEW k \in Tenants \X SourceKeys, findings'[k] # Nothing
             PROVE  \E r \in Requests : /\ req'[r].kind = "evaluate"
                                        /\ pc'[r] \in Past /\ SourceKey(r)' = k
    BY DEF RowsEvaluated
<1>1. CASE findings[k] # Nothing
  <2>1. PICK r \in Requests : /\ req[r].kind = "evaluate" /\ pc[r] \in Past
                              /\ SourceKey(r) = k
        BY <1>1 DEF RowsEvaluated
  <2>2. req'[r] = req[r] /\ pc'[r] \in Past
        BY <2>1, Kept DEF Past
  <2>3. QED
        BY <2>1, <2>2 DEF SourceKey
<1>2. CASE findings[k] = Nothing
  <2>1. PICK r \in Requests : /\ pc[r] = "commit" /\ Persist(r)
                              /\ pc'[r] \in Past /\ req' = req
        BY <1>2, Writes
  <2>2. tx[r].finding /\ findings' = UpsertedFindings(r)
        BY <1>2, <2>1 DEF Persist
  <2>3. /\ req[r].kind = "evaluate"
        /\ findings \in [Tenants \X SourceKeys -> Findings \cup {Nothing}]
        BY <2>2 DEF IndInv, Pending, TypeOK
  <2>4. SourceKey(r) = k
        BY <1>2, <2>2, <2>3 DEF UpsertedFindings
  <2>5. QED
        BY <2>1, <2>3, <2>4 DEF SourceKey
<1>3. QED
      BY <1>1, <1>2

\* As long as every source key is evaluated once, each decision has the finding
\* row its comment promises; the run decisions_linked needs a second ingestion.
THEOREM LinkedIfOnce == Spec => LinkedIfEvaluatedOnce
<1>1. Init => DecisionsLinked /\ RowsEvaluated
      BY DEF Init, DecisionsLinked, RowsEvaluated
<1>2. /\ IndInv /\ KeyEvaluatedOnce /\ DecisionsLinked /\ RowsEvaluated /\ [Next]_vars
      => DecisionsLinked' /\ RowsEvaluated'
      BY LinkedStep, RowsEvaluatedStep DEF RowsEvaluated
<1>3. QED
      BY Inductive, <1>1, <1>2, PTL DEF Spec, LinkedIfEvaluatedOnce
=============================================================================
