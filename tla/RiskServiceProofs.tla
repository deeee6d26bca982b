-------------------------- MODULE RiskServiceProofs --------------------------
(***************************************************************************)
(* Proofs about RiskService for any number of requests, tenants, assets    *)
(* and source keys, any number of faults and both table schemas.           *)
(***************************************************************************)
EXTENDS RiskService, TLAPS, WellFoundedInduction

\* "ORDER BY created_at DESC LIMIT 1" finds a row when there is one: timestamps
\* are bounded by the clock, so some row has the greatest.
LEMMA NewestIsARow ==
    ASSUME NEW rows, rows # {}, NEW now \in Nat,
           \A d \in rows : d.created_at \in Nat /\ d.created_at <= now
    PROVE  /\ Newest(rows) \in rows
           /\ \A e \in rows : Newest(rows).created_at >= e.created_at
<1> DEFINE ages == {now - d.created_at : d \in rows}
<1> DEFINE below == OpToRel(<, Nat)
<1>a. IsWellFoundedOn(below, Nat)
      BY NatLessThanWellFounded
<1>b. \A x, y \in Nat : <<y, x>> \in below <=> y < x
      BY DEF OpToRel
<1> HIDE DEF below
<1>1. ages \subseteq Nat /\ ages # {}
      OBVIOUS
<1>2. PICK a \in ages : \A b \in ages : ~ (<<b, a>> \in below)
      BY <1>1, <1>a, WFMin
<1>3. \A b \in ages : a <= b
  <2> HIDE DEF ages
  <2> SUFFICES ASSUME NEW b \in ages PROVE a <= b
      OBVIOUS
  <2>1. a \in Nat /\ b \in Nat /\ ~ (b < a)
        BY <1>1, <1>2, <1>b
  <2>2. QED
        BY <2>1
<1>4. PICK d \in rows : a = now - d.created_at
      OBVIOUS
<1>5. \A e \in rows : d.created_at >= e.created_at
  <2> TAKE e \in rows
  <2>1. now - d.created_at <= now - e.created_at
        BY <1>3, <1>4
  <2>2. QED
        BY <2>1
<1>6. QED
      BY <1>5 DEF Newest
-----------------------------------------------------------------------------
(* The inductive invariant                                                 *)

\* Every timestamp was taken before now.
Times ==
    /\ \A d \in scores : d.created_at < clock
    /\ \A r \in Requests : tx[r].began < clock

\* Which requests run which steps, and that only an ended one has an answer.
Computed == {"score", "saveDecision", "deleteRec", "waitRec", "commit"}

Control ==
    \A r \in Requests :
        /\ pc[r] = "idle" => /\ req[r] = NoRequest /\ old[r] = Nothing
                             /\ ctx[r] = "unknown"
        /\ pc[r] # "idle" => req[r] \in EvaluateInput \cup DecisionInput
        /\ pc[r] \in {"context", "create", "saveFinding", "publish"}
              => req[r].kind = "evaluate"
        /\ pc[r] = "readFinding" => req[r].kind = "recalculate"
        /\ pc[r] = "readDecision" => req[r].kind \in {"recalculate", "get"}
        /\ pc[r] \in Computed => Writer(r)
        /\ pc[r] # "done" => code[r] = 0
        /\ code[r] = 201 => req[r].kind = "evaluate"

\* What an open transaction has done by each step.
Pending ==
    \A r \in Requests :
        /\ tx[r].finding => req[r].kind = "evaluate"
        /\ pc[r] \in {"deleteRec", "waitRec", "commit"} => tx[r].score
        /\ pc[r] \in Computed \ {"score"} /\ req[r].kind = "evaluate"
              => tx[r].finding
        /\ pc[r] \in Computed /\ req[r].kind = "recalculate"
              => tx[r].hadRec /\ Visible(r) # {}

\* Rows are written by the requests they name, which have got past the commit;
\* a 201 is only given after it.
Past == {"publish", "done", "gone"}

Rows ==
    /\ \A d \in scores :
           /\ pc[d.job] \in Past /\ Writer(d.job)
           /\ Target(d.job) = d.finding /\ req[d.job].tenant = d.tenant
           /\ pc[d.finding] \in Past /\ req[d.finding].kind = "evaluate"
    /\ \A f \in Findings : recs[f] # "absent" => pc[f] \in Past
    /\ \A r \in Requests :
           /\ pc[r] = "publish" \/ code[r] = 201 => \E d \in scores : d.job = r
           /\ old[r] # Nothing => pc[old[r]] \in Past

IndInv ==
    /\ TypeOK /\ Times /\ Control /\ Pending /\ Rows
    /\ AtomicPersist /\ TenantIsolation
    /\ EvaluationSucceeds

\* The decision that get_by_finding_id returns is a row of that finding and
\* tenant.
LEMMA NewestVisible ==
    ASSUME IndInv, NEW r \in Requests, Visible(r) # {}
    PROVE  Newest(Visible(r)) \in Visible(r)
<1>1. clock \in Nat
      BY DEF IndInv, TypeOK
<1>2. \A d \in Visible(r) : d.created_at \in Nat /\ d.created_at <= clock
      BY DEF IndInv, TypeOK, Times, Visible, ScoreRow
<1>3. QED
      BY <1>1, <1>2, NewestIsARow

LEMMA InitInd == Init => IndInv
<1> SUFFICES ASSUME Init PROVE IndInv
    OBVIOUS
<1> USE ServiceAssumption DEF Init
<1>1. TypeOK
      BY DEF TypeOK, NoTx, NoRequest, Transaction, RecRow, Stages
<1>2. Times /\ Control /\ Pending
      BY DEF Times, Control, Pending, NoTx, Computed
<1>3. Rows
      BY DEF Rows
<1>4. AtomicPersist /\ TenantIsolation /\ EvaluationSucceeds
      BY DEF AtomicPersist, TenantIsolation,
             EvaluationSucceeds, NoRequest
<1>5. QED
      BY <1>1, <1>2, <1>3, <1>4 DEF IndInv

\* The shapes of a transaction that has just begun, or ended.
LEMMA NoTxType == NoTx \in Transaction
BY DEF NoTx, Transaction

LEMMA BeginType ==
    ASSUME clock \in Nat, NEW r \in Requests
    PROVE  Begin(r) \in Transaction /\ [Begin(r) EXCEPT !.finding = TRUE] \in Transaction
BY DEF Begin, NoTx, Transaction

LEMMA TypeStep == IndInv /\ [Next]_vars => TypeOK'
<1> SUFFICES ASSUME IndInv, [Next]_vars
             PROVE  TypeOK'
    OBVIOUS
<1> USE DEF tables, Goto, Answer, Discard
<1>0. TypeOK
      BY DEF IndInv
<1>t. tx \in [Requests -> Transaction] /\ clock \in Nat \ {0}
      BY <1>0 DEF TypeOK
<1>1. ASSUME NEW r \in Requests, Submit(r)
      PROVE  TypeOK'
      BY <1>0, <1>1 DEF TypeOK, Stages, Submit, EvaluateInput, DecisionInput
<1>2. ASSUME NEW r \in Requests, ReadContext(r) \/ Compute(r)
      PROVE  TypeOK'
      BY <1>0, <1>2 DEF TypeOK, Stages, ReadContext, Compute
<1>4. ASSUME NEW r \in Requests, CreateAsset(r)
      PROVE  TypeOK'
      BY <1>0, <1>4 DEF TypeOK, Stages, CreateAsset
<1>5. ASSUME NEW r \in Requests, ReadFinding(r)
      PROVE  TypeOK'
  <2>1. tx' \in [Requests -> Transaction]
        BY <1>5, <1>t, BeginType DEF ReadFinding
  <2>2. clock' \in Nat \ {0}
        BY <1>5, <1>t DEF ReadFinding
  <2>3. QED
        BY <1>0, <1>5, <2>1, <2>2 DEF TypeOK, Stages, ReadFinding
<1>6. ASSUME NEW r \in Requests, ReadDecision(r)
      PROVE  TypeOK'
  <2>1. Visible(r) # {} => Newest(Visible(r)).job \in Jobs
        BY <1>0, NewestVisible DEF TypeOK, Visible, ScoreRow
  <2>2. tx' \in [Requests -> Transaction]
    <3>1. \/ tx' = tx \/ tx' = [tx EXCEPT ![r] = NoTx]
          \/ \E b \in BOOLEAN : tx' = [tx EXCEPT ![r].hadRec = b]
          BY <1>6 DEF ReadDecision
    <3>2. \A b \in BOOLEAN :
             [tx EXCEPT ![r].hadRec = b] \in [Requests -> Transaction]
          BY <1>t DEF Transaction
    <3>3. QED
          BY <1>t, <3>1, <3>2, NoTxType
  <2>3. QED
        BY <1>0, <1>6, <2>1, <2>2 DEF TypeOK, Stages, ReadDecision
<1>7. ASSUME NEW r \in Requests, SaveFinding(r)
      PROVE  TypeOK'
  <2>1. tx' \in [Requests -> Transaction]
        BY <1>7, <1>t, BeginType DEF SaveFinding
  <2>2. clock' \in Nat \ {0}
        BY <1>7, <1>t DEF SaveFinding
  <2>3. QED
        BY <1>0, <1>7, <2>1, <2>2 DEF TypeOK, Stages, SaveFinding
<1>8. ASSUME NEW r \in Requests, SaveDecision(r)
      PROVE  TypeOK'
  <2>1. tx' \in [Requests -> Transaction]
    <3>1. \/ tx' = [tx EXCEPT ![r] = NoTx]
          \/ tx' = [tx EXCEPT ![r].score = TRUE]
          BY <1>8 DEF SaveDecision
    <3>2. [tx EXCEPT ![r].score = TRUE] \in [Requests -> Transaction]
          BY <1>t DEF Transaction
    <3>3. QED
          BY <1>t, <3>1, <3>2, NoTxType
  <2>2. QED
        BY <1>0, <1>8, <2>1 DEF TypeOK, Stages, SaveDecision
<1>9. ASSUME NEW r \in Requests, DeleteRec(r)
      PROVE  TypeOK'
  <2>1. tx' \in [Requests -> Transaction]
    <3>1. \/ \E o \in Requests : tx' = [tx EXCEPT ![r].blocker = o]
          \/ \E x \in {"untouched", "deleted"} : tx' = [tx EXCEPT ![r].rec = x]
          BY <1>9 DEF DeleteRec
    <3>2. \A o \in Requests :
             [tx EXCEPT ![r].blocker = o] \in [Requests -> Transaction]
          BY <1>t DEF Transaction
    <3>3. \A x \in {"untouched", "deleted"} :
             [tx EXCEPT ![r].rec = x] \in [Requests -> Transaction]
          BY <1>t DEF Transaction
    <3>4. QED
          BY <3>1, <3>2, <3>3
  <2>2. QED
        BY <1>0, <1>9, <2>1 DEF TypeOK, Stages, DeleteRec
<1>10. ASSUME NEW r \in Requests, WakeRec(r)
       PROVE  TypeOK'
  <2>1. tx' \in [Requests -> Transaction]
    <3>1. \/ tx' = [tx EXCEPT ![r].rec = "missed", ![r].blocker = Nothing]
          \/ tx' = [tx EXCEPT ![r].blocker = Nothing]
          BY <1>10 DEF WakeRec
    <3>2. [tx EXCEPT ![r].rec = "missed", ![r].blocker = Nothing]
             \in [Requests -> Transaction]
          BY <1>t DEF Transaction
    <3>3. [tx EXCEPT ![r].blocker = Nothing] \in [Requests -> Transaction]
          BY <1>t DEF Transaction
    <3>4. QED
          BY <3>1, <3>2, <3>3
  <2>2. QED
        BY <1>0, <1>10, <2>1 DEF TypeOK, Stages, WakeRec
<1>11. ASSUME NEW r \in Requests, pc[r] = "commit", Persist(r)
       PROVE  /\ findings' \in [Tenants \X SourceKeys -> Findings \cup {Nothing}]
              /\ scores' \in SUBSET ScoreRow
              /\ recs' \in [Findings -> RecRow]
  <2>1. Target(r) \in Findings /\ req[r].tenant \in Tenants
        BY <1>0, <1>11
        DEF TypeOK, IndInv, Control, Target, Findings, EvaluateInput, DecisionInput
  <2>2. scores' \in SUBSET ScoreRow
        BY <1>0, <1>11, <2>1
        DEF TypeOK, Persist, UpsertedScores, ScoreRow, JobOf, Jobs, Transaction
  <2>3. findings' \in [Tenants \X SourceKeys -> Findings \cup {Nothing}]
    <3>1. findings \in [Tenants \X SourceKeys -> Findings \cup {Nothing}]
          BY <1>0 DEF TypeOK
    <3>2. UpsertedFindings(r) \in [Tenants \X SourceKeys -> Findings \cup {Nothing}]
          BY <3>1, <2>1 DEF UpsertedFindings
    <3>3. QED
          BY <1>11, <3>1, <3>2 DEF Persist
  <2>4. recs' \in [Findings -> RecRow]
        BY <1>0, <1>11, <2>1 DEF TypeOK, Persist, NewRec, RecRow
  <2>5. QED
        BY <2>2, <2>3, <2>4
<1>12. ASSUME NEW r \in Requests, Commit(r)
       PROVE  TypeOK'
  <2>1. tx' \in [Requests -> Transaction]
        BY <1>12, <1>t, NoTxType DEF Commit
  <2>2. QED
        BY <1>0, <1>11, <1>12, <2>1 DEF TypeOK, Stages, Commit
<1>13. ASSUME NEW r \in Requests, Publish(r)
       PROVE  TypeOK'
       BY <1>0, <1>13 DEF TypeOK, Stages, Publish, JobOf, Jobs
<1>14. ASSUME NEW r \in Requests, StepFails(r) \/ Vanish(r)
       PROVE  TypeOK'
  <2>1. tx' \in [Requests -> Transaction]
        BY <1>14, <1>t, NoTxType DEF StepFails, Vanish
  <2>2. QED
        BY <1>0, <1>14, <2>1 DEF TypeOK, Stages, StepFails, Vanish, Faulty
<1>16. ASSUME NEW r \in Requests, CommitUnacknowledged(r)
       PROVE  TypeOK'
  <2>1. tx' \in [Requests -> Transaction]
        BY <1>16, <1>t, NoTxType DEF CommitUnacknowledged
  <2>2. QED
        BY <1>0, <1>11, <1>16, <2>1 DEF TypeOK, Stages, CommitUnacknowledged, Faulty
<1>17. CASE UNCHANGED vars
       BY <1>0, <1>17 DEF TypeOK, vars
<1>18. QED
       BY <1>1, <1>2, <1>4, <1>5, <1>6, <1>7, <1>8, <1>9, <1>10, <1>12, <1>13,
          <1>14, <1>16, <1>17
       DEF Next, Step, Fault

-----------------------------------------------------------------------------
(* The rest of the inductive invariant                                     *)

LEMMA TimesStep == IndInv /\ [Next]_vars => Times'
<1> SUFFICES ASSUME IndInv, [Next]_vars
             PROVE  Times'
    OBVIOUS
<1> USE DEF tables, Goto, Answer, Discard, Times
<1>0. /\ Times /\ clock \in Nat \ {0}
      /\ tx \in [Requests -> Transaction]
      /\ \A r \in Requests : tx[r].began \in Nat
      /\ \A d \in scores : d.created_at \in Nat
      BY DEF IndInv, TypeOK, Transaction, ScoreRow
<1>1. ASSUME NEW r \in Requests,
             \/ Submit(r) \/ ReadContext(r) \/ CreateAsset(r)
             \/ Compute(r) \/ Publish(r)
      PROVE  Times'
      BY <1>0, <1>1 DEF Submit, ReadContext, CreateAsset, Compute,
                        Publish
<1>2. ASSUME NEW r \in Requests,
             ReadFinding(r) \/ SaveFinding(r)
      PROVE  Times'
  <2>1. \/ tx' = tx /\ clock' = clock
        \/ /\ clock' = clock + 1
           /\ \/ tx' = [tx EXCEPT ![r] = Begin(r)]
              \/ tx' = [tx EXCEPT ![r] = [Begin(r) EXCEPT !.finding = TRUE]]
        BY <1>2 DEF ReadFinding, SaveFinding
  <2>2. /\ Begin(r).began = clock
        /\ [Begin(r) EXCEPT !.finding = TRUE].began = clock
        BY <1>0 DEF Begin, NoTx
  <2>3. \A o \in Requests : tx'[o].began < clock'
    <3>1. CASE tx' = tx /\ clock' = clock
          BY <1>0, <3>1
    <3>2. CASE /\ clock' = clock + 1
               /\ \E t : t.began = clock /\ tx' = [tx EXCEPT ![r] = t]
          BY <1>0, <3>2
    <3>3. QED
          BY <2>1, <2>2, <3>1, <3>2
  <2>4. scores' = scores /\ clock <= clock' /\ clock' \in Nat
        BY <1>0, <1>2 DEF ReadFinding, SaveFinding
  <2>5. QED
        BY <1>0, <2>3, <2>4
<1>3. ASSUME NEW r \in Requests,
             \/ ReadDecision(r) \/ SaveDecision(r) \/ StepFails(r) \/ Vanish(r)
      PROVE  Times'
  <2>1. \/ tx' = tx \/ tx' = [tx EXCEPT ![r] = NoTx]
        \/ \E b \in BOOLEAN : tx' = [tx EXCEPT ![r].hadRec = b]
        \/ tx' = [tx EXCEPT ![r].score = TRUE]
        BY <1>3 DEF ReadDecision, SaveDecision, StepFails, Vanish
  <2>2. \A o \in Requests : tx'[o].began \in {tx[o].began, 0}
        BY <1>0, <2>1 DEF NoTx, Transaction
  <2>3. UNCHANGED <<scores, clock>>
        BY <1>3 DEF ReadDecision, SaveDecision, StepFails, Vanish
  <2>4. QED
        BY <1>0, <2>2, <2>3
<1>4. ASSUME NEW r \in Requests, DeleteRec(r) \/ WakeRec(r)
      PROVE  Times'
      BY <1>0, <1>4 DEF DeleteRec, WakeRec, Transaction
<1>5. ASSUME NEW r \in Requests, Commit(r) \/ CommitUnacknowledged(r)
      PROVE  Times'
      BY <1>0, <1>5 DEF Commit, CommitUnacknowledged, Persist, UpsertedScores, NoTx
<1>6. CASE UNCHANGED vars
      BY <1>0, <1>6 DEF vars
<1>7. QED
      BY <1>1, <1>2, <1>3, <1>4, <1>5, <1>6 DEF Next, Step, Fault

\* A request that has arrived keeps its input, and one that has got past its
\* commit stays there.
LEMMA Kept ==
    ASSUME IndInv, [Next]_vars, NEW o \in Requests
    PROVE  /\ pc[o] # "idle" => pc'[o] # "idle" /\ req'[o] = req[o]
           /\ pc[o] \in Past => pc'[o] \in Past
<1> USE DEF tables, Goto, Answer, Past
<1>0. pc \in [Requests -> Stages] /\ req \in [Requests -> EvaluateInput \cup DecisionInput \cup {NoRequest}]
      BY DEF IndInv, TypeOK
<1>1. ASSUME NEW r \in Requests, Submit(r)
      PROVE  /\ pc[o] # "idle" => pc'[o] # "idle" /\ req'[o] = req[o]
             /\ pc[o] \in Past => pc'[o] \in Past
      BY <1>0, <1>1 DEF Submit
<1>2. ASSUME NEW r \in Requests, Step(r) \/ Fault(r)
      PROVE  /\ pc[o] # "idle" => pc'[o] # "idle" /\ req'[o] = req[o]
             /\ pc[o] \in Past => pc'[o] \in Past
  <2>1. req' = req
        BY <1>2 DEF Step, Fault, ReadContext, CreateAsset, Compute,
           ReadFinding, ReadDecision, SaveFinding, SaveDecision, DeleteRec, WakeRec,
           Commit, Publish, StepFails, CommitUnacknowledged, Vanish
  <2>2. /\ pc[r] \notin {"idle", "done", "gone"}
        /\ \E s \in Stages \ {"idle"} :
              /\ pc' = [pc EXCEPT ![r] = s]
              /\ pc[r] = "publish" => s \in Past
        BY <1>0, <1>2 DEF Step, Fault, ReadContext, CreateAsset, Compute,
           ReadFinding, ReadDecision, SaveFinding, SaveDecision, DeleteRec, WakeRec,
           Commit, Publish, StepFails, CommitUnacknowledged, Vanish,
           Stages
  <2>3. QED
        BY <1>0, <2>1, <2>2
<1>3. QED
      BY <1>1, <1>2 DEF Next, vars

LEMMA ControlStep == IndInv /\ [Next]_vars => Control'
<1> SUFFICES ASSUME IndInv, [Next]_vars
             PROVE  Control'
    OBVIOUS
<1> USE DEF tables, Goto, Answer, Control, Computed, Writer
<1>0. /\ Control
      /\ pc \in [Requests -> Stages] /\ code \in [Requests -> {0, 200, 201, 404, 500}]
      /\ ctx \in [Requests -> {"unknown", "stored", "neutral"}]
      /\ req \in [Requests -> EvaluateInput \cup DecisionInput \cup {NoRequest}]
      /\ old \in [Requests -> Jobs \cup {Nothing}]
      BY DEF IndInv, TypeOK
<1>1. ASSUME NEW r \in Requests, Submit(r)
      PROVE  Control'
      BY <1>0, <1>1 DEF Submit, EvaluateInput, DecisionInput
<1>2. ASSUME NEW r \in Requests,
             \/ ReadContext(r) \/ CreateAsset(r)
             \/ Compute(r)
      PROVE  Control'
      BY <1>0, <1>2 DEF ReadContext, CreateAsset, Compute,
                        EvaluateInput, DecisionInput
<1>3. ASSUME NEW r \in Requests, ReadFinding(r) \/ ReadDecision(r)
      PROVE  Control'
      BY <1>0, <1>3 DEF ReadFinding, ReadDecision, EvaluateInput, DecisionInput
<1>4. ASSUME NEW r \in Requests,
             SaveFinding(r) \/ SaveDecision(r) \/ DeleteRec(r) \/ WakeRec(r)
      PROVE  Control'
      BY <1>0, <1>4 DEF SaveFinding, SaveDecision, DeleteRec, WakeRec
<1>5. ASSUME NEW r \in Requests, Commit(r) \/ Publish(r)
      PROVE  Control'
      BY <1>0, <1>5 DEF Commit, Publish
<1>6. ASSUME NEW r \in Requests,
             StepFails(r) \/ CommitUnacknowledged(r) \/ Vanish(r)
      PROVE  Control'
      BY <1>0, <1>6 DEF StepFails, CommitUnacknowledged, Vanish
<1>7. CASE UNCHANGED vars
      BY <1>0, <1>7 DEF vars
<1>8. QED
      BY <1>1, <1>2, <1>3, <1>4, <1>5, <1>6, <1>7 DEF Next, Step, Fault

-----------------------------------------------------------------------------
(* The tables                                                              *)

\* The tables change only when a request commits.
LEMMA Writes ==
    ASSUME IndInv, [Next]_vars
    PROVE  \/ UNCHANGED <<findings, scores, recs>>
           \/ \E r \in Requests : /\ pc[r] = "commit" /\ Persist(r)
                                  /\ pc'[r] \in Past /\ req' = req
<1> USE DEF tables, Goto, Answer, Past
<1>0. pc \in [Requests -> Stages]
      BY DEF IndInv, TypeOK
<1>1. ASSUME NEW r \in Requests, Commit(r) \/ CommitUnacknowledged(r)
      PROVE  \/ UNCHANGED <<findings, scores, recs>>
             \/ /\ pc[r] = "commit" /\ Persist(r)
                /\ pc'[r] \in Past /\ req' = req
      BY <1>0, <1>1 DEF Commit, CommitUnacknowledged
<1>2. ASSUME NEW r \in Requests,
             \/ Submit(r) \/ ReadContext(r) \/ CreateAsset(r)
             \/ Compute(r) \/ ReadFinding(r) \/ ReadDecision(r) \/ SaveFinding(r)
             \/ SaveDecision(r) \/ DeleteRec(r) \/ WakeRec(r) \/ Publish(r)
             \/ StepFails(r) \/ Vanish(r)
      PROVE  UNCHANGED <<findings, scores, recs>>
      BY <1>2 DEF Submit, ReadContext, CreateAsset, Compute,
         ReadFinding, ReadDecision, SaveFinding, SaveDecision, DeleteRec, WakeRec,
         Publish, StepFails, Vanish
<1>3. QED
      BY <1>1, <1>2 DEF Next, Step, Fault, vars

\* What the commit of r adds: its row, a recommendation, and for an evaluation
\* a finding row of its source key; nothing that is stored is lost.
LEMMA Persisted ==
    ASSUME IndInv, NEW r \in Requests, pc[r] = "commit", Persist(r)
    PROVE  /\ Target(r) \in Findings
           /\ req[Target(r)].kind = "evaluate"
           /\ req[Target(r)].tenant = req[r].tenant
           /\ r = Target(r) \/ pc[Target(r)] \in Past
           /\ scores' = scores \cup
                  {[finding |-> Target(r), job |-> r, tenant |-> req[r].tenant,
                    created_at |-> tx[r].began]}
           /\ recs' = [recs EXCEPT ![Target(r)] = NewRec(r)]
           /\ NewRec(r) # "absent"
           /\ \A k \in Tenants \X SourceKeys :
                 findings[k] # Nothing => findings'[k] = findings[k]
           /\ findings'[<<req[r].tenant, req[Target(r)].key>>] # Nothing
<1> USE ServiceAssumption DEF Target, Writer
<1>0. /\ TypeOK /\ Control /\ Pending /\ Rows /\ AtomicPersist /\ TenantIsolation
      BY DEF IndInv
<1>1. /\ req[r] \in EvaluateInput \cup DecisionInput
      /\ req[r].kind \in {"evaluate", "recalculate"}
      /\ tx[r].score
      /\ req[r].kind = "evaluate" => tx[r].finding
      /\ req[r].kind = "recalculate" => tx[r].hadRec /\ Visible(r) # {}
      BY <1>0 DEF Control, Pending, Computed
<1>2. \A d \in scores : d.job # r
      BY <1>0 DEF Rows, Past
<1>3. Target(r) \in Findings
      BY <1>1 DEF EvaluateInput, DecisionInput, Findings
<1>4. CASE req[r].kind = "evaluate"
  <2>1. SourceKey(r) \in Tenants \X SourceKeys /\ SourceKey(r) = <<req[r].tenant, req[r].key>>
        BY <1>1, <1>4 DEF SourceKey, EvaluateInput, DecisionInput
  <2>2. findings \in [Tenants \X SourceKeys -> Findings \cup {Nothing}]
        BY <1>0 DEF TypeOK
  <2>3. findings' = UpsertedFindings(r)
        BY <1>1, <1>4 DEF Persist
  <2>4. /\ \A k \in Tenants \X SourceKeys :
              findings[k] # Nothing => findings'[k] = findings[k]
        /\ findings'[SourceKey(r)] # Nothing
        BY <1>4, <2>1, <2>2, <2>3 DEF UpsertedFindings, Findings
  <2>5. QED
        BY <1>1, <1>2, <1>3, <1>4, <2>1, <2>4
        DEF Persist, UpsertedScores, JobOf, NewRec
<1>5. CASE req[r].kind = "recalculate"
  <2>1. PICK d \in Visible(r) : TRUE
        BY <1>1, <1>5
  <2>2. /\ d \in scores /\ d.finding = Target(r) /\ d.tenant = req[r].tenant
        BY <2>1 DEF Visible
  <2>3. /\ req[Target(r)].kind = "evaluate" /\ pc[Target(r)] \in Past
        /\ req[Target(r)].tenant = req[r].tenant
        /\ findings[<<req[r].tenant, req[Target(r)].key>>] # Nothing
        BY <1>0, <2>2 DEF Rows, TenantIsolation, AtomicPersist
  <2>4. ~ tx[r].finding
        BY <1>0, <1>5 DEF Pending
  <2>5. QED
        BY <1>1, <1>2, <1>3, <1>5, <2>3, <2>4
        DEF Persist, UpsertedScores, JobOf, NewRec
<1>6. QED
      BY <1>1, <1>4, <1>5

\* A row that is stored stays; a new one is the committing request's.
LEMMA ScoresGrow ==
    ASSUME IndInv, [Next]_vars
    PROVE  scores \subseteq scores'
BY Writes, Persisted

\* The decision a request has read is a row of the finding and tenant it named.
LEMMA OldRead ==
    ASSUME IndInv, [Next]_vars, NEW o \in Requests, old'[o] # old[o]
    PROVE  /\ pc[o] = "readDecision" /\ req' = req
           /\ Visible(o) # {} /\ old'[o] = Newest(Visible(o)).job
<1>0. old \in [Requests -> Jobs \cup {Nothing}]
      BY DEF IndInv, TypeOK
<1>1. PICK r \in Requests : ReadDecision(r)
      BY DEF Next, Step, Fault, vars, Submit, ReadContext, CreateAsset,
         Compute, ReadFinding, SaveFinding, SaveDecision,
         DeleteRec, WakeRec, Commit, Publish, StepFails, 
         CommitUnacknowledged, Vanish
<1>2. QED
      BY <1>0, <1>1 DEF ReadDecision

LEMMA RowsStep == IndInv /\ [Next]_vars => Rows'
<1> SUFFICES ASSUME IndInv, [Next]_vars
             PROVE  Rows'
    OBVIOUS
<1>0. /\ Rows /\ Control /\ TenantIsolation
      /\ pc \in [Requests -> Stages] /\ code \in [Requests -> {0, 200, 201, 404, 500}]
      /\ old \in [Requests -> Jobs \cup {Nothing}]
      /\ recs \in [Findings -> RecRow]
      /\ \A d \in scores : d.job \in Requests /\ d.finding \in Requests
      BY DEF IndInv, TypeOK, ScoreRow, Findings, Jobs
<1>1. \A o \in Requests : /\ pc[o] # "idle" => req'[o] = req[o]
                          /\ pc[o] \in Past => pc'[o] \in Past
      BY Kept
<1>2. ASSUME NEW d \in scores'
      PROVE  /\ pc'[d.job] \in Past /\ Writer(d.job)'
             /\ Target(d.job)' = d.finding /\ req'[d.job].tenant = d.tenant
             /\ pc'[d.finding] \in Past /\ req'[d.finding].kind = "evaluate"
  <2>1. CASE d \in scores
    <3>1. /\ d.job \in Requests /\ pc[d.job] \in Past /\ Writer(d.job)
          /\ Target(d.job) = d.finding /\ req[d.job].tenant = d.tenant
          /\ d.finding \in Requests /\ pc[d.finding] \in Past
          /\ req[d.finding].kind = "evaluate"
          BY <1>0, <2>1 DEF Rows
    <3>2. req'[d.job] = req[d.job] /\ req'[d.finding] = req[d.finding]
          BY <1>1, <3>1 DEF Past
    <3>3. QED
          BY <1>1, <3>1, <3>2 DEF Writer, Target
  <2>2. CASE d \notin scores
    <3>1. PICK r \in Requests : /\ pc[r] = "commit" /\ Persist(r)
                                /\ pc'[r] \in Past /\ req' = req
          BY <1>2, <2>2, Writes
    <3>2. d = [finding |-> Target(r), job |-> r, tenant |-> req[r].tenant,
               created_at |-> tx[r].began]
          BY <1>2, <2>2, <3>1, Persisted
    <3>3. /\ Target(r) \in Requests /\ req[Target(r)].kind = "evaluate"
          /\ pc'[Target(r)] \in Past
          BY <1>1, <3>1, Persisted DEF Findings
    <3>4. Writer(r)
          BY <1>0, <3>1 DEF Control, Computed
    <3>5. QED
          BY <3>1, <3>2, <3>3, <3>4 DEF Writer, Target
  <2>3. QED
        BY <2>1, <2>2
<1>3. ASSUME NEW f \in Findings, recs'[f] # "absent"
      PROVE  pc'[f] \in Past
  <2>1. CASE recs[f] # "absent"
        BY <1>0, <1>1, <2>1 DEF Rows, Findings
  <2>2. CASE recs[f] = "absent"
    <3>1. PICK r \in Requests : /\ pc[r] = "commit" /\ Persist(r)
                                /\ pc'[r] \in Past /\ req' = req
          BY <1>3, <2>2, Writes
    <3>2. recs' = [recs EXCEPT ![Target(r)] = NewRec(r)]
          BY <3>1, Persisted
    <3>3. recs \in [Findings -> RecRow]
          BY DEF IndInv, TypeOK
    <3>4. f = Target(r)
          BY <1>3, <2>2, <3>2, <3>3
    <3>5. QED
          BY <1>1, <3>1, <3>4, Persisted DEF Findings
  <2>3. QED
        BY <2>1, <2>2
<1>4. ASSUME NEW o \in Requests, pc'[o] = "publish" \/ code'[o] = 201
      PROVE  \E d \in scores' : d.job = o
  <2>1. \/ pc[o] = "publish" \/ code[o] = 201
        \/ pc[o] = "commit" /\ Persist(o)
    <3> USE DEF tables, Goto, Answer, Step, Fault, Control
    <3>1. ASSUME NEW r \in Requests,
                 \/ Submit(r) \/ ReadContext(r) \/ CreateAsset(r)
                 \/ Compute(r) \/ ReadFinding(r) \/ ReadDecision(r)
          PROVE  pc[o] = "publish" \/ code[o] = 201
          BY <1>0, <1>4, <3>1 DEF Submit, ReadContext, CreateAsset, 
             Compute, ReadFinding, ReadDecision
    <3>2. ASSUME NEW r \in Requests,
                 \/ SaveFinding(r) \/ SaveDecision(r) \/ DeleteRec(r) \/ WakeRec(r)
                 \/ Publish(r) \/ StepFails(r)
                 \/ CommitUnacknowledged(r) \/ Vanish(r)
          PROVE  pc[o] = "publish" \/ code[o] = 201
          BY <1>0, <1>4, <3>2 DEF SaveFinding, SaveDecision, DeleteRec, WakeRec,
             Publish, StepFails, CommitUnacknowledged, Vanish
    <3>3. ASSUME NEW r \in Requests, Commit(r)
          PROVE  \/ pc[o] = "publish" \/ code[o] = 201
                 \/ pc[o] = "commit" /\ Persist(o)
          BY <1>0, <1>4, <3>3 DEF Commit
    <3>4. CASE UNCHANGED vars
          BY <1>4, <3>4 DEF vars
    <3>5. QED
          BY <3>1, <3>2, <3>3, <3>4 DEF Next
  <2>2. CASE pc[o] = "publish" \/ code[o] = 201
        BY <1>0, <2>2, ScoresGrow DEF Rows
  <2>3. CASE pc[o] = "commit" /\ Persist(o)
    <3>1. [finding |-> Target(o), job |-> o, tenant |-> req[o].tenant,
           created_at |-> tx[o].began] \in scores'
          BY <2>3, Persisted
    <3>2. QED
          BY <3>1
  <2>4. QED
        BY <2>1, <2>2, <2>3
<1>5. ASSUME NEW o \in Requests, old'[o] # Nothing
      PROVE  pc'[old'[o]] \in Past
  <2>1. CASE old'[o] = old[o]
        BY <1>0, <1>1, <1>5, <2>1 DEF Rows, Jobs
  <2>2. CASE old'[o] # old[o]
    <3>1. Visible(o) # {} /\ old'[o] = Newest(Visible(o)).job
          BY <2>2, OldRead
    <3>2. Newest(Visible(o)) \in scores
          BY <3>1, NewestVisible DEF Visible
    <3>3. QED
          BY <1>0, <1>1, <3>1, <3>2 DEF Rows
  <2>3. QED
        BY <2>1, <2>2
<1>6. QED
      BY <1>2, <1>3, <1>4, <1>5 DEF Rows

LEMMA AtomicStep == IndInv /\ [Next]_vars => AtomicPersist'
<1> SUFFICES ASSUME IndInv, [Next]_vars, NEW d \in scores'
             PROVE  /\ recs'[d.finding] # "absent"
                    /\ findings'[<<d.tenant, req'[d.finding].key>>] # Nothing
    BY DEF AtomicPersist
<1>0. /\ AtomicPersist /\ Rows /\ TenantIsolation
      /\ recs \in [Findings -> RecRow]
      /\ scores \in SUBSET ScoreRow
      /\ req \in [Requests -> EvaluateInput \cup DecisionInput \cup {NoRequest}]
      BY DEF IndInv, TypeOK
<1>1. ASSUME d \in scores
      PROVE  /\ d.finding \in Findings /\ req'[d.finding] = req[d.finding]
             /\ <<d.tenant, req[d.finding].key>> \in Tenants \X SourceKeys
             /\ recs[d.finding] # "absent"
             /\ findings[<<d.tenant, req[d.finding].key>>] # Nothing
  <2>1. /\ d.finding \in Requests /\ d.tenant \in Tenants /\ pc[d.finding] \in Past
        /\ req[d.finding].kind = "evaluate"
        BY <1>0, <1>1 DEF Rows, ScoreRow, Findings
  <2>2. req[d.finding].key \in SourceKeys
        BY <1>0, <2>1 DEF EvaluateInput, DecisionInput, NoRequest
  <2>3. req'[d.finding] = req[d.finding]
        BY <2>1, Kept DEF Past
  <2>4. QED
        BY <1>0, <1>1, <2>1, <2>2, <2>3 DEF AtomicPersist, Findings
<1>2. CASE UNCHANGED <<findings, scores, recs>>
      BY <1>1, <1>2
<1>3. ASSUME NEW r \in Requests, pc[r] = "commit", Persist(r), req' = req
      PROVE  /\ recs'[d.finding] # "absent"
             /\ findings'[<<d.tenant, req'[d.finding].key>>] # Nothing
  <2>1. CASE d \in scores
        BY <1>0, <1>1, <1>3, <2>1, Persisted
  <2>2. CASE d \notin scores
    <3>1. d = [finding |-> Target(r), job |-> r, tenant |-> req[r].tenant,
               created_at |-> tx[r].began]
          BY <1>3, <2>2, Persisted
    <3>2. /\ Target(r) \in Findings /\ NewRec(r) # "absent"
          /\ recs' = [recs EXCEPT ![Target(r)] = NewRec(r)]
          /\ findings'[<<req[r].tenant, req[Target(r)].key>>] # Nothing
          BY <1>3, Persisted
    <3>3. QED
          BY <1>0, <1>3, <3>1, <3>2
  <2>3. QED
        BY <2>1, <2>2
<1>4. QED
      BY <1>2, <1>3, Writes

LEMMA TenantStep == IndInv /\ [Next]_vars => TenantIsolation'
<1> SUFFICES ASSUME IndInv, [Next]_vars
             PROVE  TenantIsolation'
    OBVIOUS
<1>0. /\ TenantIsolation /\ Rows /\ Control
      /\ \A d \in scores : d.job \in Requests /\ d.finding \in Requests
      /\ old \in [Requests -> Jobs \cup {Nothing}]
      BY DEF IndInv, TypeOK, ScoreRow, Findings, Jobs
<1>1. \A o \in Requests : pc[o] # "idle" => req'[o] = req[o]
      BY Kept
<1>2. ASSUME NEW d \in scores'
      PROVE  d.tenant = req'[d.finding].tenant
  <2>1. CASE d \in scores
        BY <1>0, <1>1, <2>1 DEF TenantIsolation, Rows, Past
  <2>2. CASE d \notin scores
    <3>1. PICK r \in Requests : pc[r] = "commit" /\ Persist(r) /\ req' = req
          BY <1>2, <2>2, Writes
    <3>2. d = [finding |-> Target(r), job |-> r, tenant |-> req[r].tenant,
               created_at |-> tx[r].began]
          BY <1>2, <2>2, <3>1, Persisted
    <3>3. req[Target(r)].tenant = req[r].tenant
          BY <3>1, Persisted
    <3>4. QED
          BY <3>1, <3>2, <3>3
  <2>3. QED
        BY <2>1, <2>2
<1>3. ASSUME NEW o \in Requests, old'[o] # Nothing
      PROVE  req'[old'[o]].tenant = req'[o].tenant
  <2>1. CASE old'[o] = old[o]
    <3>1. /\ old[o] \in Requests /\ pc[old[o]] \in Past /\ pc[o] # "idle"
          /\ req[old[o]].tenant = req[o].tenant
          BY <1>0, <1>3, <2>1 DEF Rows, Control, TenantIsolation, Jobs
    <3>2. QED
          BY <1>1, <2>1, <3>1 DEF Past
  <2>2. CASE old'[o] # old[o]
    <3>1. /\ req' = req /\ Visible(o) # {} /\ old'[o] = Newest(Visible(o)).job
          BY <2>2, OldRead
    <3>2. Newest(Visible(o)) \in scores /\ Newest(Visible(o)).tenant = req[o].tenant
          BY <3>1, NewestVisible DEF Visible
    <3>3. QED
          BY <1>0, <3>1, <3>2 DEF Rows
  <2>3. QED
        BY <2>1, <2>2
<1>4. QED
      BY <1>2, <1>3 DEF TenantIsolation

LEMMA EvaluationStep == IndInv /\ [Next]_vars => EvaluationSucceeds'
<1> SUFFICES ASSUME IndInv, [Next]_vars,
                    NEW o \in Requests, req'[o].kind = "evaluate", code'[o] = 500
             PROVE  o \in faulted'
    BY DEF EvaluationSucceeds
<1> USE DEF tables, Goto, Answer
<1>0. /\ EvaluationSucceeds /\ Rows /\ Control
      /\ code \in [Requests -> {0, 200, 201, 404, 500}]
      BY DEF IndInv, TypeOK
<1>1. CASE code[o] = 500
  <2>1. req'[o] = req[o]
        BY <1>0, <1>1, Kept DEF Control
  <2>2. faulted \subseteq faulted'
    <3>1. ASSUME NEW r \in Requests, Fault(r)
          PROVE  faulted' = faulted \cup {r}
          BY <3>1 DEF Fault, StepFails, CommitUnacknowledged,
             Vanish, Faulty
    <3>2. ASSUME NEW r \in Requests, Submit(r) \/ Step(r)
          PROVE  faulted' = faulted
          BY <3>2 DEF Step, Submit, ReadContext, CreateAsset, 
             Compute, ReadFinding, ReadDecision, SaveFinding, SaveDecision,
             DeleteRec, WakeRec, Commit, Publish
    <3>3. QED
          BY <3>1, <3>2 DEF Next, vars
  <2>3. QED
        BY <1>0, <1>1, <2>1, <2>2 DEF EvaluationSucceeds
<1>2. CASE code[o] # 500
  <2>1. ASSUME NEW r \in Requests,
               \/ Submit(r) \/ ReadContext(r) \/ CreateAsset(r)
               \/ Compute(r) \/ ReadFinding(r) \/ ReadDecision(r) \/ SaveFinding(r)
               \/ DeleteRec(r) \/ WakeRec(r) \/ Publish(r)
               \/ Vanish(r)
        PROVE  FALSE
        BY <1>0, <1>2, <2>1 DEF Submit, ReadContext, CreateAsset, 
           Compute, ReadFinding, ReadDecision, SaveFinding, DeleteRec, WakeRec,
           Publish, Vanish
  <2>2. ASSUME NEW r \in Requests, StepFails(r) \/ CommitUnacknowledged(r)
        PROVE  o \in faulted'
        BY <1>0, <1>2, <2>2 DEF StepFails, CommitUnacknowledged, Faulty
  <2>3. ASSUME pc[o] \notin Past, req[o].kind = "evaluate"
        PROVE  ~LegacyConflict(o) /\ ~RecConflict(o)
    <3>1. Target(o) = o
          BY <2>3 DEF Target
    <3>2. QED
          BY <1>0, <2>3, <3>1 DEF Rows, LegacyConflict, RecConflict, Findings
  <2>4. ASSUME NEW r \in Requests, SaveDecision(r) \/ Commit(r)
        PROVE  FALSE
    <3>1. r = o /\ req' = req /\ pc[o] \notin Past
          BY <1>0, <1>2, <2>4 DEF SaveDecision, Commit, Past
    <3>2. QED
          BY <1>0, <1>2, <2>3, <2>4, <3>1 DEF SaveDecision, Commit
  <2>5. CASE UNCHANGED vars
        BY <1>2, <2>5 DEF vars
  <2>6. QED
        BY <2>1, <2>2, <2>4, <2>5 DEF Next, Step, Fault
<1>3. QED
      BY <1>1, <1>2

\* A step of one request leaves the progress of the others alone.
LEMMA Others ==
    ASSUME IndInv, NEW r \in Requests, Submit(r) \/ Step(r) \/ Fault(r),
           NEW o \in Requests, o # r
    PROVE  pc'[o] = pc[o] /\ tx'[o] = tx[o] /\ req'[o] = req[o]
<1> USE DEF tables, Goto, Answer, Discard
<1>0. /\ pc \in [Requests -> Stages] /\ tx \in [Requests -> Transaction]
      /\ req \in [Requests -> EvaluateInput \cup DecisionInput \cup {NoRequest}]
      BY DEF IndInv, TypeOK
<1>1. CASE \/ Submit(r) \/ ReadContext(r) \/ CreateAsset(r)
           \/ Compute(r) \/ Publish(r)
      BY <1>0, <1>1 DEF Submit, ReadContext, CreateAsset, Compute,
         Publish
<1>2. CASE ReadFinding(r) \/ ReadDecision(r)
      BY <1>0, <1>2 DEF ReadFinding, ReadDecision
<1>3. CASE SaveFinding(r) \/ SaveDecision(r)
      BY <1>0, <1>3 DEF SaveFinding, SaveDecision
<1>4. CASE DeleteRec(r) \/ WakeRec(r)
      BY <1>0, <1>4 DEF DeleteRec, WakeRec
<1>5. CASE Commit(r) \/ StepFails(r) \/ CommitUnacknowledged(r) \/ Vanish(r)
      BY <1>0, <1>5 DEF Commit, StepFails, CommitUnacknowledged, Vanish
<1>6. QED
      BY <1>1, <1>2, <1>3, <1>4, <1>5 DEF Step, Fault

\* The part of Pending that is about one request.
PendingOf(r) ==
    /\ tx[r].finding => req[r].kind = "evaluate"
    /\ pc[r] \in {"deleteRec", "waitRec", "commit"} => tx[r].score
    /\ pc[r] \in Computed \ {"score"} /\ req[r].kind = "evaluate"
          => tx[r].finding
    /\ pc[r] \in Computed /\ req[r].kind = "recalculate"
          => tx[r].hadRec /\ Visible(r) # {}

LEMMA PendingStep == IndInv /\ [Next]_vars => Pending'
<1> SUFFICES ASSUME IndInv, [Next]_vars
             PROVE  Pending'
    OBVIOUS
<1> USE DEF tables, Goto, Answer, Discard, Computed
<1>0. /\ \A r \in Requests : PendingOf(r)
      /\ Control /\ AtomicPersist
      /\ pc \in [Requests -> Stages] /\ tx \in [Requests -> Transaction]
      /\ \A r \in Requests : /\ tx[r].finding \in BOOLEAN
                             /\ tx[r].score \in BOOLEAN
      BY DEF IndInv, TypeOK, Pending, PendingOf, Transaction
<1>1. ASSUME NEW o \in Requests, pc[o] # "idle"
      PROVE  /\ req'[o] = req[o]
             /\ Visible(o) # {} => Visible(o)' # {}
  <2>1. scores \subseteq scores'
        BY ScoresGrow
  <2>2. req'[o] = req[o]
        BY <1>1, Kept
  <2>3. QED
        BY <2>1, <2>2 DEF Visible, Target
<1>2. ASSUME NEW o \in Requests,
             pc'[o] = pc[o], tx'[o] = tx[o], req'[o] = req[o]
      PROVE  PendingOf(o)'
      BY <1>0, <1>1, <1>2 DEF PendingOf, Control
<1>3. ASSUME NEW r \in Requests, Submit(r)
      PROVE  PendingOf(r)'
  <2>1. pc'[r] \notin Computed /\ tx'[r] = tx[r] /\ req[r].kind = "none"
        BY <1>0, <1>3 DEF Submit, Control, NoRequest
  <2>2. QED
        BY <1>0, <2>1 DEF PendingOf
<1>4. ASSUME NEW r \in Requests, Step(r) \/ Fault(r)
      PROVE  PendingOf(r)'
  <2> USE DEF PendingOf
  <2>0. /\ pc[r] # "idle" /\ req'[r] = req[r]
        /\ Visible(r) # {} => Visible(r)' # {}
    <3>1. pc[r] # "idle"
          BY <1>4 DEF Step, Fault, ReadContext, CreateAsset, Compute,
             ReadFinding, ReadDecision, SaveFinding, SaveDecision, DeleteRec, WakeRec,
             Commit, Publish, StepFails, CommitUnacknowledged, Vanish
    <3>2. QED
          BY <1>1, <3>1
  <2>1. ASSUME \/ ReadContext(r) \/ CreateAsset(r)
               \/ Compute(r) \/ Publish(r)
        PROVE  PendingOf(r)'
        BY <1>0, <2>0, <2>1 DEF Control, ReadContext, CreateAsset, 
           Compute, Publish
  <2>2. CASE ReadFinding(r)
        BY <1>0, <2>0, <2>2 DEF ReadFinding, Begin, NoTx
  <2>3. CASE ReadDecision(r)
    <3>1. CASE pc'[r] = "done"
          BY <1>0, <2>0, <2>3, <3>1 DEF ReadDecision, NoTx
    <3>2. CASE pc'[r] # "done"
      <4>1. /\ pc'[r] = "score" /\ Visible(r) # {} /\ req[r].kind = "recalculate"
            /\ tx' = [tx EXCEPT ![r].hadRec = recs[Target(r)] # "absent"]
            BY <1>0, <2>3, <3>2 DEF ReadDecision, Control
      <4>2. recs[Target(r)] # "absent"
            BY <1>0, <4>1 DEF AtomicPersist, Visible
      <4>3. tx' = [tx EXCEPT ![r].hadRec = TRUE]
            BY <4>1, <4>2
      <4>4. tx'[r].hadRec /\ tx'[r].finding = tx[r].finding
            BY <1>0, <4>3 DEF Transaction
      <4>5. QED
            BY <1>0, <2>0, <4>1, <4>4
    <3>3. QED
          BY <3>1, <3>2
  <2>4. CASE SaveFinding(r)
        BY <1>0, <2>0, <2>4 DEF SaveFinding, Begin, NoTx, Control
  <2>5. CASE SaveDecision(r)
    <3>1. CASE pc'[r] = "done"
          BY <1>0, <2>0, <2>5, <3>1 DEF SaveDecision, NoTx
    <3>2. CASE pc'[r] # "done"
      <4>1. pc'[r] = "deleteRec" /\ tx' = [tx EXCEPT ![r].score = TRUE]
            BY <1>0, <2>5, <3>2 DEF SaveDecision
      <4>2. /\ tx'[r].score /\ tx'[r].finding = tx[r].finding
            /\ tx'[r].hadRec = tx[r].hadRec
            BY <1>0, <4>1 DEF Transaction
      <4>3. QED
            BY <1>0, <2>0, <2>5, <4>1, <4>2 DEF SaveDecision
    <3>3. QED
          BY <3>1, <3>2
  <2>6. CASE DeleteRec(r) \/ WakeRec(r)
    <3>1. /\ pc[r] \in {"deleteRec", "waitRec"}
          /\ pc'[r] \in {"deleteRec", "waitRec", "commit"}
          BY <1>0, <2>6 DEF DeleteRec, WakeRec
    <3>2. /\ tx'[r].score = tx[r].score /\ tx'[r].finding = tx[r].finding
          /\ tx'[r].hadRec = tx[r].hadRec
          BY <1>0, <2>6 DEF DeleteRec, WakeRec, Transaction
    <3>3. QED
          BY <1>0, <2>0, <3>1, <3>2
  <2>7. CASE Commit(r) \/ StepFails(r) \/ CommitUnacknowledged(r) \/ Vanish(r)
    <3>1. /\ pc'[r] \in {"publish", "done", "gone"}
          /\ tx'[r] = NoTx
          BY <1>0, <2>7 DEF Commit, StepFails, CommitUnacknowledged, Vanish
    <3>2. QED
          BY <3>1 DEF NoTx
  <2>8. QED
        BY <1>4, <2>1, <2>2, <2>3, <2>4, <2>5, <2>6, <2>7 DEF Step, Fault
<1>5. ASSUME NEW r \in Requests, Submit(r) \/ Step(r) \/ Fault(r)
      PROVE  \A o \in Requests : PendingOf(o)'
      BY <1>2, <1>3, <1>4, <1>5, Others
<1>6. ASSUME UNCHANGED vars
      PROVE  \A o \in Requests : PendingOf(o)'
      BY <1>2, <1>6 DEF vars
<1>7. \A o \in Requests : PendingOf(o)'
      BY <1>5, <1>6 DEF Next
<1>8. QED
      BY <1>7 DEF Pending, PendingOf

LEMMA NextInd == IndInv /\ [Next]_vars => IndInv'
BY TypeStep, TimesStep, ControlStep, RowsStep, PendingStep,
   AtomicStep, TenantStep, EvaluationStep
DEF IndInv

LEMMA Inductive == Spec => []IndInv
BY InitInd, NextInd, PTL DEF Spec

-----------------------------------------------------------------------------
(* The theorems                                                            *)

\* Type correctness of the service.
THEOREM TypeCorrect == Spec => []TypeOK
<1>1. IndInv => TypeOK
      BY DEF IndInv
<1>2. QED
      BY Inductive, <1>1, PTL

\* No interleaving and no fault leaves a decision without what belongs to it.
THEOREM PersistsAtomically == Spec => []AtomicPersist
<1>1. IndInv => AtomicPersist
      BY DEF IndInv
<1>2. QED
      BY Inductive, <1>1, PTL

\* No request reads or extends another tenant's decisions.
THEOREM IsolatesTenants == Spec => []TenantIsolation
<1>1. IndInv => TenantIsolation
      BY DEF IndInv
<1>2. QED
      BY Inductive, <1>1, PTL

\* An evaluation without a fault never ends in a 500.
THEOREM EvaluationNeverFails == Spec => []EvaluationSucceeds
<1>1. IndInv => EvaluationSucceeds
      BY DEF IndInv
<1>2. QED
      BY Inductive, <1>1, PTL

\* The ids of findings outlive every upsert.
THEOREM KeepsIdentity == Spec => IdentityKept
<1>1. IndInv /\ [Next]_vars =>
         [\A k \in DOMAIN findings :
             findings[k] # Nothing => findings'[k] = findings[k]]_tables
  <2> SUFFICES ASSUME IndInv, [Next]_vars, NEW k \in DOMAIN findings,
                      findings[k] # Nothing
               PROVE  findings'[k] = findings[k]
      OBVIOUS
  <2>1. DOMAIN findings = Tenants \X SourceKeys
        BY DEF IndInv, TypeOK
  <2>2. QED
        BY <2>1, Writes, Persisted
<1>2. QED
      BY Inductive, <1>1, PTL DEF Spec, IdentityKept

\* A finding id that was answered with 201 can be read from then on.
THEOREM ReadsItsWrites == Spec => EvaluatedIsReadable
<1>1. IndInv /\ [Next]_vars =>
         [\A r, o \in Requests :
             /\ req[r].kind = "get" /\ req[r].finding = o
             /\ code[o] = 201 /\ req[o].tenant = req[r].tenant
             => (code'[r] = 404 => code[r] = 404)]_vars
  <2> SUFFICES ASSUME IndInv, Next, NEW r \in Requests, NEW o \in Requests,
                      req[r].kind = "get", req[r].finding = o,
                      code[o] = 201, req[o].tenant = req[r].tenant,
                      code'[r] = 404, code[r] # 404
               PROVE  FALSE
      BY DEF Next
  <2>0. /\ Rows /\ Control /\ code \in [Requests -> {0, 200, 201, 404, 500}]
        /\ \A d \in scores : d.job \in Requests
        BY DEF IndInv, TypeOK, ScoreRow, Jobs
  <2>1. Visible(r) # {}
    <3>1. PICK d \in scores : d.job = o
          BY <2>0 DEF Rows
    <3>2. d.finding = o /\ d.tenant = req[o].tenant
          BY <2>0, <3>1 DEF Rows, Control, Target
    <3>3. QED
          BY <3>1, <3>2 DEF Visible, Target
  <2> USE DEF tables, Goto, Answer
  <2>2. ASSUME NEW s \in Requests,
               \/ Submit(s) \/ ReadContext(s) \/ CreateAsset(s)
               \/ Compute(s) \/ SaveFinding(s) \/ SaveDecision(s) \/ DeleteRec(s)
               \/ WakeRec(s) \/ Commit(s) \/ Publish(s) \/ Fault(s)
        PROVE  FALSE
        BY <2>0, <2>2 DEF Submit, ReadContext, CreateAsset, Compute,
           SaveFinding, SaveDecision, DeleteRec, WakeRec, Commit, Publish, Fault,
           StepFails, CommitUnacknowledged, Vanish
  <2>3. ASSUME NEW s \in Requests, ReadFinding(s)
        PROVE  FALSE
        BY <2>0, <2>3 DEF ReadFinding, Control
  <2>4. ASSUME NEW s \in Requests, ReadDecision(s)
        PROVE  FALSE
        BY <2>0, <2>1, <2>4 DEF ReadDecision
  <2>5. QED
        BY <2>2, <2>3, <2>4 DEF Next, Step
<1>2. QED
      BY Inductive, <1>1, PTL DEF Spec, EvaluatedIsReadable

-----------------------------------------------------------------------------
(* The service implements the decision log                                 *)

Entry(d) == [job |-> d.job, finding |-> d.finding]
History == {Entry(d) : d \in scores}
Confirmed == {r \in Requests : Writer(r) /\ code[r] \in {200, 201}}

\* The recorded jobs are those of the rows.
LEMMA HistoryJobs == {d.job : d \in History} = {d.job : d \in scores}
<1>1. \A d \in scores : Entry(d).job = d.job
      BY DEF Entry
<1>2. QED
      BY <1>1 DEF History

\* A commit appends one decision to the history.
LEMMA CommitAppends ==
    ASSUME IndInv, NEW r \in Requests, pc[r] = "commit", Persist(r)
    PROVE  /\ r \notin {d.job : d \in History}
           /\ Target(r) \in Findings
           /\ History' = History \cup {[job |-> r, finding |-> Target(r)]}
<1>1. \A d \in scores : d.job # r
      BY DEF IndInv, Rows, Past
<1>2. scores' = scores \cup {[finding |-> Target(r), job |-> r,
                              tenant |-> req[r].tenant, created_at |-> tx[r].began]}
      BY Persisted
<1> DEFINE row == [finding |-> Target(r), job |-> r, tenant |-> req[r].tenant,
                  created_at |-> tx[r].began]
<1>3. Entry(row) = [job |-> r, finding |-> Target(r)]
      BY DEF Entry
<1>4. History' = History \cup {Entry(row)}
  <2> HIDE DEF row
  <2>1. scores' = scores \cup {row}
        BY <1>2 DEF row
  <2>2. QED
        BY <2>1 DEF History, Entry
<1>5. r \notin {d.job : d \in History}
      BY <1>1, HistoryJobs
<1>6. QED
      BY <1>3, <1>4, <1>5, Persisted

\* Only a commit and the publication confirm a job.
LEMMA ConfirmedStep ==
    ASSUME IndInv, NEW r \in Requests
    PROVE  /\ Commit(r) => Confirmed' \in {Confirmed, Confirmed \cup {r}}
           /\ Commit(r) /\ ~Persist(r) => Confirmed' = Confirmed
           /\ Publish(r) => Confirmed' = Confirmed \cup {r}
           /\ Submit(r) \/ Fault(r) => Confirmed' = Confirmed
           /\ Step(r) /\ ~Commit(r) /\ ~Publish(r) => Confirmed' = Confirmed
<1> USE DEF tables, Goto, Answer, Confirmed, Writer
<1>0. /\ Control
      /\ code \in [Requests -> {0, 200, 201, 404, 500}]
      /\ req \in [Requests -> EvaluateInput \cup DecisionInput \cup {NoRequest}]
      BY DEF IndInv, TypeOK
<1>1. Commit(r) => /\ Confirmed' \in {Confirmed, Confirmed \cup {r}}
                   /\ ~Persist(r) => Confirmed' = Confirmed
  <2>1. Commit(r) => \/ code' = code /\ req' = req
                     \/ /\ req' = req /\ code[r] = 0
                        /\ \/ code' = [code EXCEPT ![r] = 500]
                           \/ Persist(r) /\ code' = [code EXCEPT ![r] = 200]
        BY <1>0 DEF Commit, Control
  <2>2. QED
        BY <1>0, <2>1
<1>2. Publish(r) => Confirmed' = Confirmed \cup {r}
      BY <1>0 DEF Publish, Control
<1>3. Submit(r) => Confirmed' = Confirmed
      BY <1>0 DEF Submit, Control
<1>4. Fault(r) => Confirmed' = Confirmed
      BY <1>0 DEF Fault, StepFails, CommitUnacknowledged, Vanish,
         Control
<1>5. Step(r) /\ ~Commit(r) /\ ~Publish(r) => Confirmed' = Confirmed
  <2>1. ReadContext(r) \/ CreateAsset(r) \/ Compute(r)
           => Confirmed' = Confirmed
        BY DEF ReadContext, CreateAsset, Compute
  <2>2. ReadFinding(r) \/ ReadDecision(r) => Confirmed' = Confirmed
        BY <1>0 DEF ReadFinding, ReadDecision, Control
  <2>3. SaveFinding(r) \/ SaveDecision(r) \/ DeleteRec(r) \/ WakeRec(r)
           => Confirmed' = Confirmed
        BY <1>0 DEF SaveFinding, SaveDecision, DeleteRec, WakeRec, Control
  <2>4. QED
        BY <2>1, <2>2, <2>3 DEF Step
<1>6. QED
      BY <1>1, <1>2, <1>3, <1>4, <1>5

\* What a request has read, or been confirmed, is stored.
KnownStored == \A j \in Known : \E d \in scores : d.job = j

LEMMA KnownStep == IndInv /\ [Next]_vars /\ KnownStored => KnownStored'
<1> SUFFICES ASSUME IndInv, [Next]_vars, KnownStored, NEW j \in Known'
             PROVE  \E d \in scores' : d.job = j
    BY DEF KnownStored
<1>0. j \in Requests /\ (j \in Confirmed' \/ \E r \in Requests : old'[r] = j)
      BY DEF Known, Confirmed, Jobs
<1>1. CASE j \in Known
      BY <1>1, ScoresGrow DEF KnownStored
<1>2. CASE j \notin Known /\ \E r \in Requests : old'[r] = j
  <2>1. PICK r \in Requests : old'[r] = j /\ old'[r] # old[r]
        BY <1>0, <1>2 DEF Known, Jobs
  <2>2. Newest(Visible(r)) \in scores /\ Newest(Visible(r)).job = j
        BY <2>1, OldRead, NewestVisible DEF Visible
  <2>3. QED
        BY <2>2, ScoresGrow
<1>3. CASE j \notin Known /\ j \in Confirmed'
  <2>1. j \notin Confirmed
        BY <1>0, <1>3 DEF Known, Confirmed, Jobs
  <2>2. ~ UNCHANGED vars
        BY <1>3, <2>1 DEF vars, Confirmed, Writer
  <2>3. PICK r \in Requests : Submit(r) \/ Step(r) \/ Fault(r)
        BY <2>1, <2>2 DEF Next
  <2>4. Confirmed' = Confirmed \cup {r} /\ (Publish(r) \/ (Commit(r) /\ Persist(r)))
        BY <1>3, <2>1, <2>3, ConfirmedStep
  <2>5. CASE Publish(r)
        BY <1>3, <2>1, <2>4, <2>5, ScoresGrow DEF Publish, IndInv, Rows
  <2>6. CASE Commit(r) /\ Persist(r)
    <3> DEFINE row == [finding |-> Target(r), job |-> r, tenant |-> req[r].tenant,
                       created_at |-> tx[r].began]
    <3>1. j = r /\ row.job = r
          BY <1>3, <2>1, <2>4
    <3>2. row \in scores'
          BY <2>6, Persisted DEF Commit
    <3>3. QED
          BY <3>1, <3>2
  <2>7. QED
        BY <2>4, <2>5, <2>6
<1>4. QED
      BY <1>0, <1>1, <1>2, <1>3

\* No reader goes back: what has been read or confirmed of a finding is a row
\* the query sees, and it returns the newest.
THEOREM ReadsNeverGoBack == Spec => ReadsMoveForward
<1>1. Init => KnownStored
      BY ServiceAssumption DEF Init, KnownStored, Known, Jobs, Writer
<1>2. IndInv /\ KnownStored /\ [Next]_vars =>
         [\A r \in Requests, j \in Known :
             old'[r] # old[r] /\ Target(j) = Target(r) /\ req[j].tenant = req[r].tenant
             => \E d, e \in scores : /\ d.job = old'[r] /\ e.job = j
                                    /\ d.created_at >= e.created_at]_vars
  <2> SUFFICES ASSUME IndInv, KnownStored, [Next]_vars,
                      NEW r \in Requests, NEW j \in Known,
                      old'[r] # old[r], Target(j) = Target(r),
                      req[j].tenant = req[r].tenant
               PROVE  \E d, e \in scores : /\ d.job = old'[r] /\ e.job = j
                                          /\ d.created_at >= e.created_at
      OBVIOUS
  <2>1. PICK e \in scores : e.job = j
        BY DEF KnownStored
  <2>2. e \in Visible(r)
        BY <2>1 DEF Visible, IndInv, Rows
  <2>3. Visible(r) # {} /\ old'[r] = Newest(Visible(r)).job
        BY OldRead
  <2>4. clock \in Nat /\ \A d \in Visible(r) : d.created_at \in Nat /\ d.created_at <= clock
        BY DEF IndInv, TypeOK, Times, Visible, ScoreRow
  <2>5. /\ Newest(Visible(r)) \in scores
        /\ Newest(Visible(r)).created_at >= e.created_at
        BY <2>2, <2>3, <2>4, NewestIsARow, NewestVisible DEF Visible
  <2>6. QED
        BY <2>1, <2>3, <2>5
<1>3. QED
      BY Inductive, KnownStep, <1>1, <1>2, PTL DEF Spec, ReadsMoveForward

LEMMA LogStep == IndInv /\ [Next]_vars => [Log!Next]_Log!vars
<1> SUFFICES ASSUME IndInv, [Next]_vars
             PROVE  [Log!Next]_Log!vars
    OBVIOUS
<1> USE DEF Log!vars, Log!Recorded, JobOf, Jobs
<1>1. ASSUME NEW r \in Requests, Commit(r) \/ CommitUnacknowledged(r), Persist(r),
             pc[r] = "commit", events' = events
      PROVE  Log!Next
  <2>1. Confirmed' \in {Confirmed, Confirmed \cup {r}}
        BY <1>1, ConfirmedStep DEF Fault
  <2>2. PICK f \in Findings : f = Target(r)
        BY <1>1, CommitAppends
  <2>3. Log!Append(r, f)
        BY <1>1, <2>1, <2>2, CommitAppends
        DEF Log!Append, History, Entry, Confirmed
  <2>4. QED
        BY <2>3 DEF Log!Next
<1>2. ASSUME NEW r \in Requests, Publish(r)
      PROVE  Log!Next
  <2>1. \E d \in scores : d.job = r
        BY <1>2 DEF Publish, IndInv, Rows
  <2>2. /\ Confirmed' = Confirmed \cup {r} /\ scores' = scores
        /\ events' \in {events, events \cup {r}}
        BY <1>2, ConfirmedStep DEF Publish, tables
  <2>3. Log!Confirm(r)
    <3>1. r \in {d.job : d \in History}
          BY <2>1, HistoryJobs
    <3>2. QED
          BY <2>2, <3>1 DEF Log!Confirm, History, Entry, Confirmed
  <2>4. QED
        BY <2>3 DEF Log!Next
<1>3. ASSUME NEW r \in Requests,
             \/ Submit(r)
             \/ Fault(r) /\ ~CommitUnacknowledged(r)
             \/ Step(r) /\ ~Publish(r) /\ ~Commit(r)
             \/ Commit(r) /\ ~Persist(r)
      PROVE  UNCHANGED Log!vars
  <2>1. Confirmed' = Confirmed
        BY <1>3, ConfirmedStep
  <2>2. scores' = scores /\ events' = events
    <3>1. CASE Submit(r) \/ (Fault(r) /\ ~CommitUnacknowledged(r))
          BY <3>1 DEF Submit, Fault, StepFails, Vanish, tables
    <3>2. CASE Step(r) /\ ~Publish(r) /\ ~Commit(r)
          BY <3>2 DEF Step, ReadContext, CreateAsset, Compute,
             ReadFinding, ReadDecision, SaveFinding, SaveDecision, DeleteRec,
             WakeRec, tables
    <3>3. CASE Commit(r) /\ ~Persist(r)
          BY <3>3 DEF Commit
    <3>4. QED
          BY <1>3, <3>1, <3>2, <3>3
  <2>3. QED
        BY <2>1, <2>2 DEF Confirmed
<1>4. ASSUME NEW r \in Requests,
             (Commit(r) /\ Persist(r)) \/ CommitUnacknowledged(r)
      PROVE  Persist(r) /\ pc[r] = "commit" /\ events' = events
      BY <1>4 DEF Commit, CommitUnacknowledged
<1>5. CASE UNCHANGED vars
      BY <1>5 DEF vars, Writer
<1>6. QED
      BY <1>1, <1>2, <1>3, <1>4, <1>5 DEF Next, Step

\* The service implements the append-only decision log: nothing that overlaps,
\* fails or is lost makes a stored decision change or vanish, confirms one that
\* is not stored, or announces one that is not.
THEOREM ImplementsDecisionLog == Spec => ImplementsLog
<1>1. Init => Log!Init
      BY DEF Init, Log!Init
<1>2. QED
      BY Inductive, LogStep, <1>1, PTL DEF Spec, ImplementsLog, Log!Spec
=============================================================================
