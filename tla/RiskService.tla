----------------------------- MODULE RiskService -----------------------------
(***************************************************************************)
(* The risk API over PostgreSQL: the use cases EvaluateFinding,            *)
(* Recalculate and GetDecision (application/use_cases), each run by one    *)
(* request with a unit of work of its own (interfaces/dependencies/        *)
(* inject.py), the repositories they call and the tables they share.       *)
(*                                                                         *)
(* Requests run concurrently; one step is the code between two awaits that *)
(* reach the database or another service.  Transactions are READ           *)
(* COMMITTED: a statement sees what is committed when it runs.  What a     *)
(* transaction has written and not committed is kept in tx.                *)
(*                                                                         *)
(* A request id r also stands for the uuid4 values drawn by the request:   *)
(* its job id, the id of the finding it evaluates and of its               *)
(* recommendation.  Scores are not told apart here (module Scoring); a     *)
(* decision is known by the job that computed it.                          *)
(***************************************************************************)
EXTENDS Naturals, FiniteSets

CONSTANTS Requests, Tenants, Assets,
          SourceKeys,  \* (source, source_finding_id) pairs
          Nothing,     \* SQL NULL / Python None
          Schemas,     \* how the tables were created, see schema
          MaxFaults    \* bound on the faults of one behaviour

ASSUME ServiceAssumption ==
    /\ Nothing \notin Requests \cup Tenants
    /\ Schemas \subseteq {"models", "migrated"}
    /\ MaxFaults \in Nat

VARIABLES
    schema,    \* "migrated" keeps UNIQUE(risk_scores.finding_id) of revision 001
    assets,    \* owner of each asset row, or Nothing; filled from outside
    findings,  \* id of the finding row of each (tenant, source key), or Nothing
    scores,    \* rows of risk_scores
    recs,      \* the recommendation row of each finding id
    events,    \* jobs whose finding.scored event was published
    clock,     \* the database's clock, one tick per transaction that writes
    pc,        \* the next step of each request
    req,       \* the input of each request
    ctx,       \* the business context an evaluation scores with
    old,       \* the decision a request read, by job
    tx,        \* the open transaction of each request
    code,      \* HTTP status of the answer, 0 before
    faulted    \* requests that met a fault of their environment

tables == <<assets, findings, scores, recs>>
vars == <<schema, assets, findings, scores, recs, events, clock, pc, req, ctx,
          old, tx, code, faulted>>

-----------------------------------------------------------------------------
(* Types                                                                   *)

Findings == Requests
Jobs == Requests

NoRequest == [kind |-> "none"]

EvaluateInput ==
    [kind : {"evaluate"}, tenant : Tenants, key : SourceKeys, asset : Assets]
DecisionInput ==
    [kind : {"recalculate", "get"}, tenant : Tenants, finding : Findings]

\* created_at is now(): the time the writing transaction began.
ScoreRow == [finding : Findings, job : Jobs, tenant : Tenants, created_at : Nat]

RecRow == {"absent", "structured", "placeholder"}

\* began: its timestamp, 0 while no transaction is open.  finding, score: the
\* upserts done so far.  rec: what DELETE FROM recommendations did.  blocker:
\* the request whose row lock the DELETE waits for.  hadRec: the decision that
\* was read has a recommendation.
Transaction ==
    [began : Nat, finding : BOOLEAN, score : BOOLEAN,
     rec : {"untouched", "deleted", "missed"},
     blocker : Requests \cup {Nothing}, hadRec : BOOLEAN]

NoTx == [began |-> 0, finding |-> FALSE, score |-> FALSE, rec |-> "untouched",
         blocker |-> Nothing, hadRec |-> FALSE]

Stages ==
    {"idle", "context", "create", "score", "saveFinding",
     "readFinding", "readDecision", "saveDecision", "deleteRec", "waitRec",
     "commit", "publish", "done", "gone"}

TypeOK ==
    /\ schema \in Schemas
    /\ assets \in [Assets -> Tenants \cup {Nothing}]
    /\ findings \in [Tenants \X SourceKeys -> Findings \cup {Nothing}]
    /\ scores \in SUBSET ScoreRow
    /\ recs \in [Findings -> RecRow]
    /\ events \in SUBSET Jobs
    /\ clock \in Nat \ {0}
    /\ pc \in [Requests -> Stages]
    /\ req \in [Requests -> EvaluateInput \cup DecisionInput \cup {NoRequest}]
    /\ ctx \in [Requests -> {"unknown", "stored", "neutral"}]
    /\ old \in [Requests -> Jobs \cup {Nothing}]
    /\ tx \in [Requests -> Transaction]
    /\ code \in [Requests -> {0, 200, 201, 404, 500}]
    /\ faulted \in SUBSET Requests

Init ==
    /\ schema \in Schemas
    /\ assets \in [Assets -> Tenants \cup {Nothing}]
    /\ findings = [k \in Tenants \X SourceKeys |-> Nothing]
    /\ scores = {}
    /\ recs = [f \in Findings |-> "absent"]
    /\ events = {}
    /\ clock = 1
    /\ pc = [r \in Requests |-> "idle"]
    /\ req = [r \in Requests |-> NoRequest]
    /\ ctx = [r \in Requests |-> "unknown"]
    /\ old = [r \in Requests |-> Nothing]
    /\ tx = [r \in Requests |-> NoTx]
    /\ code = [r \in Requests |-> 0]
    /\ faulted = {}

-----------------------------------------------------------------------------
(* Helpers                                                                 *)

\* The finding id a request writes or reads under.  An evaluation draws a new
\* one (Finding.create) even when its source key is already known.
Target(r) == IF req[r].kind = "evaluate" THEN r ELSE req[r].finding

SourceKey(r) == <<req[r].tenant, req[r].key>>

\* Every execution draws a new job id.
MutJobOfOld(r) == IF req[r].kind = "evaluate" THEN r ELSE old[r]

JobOf(r) == r

MutVisibleAnyTenant(r) == {d \in scores : d.finding = Target(r)}

MutVisibleJoinsFindings(r) ==
    {d \in scores :
        /\ d.finding = Target(r) /\ d.tenant = req[r].tenant
        /\ \E k \in SourceKeys : findings[<<d.tenant, k>>] = d.finding}

Visible(r) ==
    {d \in scores : d.finding = Target(r) /\ d.tenant = req[r].tenant}

MutNewestAscending(rows) ==
    CHOOSE d \in rows : \A e \in rows : d.created_at <= e.created_at

\* ORDER BY created_at DESC LIMIT 1
Newest(rows) ==
    CHOOSE d \in rows : \A e \in rows : d.created_at >= e.created_at

Goto(r, stage) == pc' = [pc EXCEPT ![r] = stage]

Answer(r, status) ==
    /\ Goto(r, "done")
    /\ code' = [code EXCEPT ![r] = status]

MutDiscardLeavesOpen(r) == tx' = [tx EXCEPT ![r].began = 0]

Discard(r) == tx' = [tx EXCEPT ![r] = NoTx]

\* The first statement of a transaction takes the timestamp of its now().
Begin(r) == [NoTx EXCEPT !.began = clock]

-----------------------------------------------------------------------------
(* A request arrives                                                       *)

Submit(r) ==
    /\ pc[r] = "idle"
    /\ \/ \E in \in EvaluateInput :
             req' = [req EXCEPT ![r] = in] /\ Goto(r, "context")
       \/ \E in \in DecisionInput :
             /\ req' = [req EXCEPT ![r] = in]
             /\ Goto(r, IF in.kind = "get" THEN "readDecision"
                                           ELSE "readFinding")
    /\ UNCHANGED <<schema, tables, events, clock, ctx, old, tx, code, faulted>>

-----------------------------------------------------------------------------
(* EvaluateFinding: business context and passive discovery                 *)

OwnAsset(r) == assets[req[r].asset] = req[r].tenant

\* _get_business_context_isolated: read in a transaction of its own.
ReadContext(r) ==
    /\ pc[r] = "context"
    /\ IF OwnAsset(r)
       THEN ctx' = [ctx EXCEPT ![r] = "stored"] /\ Goto(r, "score")
       ELSE Goto(r, "create") /\ UNCHANGED ctx
    /\ UNCHANGED <<schema, tables, events, clock, req, old, tx, code, faulted>>

MutDiscoveryRaises(r) ==
    /\ pc[r] = "create"
    /\ Answer(r, 500)
    /\ UNCHANGED <<schema, tables, events, clock, req, ctx, old, tx, faulted>>

\* create_if_missing binds UUID objects to String(36) columns where every other
\* statement binds str(id): the driver refuses them, each time.  The exception is
\* caught, nothing is written, the re-read after it is never reached, and the
\* evaluation goes on with the neutral in-memory context.
CreateAsset(r) ==
    /\ pc[r] = "create"
    /\ ctx' = [ctx EXCEPT ![r] = "neutral"]
    /\ Goto(r, "score")
    /\ UNCHANGED <<schema, tables, events, clock, req, old, tx, code, faulted>>

-----------------------------------------------------------------------------
(* Scoring (both writers)                                                  *)

\* Threat intelligence, score, recommendation and AI summary.  None of it
\* touches the database; a recalculation keeps its transaction open meanwhile.
Compute(r) ==
    /\ pc[r] = "score"
    /\ Goto(r, IF req[r].kind = "evaluate" THEN "saveFinding"
                                           ELSE "saveDecision")
    /\ UNCHANGED <<schema, tables, events, clock, req, ctx, old, tx, code,
                   faulted>>

-----------------------------------------------------------------------------
(* Recalculate and GetDecision: reads                                      *)

\* FindingRepository.get_by_id, the first statement of the transaction that
\* will also write the new decision.
ReadFinding(r) ==
    /\ pc[r] = "readFinding"
    /\ IF \E k \in SourceKeys : findings[<<req[r].tenant, k>>] = Target(r)
       THEN /\ tx' = [tx EXCEPT ![r] = Begin(r)]
            /\ clock' = clock + 1
            /\ Goto(r, "readDecision")
            /\ UNCHANGED code
       ELSE Answer(r, 404) /\ UNCHANGED <<clock, tx>>
    /\ UNCHANGED <<schema, tables, events, req, ctx, old, faulted>>

\* DecisionRepository.get_by_finding_id; GetDecision answers with it.
ReadDecision(r) ==
    /\ pc[r] = "readDecision"
    /\ \/ /\ Visible(r) = {}
          /\ Answer(r, 404)
          /\ Discard(r)
          /\ UNCHANGED old
       \/ /\ Visible(r) # {}
          /\ old' = [old EXCEPT ![r] = Newest(Visible(r)).job]
          /\ IF req[r].kind = "get"
             THEN Answer(r, 200) /\ UNCHANGED tx
             ELSE /\ Goto(r, "score")
                  /\ tx' = [tx EXCEPT ![r].hadRec = recs[Target(r)] # "absent"]
                  /\ UNCHANGED code
    /\ UNCHANGED <<schema, tables, events, clock, req, ctx, faulted>>

-----------------------------------------------------------------------------
(* Writes                                                                  *)

MutSaveFindingCommits(r) ==
    /\ pc[r] = "saveFinding"
    /\ findings' = [findings EXCEPT ![SourceKey(r)] = IF @ = Nothing THEN r ELSE @]
    /\ tx' = [tx EXCEPT ![r] = Begin(r)]
    /\ clock' = clock + 1
    /\ Goto(r, "saveDecision")
    /\ UNCHANGED <<schema, assets, scores, recs, events, req, ctx, old, code, faulted>>

\* FindingRepository.save.  An uncommitted upsert of the same source key
\* holds the row (or its index entry) until that transaction ends.
SaveFinding(r) ==
    /\ pc[r] = "saveFinding"
    /\ \A o \in Requests \ {r} :
           ~(tx[o].finding /\ SourceKey(o) = SourceKey(r))
    /\ tx' = [tx EXCEPT ![r] = [Begin(r) EXCEPT !.finding = TRUE]]
    /\ clock' = clock + 1
    /\ Goto(r, "saveDecision")
    /\ UNCHANGED <<schema, tables, events, req, ctx, old, code, faulted>>

\* Revision 921e34b12025 drops the foreign keys and adds the unique constraints
\* of the models, but leaves one of revision 001 in place: a single risk_scores
\* row per finding.
OneScorePerFinding == schema = "migrated"

LegacyConflict(r) ==
    OneScorePerFinding /\ \E d \in scores : d.finding = Target(r)

\* DecisionRepository.save up to the upsert of the risk_scores row.
SaveDecision(r) ==
    /\ pc[r] = "saveDecision"
    /\ IF LegacyConflict(r)
       THEN Answer(r, 500) /\ Discard(r)
       ELSE /\ tx' = [tx EXCEPT ![r].score = TRUE]
            /\ Goto(r, "deleteRec")
            /\ UNCHANGED code
    /\ UNCHANGED <<schema, tables, events, clock, req, ctx, old, faulted>>

\* DELETE FROM recommendations WHERE finding_id = ...: locks the row it finds,
\* or waits for the transaction that has locked it.
HoldsRec(o, f) == tx[o].rec = "deleted" /\ Target(o) = f

DeleteRec(r) ==
    /\ pc[r] = "deleteRec"
    /\ \/ \E o \in Requests \ {r} :
             /\ HoldsRec(o, Target(r))
             /\ tx' = [tx EXCEPT ![r].blocker = o]
             /\ Goto(r, "waitRec")
       \/ /\ \A o \in Requests \ {r} : ~HoldsRec(o, Target(r))
          /\ tx' = [tx EXCEPT ![r].rec =
                       IF recs[Target(r)] = "absent" THEN "untouched"
                                                     ELSE "deleted"]
          /\ Goto(r, "commit")
    /\ UNCHANGED <<schema, tables, events, clock, req, ctx, old, code, faulted>>

\* The blocker's transaction has ended.  If it committed, the row this DELETE
\* was waiting for is gone and the re-inserted one is not in its snapshot, so
\* it deletes nothing; if not, it tries again.
WakeRec(r) ==
    /\ pc[r] = "waitRec"
    /\ LET o == tx[r].blocker IN
       /\ tx[o].began = 0
       /\ IF \E d \in scores : d.job = JobOf(o)
          THEN /\ tx' = [tx EXCEPT ![r].rec = "missed", ![r].blocker = Nothing]
               /\ Goto(r, "commit")
          ELSE /\ tx' = [tx EXCEPT ![r].blocker = Nothing]
               /\ Goto(r, "deleteRec")
    /\ UNCHANGED <<schema, tables, events, clock, req, ctx, old, code, faulted>>

\* The recommendation a transaction inserts when the session is flushed: the
\* structured one of an evaluation, else the generic one that the mapper
\* builds from the old recommendation's id.
NewRec(r) == IF req[r].kind = "evaluate" THEN "structured"
             ELSE IF tx[r].hadRec THEN "placeholder" ELSE "absent"

RecConflict(r) ==
    /\ NewRec(r) # "absent"
    /\ recs[Target(r)] # "absent"
    /\ tx[r].rec # "deleted"

MutUpsertedTakesNewId(r) == [findings EXCEPT ![SourceKey(r)] = Target(r)]

\* ON CONFLICT (tenant, source, source_finding_id) DO UPDATE keeps the id.
UpsertedFindings(r) ==
    [findings EXCEPT ![SourceKey(r)] = IF @ = Nothing THEN Target(r) ELSE @]

\* ON CONFLICT (finding_id, job_id) DO UPDATE keeps the row and created_at.
UpsertedScores(r) ==
    IF \E d \in scores : d.finding = Target(r) /\ d.job = JobOf(r)
    THEN scores
    ELSE scores \cup {[finding |-> Target(r), job |-> JobOf(r),
                       tenant |-> req[r].tenant, created_at |-> tx[r].began]}

MutPersistKeepsRec(r) ==
    /\ findings' = IF tx[r].finding THEN UpsertedFindings(r) ELSE findings
    /\ scores' = IF tx[r].score THEN UpsertedScores(r) ELSE scores
    /\ recs' = [recs EXCEPT ![Target(r)] =
                   IF req[r].kind = "evaluate" THEN "structured" ELSE "absent"]

\* What the commit of r's transaction makes visible, all at once.
Persist(r) ==
    /\ findings' = IF tx[r].finding THEN UpsertedFindings(r) ELSE findings
    /\ scores' = IF tx[r].score THEN UpsertedScores(r) ELSE scores
    /\ recs' = [recs EXCEPT ![Target(r)] = NewRec(r)]

\* uow.commit(): flush, then COMMIT.  A duplicate recommendation is rejected
\* by its unique constraint and the whole transaction is rolled back.
Commit(r) ==
    /\ pc[r] = "commit"
    /\ \/ /\ RecConflict(r)
          /\ Answer(r, 500)
          /\ UNCHANGED <<findings, scores, recs>>
       \/ /\ ~RecConflict(r)
          /\ Persist(r)
          /\ IF req[r].kind = "evaluate"
             THEN Goto(r, "publish") /\ UNCHANGED code
             ELSE Answer(r, 200)
    /\ Discard(r)
    /\ UNCHANGED <<schema, assets, events, clock, req, ctx, old, faulted>>

MutPublishCreated(r) ==
    /\ pc[r] = "publish"
    /\ events' \in {events, events \cup {JobOf(r)}}
    /\ Answer(r, 202)
    /\ UNCHANGED <<schema, tables, clock, req, ctx, old, tx, faulted>>

\* _publish_events, whose failure is swallowed, and the answer.
Publish(r) ==
    /\ pc[r] = "publish"
    /\ events' \in {events, events \cup {JobOf(r)}}
    /\ Answer(r, 201)
    /\ UNCHANGED <<schema, tables, clock, req, ctx, old, tx, faulted>>

-----------------------------------------------------------------------------
(* Faults of the environment                                               *)

Faulty(r) ==
    /\ r \in faulted \/ Cardinality(faulted) < MaxFaults
    /\ faulted' = faulted \cup {r}

\* A statement or an external call fails: the use case wraps the exception,
\* the unit of work rolls back and the client gets a 500.
StepFails(r) ==
    /\ pc[r] \in {"context", "score", "saveFinding", "readFinding",
                  "readDecision", "saveDecision", "deleteRec", "waitRec",
                  "commit"}
    /\ Faulty(r)
    /\ Answer(r, 500)
    /\ Discard(r)
    /\ UNCHANGED <<schema, tables, events, clock, req, ctx, old>>

\* COMMIT takes effect but its acknowledgement is lost: the client gets a 500.
CommitUnacknowledged(r) ==
    /\ pc[r] = "commit"
    /\ ~RecConflict(r)
    /\ Faulty(r)
    /\ Persist(r)
    /\ Answer(r, 500)
    /\ Discard(r)
    /\ UNCHANGED <<schema, assets, events, clock, req, ctx, old>>

\* The worker dies or the request's task is cancelled; its transaction ends
\* with its connection.
Vanish(r) ==
    /\ pc[r] \notin {"idle", "done", "gone"}
    /\ Faulty(r)
    /\ Goto(r, "gone")
    /\ Discard(r)
    /\ UNCHANGED <<schema, tables, events, clock, req, ctx, old, code>>

-----------------------------------------------------------------------------

Step(r) ==
    \/ ReadContext(r) \/ CreateAsset(r)
    \/ Compute(r)
    \/ ReadFinding(r) \/ ReadDecision(r)
    \/ SaveFinding(r) \/ SaveDecision(r)
    \/ DeleteRec(r) \/ WakeRec(r)
    \/ Commit(r) \/ Publish(r)

Fault(r) == StepFails(r) \/ CommitUnacknowledged(r) \/ Vanish(r)

Next == \E r \in Requests : Submit(r) \/ Step(r) \/ Fault(r)

Spec == Init /\ [][Next]_vars

\* Every await of a request returns: queries answer or fail, external calls
\* have timeouts.  Clients need not send anything.
LiveSpec == Spec /\ \A r \in Requests : WF_vars(Step(r))

-----------------------------------------------------------------------------
(* What the service promises                                               *)

Writer(r) == req[r].kind \in {"evaluate", "recalculate"}

Log == INSTANCE DecisionLog WITH
    Jobs <- Jobs, Findings <- Findings,
    history <- {[job |-> d.job, finding |-> d.finding] : d \in scores},
    confirmed <- {r \in Requests : Writer(r) /\ code[r] \in {200, 201}},
    announced <- events

\* Whatever overlaps, fails or is lost, clients see an append-only history:
\* decisions are never overwritten, a 201 or 200 is only given for, and an
\* event only published about, a decision that is stored.
ImplementsLog == Log!Spec

\* One transaction persists a decision with what belongs to it: no stored
\* decision is without a recommendation of its finding, none of an evaluation
\* without a finding row of its source key (finding_repo, decision_repo and
\* the single commit of evaluate_finding.py).
AtomicPersist ==
    \A d \in scores :
        /\ recs[d.finding] # "absent"
        /\ findings[<<d.tenant, req[d.finding].key>>] # Nothing

\* "The engine NEVER returns 500 for a missing asset" (evaluate_finding.py:108),
\* for a foreign one, for the discovery that always fails or for losing a race on
\* the same source key either: only a fault does.  test_execute_missing_business_context
\* (test_evaluate_finding.py:131) expects a UseCaseError when the business context is
\* missing: it disagrees with that comment and with the code, which this follows.
EvaluationSucceeds ==
    \A r \in Requests :
        req[r].kind = "evaluate" /\ code[r] = 500 => r \in faulted

\* No request reads or extends the history of another tenant's finding, though
\* it may name any finding id: a row belongs to the tenant whose evaluation
\* drew the id, and so does every decision a request has read.
TenantIsolation ==
    /\ \A d \in scores : d.tenant = req[d.finding].tenant
    /\ \A r \in Requests :
           old[r] # Nothing => req[old[r]].tenant = req[r].tenant

\* The id of a finding, once stored, outlives every later upsert of the same
\* source key, in whatever order the evaluations of its tenant commit.
IdentityKept ==
    [][\A k \in DOMAIN findings :
          findings[k] # Nothing => findings'[k] = findings[k]]_tables

\* A client that was told 201 is never told 404 when it reads the decision of
\* that finding id, even when another finding row holds the source key.
EvaluatedIsReadable ==
    [][\A r, o \in Requests :
          /\ req[r].kind = "get" /\ req[r].finding = o
          /\ code[o] = 201 /\ req[o].tenant = req[r].tenant
          => (code'[r] = 404 => code[r] = 404)]_vars

\* The decisions that some client has been told of: one a request has read, or
\* one confirmed to its writer.
Known ==
    {j \in Jobs : \/ \E r \in Requests : old[r] = j
                  \/ Writer(j) /\ code[j] \in {200, 201}}

\* Reads move forward: no request, whoever sends it, reads a decision older
\* than one of the same finding that was read or confirmed before, however the
\* recalculations in between overlap (get_by_finding_id, decision_repo.py).
ReadsMoveForward ==
    [][\A r \in Requests, j \in Known :
          old'[r] # old[r] /\ Target(j) = Target(r) /\ req[j].tenant = req[r].tenant
          => \E d, e \in scores : /\ d.job = old'[r] /\ e.job = j
                                 /\ d.created_at >= e.created_at]_vars

\* Every request that arrived is answered or lost with its worker: row locks
\* are handed on and no two transactions wait for each other.
RequestsEnd ==
    \A r \in Requests : pc[r] # "idle" ~> pc[r] \in {"done", "gone"}

\* r cannot take its next step before the transaction of o has ended.
WaitsFor(r, o) ==
    /\ o # r
    /\ \/ /\ pc[r] = "saveFinding"
          /\ tx[o].finding /\ SourceKey(o) = SourceKey(r)
       \/ pc[r] = "waitRec" /\ tx[r].blocker = o /\ tx[o].began # 0

\* Whoever is waited for waits for nobody, though a transaction may hold both
\* a finding and a recommendation: there is no deadlock for PostgreSQL to
\* break, and no queue of waiting requests behind a waiting one.
NoCircularWait ==
    \A r, o, p \in Requests : WaitsFor(r, o) => ~WaitsFor(o, p)

\* How far a request has got.
Rank ==
    [idle |-> 0, context |-> 1, create |-> 2, readFinding |-> 1,
     readDecision |-> 2, score |-> 3, saveFinding |-> 4, saveDecision |-> 5,
     deleteRec |-> 6, waitRec |-> 7, commit |-> 8, publish |-> 9,
     done |-> 10, gone |-> 10]

\* Requests move forward: a step is only ever repeated, the DELETE of a
\* recommendation, because the transaction it waited for came to nothing by a
\* fault.  With NoCircularWait this bounds the steps of every request.
StepsForward ==
    [][\A r \in Requests :
          pc'[r] # pc[r] =>
              \/ Rank[pc'[r]] > Rank[pc[r]]
              \/ /\ pc[r] = "waitRec" /\ pc'[r] = "deleteRec"
                 /\ tx[r].blocker \in faulted]_vars

\* A finding row is never stored without a decision under its own id: reading
\* the decision of an id found in the findings table does not end in a 404.
RowsHaveDecisions ==
    \A t \in Tenants, k \in SourceKeys :
        findings[<<t, k>>] # Nothing =>
            \E d \in scores : d.finding = findings[<<t, k>>] /\ d.tenant = t

-----------------------------------------------------------------------------
(* What the code says and does not do                                      *)

\* finding_repo.save: "The original finding.id is preserved [...] so
\* downstream risk / decision / history rows remain linked to the same
\* logical finding."
DecisionsLinked ==
    \A d \in scores : \E k \in DOMAIN findings : findings[k] = d.finding

\* decision_repo.save: "Each recalculation uses a NEW job_id [...], so this
\* INSERT creates a fresh history row": none is refused by the database
\* unless a fault hit it.
RecalculationRecorded ==
    \A r \in Requests :
        req[r].kind = "recalculate" /\ code[r] = 500 => r \in faulted

\* DecisionsLinked and RecalculationRecorded do hold of a source key that is
\* evaluated once, and of recalculations of a finding that do not overlap, on the
\* tables of the models.
KeyEvaluatedOnce ==
    \A r, o \in Requests :
        /\ r # o /\ req[r].kind = "evaluate" /\ req[o].kind = "evaluate"
        => SourceKey(r) # SourceKey(o)

RecalculationsApart ==
    /\ schema = "models"
    /\ \A r, o \in Requests :
           /\ r # o /\ tx[r].began # 0 /\ tx[o].began # 0
           /\ req[r].kind = "recalculate" /\ req[o].kind = "recalculate"
           => Target(r) # Target(o)

LinkedIfEvaluatedOnce == []KeyEvaluatedOnce => []DecisionsLinked
RecordedIfApart == []RecalculationsApart => []RecalculationRecorded
=============================================================================
