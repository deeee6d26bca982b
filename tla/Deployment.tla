----------------------------- MODULE Deployment -----------------------------
(***************************************************************************)
(* How a database comes to the schema and the knowledge base the service   *)
(* runs on: the two Alembic revisions, the script that applies them        *)
(* (scripts/run_migrations.py) and the script that creates missing tables  *)
(* and loads the JSON files (scripts/seed_knowledge_base.py).              *)
(*                                                                         *)
(* An Alembic command is one transaction (env.py; PostgreSQL's DDL is      *)
(* transactional), so it is one step that happens or does not.  Seeding    *)
(* runs are processes: one transaction for the tables, then one for each   *)
(* file, statement by statement.  An error of a statement is caught and    *)
(* logged, but PostgreSQL then refuses the rest of the transaction and     *)
(* turns its COMMIT into a rollback.                                       *)
(*                                                                         *)
(* Each row is a statement of its own.  What is known of a stored row is   *)
(* the edition of the file that wrote it last; editions may hold other     *)
(* rows, or the same ones in another order, and rows that do not get as    *)
(* far as the server.                                                      *)
(***************************************************************************)
EXTENDS Naturals, Sequences, FiniteSets

CONSTANTS Runs,       \* runs of the seeding script, each started once
          Editions,   \* editions of the JSON files that are deployed
          Keys,       \* primary keys of the knowledge base's rows
          Lines,      \* the rows of each file of an edition, in order
          Malformed,  \* rows of an edition that fail before they are sent
          MaxFaults   \* bound on the faults of one behaviour

VARIABLES
    database,  \* the database exists
    schema,    \* Alembic's version and what the tables look like
    rows,      \* the service's tables that hold rows
    stored,    \* the edition of each row in the database, 0 if none
    pc,        \* the phase of each run
    edition,   \* the edition each run loads
    missing,   \* the tables a run has found missing
    file,      \* the file a run is loading
    step,      \* the row of that file it comes to next
    pending,   \* the rows its open transaction has written
    holding,   \* that transaction holds locks on tables
    aborted,   \* a statement of its open transaction has failed
    absent,    \* its SELECT has not found the template
    faults     \* faults so far

runVars == <<pc, edition, missing, file, step, pending, holding, aborted, absent>>
vars == <<database, schema, rows, stored, runVars, faults>>

-----------------------------------------------------------------------------
(* Tables and files                                                        *)

ServiceTables == {"assets", "findings", "finding_history", "risk_scores",
                  "score_drivers", "recommendations"}
TenancyTables == {"tenants", "users"}
KnowledgeTables ==
    {"priority_matrix", "boost_mappings", "compliance_frameworks",
     "data_sensitivity_mappings", "severity_normalization", "scoring_weights",
     "tier_bounds", "mitigation_categories", "remediation_templates"}

\* The tables each file is loaded into, in the order the script loads the files.
TablesOf == << {"priority_matrix", "boost_mappings"},
               {"compliance_frameworks", "data_sensitivity_mappings"},
               {"severity_normalization", "scoring_weights", "tier_bounds"},
               {"mitigation_categories"},
               {"remediation_templates"} >>

Files == 1..Len(TablesOf)
Templates == 5

\* A row is known by its table and its key.
RowsOf(e, f) == {Lines[e][f][i] : i \in 1..Len(Lines[e][f])}
Rows == UNION {RowsOf(e, f) : e \in Editions, f \in Files}

\* What every complete copy of a file leaves behind.
Sound(e, f) == RowsOf(e, f) \ Malformed[e]

ASSUME DeploymentAssumption ==
    /\ Editions \subseteq Nat \ {0}
    /\ MaxFaults \in Nat
    /\ Lines \in [Editions -> [Files -> Seq(KnowledgeTables \X Keys)]]
    /\ \A e \in Editions, f \in Files : \A row \in RowsOf(e, f) : row[1] \in TablesOf[f]
    /\ Malformed \in [Editions -> SUBSET Rows]

-----------------------------------------------------------------------------
(* Schemas.  uniques are the unique constraints besides primary keys,      *)
(* fkeys pairs of a table and the one it refers to, audited says that      *)
(* risk_scores has the columns of revision 921e34b12025.                   *)

Head921 == "921e34b12025"

EmptySchema == [version |-> "none", tables |-> {}, uniques |-> {},
                fkeys |-> {}, audited |-> FALSE]

Tables001 == ServiceTables \cup TenancyTables \cup KnowledgeTables

ForeignKeys001 ==
    {"users", "assets", "findings", "risk_scores", "recommendations"}
        \X {"tenants"}
    \cup {<<"assets", "users">>, <<"findings", "assets">>,
          <<"score_drivers", "risk_scores">>}
    \cup {"finding_history", "risk_scores", "recommendations"} \X {"findings"}

Uniques001 == {"users_email_key", "uq_finding_source",
               "risk_scores_finding_id_key", "recommendations_finding_id_key"}
Uniques921 == {"uq_risk_scores_finding_job", "uq_recommendations_finding"}

\* What Base.metadata declares, and what the ON CONFLICT clauses and the
\* replacement of recommendations in the repositories rely on.
ModelUniques == Uniques921 \cup {"uq_finding_source"}

\* CREATE TABLE refuses a table that exists.
Applies001(s) == s.tables \cap Tables001 = {}

Upgrade001(s) ==
    [version |-> "001", tables |-> s.tables \cup Tables001,
     uniques |-> s.uniques \cup Uniques001,
     fkeys |-> s.fkeys \cup ForeignKeys001, audited |-> FALSE]

\* ALTER TABLE needs its table; a NOT NULL column without a default cannot be
\* added to a table with rows.
Applies921(s, nonEmpty) ==
    /\ ServiceTables \subseteq s.tables
    /\ ~s.audited
    /\ "risk_scores" \notin nonEmpty

MutUpgradeForgetsConstraint(s) ==
    [version |-> Head921,
     tables |-> s.tables \ (TenancyTables \cup KnowledgeTables),
     uniques |-> (s.uniques \ {"users_email_key"})
                     \cup {"uq_recommendations_finding"},
     fkeys |-> s.fkeys \ ForeignKeys001, audited |-> TRUE]

\* DROP TABLE ... CASCADE of the tenants, users and knowledge base takes the
\* foreign keys to them along; the others are dropped by name.
Upgrade921(s) ==
    [version |-> Head921,
     tables |-> s.tables \ (TenancyTables \cup KnowledgeTables),
     uniques |-> (s.uniques \ {"users_email_key"}) \cup Uniques921,
     fkeys |-> s.fkeys \ ForeignKeys001, audited |-> TRUE]

\* The foreign keys are added first and need the tables they refer to; the
\* last statement creates one of these.
Reverts921(s) ==
    /\ {k[2] : k \in {l \in ForeignKeys001 : l[1] \in ServiceTables}}
           \subseteq s.tables
    /\ "tenants" \notin s.tables

Downgrade921(s) ==
    [version |-> "001", tables |-> s.tables \cup {"tenants"},
     uniques |-> s.uniques \ Uniques921,
     fkeys |-> s.fkeys
         \cup {l \in ForeignKeys001 : l[1] \in ServiceTables},
     audited |-> FALSE]

Downgrade001(s) ==
    [version |-> "none", tables |-> s.tables \ Tables001,
     uniques |-> s.uniques \ Uniques001,
     fkeys |-> s.fkeys \ ForeignKeys001, audited |-> FALSE]

-----------------------------------------------------------------------------

Phases == {"idle", "inspect", "create", "load", "done", "failed"}

\* The rows of the file a run is loading; it loads none without an edition.
Length(r) == IF edition[r] = 0 THEN 0 ELSE Len(Lines[edition[r]][file[r]])

TypeOK ==
    /\ database \in BOOLEAN
    /\ schema \in [version : {"none", "001", Head921},
                   tables : SUBSET Tables001,
                   uniques : SUBSET (Uniques001 \cup Uniques921),
                   fkeys : SUBSET ForeignKeys001, audited : BOOLEAN]
    /\ rows \in SUBSET ((ServiceTables \cup TenancyTables) \cap schema.tables)
    /\ stored \in [Rows -> Editions \cup {0}]
    /\ pc \in [Runs -> Phases]
    /\ edition \in [Runs -> Editions \cup {0}]
    /\ missing \in [Runs -> SUBSET (ServiceTables \cup KnowledgeTables)]
    /\ file \in [Runs -> Files]
    /\ step \in [Runs -> Nat \ {0}]
    /\ \A r \in Runs : step[r] <= Length(r) + 1
    /\ pending \in [Runs -> SUBSET Rows]
    /\ holding \in [Runs -> BOOLEAN]
    /\ aborted \in [Runs -> BOOLEAN]
    /\ absent \in [Runs -> BOOLEAN]
    /\ faults \in 0..MaxFaults

\* No database, an empty one, or one that an earlier release has migrated to
\* the revision it knew.
Init ==
    /\ \/ database = FALSE /\ schema = EmptySchema
       \/ database = TRUE /\ schema \in {EmptySchema, Upgrade001(EmptySchema)}
    /\ rows = {}
    /\ stored = [row \in Rows |-> 0]
    /\ pc = [r \in Runs |-> "idle"]
    /\ edition = [r \in Runs |-> 0]
    /\ missing = [r \in Runs |-> {}]
    /\ file = [r \in Runs |-> 1]
    /\ step = [r \in Runs |-> 1]
    /\ pending = [r \in Runs |-> {}]
    /\ holding = [r \in Runs |-> FALSE]
    /\ aborted = [r \in Runs |-> FALSE]
    /\ absent = [r \in Runs |-> FALSE]
    /\ faults = 0

-----------------------------------------------------------------------------
(* run_migrations and alembic downgrade.  A command that fails changes     *)
(* nothing, and is left out.                                               *)

\* _ensure_database_exists: CREATE DATABASE, on a connection of its own.
EnsureDatabase ==
    /\ ~database
    /\ database' = TRUE
    /\ UNCHANGED <<schema, rows, stored, runVars, faults>>

\* An open transaction holds the tables it has touched; DROP TABLE waits for it.
TablesFree == \A r \in Runs : ~holding[r]

MutChangeSchemaRecreates(new) ==
    /\ TablesFree
    /\ schema' = new
    /\ rows' = rows \cap (new.tables \ {"assets"})
    /\ stored' = [row \in Rows |-> IF row[1] \in new.tables THEN stored[row] ELSE 0]
    /\ UNCHANGED <<database, runVars, faults>>

\* The command's transaction commits: a dropped table takes its rows along.
ChangeSchema(new) ==
    /\ TablesFree
    /\ schema' = new
    /\ rows' = rows \cap new.tables
    /\ stored' = [row \in Rows |-> IF row[1] \in new.tables THEN stored[row] ELSE 0]
    /\ UNCHANGED <<database, runVars, faults>>

\* command.upgrade(config, "head"): all pending revisions in one transaction.
Migrate ==
    /\ database
    /\ \/ /\ schema.version = "none"
          /\ Applies001(schema)
          /\ Applies921(Upgrade001(schema), rows)
          /\ ChangeSchema(Upgrade921(Upgrade001(schema)))
       \/ /\ schema.version = "001"
          /\ Applies921(schema, rows)
          /\ ChangeSchema(Upgrade921(schema))

Reverts(s) ==
    IF s.version = Head921 THEN Reverts921(s)
    ELSE s.version = "001" /\ Tables001 \subseteq s.tables

Reverted(s) == IF s.version = Head921 THEN Downgrade921(s) ELSE Downgrade001(s)

\* alembic downgrade -1
Downgrade == Reverts(schema) /\ ChangeSchema(Reverted(schema))

\* The service, or the earlier release on its schema, stores an asset or an
\* evaluation.  With 001's foreign keys there is a tenant, and perhaps an owner,
\* to refer to.
Record ==
    /\ ServiceTables \subseteq schema.tables
    /\ \E written \in {{"assets"}, ServiceTables \ {"finding_history"}},
          known \in IF schema.fkeys = {} THEN {{}} ELSE {{"tenants"}, TenancyTables} :
           rows' = rows \cup written \cup known
    /\ UNCHANGED <<database, schema, stored, runVars, faults>>

-----------------------------------------------------------------------------
(* A run of the seeding script                                             *)

dbVars == <<database, schema, rows, stored, faults>>

Goto(r, phase) == pc' = [pc EXCEPT ![r] = phase]

\* The process is gone, and what it had open with it.
End(r, phase) ==
    /\ Goto(r, phase)
    /\ edition' = [edition EXCEPT ![r] = 0]
    /\ missing' = [missing EXCEPT ![r] = {}]
    /\ file' = [file EXCEPT ![r] = 1]
    /\ step' = [step EXCEPT ![r] = 1]
    /\ pending' = [pending EXCEPT ![r] = {}]
    /\ holding' = [holding EXCEPT ![r] = FALSE]
    /\ aborted' = [aborted EXCEPT ![r] = FALSE]
    /\ absent' = [absent EXCEPT ![r] = FALSE]

Start(r) ==
    /\ pc[r] = "idle"
    /\ \E e \in Editions : edition' = [edition EXCEPT ![r] = e]
    /\ Goto(r, "inspect")
    /\ UNCHANGED <<dbVars, missing, file, step, pending, holding, aborted, absent>>

\* Without a database there is nothing to connect to: exit 1.
ConnectFails(r) ==
    /\ pc[r] = "inspect"
    /\ ~database
    /\ End(r, "failed")
    /\ UNCHANGED dbVars

\* create_all looks at all tables before it creates the first one.
Inspect(r) ==
    /\ pc[r] = "inspect"
    /\ database
    /\ missing' = [missing EXCEPT ![r] =
                      (ServiceTables \cup KnowledgeTables) \ schema.tables]
    /\ Goto(r, "create")
    /\ UNCHANGED <<dbVars, edition, file, step, pending, holding, aborted, absent>>

\* The ORM's tables that were missing, then CREATE TABLE IF NOT EXISTS for the
\* knowledge base, in one transaction.
CreateTables(r) ==
    /\ pc[r] = "create"
    /\ missing[r] \cap ServiceTables \cap schema.tables = {}
    /\ LET new == missing[r] \cap ServiceTables IN
       schema' = [schema EXCEPT
           !.tables = @ \cup new \cup KnowledgeTables,
           !.uniques = IF new = {} THEN @ ELSE @ \cup ModelUniques,
           !.audited = @ \/ new # {}]
    /\ missing' = [missing EXCEPT ![r] = {}]
    /\ Goto(r, "load")
    /\ UNCHANGED <<database, rows, stored, faults, edition, file, step, pending,
                   holding, aborted, absent>>

\* Another run or a migration has created one of them meanwhile: "already
\* exists", or, for IF NOT EXISTS of two transactions at once, a duplicate
\* catalogue entry.
CreateCollides(r) ==
    /\ pc[r] = "create"
    /\ missing[r] \cap schema.tables # {}
    /\ End(r, "failed")
    /\ UNCHANGED dbVars

\* The row a run comes to next, while there is one left of its file.
Current(r) == Lines[edition[r]][file[r]][step[r]]

Loading(r) == pc[r] = "load" /\ step[r] <= Length(r)

Advance(r) == step' = [step EXCEPT ![r] = @ + 1]

Touch(r) == holding' = [holding EXCEPT ![r] = TRUE]

\* The server refuses a statement: its error is logged, what the transaction
\* has written is undone, its locks are released, and the loop goes on.
Abort(r) ==
    /\ aborted' = [aborted EXCEPT ![r] = TRUE]
    /\ pending' = [pending EXCEPT ![r] = {}]
    /\ holding' = [holding EXCEPT ![r] = FALSE]
    /\ absent' = [absent EXCEPT ![r] = FALSE]
    /\ Advance(r)

Refused(r) == aborted[r] \/ Current(r)[1] \notin schema.tables

MutRestartsFile(r) ==
    /\ Loading(r)
    /\ Refused(r)
    /\ aborted' = [aborted EXCEPT ![r] = FALSE]
    /\ pending' = [pending EXCEPT ![r] = {}]
    /\ holding' = [holding EXCEPT ![r] = FALSE]
    /\ absent' = [absent EXCEPT ![r] = FALSE]
    /\ step' = [step EXCEPT ![r] = 1]
    /\ UNCHANGED <<dbVars, pc, edition, missing, file>>

\* "current transaction is aborted", or the table has been dropped.
StatementRefused(r) ==
    /\ Loading(r)
    /\ Refused(r)
    /\ Abort(r)
    /\ UNCHANGED <<dbVars, pc, edition, missing, file>>

\* The row has no "get", or a value that the driver cannot encode: the error is
\* logged and the loop goes on too, but the transaction is as good as before.
\* The driver may have had the statement prepared, or the template looked up.
SkipRow(r) ==
    /\ Loading(r)
    /\ Current(r) \in Malformed[edition[r]]
    /\ UNCHANGED holding \/ (~Refused(r) /\ Touch(r))
    /\ absent' = [absent EXCEPT ![r] = FALSE]
    /\ Advance(r)
    /\ UNCHANGED <<dbVars, pc, edition, missing, file, pending, aborted>>

\* An INSERT waits for the transaction that has written its row and is open.
WaitsFor(r, o) ==
    /\ o # r
    /\ Loading(r) /\ ~Refused(r)
    /\ Current(r) \notin Malformed[edition[r]]
    /\ file[r] = Templates => absent[r]
    /\ Current(r) \in pending[o]

CanInsert(r) ==
    /\ Loading(r) /\ ~Refused(r)
    /\ Current(r) \notin Malformed[edition[r]]
    /\ \A o \in Runs : ~WaitsFor(r, o)

MutUpsertCommits(r) ==
    /\ CanInsert(r)
    /\ file[r] # Templates
    /\ stored' = [stored EXCEPT ![Current(r)] = edition[r]]
    /\ Touch(r)
    /\ Advance(r)
    /\ UNCHANGED <<database, schema, rows, faults, pc, edition, missing, file,
                   pending, aborted, absent>>

\* INSERT ... ON CONFLICT DO UPDATE of one row.
Upsert(r) ==
    /\ CanInsert(r)
    /\ file[r] # Templates
    /\ pending' = [pending EXCEPT ![r] = @ \cup {Current(r)}]
    /\ Touch(r)
    /\ Advance(r)
    /\ UNCHANGED <<dbVars, pc, edition, missing, file, aborted, absent>>

\* A template is looked up first, and only inserted when not found.
SelectTemplate(r) ==
    /\ Loading(r) /\ ~Refused(r)
    /\ file[r] = Templates
    /\ ~absent[r]
    /\ Touch(r)
    /\ IF stored[Current(r)] = 0 /\ Current(r) \notin pending[r]
       THEN absent' = [absent EXCEPT ![r] = TRUE] /\ UNCHANGED step
       ELSE Advance(r) /\ UNCHANGED absent
    /\ UNCHANGED <<dbVars, pc, edition, missing, file, pending, aborted>>

\* When another run has committed it since the SELECT, the INSERT fails on the
\* primary key.
InsertTemplate(r) ==
    /\ CanInsert(r)
    /\ absent[r]
    /\ IF stored[Current(r)] = 0
       THEN /\ pending' = [pending EXCEPT ![r] = @ \cup {Current(r)}]
            /\ absent' = [absent EXCEPT ![r] = FALSE]
            /\ Advance(r)
            /\ UNCHANGED <<holding, aborted>>
       ELSE Abort(r)
    /\ UNCHANGED <<dbVars, pc, edition, missing, file>>

\* Runs that wait for each other in a circle: PostgreSQL fails one's statement.
Deadlocked(r) ==
    \E S \in SUBSET Runs :
        /\ r \in S
        /\ \A x \in S : (\E y \in S : WaitsFor(x, y)) /\ (\E y \in S : WaitsFor(y, x))

DeadlockBroken(r) ==
    /\ Deadlocked(r)
    /\ Abort(r)
    /\ UNCHANGED <<dbVars, pc, edition, missing, file>>

Published(r) ==
    [row \in Rows |-> IF row \in pending[r] THEN edition[r] ELSE stored[row]]

MutNextFilePastEnd(r) ==
    /\ pending' = [pending EXCEPT ![r] = {}]
    /\ holding' = [holding EXCEPT ![r] = FALSE]
    /\ aborted' = [aborted EXCEPT ![r] = FALSE]
    /\ file' = [file EXCEPT ![r] = @ + 1]
    /\ step' = [step EXCEPT ![r] = 1]
    /\ UNCHANGED <<pc, edition, missing, absent>>

\* On to the next file; after the last one the script exits with 0.
NextFile(r) ==
    IF file[r] = Len(TablesOf)
    THEN End(r, "done")
    ELSE /\ pending' = [pending EXCEPT ![r] = {}]
         /\ holding' = [holding EXCEPT ![r] = FALSE]
         /\ aborted' = [aborted EXCEPT ![r] = FALSE]
         /\ file' = [file EXCEPT ![r] = @ + 1]
         /\ step' = [step EXCEPT ![r] = 1]
         /\ UNCHANGED <<pc, edition, missing, absent>>

AtCommit(r) == pc[r] = "load" /\ step[r] > Length(r)

\* The file's commit.  In an aborted transaction nothing is pending and
\* COMMIT quietly rolls back; "seeded successfully" is logged all the same.
CommitFile(r) ==
    /\ AtCommit(r)
    /\ stored' = Published(r)
    /\ NextFile(r)
    /\ UNCHANGED <<database, schema, rows, faults>>

Fault == faults < MaxFaults /\ faults' = faults + 1

\* Any statement may fail on the server: a value its column refuses, a timeout,
\* this transaction chosen to break a deadlock with a migration.
StatementFails(r) ==
    /\ Loading(r)
    /\ Fault
    /\ Abort(r)
    /\ UNCHANGED <<database, schema, rows, stored, pc, edition, missing, file>>

\* The script is killed, loses its connection, cannot read a file, or finds a
\* template that is not an object, for which the handler of its error raises once
\* more: exit 1.  In a commit, the commit may have taken effect.
RunDies(r) ==
    /\ pc[r] \in {"inspect", "create", "load"}
    /\ Fault
    /\ stored' \in IF AtCommit(r) THEN {stored, Published(r)} ELSE {stored}
    /\ End(r, "failed")
    /\ UNCHANGED <<database, schema, rows>>

RunStep(r) ==
    \/ ConnectFails(r) \/ Inspect(r) \/ CreateTables(r) \/ CreateCollides(r)
    \/ StatementRefused(r) \/ SkipRow(r) \/ Upsert(r)
    \/ SelectTemplate(r) \/ InsertTemplate(r) \/ DeadlockBroken(r)
    \/ CommitFile(r)

Next ==
    \/ EnsureDatabase \/ Migrate \/ Downgrade \/ Record
    \/ \E r \in Runs : Start(r) \/ RunStep(r) \/ StatementFails(r) \/ RunDies(r)

Spec == Init /\ [][Next]_vars

\* A run that was started goes on; PostgreSQL hands locks on.  Operators need
\* not issue any command.
LiveSpec == Spec /\ \A r \in Runs : WF_vars(RunStep(r))

-----------------------------------------------------------------------------
(* Properties                                                              *)

\* Alembic's version tells the truth about the tables, in whatever order
\* commands and seeding runs came, raced or failed; and whichever of them
\* built the tables in today's shape, the constraints the repositories name
\* in ON CONFLICT are there (finding_repo.py:100, decision_repo.py:156).
VersionTellsSchema ==
    /\ schema.version = "001" =>
           /\ Tables001 \subseteq schema.tables
           /\ schema.fkeys = ForeignKeys001
           /\ ~schema.audited
    /\ schema.version = Head921 =>
           /\ ServiceTables \subseteq schema.tables
           /\ schema.tables \cap TenancyTables = {}
           /\ schema.fkeys = {}
           /\ schema.audited
    /\ schema.version = "none" =>
           ServiceTables \cap schema.tables \in {{}, ServiceTables}
    /\ schema.audited => ModelUniques \subseteq schema.uniques

\* Deploying in any order loses no row of the service, however an upgrade or a
\* seeding run overlaps with it: an upgrade keeps all of them or is refused.
\* What an upgrade does drop, with its rows, are the tables of 001 that the
\* service has no use for any more, tenants and users, and the knowledge base
\* (921e34b12025:25-35); only an operator's downgrade loses anything else, and
\* no run of the seeding script loses a row of any table.
RowsSurvive ==
    [][\/ Downgrade
       \/ /\ rows \cap ServiceTables \subseteq rows'
          /\ \/ Migrate
             \/ /\ rows \subseteq rows'
                /\ \A row \in Rows : stored[row] # 0 => stored'[row] # 0]_vars

\* Of each file the database holds nothing, or all well-formed rows of one
\* edition, in that edition's version unless they are templates, which are never
\* overwritten: whatever the server refuses, dies, deadlocks or overlaps, and
\* with an upgrade dropping the tables in between.  Malformed rows are missing,
\* or as some other edition left them, in a file reported as seeded.
FilesWhole ==
    \A f \in Files :
        \/ \A row \in Rows : row[1] \in TablesOf[f] => stored[row] = 0
        \/ \E e \in Editions : \A row \in Sound(e, f) :
               IF f = Templates THEN stored[row] # 0 ELSE stored[row] = e

\* Every run exits, although runs of editions that have the same rows in another
\* order do lock each other out.
RunsEnd == \A r \in Runs : pc[r] # "idle" ~> pc[r] \in {"done", "failed"}

\* A run only waits for one that is loading the same file, and if both load the
\* same rows in the same order, for one that is ahead of it: no number of runs of
\* one edition can wait for each other in a circle.
WaitsAreOrdered ==
    \A r, o \in Runs : WaitsFor(r, o) =>
        /\ pc[o] = "load" /\ file[o] = file[r]
        /\ Lines[edition[o]][file[r]] = Lines[edition[r]][file[r]] => step[r] < step[o]

\* Edition e has row a of file f before row b.
Before(e, f, a, b) ==
    \E j \in 1..Len(Lines[e][f]) : \E i \in 1..(j - 1) :
        Lines[e][f][i] = a /\ Lines[e][f][j] = b

\* Two runs that wait for each other load editions that have the two rows in
\* opposite orders.
DeadlocksAreCrossed ==
    \A r, o \in Runs : WaitsFor(r, o) /\ WaitsFor(o, r) =>
        /\ Before(edition[r], file[r], Current(o), Current(r))
        /\ Before(edition[o], file[r], Current(r), Current(o))

Phase(r) ==
    CASE pc[r] = "idle" -> 0
      [] pc[r] = "inspect" -> 1
      [] pc[r] = "create" -> 2
      [] pc[r] = "load" -> 3
      [] OTHER -> 4

\* How far a run has come.
Position(r) == <<Phase(r), file[r], step[r], IF absent[r] THEN 1 ELSE 0>>

Further(p, q) == \E i \in 1..4 : p[i] < q[i] /\ \A j \in 1..(i - 1) : p[j] = q[j]

\* And no run retries or goes back: each of its steps, whatever failed before
\* it, takes it further towards its exit, and nobody else sets it back.
RunsAdvance ==
    [][\A r \in Runs :
           /\ Position(r)' = Position(r) \/ Further(Position(r), Position(r)')
           /\ RunStep(r) => Further(Position(r), Position(r)')]_vars

\* The traps of deploying in another order.  Once the seeding script has created
\* tables in a database without a version, the migrations never apply to it
\* (001's CREATE TABLE is not IF NOT EXISTS); and once the earlier release has
\* stored a score, only an operator's downgrade, which drops the scores, gets
\* the database off revision 001 (921e34b12025 adds NOT NULL columns).
TrapsHold ==
    [][/\ schema.version = "none" /\ schema.tables # {} =>
              schema'.version = "none" /\ schema'.tables # {}
       /\ schema.version = "001" /\ "risk_scores" \in rows /\ ~Downgrade =>
              schema'.version = "001" /\ "risk_scores" \in rows']_vars
=============================================================================
