-------------------------- MODULE DeploymentProofs --------------------------
(***************************************************************************)
(* The safety of deploying, for any number of seeding runs, any editions   *)
(* of the files, whatever rows they have, in whatever order, well-formed   *)
(* or not, and any number of faults.                                       *)
(***************************************************************************)
EXTENDS Deployment, TLAPS

USE DEF Head921

-----------------------------------------------------------------------------
(* Tables and files                                                        *)

LEMMA TablesApart ==
    /\ ServiceTables \cap TenancyTables = {}
    /\ ServiceTables \cap KnowledgeTables = {}
    /\ TenancyTables \cap KnowledgeTables = {}
    /\ "risk_scores" \in ServiceTables
    /\ "tenants" \in TenancyTables
    BY DEF ServiceTables, TenancyTables, KnowledgeTables

LEMMA FilesAre ==
    /\ Len(TablesOf) = 5
    /\ Files = 1..5
    /\ Templates \in Files
    /\ \A f \in Files : f = 1 \/ f = 2 \/ f = 3 \/ f = 4 \/ f = 5
  <1>1. Len(TablesOf) = 5
    BY DEF TablesOf
  <1>2. Files = 1..5
    BY <1>1 DEF Files
  <1> QED BY <1>1, <1>2 DEF Templates

\* No table is loaded from two files.
LEMMA FilesApart ==
    ASSUME NEW e \in Files, NEW f \in Files, NEW t \in TablesOf[e], t \in TablesOf[f]
    PROVE  e = f
  <1>1. /\ TablesOf[1] = {"priority_matrix", "boost_mappings"}
        /\ TablesOf[2] = {"compliance_frameworks", "data_sensitivity_mappings"}
        /\ TablesOf[3] = {"severity_normalization", "scoring_weights", "tier_bounds"}
        /\ TablesOf[4] = {"mitigation_categories"}
        /\ TablesOf[5] = {"remediation_templates"}
    BY DEF TablesOf
  <1> HIDE DEF TablesOf
  <1>2. CASE e = 1
    BY <1>1, <1>2, FilesAre
  <1>3. CASE e = 2
    BY <1>1, <1>3, FilesAre
  <1>4. CASE e = 3
    BY <1>1, <1>4, FilesAre
  <1>5. CASE e = 4
    BY <1>1, <1>5, FilesAre
  <1>6. CASE e = 5
    BY <1>1, <1>6, FilesAre
  <1> QED BY <1>2, <1>3, <1>4, <1>5, <1>6, FilesAre

\* What the assumption says of one file of one edition.
LEMMA LinesAre ==
    ASSUME NEW e \in Editions, NEW f \in Files
    PROVE  /\ Len(Lines[e][f]) \in Nat
           /\ \A i \in 1..Len(Lines[e][f]) : Lines[e][f][i] \in RowsOf(e, f)
           /\ RowsOf(e, f) \subseteq Rows
           /\ \A row \in RowsOf(e, f) : row[1] \in TablesOf[f]
  <1>1. Lines[e][f] \in Seq(KnowledgeTables \X Keys)
    BY DeploymentAssumption
  <1>2. \A i \in 1..Len(Lines[e][f]) : Lines[e][f][i] \in RowsOf(e, f)
    BY DEF RowsOf
  <1>3. RowsOf(e, f) \subseteq Rows
    BY DEF Rows
  <1> QED BY <1>1, <1>2, <1>3, DeploymentAssumption

LEMMA RowsTabled == \A row \in Rows : row[1] \in KnowledgeTables
  <1> SUFFICES ASSUME NEW e \in Editions, NEW f \in Files, NEW row \in RowsOf(e, f)
               PROVE  row[1] \in KnowledgeTables
    BY DEF Rows
  <1>1. Lines[e][f] \in Seq(KnowledgeTables \X Keys)
    BY DeploymentAssumption
  <1>2. PICK i \in 1..Len(Lines[e][f]) : row = Lines[e][f][i]
    BY DEF RowsOf
  <1>3. row \in KnowledgeTables \X Keys
    BY <1>1, <1>2
  <1> QED BY <1>3

-----------------------------------------------------------------------------
(* The inductive invariant                                                 *)

DatabaseTypes ==
    /\ database \in BOOLEAN
    /\ schema \in [version : {"none", "001", Head921},
                   tables : SUBSET Tables001,
                   uniques : SUBSET (Uniques001 \cup Uniques921),
                   fkeys : SUBSET ForeignKeys001, audited : BOOLEAN]
    /\ rows \in SUBSET ((ServiceTables \cup TenancyTables) \cap schema.tables)
    /\ stored \in [Rows -> Editions \cup {0}]
    /\ faults \in 0..MaxFaults

RunTypes ==
    /\ pc \in [Runs -> Phases]
    /\ edition \in [Runs -> Editions \cup {0}]
    /\ missing \in [Runs -> SUBSET (ServiceTables \cup KnowledgeTables)]
    /\ file \in [Runs -> Files]
    /\ step \in [Runs -> Nat \ {0}]
    /\ \A r \in Runs : step[r] <= Length(r) + 1
    /\ pending \in [Runs -> SUBSET Rows]
    /\ holding \in [Runs -> BOOLEAN]
    /\ aborted \in [Runs -> BOOLEAN]
    /\ absent \in [Runs -> BOOLEAN]

\* The shape of a database: its types, that the service's tables exist together
\* or not at all, and what version and audited tell of them.
Shaped(s) ==
    /\ s \in [version : {"none", "001", Head921},
              tables : SUBSET Tables001,
              uniques : SUBSET (Uniques001 \cup Uniques921),
              fkeys : SUBSET ForeignKeys001, audited : BOOLEAN]
    /\ s.version = "001" =>
           /\ Tables001 \subseteq s.tables
           /\ Uniques001 \subseteq s.uniques
           /\ s.fkeys = ForeignKeys001
           /\ ~s.audited
    /\ s.version = Head921 =>
           /\ ServiceTables \subseteq s.tables
           /\ s.tables \cap TenancyTables = {}
           /\ s.fkeys = {}
           /\ s.audited
    /\ s.version = "none" =>
           /\ \/ ServiceTables \cap s.tables = {} /\ ~s.audited
              \/ ServiceTables \subseteq s.tables /\ s.audited
           /\ s.tables \cap TenancyTables = {}
           /\ s.fkeys = {}
    /\ s.audited => ModelUniques \subseteq s.uniques

\* What a run found missing of them is all of them or none.
MissingWhole ==
    \A r \in Runs : missing[r] \cap ServiceTables \in {{}, ServiceTables}

\* The well-formed rows of its file that a run has been at.
Written(r) ==
    {Lines[edition[r]][file[r]][i] : i \in 1..(step[r] - 1)} \ Malformed[edition[r]]

\* What a run's open transaction has done: nothing once a statement has failed,
\* nothing while it holds no lock, and otherwise it has written all of these rows
\* but for the templates that were there.
LoadOK(r) ==
    /\ pc[r] \in {"inspect", "create", "load"} => edition[r] # 0
    /\ pc[r] # "load" => file[r] = 1 /\ step[r] = 1 /\ ~aborted[r] /\ ~holding[r]
    /\ aborted[r] => ~holding[r]
    /\ ~holding[r] => pending[r] = {} /\ ~absent[r]
    /\ absent[r] => file[r] = Templates
    /\ pending[r] \subseteq Written(r)
    /\ ~aborted[r] /\ file[r] # Templates => Written(r) \subseteq pending[r]
    /\ ~aborted[r] /\ ~holding[r] => Written(r) = {}

\* And these are there as long as it holds its locks.
TemplatesKept ==
    \A r \in Runs : file[r] = Templates /\ ~aborted[r] =>
        \A row \in Written(r) \ pending[r] : stored[row] # 0

\* A row has one writer at a time, and a template none once it is stored.
OneWriter ==
    /\ \A r, o \in Runs : r # o => pending[r] \cap pending[o] = {}
    /\ \A r \in Runs : file[r] = Templates => \A row \in pending[r] : stored[row] = 0

Ind ==
    /\ TypeOK
    /\ Shaped(schema)
    /\ MissingWhole
    /\ \A r \in Runs : LoadOK(r)
    /\ TemplatesKept
    /\ OneWriter
    /\ FilesWhole

LEMMA Halves == TypeOK <=> DatabaseTypes /\ RunTypes
  BY DEF TypeOK, DatabaseTypes, RunTypes

-----------------------------------------------------------------------------
(* The steps of runs                                                       *)

Active == {"inspect", "create", "load"}

RunAct(r) == Start(r) \/ RunStep(r) \/ StatementFails(r) \/ RunDies(r)

\* A step is somebody else's, or of one of these kinds.
Aborts(r) == Loading(r) /\ Abort(r) /\ UNCHANGED <<pc, edition, missing, file>>

Ends(r) == pc[r] \in Active /\ \E phase \in {"done", "failed"} : End(r, phase)

Turns(r) == AtCommit(r) /\ file[r] # 5 /\ NextFile(r)

Inserts(r) ==
    /\ CanInsert(r)
    /\ file[r] = Templates => absent[r] /\ stored[Current(r)] = 0
    /\ pending' = [pending EXCEPT ![r] = @ \cup {Current(r)}]
    /\ holding'[r] /\ \A o \in Runs \ {r} : holding'[o] = holding[o]
    /\ Advance(r)
    /\ ~absent'[r] /\ \A o \in Runs \ {r} : absent'[o] = absent[o]
    /\ UNCHANGED <<pc, edition, missing, file, aborted>>
    /\ holding' \in [Runs -> BOOLEAN] /\ absent' \in [Runs -> BOOLEAN]

Passes(r) ==
    /\ Loading(r)
    /\ Current(r) \in Malformed[edition[r]]
       \/ (file[r] = Templates /\ (stored[Current(r)] # 0 \/ Current(r) \in pending[r]))
    /\ UNCHANGED holding \/ (~Refused(r) /\ Touch(r))
    /\ Current(r) \notin Malformed[edition[r]] => holding'[r]
    /\ absent' = [absent EXCEPT ![r] = FALSE]
    /\ Advance(r)
    /\ UNCHANGED <<dbVars, pc, edition, missing, file, pending, aborted>>

Misses(r) ==
    /\ Loading(r) /\ ~Refused(r)
    /\ file[r] = Templates
    /\ ~absent[r]
    /\ Touch(r)
    /\ absent' = [absent EXCEPT ![r] = TRUE]
    /\ UNCHANGED <<dbVars, pc, edition, missing, file, step, pending, aborted>>

\* Current rows are rows of the run's file.
LEMMA CurrentRow ==
    ASSUME RunTypes, NEW r \in Runs, Loading(r)
    PROVE  /\ edition[r] \in Editions /\ file[r] \in Files
           /\ Length(r) = Len(Lines[edition[r]][file[r]])
           /\ step[r] \in 1..Length(r)
           /\ Current(r) \in RowsOf(edition[r], file[r]) /\ Current(r) \in Rows
  <1>1. /\ edition[r] \in Editions \cup {0} /\ file[r] \in Files /\ step[r] \in Nat \ {0}
        /\ step[r] <= Length(r)
    BY DEF RunTypes, Loading
  <1>2. edition[r] # 0
    BY <1>1 DEF Length
  <1>3. Length(r) = Len(Lines[edition[r]][file[r]]) /\ Length(r) \in Nat
    BY <1>1, <1>2, LinesAre DEF Length
  <1> QED BY <1>1, <1>2, <1>3, LinesAre DEF Current

LEMMA KindsOfSteps ==
    ASSUME RunTypes, \A o \in Runs : LoadOK(o), NEW r \in Runs, RunAct(r)
    PROVE  \/ Start(r) \/ Inspect(r) \/ CreateTables(r)
           \/ Ends(r) \/ Aborts(r) \/ Inserts(r) \/ Passes(r) \/ Misses(r) \/ Turns(r)
  <1>1. CASE ConnectFails(r) \/ CreateCollides(r) \/ RunDies(r)
    BY <1>1 DEF ConnectFails, CreateCollides, RunDies, Ends, Active
  <1>2. CASE StatementRefused(r) \/ StatementFails(r)
    BY <1>2 DEF StatementRefused, StatementFails, Aborts
  <1>3. CASE DeadlockBroken(r)
    <2>1. \E o \in Runs : WaitsFor(r, o)
      BY <1>3 DEF DeadlockBroken, Deadlocked
    <2>2. Loading(r)
      BY <2>1 DEF WaitsFor
    <2> QED BY <1>3, <2>2 DEF DeadlockBroken, Aborts
  <1>4. CASE SkipRow(r)
    BY <1>4 DEF SkipRow, Passes
  <1>5. CASE Upsert(r)
    <2>1. /\ CanInsert(r) /\ file[r] # Templates /\ Touch(r)
          /\ UNCHANGED <<pc, edition, missing, file, aborted, absent>>
      BY <1>5 DEF Upsert
    <2>2. ~absent[r]
      BY <2>1 DEF LoadOK
    <2>3. /\ holding'[r] /\ \A o \in Runs \ {r} : holding'[o] = holding[o]
          /\ holding' \in [Runs -> BOOLEAN] /\ absent' \in [Runs -> BOOLEAN]
      BY <2>1 DEF Touch, RunTypes
    <2> QED BY <1>5, <2>1, <2>2, <2>3 DEF Upsert, Inserts
  <1>6. CASE SelectTemplate(r)
    <2>1. CASE stored[Current(r)] = 0 /\ Current(r) \notin pending[r]
      BY <1>6, <2>1 DEF SelectTemplate, Misses
    <2>2. CASE ~(stored[Current(r)] = 0 /\ Current(r) \notin pending[r])
      <3>1. /\ Loading(r) /\ ~Refused(r) /\ file[r] = Templates /\ ~absent[r]
            /\ Touch(r) /\ Advance(r) /\ UNCHANGED absent
            /\ UNCHANGED <<dbVars, pc, edition, missing, file, pending, aborted>>
        BY <1>6, <2>2 DEF SelectTemplate
      <3>2. absent' = [absent EXCEPT ![r] = FALSE] /\ holding'[r]
        BY <3>1 DEF RunTypes, Touch
      <3> QED BY <2>2, <3>1, <3>2 DEF Passes
    <2> QED BY <2>1, <2>2
  <1>7. CASE InsertTemplate(r)
    <2>1. CASE stored[Current(r)] = 0
      <3>1. /\ CanInsert(r) /\ absent[r]
            /\ pending' = [pending EXCEPT ![r] = @ \cup {Current(r)}]
            /\ absent' = [absent EXCEPT ![r] = FALSE]
            /\ Advance(r)
            /\ UNCHANGED <<holding, aborted, pc, edition, missing, file>>
        BY <1>7, <2>1 DEF InsertTemplate
      <3>2. holding[r]
        BY <3>1 DEF LoadOK
      <3>3. /\ ~absent'[r] /\ \A o \in Runs \ {r} : absent'[o] = absent[o]
            /\ absent' \in [Runs -> BOOLEAN] /\ holding' \in [Runs -> BOOLEAN]
        BY <3>1 DEF RunTypes
      <3> QED BY <2>1, <3>1, <3>2, <3>3 DEF Inserts
    <2>2. CASE stored[Current(r)] # 0
      BY <1>7, <2>2 DEF InsertTemplate, CanInsert, Aborts
    <2> QED BY <2>1, <2>2
  <1>8. CASE CommitFile(r)
    <2>1. CASE file[r] = Len(TablesOf)
      BY <1>8, <2>1 DEF CommitFile, NextFile, AtCommit, Ends, Active
    <2>2. CASE file[r] # Len(TablesOf)
      BY <1>8, <2>2, FilesAre DEF CommitFile, Turns
    <2> QED BY <2>1, <2>2
  <1>9. CASE Start(r) \/ Inspect(r) \/ CreateTables(r)
    BY <1>9
  <1> QED BY <1>1, <1>2, <1>3, <1>4, <1>5, <1>6, <1>7, <1>8, <1>9 DEF RunAct, RunStep

\* Only r's state moves.
LEMMA Frame ==
    ASSUME RunTypes, \A o \in Runs : LoadOK(o), NEW r \in Runs, RunAct(r)
    PROVE  \A o \in Runs \ {r} :
               /\ pc'[o] = pc[o] /\ edition'[o] = edition[o] /\ missing'[o] = missing[o]
               /\ file'[o] = file[o] /\ step'[o] = step[o] /\ pending'[o] = pending[o]
               /\ holding'[o] = holding[o] /\ aborted'[o] = aborted[o]
               /\ absent'[o] = absent[o]
  <1>1. CASE Start(r) \/ Inspect(r) \/ CreateTables(r)
    BY <1>1 DEF Start, Inspect, CreateTables, Goto, RunTypes
  <1>2. CASE Ends(r)
    BY <1>2 DEF Ends, End, Goto, RunTypes
  <1>3. CASE Aborts(r)
    BY <1>3 DEF Aborts, Abort, Advance, RunTypes
  <1>4. CASE Inserts(r)
    BY <1>4 DEF Inserts, Advance, RunTypes
  <1>5. CASE Passes(r)
    BY <1>5 DEF Passes, Advance, Touch, RunTypes
  <1>6. CASE Misses(r)
    BY <1>6 DEF Misses, Touch, RunTypes
  <1>7. CASE Turns(r)
    BY <1>7, FilesAre DEF Turns, NextFile, RunTypes
  <1> QED BY <1>1, <1>2, <1>3, <1>4, <1>5, <1>6, <1>7, KindsOfSteps

\* The run variables change with a run's step only.
LEMMA WhoMoves ==
    ASSUME [Next]_vars
    PROVE  UNCHANGED runVars \/ \E r \in Runs : RunAct(r)
  BY DEF Next, vars, EnsureDatabase, Migrate, Downgrade, Record, ChangeSchema, RunAct

-----------------------------------------------------------------------------
(* Types                                                                   *)

\* It remains to see to the length of the file.
LEMMA LengthTypes ==
    ASSUME RunTypes, NEW r \in Runs,
           edition' \in [Runs -> Editions \cup {0}], file' \in [Runs -> Files],
           step' \in [Runs -> Nat \ {0}],
           \A o \in Runs \ {r} :
               edition'[o] = edition[o] /\ file'[o] = file[o] /\ step'[o] = step[o],
           \/ step'[r] = 1
           \/ /\ edition'[r] = edition[r] /\ file'[r] = file[r]
              /\ step'[r] \in {step[r], step[r] + 1}
              /\ step[r] <= Length(r)
    PROVE  \A o \in Runs : step'[o] <= Length(o)' + 1
  <1>1. \A o \in Runs : Length(o)' \in Nat
    BY LinesAre DEF Length
  <1>2. ASSUME NEW o \in Runs, o # r
        PROVE  step'[o] <= Length(o)' + 1
    BY <1>2 DEF RunTypes, Length
  <1>3. CASE step'[r] = 1
    BY <1>1, <1>2, <1>3
  <1>4. CASE /\ edition'[r] = edition[r] /\ file'[r] = file[r]
             /\ step'[r] \in {step[r], step[r] + 1}
             /\ step[r] <= Length(r)
    <2>1. Length(r)' = Length(r)
      BY <1>4 DEF Length
    <2>2. step[r] \in Nat /\ Length(r) \in Nat
      BY <1>1, <2>1 DEF RunTypes
    <2> QED BY <1>2, <1>4, <2>1, <2>2
  <1> QED BY <1>3, <1>4

LEMMA NextRunTypes ==
    ASSUME RunTypes, \A o \in Runs : LoadOK(o), [Next]_vars
    PROVE  RunTypes'
  <1>1. CASE UNCHANGED runVars
    BY <1>1 DEF runVars, RunTypes, Length
  <1>2. ASSUME NEW r \in Runs, RunAct(r)
        PROVE  RunTypes'
    <2> DEFINE Simple ==
            /\ pc' \in [Runs -> Phases]
            /\ edition' \in [Runs -> Editions \cup {0}]
            /\ missing' \in [Runs -> SUBSET (ServiceTables \cup KnowledgeTables)]
            /\ file' \in [Runs -> Files]
            /\ step' \in [Runs -> Nat \ {0}]
            /\ pending' \in [Runs -> SUBSET Rows]
            /\ holding' \in [Runs -> BOOLEAN]
            /\ aborted' \in [Runs -> BOOLEAN]
            /\ absent' \in [Runs -> BOOLEAN]
               Stepped ==
            \/ step'[r] = 1
            \/ /\ edition'[r] = edition[r] /\ file'[r] = file[r]
               /\ step'[r] \in {step[r], step[r] + 1}
               /\ step[r] <= Length(r)
    <2> SUFFICES Simple /\ Stepped
      <3>1. ASSUME Simple, Stepped
            PROVE  \A o \in Runs : step'[o] <= Length(o)' + 1
        BY <1>2, <3>1, Frame, LengthTypes
      <3> QED BY <3>1 DEF RunTypes
    <2>1. CASE Start(r) \/ Inspect(r) \/ CreateTables(r)
      <3>1. pc[r] # "load"
        BY <2>1 DEF Start, Inspect, CreateTables
      <3>2. step[r] = 1
        BY <3>1 DEF LoadOK
      <3> QED BY <2>1, <3>2 DEF Start, Inspect, CreateTables, Goto, RunTypes, Phases
    <2>2. CASE Ends(r)
      BY <2>2, FilesAre DEF Ends, End, Goto, RunTypes, Phases
    <2>3. CASE Aborts(r)
      BY <2>3 DEF Aborts, Abort, Advance, Loading, RunTypes
    <2>4. CASE Inserts(r)
      <3>1. Current(r) \in Rows /\ step[r] <= Length(r)
        BY <2>4, CurrentRow DEF Inserts, CanInsert, Loading
      <3> QED BY <2>4, <3>1 DEF Inserts, Advance, RunTypes
    <2>5. CASE Passes(r)
      <3>1. /\ absent' = [absent EXCEPT ![r] = FALSE]
            /\ step' = [step EXCEPT ![r] = @ + 1] /\ step[r] <= Length(r)
            /\ UNCHANGED <<pc, edition, missing, file, pending, aborted>>
        BY <2>5 DEF Passes, Advance, Loading
      <3>2. holding' \in [Runs -> BOOLEAN] /\ absent' \in [Runs -> BOOLEAN]
        BY <2>5, <3>1 DEF Passes, Touch, RunTypes
      <3> QED BY <3>1, <3>2 DEF RunTypes
    <2>6. CASE Misses(r)
      BY <2>6 DEF Misses, Touch, Loading, RunTypes
    <2>7. CASE Turns(r)
      <3>1. file[r] + 1 \in Files
        BY <2>7, FilesAre DEF Turns, RunTypes
      <3>2. /\ pending' = [pending EXCEPT ![r] = {}]
            /\ holding' = [holding EXCEPT ![r] = FALSE]
            /\ aborted' = [aborted EXCEPT ![r] = FALSE]
            /\ file' = [file EXCEPT ![r] = @ + 1]
            /\ step' = [step EXCEPT ![r] = 1]
            /\ UNCHANGED <<pc, edition, missing, absent>>
        BY <2>7, FilesAre DEF Turns, NextFile
      <3> QED BY <3>1, <3>2 DEF RunTypes
    <2> QED BY <1>2, <2>1, <2>2, <2>3, <2>4, <2>5, <2>6, <2>7, KindsOfSteps
  <1> QED BY <1>1, <1>2, WhoMoves

-----------------------------------------------------------------------------
(* Schemas                                                                 *)

\* A database at the head can never be taken back: the foreign keys need
\* tenants, which is created last (921e34b12025, downgrade).
LEMMA HeadIsFinal == \A s : ~Reverts921(s)
  <1> SUFFICES ASSUME NEW s, Reverts921(s) PROVE FALSE
    OBVIOUS
  <1>1. <<"assets", "tenants">> \in ForeignKeys001
    BY DEF ForeignKeys001
  <1>2. "assets" \in ServiceTables
    BY DEF ServiceTables
  <1>3. "tenants" \in {k[2] : k \in {l \in ForeignKeys001 : l[1] \in ServiceTables}}
    BY <1>1, <1>2
  <1> QED BY <1>3 DEF Reverts921

LEMMA ConstraintNames ==
    /\ ModelUniques \subseteq (Uniques001 \ {"users_email_key"}) \cup Uniques921
    /\ ModelUniques \subseteq Uniques001 \cup Uniques921
  BY DEF ModelUniques, Uniques001, Uniques921

LEMMA EmptyShaped == Shaped(EmptySchema)
  BY TablesApart DEF Shaped, EmptySchema

\* Revision 001 applies to a schema without any of its tables.
LEMMA Upgrade001Shaped ==
    ASSUME NEW s, Shaped(s), s.version = "none", Applies001(s)
    PROVE  Shaped(Upgrade001(s)) /\ Upgrade001(s).version = "001"
  <1>1. /\ Upgrade001(s).version = "001"
        /\ Upgrade001(s).tables = Tables001
        /\ Upgrade001(s).uniques = s.uniques \cup Uniques001
        /\ Upgrade001(s).fkeys = ForeignKeys001
        /\ Upgrade001(s).audited = FALSE
    BY DEF Upgrade001, Shaped
  <1>2. Upgrade001(s) \in [version : {"none", "001", Head921},
                           tables : SUBSET Tables001,
                           uniques : SUBSET (Uniques001 \cup Uniques921),
                           fkeys : SUBSET ForeignKeys001, audited : BOOLEAN]
    BY DEF Upgrade001, Shaped
  <1> QED BY <1>1, <1>2 DEF Shaped

LEMMA Upgrade921Shaped ==
    ASSUME NEW s, Shaped(s), s.version = "001"
    PROVE  /\ Shaped(Upgrade921(s))
           /\ Upgrade921(s).tables = ServiceTables
  <1>1. /\ Upgrade921(s).version = Head921
        /\ Upgrade921(s).tables = s.tables \ (TenancyTables \cup KnowledgeTables)
        /\ Upgrade921(s).uniques = (s.uniques \ {"users_email_key"}) \cup Uniques921
        /\ Upgrade921(s).fkeys = s.fkeys \ ForeignKeys001
        /\ Upgrade921(s).audited = TRUE
    BY DEF Upgrade921
  <1>2. Upgrade921(s).tables = ServiceTables
    BY <1>1, TablesApart DEF Shaped, Tables001
  <1>3. ModelUniques \subseteq Upgrade921(s).uniques
    BY <1>1, ConstraintNames DEF Shaped
  <1>4. Upgrade921(s).fkeys = {}
    BY <1>1 DEF Shaped
  <1>5. Upgrade921(s).uniques \subseteq Uniques001 \cup Uniques921
    BY <1>1 DEF Shaped
  <1>6. ServiceTables \subseteq Tables001
    BY DEF Tables001
  <1>7. Upgrade921(s) \in [version : {"none", "001", Head921},
                           tables : SUBSET Tables001,
                           uniques : SUBSET (Uniques001 \cup Uniques921),
                           fkeys : SUBSET ForeignKeys001, audited : BOOLEAN]
    BY <1>2, <1>4, <1>5, <1>6 DEF Upgrade921
  <1> QED BY <1>1, <1>2, <1>3, <1>4, <1>7, TablesApart DEF Shaped

LEMMA Downgrade001Shaped ==
    ASSUME NEW s, Shaped(s), s.version = "001"
    PROVE  Shaped(Downgrade001(s)) /\ Downgrade001(s).tables = {}
  <1>1. /\ Downgrade001(s).version = "none"
        /\ Downgrade001(s).tables = {}
        /\ Downgrade001(s).uniques = s.uniques \ Uniques001
        /\ Downgrade001(s).fkeys = {}
        /\ Downgrade001(s).audited = FALSE
    BY DEF Downgrade001, Shaped
  <1>2. Downgrade001(s) \in [version : {"none", "001", Head921},
                             tables : SUBSET Tables001,
                             uniques : SUBSET (Uniques001 \cup Uniques921),
                             fkeys : SUBSET ForeignKeys001, audited : BOOLEAN]
    BY <1>1 DEF Downgrade001, Shaped
  <1> QED BY <1>1, <1>2 DEF Shaped

\* Creating all of the service's tables where there is none, or none of them.
LEMMA CreateShaped ==
    ASSUME NEW s, Shaped(s), NEW new \in {{}, ServiceTables},
           new \cap s.tables = {},
           NEW t, t = [s EXCEPT
               !.tables = @ \cup new \cup KnowledgeTables,
               !.uniques = IF new = {} THEN @ ELSE @ \cup ModelUniques,
               !.audited = @ \/ new # {}]
    PROVE  Shaped(t)
  <1>1. /\ t.version = s.version /\ t.fkeys = s.fkeys
        /\ t.tables = s.tables \cup new \cup KnowledgeTables
        /\ new = {} => t.uniques = s.uniques /\ t.audited = s.audited
        /\ new # {} => t.uniques = s.uniques \cup ModelUniques /\ t.audited = TRUE
    BY DEF Shaped
  <1>2. /\ t.tables \subseteq Tables001
        /\ t.uniques \subseteq Uniques001 \cup Uniques921
        /\ t.audited \in BOOLEAN
    BY <1>1, ConstraintNames DEF Shaped, Tables001
  <1>3. t = [version |-> t.version, tables |-> t.tables, uniques |-> t.uniques,
             fkeys |-> t.fkeys, audited |-> t.audited]
    BY DEF Shaped
  <1>4. t \in [version : {"none", "001", Head921},
               tables : SUBSET Tables001,
               uniques : SUBSET (Uniques001 \cup Uniques921),
               fkeys : SUBSET ForeignKeys001, audited : BOOLEAN]
    BY <1>1, <1>2, <1>3 DEF Shaped
  <1>5. CASE new = {}
    BY <1>1, <1>4, <1>5, TablesApart DEF Shaped
  <1>6. CASE new = ServiceTables
    <2>1. ServiceTables # {} /\ ~(ServiceTables \subseteq s.tables)
      BY <1>6, TablesApart
    <2>2. s.version = "none"
      BY <2>1 DEF Shaped, Tables001
    <2> QED BY <1>1, <1>4, <1>6, <2>1, <2>2, TablesApart DEF Shaped
  <1> QED BY <1>5, <1>6

-----------------------------------------------------------------------------
(* Each part of the invariant is preserved                                 *)

LEMMA UpgradeEffect ==
    ASSUME Shaped(schema), Migrate
    PROVE  \E new : /\ ChangeSchema(new)
                    /\ Shaped(new)
                    /\ new.tables = ServiceTables
  <1>1. CASE schema.version = "none"
    <2>1. /\ Applies001(schema)
          /\ ChangeSchema(Upgrade921(Upgrade001(schema)))
      BY <1>1 DEF Migrate
    <2>2. Shaped(Upgrade001(schema)) /\ Upgrade001(schema).version = "001"
      BY <1>1, <2>1, Upgrade001Shaped
    <2>3. /\ Shaped(Upgrade921(Upgrade001(schema)))
          /\ Upgrade921(Upgrade001(schema)).tables = ServiceTables
      BY <2>2, Upgrade921Shaped
    <2> QED BY <2>1, <2>3
  <1>2. CASE schema.version = "001"
    <2>1. ChangeSchema(Upgrade921(schema))
      BY <1>2 DEF Migrate
    <2>2. Shaped(Upgrade921(schema)) /\ Upgrade921(schema).tables = ServiceTables
      BY <1>2, Upgrade921Shaped
    <2> QED BY <2>1, <2>2
  <1> QED BY <1>1, <1>2 DEF Migrate

LEMMA DowngradeEffect ==
    ASSUME Shaped(schema), Downgrade
    PROVE  \E new : /\ ChangeSchema(new)
                    /\ Shaped(new)
                    /\ new.tables = {}
  <1>1. schema.version = "001"
    BY HeadIsFinal DEF Downgrade, Reverts
  <1>2. ChangeSchema(Downgrade001(schema))
    BY <1>1 DEF Downgrade, Reverted
  <1> QED BY <1>1, <1>2, Downgrade001Shaped

\* Both drop the whole knowledge base.
LEMMA ChangeEffect ==
    ASSUME NEW new, ChangeSchema(new), new.tables \cap KnowledgeTables = {}
    PROVE  stored' = [row \in Rows |-> 0]
  BY RowsTabled DEF ChangeSchema

LEMMA CreateEffect ==
    ASSUME Shaped(schema), MissingWhole, NEW r \in Runs, CreateTables(r)
    PROVE  /\ Shaped(schema')
           /\ schema.tables \subseteq schema'.tables
  <1> DEFINE new == missing[r] \cap ServiceTables
  <1>1. new \in {{}, ServiceTables} /\ new \cap schema.tables = {}
    BY DEF MissingWhole, CreateTables
  <1>2. schema' = [schema EXCEPT
            !.tables = @ \cup new \cup KnowledgeTables,
            !.uniques = IF new = {} THEN @ ELSE @ \cup ModelUniques,
            !.audited = @ \/ new # {}]
    BY DEF CreateTables
  <1>3. schema \in [version : {"none", "001", Head921},
                    tables : SUBSET Tables001,
                    uniques : SUBSET (Uniques001 \cup Uniques921),
                    fkeys : SUBSET ForeignKeys001, audited : BOOLEAN]
    BY DEF Shaped
  <1> HIDE DEF new
  <1>4. Shaped(schema')
    BY <1>1, <1>2, CreateShaped
  <1>5. schema.tables \subseteq schema'.tables
    BY <1>2, <1>3
  <1> QED BY <1>4, <1>5

\* A step of a run or of the service that changes neither the tables nor the
\* rows, but for the one that creates tables.
LEMMA SchemaKept ==
    ASSUME [Next]_vars, ~Migrate, ~Downgrade,
           \A r \in Runs : ~CreateTables(r)
    PROVE  UNCHANGED schema
  BY DEF Next, vars, EnsureDatabase, Record, Start, RunStep, ConnectFails, Inspect,
         CreateCollides, StatementRefused, SkipRow, Upsert, SelectTemplate,
         InsertTemplate, DeadlockBroken, CommitFile, StatementFails, RunDies, dbVars

LEMMA NextShaped ==
    ASSUME Shaped(schema), MissingWhole, [Next]_vars
    PROVE  Shaped(schema)'
  <1>1. CASE Migrate
    BY <1>1, UpgradeEffect DEF ChangeSchema
  <1>2. CASE Downgrade
    BY <1>2, DowngradeEffect DEF ChangeSchema
  <1>3. CASE \E r \in Runs : CreateTables(r)
    BY <1>3, CreateEffect
  <1>4. CASE UNCHANGED schema
    BY <1>4
  <1> QED BY <1>1, <1>2, <1>3, <1>4, SchemaKept

LEMMA NextMissing ==
    ASSUME TypeOK, Shaped(schema), MissingWhole, [Next]_vars
    PROVE  MissingWhole'
  <1> USE DEF TypeOK
  <1>1. CASE UNCHANGED missing
    BY <1>1 DEF MissingWhole
  <1>2. ASSUME NEW r \in Runs, Inspect(r)
        PROVE  MissingWhole'
    <2>1. ServiceTables \cap schema.tables \in {{}, ServiceTables}
      BY DEF Shaped, Tables001
    <2>2. ((ServiceTables \cup KnowledgeTables) \ schema.tables) \cap ServiceTables
              \in {{}, ServiceTables}
      BY <2>1
    <2> QED BY <1>2, <2>2 DEF Inspect, MissingWhole
  <1>3. ASSUME NEW r \in Runs, missing' = [missing EXCEPT ![r] = {}]
        PROVE  MissingWhole'
    BY <1>3 DEF MissingWhole
  <1>4. ASSUME NEW r \in Runs,
               \/ ConnectFails(r) \/ CreateTables(r) \/ CreateCollides(r)
               \/ RunDies(r)
        PROVE  MissingWhole'
    BY <1>3, <1>4 DEF ConnectFails, CreateTables, CreateCollides, RunDies, End
  <1>5. ASSUME NEW r \in Runs, CommitFile(r)
        PROVE  MissingWhole'
    BY <1>1, <1>3, <1>5 DEF CommitFile, NextFile, End
  <1>6. ASSUME NEW r \in Runs,
               \/ Start(r) \/ StatementRefused(r) \/ SkipRow(r) \/ Upsert(r)
               \/ SelectTemplate(r) \/ InsertTemplate(r) \/ DeadlockBroken(r)
               \/ StatementFails(r)
        PROVE  MissingWhole'
    BY <1>1, <1>6 DEF Start, StatementRefused, SkipRow, Upsert, SelectTemplate,
                      InsertTemplate, DeadlockBroken, StatementFails
  <1>7. CASE EnsureDatabase \/ Migrate \/ Downgrade \/ Record \/ UNCHANGED vars
    BY <1>1, <1>7 DEF EnsureDatabase, Migrate, Downgrade, Record, ChangeSchema,
                      vars, runVars
  <1> QED BY <1>2, <1>4, <1>5, <1>6, <1>7 DEF Next, RunStep

-----------------------------------------------------------------------------
(* Rows of the service and of the knowledge base                           *)

LEMMA RowsEffect ==
    ASSUME TypeOK, Shaped(schema), MissingWhole, [Next]_vars
    PROVE  /\ rows' \subseteq (ServiceTables \cup TenancyTables) \cap schema'.tables
           /\ rows \cap ServiceTables \subseteq rows' \/ Downgrade
           /\ rows \subseteq rows' \/ Downgrade \/ Migrate
  <1>1. rows \subseteq (ServiceTables \cup TenancyTables) \cap schema.tables
    BY DEF TypeOK
  <1>2. CASE Migrate
    <2>1. PICK new : ChangeSchema(new) /\ new.tables = ServiceTables
      BY <1>2, UpgradeEffect
    <2> QED BY <1>1, <1>2, <2>1 DEF ChangeSchema
  <1>3. CASE Downgrade
    <2>1. PICK new : ChangeSchema(new) /\ new.tables = {}
      BY <1>3, DowngradeEffect
    <2> QED BY <1>1, <1>3, <2>1 DEF ChangeSchema
  <1>4. CASE Record
    <2>1. /\ ServiceTables \subseteq schema.tables
          /\ UNCHANGED schema
      BY <1>4 DEF Record
    <2>2. PICK written \in {{"assets"}, ServiceTables \ {"finding_history"}},
               known \in IF schema.fkeys = {} THEN {{}} ELSE {{"tenants"}, TenancyTables} :
              rows' = rows \cup written \cup known
      BY <1>4 DEF Record
    <2>3. written \subseteq ServiceTables
      BY <2>2 DEF ServiceTables
    <2>4. known \subseteq TenancyTables \cap schema.tables
      <3>1. CASE schema.fkeys = {}
        BY <2>2, <3>1
      <3>2. CASE schema.fkeys # {}
        <4>1. TenancyTables \subseteq schema.tables
          BY <3>2 DEF Shaped, Tables001
        <4> QED BY <2>2, <3>2, <4>1, TablesApart
      <3> QED BY <3>1, <3>2
    <2> QED BY <1>1, <2>1, <2>2, <2>3, <2>4
  <1>5. ASSUME NEW r \in Runs, CreateTables(r)
        PROVE  /\ rows' \subseteq (ServiceTables \cup TenancyTables) \cap schema'.tables
               /\ rows \subseteq rows'
    BY <1>1, <1>5, CreateEffect DEF CreateTables
  <1>6. CASE UNCHANGED <<schema, rows>>
    BY <1>1, <1>6
  <1>7. \/ Migrate \/ Downgrade \/ Record \/ UNCHANGED <<schema, rows>>
        \/ \E r \in Runs : CreateTables(r)
    BY DEF Next, vars, EnsureDatabase, Start, RunStep, ConnectFails, Inspect,
           CreateCollides, StatementRefused, SkipRow, Upsert, SelectTemplate,
           InsertTemplate, DeadlockBroken, CommitFile, StatementFails, RunDies, dbVars
  <1> QED BY <1>2, <1>3, <1>4, <1>5, <1>6, <1>7

\* Everything of the knowledge base goes at once, or a run commits a file.
LEMMA StoredEffect ==
    ASSUME Shaped(schema), [Next]_vars
    PROVE  \/ UNCHANGED stored
           \/ /\ Migrate \/ Downgrade
              /\ stored' = [row \in Rows |-> 0]
              /\ TablesFree /\ UNCHANGED runVars
           \/ \E r \in Runs : /\ AtCommit(r) /\ stored' = Published(r)
                              /\ Ends(r) \/ Turns(r)
                              /\ RunAct(r)
  <1>1. CASE Migrate
    <2>1. PICK new : ChangeSchema(new) /\ new.tables = ServiceTables
      BY <1>1, UpgradeEffect
    <2>2. new.tables \cap KnowledgeTables = {}
      BY <2>1, TablesApart
    <2> QED BY <1>1, <2>1, <2>2, ChangeEffect DEF ChangeSchema
  <1>2. CASE Downgrade
    <2>1. PICK new : ChangeSchema(new) /\ new.tables = {}
      BY <1>2, DowngradeEffect
    <2> QED BY <1>2, <2>1, ChangeEffect DEF ChangeSchema
  <1>3. ASSUME NEW r \in Runs, RunDies(r)
        PROVE  UNCHANGED stored \/ (AtCommit(r) /\ stored' = Published(r) /\ Ends(r))
    BY <1>3 DEF RunDies, Ends, Active
  <1>4. ASSUME NEW r \in Runs, CommitFile(r)
        PROVE  AtCommit(r) /\ stored' = Published(r) /\ (Ends(r) \/ Turns(r))
    BY <1>4, FilesAre DEF CommitFile, NextFile, AtCommit, Ends, Active, Turns
  <1>5. \/ Migrate \/ Downgrade \/ UNCHANGED stored
        \/ \E r \in Runs : RunDies(r) \/ CommitFile(r)
    BY DEF Next, vars, EnsureDatabase, Record, Start, RunStep, ConnectFails, Inspect,
           CreateTables, CreateCollides, StatementRefused, SkipRow, Upsert,
           SelectTemplate, InsertTemplate, DeadlockBroken, StatementFails, dbVars
  <1> QED BY <1>1, <1>2, <1>3, <1>4, <1>5 DEF RunAct, RunStep

LEMMA NextDatabaseTypes ==
    ASSUME TypeOK, Shaped(schema), MissingWhole, [Next]_vars
    PROVE  DatabaseTypes'
  <1>1. database' \in BOOLEAN
    BY DEF TypeOK, Next, vars, EnsureDatabase, Migrate, Downgrade, ChangeSchema, Record,
           Start, RunStep, ConnectFails, Inspect, CreateTables, CreateCollides,
           StatementRefused, SkipRow, Upsert, SelectTemplate, InsertTemplate,
           DeadlockBroken, CommitFile, StatementFails, RunDies, dbVars
  <1>2. stored' \in [Rows -> Editions \cup {0}]
    <2>1. ASSUME NEW r \in Runs
          PROVE  Published(r) \in [Rows -> Editions \cup {0}]
      BY DEF Published, TypeOK
    <2> QED BY <2>1, StoredEffect DEF TypeOK
  <1>3. faults' \in 0..MaxFaults
    <2>1. UNCHANGED faults \/ Fault
      BY DEF Next, vars, EnsureDatabase, Migrate, Downgrade, ChangeSchema, Record,
             Start, RunStep, ConnectFails, Inspect, CreateTables, CreateCollides,
             StatementRefused, SkipRow, Upsert, SelectTemplate, InsertTemplate,
             DeadlockBroken, CommitFile, StatementFails, RunDies, dbVars
    <2> QED BY <2>1, DeploymentAssumption DEF TypeOK, Fault
  <1>4. Shaped(schema')
    BY NextShaped
  <1> QED BY <1>1, <1>2, <1>3, <1>4, RowsEffect DEF DatabaseTypes, Shaped

-----------------------------------------------------------------------------
(* Open transactions                                                       *)

\* A run that has not begun its file has written nothing of it.
LEMMA NothingWritten ==
    ASSUME NEW r \in Runs, step[r] = 1
    PROVE  Written(r) = {}
  <1>1. 1..(step[r] - 1) = {}
    OBVIOUS
  <1> QED BY <1>1 DEF Written

LEMMA WrittenRows ==
    ASSUME RunTypes, NEW r \in Runs, LoadOK(r)
    PROVE  /\ Written(r) # {} => edition[r] \in Editions
           /\ edition[r] \in Editions => Written(r) \subseteq Sound(edition[r], file[r])
           /\ Written(r) \subseteq Rows
  <1>1. Written(r) # {} => edition[r] \in Editions
    <2>1. SUFFICES ASSUME edition[r] = 0 PROVE Written(r) = {}
      BY DEF RunTypes
    <2>2. step[r] = 1
      BY <2>1 DEF RunTypes, Length
    <2> QED BY <2>2, NothingWritten
  <1>2. ASSUME edition[r] \in Editions
        PROVE  Written(r) \subseteq Sound(edition[r], file[r])
    <2>1. edition[r] # 0
      BY <1>2, DeploymentAssumption
    <2>2. Length(r) = Len(Lines[edition[r]][file[r]]) /\ file[r] \in Files
      BY <2>1 DEF Length, RunTypes
    <2>3. \A i \in 1..(step[r] - 1) : i \in 1..Len(Lines[edition[r]][file[r]])
      BY <1>2, <2>2, LinesAre DEF RunTypes
    <2> QED BY <1>2, <2>2, <2>3, LinesAre DEF Written, Sound
  <1>3. edition[r] \in Editions => Sound(edition[r], file[r]) \subseteq Rows
    BY LinesAre DEF Sound, RunTypes
  <1> QED BY <1>1, <1>2, <1>3

\* At the commit it has been at all of them.
LEMMA WrittenAtCommit ==
    ASSUME RunTypes, NEW r \in Runs, LoadOK(r), AtCommit(r)
    PROVE  edition[r] \in Editions /\ Written(r) = Sound(edition[r], file[r])
  <1>1. edition[r] \in Editions /\ edition[r] # 0 /\ file[r] \in Files
    BY DEF LoadOK, AtCommit, RunTypes
  <1>2. Length(r) = Len(Lines[edition[r]][file[r]]) /\ Length(r) \in Nat
    BY <1>1, LinesAre DEF Length
  <1>3. step[r] - 1 = Length(r)
    BY <1>2 DEF RunTypes, AtCommit
  <1>4. 1..(step[r] - 1) = 1..Len(Lines[edition[r]][file[r]])
    BY <1>2, <1>3
  <1>5. {Lines[edition[r]][file[r]][i] : i \in 1..(step[r] - 1)} = RowsOf(edition[r], file[r])
    BY <1>4, Zenon DEF RowsOf
  <1> QED BY <1>1, <1>5 DEF Written, Sound

\* What another row adds.
LEMMA WrittenNext ==
    ASSUME RunTypes, NEW r \in Runs, Loading(r),
           edition'[r] = edition[r], file'[r] = file[r], step'[r] = step[r] + 1
    PROVE  Written(r)' = Written(r) \cup ({Current(r)} \ Malformed[edition[r]])
  <1>1. 1..(step'[r] - 1) = 1..(step[r] - 1) \cup {step[r]}
    BY DEF RunTypes
  <1> QED BY <1>1 DEF Written, Current

LEMMA WrittenSame ==
    ASSUME NEW r, edition'[r] = edition[r], file'[r] = file[r], step'[r] = step[r]
    PROVE  Written(r)' = Written(r)
  BY DEF Written

LEMMA OthersLoad ==
    ASSUME RunTypes, \A o \in Runs : LoadOK(o), NEW r \in Runs, RunAct(r), LoadOK(r)'
    PROVE  \A o \in Runs : LoadOK(o)'
  <1> SUFFICES ASSUME NEW o \in Runs, o # r
               PROVE  LoadOK(o)'
    OBVIOUS
  <1>1. /\ pc'[o] = pc[o] /\ edition'[o] = edition[o]
        /\ file'[o] = file[o] /\ step'[o] = step[o] /\ pending'[o] = pending[o]
        /\ holding'[o] = holding[o] /\ aborted'[o] = aborted[o]
        /\ absent'[o] = absent[o]
    BY Frame
  <1>2. Written(o)' = Written(o)
    BY <1>1, WrittenSame
  <1>3. LoadOK(o)
    OBVIOUS
  <1> HIDE DEF Written
  <1> QED BY <1>1, <1>2, <1>3 DEF LoadOK

\* An insertion, a row that is skipped or found, one that is missed.
LEMMA InsertEffect ==
    ASSUME RunTypes, NEW r \in Runs, LoadOK(r), Inserts(r)
    PROVE  /\ pc[r] = "load" /\ ~aborted[r] /\ Current(r) \notin Malformed[edition[r]]
           /\ UNCHANGED <<pc, edition, file, aborted>>
           /\ step'[r] = step[r] + 1
           /\ pending'[r] = pending[r] \cup {Current(r)}
           /\ \A o \in Runs \ {r} : pending'[o] = pending[o]
           /\ holding'[r] /\ ~absent'[r]
           /\ Written(r)' = Written(r) \cup {Current(r)}
  <1>1. /\ Loading(r) /\ ~Refused(r) /\ Current(r) \notin Malformed[edition[r]]
        /\ UNCHANGED <<pc, edition, file, aborted>>
        /\ step'[r] = step[r] + 1
    BY DEF Inserts, CanInsert, Advance, RunTypes
  <1>2. Written(r)' = Written(r) \cup {Current(r)}
    BY <1>1, WrittenNext
  <1> HIDE DEF Current
  <1> QED BY <1>1, <1>2 DEF Inserts, RunTypes, Loading, Refused

LEMMA PassEffect ==
    ASSUME RunTypes, NEW r \in Runs, LoadOK(r), Passes(r)
    PROVE  /\ pc[r] = "load"
           /\ UNCHANGED <<pc, edition, file, pending, aborted, stored>>
           /\ step'[r] = step[r] + 1
           /\ ~absent'[r]
           /\ holding'[r] = holding[r] \/ (~aborted[r] /\ holding'[r])
           /\ Written(r)' = Written(r) \cup ({Current(r)} \ Malformed[edition[r]])
           /\ Current(r) \notin Malformed[edition[r]] =>
                 /\ holding'[r] /\ file[r] = Templates
                 /\ stored[Current(r)] # 0 \/ Current(r) \in pending[r]
  <1>1. /\ Loading(r) /\ pc[r] = "load"
        /\ UNCHANGED <<pc, edition, file, pending, aborted, stored>>
        /\ step'[r] = step[r] + 1
        /\ ~absent'[r]
    BY DEF Passes, Loading, Advance, dbVars, RunTypes
  <1>2. Written(r)' = Written(r) \cup ({Current(r)} \ Malformed[edition[r]])
    BY <1>1, WrittenNext
  <1>3. holding'[r] = holding[r] \/ (~aborted[r] /\ holding'[r])
    BY DEF Passes, Touch, Refused, RunTypes
  <1>4. Current(r) \notin Malformed[edition[r]] =>
           /\ holding'[r] /\ file[r] = Templates
           /\ stored[Current(r)] # 0 \/ Current(r) \in pending[r]
    BY DEF Passes
  <1> HIDE DEF Current, Written
  <1> QED BY <1>1, <1>2, <1>3, <1>4

LEMMA NextLoad ==
    ASSUME RunTypes, \A o \in Runs : LoadOK(o), [Next]_vars
    PROVE  \A o \in Runs : LoadOK(o)'
  <1>1. CASE UNCHANGED runVars
    <2>1. \A o \in Runs : Written(o)' = Written(o)
      BY <1>1, WrittenSame DEF runVars
    <2> HIDE DEF Written
    <2> QED BY <1>1, <2>1 DEF runVars, LoadOK
  <1>2. ASSUME NEW r \in Runs, RunAct(r)
        PROVE  LoadOK(r)'
    <2> LoadOK(r)
      OBVIOUS
    <2>1. CASE Start(r) \/ Inspect(r) \/ CreateTables(r)
      <3>1. /\ pc[r] # "load"
            /\ UNCHANGED <<file, step, pending, holding, aborted, absent>>
        BY <2>1 DEF Start, Inspect, CreateTables
      <3>2. /\ file[r] = 1 /\ step[r] = 1 /\ pending[r] = {}
            /\ ~aborted[r] /\ ~absent[r] /\ ~holding[r]
        BY <3>1 DEF LoadOK
      <3>3. Written(r)' = {}
        BY <3>1, <3>2, NothingWritten DEF Written
      <3>4. edition'[r] # 0
        <4>1. CASE Start(r)
          <5>1. PICK e \in Editions : edition' = [edition EXCEPT ![r] = e]
            BY <4>1 DEF Start
          <5> QED BY <5>1, DeploymentAssumption DEF RunTypes
        <4>2. CASE Inspect(r) \/ CreateTables(r)
          BY <4>2 DEF Inspect, CreateTables, LoadOK
        <4> QED BY <2>1, <4>1, <4>2
      <3> HIDE DEF Written
      <3> QED BY <3>1, <3>2, <3>3, <3>4 DEF LoadOK
    <2>2. CASE Ends(r)
      <3>1. /\ file'[r] = 1 /\ step'[r] = 1 /\ pending'[r] = {} /\ ~holding'[r]
            /\ ~aborted'[r] /\ ~absent'[r] /\ pc'[r] \in {"done", "failed"}
        BY <2>2 DEF Ends, End, Goto, RunTypes
      <3>2. Written(r)' = {}
        BY <3>1 DEF Written
      <3> HIDE DEF Written
      <3> QED BY <3>1, <3>2 DEF LoadOK
    <2>3. CASE Aborts(r)
      <3>1. /\ pc'[r] = "load" /\ pending'[r] = {} /\ aborted'[r] /\ ~holding'[r]
            /\ ~absent'[r] /\ edition'[r] = edition[r] /\ pc[r] = "load"
        BY <2>3 DEF Aborts, Abort, RunTypes, Loading
      <3> HIDE DEF Written
      <3> QED BY <3>1 DEF LoadOK
    <2>4. CASE Inserts(r)
      <3> HIDE DEF Written, Current
      <3> QED BY <2>4, InsertEffect DEF LoadOK
    <2>5. CASE Passes(r)
      <3> HIDE DEF Written, Current
      <3> QED BY <2>5, PassEffect DEF LoadOK
    <2>6. CASE Misses(r)
      <3>1. /\ pc[r] = "load" /\ file[r] = Templates /\ ~aborted[r] /\ holding'[r]
            /\ UNCHANGED <<pc, edition, file, step, pending, aborted>>
        BY <2>6 DEF Misses, Loading, Refused, Touch, RunTypes
      <3>2. Written(r)' = Written(r)
        BY <3>1, WrittenSame
      <3> HIDE DEF Written
      <3> QED BY <3>1, <3>2 DEF LoadOK
    <2>7. CASE Turns(r)
      <3>1. /\ pc[r] = "load" /\ step'[r] = 1 /\ pending'[r] = {} /\ ~holding'[r]
            /\ ~aborted'[r] /\ UNCHANGED <<pc, edition, absent>>
        BY <2>7, FilesAre DEF Turns, NextFile, AtCommit, RunTypes
      <3>2. ~absent[r]
        BY <2>7 DEF Turns, LoadOK, Templates
      <3>3. Written(r)' = {}
        BY <3>1 DEF Written
      <3> HIDE DEF Written
      <3> QED BY <3>1, <3>2, <3>3 DEF LoadOK
    <2> QED BY <1>2, <2>1, <2>2, <2>3, <2>4, <2>5, <2>6, <2>7, KindsOfSteps
  <1> QED BY <1>1, <1>2, WhoMoves, OthersLoad

\* What a step may do to what a transaction has written.
LEMMA PendingEffect ==
    ASSUME RunTypes, \A o \in Runs : LoadOK(o), [Next]_vars, NEW r \in Runs
    PROVE  \/ pending'[r] = {}
           \/ pending'[r] = pending[r] /\ file'[r] = file[r]
           \/ Inserts(r) /\ RunAct(r)
  <1>1. CASE UNCHANGED runVars
    BY <1>1 DEF runVars
  <1>2. CASE RunAct(r)
    <2>1. LoadOK(r)
      OBVIOUS
    <2>2. CASE Start(r) \/ Inspect(r) \/ CreateTables(r)
      BY <2>2 DEF Start, Inspect, CreateTables
    <2>3. CASE Ends(r) \/ Aborts(r) \/ Turns(r)
      BY <2>3, FilesAre DEF Ends, End, Aborts, Abort, Turns, NextFile, RunTypes
    <2>4. CASE Passes(r) \/ Misses(r)
      BY <2>4 DEF Passes, Misses
    <2> QED BY <1>2, <2>2, <2>3, <2>4, KindsOfSteps
  <1>3. ASSUME NEW o \in Runs, o # r, RunAct(o)
        PROVE  pending'[r] = pending[r] /\ file'[r] = file[r]
    BY <1>3, Frame
  <1> QED BY <1>1, <1>2, <1>3, WhoMoves

\* Steps that insert a row store nothing.
LEMMA InsertStores ==
    ASSUME Shaped(schema), \A o \in Runs : LoadOK(o), [Next]_vars, RunTypes,
           NEW r \in Runs, Inserts(r)
    PROVE  UNCHANGED stored
  <1>1. /\ pc[r] = "load" /\ step[r] <= Length(r) /\ step'[r] = step[r] + 1
        /\ step[r] \in Nat /\ edition[r] \in Editions /\ pc'[r] = pc[r] /\ file'[r] = file[r]
    BY CurrentRow DEF Inserts, CanInsert, Loading, Advance, RunTypes
  <1>2. runVars' # runVars
    BY <1>1 DEF runVars
  <1>3. ASSUME NEW o \in Runs, AtCommit(o), Ends(o) \/ Turns(o), RunAct(o)
        PROVE  FALSE
    <2>1. CASE o = r
      <3>1. Length(r) \in Nat
        BY CurrentRow, LinesAre DEF Inserts, CanInsert
      <3> QED BY <1>1, <1>3, <2>1, <3>1 DEF AtCommit
    <2>2. CASE o # r
      <3>1. step'[r] = step[r]
        BY <1>3, <2>2, Frame
      <3> QED BY <1>1, <3>1
    <2> QED BY <2>1, <2>2
  <1> QED BY <1>2, <1>3, StoredEffect

LEMMA NextOneWriter ==
    ASSUME TypeOK, RunTypes, Shaped(schema), \A o \in Runs : LoadOK(o), OneWriter,
           [Next]_vars
    PROVE  OneWriter'
  <1>1. ASSUME NEW r \in Runs, Inserts(r), NEW o \in Runs, o # r
        PROVE  Current(r) \notin pending[o]
    <2>1. CanInsert(r) /\ (file[r] = Templates => absent[r])
      BY <1>1 DEF Inserts
    <2>2. ~WaitsFor(r, o)
      BY <2>1 DEF CanInsert
    <2> QED BY <1>1, <2>1, <2>2 DEF CanInsert, WaitsFor
  <1>2. ASSUME NEW r \in Runs, NEW o \in Runs, r # o
        PROVE  pending'[r] \cap pending'[o] = {}
    <2>1. pending[r] \cap pending[o] = {}
      BY <1>2 DEF OneWriter
    <2>2. CASE Inserts(r) /\ RunAct(r)
      <3>1. pending'[r] = pending[r] \cup {Current(r)} /\ pending'[o] = pending[o]
        BY <1>2, <2>2, InsertEffect
      <3> QED BY <1>1, <1>2, <2>1, <2>2, <3>1
    <2>3. CASE Inserts(o) /\ RunAct(o)
      <3>1. pending'[o] = pending[o] \cup {Current(o)} /\ pending'[r] = pending[r]
        BY <1>2, <2>3, InsertEffect
      <3> QED BY <1>1, <1>2, <2>1, <2>3, <3>1
    <2>4. CASE pending'[r] \subseteq pending[r] /\ pending'[o] \subseteq pending[o]
      BY <2>1, <2>4
    <2> QED BY <2>2, <2>3, <2>4, PendingEffect
  <1>3. ASSUME NEW r \in Runs, file'[r] = Templates, NEW row \in pending'[r]
        PROVE  stored'[row] = 0
    <2>1. CASE Inserts(r) /\ RunAct(r)
      <3>1. /\ pending'[r] = pending[r] \cup {Current(r)}
            /\ file'[r] = file[r] /\ stored' = stored
        BY <2>1, InsertEffect, InsertStores
      <3>2. stored[Current(r)] = 0
        BY <1>3, <2>1, <3>1 DEF Inserts
      <3> HIDE DEF Current
      <3> QED BY <1>3, <3>1, <3>2 DEF OneWriter
    <2>2. CASE pending'[r] = pending[r] /\ file'[r] = file[r]
      <3>1. stored[row] = 0 /\ row \in pending[r] /\ row \in Rows
        BY <1>3, <2>2 DEF OneWriter, RunTypes
      <3>2. ASSUME NEW o \in Runs, AtCommit(o), stored' = Published(o),
                   Ends(o) \/ Turns(o), RunAct(o)
            PROVE  stored'[row] = 0
        <4>1. CASE o = r
          <5>1. pending'[o] = {}
            BY <3>2, FilesAre DEF Ends, End, Turns, NextFile, RunTypes
          <5> QED BY <2>2, <3>1, <4>1, <5>1
        <4>2. CASE o # r
          <5>1. row \notin pending[o]
            BY <3>1, <4>2 DEF OneWriter
          <5> QED BY <3>1, <3>2, <5>1 DEF Published
        <4> QED BY <4>1, <4>2
      <3> QED BY <3>1, <3>2, StoredEffect
    <2> QED BY <1>3, <2>1, <2>2, PendingEffect
  <1> QED BY <1>2, <1>3 DEF OneWriter

\* A stored row stays stored, unless all go while no run holds a table.
LEMMA StoredStays ==
    ASSUME TypeOK, RunTypes, Shaped(schema), \A o \in Runs : LoadOK(o), [Next]_vars,
           NEW row \in Rows, stored[row] # 0
    PROVE  \/ stored'[row] # 0
           \/ (Migrate \/ Downgrade) /\ TablesFree /\ UNCHANGED runVars
  <1>1. ASSUME NEW r \in Runs, AtCommit(r), stored' = Published(r)
        PROVE  stored'[row] # 0
    <2>1. edition[r] # 0
      BY <1>1 DEF AtCommit, LoadOK
    <2> QED BY <1>1, <2>1 DEF Published
  <1> QED BY <1>1, StoredEffect

LEMMA NextTemplatesKept ==
    ASSUME TypeOK, RunTypes, Shaped(schema), \A o \in Runs : LoadOK(o), TemplatesKept,
           [Next]_vars, \A o \in Runs : LoadOK(o)'
    PROVE  TemplatesKept'
  <1> SUFFICES ASSUME NEW r \in Runs, file'[r] = Templates, ~aborted'[r],
                      NEW row \in Written(r)', row \notin pending'[r]
               PROVE  stored'[row] # 0
    BY DEF TemplatesKept
  <1> HIDE DEF Written, Current
  <1>1. CASE /\ file[r] = Templates /\ ~aborted[r]
             /\ Written(r)' = Written(r) /\ pending'[r] = pending[r]
             /\ holding'[r] = holding[r]
    <2>1. stored[row] # 0 /\ row \in Rows
      BY <1>1, WrittenRows DEF TemplatesKept
    <2>2. holding[r]
      BY <1>1 DEF LoadOK
    <2> QED BY <2>1, <2>2, StoredStays DEF TablesFree
  <1>2. CASE Written(r)' = {}
    BY <1>2
  <1>3. CASE UNCHANGED runVars
    <2>1. Written(r)' = Written(r)
      BY <1>3, WrittenSame DEF runVars
    <2> QED BY <1>1, <1>3, <2>1 DEF runVars
  <1>4. ASSUME NEW o \in Runs, o # r, RunAct(o)
        PROVE  stored'[row] # 0
    <2>1. /\ edition'[r] = edition[r] /\ file'[r] = file[r] /\ step'[r] = step[r]
          /\ pending'[r] = pending[r] /\ holding'[r] = holding[r]
          /\ aborted'[r] = aborted[r]
      BY <1>4, Frame
    <2>2. Written(r)' = Written(r)
      BY <2>1, WrittenSame
    <2> QED BY <1>1, <2>1, <2>2
  <1>5. CASE RunAct(r)
    <2> LoadOK(r)
      OBVIOUS
    <2>1. CASE Start(r) \/ Inspect(r) \/ CreateTables(r)
      <3>1. file'[r] = 1
        BY <2>1 DEF Start, Inspect, CreateTables, LoadOK
      <3> QED BY <3>1 DEF Templates
    <2>2. CASE Ends(r)
      BY <2>2 DEF Ends, End, RunTypes, Templates
    <2>3. CASE Aborts(r)
      BY <2>3 DEF Aborts, Abort, RunTypes
    <2>4. CASE Inserts(r)
      <3>1. /\ UNCHANGED <<file, aborted, stored>>
            /\ pending'[r] = pending[r] \cup {Current(r)}
            /\ Written(r)' = Written(r) \cup {Current(r)}
        BY <2>4, InsertEffect, InsertStores
      <3> QED BY <3>1 DEF TemplatesKept
    <2>5. CASE Passes(r)
      <3>1. /\ UNCHANGED <<file, pending, aborted, stored>>
            /\ Written(r)' = Written(r) \cup ({Current(r)} \ Malformed[edition[r]])
            /\ Current(r) \notin Malformed[edition[r]] =>
                  stored[Current(r)] # 0 \/ Current(r) \in pending[r]
        BY <2>5, PassEffect
      <3> QED BY <3>1 DEF TemplatesKept
    <2>6. CASE Misses(r)
      <3>1. UNCHANGED <<edition, file, step, pending, aborted, stored>>
        BY <2>6 DEF Misses, dbVars
      <3>2. Written(r)' = Written(r)
        BY <3>1, WrittenSame
      <3> QED BY <3>1, <3>2 DEF TemplatesKept
    <2>7. CASE Turns(r)
      <3>1. step'[r] = 1
        BY <2>7, FilesAre DEF Turns, NextFile, RunTypes
      <3>2. Written(r)' = {}
        BY <3>1 DEF Written
      <3> QED BY <3>2
    <2> QED BY <1>5, <2>1, <2>2, <2>3, <2>4, <2>5, <2>6, <2>7, KindsOfSteps
  <1> QED BY <1>3, <1>4, <1>5, WhoMoves

\* The rows of another file are not among what a run publishes.
LEMMA OtherFilesKept ==
    ASSUME RunTypes, NEW r \in Runs, LoadOK(r), edition[r] \in Editions,
           NEW f \in Files, f # file[r], NEW row \in Rows, row[1] \in TablesOf[f]
    PROVE  row \notin pending[r]
  <1>1. SUFFICES ASSUME row \in pending[r] PROVE FALSE
    OBVIOUS
  <1>2. row \in RowsOf(edition[r], file[r]) /\ file[r] \in Files
    <2>1. row \in Sound(edition[r], file[r])
      BY <1>1, WrittenRows DEF LoadOK
    <2> QED BY <2>1 DEF Sound, RunTypes
  <1>3. row[1] \in TablesOf[file[r]]
    BY <1>2, LinesAre
  <1> QED BY <1>2, <1>3, FilesApart

LEMMA NextFilesWhole ==
    ASSUME TypeOK, RunTypes, Shaped(schema), \A r \in Runs : LoadOK(r), TemplatesKept,
           FilesWhole, [Next]_vars
    PROVE  FilesWhole'
  <1>1. CASE UNCHANGED stored
    BY <1>1 DEF FilesWhole
  <1>2. CASE stored' = [row \in Rows |-> 0]
    BY <1>2 DEF FilesWhole
  <1>3. ASSUME NEW r \in Runs, AtCommit(r), stored' = Published(r)
        PROVE  FilesWhole'
    <2>1. /\ LoadOK(r) /\ file[r] \in Files
          /\ edition[r] \in Editions /\ edition[r] # 0
          /\ Written(r) = Sound(edition[r], file[r])
      BY <1>3, WrittenAtCommit, DeploymentAssumption DEF RunTypes
    <2>2. \A row \in Rows : stored'[row] = IF row \in pending[r] THEN edition[r] ELSE stored[row]
      BY <1>3 DEF Published
    <2> SUFFICES ASSUME NEW f \in Files
                 PROVE  \/ \A row \in Rows : row[1] \in TablesOf[f] => stored'[row] = 0
                        \/ \E e \in Editions : \A row \in Sound(e, f) :
                               IF f = Templates THEN stored'[row] # 0 ELSE stored'[row] = e
      BY DEF FilesWhole
    <2>3. CASE f # file[r]
      <3>1. \A row \in Rows : row[1] \in TablesOf[f] => stored'[row] = stored[row]
        BY <2>1, <2>2, <2>3, OtherFilesKept
      <3>2. \A e \in Editions : \A row \in Sound(e, f) : row \in Rows /\ row[1] \in TablesOf[f]
        BY LinesAre DEF Sound
      <3> HIDE DEF Sound
      <3> QED BY <3>1, <3>2 DEF FilesWhole
    <2>4. CASE f = file[r] /\ aborted[r]
      <3>1. pending[r] = {}
        BY <2>1, <2>4 DEF LoadOK
      <3>2. \A row \in Rows : stored'[row] = stored[row]
        BY <2>2, <3>1
      <3>3. \A e \in Editions : Sound(e, f) \subseteq Rows
        BY LinesAre DEF Sound
      <3> HIDE DEF Sound
      <3> QED BY <3>2, <3>3 DEF FilesWhole
    <2>5. CASE f = file[r] /\ ~aborted[r]
      <3>1. ASSUME NEW row \in Sound(edition[r], f)
            PROVE  IF f = Templates THEN stored'[row] # 0 ELSE stored'[row] = edition[r]
        <4>1. row \in Written(r) /\ row \in Rows
          BY <2>1, <2>5, <3>1, WrittenRows
        <4>2. CASE row \in pending[r]
          BY <2>1, <2>2, <4>1, <4>2
        <4>3. CASE row \notin pending[r]
          <5>1. file[r] = Templates
            BY <2>1, <2>5, <4>1, <4>3 DEF LoadOK
          <5>2. stored[row] # 0
            BY <2>5, <4>1, <4>3, <5>1 DEF TemplatesKept
          <5> QED BY <2>2, <2>5, <4>1, <4>3, <5>1, <5>2
        <4> QED BY <4>2, <4>3
      <3> QED BY <2>1, <3>1
    <2> QED BY <2>3, <2>4, <2>5
  <1> QED BY <1>1, <1>2, <1>3, StoredEffect

-----------------------------------------------------------------------------
(* The theorems                                                            *)

LEMMA InitInd == Init => Ind
  <1> SUFFICES ASSUME Init PROVE Ind
    OBVIOUS
  <1>1. Shaped(schema)
    <2>1. EmptySchema.version = "none" /\ Applies001(EmptySchema)
      BY DEF EmptySchema, Applies001
    <2> QED BY <2>1, EmptyShaped, Upgrade001Shaped DEF Init
  <1>2. RunTypes
    BY FilesAre DEF Init, RunTypes, Phases, Length
  <1>3. DatabaseTypes
    <2>1. database \in BOOLEAN /\ rows = {} /\ stored \in [Rows -> Editions \cup {0}]
      BY DEF Init
    <2>2. faults \in 0..MaxFaults
      BY DeploymentAssumption DEF Init
    <2> QED BY <1>1, <2>1, <2>2 DEF DatabaseTypes, Shaped
  <1>4. MissingWhole
    BY DEF Init, MissingWhole
  <1>5. \A r \in Runs : Written(r) = {} /\ LoadOK(r)
    <2> SUFFICES ASSUME NEW r \in Runs PROVE Written(r) = {} /\ LoadOK(r)
      OBVIOUS
    <2>1. step[r] = 1
      BY DEF Init
    <2>2. Written(r) = {}
      BY <2>1, NothingWritten
    <2> HIDE DEF Written
    <2> QED BY <2>2 DEF Init, LoadOK
  <1>6. TemplatesKept /\ OneWriter
    BY <1>5 DEF Init, TemplatesKept, OneWriter
  <1>7. FilesWhole
    BY DEF Init, FilesWhole
  <1> QED BY <1>1, <1>2, <1>3, <1>4, <1>5, <1>6, <1>7, Halves DEF Ind

LEMMA NextInd == Ind /\ [Next]_vars => Ind'
  <1> SUFFICES ASSUME Ind, [Next]_vars PROVE Ind'
    OBVIOUS
  <1> USE DEF Ind
  <1>1. RunTypes
    BY Halves
  <1>2. DatabaseTypes' /\ RunTypes'
    BY <1>1, NextDatabaseTypes, NextRunTypes
  <1>3. TypeOK'
    BY <1>2 DEF TypeOK, DatabaseTypes, RunTypes
  <1>4. Shaped(schema)' /\ MissingWhole'
    BY NextShaped, NextMissing
  <1>5. (\A r \in Runs : LoadOK(r))'
    BY <1>1, NextLoad
  <1>6. TemplatesKept' /\ OneWriter'
    BY <1>1, <1>5, NextTemplatesKept, NextOneWriter
  <1>7. FilesWhole'
    BY <1>1, NextFilesWhole
  <1> QED BY <1>3, <1>4, <1>5, <1>6, <1>7

\* Type correctness, for any number of runs, editions and faults.
THEOREM TypeCorrect == Spec => []TypeOK
  <1>1. Ind => TypeOK
    BY DEF Ind
  <1> QED BY InitInd, NextInd, <1>1, PTL DEF Spec

\* Whatever built the tables, Alembic's version tells the truth about them and
\* today's tables have the constraints the repositories name.
THEOREM VersionIsTrue == Spec => []VersionTellsSchema
  <1>1. Ind => VersionTellsSchema
    BY DEF Ind, Shaped, VersionTellsSchema
  <1> QED BY InitInd, NextInd, <1>1, PTL DEF Spec

\* The knowledge base shows nothing of a file or all its well-formed rows.
THEOREM FilesAreWhole == Spec => []FilesWhole
  <1>1. Ind => FilesWhole
    BY DEF Ind
  <1> QED BY InitInd, NextInd, <1>1, PTL DEF Spec

\* Only migrations and downgrades lose rows, and an upgrade none of the service.
THEOREM NoRowLost == Spec => RowsSurvive
  <1> DEFINE A ==
        \/ Downgrade
        \/ /\ rows \cap ServiceTables \subseteq rows'
           /\ \/ Migrate
              \/ /\ rows \subseteq rows'
                 /\ \A row \in Rows : stored[row] # 0 => stored'[row] # 0
  <1>1. Ind /\ [Next]_vars => [A]_vars
    <2> SUFFICES ASSUME Ind, [Next]_vars PROVE A
      OBVIOUS
    <2>1. TypeOK /\ RunTypes /\ Shaped(schema) /\ MissingWhole /\ \A r \in Runs : LoadOK(r)
      BY Halves DEF Ind
    <2>2. \/ Downgrade
          \/ rows \cap ServiceTables \subseteq rows' /\ (Migrate \/ rows \subseteq rows')
      BY <2>1, RowsEffect
    <2>3. Migrate \/ Downgrade \/ \A row \in Rows : stored[row] # 0 => stored'[row] # 0
      BY <2>1, StoredStays
    <2> QED BY <2>2, <2>3
  <1> QED BY InitInd, NextInd, <1>1, PTL DEF Spec, RowsSurvive

\* Nobody can go back from the head: its downgrade is refused in every state.
THEOREM DowngradeIsRefused == Spec => [][Downgrade => schema.version = "001"]_vars
  <1>1. Ind /\ [Next]_vars => [Downgrade => schema.version = "001"]_vars
    BY HeadIsFinal DEF Downgrade, Reverts
  <1> QED BY InitInd, NextInd, <1>1, PTL DEF Spec

-----------------------------------------------------------------------------
(* That every run comes to an end, but for the fairness of its steps       *)

\* A row that another run has written is one it has been at.
LEMMA Behind ==
    ASSUME Ind, NEW r \in Runs, NEW o \in Runs, WaitsFor(r, o)
    PROVE  /\ pc[o] = "load" /\ file[o] = file[r]
           /\ \E i \in 1..(step[o] - 1) : Lines[edition[o]][file[o]][i] = Current(r)
           /\ Lines[edition[o]][file[r]] = Lines[edition[r]][file[r]] => step[r] < step[o]
  <1>1. /\ RunTypes /\ LoadOK(o) /\ LoadOK(r) /\ o # r
        /\ Loading(r) /\ ~aborted[r] /\ Current(r) \in pending[o]
        /\ Current(r) \notin Malformed[edition[r]]
    BY Halves DEF Ind, WaitsFor, Refused
  <1>2. pc[o] = "load" /\ Current(r) \in Written(o)
    BY <1>1 DEF LoadOK
  <1>3. Current(r) \in RowsOf(edition[r], file[r]) /\ edition[r] \in Editions
        /\ step[r] \in 1..Length(r) /\ file[r] \in Files
    BY <1>1, CurrentRow
  <1>4. file[o] = file[r]
    <2>1. edition[o] \in Editions /\ file[o] \in Files
      BY <1>1, <1>2, WrittenRows DEF RunTypes
    <2>2. Current(r) \in RowsOf(edition[o], file[o])
      BY <1>1, <1>2, <2>1, WrittenRows DEF Sound
    <2> QED BY <1>3, <2>1, <2>2, LinesAre, FilesApart
  <1>5. PICK i \in 1..(step[o] - 1) : Lines[edition[o]][file[o]][i] = Current(r)
    BY <1>2 DEF Written
  <1>6. ASSUME Lines[edition[o]][file[r]] = Lines[edition[r]][file[r]], ~(step[r] < step[o])
        PROVE  FALSE
    <2>1. i \in 1..(step[r] - 1)
      BY <1>1, <1>5, <1>6 DEF RunTypes
    <2>2. Current(r) \in Written(r)
      BY <1>1, <1>4, <1>5, <1>6, <2>1 DEF Written
    <2>3. Current(r) \notin pending[r]
      BY <1>1 DEF Ind, OneWriter
    <2>4. file[r] = Templates
      BY <1>1, <2>2, <2>3 DEF LoadOK
    <2>5. stored[Current(r)] # 0
      BY <1>1, <2>2, <2>3, <2>4 DEF Ind, TemplatesKept
    <2>6. stored[Current(r)] = 0
      BY <1>1, <1>4, <2>4 DEF Ind, OneWriter
    <2> QED BY <2>5, <2>6
  <1> QED BY <1>2, <1>4, <1>5, <1>6

\* Runs of one edition wait in one order.
THEOREM RunsWaitInOrder == Spec => []WaitsAreOrdered
  <1>1. Ind => WaitsAreOrdered
    BY Behind DEF WaitsAreOrdered
  <1> QED BY InitInd, NextInd, <1>1, PTL DEF Spec

\* Two runs only lock each other out when their editions order two rows of a
\* file in opposite ways.
THEOREM CrossedEditionsDeadlock == Spec => []DeadlocksAreCrossed
  <1>1. ASSUME Ind, NEW r \in Runs, NEW o \in Runs, WaitsFor(r, o), WaitsFor(o, r)
        PROVE  Before(edition[r], file[r], Current(o), Current(r))
    <2>1. /\ file[o] = file[r]
          /\ \E i \in 1..(step[r] - 1) : Lines[edition[r]][file[r]][i] = Current(o)
      BY <1>1, Behind
    <2>2. RunTypes /\ Loading(r)
      BY <1>1, Halves DEF Ind, WaitsFor
    <2>3. step[r] \in 1..Len(Lines[edition[r]][file[r]])
      BY <2>2, CurrentRow
    <2> QED BY <2>1, <2>3 DEF Before, Current
  <1>2. Ind => DeadlocksAreCrossed
    <2> SUFFICES ASSUME Ind, NEW r \in Runs, NEW o \in Runs, WaitsFor(r, o), WaitsFor(o, r)
                 PROVE  /\ Before(edition[r], file[r], Current(o), Current(r))
                        /\ Before(edition[o], file[r], Current(r), Current(o))
      BY DEF DeadlocksAreCrossed
    <2>1. file[o] = file[r]
      BY Behind
    <2> HIDE DEF Before, Current
    <2> QED BY <1>1, <2>1
  <1> QED BY InitInd, NextInd, <1>2, PTL DEF Spec

\* Positions of the order in which runs advance.
LEMMA FurtherCases ==
    ASSUME NEW p1 \in Nat, NEW p2 \in Nat, NEW p3 \in Nat, NEW p4 \in Nat,
           NEW q1 \in Nat, NEW q2 \in Nat, NEW q3 \in Nat, NEW q4 \in Nat,
           \/ p1 < q1
           \/ p1 = q1 /\ p2 < q2
           \/ p1 = q1 /\ p2 = q2 /\ p3 < q3
           \/ p1 = q1 /\ p2 = q2 /\ p3 = q3 /\ p4 < q4
    PROVE  Further(<<p1, p2, p3, p4>>, <<q1, q2, q3, q4>>)
  <1> DEFINE p == <<p1, p2, p3, p4>>
             q == <<q1, q2, q3, q4>>
  <1>1. CASE p1 < q1
    <2>1. p[1] < q[1] /\ \A j \in 1..(1 - 1) : p[j] = q[j]
      BY <1>1
    <2> QED BY <2>1 DEF Further
  <1>2. CASE p1 = q1 /\ p2 < q2
    <2>1. p[2] < q[2] /\ \A j \in 1..(2 - 1) : p[j] = q[j]
      BY <1>2
    <2> QED BY <2>1 DEF Further
  <1>3. CASE p1 = q1 /\ p2 = q2 /\ p3 < q3
    <2>1. p[3] < q[3] /\ \A j \in 1..(3 - 1) : p[j] = q[j]
      BY <1>3
    <2> QED BY <2>1 DEF Further
  <1>4. CASE p1 = q1 /\ p2 = q2 /\ p3 = q3 /\ p4 < q4
    <2>1. p[4] < q[4] /\ \A j \in 1..(4 - 1) : p[j] = q[j]
      BY <1>4
    <2> QED BY <2>1 DEF Further
  <1> QED BY <1>1, <1>2, <1>3, <1>4

LEMMA Advanced ==
    ASSUME RunTypes, RunTypes', NEW r \in Runs,
           \/ Phase(r) < Phase(r)'
           \/ Phase(r) = Phase(r)' /\ file[r] < file'[r]
           \/ Phase(r) = Phase(r)' /\ file[r] = file'[r] /\ step[r] < step'[r]
           \/ /\ Phase(r) = Phase(r)' /\ file[r] = file'[r] /\ step[r] = step'[r]
              /\ ~absent[r] /\ absent'[r]
    PROVE  Further(Position(r), Position(r)')
  <1> DEFINE a == IF absent[r] THEN 1 ELSE 0
             b == IF absent'[r] THEN 1 ELSE 0
  <1>1. /\ Phase(r) \in Nat /\ Phase(r)' \in Nat
        /\ file[r] \in Nat /\ file'[r] \in Nat
        /\ step[r] \in Nat /\ step'[r] \in Nat
        /\ a \in Nat /\ b \in Nat
    BY FilesAre DEF Phase, RunTypes
  <1>2. Position(r) = <<Phase(r), file[r], step[r], a>>
        /\ Position(r)' = <<Phase(r)', file'[r], step'[r], b>>
    BY DEF Position
  <1>3. ~absent[r] /\ absent'[r] => a < b
    OBVIOUS
  <1>4. Further(<<Phase(r), file[r], step[r], a>>, <<Phase(r)', file'[r], step'[r], b>>)
    <2> HIDE DEF a, b
    <2> QED BY <1>1, <1>3, FurtherCases
  <1> HIDE DEF a, b
  <1> QED BY <1>2, <1>4

LEMMA StepForward ==
    ASSUME RunTypes, RunTypes', \A o \in Runs : LoadOK(o), NEW r \in Runs, RunAct(r)
    PROVE  Further(Position(r), Position(r)')
  <1>1. CASE Start(r) \/ Inspect(r) \/ CreateTables(r)
    BY <1>1, Advanced DEF Start, Inspect, CreateTables, Goto, Phase, RunTypes
  <1>2. CASE Ends(r)
    BY <1>2, Advanced DEF Ends, End, Goto, Active, Phase, RunTypes
  <1>3. CASE Aborts(r) \/ Inserts(r) \/ Passes(r)
    <2>1. UNCHANGED <<pc, file>> /\ step'[r] = step[r] + 1 /\ step[r] \in Nat
      BY <1>3 DEF Aborts, Abort, Inserts, Passes, Advance, RunTypes
    <2>2. Phase(r)' = Phase(r)
      BY <2>1 DEF Phase
    <2> QED BY <2>1, <2>2, Advanced
  <1>4. CASE Misses(r)
    <2>1. UNCHANGED <<pc, file, step>> /\ ~absent[r] /\ absent'[r]
      BY <1>4 DEF Misses, RunTypes
    <2>2. Phase(r)' = Phase(r)
      BY <2>1 DEF Phase
    <2> QED BY <2>1, <2>2, Advanced
  <1>5. CASE Turns(r)
    <2>1. UNCHANGED pc /\ file'[r] = file[r] + 1 /\ file[r] \in Nat
      BY <1>5, FilesAre DEF Turns, NextFile, RunTypes
    <2>2. Phase(r)' = Phase(r)
      BY <2>1 DEF Phase
    <2> QED BY <2>1, <2>2, Advanced
  <1> QED BY <1>1, <1>2, <1>3, <1>4, <1>5, KindsOfSteps

\* Each step of a run takes it further, and nobody sets another one back.
THEOREM RunsMoveForward == Spec => RunsAdvance
  <1> DEFINE A == \A r \in Runs :
                    /\ Position(r)' = Position(r) \/ Further(Position(r), Position(r)')
                    /\ RunStep(r) => Further(Position(r), Position(r)')
  <1>1. Ind /\ Ind' /\ [Next]_vars => [A]_vars
    <2> SUFFICES ASSUME Ind, Ind', [Next]_vars, NEW r \in Runs
                 PROVE  /\ Position(r)' = Position(r) \/ Further(Position(r), Position(r)')
                        /\ RunStep(r) => Further(Position(r), Position(r)')
      OBVIOUS
    <2>1. RunTypes /\ RunTypes' /\ \A o \in Runs : LoadOK(o)
      <3>1. TypeOK /\ TypeOK'
        BY DEF Ind
      <3> QED BY <3>1 DEF Ind, TypeOK, RunTypes
    <2>2. RunAct(r) => Further(Position(r), Position(r)')
      BY <2>1, StepForward
    <2>3. UNCHANGED runVars => Position(r)' = Position(r)
      BY DEF runVars, Position, Phase
    <2>4. ASSUME NEW o \in Runs, o # r, RunAct(o)
          PROVE  Position(r)' = Position(r)
      <3>1. /\ pc'[r] = pc[r] /\ file'[r] = file[r] /\ step'[r] = step[r]
            /\ absent'[r] = absent[r]
        BY <2>1, <2>4, Frame
      <3> QED BY <3>1 DEF Position, Phase
    <2>5. Position(r)' = Position(r) \/ Further(Position(r), Position(r)')
      BY <2>2, <2>3, <2>4, WhoMoves
    <2>6. RunStep(r) => RunAct(r)
      BY DEF RunAct
    <2> HIDE DEF Position, Further
    <2> QED BY <2>2, <2>5, <2>6
  <1> QED BY InitInd, NextInd, <1>1, PTL DEF Spec, RunsAdvance

\* A database that is seeded before it is migrated keeps out the migrations, and
\* one with scores of the earlier release stays on its revision.
THEOREM TrapsAreTraps == Spec => TrapsHold
  <1> DEFINE A ==
        /\ schema.version = "none" /\ schema.tables # {} =>
               schema'.version = "none" /\ schema'.tables # {}
        /\ schema.version = "001" /\ "risk_scores" \in rows /\ ~Downgrade =>
               schema'.version = "001" /\ "risk_scores" \in rows'
  <1>1. ASSUME Ind, [Next]_vars PROVE A
    <2>1. TypeOK /\ Shaped(schema) /\ MissingWhole
      BY <1>1 DEF Ind
    <2>2. CASE schema' = schema /\ rows \subseteq rows'
      BY <2>2
    <2>3. CASE Migrate
      <3>1. ~(schema.version = "none" /\ schema.tables # {})
        <4>1. SUFFICES ASSUME schema.version = "none", schema.tables # {} PROVE FALSE
          OBVIOUS
        <4>2. Applies001(schema)
          BY <2>3, <4>1 DEF Migrate
        <4>3. schema.tables \subseteq Tables001
          BY <2>1 DEF Shaped
        <4> QED BY <4>1, <4>2, <4>3 DEF Applies001
      <3>2. ~(schema.version = "001" /\ "risk_scores" \in rows)
        BY <2>3 DEF Migrate, Applies921
      <3> QED BY <3>1, <3>2
    <2>4. CASE Downgrade
      <3>1. schema.version = "001"
        BY <2>4, HeadIsFinal DEF Downgrade, Reverts
      <3> QED BY <2>4, <3>1
    <2>5. ASSUME NEW r \in Runs, CreateTables(r) PROVE A
      <3>1. schema.tables \subseteq schema'.tables
        BY <2>1, <2>5, CreateEffect
      <3>2. schema'.version = schema.version /\ rows' = rows
        <4> DEFINE new == missing[r] \cap ServiceTables
        <4>1. /\ schema' = [schema EXCEPT
                     !.tables = @ \cup new \cup KnowledgeTables,
                     !.uniques = IF new = {} THEN @ ELSE @ \cup ModelUniques,
                     !.audited = @ \/ new # {}]
              /\ rows' = rows
          BY <2>5 DEF CreateTables
        <4>2. schema \in [version : {"none", "001", Head921},
                          tables : SUBSET Tables001,
                          uniques : SUBSET (Uniques001 \cup Uniques921),
                          fkeys : SUBSET ForeignKeys001, audited : BOOLEAN]
          BY <2>1 DEF Shaped
        <4> HIDE DEF new
        <4> QED BY <4>1, <4>2
      <3> QED BY <3>1, <3>2
    <2>6. CASE ~Migrate /\ ~Downgrade /\ \A r \in Runs : ~CreateTables(r)
      BY <1>1, <2>1, <2>2, <2>6, SchemaKept, RowsEffect
    <2> QED BY <2>3, <2>4, <2>5, <2>6
  <1>2. Ind /\ [Next]_vars => [A]_vars
    BY <1>1
  <1> QED BY InitInd, NextInd, <1>2, PTL DEF Spec, TrapsHold
=============================================================================
