# Verification of the QUANTIQUAN risk engine

TLA+ models of the decision engine in `src/src/`, TLC runs that check them on small instances, and TLAPS proofs of
the safety properties for every instance. `PROJECT.json` maps each definition to the lines it models and lists every
run, its properties, the mutated definitions that the properties catch, the hazards of the code and the findings.

Run a check with `tlc -config <run>.cfg <module>` and a proof with `tlapm <module>Proofs.tla`.

## 1. Inventory

A FastAPI service scores security findings. A request enters a route, a use case reads and writes PostgreSQL through a
unit of work, scores the finding with the deterministic engine, asks an LLM for a summary behind a circuit breaker and
publishes an event.

| Component | State it keeps | Operations | Talks to | What is hard | What makes it correct |
|---|---|---|---|---|---|
| Use cases `application/use_cases/` | none of their own between requests | `EvaluateFinding`, `Recalculate`, `GetDecision` `.execute` | unit of work, scoring engine, threat clients, AI orchestrator, event publisher | many awaits between reads and writes; commit and event are separate; retries of a client draw new ids | history is append-only and whole; success is only reported for what is stored; tenants stay apart |
| Unit of work, repositories `infrastructure/persistence/` | a session and its transaction | `begin`, `commit`, `rollback`; `save`, `create_if_missing`, reads | PostgreSQL | upserts and deletes under READ COMMITTED, row locks, lost acknowledgements | a transaction persists all or nothing; upserts keep identities |
| Tables, migrations `infrastructure/persistence/migrations/`, `scripts/run_migrations.py` | Alembic's version, tables, constraints | upgrade and downgrade of two revisions | repositories, seeding | two ways to build the schema (`create_all`, Alembic) that differ and overlap; tables that hold rows | the version tells the schema; constraints admit what the repositories write; no row is lost |
| Seeding `scripts/seed_knowledge_base.py` | the knowledge base's tables | create missing tables, load five JSON files row by row | migrations, other runs | a row refused by the server or lost before it gets there, overlapping runs that lock rows in different orders, a run that dies, tables dropped meanwhile | the well-formed rows of a file are stored together or not at all; every run exits |
| Scoring domain `domain/` | none | `score_finding`, `Confidence.create`, `get_tier`, context and threat scores | use cases | caps, floors, bounds; contexts duplicated in three places; feeds that fail silently | no input is rejected; bounded influence of confidence; monotone in bad news |
| Circuit breaker `ai/orchestration/circuit_breaker.py` | `state`, `failure_count`, `last_failure_time` | `allow_request`, `record_success`, `record_failure`, `async with` | orchestrator | overlapping calls that end after the state they were admitted in | fails fast after enough failures, always recovers |
| AI orchestrator `ai/orchestration/` | one breaker, the provider list | `generate_summary` | providers | partial failure of a chain, cancellation while inside the breaker | no place leaks; an outage fails fast; a request is always answered |
| Threat clients `infrastructure/external/` | HTTP client, KEV cache | `get_threat_context`, lookups | EPSS, KEV, VirusTotal | errors turned into "nothing known" | an outage is told from good news |
| LLM providers `ai/providers/`, parser `ai/parsers/` | SDK clients | `generate`, `generate_json`, `parse_model` | LLM services | errors, timeouts, nulls and wrapped or unusable answers of four APIs | a usable answer is used and no other is, whatever the chain |
| Engine pipeline `engine/` | `EngineResult` of a run | staged `Workflow.execute` | the same services, the cache | stages that fail half-way, contexts that change while others are fetched | scores rest on recent contexts, every run ends |
| Caches `infrastructure/cache/`, `core/cache/` | entries with expiry | `get`, `set`, `delete_pattern`, decorators | context builder, evaluations | stale hits, expiry at a boundary, overlapping fetches | no entry is used after its time |
| Container `core/di/`, `infrastructure/di/` | factories, singletons | `register`, `resolve`, `initialize` | all | lazy creation from several threads | each request has its own unit of work; singletons settle |
| Health `core/monitoring/health.py` | registered checks | `register`, `run_all`, `get_overall_status` | probes | probes before and after start-up | probes see all checks |
| Routes, middleware, schemas, security, logging, metrics, settings, utilities, prompts | none that a decision depends on | | | | |

The hazards that follow from this, each at its line with the properties that cover it, are in `PROJECT.json`.

## 2. Modules

| Module | Models | Abstracts |
|---|---|---|
| `FailFast` | the abstract contract of a protected call: refused only after failures, and admitted again after a cool-down | everything else |
| `CircuitBreaker` | `circuit_breaker.py`: each `__aenter__` and `__aexit__` is an atomic action of one caller (no await inside) | time is a counter that saturates |
| `Providers` | what each of the four providers, the response parser and the hallucination check make of a reply, as operators | a text is known by its form (bare, fenced, embedded, among other braces, another shape), by whether it claims an amount and holds a qualifier, and by the token counts beside it |
| `AIOrchestrator` | `generate_summary`: composes `CircuitBreaker`'s rules and `Providers` with the walk down the provider chain, timeout, the mock summary and cancellation | prompts |
| `DecisionLog` | the abstract contract of the service: an append-only history, confirmations and announcements only of what is in it | everything else |
| `RiskService` | the three use cases, their unit of work, the repositories they call and the tables they share | scores (a decision is known by its job), drivers rows (written with their score) |
| `Scoring` | the scoring engine as operators, and one finding's life: evaluation, recalculation, ageing, enrichment, changing feeds, an outage of either; the recommendation each writer stores | the drivers' and recommendation's texts |
| `DecisionRecord` | on top of `Scoring`: a decision's rows, its reconstruction with every check of the value objects, the answers of the evaluation and of GET | texts |
| `Deployment` | both Alembic revisions up and down, `run_migrations.py`, runs of `seed_knowledge_base.py` and a service that writes rows, on one database | columns, indexes; a row's content: a row is known by its table and key, and by the edition that wrote it |
| `Container` | `container.py`, `inject.py`, `providers.py`, start-up and the probes: concurrent resolution without a lock | what the components do once they exist |
| `ContextCache` | the engine pipeline up to the stage where every run stops, the two caches, the evaluations that write to them | a context's value: a copy is known by how long ago its source replaced it |
| `MC...` | values and symmetry for TLC | |
| `...Proofs` | theorems of the module they extend | |

### How state and actions correspond to the code

*RiskService.* A request id `r` has a program counter; one step is the code between two awaits that reach the database
or another service. `r` also stands for the uuid4 values that request draws (job id, new finding id), so ids of
different requests differ. `tx[r]` is what its open transaction has written; `Commit` makes it visible at once. Row
locks are guards: an upsert of a source key waits while another transaction has upserted it, the `DELETE` of a
recommendation waits for the transaction that deleted the row (`waitRec`) and, as PostgreSQL does under READ COMMITTED,
skips the row if that transaction commits. `created_at` is the time the writing transaction began. `schema` says whether
the tables were built by `create_all` (`"models"`) or by the migrations (`"migrated"`), which keep the unique constraint
on `risk_scores.finding_id`. `faulted` collects the requests that met a fault: a failing statement or external call, a
commit whose acknowledgement is lost, a worker that dies. `MaxFaults` bounds them.

*Scoring.* A decision is kept by its basis, the arguments `score_finding` was given; every number is a function of it.
Drivers are integers 0..100, confidence is in tenths, the raw score and multiplier in hundredths, the final score in
1/10000, so the arithmetic is exact. Qualitative severities always normalise to 50, as in the code, which looks the
string of a float up among words.

Threat lookups use a new KEV client each, so its feed cache is always empty, and each feed fails by itself.
`recommendation` is the finding's row: an evaluation writes the one it generated, with a priority level (`P0`..`P3`); a
recalculation replaces it by the mapper's fallback, with the tier's name. `DecisionRecord` adds no state: `ReadBack` of
`Stored` is what `DecisionMapper.to_domain` builds from the rows, recomputing the raw score and the multiplier.

*Container.* A resolution is a lookup, then the factory, then the assignment into the cache of singletons; other threads
run in between, because FastAPI runs these synchronous dependencies in its thread pool. An instance is known by the
request that created it.

*ContextCache.* A copy of a context carries whether its source has replaced it and how many ticks ago. A run requests,
is answered (`SourceAnswers`), and only later receives and stores the answer (`Store`): a change of the source in
between leaves a copy that is stale when it enters the cache. `SourceFails` is the inventory raising or not knowing the
asset, or EPSS giving a number that `ThreatContext` refuses; `refused` remembers the runs it happened to. A pipeline
that has both contexts is `stopped`, by the priority engine's error; only evaluations are `scored`. An answer takes
`Latency` ticks at most; a lookup takes none. The cache is either `memory` or `redis`; in Redis a context is stored as
text, which the context builder does not accept back, so nothing is ever hit. Evaluations store threat contexts and
ignore hits. `Begin` re-uses a run's slot. One asset and one CVE stand for a key; runs of other keys do not meet.

*Deployment.* `schema` is a record of what the revisions change: version, tables, unique constraints, foreign keys and
whether `risk_scores` has the audit columns; an upgrade or downgrade is a function of it with a precondition, and one
step, because an Alembic command is one transaction. A seeding run is a process: `Inspect` and `CreateTables` are the
two halves of `create_all`, each row of a file is a statement and a step, `CommitFile` ends the file's transaction. Two
errors look alike to the script and are not. A statement that the server refuses sets `aborted`: PostgreSQL refuses the
rest of the transaction and turns the commit into a rollback. A row that fails before its statement is sent
(`Malformed`: a value the driver cannot encode, no `get`) is skipped, and the rest is committed (`SkipRow`). Either way
the script goes on. `stored` is the edition of the files that wrote each row last; `Lines` gives the rows of each file
of an edition in order. Locks are guards: an `INSERT` waits for the transaction that has written its row and is open
(`WaitsFor`), a `DROP TABLE` for any transaction that has touched the tables (`TablesFree`). When runs wait for each
other in a circle, PostgreSQL fails the statement of one (`DeadlockBroken`). `rows` are the tables of the service,
`tenants` and `users` that hold rows. `Record` is the service, or its earlier release, storing something, with the
tenant and perhaps the owner that revision 001's foreign keys ask for.

*Providers.* `Replies` lists what a service can answer: a text in every form the parser tells apart, a null, no field,
an error status, a broken body, the client's timeout, and one that trickles in past `wait_for`. `CallProvider` follows it
through the provider, the parser and `StructuredSummary`; `Accepted` is one turn of the orchestrator's loop. `Usable` is
the reference that `FirstUsableWins` compares with: what a summary is worth (`Worth`: in time, without a bare amount, in
whatever wrapping), but for those the code loses (`Lost`): with other braces around the object, which the parser's greedy
`{.*}` takes along, or with null token counts, at which Groq's and OpenAI's clients fail after they have read the text.

*CircuitBreaker, AIOrchestrator.* `inside` holds the callers between `__aenter__` and `__aexit__`; a call admitted in
one state may report in another. In `AIOrchestrator` an exhausted provider chain leaves the breaker's body by
`return None`, which `__aexit__` records as a success; cancellation leaves it with an exception, a failure.

### Assumptions

- Transactions are READ COMMITTED (the driver's default). Timestamps of two transactions differ.
- Rows are bound by asyncpg, which refuses a `UUID` for a `String` column. `create_if_missing` binds one, so that
  `CreateAsset` always takes the path of its `except` (section 5).
- Closing of sessions and limits of connection pools are not modelled, nor is the memoised provider list.
- Only the server cancels a request (`Cancellable`).
- Severities and EPSS probabilities are whole numbers and percents; rounding of binary floats is not modelled. EPSS
  values are in 0..1 in `Scoring`; in `RiskService` one outside fails the request at its scoring step like any other
  failure (`StepFails`), and `ContextCache` has it as `SourceFails`.
- `source_count` is always one and `has_cmdb_record` always true, as both use cases pass them. A re-evaluation of the
  finding in `Scoring` keeps its severity and CVE.
- In `ContextCache` both kinds of sources answer within `Latency`, as their client's timeouts and the database's would
  have to make them; only the age bound depends on it.
- In `Deployment` a command that fails changes nothing and is left out. An edition of the files is deployed with the
  script and does not change; editions need not have the same rows. The database is PostgreSQL.
- The list of CVEs with public exploits is a constant of the code. A cached threat context is looked up and not used.

## 3. Runs

| Run | Instance | Shows |
|---|---|---|
| `breaker` | 3 callers, threshold 2, timeout 2 | all overlaps of admission, late success and late failure: counter and state stay consistent, a half-open breaker has a trial, and the breaker implements `FailFast` and leaves its cool-down |
| `summaries` | 3 requests, the chain Groq, OpenAI, Ollama, every reply | no leaked place, fail-fast, every request answered, and with the first usable summary of the chain if there is one (usable: all but the ones the code loses, section 2) |
| `outage_opens` (violation) | the same | an outage of all providers never opens the breaker |
| `risk_service` | 3 requests of any kind, 2 tenants, 1 asset id, 1 source key, both schemas, 1 faulty request | `AtomicPersist`, `RowsHaveDecisions`, `EvaluationSucceeds`, `TenantIsolation`, `IdentityKept`, `EvaluatedIsReadable`, `ReadsMoveForward`, and that the service implements `DecisionLog` |
| `risk_service_live` | 3 requests, 1 tenant, schema `models`, no symmetry (none being sound for liveness) | every request ends |
| `decisions_linked` (violation) | no faults | evaluating a known source key again stores its decision under a fresh finding id that no finding row has |
| `racing_recalculations` (violation) | no faults | of two overlapping recalculations of a finding, one is lost on the unique constraint of the recommendation both replace |
| `scoring` | severities and EPSS values at the bounds; three enriched contexts: one reaching every cap, the same without owner, one just below Critical | no input rejected, one tier of confidence, monotone news, agreement of the neutral contexts, the recommendation stored is the latest decision's, reading a decision back gives the numbers of its evaluation |
| `recalculation_reproduces` (violation) | the same | recalculating an enriched finding with unchanged data gives another score, because its context is never loaded |
| `container` | 3 requests of any kind on overlapping threads; factories may raise | no unit of work is shared, probes see the checks of start-up, a singleton is raced for on its first use only |
| `deployment` | 2 seeding runs, 2 editions, 1 fault; a missing, empty or migrated database | Alembic's version tells the schema; of each file all well-formed rows of one edition are stored or none; an upgrade loses no row but those of the tables it drops; every run exits, deadlocks included |
| `context_cache` | 2 runs, lifetimes 1 and 2, latency 1, both caches | scores rest on contexts of bounded age; a run fails exactly when a source has no usable answer or its finding no CVE; every run ends |

**Why the bounds are enough.** A race on one row needs two writers, and the third request observes or overtakes them;
one asset id and one source key make every pair of requests collide; two tenants make every id either one's own or
foreign. The breaker needs a late caller of an earlier state beside two that decide the current one. In `ContextCache`
two runs are a slow fetch and the one it overlaps or feeds; lifetimes 1 and 2 differ, reach their last instant and are
longer than no latency. In `Deployment` two runs are what one can lose a lock, a deadlock or a table to, and two
editions tell whose rows are stored: in `MCDeployment` they have the two rows of the first file in opposite orders, a
malformed row in the second one's second file, a fourth file that only the first has and one template more in the
second; the third file is missing. Schema commands are not bounded. A chain of three has a provider with one before and
one after it. Nearly every safety property of the passing runs is also proved for all constants (section 4).

**Fairness.** `RiskService.LiveSpec`, `ContextCache.LiveSpec`, `Deployment.LiveSpec` and the orchestrator's assume that
the own steps of a request or run are taken: each await ends because queries answer or fail, PostgreSQL hands locks on
and external calls have timeouts. Operators' commands and the start of a seeding run are not fair. Clients (`Submit`)
and faults are not fair. In `CircuitBreaker` and `AIOrchestrator` time does not stop. `CHECK_DEADLOCK FALSE` appears
where a finite set of requests has ended.

## 4. Proofs

| Module | Proved for every value of the constants |
|---|---|
| `CircuitBreakerProofs` | `TypeOK`, `CountMatchesState`, `HalfOpenHasTrial`, `OpenLeavesThroughTrial`, refinement of `FailFast` (safety); that an open breaker has a failure time and so can leave; `RestartsRunOut` |
| `AIOrchestratorProofs` | `TypeOK`, `PlaceHeldWhileWaiting`, `FirstUsableWins`, refinement of `FailFast` (safety); `BreakerDecided`, `OutagesNeverOpen`, `ProvidersAskedOnce` |
| `RiskServiceProofs` | `TypeOK`, `AtomicPersist`, `TenantIsolation`, `EvaluationSucceeds`, `IdentityKept`, `EvaluatedIsReadable`, `ReadsMoveForward`, refinement of `DecisionLog` |
| `RiskServiceLockProofs` | `NoCircularWait`, `StepsForward`, `RowsHaveDecisions`, `RecordedIfApart`, `LinkedIfEvaluatedOnce` |
| `ScoringProofs` | `TypeOK` with every range check, `ConfidenceMovesOneTier`, `EscalationNeverLowers`, `DiscoveredRecalculatesEqual`, `RecommendationFollowsDecision`, `ReadBackFaithful`, `DescriptionNeverLowers`, `RecalculationNeverRaises`, `NeutralAtMostMedium` |
| `ContainerProofs` | `TypeOK`, `OwnUnitOfWork`, `ProbesSeeChecks`, `SingletonsSettle`, `SettledIsShared` |
| `ContextCacheProofs` | `TypeOK`, `ScoredOnRecent`, `FailsForSourcesOnly`, `RunsMoveForward` |
| `DeploymentProofs` | `TypeOK`, `VersionTellsSchema`, `FilesWhole`, `RowsSurvive`; that no downgrade from the head revision takes effect; `WaitsAreOrdered`, `DeadlocksAreCrossed`, `RunsAdvance`, `TrapsHold` |

The assumptions are the named `ASSUME`s of the modules, which TLC evaluates in the runs. Properties of the table that no
cfg names (those after the last semicolon of a row, all of `RiskServiceLockProofs` but `RowsHaveDecisions`, the last
three of `ScoringProofs`, the last of `ContainerProofs` and `ContextCacheProofs`) held in TLC on the instances of
section 3 before they were proved; adding their names to the cfg repeats that.

*Where the violations stop.* Each of the four runs that expect a violation is matched by a theorem that says how far the
disagreement goes. A recalculation is only lost to one that overlaps it on the same finding (`RecordedIfApart`); a
decision is only unlinked by a second ingestion of its source key (`LinkedIfEvaluatedOnce`); the breaker stays closed in
every outage, not only in the one TLC shows (`OutagesNeverOpen`); and recalculating an asset described as mattering more
than the neutral one only ever lowers its score (`RecalculationNeverRaises`), to Medium at most (`NeutralAtMostMedium`).

*What liveness rests on.* For each liveness property the half that is safety is proved, which leaves fairness and the
well-founded descent to TLC: who waits, waits for somebody who does not wait (`NoCircularWait` of `RiskService`), or,
for runs of one edition, who is ahead of it (`WaitsAreOrdered`; runs of several can deadlock, and PostgreSQL breaks
that), and each step raises a bounded rank, or spends one of finitely many calls or faults (`StepsForward`,
`RunsAdvance`, `RunsMoveForward`, `ProvidersAskedOnce`, `RestartsRunOut`).

*RiskService.* No property is inductive alone. The inductive invariant ties each program counter to what its transaction
holds: which stages have an open transaction, that an evaluation's transaction has the finding upsert, that jobs in the
history belong to requests past their commit, that a request which has read a decision read one of its tenant, and that
two open transactions never hold the same source key or recommendation. Each conjunct is preserved action by action;
properties about answers (`201` implies recorded) then follow, and the refinement maps `Commit` and
`CommitUnacknowledged` to `Append`, `Publish` to `Confirm`, and everything else to stuttering. `ReadsMoveForward` adds
that what was read or confirmed is still a row, and that the query returns a row no older than any it sees (a minimum by
well-foundedness, `NewestIsARow`).

*Row locks.* `NoCircularWait` needs a second invariant, `Locks`: which program counters have a transaction open, that a
transaction which has deleted a recommendation is at its commit, and that only a recalculation waits for one
(`waitRec`), for a request that is about to commit the deletion or has ended, with its decision stored unless a fault
hit it. An evaluation never meets a locked recommendation, because the finding id it writes under is its own until it
is stored (`HolderRecalculates`). So the holder of a source key or of a recommendation is past its only wait.
`RecordedIfApart` and `LinkedIfEvaluatedOnce` have premises over whole behaviours, `[]P => []Q`; they are proved by
an invariant that is inductive as long as `P` holds.

*Breaker.* The invariant adds to the types that the counter is below the threshold exactly in CLOSED and that OPEN has
a failure time and HALF_OPEN a trial inside.

*Orchestrator.* The lemma `AcceptedIsUsable` says that the path of a reply through its provider, the parser and the
check accepts exactly the usable ones, whichever provider it is. With it, a waiting request has heard useless replies
from exactly the providers before the one it waits for. The lemma `BreakerRuns` shows that the orchestrator implements
the specification of `CircuitBreaker` with a request for a caller, so that the breaker's theorems hold inside it
without being proved again; `BreakerDecided` is obtained that way.

*Deployment.* `VersionTellsSchema` becomes inductive with three facts about unversioned schemas and revision `001`: the
service's tables exist together or not at all, without foreign keys or tenants and with the audit columns when they do,
what a run has found missing of them is all or none, and `001` has its unique constraints, of which the upgrade keeps
those the models name. `FilesWhole` rests on what an open transaction holds (`LoadOK`): after the rows before its
current one, all well-formed ones among them and of the file's own table, or nothing once a statement has failed, so
that its commit replaces all well-formed rows of a file or none; on a row being in one open transaction at a time
(`OneWriter`), on the templates of an open transaction adding up to a file with those stored (`TemplatesKept`), and on a
downgrade or upgrade dropping all tables of a file or none. A run that waits for a row has it as its current one while
the owner is past it; where both have the same rows in the same order the owner is therefore ahead, and two that wait
for each other have the two rows in opposite orders.

*Scoring.* `TypeOK` is inductive with the ranges of each driver; `ConfidenceMovesOneTier` is arithmetic on the bounds:
the same raw score times multipliers in 0.7..1.0 crosses at most one tier bound. The neutral context earns so few points
of impact that, with every other driver at its cap and the multiplier that its missing owner allows, the score stays
below the bound of High. `ReadBackFaithful` follows from the bounds of the drivers and of the confidence, for every
basis a decision may have.

*Container.* An instance that a request holds is one its own factory calls made, or one of the cache; the cache only
ever replaces an instance while a thread that missed is still on its way, and such threads started before the first
assignment.

*ContextCache.* The invariant bounds the age of every copy by where it is: on the way, by the time since the request;
in the cache, by `Latency` plus the time it has been there (`Ttl` minus the time left); in a run that fetches its second
context, by the former plus the time since that request. Each action moves a copy from one bound to the next.
`FailsForSourcesOnly` is an equivalence, and inductive with what a run without a CVE can be waiting for.

Only model-checked: liveness (`CoolDownEnds`, `EveryRequestAnswered`, `RequestsEnd`, `RunsEnd`), since fairness and
ENABLED are outside the prover's reach, and the violations, of which a trace is the evidence.

## 5. Observed while modelling, not run

These are disagreements of the code with its own text, or dead ends, that one reading or one call shows. Paths are below
`src/src/`.

- HALF_OPEN admits every caller, not one trial (`ai/orchestration/circuit_breaker.py:84-85`), and an exhausted provider
  chain leaves the breaker's body by `return` and so closes a half-open breaker
  (`ai/orchestration/ai_orchestrator.py:160`).
- The migrated schema keeps the unique constraint of `risk_scores.finding_id` and so refuses every recalculation. The
  model shows it when `RiskServiceRace.cfg` has `Schemas = {"migrated"}`.
- The latest decision is chosen by `created_at`, which is not the order of commits (`decision_repo.py:42` and `:28`).
- A decision without a stored recommendation is read back with a placeholder (`mappers.py:243-256`,
  `decision_repo.py:184-185`); its deductions are not stored, so the breakdown that `GetDecision` answers is that of a
  complete decision (`mappers.py:178`; `ReadBackFaithful` states the difference).
- An evaluation's AI summary is not stored: its recommendation has `business_explanation=None`
  (`evaluate_finding.py:443`), which is what `mappers.py:193` reads back as the summary. GET therefore always answers
  the fallback as next action, and "Unassigned" as owner (`get_decision.py:96`).
- A recalculation replaces the finding's own advice by a generic one, with effort "medium" and impact 50
  (`mappers.py:241-256`).
- The tier is taken from the exact score, the answer shows the rounded one, which may lie in another band
  (`evaluate_finding.py:305`, `thresholds.py:34-40`).
- An outage of the threat feeds scores 10, an unknown CVE 50 (`threat_context.py:56`, `epss_client.py:55-60`,
  `scoring_engine.py:213-218`); a CVE with low EPSS loses the intel deduction (`scoring_engine.py:239` and `:93`).
- The pipeline never completes: no stage sets `risk_score` before `priority_engine.py:26-29` asks for it, and a finding
  without CVE fails at `context_builder.py:69`, because `ThreatContext` refuses an empty CVE.
- A recalculated finding, and any on an asset nobody described, is Medium at most, even with a CVE that KEV lists and a
  probability of 100% (`recalculate.py:91`, `thresholds.py:34-40`); `NeutralAtMostMedium` is proved.
- A text that is usable is lost when the prose around its JSON has braces: the parser searches `{.*}` greedily
  (`response_parser.py:47`). So is one whose token counts are null, which Groq's provider adds up for a log line after
  it has read the text (`groq_provider.py:86-91`).
- Passive discovery never records an asset: `create_if_missing` binds `UUID` objects to `String(36)` columns
  (`asset_repo.py:87-88`; the other statements use `str()`), asyncpg refuses them, and the exception is swallowed. Every
  evaluation of an unknown asset is scored with the fallback, against the promise of `evaluate_finding.py:103`.
- `tests/unit/application/test_evaluate_finding.py:131` wants a `UseCaseError` when the business context is missing;
  `evaluate_finding.py:108-109` says that a missing asset never blocks scoring, and the code scores with the fallback,
  which is what `EvaluationSucceeds` states. Code and comment agree; the test asks for the opposite.
- An EPSS value outside 0..1, or NaN, is not caught with the feed's other errors: `epss_client.py:40` builds the context
  outside the `try`, and `threat_context.py:32` raises. The evaluation ends in a 500, the pipeline in an error.
- Redis never gives back a usable context (`redis_cache.py:51` stores its text, `context_builder.py:95` tests its
  class).
- The key of a cached business context has no tenant (`context_builder.py:92`).
- `admin_routes.py:24` asks the container for `"cache"`, a string where it takes a type; clearing the cache fails.
- The readiness probe always finds a degraded check (`health.py:191`).
- An evaluation's answer names a decision id that is never stored (`evaluate_finding.py:279`).
- Two first requests that resolve the same key on two threads are given two instances of what the container's docstring
  calls a singleton (`container.py:79` and `:19-20`); `SingletonsSettle` and `SettledIsShared` state what does hold.
- The downgrade of `921e34b12025` cannot succeed: it adds the foreign keys to `tenants` and `users` first, creates
  `tenants` last and `users` never (against its comments at `:108` and `:176`). `DowngradeIsRefused` proves it.
- `upgrade head` is refused for ever on a database at revision `001` whose `risk_scores` has rows (`921e...:93-94`, NOT
  NULL without a default), and on one that was seeded before it was migrated (`seed_knowledge_base.py:58` creates what
  revision `001` creates). `TrapsHold` is proved.
- A row that the server refuses silently loses its whole file: the rest of the transaction is refused, COMMIT rolls
  back, although each row has its own `except`. A row that the driver or `config.get` refuses loses itself alone, and
  its file is published in part. The script logs "seeded successfully" and exits with 0 in both cases.
- Two runs whose editions have rows in opposite orders deadlock; the one PostgreSQL picks loses that file's load, and
  logs success (`CrossedEditionsDeadlock` proves that nothing else makes two runs lock each other out).
- The upgrade to `921e34b12025` drops `tenants` and `users` (`:27`, `:35`) with all their rows, and the knowledge base;
  `assets.owner_id` keeps ids that refer to nothing.
- Templates are only inserted when missing, so a later edition of theirs never arrives
  (`seed_knowledge_base.py:202-209`).
- `floor_raise` is nested below `requirements` in the compliance file; the script looks beside it and stores 0
  (`seed_knowledge_base.py:271`).
- `--revision` has no effect without `--sql` or `--dry-run` (`run_migrations.py:205`); `--clear` and `--tables` of the
  seeding script have none. On SQLite neither `DROP TABLE ... CASCADE` nor the DDL's `NOW()` defaults run.
- No part of the service reads the knowledge base's tables.
- `_validate_summary` accepts every amount when a qualifier, even "about", is anywhere in the text; its comment asks for
  one with each (`ai_orchestrator.py:178-182`). Only two of the five fields are looked at.
- The factory gives OpenAI and Gemini the settings' Groq key (`provider_factory.py`); `groq_max_retries` is not used.
- A unit of work, with its engine and pool, is created for every request and never closed (`inject.py:20`).

## 6. Plan

Done: breaker, orchestrator with providers and parser, risk service, scoring, container with health, pipeline with
caches, deployment with migrations and seeding; each with proofs.

Left, by extending these modules rather than adding others:

1. `RiskService`: the repositories' remaining operations as far as they gain callers.
2. `ContextCache`: the KEV feed's own cache and client re-use below `SourceAnswers`.
3. `DecisionRecord`: the composition with `RiskService`'s persisted decisions.

## 7. Not modelled

- Logging, metrics, tracing, prompts, settings, schemas and utilities: no decision depends on them, or they are text.
- Authentication: no route of the service uses it.
- The pipeline's stages after the priority engine: no input reaches them.
- The caching decorators, `LLMPipeline`, `JSONParser`, `Validator`, `publish_batch`, `_clear_existing_data` and the
  repositories' other operations: nothing calls them.
- Connection pools, sessions that are never closed, and rounding of binary floats.
