------------------------------ MODULE Scoring ------------------------------
(***************************************************************************)
(* The deterministic risk score (domain/services/scoring_engine.py and the *)
(* value objects it reads) and how the two writers feed it over the life   *)
(* of one finding: EvaluateFinding scores with the asset's stored context, *)
(* Recalculate always with its neutral default (no asset repository is     *)
(* injected into it), both with what the threat feeds say at that moment.  *)
(*                                                                         *)
(* A decision is kept by its basis, the inputs score_finding was given;    *)
(* the numbers are functions of it.  Arithmetic is exact: drivers are in   *)
(* 0..100, confidence in tenths, the raw score and the multiplier in 1/100 *)
(* and the final score in 1/10000.  The rounding of binary floats (about   *)
(* 1e-14) is not modelled.                                                 *)
(***************************************************************************)
EXTENDS Integers

CONSTANTS Severities,   \* raw_severity values
          EpssPercents, \* EPSS probabilities, in percent
          Enriched,     \* business contexts an inventory may give an asset
          None          \* Python None

DataClasses == {"public", "internal", "confidential", "regulated"}
Exposures == {"internal-only", "customer-authenticated", "customer-facing",
              "internet-facing"}
RevenueImpacts == {"none", "low", "medium", "high"}

\* importance: importance_tier.  owner: owner_id is set.  compliance: some
\* scope applies.
BusinessContext ==
    [importance : 0..100, owner : BOOLEAN, data : DataClasses,
     compliance : BOOLEAN, revenue : RevenueImpacts, dependents : Nat,
     exposure : Exposures]

ASSUME ScoringAssumption ==
    /\ Severities \subseteq 0..100
    /\ EpssPercents \subseteq 0..100
    /\ Enriched \subseteq BusinessContext
    /\ None \notin BusinessContext
    /\ None \notin Int

VARIABLES finding,  \* the severity and CVE of the finding, fixed
          asset,    \* the business context stored for its asset, or None
          feeds,    \* what EPSS and KEV publish about the CVE
          outage,   \* the feeds that cannot be reached
          stale,    \* detected_at of the stored finding is > 30 days ago
          decision, \* the basis of the latest decision, or None
          recommendation  \* the recommendations row of the finding, or None

vars == <<finding, asset, feeds, outage, stale, decision, recommendation>>

\* cve: none, or one that is (not) in the local list of public exploits.
Finding == [severity : Severities,
            scale : {"cvss", "qualitative", "vendor_custom"},
            cve : {"none", "unlisted", "listed"}]

Feeds == [epss : EpssPercents \cup {None}, kev : BOOLEAN]

ThreatContext == [epss : EpssPercents \cup {None}, kev : BOOLEAN, poc : BOOLEAN]

NoContext == [epss |-> None, kev |-> FALSE, poc |-> FALSE, absent |-> TRUE]

Basis == [by : {"evaluate", "recalculate"}, context : BusinessContext,
          severity : 0..100, threat : ThreatContext \cup {NoContext},
          stale : BOOLEAN]

ASSUME NoDecisionAssumption == None \notin Basis

-----------------------------------------------------------------------------
(* The drivers                                                             *)

Least(m, n) == IF m <= n THEN m ELSE n
Greatest(m, n) == IF m >= n THEN m ELSE n
Points(b, n) == IF b THEN n ELSE 0

\* _normalize_severity.  A qualitative severity arrives as a number, which is
\* never a key of the mapping.
NormalizeSeverity(f) ==
    IF f.scale = "cvss" THEN Least(100, 10 * f.severity)
    ELSE IF f.scale = "qualitative" THEN 50 ELSE f.severity

MutExploitabilityEpssFirst(t) ==
    IF t = NoContext THEN 50
    ELSE IF t.kev THEN 92
    ELSE IF t.epss # None THEN Greatest(10, t.epss)
    ELSE IF t.poc THEN 70 ELSE 10

ExploitabilityScore(t) ==
    IF t = NoContext THEN 50
    ELSE IF t.kev THEN 92
    ELSE IF t.poc THEN 70
    ELSE IF t.epss # None THEN Greatest(10, t.epss) ELSE 10

AssetImportanceScore(c) == c.importance

MutImpactUncapped(c) ==
    20 + Points(c.data = "regulated", 40) + Points(c.data = "confidential", 25)
    + Points(c.data = "internal", 10) + Points(c.compliance, 15)
    + Points(c.revenue = "low", 10) + Points(c.revenue = "medium", 20)
    + Points(c.revenue = "high", 30)
    + (IF c.dependents > 10 THEN 15 ELSE IF c.dependents > 5 THEN 10
       ELSE IF c.dependents > 0 THEN 5 ELSE 0)

BusinessImpactScore(c) ==
    Least(100,
          20 + Points(c.data = "regulated", 40)
          + Points(c.data = "confidential", 25)
          + Points(c.data = "internal", 10) + Points(c.compliance, 15)
          + Points(c.revenue = "low", 10) + Points(c.revenue = "medium", 20)
          + Points(c.revenue = "high", 30)
          + (IF c.dependents > 10 THEN 15 ELSE IF c.dependents > 5 THEN 10
             ELSE IF c.dependents > 0 THEN 5 ELSE 0))

ExposureScore(c) ==
    Points(c.exposure = "internal-only", 20)
    + Points(c.exposure = "customer-authenticated", 50)
    + Points(c.exposure = "customer-facing", 70)
    + Points(c.exposure = "internet-facing", 90)

Drivers(b) ==
    [asset_importance |-> AssetImportanceScore(b.context),
     vulnerability_severity |-> b.severity,
     exploitability |-> ExploitabilityScore(b.threat),
     business_impact |-> BusinessImpactScore(b.context),
     exposure |-> ExposureScore(b.context)]

-----------------------------------------------------------------------------
(* Score, confidence, tier                                                 *)

CalculateRawBIS(importance, severity, exploitability, impact, exposure) ==
    25 * importance + 20 * severity + 25 * exploitability + 20 * impact
    + 10 * exposure

RawBIS(b) ==
    CalculateRawBIS(AssetImportanceScore(b.context), b.severity,
                    ExploitabilityScore(b.threat),
                    BusinessImpactScore(b.context), ExposureScore(b.context))

IsExploitable(t) ==
    t # NoContext /\ (t.kev \/ t.poc \/ (t.epss # None /\ t.epss > 10))

\* Confidence.create, in tenths.  Both writers pass has_cmdb_record = True and
\* a source count of one.
Confidence(b) ==
    10 - Points(~b.context.owner, 2) - Points(b.stale, 2)
    - Points(~IsExploitable(b.threat), 1) - 1

MutMultiplierWithoutFloor(b) == 10 * Confidence(b)

Multiplier(b) == 70 + 3 * Confidence(b)

FinalBIS(b) == RawBIS(b) * Multiplier(b)

\* get_tier: 0 is Low, 1 Medium, 2 High, 3 Critical.
GetTier(final) == IF final >= 850000 THEN 3
                  ELSE IF final >= 650000 THEN 2
                  ELSE IF final >= 350000 THEN 1 ELSE 0

Tier(b) == GetTier(FinalBIS(b))

-----------------------------------------------------------------------------
(* The recommendation                                                      *)

\* PriorityMapping, by tier.
Priority(tier) ==
    <<[level |-> "P3", hours |-> 720], [level |-> "P2", hours |-> 168],
      [level |-> "P1", hours |-> 24], [level |-> "P0", hours |-> 4]>>[tier + 1]

TierName(tier) == <<"Low", "Medium", "High", "Critical">>[tier + 1]

Priorities == {"P0", "P1", "P2", "P3", "Low", "Medium", "High", "Critical"}

\* int(round(final)): halves go to the even neighbour.
Rounded(final) ==
    LET whole == final \div 10000
        rest == final % 10000
    IN  whole + Points(rest > 5000 \/ (rest = 5000 /\ whole % 2 = 1), 1)

\* The entity raises on an impact outside 0..100.
Recommendations ==
    [effort : {"low", "medium", "high"}, impact : 0..100, priority : Priorities,
     category : {"vulnerability", "general"}]

\* _generate_recommendation, which EvaluateFinding stores.
Generated(b) ==
    [effort |-> <<"low", "low", "medium", "high">>[Tier(b) + 1],
     impact |-> Rounded(FinalBIS(b)),
     priority |-> Priority(Tier(b)).level,
     category |-> IF b.threat = NoContext THEN "general" ELSE "vulnerability"]

\* DecisionMapper.to_model for a decision without a recommendation object: what
\* a recalculation puts in its place.
Replaced(b) ==
    [effort |-> "medium", impact |-> 50, priority |-> TierName(Tier(b)),
     category |-> "general"]

-----------------------------------------------------------------------------
(* The contexts the writers score with                                     *)

\* The in-memory default of both use cases when there is no business context.
NeutralContext ==
    [importance |-> 50, owner |-> FALSE, data |-> "internal",
     compliance |-> FALSE, revenue |-> "none", dependents |-> 0,
     exposure |-> "internal-only"]

MutAutoCreatedExposed ==
    [importance |-> 50, owner |-> FALSE, data |-> "internal",
     compliance |-> FALSE, revenue |-> "none", dependents |-> 0,
     exposure |-> "customer-facing"]

\* The row that passive discovery means to insert (the driver refuses it, module
\* RiskService): what describes an asset that was entered with these defaults.
AutoCreated ==
    [importance |-> 50, owner |-> FALSE, data |-> "internal",
     compliance |-> FALSE, revenue |-> "none", dependents |-> 0,
     exposure |-> "internal-only"]

\* get_threat_context: a feed that fails gives None or FALSE, no exception; the
\* KEV client is a new one each time, its cache empty; the list of public
\* exploits is local.
FetchThreat ==
    IF finding.cve = "none" THEN NoContext
    ELSE [epss |-> IF "epss" \in outage THEN None ELSE feeds.epss,
          kev |-> "kev" \notin outage /\ feeds.kev,
          poc |-> finding.cve = "listed"]

Init ==
    /\ finding \in Finding
    /\ asset \in Enriched \cup {AutoCreated, None}
    /\ feeds \in Feeds
    /\ outage = {}
    /\ stale = FALSE
    /\ decision = None
    /\ recommendation = None

\* The finding is (re)ingested with a detection time of its own.  A missing asset
\* stays missing, for its discovery fails, and the default is used.
Evaluate ==
    /\ stale' \in BOOLEAN
    /\ decision' = [by |-> "evaluate",
                    context |-> IF asset = None THEN NeutralContext ELSE asset,
                    severity |-> NormalizeSeverity(finding),
                    threat |-> FetchThreat,
                    stale |-> stale']
    /\ recommendation' = Generated(decision')
    /\ UNCHANGED <<finding, asset, feeds, outage>>

MutRecalculateKeepsRow ==
    /\ decision # None
    /\ decision' = [by |-> "recalculate",
                    context |-> NeutralContext,
                    severity |-> NormalizeSeverity(finding),
                    threat |-> FetchThreat,
                    stale |-> stale]
    /\ UNCHANGED <<finding, asset, feeds, outage, stale, recommendation>>

\* asset_repo is None, so the context is always the default.
Recalculate ==
    /\ decision # None
    /\ decision' = [by |-> "recalculate",
                    context |-> NeutralContext,
                    severity |-> NormalizeSeverity(finding),
                    threat |-> FetchThreat,
                    stale |-> stale]
    /\ recommendation' = Replaced(decision')
    /\ UNCHANGED <<finding, asset, feeds, outage, stale>>

\* Thirty days pass.
Age ==
    /\ stale' = TRUE
    /\ UNCHANGED <<finding, asset, feeds, outage, decision, recommendation>>

\* The inventory describes the asset (AssetRepository.save), or enters it with the
\* defaults only.
Enrich ==
    /\ asset' \in Enriched \cup {AutoCreated}
    /\ UNCHANGED <<finding, feeds, outage, stale, decision, recommendation>>

\* EPSS re-scores the CVE, KEV lists or delists it.
FeedsChange ==
    /\ feeds' \in Feeds
    /\ UNCHANGED <<finding, asset, outage, stale, decision, recommendation>>

Outage ==
    /\ outage' \in SUBSET {"epss", "kev"}
    /\ UNCHANGED <<finding, asset, feeds, stale, decision, recommendation>>

Next == Evaluate \/ Recalculate \/ Age \/ Enrich \/ FeedsChange \/ Outage

Spec == Init /\ [][Next]_vars

-----------------------------------------------------------------------------
(* Properties                                                              *)

FinalInRange(final) == 0 <= final /\ final <= 1000000

\* calculate_raw_bis and RiskScore raise on a driver or score outside 0..100
\* and on a multiplier outside 0.7..1.0.
InRange(b) ==
    /\ \A d \in DOMAIN Drivers(b) : Drivers(b)[d] \in 0..100
    /\ Multiplier(b) \in 70..100
    /\ FinalInRange(FinalBIS(b))

\* No finding and no context is ever rejected, which would turn the evaluation
\* into a 500.
TypeOK ==
    /\ finding \in Finding
    /\ asset \in BusinessContext \cup {None}
    /\ feeds \in Feeds
    /\ outage \subseteq {"epss", "kev"}
    /\ stale \in BOOLEAN
    /\ decision \in Basis \cup {None}
    /\ decision # None => InRange(decision)
    /\ recommendation \in Recommendations \cup {None}

\* Data quality alone never decides a priority: between two decisions with
\* the same five drivers, whatever confidence was lost or gained (owner, age),
\* the tier moves by at most one.  This is what the 0.7 floor of the
\* multiplier buys.
ConfidenceMovesOneTier ==
    [][decision # None /\ Drivers(decision) = Drivers(decision') =>
          Tier(decision') - Tier(decision) \in -1..1]_vars

\* t says at least as much against the CVE as s; whether a public exploit is
\* known is a constant of the code.
Escalates(s, t) ==
    /\ s # NoContext /\ t # NoContext
    /\ s.epss # None => t.epss # None /\ s.epss <= t.epss
    /\ s.kev => t.kev
    /\ s.poc = t.poc

\* News that only makes a vulnerability look worse never lowers its score,
\* with one exception built into exploitability_score: the fixed 92 of a KEV
\* listing replaces an EPSS above 92 %.
EscalationNeverLowers ==
    [][/\ decision # None
       /\ decision.context = decision'.context
       /\ decision.stale = decision'.stale
       /\ Escalates(decision.threat, decision'.threat)
       /\ ~(decision'.threat.kev /\ ~decision.threat.kev
            /\ decision.threat.epss # None /\ decision.threat.epss > 92)
       => FinalBIS(decision') >= FinalBIS(decision)]_vars

\* The stored recommendation asks for the priority of the latest decision,
\* written as a level by evaluations and as a tier by recalculations: no
\* decision is left with the recommendation of an earlier one.
RecommendationFollowsDecision ==
    decision # None =>
        recommendation.priority \in {Priority(Tier(decision)).level,
                                    TierName(Tier(decision))}

\* The same data gives the same score through either endpoint.
SameFacts ==
    /\ decision # None /\ decision.by = "evaluate"
    /\ decision'.by = "recalculate"
    /\ decision.threat = decision'.threat
    /\ decision.stale = decision'.stale

\* For an asset that nobody described, or that was entered with the defaults of
\* passive discovery, a recalculation gives the score of the evaluation: the three
\* copies of the neutral values (evaluate_finding.py, recalculate.py,
\* asset_repo.py) agree.
DiscoveredRecalculatesEqual ==
    [][SameFacts /\ decision.context = AutoCreated =>
          FinalBIS(decision') = FinalBIS(decision)]_vars

DataOrder == <<"public", "internal", "confidential", "regulated">>
RevenueOrder == <<"none", "low", "medium", "high">>
ExposureOrder == <<"internal-only", "customer-authenticated", "customer-facing",
                   "internet-facing">>

UpTo(order, x, y) ==
    \E i, j \in DOMAIN order : i <= j /\ order[i] = x /\ order[j] = y

\* Nothing that context d says of the asset makes it matter less than c does.
MattersMore(c, d) ==
    /\ c.importance <= d.importance /\ c.dependents <= d.dependents
    /\ (c.owner => d.owner) /\ (c.compliance => d.compliance)
    /\ UpTo(DataOrder, c.data, d.data)
    /\ UpTo(RevenueOrder, c.revenue, d.revenue)
    /\ UpTo(ExposureOrder, c.exposure, d.exposure)

\* A description that makes the asset matter more never lowers the score: no cap
\* of business_impact_score, no bonus for its dependents and no confidence in its
\* owner turns the order round.
DescriptionNeverLowers ==
    [][/\ decision # None
       /\ decision.threat = decision'.threat
       /\ decision.stale = decision'.stale
       /\ MattersMore(decision.context, decision'.context)
       => FinalBIS(decision') >= FinalBIS(decision)]_vars

\* What the neutral context of a recalculation costs a described asset: where its
\* description differs, the score falls and never rises ...
RecalculationNeverRaises ==
    [][SameFacts /\ MattersMore(NeutralContext, decision.context) =>
          FinalBIS(decision') <= FinalBIS(decision)]_vars

\* ... and it is Medium at most, for the most severe finding with a CVE that KEV
\* lists and EPSS is certain of, as it is for an asset nobody has described.
NeutralAtMostMedium ==
    decision # None
    /\ (decision.by = "recalculate" \/ decision.context = AutoCreated) =>
        Tier(decision) \in {0, 1}

-----------------------------------------------------------------------------
(* What the code says and does not do                                      *)

\* README.md: "Risk scoring is deterministic, auditable": recalculating a
\* finding none of whose data changed reproduces its score.
RecalculationReproduces ==
    [][SameFacts /\ decision.context = asset =>
          FinalBIS(decision') = FinalBIS(decision)]_vars
=============================================================================
