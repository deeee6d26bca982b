--------------------------- MODULE ScoringProofs ---------------------------
(***************************************************************************)
(* What Scoring promises for every severity, EPSS probability and business *)
(* context, not only for those of the TLC runs.                            *)
(***************************************************************************)
EXTENDS DecisionRecord, TLAPS

\* Bounds of one basis: every driver is a percentage, what calculate_raw_bis
\* demands, and confidence stays at 0.4 or above.
LEMMA DriverBounds ==
    ASSUME NEW b \in Basis
    PROVE  /\ AssetImportanceScore(b.context) \in 0..100
           /\ b.severity \in 0..100
           /\ ExploitabilityScore(b.threat) \in 0..100
           /\ BusinessImpactScore(b.context) \in 0..100
           /\ ExposureScore(b.context) \in 0..100
           /\ Confidence(b) \in 4..9
<1> DEFINE c == b.context
<1>1. c \in BusinessContext /\ b.threat \in ThreatContext \cup {NoContext}
  BY DEF Basis
<1>2. AssetImportanceScore(c) \in 0..100 /\ b.severity \in 0..100
  BY DEF AssetImportanceScore, Basis, BusinessContext
<1>3. ExploitabilityScore(b.threat) \in 0..100
  <2>1. CASE b.threat = NoContext
    BY <2>1 DEF ExploitabilityScore
  <2>2. CASE b.threat # NoContext
    <3>1. b.threat.epss # None => b.threat.epss \in 0..100
      BY <1>1, <2>2, ScoringAssumption DEF ThreatContext
    <3> QED BY <2>2, <3>1 DEF ExploitabilityScore, Greatest
  <2> QED BY <2>1, <2>2
<1>4. BusinessImpactScore(c) \in 0..100
  <2>1. c.dependents \in Nat
    BY <1>1 DEF BusinessContext
  <2> QED BY <2>1 DEF BusinessImpactScore, Least, Points
<1>5. ExposureScore(c) \in 0..100
  BY <1>1 DEF ExposureScore, Points, BusinessContext, Exposures
<1>6. Confidence(b) \in 4..9
  BY DEF Confidence, Points
<1> QED BY <1>2, <1>3, <1>4, <1>5, <1>6

\* Names for the ranges of the raw score and of the multiplier.
Raws == 0..10000
Multipliers == {82, 85, 88, 91, 94, 97}

\* final is between 82 % and 97 % of raw.
Scales(raw, final) == final \in Int /\ 82 * raw <= final /\ final <= 97 * raw

\* The five weights sum up to one, and a driver that grows makes the score grow.
LEMMA RawBounds ==
    ASSUME NEW i \in 0..100, NEW v \in 0..100, NEW e \in 0..100,
           NEW f \in 0..100, NEW x \in 0..100
    PROVE  CalculateRawBIS(i, v, e, f, x) \in Raws
BY DEF CalculateRawBIS, Raws

LEMMA RawGrows ==
    ASSUME NEW i \in 0..100, NEW v \in 0..100, NEW e \in 0..100,
           NEW f \in 0..100, NEW x \in 0..100, NEW g \in 0..100, e <= g
    PROVE  CalculateRawBIS(i, v, e, f, x) <= CalculateRawBIS(i, v, g, f, x)
BY DEF CalculateRawBIS

LEMMA RawsBounded ==
    ASSUME NEW n \in Raws
    PROVE  0 <= n /\ n <= 10000
BY DEF Raws

\* Multiplication by a multiplier, as linear arithmetic.
LEMMA Scaled ==
    ASSUME NEW n \in Raws, NEW m \in Multipliers
    PROVE  Scales(n, n * m)
<1> USE DEF Raws, Scales
<1>1. CASE m = 82 BY <1>1
<1>2. CASE m = 85 BY <1>2
<1>3. CASE m = 88 BY <1>3
<1>4. CASE m = 91 BY <1>4
<1>5. CASE m = 94 BY <1>5
<1>6. CASE m = 97 BY <1>6
<1> QED BY <1>1, <1>2, <1>3, <1>4, <1>5, <1>6 DEF Multipliers

LEMMA ScaledInRange ==
    ASSUME NEW n \in Raws, NEW f, Scales(n, f)
    PROVE  FinalInRange(f)
<1>1. f \in Int /\ 82 * n <= f /\ f <= 97 * n
  BY DEF Scales
<1>2. n \in Nat /\ n <= 10000
  BY DEF Raws
<1>3. 0 <= f
  BY <1>1, <1>2
<1>4. f <= 1000000
  BY <1>1, <1>2, SMT
<1> QED BY <1>3, <1>4, SMT DEF FinalInRange

\* A larger raw score under a larger multiplier is a larger score.
LEMMA ScaledMonotone ==
    ASSUME NEW n \in Raws, NEW k \in Raws, n <= k,
           NEW m \in Multipliers, NEW l \in Multipliers, m <= l
    PROVE  n * m <= k * l
<1> USE DEF Raws, Multipliers
<1>1. n * m <= k * m
  <2>1. CASE m = 82 BY <2>1
  <2>2. CASE m = 85 BY <2>2
  <2>3. CASE m = 88 BY <2>3
  <2>4. CASE m = 91 BY <2>4
  <2>5. CASE m = 94 BY <2>5
  <2>6. CASE m = 97 BY <2>6
  <2> QED BY <2>1, <2>2, <2>3, <2>4, <2>5, <2>6
<1>2. k * m <= k * l
  <2> SUFFICES ASSUME NEW d \in {0, 3, 6, 9, 12, 15}, l = m + d
               PROVE  k * m <= k * l
    OBVIOUS
  <2>1. CASE m = 82 BY <2>1
  <2>2. CASE m = 85 BY <2>2
  <2>3. CASE m = 88 BY <2>3
  <2>4. CASE m = 91 BY <2>4
  <2>5. CASE m = 94 BY <2>5
  <2>6. CASE m = 97 BY <2>6
  <2> QED BY <2>1, <2>2, <2>3, <2>4, <2>5, <2>6
<1>3. n * m \in Int /\ k * m \in Int /\ k * l \in Int
  OBVIOUS
<1> QED BY <1>1, <1>2, <1>3

\* Two final scores of one raw score are at most one tier apart.
LEMMA NearbyTiers ==
    ASSUME NEW n \in Raws, NEW f, NEW g, Scales(n, f), Scales(n, g)
    PROVE  GetTier(g) - GetTier(f) \in -1..1
BY SMT DEF Raws, Scales, GetTier

\* The raw score and the multiplier of every basis.
LEMMA ScoreParts ==
    ASSUME NEW b \in Basis
    PROVE  RawBIS(b) \in Raws /\ Multiplier(b) \in Multipliers
<1>1. RawBIS(b) \in Raws
  BY DriverBounds, RawBounds DEF RawBIS
<1>2. Multiplier(b) \in Multipliers
  <2>1. Confidence(b) \in 4..9
    BY DriverBounds
  <2> QED BY <2>1 DEF Multiplier, Multipliers
<1> QED BY <1>1, <1>2

LEMMA FinalScales ==
    ASSUME NEW b \in Basis
    PROVE  Scales(RawBIS(b), FinalBIS(b))
BY ScoreParts, Scaled DEF FinalBIS

-----------------------------------------------------------------------------
(* Decisions                                                               *)

\* Every decision is computed from a basis of the right type.
Typed ==
    /\ finding \in Finding
    /\ asset \in BusinessContext \cup {None}
    /\ feeds \in Feeds
    /\ outage \subseteq {"epss", "kev"}
    /\ stale \in BOOLEAN
    /\ decision \in Basis \cup {None}
    /\ decision # None => decision.severity = NormalizeSeverity(finding)
    /\ decision = None => recommendation = None
    /\ decision # None => recommendation \in {Generated(decision),
                                              Replaced(decision)}

LEMMA NeutralIsContext == NeutralContext \in BusinessContext /\ AutoCreated = NeutralContext
BY DEF NeutralContext, AutoCreated, BusinessContext, DataClasses, RevenueImpacts,
       Exposures

LEMMA NormalizedInRange ==
    ASSUME NEW f \in Finding
    PROVE  NormalizeSeverity(f) \in 0..100
<1>1. f.severity \in 0..100
  BY ScoringAssumption DEF Finding
<1> QED BY <1>1 DEF NormalizeSeverity, Least

LEMMA FetchedIsThreat ==
    ASSUME Typed
    PROVE  FetchThreat \in ThreatContext \cup {NoContext}
<1>1. feeds.epss \in EpssPercents \cup {None} /\ feeds.kev \in BOOLEAN
  BY DEF Typed, Feeds
<1> QED BY <1>1 DEF FetchThreat, ThreatContext, Typed

\* A decision, once there, is only ever replaced by another one.
LEMMA StepTyped ==
    ASSUME Typed, [Next]_vars
    PROVE  Typed' /\ (decision # None => decision' \in Basis)
<1>1. CASE Evaluate
  <2>1. asset' \in BusinessContext \cup {None} /\ stale' \in BOOLEAN
    BY <1>1 DEF Evaluate, Typed
  <2>2. (IF asset = None THEN NeutralContext ELSE asset) \in BusinessContext
    BY NeutralIsContext DEF Typed
  <2>3. decision' \in Basis
    BY <1>1, <2>1, <2>2, NormalizedInRange, FetchedIsThreat
    DEF Evaluate, Typed, Basis
  <2>4. decision'.severity = NormalizeSeverity(finding)
    BY <1>1 DEF Evaluate
  <2>5. NormalizeSeverity(finding)' = NormalizeSeverity(finding)
    BY <1>1 DEF Evaluate, NormalizeSeverity
  <2>6. recommendation' = Generated(decision)' /\ decision' # None
    BY <1>1, <2>3, NoDecisionAssumption DEF Evaluate, Generated
  <2> QED BY <1>1, <2>1, <2>3, <2>4, <2>5, <2>6 DEF Evaluate, Typed
<1>2. CASE Recalculate
  <2>1. decision' \in Basis
    BY <1>2, NeutralIsContext, NormalizedInRange, FetchedIsThreat
    DEF Recalculate, Typed, Basis
  <2>2. decision'.severity = NormalizeSeverity(finding)
    BY <1>2 DEF Recalculate
  <2>3. NormalizeSeverity(finding)' = NormalizeSeverity(finding)
    BY <1>2 DEF Recalculate, NormalizeSeverity
  <2>4. recommendation' = Replaced(decision)' /\ decision' # None
    BY <1>2, <2>1, NoDecisionAssumption DEF Recalculate, Replaced
  <2> QED BY <1>2, <2>1, <2>2, <2>3, <2>4 DEF Recalculate, Typed
<1>3. CASE UNCHANGED <<finding, decision, recommendation>> /\ (Age \/ Enrich \/ FeedsChange \/ Outage
                                               \/ UNCHANGED vars)
  <2>1. NormalizeSeverity(finding)' = NormalizeSeverity(finding)
    BY <1>3 DEF NormalizeSeverity
  <2>2. /\ asset' \in BusinessContext \cup {None} /\ feeds' \in Feeds
        /\ outage' \subseteq {"epss", "kev"} /\ stale' \in BOOLEAN
    BY <1>3, ScoringAssumption, NeutralIsContext
    DEF Age, Enrich, FeedsChange, Outage, vars, Typed
  <2>3. UNCHANGED <<Generated(decision), Replaced(decision)>>
    BY <1>3 DEF Generated, Replaced
  <2> QED BY <1>3, <2>1, <2>2, <2>3 DEF Typed
<1> QED
  BY <1>1, <1>2, <1>3 DEF Next, Age, Enrich, FeedsChange, Outage, vars

LEMMA TypedHolds == Spec => []Typed
<1>1. Init => Typed
  BY ScoringAssumption, NeutralIsContext DEF Init, Typed
<1>2. Typed /\ [Next]_vars => Typed'
  BY StepTyped
<1> QED BY <1>1, <1>2, PTL DEF Spec

\* Rounding a score keeps it a percentage.
LEMMA RoundedInRange ==
    ASSUME NEW f \in Int, FinalInRange(f)
    PROVE  Rounded(f) \in 0..100
<1> DEFINE q == f \div 10000
           r == f % 10000
<1>1. f = 10000 * q + r /\ q \in Int /\ r \in 0..9999
  OBVIOUS
<1>2. 0 <= f /\ f <= 1000000
  BY DEF FinalInRange
<1> HIDE DEF q, r
<1>3. 0 <= q /\ q <= 100 /\ (q = 100 => r = 0)
  BY <1>1, <1>2
<1>4. Points(r > 5000 \/ (r = 5000 /\ q % 2 = 1), 1)
         = (IF r > 5000 \/ (r = 5000 /\ q % 2 = 1) THEN 1 ELSE 0)
  BY DEF Points
<1>5. q + Points(r > 5000 \/ (r = 5000 /\ q % 2 = 1), 1) \in 0..100
  BY <1>1, <1>3, <1>4
<1> QED BY <1>5 DEF Rounded, q, r

LEMMA TierInRange ==
    ASSUME NEW b \in Basis
    PROVE  Tier(b) \in 0..3
BY DEF Tier, GetTier

LEMMA PriorityTyped ==
    ASSUME NEW t \in 0..3
    PROVE  {Priority(t).level, TierName(t)} \subseteq Priorities
<1>1. CASE t = 0 BY <1>1 DEF Priority, TierName, Priorities
<1>2. CASE t = 1 BY <1>2 DEF Priority, TierName, Priorities
<1>3. CASE t = 2 BY <1>3 DEF Priority, TierName, Priorities
<1>4. CASE t = 3 BY <1>4 DEF Priority, TierName, Priorities
<1> QED BY <1>1, <1>2, <1>3, <1>4

\* What either writer stores is a recommendation its entity accepts.
LEMMA RecommendationTyped ==
    ASSUME NEW b \in Basis
    PROVE  Generated(b) \in Recommendations /\ Replaced(b) \in Recommendations
<1>1. FinalBIS(b) \in Int /\ FinalInRange(FinalBIS(b))
  BY ScoreParts, FinalScales, ScaledInRange DEF Scales
<1>2. Rounded(FinalBIS(b)) \in 0..100
  BY <1>1, RoundedInRange
<1>3. Tier(b) \in 0..3
  BY TierInRange
<1>4. <<"low", "low", "medium", "high">>[Tier(b) + 1] \in {"low", "medium", "high"}
  BY <1>3
<1>5. {Priority(Tier(b)).level, TierName(Tier(b))} \subseteq Priorities
  BY <1>3, PriorityTyped
<1> QED BY <1>2, <1>4, <1>5 DEF Generated, Replaced, Recommendations

\* No evaluation or recalculation is ever rejected for a driver, a multiplier
\* or a score out of range.
THEOREM NeverRejected == Spec => []TypeOK
<1>1. ASSUME Typed, decision # None
      PROVE  InRange(decision)
  <2>1. decision \in Basis
    BY <1>1 DEF Typed
  <2>2. \A d \in DOMAIN Drivers(decision) : Drivers(decision)[d] \in 0..100
    BY <2>1, DriverBounds DEF Drivers
  <2>3. Multiplier(decision) \in 70..100
    <3>1. Multiplier(decision) \in Multipliers
      BY <2>1, ScoreParts
    <3> QED BY <3>1 DEF Multipliers
  <2>4. FinalInRange(FinalBIS(decision))
    BY <2>1, ScoreParts, FinalScales, ScaledInRange
  <2> QED BY <2>2, <2>3, <2>4 DEF InRange
<1>2. ASSUME Typed
      PROVE  recommendation \in Recommendations \cup {None}
  <2>1. CASE decision = None
    BY <1>2, <2>1 DEF Typed
  <2>2. CASE decision # None
    <3>1. decision \in Basis
      BY <1>2, <2>2 DEF Typed
    <3> QED BY <1>2, <2>2, <3>1, RecommendationTyped DEF Typed
  <2> QED BY <2>1, <2>2
<1>3. Typed => TypeOK
  BY <1>1, <1>2 DEF Typed, TypeOK
<1> QED BY <1>3, TypedHolds, PTL

\* Two multipliers of the same raw score are never two tiers apart.
LEMMA FloorHoldsTier ==
    ASSUME NEW b \in Basis, NEW c \in Basis, RawBIS(b) = RawBIS(c)
    PROVE  Tier(c) - Tier(b) \in -1..1
<1>1. Scales(RawBIS(b), FinalBIS(b)) /\ Scales(RawBIS(b), FinalBIS(c))
  BY FinalScales
<1> QED BY <1>1, ScoreParts, NearbyTiers DEF Tier

\* Losing or gaining confidence moves a decision by at most one tier.
THEOREM OneTier == Spec => ConfidenceMovesOneTier
<1>1. ASSUME Typed, [Next]_vars
      PROVE  decision # None /\ Drivers(decision) = Drivers(decision') =>
                 Tier(decision') - Tier(decision) \in -1..1
  <2> SUFFICES ASSUME decision # None, Drivers(decision) = Drivers(decision')
               PROVE  Tier(decision') - Tier(decision) \in -1..1
    OBVIOUS
  <2>1. decision \in Basis /\ decision' \in Basis
    BY <1>1, StepTyped DEF Typed
  <2>2. RawBIS(decision) = RawBIS(decision')
    <3>1. /\ Drivers(decision).asset_importance
             = Drivers(decision').asset_importance
          /\ Drivers(decision).vulnerability_severity
             = Drivers(decision').vulnerability_severity
          /\ Drivers(decision).exploitability = Drivers(decision').exploitability
          /\ Drivers(decision).business_impact
             = Drivers(decision').business_impact
          /\ Drivers(decision).exposure = Drivers(decision').exposure
      OBVIOUS
    <3> QED BY <3>1 DEF Drivers, RawBIS
  <2> QED BY <2>1, <2>2, FloorHoldsTier
<1> QED BY <1>1, TypedHolds, PTL DEF Spec, ConfidenceMovesOneTier

\* Worse news about a CVE raises its exploitability, but for a KEV listing of
\* a CVE whose EPSS is above 92 %, and its confidence never falls.
LEMMA NewsRaisesDriver ==
    ASSUME NEW s \in ThreatContext \cup {NoContext},
           NEW t \in ThreatContext \cup {NoContext},
           Escalates(s, t),
           ~(t.kev /\ ~s.kev /\ s.epss # None /\ s.epss > 92)
    PROVE  /\ ExploitabilityScore(s) <= ExploitabilityScore(t)
           /\ IsExploitable(s) => IsExploitable(t)
<1>1. /\ s # NoContext /\ t # NoContext
      /\ s.epss # None => t.epss # None /\ s.epss <= t.epss
      /\ s.kev => t.kev
      /\ s.poc = t.poc
  BY DEF Escalates
<1>2. /\ s.epss \in 0..100 \cup {None} /\ t.epss \in 0..100 \cup {None}
      /\ s.kev \in BOOLEAN /\ t.kev \in BOOLEAN
      /\ s.poc \in BOOLEAN /\ t.poc \in BOOLEAN
  BY <1>1, ScoringAssumption DEF ThreatContext
<1>3. ExploitabilityScore(s) <= ExploitabilityScore(t)
  BY <1>1, <1>2, ScoringAssumption DEF ExploitabilityScore, Greatest
<1>4. IsExploitable(s) => IsExploitable(t)
  BY <1>1, <1>2, ScoringAssumption DEF IsExploitable
<1> QED BY <1>3, <1>4

THEOREM WorseNewsNotLower == Spec => EscalationNeverLowers
<1> DEFINE Premise ==
    /\ decision # None
    /\ decision.context = decision'.context
    /\ decision.stale = decision'.stale
    /\ Escalates(decision.threat, decision'.threat)
    /\ ~(decision'.threat.kev /\ ~decision.threat.kev
         /\ decision.threat.epss # None /\ decision.threat.epss > 92)
<1>1. ASSUME Typed, [Next]_vars
      PROVE  Premise => FinalBIS(decision') >= FinalBIS(decision)
  <2> SUFFICES ASSUME Premise PROVE FinalBIS(decision') >= FinalBIS(decision)
    OBVIOUS
  <2> DEFINE b == decision
             c == decision'
  <2>1. b \in Basis /\ c \in Basis
    BY <1>1, StepTyped DEF Typed
  <2>2. b.severity = c.severity
    <3>1. finding' = finding
      BY <1>1 DEF Next, Evaluate, Recalculate, Age, Enrich, FeedsChange, Outage,
                  vars
    <3>2. Typed' /\ c # None
      BY <1>1, StepTyped, <2>1, NoDecisionAssumption
    <3> QED BY <1>1, <3>1, <3>2 DEF Typed, NormalizeSeverity
  <2>3. b.context = c.context /\ b.stale = c.stale
    OBVIOUS
  <2>4. /\ ExploitabilityScore(b.threat) <= ExploitabilityScore(c.threat)
        /\ IsExploitable(b.threat) => IsExploitable(c.threat)
    <3>1. b.threat \in ThreatContext \cup {NoContext}
          /\ c.threat \in ThreatContext \cup {NoContext}
      BY <2>1 DEF Basis
    <3> QED BY <3>1, NewsRaisesDriver
  <2> HIDE DEF b, c
  <2>5. RawBIS(b) <= RawBIS(c)
    BY <2>1, <2>2, <2>3, <2>4, DriverBounds, RawGrows DEF RawBIS
  <2>6. Multiplier(b) <= Multiplier(c)
    BY <2>3, <2>4 DEF Multiplier, Confidence, Points
  <2>7. FinalBIS(b) <= FinalBIS(c)
    <3>1. /\ RawBIS(b) \in Raws /\ RawBIS(c) \in Raws
          /\ Multiplier(b) \in Multipliers /\ Multiplier(c) \in Multipliers
      BY <2>1, ScoreParts
    <3>2. RawBIS(b) * Multiplier(b) <= RawBIS(c) * Multiplier(c)
      BY <3>1, <2>5, <2>6, ScaledMonotone
    <3> QED BY <3>2 DEF FinalBIS
  <2>8. FinalBIS(b) \in Int /\ FinalBIS(c) \in Int
    BY <2>1, FinalScales DEF Scales
  <2> QED BY <2>7, <2>8 DEF b, c
<1> QED BY <1>1, TypedHolds, PTL DEF Spec, EscalationNeverLowers

\* The three copies of the neutral context agree, so a recalculation of a
\* finding on an asset with the defaults gives the score of its evaluation.
THEOREM DiscoveredEqual == Spec => DiscoveredRecalculatesEqual
<1>1. ASSUME Typed, [Next]_vars
      PROVE  SameFacts /\ decision.context = AutoCreated =>
                 FinalBIS(decision') = FinalBIS(decision)
  <2> SUFFICES ASSUME SameFacts, decision.context = AutoCreated
               PROVE  FinalBIS(decision') = FinalBIS(decision)
    OBVIOUS
  <2>1. decision # decision'
    BY DEF SameFacts
  <2>2. \/ Recalculate
        \/ Evaluate
    BY <1>1, <2>1 DEF Next, Age, Enrich, FeedsChange, Outage, vars
  <2>3. Recalculate
    BY <2>2 DEF Evaluate, SameFacts
  <2>4. decision'.context = decision.context
    BY <2>3, NeutralIsContext DEF Recalculate
  <2>5. decision'.severity = decision.severity
    BY <1>1, <2>3 DEF Recalculate, SameFacts, Typed
  <2>6. decision'.threat = decision.threat /\ decision'.stale = decision.stale
    BY DEF SameFacts
  <2> QED
    BY <2>4, <2>5, <2>6 DEF FinalBIS, RawBIS, Multiplier, Confidence
<1> QED BY <1>1, TypedHolds, PTL DEF Spec, DiscoveredRecalculatesEqual

\* The recommendation on record always carries the latest decision's priority.
THEOREM RecommendationFollowed == Spec => []RecommendationFollowsDecision
<1>1. Typed => RecommendationFollowsDecision
  BY DEF Typed, RecommendationFollowsDecision, Generated, Replaced
<1> QED BY <1>1, TypedHolds, PTL

\* Every stored decision passes the checks of reading and is answered with the
\* numbers of its evaluation.
THEOREM ReadsBack == Spec => []ReadBackFaithful
<1>1. ASSUME NEW b \in Basis
      PROVE  /\ Accepted(ReadBack(Stored(b)))
             /\ ReadBack(Stored(b)).raw * ReadBack(Stored(b)).multiplier
                   = ReadBack(Stored(b)).final
             /\ Decided(ReadBack(Stored(b))) =
                   [Evaluated(b) EXCEPT !.breakdown = Breakdown(<<>>)]
  <2> DEFINE d == ReadBack(Stored(b))
  <2>1. /\ d.raw = RawBIS(b) /\ d.final = FinalBIS(b)
        /\ d.multiplier = Multiplier(b) /\ d.confidence = Confidence(b)
        /\ d.drivers = Drivers(b) /\ d.tier = TierName(Tier(b))
        /\ d.deductions = <<>>
    BY DEF ReadBack, Stored, RawOfDrivers, RawBIS, CalculateRawBIS, Drivers,
           Multiplier
  <2>2. \A f \in DOMAIN Drivers(b) : Drivers(b)[f] \in 0..100
    BY DriverBounds DEF Drivers
  <2>3. 0 <= RawBIS(b) /\ RawBIS(b) <= 10000 /\ Multiplier(b) \in Multipliers
    BY ScoreParts, RawsBounded
  <2>4. FinalInRange(FinalBIS(b))
    BY ScoreParts, FinalScales, ScaledInRange
  <2>5. Confidence(b) \in 4..9
    BY DriverBounds
  <2>6. TierOfName(TierName(Tier(b))) = Tier(b)
    BY TierInRange DEF TierOfName, TierName
  <2>7. Accepted(d)
    <3>0. d.raw \in Raws
      BY <2>1, ScoreParts
    <3>1. 0 <= d.raw /\ d.raw <= 10000
      BY <3>0, RawsBounded
    <3>2. 70 <= d.multiplier /\ d.multiplier <= 100
      <4> HIDE DEF d
      <4> QED BY <2>1, <2>3, SMT DEF Multipliers
    <3> QED BY <2>1, <2>2, <2>4, <2>5, <3>1, <3>2
        DEF Accepted, DriversAccepted, RiskScoreAccepted, ConfidenceAccepted,
            FinalInRange
  <2>8. d.raw * d.multiplier = d.final
    BY <2>1 DEF FinalBIS
  <2>9. Decided(d) = [Evaluated(b) EXCEPT !.breakdown = Breakdown(<<>>)]
    BY <2>1, <2>6 DEF Decided, Evaluated
  <2> QED BY <2>7, <2>8, <2>9
<1>2. Typed => ReadBackFaithful
  BY <1>1 DEF Typed, ReadBackFaithful
<1> QED BY <1>2, TypedHolds, PTL

-----------------------------------------------------------------------------
(* Describing an asset                                                     *)

LEMMA Orders ==
    /\ \A x, y : UpTo(DataOrder, x, y) =>
           \/ x = "public" /\ y \in DataClasses
           \/ x = "internal" /\ y \in {"internal", "confidential", "regulated"}
           \/ x = "confidential" /\ y \in {"confidential", "regulated"}
           \/ x = "regulated" /\ y = "regulated"
    /\ \A x, y : UpTo(RevenueOrder, x, y) =>
           \/ x = "none" /\ y \in RevenueImpacts
           \/ x = "low" /\ y \in {"low", "medium", "high"}
           \/ x = "medium" /\ y \in {"medium", "high"}
           \/ x = "high" /\ y = "high"
    /\ \A x, y : UpTo(ExposureOrder, x, y) =>
           \/ x = "internal-only" /\ y \in Exposures
           \/ x = "customer-authenticated"
              /\ y \in {"customer-authenticated", "customer-facing",
                        "internet-facing"}
           \/ x = "customer-facing" /\ y \in {"customer-facing", "internet-facing"}
           \/ x = "internet-facing" /\ y = "internet-facing"
<1>1. ASSUME NEW x, NEW y, NEW a, NEW b, NEW c, NEW d, UpTo(<<a, b, c, d>>, x, y)
      PROVE  \/ x = a /\ y \in {a, b, c, d}
             \/ x = b /\ y \in {b, c, d}
             \/ x = c /\ y \in {c, d}
             \/ x = d /\ y = d
  BY <1>1 DEF UpTo
<1>2. QED
  BY <1>1 DEF DataOrder, RevenueOrder, ExposureOrder, DataClasses, RevenueImpacts,
              Exposures

\* The points that the data class, the revenue and the dependents earn.
LEMMA ImpactGrows ==
    ASSUME NEW c \in BusinessContext, NEW d \in BusinessContext, MattersMore(c, d)
    PROVE  BusinessImpactScore(c) <= BusinessImpactScore(d)
<1> DEFINE Data(b) == Points(b.data = "regulated", 40)
                      + Points(b.data = "confidential", 25)
                      + Points(b.data = "internal", 10)
           Revenue(b) == Points(b.revenue = "low", 10)
                         + Points(b.revenue = "medium", 20)
                         + Points(b.revenue = "high", 30)
           Dependents(b) == IF b.dependents > 10 THEN 15
                            ELSE IF b.dependents > 5 THEN 10
                            ELSE IF b.dependents > 0 THEN 5 ELSE 0
           Scope(b) == Points(b.compliance, 15)
<1>1. Data(c) \in Int /\ Data(d) \in Int /\ Data(c) <= Data(d)
  <2>1. UpTo(DataOrder, c.data, d.data)
    BY DEF MattersMore
  <2> QED BY <2>1, Orders DEF Points, DataClasses
<1>2. Revenue(c) \in Int /\ Revenue(d) \in Int /\ Revenue(c) <= Revenue(d)
  <2>1. UpTo(RevenueOrder, c.revenue, d.revenue)
    BY DEF MattersMore
  <2> QED BY <2>1, Orders DEF Points, RevenueImpacts
<1>3. /\ Dependents(c) \in Int /\ Dependents(d) \in Int
      /\ Dependents(c) <= Dependents(d)
  <2>1. c.dependents \in Nat /\ d.dependents \in Nat /\ c.dependents <= d.dependents
    BY DEF MattersMore, BusinessContext
  <2> QED BY <2>1
<1>4. Scope(c) \in Int /\ Scope(d) \in Int /\ Scope(c) <= Scope(d)
  BY DEF MattersMore, Points
<1>5. /\ BusinessImpactScore(c)
             = Least(100, 20 + Data(c) + Scope(c) + Revenue(c) + Dependents(c))
      /\ BusinessImpactScore(d)
             = Least(100, 20 + Data(d) + Scope(d) + Revenue(d) + Dependents(d))
  <2>1. ASSUME NEW b \in BusinessContext
        PROVE  BusinessImpactScore(b)
                   = Least(100, 20 + Data(b) + Scope(b) + Revenue(b) + Dependents(b))
    <3> DEFINE n == 20 + Points(b.data = "regulated", 40)
                    + Points(b.data = "confidential", 25)
                    + Points(b.data = "internal", 10) + Points(b.compliance, 15)
                    + Points(b.revenue = "low", 10)
                    + Points(b.revenue = "medium", 20)
                    + Points(b.revenue = "high", 30) + Dependents(b)
    <3>1. BusinessImpactScore(b) = Least(100, n)
      BY DEF BusinessImpactScore
    <3>2. n = 20 + Data(b) + Scope(b) + Revenue(b) + Dependents(b)
      BY DEF Points
    <3> QED BY <3>1, <3>2
  <2> QED BY <2>1
<1> HIDE DEF Data, Revenue, Dependents, Scope
<1> QED BY <1>1, <1>2, <1>3, <1>4, <1>5 DEF Least

LEMMA RawGrowsAll ==
    ASSUME NEW i \in 0..100, NEW v \in 0..100, NEW e \in 0..100,
           NEW f \in 0..100, NEW x \in 0..100,
           NEW j \in 0..100, NEW g \in 0..100, NEW y \in 0..100,
           i <= j, f <= g, x <= y
    PROVE  CalculateRawBIS(i, v, e, f, x) <= CalculateRawBIS(j, v, e, g, y)
BY DEF CalculateRawBIS

\* Of two bases that differ in the context only, the one whose context makes the
\* asset matter more has the higher score.
LEMMA DescriptionOrders ==
    ASSUME NEW b \in Basis, NEW c \in Basis,
           b.severity = c.severity, b.threat = c.threat, b.stale = c.stale,
           MattersMore(b.context, c.context)
    PROVE  FinalBIS(b) <= FinalBIS(c) /\ FinalBIS(b) \in Int /\ FinalBIS(c) \in Int
<1>1. b.context \in BusinessContext /\ c.context \in BusinessContext
  BY DEF Basis
<1>2. BusinessImpactScore(b.context) <= BusinessImpactScore(c.context)
  BY <1>1, ImpactGrows
<1>3. ExposureScore(b.context) <= ExposureScore(c.context)
  <2>1. UpTo(ExposureOrder, b.context.exposure, c.context.exposure)
    BY DEF MattersMore
  <2> QED BY <2>1, Orders DEF ExposureScore, Points, Exposures
<1>4. AssetImportanceScore(b.context) <= AssetImportanceScore(c.context)
  BY DEF MattersMore, AssetImportanceScore
<1>5. RawBIS(b) <= RawBIS(c)
  BY <1>2, <1>3, <1>4, DriverBounds, RawGrowsAll DEF RawBIS
<1>6. Multiplier(b) <= Multiplier(c)
  <2>1. b.context.owner => c.context.owner
    BY DEF MattersMore
  <2> QED BY <2>1 DEF Multiplier, Confidence, Points
<1>7. /\ RawBIS(b) \in Raws /\ RawBIS(c) \in Raws
      /\ Multiplier(b) \in Multipliers /\ Multiplier(c) \in Multipliers
  BY ScoreParts
<1>8. RawBIS(b) * Multiplier(b) <= RawBIS(c) * Multiplier(c)
  BY <1>5, <1>6, <1>7, ScaledMonotone
<1> QED BY <1>8, FinalScales DEF FinalBIS, Scales

\* The severity of a finding is the same in all its decisions.
LEMMA SeverityKept ==
    ASSUME Typed, [Next]_vars, decision # None
    PROVE  decision'.severity = decision.severity
<1>1. finding' = finding
  BY DEF Next, Evaluate, Recalculate, Age, Enrich, FeedsChange, Outage, vars
<1>2. Typed' /\ decision' # None
  BY StepTyped, NoDecisionAssumption
<1> QED BY <1>1, <1>2 DEF Typed, NormalizeSeverity

\* A better description never lowers a score.
THEOREM DescribedNotLower == Spec => DescriptionNeverLowers
<1>1. ASSUME Typed, [Next]_vars
      PROVE  /\ decision # None
             /\ decision.threat = decision'.threat
             /\ decision.stale = decision'.stale
             /\ MattersMore(decision.context, decision'.context)
             => FinalBIS(decision') >= FinalBIS(decision)
  <2> SUFFICES ASSUME decision # None,
                      decision.threat = decision'.threat,
                      decision.stale = decision'.stale,
                      MattersMore(decision.context, decision'.context)
               PROVE  FinalBIS(decision') >= FinalBIS(decision)
    OBVIOUS
  <2>1. decision \in Basis /\ decision' \in Basis
    BY <1>1, StepTyped DEF Typed
  <2>2. decision.severity = decision'.severity
    BY <1>1, SeverityKept
  <2> QED BY <2>1, <2>2, DescriptionOrders
<1> QED BY <1>1, TypedHolds, PTL DEF Spec, DescriptionNeverLowers

\* A recalculation that loses the description of an asset lowers its score.
THEOREM RecalculatedNotHigher == Spec => RecalculationNeverRaises
<1>1. ASSUME Typed, [Next]_vars
      PROVE  SameFacts /\ MattersMore(NeutralContext, decision.context) =>
                 FinalBIS(decision') <= FinalBIS(decision)
  <2> SUFFICES ASSUME SameFacts, MattersMore(NeutralContext, decision.context)
               PROVE  FinalBIS(decision') <= FinalBIS(decision)
    OBVIOUS
  <2>1. decision \in Basis /\ decision' \in Basis
    BY <1>1, StepTyped DEF Typed, SameFacts
  <2>2. Recalculate
    BY <1>1 DEF Next, Evaluate, Age, Enrich, FeedsChange, Outage, vars, SameFacts
  <2>3. decision'.context = NeutralContext
    BY <2>2 DEF Recalculate
  <2>4. decision.severity = decision'.severity
    BY <1>1, SeverityKept DEF SameFacts
  <2>5. decision.threat = decision'.threat /\ decision.stale = decision'.stale
    BY DEF SameFacts
  <2> QED BY <2>1, <2>3, <2>4, <2>5, DescriptionOrders
<1> QED BY <1>1, TypedHolds, PTL DEF Spec, RecalculationNeverRaises

\* With the neutral context's three drivers and without an owner, the score is at
\* most 65.5 * 0.91.
LEMMA NeutralCapped ==
    ASSUME NEW b \in Basis, b.context = NeutralContext
    PROVE  Tier(b) \in {0, 1}
<1>1. /\ AssetImportanceScore(b.context) = 50
      /\ BusinessImpactScore(b.context) = 30
      /\ ExposureScore(b.context) = 20
      /\ ~b.context.owner
  BY DEF NeutralContext, AssetImportanceScore, BusinessImpactScore, ExposureScore,
         Points, Least
<1>2. RawBIS(b) \in 0..6550
  <2>1. b.severity \in 0..100 /\ ExploitabilityScore(b.threat) \in 0..100
    BY DriverBounds
  <2>2. RawBIS(b) = 25 * 50 + 20 * b.severity + 25 * ExploitabilityScore(b.threat)
                    + 20 * 30 + 10 * 20
    BY <1>1 DEF RawBIS, CalculateRawBIS
  <2> DEFINE v == b.severity
             x == ExploitabilityScore(b.threat)
  <2> HIDE DEF v, x
  <2>3. v \in 0..100 /\ x \in 0..100
    BY <2>1 DEF v, x
  <2>4. RawBIS(b) = 25 * 50 + 20 * v + 25 * x + 20 * 30 + 10 * 20
    BY <2>2 DEF v, x
  <2>5. 25 * 50 + 20 * v + 25 * x + 20 * 30 + 10 * 20 \in 0..6550
    BY <2>3
  <2> QED BY <2>4, <2>5
<1>3. Multiplier(b) \in {82, 85, 88, 91}
  BY <1>1 DEF Multiplier, Confidence, Points
<1>4. FinalBIS(b) \in Int /\ FinalBIS(b) < 650000
  <2> DEFINE n == RawBIS(b)
  <2> HIDE DEF n
  <2>1. n \in 0..6550
    BY <1>2 DEF n
  <2>2. CASE Multiplier(b) = 82
    <3>1. n * 82 \in Int /\ n * 82 < 650000
      BY <2>1
    <3> QED BY <2>2, <3>1 DEF FinalBIS, n
  <2>3. CASE Multiplier(b) = 85
    <3>1. n * 85 \in Int /\ n * 85 < 650000
      BY <2>1
    <3> QED BY <2>3, <3>1 DEF FinalBIS, n
  <2>4. CASE Multiplier(b) = 88
    <3>1. n * 88 \in Int /\ n * 88 < 650000
      BY <2>1
    <3> QED BY <2>4, <3>1 DEF FinalBIS, n
  <2>5. CASE Multiplier(b) = 91
    <3>1. n * 91 \in Int /\ n * 91 < 650000
      BY <2>1
    <3> QED BY <2>5, <3>1 DEF FinalBIS, n
  <2> QED BY <1>3, <2>2, <2>3, <2>4, <2>5
<1> QED BY <1>4 DEF Tier, GetTier

\* Only a described asset is ever High or Critical, and only until the finding is
\* recalculated.
THEOREM NeutralStaysMedium == Spec => []NeutralAtMostMedium
<1> DEFINE Neutral == decision # None /\ decision.by = "recalculate" =>
                          decision.context = NeutralContext
<1>1. Init => Neutral
  BY DEF Init
<1>2. Neutral /\ [Next]_vars => Neutral'
  BY DEF Next, Evaluate, Recalculate, Age, Enrich, FeedsChange, Outage, vars
<1>3. Typed /\ Neutral => NeutralAtMostMedium
  BY NeutralCapped, NeutralIsContext DEF Typed, NeutralAtMostMedium
<1> QED BY <1>1, <1>2, <1>3, TypedHolds, PTL DEF Spec
=============================================================================
