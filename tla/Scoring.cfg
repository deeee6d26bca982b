CONSTANTS
    Severities = {9, 100}
    EpssPercents = {5, 40, 97}
    Enriched <- MCEnriched
    None = None
SPECIFICATION Spec
INVARIANTS
    TypeOK
    RecommendationFollowsDecision
    ReadBackFaithful
PROPERTIES
    ConfidenceMovesOneTier
    EscalationNeverLowers
    DiscoveredRecalculatesEqual
