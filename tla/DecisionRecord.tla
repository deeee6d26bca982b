--------------------------- MODULE DecisionRecord ---------------------------
(***************************************************************************)
(* How a decision of Scoring is stored in risk_scores and score_drivers    *)
(* (DecisionMapper.to_model, DecisionRepository.save), built again from    *)
(* the rows (DecisionMapper.to_domain) and answered by GET /risk/{id}      *)
(* (use_cases/get_decision.py).  Reading computes the raw score and the    *)
(* multiplier a second time, by formulas of its own, and runs every check  *)
(* of the value objects again: a row they refuse can never be read.        *)
(*                                                                         *)
(* Texts (explanations, next action, owner) are left out.  The deductions  *)
(* are not stored: a decision read back has none.                          *)
(***************************************************************************)
EXTENDS Scoring

\* What was deducted from the confidence, in percent (Confidence.create).
Deductions(b) ==
    [factor \in {f \in {"no_asset_owner", "stale_finding", "no_threat_intel",
                        "single_source"} :
                    \/ f = "no_asset_owner" /\ ~b.context.owner
                    \/ f = "stale_finding" /\ b.stale
                    \/ f = "no_threat_intel" /\ ~IsExploitable(b.threat)
                    \/ f = "single_source"} |->
        IF factor \in {"no_asset_owner", "stale_finding"} THEN 20 ELSE 10]

\* to_detailed_breakdown: the categories follow from the deductions alone.
Breakdown(deductions) ==
    LET full(f) == f \notin DOMAIN deductions
    IN  [asset_information |-> 60 + Points(full("no_asset_owner"), 40),
         business_information |-> 100,
         threat_intelligence |-> Points(full("no_threat_intel"), 100),
         historical_information |-> Points(full("stale_finding"), 100),
         data_completeness |-> Points(full("single_source"), 100),
         deductions |-> deductions]

\* The rows of a decision.
Stored(b) ==
    [bis |-> FinalBIS(b), tier |-> TierName(Tier(b)),
     confidence |-> Confidence(b), drivers |-> Drivers(b)]

MutRawOfDrivers(d) ==
    25 * d.asset_importance + 20 * d.vulnerability_severity
    + 20 * d.exploitability + 25 * d.business_impact + 10 * d.exposure

\* Drivers.raw_bis
RawOfDrivers(d) ==
    25 * d.asset_importance + 20 * d.vulnerability_severity
    + 25 * d.exploitability + 20 * d.business_impact + 10 * d.exposure

\* DecisionMapper.to_domain
ReadBack(row) ==
    [raw |-> RawOfDrivers(row.drivers), final |-> row.bis,
     multiplier |-> 70 + 3 * row.confidence, tier |-> row.tier,
     confidence |-> row.confidence, drivers |-> row.drivers,
     deductions |-> <<>>]

\* __post_init__ of the parts and of the Decision made of them, which raise.
DriversAccepted(d) == \A f \in DOMAIN d.drivers : d.drivers[f] \in 0..100

RiskScoreAccepted(d) ==
    /\ 0 <= d.raw /\ d.raw <= 10000
    /\ 0 <= d.final /\ d.final <= 1000000
    /\ 70 <= d.multiplier /\ d.multiplier <= 100

ConfidenceAccepted(d) == 0 <= d.confidence /\ d.confidence <= 10

Accepted(d) ==
    DriversAccepted(d) /\ RiskScoreAccepted(d) /\ ConfidenceAccepted(d)

\* PriorityTier(decision.tier)
TierOfName(name) == CHOOSE t \in 0..3 : TierName(t) = name

\* What the evaluation answered.
Evaluated(b) ==
    [risk_score |-> Rounded(FinalBIS(b)), tier |-> TierName(Tier(b)),
     priority |-> Priority(Tier(b)), confidence |-> 10 * Confidence(b),
     breakdown |-> Breakdown(Deductions(b)), drivers |-> Drivers(b)]

\* What GetDecision answers from the decision it has read.
Decided(d) ==
    [risk_score |-> Rounded(d.final), tier |-> d.tier,
     priority |-> Priority(TierOfName(d.tier)),
     confidence |-> 10 * d.confidence,
     breakdown |-> Breakdown(d.deductions), drivers |-> d.drivers]

\* Every stored decision can be read: no check that passed when it was made
\* fails on the recomputed parts, and the raw score and the multiplier, which
\* are not stored, still multiply to the final score that is.  GET /risk/{id}
\* then gives the numbers that the evaluation was answered with, with one
\* exception: its breakdown shows a complete decision, whatever was deducted.
ReadBackFaithful ==
    decision # None =>
        LET d == ReadBack(Stored(decision))
        IN  /\ Accepted(d)
            /\ d.raw * d.multiplier = d.final
            /\ Decided(d) = [Evaluated(decision) EXCEPT
                                 !.breakdown = Breakdown(<<>>)]
=============================================================================
