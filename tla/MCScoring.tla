----------------------------- MODULE MCScoring -----------------------------
(* Values for Scoring: one crown jewel that reaches every cap, the same    *)
(* with no owner on record, and one ordinary owned asset just below the    *)
(* Critical band.                                                          *)
EXTENDS DecisionRecord

MCEnriched ==
    {[importance |-> 100, owner |-> FALSE, data |-> "regulated",
      compliance |-> TRUE, revenue |-> "high", dependents |-> 11,
      exposure |-> "internet-facing"],
     [importance |-> 100, owner |-> TRUE, data |-> "regulated",
      compliance |-> TRUE, revenue |-> "high", dependents |-> 11,
      exposure |-> "internet-facing"],
     [importance |-> 97, owner |-> TRUE, data |-> "confidential",
      compliance |-> FALSE, revenue |-> "medium", dependents |-> 6,
      exposure |-> "customer-authenticated"]}
=============================================================================
