SPECIFICATION LiveSpec
CONSTANTS
    Runs = {r1, r2}
    Ttl <- MCTtl
    Latency = 1
    None = None
INVARIANT TypeOK
INVARIANT ScoredOnRecent
INVARIANT FailsForSourcesOnly
PROPERTY RunsEnd
