SPECIFICATION FairSpec
CONSTANTS
    Workers = {w1, w2}
    Queues = {q1, q2}
    Keys = {k1}
    NoKey = NoKey
    MaxJobs = 2
    MaxDepth = 1
    MaxAttempts = 2
    MaxBackoff = 1
    ReapAfter = 1
    MaxOverruns = 1
    MaxCrashes = 1
    MaxRetries = 1
INVARIANTS
    DedupeLive
    OwnerExclusive
    AttemptSlack
PROPERTIES
    EventuallySettled
