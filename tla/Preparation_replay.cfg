SPECIFICATION FairPreparation
CONSTANTS
    j1 = j1
    w1 = w1
    w2 = w2
    Jobs = {j1}
    Workers = {w1, w2}
    Null = Null
    Stages = {"ACQUIRED"}
    LeaseSeconds = 1
    BaseDelay = 1
    MaxDelay = 1
    JitterPct = 0
    MaxTxAge = 0
    Contents = {"a", "b"}
    Outputs = {"x"}
    Mappable = {"x"}
    PartCount = 1
    MaxBad = 1
    WorkerId <- MCWorkerId
    Document <- MCDocument
    Priority <- MCPriority
    MaxAttempts <- MCMaxAttempts
    Compat <- OtherCompat
    Ttl <- TtlGiven
INVARIANTS
    PayloadIsAuthoritative
PROPERTIES
    PointerIsFenced
    PointerSpec
    PreparationKeepsQueue
    PreparationEnds
