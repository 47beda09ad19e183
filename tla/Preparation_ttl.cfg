SPECIFICATION PreparationSpec
CONSTANTS
    j1 = j1
    w1 = w1
    w2 = w2
    Jobs = {j1}
    Workers = {w1, w2}
    Null = Null
    Stages = {"ACQUIRED"}
    LeaseSeconds = 1
    BaseDelay = 1
    MaxDelay = 1
    JitterPct = 0
    MaxTxAge = 0
    Contents = {"a"}
    Outputs = {"x"}
    Mappable = {"x"}
    PartCount = 1
    MaxBad = 0
    WorkerId <- MCWorkerId
    Document <- MCDocument
    Priority <- MCPriority
    MaxAttempts <- MCMaxAttempts
    Compat <- SameCompat
    Ttl <- TtlAbsent
INVARIANTS
    LineageBreaksOnlyBySource
