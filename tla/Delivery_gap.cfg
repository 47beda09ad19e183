SPECIFICATION DeliverySpec
CONSTANTS
    j1 = j1
    j2 = j2
    j3 = j3
    j4 = j4
    w1 = w1
    w2 = w2
    w3 = w3
    Jobs = {j1}
    Workers = {w1, w2}
    Null = Null
    Stages = {"START", "APPEND", "FINALIZE", "READINESS", "ACTIVATE"}
    LeaseSeconds = 2
    BaseDelay = 1
    MaxDelay = 1
    JitterPct = 0
    MaxTxAge = 0
    BatchCount = 1
    RpcWindow = 1
    MaxFinalizeAttempts = 2
    MaxStatusPolls = 2
    MaxActivePolls = 2
    MaxLate = 1
    HashIsChecked = FALSE
    WorkerId <- MCWorkerId
    Document <- MCDocument
    Priority <- MCPriority
    MaxAttempts <- MCMaxAttempts
    PlanLength <- OneLength
    Content <- Plans
    Compat <- SameCompat
SYMMETRY Symmetry
INVARIANTS
    GapOnlyWithoutZone
