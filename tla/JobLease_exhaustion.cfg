SPECIFICATION FairSpec
CONSTANTS
    j1 = j1
    j2 = j2
    j3 = j3
    w1 = w1
    w2 = w2
    Jobs = {j1, j3}
    Workers = {w1, w2}
    Null = Null
    Stages = {"APPEND"}
    LeaseSeconds = 1
    BaseDelay = 1
    MaxDelay = 1
    JitterPct = 0
    MaxTxAge = 1
    WorkerId <- MCWorkerId
    Document <- MCDocument
    Priority <- MCPriority
    MaxAttempts <- MCMaxAttempts
PROPERTIES
    ExhaustionIsTerminal
