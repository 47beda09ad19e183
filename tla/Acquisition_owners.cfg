SPECIFICATION OwnersSpec
CONSTANTS
    j1 = j1
    w1 = w1
    w2 = w2
    Jobs = {j1}
    Workers = {w1, w2}
    Null = Null
    Stages = {"ACQUIRED"}
    LeaseSeconds = 1
    BaseDelay = 1
    MaxDelay = 1
    JitterPct = 0
    MaxTxAge = 0
    Contents = {"a", "over"}
    Valid = {"a", "over"}
    MaxSourceBytes = 4
    MaxAttemptBytes = 2
    BufferBytes = 1
    Size <- MCSize
    WorkerId <- MCWorkerId
    Document <- MCDocument
    Priority <- MCPriority
    MaxAttempts <- MCMaxAttempts
SYMMETRY Symmetry
INVARIANTS
    PartialIsNeverInput
    WorkspaceIsBounded
PROPERTIES
    HashIsStable
