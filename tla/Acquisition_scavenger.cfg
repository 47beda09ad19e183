SPECIFICATION AcquisitionSpec
CONSTANTS
    j1 = j1
    w1 = w1
    w2 = w2
    Jobs = {j1}
    Workers = {w1}
    Null = Null
    Stages = {"ACQUIRED"}
    LeaseSeconds = 1
    BaseDelay = 1
    MaxDelay = 1
    JitterPct = 0
    MaxTxAge = 1
    Contents = {"a"}
    Valid = {"a"}
    MaxSourceBytes = 2
    MaxAttemptBytes = 2
    BufferBytes = 0
    Size <- MCSize
    WorkerId <- MCWorkerId
    Document <- MCDocument
    Priority <- MCPriority
    MaxAttempts <- MCMaxAttempts
PROPERTIES
    LiveWorkspaceIsKept
