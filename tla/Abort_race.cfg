SPECIFICATION FairAbort
CONSTANTS
    r1 = r1
    r2 = r2
    r3 = r3
    Runners = {r1, r2, r3}
    Bound = {r1, r2}
    MaxAbortAttempts = 3
    MaxStatusPolls = 2
    Null = Null
INVARIANTS
    VerdictIsTrue
    RecordedEndIsTrue
PROPERTIES
    AbortEnds
