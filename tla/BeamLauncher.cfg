SPECIFICATION FairSpec
CONSTANTS
    Callers = {c1}
    Joiner = Joiner
    None = None
    N = 2
    MaxCalls = 2
INVARIANTS
    TypeOK
    ExecOutlivesItsThreads
    CountersTellAnEnd
PROPERTIES
    LockedJoinReturns
    LockedJoinEndsExec
\* The callers stop calling at MaxCalls.
CHECK_DEADLOCK FALSE
