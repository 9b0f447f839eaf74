SPECIFICATION FairSpec
CONSTANTS
    Callers = {c1}
    Joiner = Joiner
    None = None
    N = 2
    MaxCalls = 1
PROPERTIES
    JoinEndsExec
\* The callers stop calling at MaxCalls.
CHECK_DEADLOCK FALSE
