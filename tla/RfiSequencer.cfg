SPECIFICATION FairSpec
CONSTANTS
    Slots = 2
    MaxItems = 4
    Workers = {w1, w2, w3}
    Addr = {a1, a2, a3}
    NoAddr = NoAddr
INVARIANTS
    IInv
    SerialisedOutput
    InOrder
    PendingKeepTheirSlot
    DestroyedWhenDrained
PROPERTIES
    ImplementsOrderedStage
    EveryItemOutput
    DestructorEnds
\* A closed pipeline stops.
CHECK_DEADLOCK FALSE
