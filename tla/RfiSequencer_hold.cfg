SPECIFICATION FairSpec
CONSTANTS
    Slots = 2
    MaxItems = 3
    Workers = {w1, w2}
    Addr = {a1, a2, a3}
    NoAddr = NoAddr
PROPERTIES
    ProducerResumes
\* A closed pipeline stops.
CHECK_DEADLOCK FALSE
