SPECIFICATION Spec
CONSTANTS
    ChanCounts = {1, 2, 3, 4}
    ChunkSizes = {1, 2, 7}
    Gaps = {1, 2}
    StrategySpectra <- Spectra4
    StrategyOverlap <- Overlap4
    MaxSpectra = 6
    MaxTime = 13
INVARIANTS
    OnlyFullBuffersHandedOn
    StampIsFirstSpectrum
    LastSpectrumKept
    SufficientForAcceptedPlan
    IInv
PROPERTIES
    SuccessiveBuffersOverlap
    ImplementsSlidingWindow
\* The data ends at MaxTime.
CHECK_DEADLOCK FALSE
