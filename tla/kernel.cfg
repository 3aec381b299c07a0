\* AdaptiveHoughGpuKernel on single tracks.
CONSTANTS
    INVERSE_A = 12
    MAX_COUNT_PER_SECTION = 5
    DistanceUnit = 12
    PI = 32
    Tilt = 10
    MinEta = 1
    ZUnitSquared = 4
    PHI_BEGIN <- MinusThirtyTwo
    PHI_END = 32
    Q_OVER_PT_BEGIN <- MinusFortyEight
    Q_OVER_PT_END = 48
    Scale = 6
    RadiusAsAngle = 1500
    CorrectionFactor = 1
    Events <- SomeEvents
    Precisions <- SomePrecisions
    INVALID_PHI <- MinusThousand
    INVALID <- MinusThousand
    N_PHI_WEDGE = 4
    N_ETA_WEDGE = 2
    ETA_WEDGE_MIN <- MinusEight
    ETA_WEDGE_MAX = 8
    wedge_z_center = 0
    wedge_z_width = 4
    excess_wedge_phi_width = 8
    excess_wedge_eta_width = 1
    MAX_SECTIONS_BUFFER_SIZE = 8
    MaxSolutions = 2
    OrderCheckLevel = 3
    MIN_COUNT_CHANGES = 3
    ThresholdAngle = 5
    LOW_PT_THRESHOLD = 3
    HIGH_PT_THRESHOLD = 4
    PhiSpread = 20
    N_SIGMA_GAUSS = 2
    STDEV_CORRECTION <- CorrectionOfThreeFifths
    MIN_LINES_GAUSS = 3
    MinQOverPt = 13
    MaxDeltaR = 1
    MaxDeltaPhi = 0
SPECIFICATION FairKernelSpec
INVARIANTS
    SearchTilesRegion
    SectionsFitBuffer
    CandidatesAreExamined
    SlotsHoldAcceptedCells
    EveryPointIsSearched
PROPERTIES
    SearchEnds
