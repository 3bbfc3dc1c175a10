SPECIFICATION Spec
CONSTANTS
    yard = yard
    hall = hall
    Unset = Unset
    Absent = Absent
    LongIds <- MCLongIds
    Size = 4
    Threshold <- MCThreshold
    Second = 6
    Period = 5
    Canvases = {8}
    ModelInput = 8
    RowSets <- MCRowSets
    FrameSides = {1, 2, 3, 5, 8, 9, 12, 16}
    ImageSizes <- MCImageSizes
    Arrivals <- MCArrivals
    Rates = {0, 1, 2, 3}
    Histories <- MCHistories
    Filters <- MCFilters
    PageSizes = {1, 2, 3}
    CameraLists <- MCCameraLists
    Settings <- MCSettings
    Environments <- MCEnvironments
    HandWritten <- MCHandWritten
INVARIANTS SuppressionSound LayoutsAgree FrameOnCanvas SampledInTime
    RateOfHistory PagesComplete TableReachesDetector
CHECK_DEADLOCK FALSE
