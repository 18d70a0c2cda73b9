SPECIFICATION FairSpec
CONSTANTS
    Enums = {e1}
    Ticks = 6
    Starts = {1, 4}
    Requests <- SmallRequests
    DEFAULT_ENUM_COUNT = 2
    DEFAULT_ENUM_INTERVAL = 2
    DEFAULT_ENUM_TIMEOUT = 3
    MaxAnswers = 2
INVARIANTS
    Patience
PROPERTIES
    EnumEnds
    CloseEnds
