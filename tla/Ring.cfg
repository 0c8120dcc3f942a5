SPECIFICATION FairSpec
CONSTANTS
    RingSize = 3
    Sizes = {0, 1, 2}
    MaxPerCall = 4
    MaxPushes = 5
INVARIANTS RingInv NoReadAfterRelease SlotsOwned NothingLeftBehind
PROPERTIES ImplementsQueue CallsReturn
CHECK_DEADLOCK FALSE
