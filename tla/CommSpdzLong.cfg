SPECIFICATION FairSpec
CONSTANTS
    Scenarios <- LongVector
    Programs <- LongVectorPrograms
PROPERTIES EverybodyEnds
CHECK_DEADLOCK FALSE
