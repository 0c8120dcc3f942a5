SPECIFICATION FairSpec
CONSTANTS
    NumThreads = 3
    MINIMUM_CHUNK_SIZE = 2
    MaxOps = 1
    OprfLengths = {1, 2}
PROPERTIES OprfReturns
CHECK_DEADLOCK FALSE
