SPECIFICATION FairSpec
CONSTANTS
    NumThreads = 3
    MINIMUM_CHUNK_SIZE = 2
    MaxOps = 3
    OprfLengths = {1, 3, 4, 7}
INVARIANTS EngineInv CallFinished Lockstep TerminateNotRaced
PROPERTIES ImplementsForkJoin CallsReturn DestructorReturns
CHECK_DEADLOCK FALSE
