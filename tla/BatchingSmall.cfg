SPECIFICATION Spec
CONSTANTS
    NumThreads = 2
    MINIMUM_CHUNK_SIZE = 2
    BatchSizes <- DefaultDivision
    Lengths = {1}
    GroupedLengths = {1, 2}
    Divisors = {1}
INVARIANTS ProperBatchSize
