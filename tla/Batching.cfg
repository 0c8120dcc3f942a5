SPECIFICATION FairSpec
CONSTANTS
    NumThreads = 3
    MINIMUM_CHUNK_SIZE = 2
    BatchSizes <- AllSizes
    Lengths = {0, 1, 2, 4, 7, 11, 12, 22}
    GroupedLengths = {2, 4, 6, 9, 12}
    Divisors = {1, 2, 3, 4}
INVARIANTS EachElementOnce GroupsNotSplit BatchCountBounded
PROPERTIES CallsReturn
