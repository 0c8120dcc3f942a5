SPECIFICATION Spec
CONSTANTS
    Programs <- AllPrograms
    KEY_BITS = 2
    INDEX = 16
    WORD_BITS = 4
    Shuffles <- SomeShuffles
    MaskOf <- SomeMask
    MASK_VALUE = 2147483647
INVARIANTS SortsCorrectly QuicksortEnds OpenedTellsNothing PermutationsServed ShufflesKeepRows
           DrawnUniformly AgreesWithReference
CHECK_DEADLOCK FALSE
