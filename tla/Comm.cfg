SPECIFICATION FairSpec
CONSTANTS
    Scenarios <- Ordinary
    Programs <- OrdinaryPrograms
INVARIANTS TypeOK VectorsAligned LeavesInOrder SeedsAgree
PROPERTIES EverybodyEnds
