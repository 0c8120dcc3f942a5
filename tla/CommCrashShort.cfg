SPECIFICATION FairSpec
CONSTANTS
    Scenarios <- OneDeath
    Programs <- OneDeathPrograms
INVARIANTS ReceivedInFull
