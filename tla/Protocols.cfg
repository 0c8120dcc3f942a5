CONSTANTS
    Width = 6
    Inputs <- MCInputs
    Public = {5}
    Precisions = {0, 1}
    Divisors = {2, 5}
    Seeds = {1, 2}
    MaxOps = 3
SPECIFICATION Spec
INVARIANTS
    HonestRunsPass
    GeneratorsInStep
    ReplicasAgree
    AllOpenTheValue
PROPERTY ImplementsPlaintext
CHECK_DEADLOCK FALSE
