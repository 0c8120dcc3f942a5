SPECIFICATION Spec
CONSTANTS
    Scenarios <- ManyToMany
    Programs <- ManyToManyPrograms
INVARIANTS VectorsAligned
