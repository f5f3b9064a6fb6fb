\* The four numbers of the program.
CONSTANTS
    Count = 4
SPECIFICATION MCSpec
INVARIANTS
    InStep
PROPERTIES
    BothEnd
    EndsOrDeadlocks
