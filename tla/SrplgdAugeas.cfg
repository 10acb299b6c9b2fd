SPECIFICATION Spec
CONSTANTS
    None = None
    Mods <- Kinds
    Faults <- AllFaults
    Contexts <- Each
    MaxCommits = 3
    MaxAdmin = 2
INVARIANTS
    TypeOK
    Applied
PROPERTIES
    Converges
CHECK_DEADLOCK FALSE
