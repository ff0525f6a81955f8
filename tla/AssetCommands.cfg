SPECIFICATION Spec
CONSTANTS
    Clients = {c1, c2}
    Keys <- AllKeys
    NoKey = NoKey
    Commands <- FewCommands
    Starts <- AnyStart
    MaxWrites = 3
SYMMETRY Symmetric
INVARIANTS
    TypeOK
    UndisturbedSucceeds
    RemovalCompletes
    ApplyReports
    ApplyComplete
PROPERTIES
    DiffIsTrue
    NoDuplicate
    UnspecifiedKept
