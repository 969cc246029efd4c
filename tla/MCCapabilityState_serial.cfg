SPECIFICATION Spec
CONSTANTS
    identity = identity
    users = users
    None = None
    Commands = {c1, c2, c3}
    Caps = {identity, users}
    Requires <- MCRequires
    Kinds = {"install", "upgrade"}
    Overlap = FALSE
    Crashes = TRUE
    IoErrors = TRUE
    MaxVersion = 2
    Bytes = {b1, b2}
CHECK_DEADLOCK FALSE
SYMMETRY Symmetry
INVARIANTS TypeOK FailuresAreRolledBack DeclaredHasDocuments BuiltOnWholeState AcceptedStaysInstalled
PROPERTY ImplementsLedger
