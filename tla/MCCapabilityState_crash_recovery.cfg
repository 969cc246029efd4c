SPECIFICATION Spec
CONSTANTS
    identity = identity
    users = users
    None = None
    Commands = {c1}
    Caps = {identity}
    Requires <- NoRequires
    Kinds = {"install"}
    Overlap = FALSE
    Crashes = TRUE
    IoErrors = FALSE
    MaxVersion = 1
    Bytes = {b1}
CHECK_DEADLOCK FALSE
INVARIANT RecoverableState
