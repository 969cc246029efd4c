SPECIFICATION Spec
CONSTANTS
    identity = identity
    users = users
    None = None
    Commands = {c1, c2}
    Caps = {identity, users}
    Requires <- NoRequires
    Kinds = {"install"}
    Overlap = TRUE
    Crashes = FALSE
    IoErrors = FALSE
    MaxVersion = 1
    Bytes = {b1}
CHECK_DEADLOCK FALSE
INVARIANT AcceptedStaysInstalled
