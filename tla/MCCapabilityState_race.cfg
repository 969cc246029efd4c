SPECIFICATION Spec
CONSTANTS
    identity = identity
    users = users
    None = None
    Commands = {c1, c2, c3}
    Caps = {identity}
    Requires <- NoRequires
    Kinds = {"install"}
    Overlap = TRUE
    Crashes = TRUE
    IoErrors = TRUE
    MaxVersion = 1
    Bytes = {b1, b2}
CHECK_DEADLOCK FALSE
SYMMETRY Symmetry
INVARIANT ReceiptHasItsAncestry
