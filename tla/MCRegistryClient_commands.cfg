SPECIFICATION Spec
CONSTANTS
    identity = identity
    b1 = b1
    b2 = b2
    b3 = b3
    None = None
    Commands = {c1, c2, c3}
    Caps = {identity}
    Versions = {1, 2}
    Bundles = {b1, b2, b3}
    Signed <- MCSigned
CHECK_DEADLOCK FALSE
SYMMETRY Symmetry
INVARIANTS TypeOK SerialCommandsAreRecorded NoRollbackAcrossCommands NoEquivocation ReturnedBundleIsListed CachedIndexIsUsable
