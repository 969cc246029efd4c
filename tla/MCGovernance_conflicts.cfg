SPECIFICATION Spec
CONSTANTS
    alice = alice
    bob = bob
    codex = codex
    k1 = k1
    k2 = k2
    None = None
    Operation = "upgrade"
    Approvers = {alice, bob}
    Keys = {k1, k2}
    Agents = {codex, alice}
    Policies <- MCPolicies
    Bytes = {b1, b2}
    Baseline = b1
    b1 = b1
    b2 = b2
    b3 = b3
    MaxTime = 0
    Skew = 1
    MaxEdits = 2
    MaxSigned = 1
CHECK_DEADLOCK FALSE
INVARIANT ConflictsRaiseTheThreshold
