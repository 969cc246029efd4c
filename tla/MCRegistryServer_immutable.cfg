SPECIFICATION ServiceSpec
CONSTANTS
    Commands = {p, q}
    p = p
    q = q
    d1 = d1
    d2 = d2
    e1 = e1
    Slots = {1, 2}
    CapabilityOf <- MCCapabilityOf
    Candidates <- MCCandidates
    MaxSequence = 3
    KeepIndexes = 1
    Sites <- MCOverlap
    Limit = 1
    Torn = Torn
    None = None
INVARIANTS
    SequencesAreImmutable
CHECK_DEADLOCK FALSE
