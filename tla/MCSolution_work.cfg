SPECIFICATION FairProofSpec
CONSTANTS
    Commands = {p, q}
    p = p
    q = q
    audit = audit
    identity = identity
    tasks = tasks
    Order <- MCOrder
    Needs <- MCNeeds
    Bytes = {1, 2}
    Written = {1}
    MaxRecipe = 2
    Sites <- MCSites
    Tests = {unit, whole}
    unit = unit
    whole = whole
    Subject <- MCSubject
    Lifetime = 1
    None = None
INVARIANTS
    ProofTypeOK
    InstalledAsPlanned
PROPERTIES
    ImplementsLedger
    DriftBlocks
    AnswersAreTrue
    PlansAreKept
    AdviceCompletes
    TrustedBytesWereTested
    UndisturbedProofsAreTrusted
CHECK_DEADLOCK FALSE
