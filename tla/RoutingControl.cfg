SPECIFICATION Spec
CONSTANTS
    SOL = SOL  GROK = GROK  OPUS = OPUS  autoteam = autoteam
    BossBinding <- Skills
    RoleChain <- Chains
    VerifierChain <- Verifiers
    Family <- Families
    DefaultVerifier = OPUS
    Operator = {o1, o2}
    Selector = {s1}
    Requests <- ReviewOfSol
    MaxCommands = 2
    MaxRows = 3
SYMMETRY AnyOperator
INVARIANTS TypeOK OneCommandOnePair CommandTellsTheTruth LossBounded
