SPECIFICATION Spec
CONSTANTS
    SOL = SOL  GROK = GROK  OPUS = OPUS  autoteam = autoteam
    BossBinding <- Skills
    RoleChain <- Chains
    VerifierChain <- Verifiers
    Family <- Families
    DefaultVerifier = OPUS
    Operator = {o1}
    Selector = {s1}
    Requests <- ReviewOfSol
    MaxCommands = 1
    MaxRows = 2
INVARIANT AppendedEventsAreRead
