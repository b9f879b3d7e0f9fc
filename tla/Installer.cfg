SPECIFICATION Spec
CONSTANTS
    core = core  agent = agent
    File = {core, agent}
    Agent = {agent}
    Release <- Releases
    Ships <- Shipped
    Bytes <- Payload
    UserBytes = {"u1", "u2"}
    MaxSlot = 2
    Mishaps = {"kill", "error", "rollback"}
INVARIANTS TypeOK NothingLost UninstallRestores RefusesOnlyUsersBytes
PROPERTIES CompletedMeansVerified PreservedStaysTheUsers MigrationAllOrNothing
