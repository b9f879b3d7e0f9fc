SPECIFICATION Spec
CONSTANTS
    core = core  agent = agent
    File = {core, agent}
    Agent = {agent}
    Release <- Releases
    Ships <- Shipped
    Bytes <- Payload
    UserBytes = {"u1", "u2"}
    MaxSlot = 2
    Mishaps = {"error", "rollback"}
INVARIANT RollbackLosesNothing
