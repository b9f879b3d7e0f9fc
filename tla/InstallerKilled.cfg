SPECIFICATION Spec
CONSTANTS
    core = core  agent = agent
    File = {core, agent}
    Agent = {}
    Release = {1}
    Ships <- OneShipped
    Bytes <- OnePayload
    UserBytes = {"u1", "u2"}
    MaxSlot = 2
    Mishaps = {"kill"}
PROPERTY UninstallAlwaysRestores
