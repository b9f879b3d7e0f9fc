------------------------ MODULE MCInstallerLifecycle ------------------------
EXTENDS InstallerLifecycle

CONSTANTS core, agent

\* The second release changes the Core and drops the agent declaration.
Shipped == <<{core, agent}, {core}>>

Payload == <<[f \in {core, agent} |-> "p1"], [f \in {core, agent} |-> "p2"]>>

Releases == DOMAIN Shipped

\* One release alone, installed again and again.
OneShipped == <<Shipped[1]>>

OnePayload == <<Payload[1]>>
=============================================================================
