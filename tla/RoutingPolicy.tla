--------------------------- MODULE RoutingPolicy ---------------------------
(***************************************************************************)
(* core/runtime_routing_policy.py: what a loaded RuntimePolicy says.  The  *)
(* loader rejects every file that breaks one of the assumptions below; the *)
(* compatibility views it also checks (boss_chains, role_weights,          *)
(* reviewer_tables) repeat operator_policy, which alone decides.           *)
(***************************************************************************)
EXTENDS Integers, Sequences

CONSTANTS
    Endpoint,       \* keys of endpoint_resolution
    NoEndpoint,     \* no selection
    Active,         \* the endpoints enabled, verified and eligible
    Domain,         \* keys of failure_domains
    Unknown,        \* the domain of an endpoint that none of them lists
    DomainOrder,    \* failure_domains, in the order of the file
    DomainEndpoints,\* failure_domains: the endpoints of each domain
    GroupOf,        \* the independence group of each endpoint
    Chain,          \* operator_policy: the candidates of each role, in order
    OxAlpha,        \* the endpoint of the opportunistic overlay
    OxDomain,       \* its failure domain
    OxOverlay,      \* ox_overlay
    OverlayTable    \* role_weights.STANDARD_WORKER.*.overlay, in order

WorkerRole == {"SCOUT", "STANDARD_WORKER", "DEEP_WORKER"}
RoutedRole == WorkerRole \cup {"BOSS", "VERIFIER"}

\* A chain of candidates lists no endpoint twice.
Ordered(chain) ==
    /\ chain \in Seq(Endpoint)
    /\ chain # << >>
    /\ \A i, j \in DOMAIN chain : chain[i] = chain[j] => i = j

\* What load_runtime_policy validates.  It lets pass, and the shipped policy
\* does not have, a domain with the name "unknown", which is what _domain_of says
\* of an endpoint that no domain lists, and an independence group without a
\* reviewer table, for which select_reviewer raises.
ASSUME PolicyAssumption ==
    /\ NoEndpoint \notin Endpoint
    /\ Active \subseteq Endpoint
    /\ Unknown \notin Domain
    /\ DomainOrder \in Seq(Domain)
    /\ \A d \in Domain : \E i \in DOMAIN DomainOrder : DomainOrder[i] = d
    /\ DomainEndpoints \in [Domain -> SUBSET Endpoint]
    /\ DOMAIN GroupOf = Endpoint
    /\ DOMAIN Chain = RoutedRole
    /\ \A r \in RoutedRole : Ordered(Chain[r])
    /\ OxAlpha \in Endpoint
    /\ OxDomain \in Domain \cup {Unknown}
    /\ OxOverlay \in {"disabled", "enabled", "auto"}
    /\ Ordered(OverlayTable)

FirstOf(S) == CHOOSE i \in S : \A j \in S : i <= j

\* _domain_of: the first domain that lists e.  Nothing keeps an endpoint out of
\* a second one.
DomainOf(e) ==
    LET listing == {i \in DOMAIN DomainOrder : e \in DomainEndpoints[DomainOrder[i]]}
    IN  IF listing = {} THEN Unknown ELSE DomainOrder[FirstOf(listing)]

FirstAllowed_Defect(table, excluded) ==  \* NoHealthyCandidateSkipped: the hash picks
    LET allowed == {i \in DOMAIN table : table[i] \notin excluded}
    IN  IF allowed = {} THEN NoEndpoint ELSE table[CHOOSE i \in allowed : \A j \in allowed : i >= j]
\* weighted_select: the first candidate that is not excluded.
FirstAllowed(table, excluded) ==
    LET allowed == {i \in DOMAIN table : table[i] \notin excluded}
    IN  IF allowed = {} THEN NoEndpoint ELSE table[FirstOf(allowed)]

\* _should_use_ox_overlay, up to the health query that "auto" makes.
OverlayPossible(role) ==
    role = "STANDARD_WORKER" /\ OxAlpha \in Active /\ OxOverlay # "disabled"

TableOf(role, overlay) == IF overlay THEN OverlayTable ELSE Chain[role]

\* select_reviewer, stages 2 and 4: who may review the work of endpoint imp.
Independent(e, imp) == GroupOf[e] # GroupOf[imp]

\* The candidates a selection may end on, whatever the health of the domains.
Admissible(e, role, imp) ==
    e \in Active /\ (role = "VERIFIER" => Independent(e, imp))
=============================================================================
