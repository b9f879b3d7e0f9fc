---------------------------- MODULE ModelPolicy ----------------------------
(***************************************************************************)
(* The contents of models.yaml and the pure functions over them: what      *)
(* validate_configuration accepts, what apply_role_selections makes of a   *)
(* set of choices, the chain of models a role's readers see, and how       *)
(* verify.sh compares the file with runtime-routing.yaml.  A configuration *)
(* holds every preference twice: as the view of an advisory role           *)
(* (preferred, then fallback) and as a chain of operator_policy.           *)
(***************************************************************************)
EXTENDS Naturals, Sequences, FiniteSets, SequencesExt

CONSTANTS
    Models,         \* exact model names
    Efforts,
    Labels,         \* what capability_hints may name, known or not
    Roles,          \* PUBLIC_ROLES
    OperatorRoles,  \* OPERATOR_ROLES
    OperatorOf      \* ADVISORY_TO_OPERATOR_ROLE

ASSUME PolicyAssumption ==
    /\ OperatorOf \in [Roles -> OperatorRoles]
    /\ \A r, q \in Roles : OperatorOf[r] = OperatorOf[q] => r = q

Entry == [model : Models, effort : Efforts]
View == [preferred : Seq(Models), fallback : Seq(Models), hints : SUBSET Labels]

\* << >> in place of operator_policy: a file without one.
Config == [view : [Roles -> View], policy : [OperatorRoles -> Seq(Entry)] \cup {<< >>}]

HasPolicy(c) == DOMAIN c.policy # {}

ModelsOf(chain) == [i \in DOMAIN chain |-> chain[i].model]

\* The positions of I from the first to the last, and what s holds there: the
\* list comprehensions of the code, without the recursion of SelectSeq.
Ascending(I) ==
    CHOOSE p \in [1..Cardinality(I) -> I] : \A j, k \in DOMAIN p : j < k => p[j] < p[k]

Subsequence(s, I) ==
    LET p == Ascending(I) IN [k \in DOMAIN p |-> s[p[k]]]

Without(s, e) == Subsequence(s, {i \in DOMAIN s : s[i] # e})

\* The first occurrence of each element, in order.
Firsts(s) == Subsequence(s, {i \in DOMAIN s : \A j \in 1..(i - 1) : s[j] # s[i]})

Identifiers(c, r) == Firsts(c.view[r].preferred \o c.view[r].fallback)

\* _validate_operator_policy: the chain of one operator role.
ChainValid(chain) ==
    /\ chain # << >>
    /\ IsInjective(ModelsOf(chain))

Valid(c) ==
    /\ c \in Config
    /\ \A r \in Roles :
          c.view[r].preferred # << >> /\ c.view[r].fallback # << >> /\ c.view[r].hints # {}
    /\ HasPolicy(c) =>
          /\ \A o \in OperatorRoles : ChainValid(c.policy[o])
          /\ \A r \in Roles : Identifiers(c, r) = ModelsOf(c.policy[OperatorOf[r]])

\* choice: the selections, a function from some of the roles to models.
RoleView(c, choice, r) ==
    IF r \in DOMAIN choice
    THEN [c.view[r] EXCEPT !.preferred = <<choice[r]>> \o Without(@, choice[r])]
    ELSE c.view[r]

ToFront(chain, m) ==
    Subsequence(chain, {i \in DOMAIN chain : chain[i].model = m})
        \o Subsequence(chain, {i \in DOMAIN chain : chain[i].model # m})

\* Breaks ListedChoiceHonoured: the chosen models sink to the end of the chain,
\* so that validation refuses what the operator asked for.
OperatorChain_Defect(c, choice, o) ==
    LET of == {r \in DOMAIN choice : OperatorOf[r] = o}
        m == choice[CHOOSE r \in of : TRUE]
    IN  IF of = {} THEN c.policy[o]
        ELSE Subsequence(c.policy[o], {i \in DOMAIN c.policy[o] : c.policy[o][i].model # m})
                \o Subsequence(c.policy[o], {i \in DOMAIN c.policy[o] : c.policy[o][i].model = m})

OperatorChain(c, choice, o) ==
    LET of == {r \in DOMAIN choice : OperatorOf[r] = o}
    IN  IF of = {} THEN c.policy[o] ELSE ToFront(c.policy[o], choice[CHOOSE r \in of : TRUE])

Apply(c, choice) ==
    [ view |-> [r \in Roles |-> RoleView(c, choice, r)],
      policy |-> IF HasPolicy(c)
                 THEN [o \in OperatorRoles |-> OperatorChain(c, choice, o)]
                 ELSE << >> ]

\* apply_role_selections raises otherwise.
Applicable(c, choice) ==
    /\ Valid(c)
    /\ HasPolicy(c) =>
          \A r \in DOMAIN choice :
             choice[r] \in ToSet(ModelsOf(c.policy[OperatorOf[r]]))
    /\ Valid(Apply(c, choice))

-----------------------------------------------------------------------------
(* runtime: [resolution, policy] of runtime-routing.yaml, the model and     *)
(* effort of each endpoint and the endpoints of each operator role.         *)

EndpointsFor(runtime, e) ==
    {p \in DOMAIN runtime.resolution : runtime.resolution[p] = e}

Translatable(c, runtime) ==
    \A o \in OperatorRoles : \A i \in DOMAIN c.policy[o] :
        \E p \in EndpointsFor(runtime, c.policy[o][i]) :
            EndpointsFor(runtime, c.policy[o][i]) = {p}

Translation(c, runtime) ==
    [o \in OperatorRoles |-> [i \in DOMAIN c.policy[o] |->
        CHOOSE p \in EndpointsFor(runtime, c.policy[o][i]) : TRUE]]

\* Breaks OnlyNoChangeVerifies: the policy planes are compared as sets.
PlanesVerify_Defect(c, runtime) ==
    /\ HasPolicy(c)
    /\ Translatable(c, runtime)
    /\ \A o \in OperatorRoles :
          ToSet(Translation(c, runtime)[o]) = ToSet(runtime.policy[o])
    /\ \A r \in Roles :
          Firsts(c.view[r].preferred \o c.view[r].fallback) = ModelsOf(c.policy[OperatorOf[r]])

\* verify.sh, "Verifying Canonical Auto Team Policy Planes".
PlanesVerify(c, runtime) ==
    /\ HasPolicy(c)
    /\ Translatable(c, runtime)
    /\ Translation(c, runtime) = runtime.policy
    /\ \A r \in Roles :
          c.view[r].preferred \o c.view[r].fallback = ModelsOf(c.policy[OperatorOf[r]])
=============================================================================
