--------------------------- MODULE ModelEvidence ---------------------------
(***************************************************************************)
(* core/model_intelligence.py: from a cache of evidence and scored claims  *)
(* and a moment to profiles, and from profiles to the ranking of a role.   *)
(* Pure functions.  Scores and coverage are exact here, in hundredths; the *)
(* program computes them in floating point, whose error in the last place  *)
(* is the constant Rounding.                                               *)
(***************************************************************************)
EXTENDS Integers, Sequences, FiniteSets, FiniteSetsExt, SequencesExt, Functions

CONSTANTS
    NameOrder,      \* every model name, in string order
    Rounding(_, _)  \* Rounding(role, scores): the last places by which the
                    \* program's score is above the exact one

Capabilities ==
    {"reasoning", "coding", "long_context", "analysis", "review", "fast", "cost_effective"}

\* ROLE_RECOMMENDATION_WEIGHTS, in percent.
Weights ==
    [ planner |-> [reasoning |-> 40, analysis |-> 25, long_context |-> 20, coding |-> 15],
      scout |-> [fast |-> 40, analysis |-> 30, cost_effective |-> 20, reasoning |-> 10],
      worker |-> [coding |-> 40, reasoning |-> 30, fast |-> 20, long_context |-> 10],
      reviewer |-> [review |-> 40, analysis |-> 30, reasoning |-> 20, long_context |-> 10] ]

ASSUME NameAssumption == NameOrder \in Seq(ToSet(NameOrder))

\* The errors are whole last places; a full planner's weights and scores are
\* exact in floating point.
ASSUME RoundingAssumption ==
    /\ \A role \in DOMAIN Weights : \A known \in SUBSET DOMAIN Weights[role] :
          \A scores \in [known -> 0..10] : Rounding(role, scores) \in Int
    /\ Rounding("planner", [c \in DOMAIN Weights.planner |-> 10]) = 0

MinCoverage == 50

Confidence == [LOW |-> 25, MEDIUM |-> 50, HIGH |-> 90]

\* A cache file: "good" if it is readable YAML with the required shape. evidence:
\* [id, observed, expires] in order, expires = Never if it has none; models:
\* [identity, claims] in order; a claim: [capability, score, confidence, ids].
Never == -1

-----------------------------------------------------------------------------
\* EvidenceRecord.freshness.
Freshness(e, now) ==
    IF e.observed > now THEN "UNKNOWN"
    ELSE IF e.expires # Never /\ now >= e.expires THEN "STALE" ELSE "ACTIVE"

\* _registry_from_cache, _claims_from_cache and profiles_from_cache raise otherwise.
Sound(cache) ==
    LET ids == {cache.evidence[i].id : i \in DOMAIN cache.evidence}
    IN  /\ Cardinality(ids) = Len(cache.evidence)
        /\ \A i \in DOMAIN cache.evidence :
              LET e == cache.evidence[i] IN e.expires # Never => e.expires >= e.observed
        /\ \A i, j \in DOMAIN cache.models :
              cache.models[i].identity = cache.models[j].identity => i = j
        /\ \A i \in DOMAIN cache.models : \A k \in DOMAIN cache.models[i].claims :
              LET c == cache.models[i].claims[k]
              IN  /\ c.ids # << >> /\ IsInjective(c.ids) /\ ToSet(c.ids) \subseteq ids
                  /\ c.score \in 0..10

\* _merge_claims: several claims of one capability must agree.
ClaimsOf(claims, capability) == {c \in ToSet(claims) : c.capability = capability}

Conflicting(claims, capability) ==
    \E c, d \in ClaimsOf(claims, capability) : <<c.score, c.confidence>> # <<d.score, d.confidence>>

Claimed(claims) == {c.capability : c \in ToSet(claims)}

\* Breaks AgeingIsOneWay: one current record makes a whole profile ACTIVE.
StatusOf_Defect(claims, freshness) ==
    IF \E c \in Claimed(claims) : Conflicting(claims, c) THEN "CONFLICTED"
    ELSE IF "ACTIVE" \in freshness THEN "ACTIVE"
    ELSE IF "STALE" \in freshness THEN "STALE"
    ELSE "UNKNOWN"

StatusOf(claims, freshness) ==
    IF \E c \in Claimed(claims) : Conflicting(claims, c) THEN "CONFLICTED"
    ELSE IF freshness = {} \/ "UNKNOWN" \in freshness THEN "UNKNOWN"
    ELSE IF "STALE" \in freshness THEN "STALE"
    ELSE "ACTIVE"

\* build_profile; conflicting claims are left out.
Profile(cache, model, now) ==
    LET agreed == {c \in Claimed(model.claims) : ~Conflicting(model.claims, c)}
        claim(c) == CHOOSE d \in ClaimsOf(model.claims, c) : TRUE
        ids == UNION {UNION {ToSet(d.ids) : d \in ClaimsOf(model.claims, c)} : c \in agreed}
        used == {e \in ToSet(cache.evidence) : e.id \in ids}
    IN  [ identity |-> model.identity,
          scores |-> [c \in agreed |-> claim(c).score],
          confidence |-> [c \in agreed |-> Confidence[claim(c).confidence]],
          status |-> StatusOf(model.claims, {Freshness(e, now) : e \in used}) ]

\* load_intelligence_cache and profiles_from_cache; Doctor turns what they raise
\* into no profiles.
Profiles(cache, now) ==
    IF cache.is = "good" /\ Sound(cache)
    THEN {Profile(cache, m, now) : m \in ToSet(cache.models)}
    ELSE {}

Active(profiles) == {p \in profiles : p.status = "ACTIVE"}

-----------------------------------------------------------------------------
(* recommend_roles                                                          *)

CoveredBy(role, p) == DOMAIN Weights[role] \cap DOMAIN p.scores

Coverage(role, p) == SumFunctionOnSet(Weights[role], CoveredBy(role, p))

Score(role, p) == SumFunction([c \in CoveredBy(role, p) |-> Weights[role][c] * p.scores[c]])

\* Of equal weight: the sum over the covered weight.
ConfidenceSum(role, p) ==
    SumFunction([c \in CoveredBy(role, p) |-> Weights[role][c] * p.confidence[c]])

\* Breaks AdviceByGates: half of the capabilities is enough, whatever they weigh.
Ranked_Defect(role, p) ==
    p.status = "ACTIVE" /\ 2 * Cardinality(CoveredBy(role, p)) >= Cardinality(DOMAIN Weights[role])

Ranked(role, p) == p.status = "ACTIVE" /\ Coverage(role, p) >= MinCoverage

Above(role, p) == Rounding(role, [c \in CoveredBy(role, p) |-> p.scores[c]])

\* Breaks DoctorDiesOfPerfection: ten itself is refused, too.
Overflows_Defect(role, p) == Ranked(role, p) /\ Score(role, p) >= 1000

\* RoleRecommendation refuses a score above 10: the whole ranking raises.
Overflows(role, p) == Ranked(role, p) /\ Score(role, p) = 1000 /\ Above(role, p) > 0

Raises(role, profiles) == \E p \in profiles : Overflows(role, p)

Position(name) == SelectInSeq(NameOrder, LAMBDA n : n = name)

\* Breaks TieBreakExceptRounding: of equal scores the lower coverage comes first.
Key_Defect(role, p, q) ==
    << Score(role, p), Above(role, p), -Coverage(role, p),
       ConfidenceSum(role, p) * Coverage(role, q), -Position(p.identity) >>

\* The sort key of recommend_roles, and of resolve_role: the confidences, which
\* are averages over the covered weights, are compared as fractions.
Key(role, p, q) ==
    << Score(role, p), Above(role, p), Coverage(role, p),
       ConfidenceSum(role, p) * Coverage(role, q), -Position(p.identity) >>

Precedes(role, p, q) ==
    LET a == Key(role, p, q)
        b == Key(role, q, p)
    IN  \E i \in DOMAIN a : a[i] > b[i] /\ \A j \in 1..(i - 1) : a[j] = b[j]

Recommendations(role, profiles) ==
    LET ranked == {p \in profiles : Ranked(role, p)}
        sorted == CHOOSE s \in [1..Cardinality(ranked) -> ranked] :
                     \A i, j \in DOMAIN s : i < j => Precedes(role, s[i], s[j])
    IN  [i \in DOMAIN sorted |-> sorted[i].identity]
=============================================================================
