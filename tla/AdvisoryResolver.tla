-------------------------- MODULE AdvisoryResolver --------------------------
(***************************************************************************)
(* core/model_availability.py, core/model_capabilities.py and              *)
(* core/model_resolver.py: what a probe's answer may say, and the outcome  *)
(* of every configured model of a role, as a function of what is known.    *)
(* Nothing here keeps state.                                               *)
(***************************************************************************)
EXTENDS ModelPolicy, ModelEvidence

CONSTANT Builtin    \* BUILTIN_CAPABILITY_PROFILES, for the models that have one

ASSUME BuiltinAssumption == \A m \in DOMAIN Builtin : Builtin[m] \subseteq Capabilities

-----------------------------------------------------------------------------
\* An availability record. checked: the time of the probe, Never without one;
\* timed: it has a latency.
Record ==
    [ model : Models, status : {"AVAILABLE", "UNAVAILABLE", "UNKNOWN"},
      freshness : {"FRESH", "STALE", "UNKNOWN"}, checked : Nat \cup {Never},
      timed : BOOLEAN, provenance : {"offline", "unsupported", "probe"} ]

\* ModelAvailabilityRecord.__post_init__ raises otherwise.
RecordOK(r) ==
    /\ r.status = "AVAILABLE" => r.freshness = "FRESH" /\ r.checked # Never /\ r.timed
    /\ r.provenance # "probe" =>
          /\ r.status = "UNKNOWN" /\ r.freshness = "UNKNOWN"
          /\ r.checked = Never /\ ~r.timed

\* observe_model_offline.
Offline(m) ==
    [ model |-> m, status |-> "UNKNOWN", freshness |-> "UNKNOWN", checked |-> Never,
      timed |-> FALSE, provenance |-> "offline" ]

\* Breaks TypeOK: the answer's own consistency is not looked at.
ProbeAccepted_Defect(m, r) == r.model = m

\* probe_model_availability with an adapter raises otherwise; without one it
\* answers as offline, with another provenance.
ProbeAccepted(m, r) == RecordOK(r) /\ r.model = m

\* assess_role_compatibility.
Compatibility(m, hints) ==
    IF m \notin DOMAIN Builtin THEN "metadata-unavailable"
    ELSE IF ~ hints \subseteq Capabilities THEN "unknown-capability-hint"
    ELSE IF ~ hints \subseteq Builtin[m] THEN "capability-incompatible"
    ELSE "compatible"

-----------------------------------------------------------------------------
Reasons ==
    { "not-discovered", "unavailable", "availability-unknown", "metadata-unavailable",
      "unknown-capability-hint", "capability-incompatible",
      "insufficient-intelligence-evidence", "recommended" }

\* _classify: the reasons, in the order of the gates.
\* Breaks DoctorRecommendsNothing: only an UNAVAILABLE model is stopped.
Reason_Defect(m, hints, discovered, record, ranking) ==
    IF m \notin discovered THEN "not-discovered"
    ELSE IF record.status = "UNAVAILABLE" THEN "unavailable"
    ELSE IF Compatibility(m, hints) # "compatible" THEN Compatibility(m, hints)
    ELSE IF m \notin ToSet(ranking) THEN "insufficient-intelligence-evidence"
    ELSE "recommended"

Reason(m, hints, discovered, record, ranking) ==
    IF m \notin discovered THEN "not-discovered"
    ELSE IF record.status = "UNAVAILABLE" THEN "unavailable"
    ELSE IF record.status = "UNKNOWN" THEN "availability-unknown"
    ELSE IF Compatibility(m, hints) # "compatible" THEN Compatibility(m, hints)
    ELSE IF m \notin ToSet(ranking) THEN "insufficient-intelligence-evidence"
    ELSE "recommended"

Outcome(reason) ==
    IF reason = "recommended" THEN "RECOMMENDED"
    ELSE IF reason \in {"not-discovered", "unavailable"} THEN "REJECTED"
    ELSE "UNRESOLVED"

\* RoleResolution.outcome.
RoleOutcome(reasons) ==
    LET outcomes == {Outcome(reasons[i]) : i \in DOMAIN reasons}
    IN  IF "RECOMMENDED" \in outcomes THEN "RECOMMENDED"
        ELSE IF "UNRESOLVED" \in outcomes THEN "UNRESOLVED"
        ELSE IF "REJECTED" \in outcomes THEN "REJECTED"
        ELSE "UNKNOWN"

\* resolve_role for a valid configuration. records: what is known of each model.
\* recommended comes out in the order of the ranking. If the ranking raises, so
\* does the resolution.
Resolution(c, role, discovered, records, profiles) ==
    LET names == Identifiers(c, role)
        ranking == Recommendations(role, profiles)
        reason(m) == Reason(m, c.view[role].hints, discovered, records[m], ranking)
        reasons == [i \in DOMAIN names |-> reason(names[i])]
        chosen == {i \in DOMAIN ranking :
                      ranking[i] \in ToSet(names) /\ reason(ranking[i]) = "recommended"}
    IN  IF Raises(role, profiles)
        THEN [outcome |-> "raised", reasons |-> << >>, recommended |-> << >>]
        ELSE [ outcome |-> RoleOutcome(reasons), reasons |-> reasons,
               recommended |-> Subsequence(ranking, chosen) ]
=============================================================================
