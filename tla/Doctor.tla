------------------------------- MODULE Doctor -------------------------------
(***************************************************************************)
(* The advisory side of the program: scripts/doctor.py, which reads the    *)
(* configuration, the declarations and (twice, at two moments) the         *)
(* intelligence cache, and a client of the library, which discovers with   *)
(* the unified supply, probes through an adapter and asks resolve_role.    *)
(* Meanwhile commands and editors change models.yaml (ConfigureModels),    *)
(* the home changes (ModelSupply), the cache is replaced and time passes.  *)
(***************************************************************************)
EXTENDS ConfigureModels, ModelSupply, AdvisoryResolver

CONSTANTS
    Homes,          \* <<toml, home, cache>> at the start
    Caches,         \* contents of the intelligence cache
    Answers,        \* what an adapter may answer a probe
    Runtime,        \* runtime-routing.yaml: [resolution, policy]
    MaxClock,       \* bound: moments
    MaxMoves        \* bound: commands, edits, writes, ticks and probes

\* A claim and a model as a cache file of the required shape lists them.
ListedClaim ==
    [capability : STRING, score : Int, confidence : DOMAIN Confidence, ids : Seq(STRING)]

ListedModel == [identity : Models, claims : Seq(ListedClaim)]

ASSUME DoctorAssumption ==
    /\ MaxClock \in Nat /\ MaxMoves \in Nat
    /\ Roles \subseteq DOMAIN Weights
    /\ Models \subseteq ToSet(NameOrder)
    /\ Answers \subseteq Record
    /\ \A h \in Homes : h[1] \in [Sources -> Declarations] /\ h[2] \in Home /\ h[3] \in Caches
    /\ \A c \in Caches : \A i \in DOMAIN c.evidence :
          c.evidence[i].observed \in Int /\ c.evidence[i].expires \in Int
    /\ \A c \in Caches : c.models \in Seq(ListedModel)

VARIABLES
    cache,      \* model-intelligence.yaml
    clock,      \* utc_now
    records,    \* the client's availability record of each model
    report,     \* the run of Doctor
    advice,     \* what resolve_role told the client, for each role
    moves       \* how many moves were made

vars == <<file, backups, op, toml, home, reader, offered,
          cache, clock, records, report, advice, moves>>

adviceVars == <<cache, clock, records, report, advice>>

NoResolution == [outcome |-> "unasked", reasons |-> << >>, recommended |-> << >>]
NoAdvice == [r \in Roles |-> NoResolution]

Resolved ==
    [ outcome : {"unasked", "raised", "RECOMMENDED", "UNRESOLVED", "REJECTED", "UNKNOWN"},
      reasons : Seq(Reasons), recommended : Seq(Models) ]

\* What Doctor goes through, and what it has read and printed.
Report ==
    [ at : {"idle", "profiles", "agents", "intelligence", "resolutions",
            "done", "refused", "crashed"},
      config : Config \cup {NoConfig}, discovered : SUBSET Models,
      ranking : [Roles -> Seq(Models)],
      resolved : [Roles -> Resolved] ]

NoReport ==
    [ at |-> "idle", config |-> NoConfig, discovered |-> {},
      ranking |-> [r \in Roles |-> << >>], resolved |-> NoAdvice ]

Init ==
    /\ ConfigInit
    /\ Readable(file)
    /\ \E h \in Homes : toml = h[1] /\ home = h[2] /\ cache = h[3]
    /\ reader = NoReader
    /\ offered = << >>
    /\ clock = 0
    /\ records = [m \in Models |-> Offline(m)]
    /\ report = NoReport
    /\ advice = NoAdvice
    /\ moves = 0

-----------------------------------------------------------------------------
(* scripts/doctor.py                                                        *)

\* Doctor and the client only read and share nothing: a behaviour has one of them.
Running(stage) ==
    /\ reader.at = "idle"
    /\ report.at = stage
    /\ UNCHANGED <<configVars, supplyVars, moves>>

DoctorConfig ==
    /\ Running("idle")
    /\ report' = IF Readable(file)
                 THEN [report EXCEPT !.at = "profiles", !.config = file.config]
                 ELSE [report EXCEPT !.at = "refused"]
    /\ UNCHANGED <<cache, clock, records, advice>>

DoctorSource(s) ==
    /\ Running(s)
    /\ report' = [report EXCEPT !.at = IF s = "profiles" THEN "agents" ELSE "intelligence",
                                !.discovered = @ \cup DiscoverToml(toml[s])]
    /\ UNCHANGED <<cache, clock, records, advice>>

\* render_model_intelligence: ranks the discovered ACTIVE profiles. Nothing
\* catches what the ranking raises.
DoctorIntelligence ==
    LET known == {p \in Active(Profiles(cache, clock)) : p.identity \in report.discovered}
    IN  /\ Running("intelligence")
        /\ report' = IF \E r \in Roles : Raises(r, known)
                     THEN [report EXCEPT !.at = "crashed"]
                     ELSE [report EXCEPT !.at = "resolutions",
                                         !.ranking = [r \in Roles |-> Recommendations(r, known)]]
        /\ UNCHANGED <<cache, clock, records, advice>>

\* render_role_resolutions: reads the cache again, at another moment, and gives
\* the resolver all ACTIVE profiles and no availability.
DoctorResolutions ==
    LET known == Active(Profiles(cache, clock))
        offline == [m \in Models |-> Offline(m)]
    IN  /\ Running("resolutions")
        /\ report' = [report EXCEPT !.at = "done",
                !.resolved = [r \in Roles |->
                    Resolution(report.config, r, report.discovered, offline, known)]]
        /\ UNCHANGED <<cache, clock, records, advice>>

DoctorStep ==
    \/ DoctorConfig
    \/ \E s \in Sources : DoctorSource(s)
    \/ DoctorIntelligence
    \/ DoctorResolutions

-----------------------------------------------------------------------------
(* A client of the library                                                  *)

\* probe_model_availability(m) through an adapter: kept unless it raises.
Probe ==
    /\ \E m \in Models, r \in Answers :
          LET answer == [r EXCEPT !.checked = IF @ = Never THEN Never ELSE clock]
          IN  /\ ProbeAccepted(m, answer)
              /\ records' = [records EXCEPT ![m] = answer]
    /\ UNCHANGED <<configVars, supplyVars, cache, clock, report, advice>>

\* resolve_role for every role, with the supply discovered and the records kept.
Advise ==
    /\ reader.at = "done"
    /\ advice = NoAdvice
    /\ Readable(file)
    /\ advice' = [r \in Roles |->
            Resolution(file.config, r, Found, records, Profiles(cache, clock))]
    /\ UNCHANGED <<configVars, supplyVars, cache, clock, records, report, moves>>

-----------------------------------------------------------------------------
WriteCache ==
    /\ \E c \in Caches \ {cache} : cache' = c
    /\ UNCHANGED <<configVars, supplyVars, clock, records, report, advice>>

Tick ==
    /\ clock < MaxClock
    /\ clock' = clock + 1
    /\ UNCHANGED <<configVars, supplyVars, cache, records, report, advice>>

\* The moves that are bounded, and the steps of what is under way.
Move ==
    /\ moves < MaxMoves
    /\ moves' = moves + 1
    /\ \/ (Edit \/ \E p \in Operator : Ask(p)) /\ UNCHANGED <<supplyVars, adviceVars>>
       \/ (WriteToml \/ WriteHome) /\ UNCHANGED <<configVars, adviceVars>>
       \/ WriteCache
       \/ Tick
       \/ Probe

Next ==
    \/ Move
    \/ \E p \in Operator : ConfigStep(p) /\ UNCHANGED <<supplyVars, adviceVars, moves>>
    \/ report.at = "idle" /\ (StartReader \/ ReaderStep) /\ UNCHANGED <<configVars, adviceVars, moves>>
    \/ DoctorStep
    \/ Advise

Spec == Init /\ [][Next]_vars

-----------------------------------------------------------------------------
TypeOK ==
    /\ ConfigTypeOK
    /\ SupplyTypeOK
    /\ cache \in Caches
    /\ clock \in 0..MaxClock
    /\ records \in [Models -> Record] /\ \A m \in Models : RecordOK(records[m])
    /\ report \in Report
    /\ advice \in [Roles -> Resolved]
    /\ moves \in 0..MaxMoves

\* The only approved change after which verify.sh still accepts a file it accepted
\* is one that changes no order: no program writes the new order into
\* runtime-routing.yaml, and a model chosen from fallback stays there too
\* (model_policy.py:313), where verify.sh counts it twice (verify.sh:296).
OnlyNoChangeVerifies ==
    Readable(file) /\ PlanesVerify(file.config, Runtime) =>
        \A choice \in Selections :
            LET new == Apply(file.config, choice)
            IN  Applicable(file.config, choice) /\ PlanesVerify(new, Runtime) =>
                    new = file.config

\* Doctor passes no availability on (doctor.py:446), so whatever the cache says it
\* recommends no model: a role is UNRESOLVED if a configured model is declared
\* and REJECTED otherwise, unless the ranking raised.
DoctorRecommendsNothing ==
    report.at = "done" =>
        \A r \in Roles :
            LET known == ToSet(Identifiers(report.config, r)) \cap report.discovered
            IN  report.resolved[r].outcome \in
                    {"raised", IF known = {} THEN "REJECTED" ELSE "UNRESOLVED"}

\* Doctor dies of a traceback only over a discovered, current profile that claims
\* every capability of a role other than planner with a full score: the weights
\* add up to less than one there and the score to more than ten
\* (model_intelligence.py:420, doctor.py:409).
DoctorDiesOfPerfection ==
    [][ report'.at = "crashed" /\ report.at # "crashed" =>
          \E r \in Roles \ {"planner"}, p \in Active(Profiles(cache, clock)) :
              /\ p.identity \in report.discovered
              /\ \A c \in DOMAIN Weights[r] : c \in DOMAIN p.scores /\ p.scores[c] = 10
      ]_vars

\* Of two models with the same exact score, the one with less coverage is ranked
\* first only if rounding lifted its score (TIE_BREAK promises coverage second).
TieBreakExceptRounding ==
    [][ report'.at = "resolutions" /\ report.at # "resolutions" =>
          \A r \in Roles : \A i, j \in DOMAIN report'.ranking[r] :
              LET p(k) == CHOOSE x \in Profiles(cache, clock) : x.identity = report'.ranking[r][k]
              IN  i < j =>
                    /\ Score(r, p(i)) >= Score(r, p(j))
                    /\ Score(r, p(i)) = Score(r, p(j)) /\ Coverage(r, p(i)) < Coverage(r, p(j))
                          => Above(r, p(i)) > Above(r, p(j))
      ]_vars

\* resolve_role recommends a model exactly when it passes every gate: configured
\* for the role, declared or supplied, answered AVAILABLE by a probe of that very
\* model (however long ago), built-in metadata with all the hints, a current
\* profile without conflict that claims at least half of the role's weight.
AdviceByGates ==
    [][ advice' # advice =>
          \A r \in Roles : advice'[r].outcome # "raised" =>
              ToSet(advice'[r].recommended) =
                {m \in ToSet(file.config.view[r].preferred) \cup ToSet(file.config.view[r].fallback) :
                  /\ m \in Found
                  /\ records[m].model = m /\ records[m].status = "AVAILABLE"
                  /\ m \in DOMAIN Builtin /\ file.config.view[r].hints \subseteq Builtin[m]
                  /\ \E p \in Profiles(cache, clock) :
                        /\ p.identity = m /\ p.status = "ACTIVE"
                        /\ 2 * SumFunctionOnSet(Weights[r],
                                                DOMAIN Weights[r] \cap DOMAIN p.scores) >= 100}
      ]_vars

Age(status) == CASE status = "UNKNOWN" -> 1 [] status = "ACTIVE" -> 2 [] status = "STALE" -> 3
                 [] status = "CONFLICTED" -> 4

OnlyAges ==
    \A p \in Profiles(cache, clock), q \in Profiles(cache, clock)' :
        p.identity = q.identity =>
            /\ Age(p.status) <= Age(q.status)
            /\ p.status = "CONFLICTED" <=> q.status = "CONFLICTED"

\* With the cache left alone, time never makes a profile current again: it goes
\* from UNKNOWN to ACTIVE to STALE, and a conflict stays (build_profile).
AgeingIsOneWay == [][clock' # clock => OnlyAges]_vars
=============================================================================
