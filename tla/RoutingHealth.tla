--------------------------- MODULE RoutingHealth ---------------------------
(***************************************************************************)
(* core/runtime_routing_health.py and the selections of route_model.py     *)
(* that read it.  health.json is replaced atomically but guarded by no     *)
(* lock: record_failure reads the file, adds its record and writes all of  *)
(* it back; a selection takes its timestamp, then reads the file once for  *)
(* the excluded endpoints and, for BOSS, VERIFIER and the "auto" overlay,  *)
(* again for each candidate.  Recorders and selections are processes.      *)
(*                                                                         *)
(* The file is the cooldown_until of each domain, 0 for no record; a       *)
(* missing or unreadable file reads as no record at all.  The writer       *)
(* ignores the count os.write returns: a file that the disk cut short is   *)
(* put in place like a whole one, cannot be parsed, and so is empty.       *)
(***************************************************************************)
EXTENDS RoutingPolicy

CONSTANTS
    Recorder,       \* processes that call record_failure
    Selector,       \* processes that run route_model.py select
    Requests,       \* <<role, implementer>> that a selection may be asked for
    Cooldowns,      \* values of cooldown_seconds
    MaxTime         \* bound: the last value of the clock

ASSUME HealthAssumption ==
    /\ Requests \subseteq RoutedRole \X (Endpoint \cup {NoEndpoint})
    /\ \A q \in Requests : q[1] = "VERIFIER" => q[2] \in Endpoint
    /\ Cooldowns \subseteq Nat \ {0}
    /\ MaxTime \in Nat

VARIABLES
    clock,     \* seconds
    health,    \* health.json: cooldown_until, by domain
    writing,   \* what a recorder is about to write, by recorder
    sel,       \* the selection each selector is at
    owed       \* history: the latest cooldown_until that a record_failure
               \* has put on file since the file was last emptied, by domain

vars == <<clock, health, writing, sel, owed>>

NoRecords == [d \in Domain |-> 0]

Untils == [Domain -> Nat]

\* A recorder between its read and its write holds the file it will write.
Idle == [domain |-> Unknown, file |-> NoRecords]

\* at: the next step.  pos and kept: the candidate under examination and the
\* positions of the ones kept.  due: history, the domains whose cooldown had
\* been recorded, and not run out, when the selection took its timestamp.
\* calm: history, the file has not been emptied since then.
Selection ==
    [ at : {"snapshot", "overlay", "pick", "walk", "filter", "done"},
      role : RoutedRole, imp : Endpoint \cup {NoEndpoint}, ts : Nat,
      excl : SUBSET Endpoint, overlay : BOOLEAN, pos : Nat, kept : SUBSET Nat,
      out : Endpoint \cup {NoEndpoint}, due : SUBSET Domain, calm : BOOLEAN ]

NoSelection ==
    [ at |-> "done", role |-> "BOSS", imp |-> NoEndpoint, ts |-> 0,
      excl |-> {}, overlay |-> FALSE, pos |-> 1, kept |-> {},
      out |-> NoEndpoint, due |-> {}, calm |-> FALSE ]

TypeOK ==
    /\ clock \in 0..MaxTime
    /\ health \in Untils
    /\ writing \in [Recorder -> [domain : Domain \cup {Unknown}, file : Untils]]
    /\ sel \in [Selector -> Selection]
    /\ owed \in Untils

Init ==
    /\ clock = 0
    /\ health = NoRecords
    /\ writing = [r \in Recorder |-> Idle]
    /\ sel = [s \in Selector |-> NoSelection]
    /\ owed = NoRecords

Later(a, b) == IF a > b THEN a ELSE b

\* domain_eligible, negated: "unknown" is never in the file.
Cooling(d, ts) == d \in Domain /\ ts < health[d]

Excluded_Defect(ts) == {d \in Domain : Cooling(d, ts)}  \* TypeOK: excluded_domains
\* excluded_endpoints
Excluded(ts) == UNION {DomainEndpoints[d] : d \in {c \in Domain : Cooling(c, ts)}}

-----------------------------------------------------------------------------
(* record_failure and clear_health.                                        *)

NewUntil_Defect(d, c) == clock + c  \* CooldownsNeverShorten: no maximum taken
NewUntil(d, c) == Later(health[d], clock + c)

\* load_health_state, and the new record put over what it returned.
Load(r, d, c) ==
    /\ writing[r] = Idle
    /\ writing' = [writing EXCEPT ![r] =
                      [domain |-> d, file |-> [health EXCEPT ![d] = NewUntil(d, c)]]]
    /\ UNCHANGED <<clock, health, sel, owed>>

\* _write_health_state, the disk having taken all of the payload: os.replace
\* puts the whole file in place at once.
Save(r) ==
    LET d == writing[r].domain
    IN  /\ d # Unknown
        /\ health' = writing[r].file
        /\ owed' = [owed EXCEPT ![d] = Later(@, writing[r].file[d])]
        /\ writing' = [writing EXCEPT ![r] = Idle]
        /\ UNCHANGED <<clock, sel>>

\* The process dies before os.replace, or a step of the write raises OSError.
Abandon(r) ==
    /\ writing[r] # Idle
    /\ writing' = [writing EXCEPT ![r] = Idle]
    /\ UNCHANGED <<clock, health, sel, owed>>

\* No record is left on file; the selections under way saw it happen.
Emptied ==
    /\ health' = NoRecords
    /\ owed' = NoRecords
    /\ sel' = [s \in Selector |-> [sel[s] EXCEPT !.calm = FALSE]]

\* The disk takes part of the payload, nobody looks at the count, and the cut
\* file replaces the good one; record_failure returns as if all were well.
SaveCut(r) ==
    /\ writing[r] # Idle
    /\ writing' = [writing EXCEPT ![r] = Idle]
    /\ Emptied
    /\ UNCHANGED clock

\* clear_health, by the operator, at any time.
ClearHealth == Emptied /\ UNCHANGED <<clock, writing>>

Tick ==
    /\ clock < MaxTime
    /\ clock' = clock + 1
    /\ UNCHANGED <<health, writing, sel, owed>>

-----------------------------------------------------------------------------
(* route_model.py select, with routing switched on.                        *)

Quiet == UNCHANGED <<clock, health, writing, owed>>

\* now_ts is taken once and used for every query of the selection.
Begin(s) ==
    /\ sel[s].at = "done"
    /\ \E q \in Requests :
          sel' = [sel EXCEPT ![s] =
                    [ NoSelection EXCEPT !.at = "snapshot", !.role = q[1], !.imp = q[2],
                      !.ts = clock, !.due = {d \in Domain : clock < owed[d]}, !.calm = TRUE ]]
    /\ Quiet

NextStep(role) ==
    IF role = "BOSS" THEN "walk"
    ELSE IF role = "VERIFIER" THEN "filter"
    ELSE IF OverlayPossible(role) THEN "overlay" ELSE "pick"

\* health_excl = excluded_endpoints(...)
Snapshot(s) ==
    /\ sel[s].at = "snapshot"
    /\ sel' = [sel EXCEPT ![s].at = NextStep(sel[s].role), ![s].excl = Excluded(sel[s].ts)]
    /\ Quiet

\* The selection of s ends with endpoint e, or with none eligible.
Ended(s, e) == [sel[s] EXCEPT !.at = "done", !.out = e, !.excl = {}, !.pos = 1, !.kept = {}]

\* The selection of s goes on to the next candidate.
Onward(s, kept) == [sel[s] EXCEPT !.pos = @ + 1, !.kept = kept]

\* _should_use_ox_overlay: "auto" asks for the health of the overlay's domain.
ChooseTable(s) ==
    /\ sel[s].at = "overlay"
    /\ sel' = [sel EXCEPT ![s].at = "pick",
                          ![s].overlay = OxOverlay = "auto" => ~Cooling(OxDomain, sel[s].ts)]
    /\ Quiet

Exclusions_Defect(s) == Endpoint \ Active  \* CooldownRespected: health left out
Exclusions(s) == sel[s].excl \cup (Endpoint \ Active)

\* select_for_role: the snapshot decides, no candidate is looked up again.
Pick(s) ==
    /\ sel[s].at = "pick"
    /\ LET table == TableOf(sel[s].role, sel[s].overlay)
       IN  sel' = [sel EXCEPT ![s] = Ended(s, FirstAllowed(table, Exclusions(s)))]
    /\ Quiet

\* shadow_boss_binding: the first candidate that is eligible when it is looked
\* up.  Neither the snapshot nor an existing Boss is passed to it.
Walk(s) ==
    /\ sel[s].at = "walk"
    /\ LET e    == Chain["BOSS"][sel[s].pos]
           last == sel[s].pos = Len(Chain["BOSS"])
       IN  \/ /\ e \in Active /\ ~Cooling(DomainOf(e), sel[s].ts)
              /\ sel' = [sel EXCEPT ![s] = Ended(s, e)]
           \/ /\ e \notin Active \/ Cooling(DomainOf(e), sel[s].ts)
              /\ sel' = [sel EXCEPT ![s] = IF last THEN Ended(s, NoEndpoint)
                                           ELSE Onward(s, {})]
    /\ Quiet

\* select_reviewer: every candidate is looked up, then the first survivor wins.
Survives(s, e) ==
    /\ Admissible(e, "VERIFIER", sel[s].imp)
    /\ e \notin sel[s].excl
    /\ ~Cooling(DomainOf(e), sel[s].ts)

Survivor(kept) == IF kept = {} THEN NoEndpoint ELSE Chain["VERIFIER"][FirstOf(kept)]

Filter(s) ==
    /\ sel[s].at = "filter"
    /\ LET i    == sel[s].pos
           kept == sel[s].kept \cup (IF Survives(s, Chain["VERIFIER"][i]) THEN {i} ELSE {})
       IN  sel' = [sel EXCEPT ![s] = IF i = Len(Chain["VERIFIER"]) THEN Ended(s, Survivor(kept))
                                     ELSE Onward(s, kept)]
    /\ Quiet

Select(s) ==
    Begin(s) \/ Snapshot(s) \/ ChooseTable(s) \/ Pick(s) \/ Walk(s) \/ Filter(s)

Record(r) ==
    \/ \E d \in Domain, c \in Cooldowns : Load(r, d, c)
    \/ Save(r)
    \/ SaveCut(r)
    \/ Abandon(r)

Next ==
    \/ Tick
    \/ ClearHealth
    \/ \E r \in Recorder : Record(r)
    \/ \E s \in Selector : Select(s)

Spec == Init /\ [][Next]_vars

-----------------------------------------------------------------------------
(* Properties.                                                             *)

\* A cooldown is never shortened: but for an operator who clears the file and a
\* write that the disk cuts short, no step moves the expiry of any domain back,
\* the writer's own or another's.
CooldownsNeverShorten ==
    [][ \/ ClearHealth
        \/ \E r \in Recorder : SaveCut(r)
        \/ \A d \in Domain : health'[d] >= health[d] ]_vars

\* The domains whose cooldowns count against an endpoint: all that list it, but
\* for a Boss, whose walk asks _domain_of alone, only the first.
JudgedBy(role, e) ==
    IF role = "BOSS" THEN {DomainOf(e)} ELSE {d \in Domain : e \in DomainEndpoints[d]}

\* A recorded failure takes effect: unless the file is emptied meanwhile, by
\* clear_health or by a write cut short, no selection ends on an endpoint that is
\* judged by a domain whose cooldown had been recorded (in whole, and not emptied
\* since) when the selection took its timestamp.
CooldownRespected ==
    \A s \in Selector :
        sel[s].at = "done" /\ sel[s].calm =>
            JudgedBy(sel[s].role, sel[s].out) \cap sel[s].due = {}

\* A healthy earlier candidate is never skipped, and a selection fails only
\* when every candidate is out, unless the file is emptied while the selection
\* runs: what is selected is admissible, a reviewer
\* outside the implementer's family, and all that stand before it are not or
\* are judged by a domain that the file still says is cooling down.
NoHealthyCandidateSkipped ==
    \A s \in Selector :
        sel[s].at = "done" /\ sel[s].calm =>
            LET table == TableOf(sel[s].role, sel[s].overlay)
                May(e) == Admissible(e, sel[s].role, sel[s].imp)
            IN  /\ sel[s].out = NoEndpoint \/ May(sel[s].out)
                /\ \A i \in DOMAIN table :
                      \/ \E j \in 1..i : table[j] = sel[s].out
                      \/ ~May(table[i])
                      \/ \E d \in JudgedBy(sel[s].role, table[i]) : Cooling(d, sel[s].ts)
=============================================================================
