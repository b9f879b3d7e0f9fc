------------------------ MODULE RoutingHealthProofs ------------------------
(***************************************************************************)
(* Proofs about RoutingHealth for every policy, every set of selectors and *)
(* every clock.  What the cooldowns promise holds when at most one process *)
(* records failures; the run RoutingHealthLostUpdate shows two that break  *)
(* it.                                                                     *)
(***************************************************************************)
EXTENDS RoutingHealth, WellFoundedInduction, TLAPS

OneRecorder == \A r, q \in Recorder : r = q

-----------------------------------------------------------------------------
(* Choosing a candidate.                                                   *)

\* A set of positions has a first one.
LEMMA FirstOfIsMember ==
    ASSUME NEW S, S \subseteq Nat, S # {}
    PROVE  FirstOf(S) \in S /\ \A j \in S : FirstOf(S) <= j
<1> DEFINE R == {ss \in Nat \X Nat : ss[1] < ss[2]}
<1>1. IsWellFoundedOn(R, Nat)
  BY NatLessThanWellFounded, Zenon DEF OpToRel
<1>2. PICK x \in S : \A y \in S : ~ (<<y, x>> \in R)
  <2> HIDE DEF R
  <2> QED BY <1>1, WFMin
<1>3. \A y \in S : x <= y
  <2> TAKE y \in S
  <2>1. <<y, x>> \notin R
    BY <1>2
  <2> QED BY <2>1
<1> QED BY <1>3 DEF FirstOf

\* weighted_select returns a candidate of its table that is not excluded.
LEMMA FirstAllowedIsAllowed ==
    ASSUME NEW table, Ordered(table), NEW X, FirstAllowed(table, X) # NoEndpoint
    PROVE  FirstAllowed(table, X) \in Endpoint \ X
<1> DEFINE allowed == {i \in DOMAIN table : table[i] \notin X}
<1>1. allowed \subseteq Nat /\ allowed # {}
  BY DEF FirstAllowed, Ordered
<1>2. FirstOf(allowed) \in allowed
  BY <1>1, FirstOfIsMember
<1>3. FirstAllowed(table, X) = table[FirstOf(allowed)]
  BY <1>1 DEF FirstAllowed
<1> QED BY <1>2, <1>3 DEF Ordered

\* The table a worker's selection uses is a chain of endpoints.
LEMMA TableIsOrdered ==
    ASSUME NEW role \in RoutedRole, NEW overlay \in BOOLEAN
    PROVE  Ordered(TableOf(role, overlay))
BY PolicyAssumption DEF TableOf

\* _domain_of answers with a domain that lists the endpoint, or with "unknown".
LEMMA DomainOfListed ==
    ASSUME NEW e, DomainOf(e) # Unknown
    PROVE  DomainOf(e) \in Domain /\ e \in DomainEndpoints[DomainOf(e)]
<1> DEFINE listing == {i \in DOMAIN DomainOrder : e \in DomainEndpoints[DomainOrder[i]]}
<1>1. DomainOrder \in Seq(Domain)
  BY PolicyAssumption
<1>2. listing # {} /\ listing \subseteq Nat
  BY <1>1 DEF DomainOf
<1>3. FirstOf(listing) \in listing
  BY <1>2, FirstOfIsMember
<1>4. DomainOf(e) = DomainOrder[FirstOf(listing)]
  BY <1>2 DEF DomainOf
<1> HIDE DEF listing
<1>5. FirstOf(listing) \in DOMAIN DomainOrder /\ e \in DomainEndpoints[DomainOrder[FirstOf(listing)]]
  BY <1>3 DEF listing
<1> QED BY <1>1, <1>4, <1>5

\* Only domains that list an endpoint judge it.
LEMMA JudgesList ==
    ASSUME NEW role, NEW e, NEW d \in JudgedBy(role, e), d \in Domain
    PROVE  e \in DomainEndpoints[d]
<1>1. Unknown \notin Domain
  BY PolicyAssumption
<1> QED BY <1>1, DomainOfListed DEF JudgedBy

-----------------------------------------------------------------------------
(* Types.                                                                  *)

\* Only active endpoints are kept as reviewers.
KeptActive ==
    \A s \in Selector : \A i \in sel[s].kept : Chain["VERIFIER"][i] \in Active

LEMMA SurvivorIsKept ==
    ASSUME NEW kept, kept \subseteq Nat, kept # {}
    PROVE  \E i \in kept : Survivor(kept) = Chain["VERIFIER"][i]
<1>1. FirstOf(kept) \in kept
  BY FirstOfIsMember
<1> QED BY <1>1 DEF Survivor

LEMMA NoSelectionType == NoSelection \in Selection
BY DEF NoSelection, Selection, RoutedRole

\* An answered selection is a selection.
LEMMA EndedType ==
    ASSUME TypeOK, NEW s \in Selector, NEW e \in Endpoint \cup {NoEndpoint}
    PROVE  Ended(s, e) \in Selection
BY DEF TypeOK, Ended, Selection

LEMMA OnwardType ==
    ASSUME TypeOK, NEW s \in Selector, NEW kept \in SUBSET Nat
    PROVE  Onward(s, kept) \in Selection /\ Onward(s, kept).kept = kept
<1>1. sel[s] \in Selection /\ sel[s].pos + 1 \in Nat
  BY DEF TypeOK, Selection
<1>2. \A n \in Nat : [sel[s] EXCEPT !.pos = n, !.kept = kept] \in Selection
  BY <1>1 DEF Selection
<1>3. Onward(s, kept) = [sel[s] EXCEPT !.pos = sel[s].pos + 1, !.kept = kept]
  BY DEF Onward
<1> QED BY <1>1, <1>2, <1>3 DEF Selection

\* A step of one selector keeps the types when its new selection has one.
LEMMA SelectorStep ==
    ASSUME TypeOK, KeptActive, Quiet, NEW s \in Selector, NEW new \in Selection,
           sel' = [sel EXCEPT ![s] = new],
           \A i \in new.kept : Chain["VERIFIER"][i] \in Active
    PROVE  TypeOK' /\ KeptActive'
<1>1. TypeOK'
  BY DEF TypeOK, Quiet
<1>2. \A q \in Selector : sel'[q] = IF q = s THEN new ELSE sel[q]
  BY DEF TypeOK
<1>3. KeptActive'
  BY <1>2 DEF KeptActive
<1> QED BY <1>1, <1>3

\* Type correctness of each step of a selection.
LEMMA SelectKeepsTypes ==
    ASSUME TypeOK, KeptActive, NEW s \in Selector, Select(s)
    PROVE  TypeOK' /\ KeptActive'
<1>0. sel[s] \in Selection
  BY DEF TypeOK
<1>1. CASE Begin(s)
  <2>1. PICK q \in Requests :
          sel' = [sel EXCEPT ![s] =
                [ NoSelection EXCEPT !.at = "snapshot", !.role = q[1], !.imp = q[2],
                  !.ts = clock, !.due = {d \in Domain : clock < owed[d]}, !.calm = TRUE ]]
    BY <1>1 DEF Begin
  <2> DEFINE new == [ NoSelection EXCEPT !.at = "snapshot", !.role = q[1], !.imp = q[2],
                  !.ts = clock, !.due = {d \in Domain : clock < owed[d]}, !.calm = TRUE ]
  <2>2. q[1] \in RoutedRole /\ q[2] \in Endpoint \cup {NoEndpoint} /\ clock \in Nat
    BY HealthAssumption DEF TypeOK
  <2>3. new \in Selection
    BY <2>2, NoSelectionType DEF Selection
  <2>4. new.kept = {}
    BY DEF NoSelection
  <2>5. Quiet
    BY <1>1 DEF Begin
  <2> HIDE DEF new
  <2> QED BY <2>1, <2>3, <2>4, <2>5, SelectorStep DEF new
<1>2. CASE Snapshot(s)
  <2> DEFINE new == [sel[s] EXCEPT !.at = NextStep(sel[s].role), !.excl = Excluded(sel[s].ts)]
  <2>1. Excluded(sel[s].ts) \in SUBSET Endpoint
    BY PolicyAssumption DEF Excluded
  <2>2. NextStep(sel[s].role) \in {"walk", "filter", "overlay", "pick"}
    BY DEF NextStep
  <2>3. new \in Selection /\ new.kept = sel[s].kept
    BY <1>0, <2>1, <2>2 DEF Selection
  <2>4. sel' = [sel EXCEPT ![s] = new] /\ Quiet
    BY <1>2 DEF Snapshot, TypeOK
  <2> HIDE DEF new
  <2> QED BY <2>3, <2>4, SelectorStep DEF KeptActive
<1>3. CASE ChooseTable(s)
  <2> DEFINE b == OxOverlay = "auto" => ~Cooling(OxDomain, sel[s].ts)
             new == [sel[s] EXCEPT !.at = "pick", !.overlay = b]
  <2>1. b \in BOOLEAN
    OBVIOUS
  <2>2. sel' = [sel EXCEPT ![s] = new] /\ Quiet
    BY <1>3 DEF ChooseTable, TypeOK
  <2> HIDE DEF b
  <2>3. new \in Selection /\ new.kept = sel[s].kept
    BY <1>0, <2>1 DEF Selection
  <2> HIDE DEF new
  <2> QED BY <2>2, <2>3, SelectorStep DEF KeptActive
<1>4. ASSUME NEW e \in Endpoint \cup {NoEndpoint},
             sel' = [sel EXCEPT ![s] = Ended(s, e)], Quiet
      PROVE  TypeOK' /\ KeptActive'
  <2>1. Ended(s, e) \in Selection /\ Ended(s, e).kept = {}
    BY <1>0, EndedType DEF Ended, Selection
  <2> QED BY <1>4, <2>1, SelectorStep
<1>5. CASE Pick(s)
  <2> DEFINE e == FirstAllowed(TableOf(sel[s].role, sel[s].overlay), Exclusions(s))
  <2>1. Ordered(TableOf(sel[s].role, sel[s].overlay))
    BY <1>0, TableIsOrdered DEF Selection
  <2>2. e \in Endpoint \cup {NoEndpoint}
    <3>1. CASE e = NoEndpoint
      BY <3>1
    <3>2. CASE e # NoEndpoint
      BY <2>1, <3>2, FirstAllowedIsAllowed
    <3> QED BY <3>1, <3>2
  <2>3. sel' = [sel EXCEPT ![s] = Ended(s, e)] /\ Quiet
    BY <1>5 DEF Pick
  <2> HIDE DEF e
  <2> QED BY <1>4, <2>2, <2>3
<1>6. ASSUME NEW kept \in SUBSET Nat, \A j \in kept : Chain["VERIFIER"][j] \in Active,
             sel' = [sel EXCEPT ![s] = Onward(s, kept)], Quiet
      PROVE  TypeOK' /\ KeptActive'
  <2>1. Onward(s, kept) \in Selection /\ Onward(s, kept).kept = kept
    BY OnwardType
  <2> QED BY <1>6, <2>1, SelectorStep
<1>7. CASE Walk(s)
  <2>1. Quiet
    BY <1>7 DEF Walk
  <2>2. \/ /\ Chain["BOSS"][sel[s].pos] \in Active
           /\ sel' = [sel EXCEPT ![s] = Ended(s, Chain["BOSS"][sel[s].pos])]
        \/ sel' = [sel EXCEPT ![s] = Ended(s, NoEndpoint)]
        \/ sel' = [sel EXCEPT ![s] = Onward(s, {})]
    <3>1. CASE sel[s].pos = Len(Chain["BOSS"])
      BY <1>7, <3>1, Zenon DEF Walk
    <3>2. CASE sel[s].pos # Len(Chain["BOSS"])
      BY <1>7, <3>2, Zenon DEF Walk
    <3> QED BY <3>1, <3>2
  <2> QED BY <1>4, <1>6, <2>1, <2>2, PolicyAssumption
<1>8. CASE Filter(s)
  <2> DEFINE kept == sel[s].kept \cup
                (IF Survives(s, Chain["VERIFIER"][sel[s].pos]) THEN {sel[s].pos} ELSE {})
  <2>1. Quiet
    BY <1>8 DEF Filter
  <2>2. kept \in SUBSET Nat
    BY <1>0 DEF Selection
  <2>3. \A j \in kept : Chain["VERIFIER"][j] \in Active
    BY DEF KeptActive, Survives, Admissible
  <2>4. \/ sel' = [sel EXCEPT ![s] = Ended(s, Survivor(kept))]
        \/ sel' = [sel EXCEPT ![s] = Onward(s, kept)]
    BY <1>8 DEF Filter
  <2> HIDE DEF kept
  <2>5. Survivor(kept) \in Endpoint \cup {NoEndpoint}
    <3>1. CASE kept = {}
      BY <3>1 DEF Survivor
    <3>2. CASE kept # {}
      BY <2>2, <2>3, <3>2, SurvivorIsKept, PolicyAssumption
    <3> QED BY <3>1, <3>2
  <2> QED BY <1>4, <1>6, <2>1, <2>2, <2>3, <2>4, <2>5
<1> QED BY <1>1, <1>2, <1>3, <1>5, <1>7, <1>8 DEF Select

\* Type correctness of every step.
LEMMA HealthTypeStep ==
    ASSUME TypeOK, KeptActive, [Next]_vars
    PROVE  TypeOK' /\ KeptActive'
<1>0. /\ NoRecords \in Untils
      /\ Idle \in [domain : Domain \cup {Unknown}, file : Untils]
  BY DEF NoRecords, Untils, Idle
<1>1. CASE Tick
  BY <1>1, HealthAssumption DEF Tick, TypeOK, KeptActive
<1>e. ASSUME Emptied
      PROVE  sel' \in [Selector -> Selection] /\ KeptActive' /\ health' \in Untils /\ owed' \in Untils
  <2>1. \A s \in Selector :
           /\ [sel[s] EXCEPT !.calm = FALSE] \in Selection
           /\ [sel[s] EXCEPT !.calm = FALSE].kept = sel[s].kept
    BY DEF TypeOK, Selection
  <2>2. sel' \in [Selector -> Selection]
    BY <1>e, <2>1 DEF Emptied
  <2>3. KeptActive'
    BY <1>e, <2>1 DEF Emptied, KeptActive
  <2> QED BY <1>0, <1>e, <2>2, <2>3 DEF Emptied
<1>2. CASE ClearHealth
  BY <1>2, <1>e DEF ClearHealth, TypeOK
<1>8. ASSUME NEW r \in Recorder, SaveCut(r) PROVE TypeOK' /\ KeptActive'
  BY <1>0, <1>8, <1>e DEF SaveCut, TypeOK
<1>3. ASSUME NEW r \in Recorder, NEW d \in Domain, NEW c \in Cooldowns, Load(r, d, c)
      PROVE  TypeOK' /\ KeptActive'
  <2>1. NewUntil(d, c) \in Nat
    BY HealthAssumption DEF NewUntil, Later, TypeOK, Untils
  <2>2. [health EXCEPT ![d] = NewUntil(d, c)] \in Untils
    BY <2>1 DEF TypeOK, Untils
  <2> QED BY <1>3, <2>2 DEF Load, TypeOK, KeptActive
<1>4. ASSUME NEW r \in Recorder, Save(r) PROVE TypeOK' /\ KeptActive'
  <2>1. writing[r].domain \in Domain /\ writing[r].file \in Untils
    BY <1>4 DEF Save, TypeOK
  <2>2. owed' \in Untils
    BY <1>4, <2>1 DEF Save, TypeOK, Later, Untils
  <2> QED BY <1>0, <1>4, <2>1, <2>2 DEF Save, TypeOK, KeptActive
<1>5. ASSUME NEW r \in Recorder, Abandon(r) PROVE TypeOK' /\ KeptActive'
  BY <1>0, <1>5 DEF Abandon, TypeOK, KeptActive
<1>6. ASSUME NEW s \in Selector, Select(s) PROVE TypeOK' /\ KeptActive'
  BY <1>6, SelectKeepsTypes
<1>7. CASE UNCHANGED vars
  BY <1>7 DEF vars, TypeOK, KeptActive
<1> QED BY <1>1, <1>2, <1>3, <1>4, <1>5, <1>6, <1>7, <1>8 DEF Next, Record

\* The file always holds a time for every domain, and every selection is at
\* one of its steps with data of the right kind.
THEOREM HealthTypeCorrect == Spec => [](TypeOK /\ KeptActive)
<1>1. Init => TypeOK /\ KeptActive
  <2> SUFFICES ASSUME Init PROVE TypeOK /\ KeptActive
    OBVIOUS
  <2>1. \A s \in Selector : sel[s] = NoSelection /\ sel[s].kept = {}
    BY DEF Init, NoSelection
  <2>2. NoRecords \in Untils /\ Idle \in [domain : Domain \cup {Unknown}, file : Untils]
    BY DEF NoRecords, Untils, Idle
  <2>3. clock \in 0..MaxTime
    BY HealthAssumption DEF Init
  <2> QED BY <2>1, <2>2, <2>3, NoSelectionType DEF Init, TypeOK, KeptActive
<1>2. TypeOK /\ KeptActive /\ [Next]_vars => TypeOK' /\ KeptActive'
  BY HealthTypeStep
<1> QED BY <1>1, <1>2, PTL DEF Spec

-----------------------------------------------------------------------------
(* One recorder.                                                           *)

\* What a recorder is about to write is nowhere behind the file, and the file
\* is nowhere behind what has been recorded.
FileInv ==
    /\ \A r \in Recorder : writing[r].domain # Unknown =>
          \A d \in Domain : writing[r].file[d] >= health[d]
    /\ \A d \in Domain : owed[d] <= health[d]

\* The steps that leave no record on file.
Emptying == ClearHealth \/ \E r \in Recorder : SaveCut(r)

\* Whatever is not a selection's step keeps FileInv, and moves the file forward
\* or empties it.
LEMMA FileStep ==
    ASSUME OneRecorder, TypeOK, FileInv, [Next]_vars
    PROVE  /\ FileInv'
           /\ Emptying \/ \A d \in Domain : health'[d] >= health[d]
           /\ \A s \in Selector : Select(s) => UNCHANGED health
<1>0. \A d \in Domain : health[d] \in Nat /\ owed[d] \in Nat
  BY DEF TypeOK, Untils
<1>1. ASSUME UNCHANGED <<health, writing, owed>>
      PROVE  /\ FileInv'
             /\ \A d \in Domain : health'[d] >= health[d]
  BY <1>0, <1>1 DEF FileInv
<1>2. \A s \in Selector : Select(s) => UNCHANGED <<health, writing, owed>>
  BY DEF Select, Quiet, Begin, Snapshot, ChooseTable, Pick, Walk, Filter
<1>3. CASE Tick
  BY <1>1, <1>2, <1>3 DEF Tick
<1>4. CASE Emptying
  <2>1. health' = NoRecords /\ owed' = NoRecords
    BY <1>4 DEF Emptying, ClearHealth, SaveCut, Emptied
  <2>2. \A r \in Recorder, d \in Domain : writing[r].file[d] \in Nat
    BY DEF TypeOK, Untils
  <2>3. \A r \in Recorder : writing'[r] = writing[r] \/ writing'[r].domain = Unknown
    BY <1>4 DEF Emptying, ClearHealth, SaveCut, Idle, TypeOK
  <2>4. FileInv'
    BY <2>1, <2>2, <2>3 DEF FileInv, NoRecords
  <2> QED BY <1>2, <1>4, <2>4
<1>5. ASSUME NEW r \in Recorder, NEW d \in Domain, NEW c \in Cooldowns, Load(r, d, c)
      PROVE  FileInv' /\ UNCHANGED health
  <2>1. /\ writing' = [writing EXCEPT ![r] =
                         [domain |-> d, file |-> [health EXCEPT ![d] = NewUntil(d, c)]]]
        /\ UNCHANGED <<health, owed>>
    BY <1>5 DEF Load
  <2>2. NewUntil(d, c) \in Nat /\ NewUntil(d, c) >= health[d]
    BY <1>0, HealthAssumption DEF NewUntil, Later, TypeOK
  <2>3. \A e \in Domain : [health EXCEPT ![d] = NewUntil(d, c)][e] >= health[e]
    BY <1>0, <2>2 DEF TypeOK, Untils
  <2>4. \A q \in Recorder :
           writing'[q] = IF q = r THEN [domain |-> d, file |-> [health EXCEPT ![d] = NewUntil(d, c)]]
                                  ELSE writing[q]
    BY <2>1 DEF TypeOK
  <2>5. \A q \in Recorder : writing'[q].domain # Unknown =>
           \A e \in Domain : writing'[q].file[e] >= health'[e]
    BY <2>1, <2>3, <2>4 DEF FileInv
  <2> QED BY <2>1, <2>5 DEF FileInv
<1>6. ASSUME NEW r \in Recorder, Save(r)
      PROVE  FileInv' /\ \A d \in Domain : health'[d] >= health[d]
  <2> DEFINE f == writing[r].file
             d == writing[r].domain
  <2>1. /\ d # Unknown
        /\ health' = f
        /\ owed' = [owed EXCEPT ![d] = Later(@, f[d])]
        /\ writing' = [writing EXCEPT ![r] = Idle]
    BY <1>6 DEF Save
  <2>2. d \in Domain /\ f \in Untils
    BY <2>1 DEF TypeOK
  <2>3. \A e \in Domain : f[e] \in Nat /\ f[e] >= health[e]
    BY <2>1, <2>2 DEF FileInv, Untils
  <2>4. \A q \in Recorder : writing'[q].domain = Unknown
    BY <2>1 DEF OneRecorder, TypeOK, Idle
  <2>5. \A e \in Domain : owed'[e] <= health'[e]
    <3> SUFFICES ASSUME NEW e \in Domain PROVE owed'[e] <= f[e]
      BY <2>1
    <3>1. owed[e] <= f[e]
      BY <1>0, <2>3 DEF FileInv
    <3>2. owed'[e] = IF e = d THEN Later(owed[d], f[d]) ELSE owed[e]
      BY <2>1, <2>2 DEF TypeOK, Untils
    <3> QED BY <1>0, <2>3, <3>1, <3>2 DEF Later
  <2> HIDE DEF f, d
  <2> QED BY <2>1, <2>3, <2>4, <2>5 DEF FileInv
<1>7. ASSUME NEW r \in Recorder, Abandon(r) PROVE FileInv' /\ UNCHANGED health
  <2>1. \A q \in Recorder : writing'[q] = writing[q] \/ writing'[q].domain = Unknown
    BY <1>7 DEF Abandon, Idle, TypeOK
  <2>2. UNCHANGED <<health, owed>>
    BY <1>7 DEF Abandon
  <2> QED BY <2>1, <2>2 DEF FileInv
<1>8. CASE UNCHANGED vars
  BY <1>1, <1>2, <1>8 DEF vars
<1> QED BY <1>0, <1>1, <1>2, <1>3, <1>4, <1>5, <1>6, <1>7, <1>8 DEF Next, Record, Emptying

\* FileInv is an invariant.
LEMMA FileInvariant == ASSUME OneRecorder PROVE Spec => []FileInv
<1>1. Init => FileInv
  BY DEF Init, FileInv, Idle, NoRecords
<1>2. TypeOK /\ FileInv /\ [Next]_vars => FileInv'
  BY FileStep
<1> QED BY <1>1, <1>2, HealthTypeCorrect, PTL DEF Spec

\* With one recorder no whole write of the file takes an expiry back: what it
\* writes is what it read, with a maximum put over one domain, and nobody else
\* has written since.
THEOREM CooldownsNeverShortenHolds ==
    ASSUME OneRecorder PROVE Spec => CooldownsNeverShorten
<1>1. TypeOK /\ FileInv /\ [Next]_vars =>
        [ \/ ClearHealth
          \/ \E r \in Recorder : SaveCut(r)
          \/ \A d \in Domain : health'[d] >= health[d] ]_vars
  BY FileStep DEF Emptying
<1> QED BY <1>1, FileInvariant, HealthTypeCorrect, PTL DEF Spec, CooldownsNeverShorten

\* While the file is not emptied, the cooldowns a selection began with stay in
\* it, its snapshot excludes their endpoints, none of them is kept as a
\* reviewer and none of them judges the answer.  Only a Boss is chosen without
\* the snapshot.
DueOf(x) ==
    x.calm =>
        /\ x.at = "walk" => x.role = "BOSS"
        /\ \A d \in x.due :
              /\ x.ts < health[d]
              /\ x.at \in {"overlay", "pick", "filter"} => DomainEndpoints[d] \subseteq x.excl
              /\ \A i \in x.kept : Chain["VERIFIER"][i] \notin DomainEndpoints[d]
              /\ x.at = "done" => d \notin JudgedBy(x.role, x.out)

DueInv == \A s \in Selector : DueOf(sel[s])

\* Every step of a selection keeps DueOf.
LEMMA SelectKeepsDue ==
    ASSUME TypeOK, FileInv, DueInv, NEW s \in Selector, Select(s)
    PROVE  DueOf(sel[s])'
<1>0. /\ sel[s] \in Selection
      /\ DueOf(sel[s])
      /\ UNCHANGED health
      /\ \A new : sel' = [sel EXCEPT ![s] = new] => sel'[s] = new
  BY DEF TypeOK, DueInv, Select, Quiet, Begin, Snapshot, ChooseTable, Pick, Walk, Filter
<1>1. /\ sel[s].due \subseteq Domain
      /\ \A d \in Domain : DomainEndpoints[d] \subseteq Endpoint
      /\ NoEndpoint \notin Endpoint
  BY <1>0, PolicyAssumption DEF Selection
<1>j. \A role, e, d : d \in sel[s].due /\ e \notin DomainEndpoints[d] => d \notin JudgedBy(role, e)
  BY <1>1, JudgesList
<1>2. CASE Begin(s)
  <2>1. /\ sel'[s].at = "snapshot"
        /\ sel'[s].ts = clock
        /\ sel'[s].due = {d \in Domain : clock < owed[d]}
        /\ sel'[s].kept = {}
    BY <1>2 DEF Begin, NoSelection, TypeOK
  <2>2. \A d \in Domain : clock < owed[d] => clock < health[d]
    BY DEF FileInv, TypeOK, Untils
  <2> QED BY <1>0, <2>1, <2>2 DEF DueOf
<1>3. CASE Snapshot(s)
  <2> DEFINE new == [sel[s] EXCEPT !.at = NextStep(sel[s].role), !.excl = Excluded(sel[s].ts)]
  <2>1. sel'[s] = new
    <3>1. sel' = [sel EXCEPT ![s] = new]
      BY <1>3 DEF Snapshot, TypeOK
    <3> HIDE DEF new
    <3> QED BY <1>0, <3>1
  <2>2. /\ new.at # "done" /\ new.excl = Excluded(sel[s].ts) /\ new.ts = sel[s].ts
        /\ new.due = sel[s].due /\ new.kept = sel[s].kept /\ new.calm = sel[s].calm
        /\ new.at = "walk" => new.role = "BOSS"
    BY <1>0 DEF Selection, NextStep
  <2>3. \A d \in sel[s].due :
          sel[s].ts < health[d] => DomainEndpoints[d] \subseteq Excluded(sel[s].ts)
    BY <1>1 DEF Excluded, Cooling
  <2> HIDE DEF new
  <2> QED BY <1>0, <2>1, <2>2, <2>3 DEF DueOf
<1>4. CASE ChooseTable(s)
  <2> DEFINE b == OxOverlay = "auto" => ~Cooling(OxDomain, sel[s].ts)
             new == [sel[s] EXCEPT !.at = "pick", !.overlay = b]
  <2>1. sel' = [sel EXCEPT ![s] = new] /\ sel[s].at = "overlay"
    BY <1>0, <1>4 DEF ChooseTable, TypeOK
  <2>2. /\ new.at = "pick" /\ new.excl = sel[s].excl /\ new.ts = sel[s].ts
        /\ new.due = sel[s].due /\ new.kept = sel[s].kept /\ new.calm = sel[s].calm
    BY <1>0 DEF Selection
  <2> HIDE DEF new
  <2> QED BY <1>0, <2>1, <2>2 DEF DueOf
<1>5. ASSUME NEW e, sel' = [sel EXCEPT ![s] = Ended(s, e)],
             sel[s].calm => \A d \in sel[s].due : d \notin JudgedBy(sel[s].role, e)
      PROVE  DueOf(sel[s])'
  <2>1. sel'[s] = Ended(s, e)
    BY <1>0, <1>5
  <2>2. /\ Ended(s, e).out = e /\ Ended(s, e).at = "done" /\ Ended(s, e).ts = sel[s].ts
        /\ Ended(s, e).due = sel[s].due /\ Ended(s, e).kept = {}
        /\ Ended(s, e).calm = sel[s].calm /\ Ended(s, e).role = sel[s].role
    BY <1>0 DEF Selection, Ended
  <2> QED BY <1>0, <1>5, <2>1, <2>2 DEF DueOf
<1>6. ASSUME NEW kept, sel' = [sel EXCEPT ![s] = Onward(s, kept)],
             sel[s].at \in {"walk", "filter"},
             sel[s].calm => \A d \in sel[s].due, i \in kept :
                              Chain["VERIFIER"][i] \notin DomainEndpoints[d]
      PROVE  DueOf(sel[s])'
  <2>1. sel'[s] = Onward(s, kept)
    BY <1>0, <1>6
  <2>2. /\ Onward(s, kept).at = sel[s].at /\ Onward(s, kept).ts = sel[s].ts
        /\ Onward(s, kept).due = sel[s].due /\ Onward(s, kept).kept = kept
        /\ Onward(s, kept).calm = sel[s].calm /\ Onward(s, kept).role = sel[s].role
        /\ Onward(s, kept).excl = sel[s].excl
    BY <1>0 DEF Selection, Onward
  <2> QED BY <1>0, <1>6, <2>1, <2>2 DEF DueOf
<1>7. CASE Pick(s)
  <2> DEFINE table == TableOf(sel[s].role, sel[s].overlay)
             e == FirstAllowed(table, Exclusions(s))
  <2>1. sel' = [sel EXCEPT ![s] = Ended(s, e)] /\ sel[s].at = "pick"
    BY <1>7 DEF Pick
  <2>2. Ordered(table)
    BY <1>0, TableIsOrdered DEF Selection
  <2>3. e = NoEndpoint \/ e \notin sel[s].excl
    BY <2>2, FirstAllowedIsAllowed DEF Exclusions
  <2> HIDE DEF e
  <2>4. sel[s].calm => \A d \in sel[s].due : e \notin DomainEndpoints[d]
    BY <1>0, <1>1, <2>1, <2>3 DEF DueOf
  <2> QED BY <1>5, <1>j, <2>1, <2>4
<1>8. CASE Walk(s)
  <2> DEFINE e == Chain["BOSS"][sel[s].pos]
  <2>1. /\ sel[s].at = "walk"
        /\ \/ ~Cooling(DomainOf(e), sel[s].ts) /\ sel' = [sel EXCEPT ![s] = Ended(s, e)]
           \/ sel' = [sel EXCEPT ![s] = Ended(s, NoEndpoint)]
           \/ sel' = [sel EXCEPT ![s] = Onward(s, {})]
    BY <1>8 DEF Walk
  <2> HIDE DEF e
  <2>2. CASE ~Cooling(DomainOf(e), sel[s].ts) /\ sel' = [sel EXCEPT ![s] = Ended(s, e)]
    <3>1. sel[s].calm => \A d \in sel[s].due : d \notin JudgedBy(sel[s].role, e)
      BY <1>0, <1>1, <2>1, <2>2 DEF DueOf, Cooling, JudgedBy
    <3> QED BY <1>5, <2>2, <3>1
  <2>3. CASE sel' = [sel EXCEPT ![s] = Ended(s, NoEndpoint)]
    BY <1>1, <1>5, <1>j, <2>3
  <2>4. CASE sel' = [sel EXCEPT ![s] = Onward(s, {})]
    BY <1>6, <2>1, <2>4
  <2> QED BY <2>1, <2>2, <2>3, <2>4
<1>9. CASE Filter(s)
  <2> DEFINE i == sel[s].pos
             kept == sel[s].kept \cup (IF Survives(s, Chain["VERIFIER"][i]) THEN {i} ELSE {})
  <2>1. /\ sel[s].at = "filter"
        /\ \/ sel' = [sel EXCEPT ![s] = Ended(s, Survivor(kept))]
           \/ sel' = [sel EXCEPT ![s] = Onward(s, kept)]
    BY <1>9 DEF Filter
  <2>2. kept \subseteq Nat
    BY <1>0 DEF Selection
  <2>3. sel[s].calm => \A d \in sel[s].due, j \in kept :
                          Chain["VERIFIER"][j] \notin DomainEndpoints[d]
    BY <1>0, <2>1 DEF DueOf, Survives
  <2> HIDE DEF kept
  <2>4. sel[s].calm => \A d \in sel[s].due : Survivor(kept) \notin DomainEndpoints[d]
    <3>1. CASE kept = {}
      BY <1>1, <3>1 DEF Survivor
    <3>2. CASE kept # {}
      BY <2>2, <2>3, <3>2, SurvivorIsKept
    <3> QED BY <3>1, <3>2
  <2> QED BY <1>5, <1>6, <1>j, <2>1, <2>3, <2>4
<1> QED BY <1>2, <1>3, <1>4, <1>7, <1>8, <1>9 DEF Select

\* A step that is no selection's own keeps DueOf: the file only moves forward,
\* or every selection learns that it was cleared.
LEMMA DueStep ==
    ASSUME OneRecorder, TypeOK, KeptActive, FileInv, DueInv, [Next]_vars
    PROVE  DueInv'
<1>0. \A d \in Domain : health[d] \in Nat /\ health'[d] \in Nat
  BY HealthTypeStep DEF TypeOK, Untils
<1>1. ASSUME UNCHANGED sel, \A d \in Domain : health'[d] >= health[d]
      PROVE  DueInv'
  <2> SUFFICES ASSUME NEW s \in Selector PROVE DueOf(sel[s])'
    BY DEF DueInv
  <2>1. sel[s] \in Selection /\ DueOf(sel[s]) /\ sel'[s] = sel[s]
    BY <1>1 DEF TypeOK, DueInv
  <2>2. \A d \in sel[s].due : sel[s].ts < health[d] => sel[s].ts < health'[d]
    BY <1>0, <1>1, <2>1 DEF Selection
  <2> QED BY <2>1, <2>2 DEF DueOf
<1>2. CASE Emptying
  <2>1. \A s \in Selector : sel'[s].calm = FALSE
    BY <1>2 DEF Emptying, ClearHealth, SaveCut, Emptied, TypeOK, Selection
  <2> QED BY <2>1 DEF DueInv, DueOf
<1>3. ASSUME NEW s \in Selector, Select(s) PROVE DueInv'
  <2> SUFFICES ASSUME NEW q \in Selector, q # s PROVE DueOf(sel[q])'
    BY <1>3, SelectKeepsDue DEF DueInv
  <2>1. sel'[q] = sel[q] /\ health' = health
    BY <1>3 DEF Select, Quiet, Begin, Snapshot, ChooseTable, Pick, Walk, Filter, TypeOK
  <2> QED BY <2>1 DEF DueInv, DueOf
<1>4. CASE Tick \/ (\E r \in Recorder : Record(r) /\ ~SaveCut(r)) \/ UNCHANGED vars
  <2>1. UNCHANGED sel
    BY <1>4 DEF Tick, Record, Load, Save, Abandon, vars
  <2>2. \A d \in Domain : health'[d] >= health[d]
    <3>1. ASSUME NEW r \in Recorder, Save(r) PROVE \A d \in Domain : health'[d] >= health[d]
      BY <3>1 DEF Save, FileInv
    <3>2. UNCHANGED health => \A d \in Domain : health'[d] >= health[d]
      BY <1>0
    <3> QED BY <1>4, <3>1, <3>2 DEF Tick, Record, Load, Abandon, vars
  <2> QED BY <1>1, <2>1, <2>2
<1> QED BY <1>2, <1>3, <1>4 DEF Next, Emptying

\* With one recorder a recorded failure takes effect: its cooldown is in the
\* file at every later reading, so each of the three ways of choosing a
\* candidate rejects the endpoints that its domain judges.
THEOREM CooldownRespectedHolds ==
    ASSUME OneRecorder PROVE Spec => []CooldownRespected
<1>1. Init => DueInv
  BY DEF Init, DueInv, DueOf, NoSelection
<1>2. TypeOK /\ KeptActive /\ FileInv /\ DueInv /\ [Next]_vars => DueInv'
  BY DueStep
<1>3. DueInv => CooldownRespected
  BY DEF DueInv, DueOf, CooldownRespected
<1> QED BY <1>1, <1>2, <1>3, FileInvariant, HealthTypeCorrect, PTL DEF Spec

-----------------------------------------------------------------------------
(* No healthy candidate is skipped.                                        *)

\* weighted_select passes over excluded candidates only.
LEMMA FirstAllowedSkips ==
    ASSUME NEW table, Ordered(table), NEW X, NEW i \in DOMAIN table, table[i] \notin X
    PROVE  \E j \in 1..i : table[j] = FirstAllowed(table, X)
<1> DEFINE allowed == {k \in DOMAIN table : table[k] \notin X}
<1>1. allowed \subseteq Nat /\ i \in allowed /\ DOMAIN table = 1..Len(table)
  BY DEF Ordered
<1>2. FirstOf(allowed) \in allowed /\ FirstOf(allowed) <= i
  BY <1>1, FirstOfIsMember
<1>3. FirstAllowed(table, X) = table[FirstOf(allowed)]
  BY <1>1 DEF FirstAllowed
<1> HIDE DEF allowed
<1>4. FirstOf(allowed) \in 1..i
  BY <1>1, <1>2 DEF allowed
<1> QED BY <1>3, <1>4

\* A domain that lists e cools down.
Suppressed(e, ts) == \E d \in Domain : e \in DomainEndpoints[d] /\ Cooling(d, ts)

\* Candidate e is no choice for the selection x.
Out(x, e) ==
    \/ ~Admissible(e, x.role, x.imp)
    \/ \E d \in JudgedBy(x.role, e) : Cooling(d, x.ts)

\* An endpoint whose first domain cools down is judged by it, whatever the role.
LEMMA FirstDomainJudges ==
    ASSUME NEW e, NEW role, NEW ts, Cooling(DomainOf(e), ts)
    PROVE  \E d \in JudgedBy(role, e) : Cooling(d, ts)
<1>1. DomainOf(e) \in Domain /\ Unknown \notin Domain
  BY PolicyAssumption DEF Cooling
<1>2. e \in DomainEndpoints[DomainOf(e)]
  BY <1>1, DomainOfListed
<1> QED BY <1>1, <1>2 DEF JudgedBy

\* The answer of x, and what it has passed over.
RightlyAnswered(x) ==
    LET table == TableOf(x.role, x.overlay)
    IN  /\ x.out = NoEndpoint \/ Admissible(x.out, x.role, x.imp)
        /\ \A i \in DOMAIN table : (\E j \in 1..i : table[j] = x.out) \/ Out(x, table[i])

\* While the file is not emptied, everything a selection has passed over so far
\* is out: what its snapshot excludes, the candidates walked past, those not kept
\* as reviewers; and the ones kept may review.
PassedOf(x) ==
    x.calm =>
        /\ \A e \in x.excl : Suppressed(e, x.ts)
        /\ x.at = "snapshot" => x.pos = 1 /\ x.kept = {} /\ ~x.overlay
        /\ x.at \in {"overlay", "pick"} => x.role \notin {"BOSS", "VERIFIER"}
        /\ x.at = "walk" =>
              /\ x.role = "BOSS" /\ ~x.overlay /\ x.pos \in DOMAIN Chain["BOSS"]
              /\ \A i \in 1..(x.pos - 1) : Out(x, Chain["BOSS"][i])
        /\ x.at = "filter" =>
              /\ x.role = "VERIFIER" /\ ~x.overlay /\ x.pos \in DOMAIN Chain["VERIFIER"]
              /\ \A i \in 1..(x.pos - 1) : i \in x.kept \/ Out(x, Chain["VERIFIER"][i])
              /\ \A i \in x.kept :
                    i \in 1..(x.pos - 1) /\ Admissible(Chain["VERIFIER"][i], "VERIFIER", x.imp)
        /\ x.at = "done" => RightlyAnswered(x)

PassedInv == \A s \in Selector : PassedOf(sel[s])

\* An answered selection keeps what it was asked, and forgets the rest.
LEMMA EndedFields ==
    ASSUME TypeOK, NEW s \in Selector, NEW e
    PROVE  /\ Ended(s, e).at = "done" /\ Ended(s, e).out = e /\ Ended(s, e).excl = {}
           /\ Ended(s, e).role = sel[s].role /\ Ended(s, e).imp = sel[s].imp
           /\ Ended(s, e).ts = sel[s].ts /\ Ended(s, e).overlay = sel[s].overlay
           /\ Ended(s, e).calm = sel[s].calm
BY DEF TypeOK, Selection, Ended

LEMMA OnwardFields ==
    ASSUME TypeOK, NEW s \in Selector, NEW kept
    PROVE  /\ Onward(s, kept).at = sel[s].at /\ Onward(s, kept).excl = sel[s].excl
           /\ Onward(s, kept).pos = sel[s].pos + 1 /\ Onward(s, kept).kept = kept
           /\ Onward(s, kept).role = sel[s].role /\ Onward(s, kept).imp = sel[s].imp
           /\ Onward(s, kept).ts = sel[s].ts /\ Onward(s, kept).overlay = sel[s].overlay
           /\ Onward(s, kept).calm = sel[s].calm
BY DEF TypeOK, Selection, Onward

\* An answer that is right is all that PassedOf asks of an answered selection.
LEMMA AnswerPasses ==
    ASSUME TypeOK, UNCHANGED health, NEW s \in Selector, NEW e,
           sel' = [sel EXCEPT ![s] = Ended(s, e)],
           sel[s].calm => RightlyAnswered(Ended(s, e))
    PROVE  PassedOf(sel[s])'
<1> DEFINE new == Ended(s, e)
<1>1. sel'[s] = new
  BY DEF TypeOK
<1>2. new.at = "done" /\ new.excl = {} /\ new.calm = sel[s].calm
  BY EndedFields
<1> HIDE DEF new
<1>3. \A d, ts : Cooling(d, ts)' <=> Cooling(d, ts)
  BY DEF Cooling
<1>4. RightlyAnswered(new) => RightlyAnswered(sel[s])'
  BY <1>1, <1>3 DEF RightlyAnswered, Out
<1> QED BY <1>1, <1>2, <1>4 DEF PassedOf, new

\* Every step of a selection keeps PassedOf.
LEMMA SelectKeepsPassed ==
    ASSUME TypeOK, PassedInv, NEW s \in Selector, Select(s)
    PROVE  PassedOf(sel[s])'
<1>0. /\ sel[s] \in Selection
      /\ PassedOf(sel[s])
      /\ UNCHANGED health
      /\ \A new : sel' = [sel EXCEPT ![s] = new] => sel'[s] = new
  BY DEF TypeOK, PassedInv, Select, Quiet, Begin, Snapshot, ChooseTable, Pick, Walk, Filter
<1>c. \A d, ts : Cooling(d, ts)' <=> Cooling(d, ts)
  BY <1>0 DEF Cooling
<1>l. \A e, ts : Suppressed(e, ts)' <=> Suppressed(e, ts)
  BY <1>c DEF Suppressed
<1>r. \A r \in RoutedRole : Ordered(Chain[r]) /\ DOMAIN Chain[r] = 1..Len(Chain[r])
                             /\ Len(Chain[r]) \in Nat \ {0}
  <2> TAKE r \in RoutedRole
  <2>1. Ordered(Chain[r])
    BY PolicyAssumption
  <2>2. Chain[r] \in Seq(Endpoint) /\ Chain[r] # << >>
    BY <2>1 DEF Ordered
  <2>3. Len(Chain[r]) # 0
    BY <2>2
  <2> QED BY <2>1, <2>2, <2>3
<1>1. CASE Begin(s)
  <2>1. /\ sel'[s].at = "snapshot" /\ sel'[s].excl = {}
        /\ sel'[s].pos = 1 /\ sel'[s].kept = {} /\ sel'[s].overlay = FALSE
    BY <1>1 DEF Begin, NoSelection, TypeOK
  <2> QED BY <2>1 DEF PassedOf
<1>2. CASE Snapshot(s)
  <2> DEFINE new == [sel[s] EXCEPT !.at = NextStep(sel[s].role), !.excl = Excluded(sel[s].ts)]
  <2>1. sel' = [sel EXCEPT ![s] = new] /\ sel[s].at = "snapshot"
    BY <1>2 DEF Snapshot, TypeOK
  <2>2. /\ new.at = NextStep(sel[s].role) /\ new.excl = Excluded(sel[s].ts)
        /\ new.ts = sel[s].ts /\ new.role = sel[s].role /\ new.imp = sel[s].imp
        /\ new.pos = sel[s].pos /\ new.kept = sel[s].kept /\ new.overlay = sel[s].overlay
        /\ new.calm = sel[s].calm
    BY <1>0 DEF Selection
  <2> HIDE DEF new
  <2>3. sel'[s] = new
    BY <1>0, <2>1
  <2>4. \A e \in new.excl : Suppressed(e, new.ts)
    BY <2>2 DEF Excluded, Suppressed
  <2>5. /\ new.at \notin {"snapshot", "done"}
        /\ new.at \in {"overlay", "pick"} => sel[s].role \notin {"BOSS", "VERIFIER"}
        /\ new.at = "walk" => sel[s].role = "BOSS"
        /\ new.at = "filter" => sel[s].role = "VERIFIER"
    BY <2>2 DEF NextStep
  <2>6. sel[s].calm => sel[s].pos = 1 /\ sel[s].kept = {} /\ ~sel[s].overlay
    BY <1>0, <2>1 DEF PassedOf
  <2>7. 1 \in DOMAIN Chain["BOSS"] /\ 1 \in DOMAIN Chain["VERIFIER"]
    BY <1>r DEF RoutedRole
  <2>8. \A i \in 1..(1 - 1) : FALSE
    OBVIOUS
  <2> QED BY <1>l, <2>2, <2>3, <2>4, <2>5, <2>6, <2>7, <2>8 DEF PassedOf
<1>3. CASE ChooseTable(s)
  <2> DEFINE b == OxOverlay = "auto" => ~Cooling(OxDomain, sel[s].ts)
             new == [sel[s] EXCEPT !.at = "pick", !.overlay = b]
  <2>1. sel' = [sel EXCEPT ![s] = new] /\ sel[s].at = "overlay"
    BY <1>0, <1>3 DEF ChooseTable, TypeOK
  <2>2. /\ new.at = "pick" /\ new.excl = sel[s].excl /\ new.ts = sel[s].ts
        /\ new.role = sel[s].role /\ new.calm = sel[s].calm
    BY <1>0 DEF Selection
  <2> HIDE DEF new
  <2>3. sel'[s] = new
    BY <1>0, <2>1
  <2> QED BY <1>0, <1>l, <2>1, <2>2, <2>3 DEF PassedOf
<1>4. CASE Pick(s)
  <2> DEFINE table == TableOf(sel[s].role, sel[s].overlay)
             X == Exclusions(s)
             e == FirstAllowed(table, X)
  <2>1. sel' = [sel EXCEPT ![s] = Ended(s, e)] /\ sel[s].at = "pick"
    BY <1>4 DEF Pick
  <2>2. Ordered(table)
    BY <1>0, TableIsOrdered DEF Selection
  <2>3. e = NoEndpoint \/ e \in Active
    BY <2>2, FirstAllowedIsAllowed DEF Exclusions
  <2>4. \A i \in DOMAIN table : table[i] \in X \/ \E j \in 1..i : table[j] = e
    BY <2>2, FirstAllowedSkips
  <2>5. ASSUME sel[s].calm PROVE RightlyAnswered(Ended(s, e))
    <3>1. /\ sel[s].role \notin {"BOSS", "VERIFIER"}
          /\ \A c \in sel[s].excl : Suppressed(c, sel[s].ts)
      BY <1>0, <2>1, <2>5 DEF PassedOf
    <3>2. \A c \in X : Out(sel[s], c)
      BY <3>1 DEF Exclusions, Admissible, Suppressed, Out, JudgedBy
    <3>3. e = NoEndpoint \/ Admissible(e, sel[s].role, sel[s].imp)
      BY <2>3, <3>1 DEF Admissible
    <3> HIDE DEF table, X, e
    <3>4. /\ Ended(s, e).out = e /\ Ended(s, e).role = sel[s].role
          /\ Ended(s, e).imp = sel[s].imp /\ Ended(s, e).ts = sel[s].ts
          /\ TableOf(Ended(s, e).role, Ended(s, e).overlay) = table
      BY EndedFields DEF table
    <3> QED BY <2>4, <3>2, <3>3, <3>4 DEF RightlyAnswered, Out
  <2> HIDE DEF e
  <2> QED BY <1>0, <2>1, <2>5, AnswerPasses
<1>5. CASE Walk(s)
  <2> DEFINE chain == Chain["BOSS"]
             e == chain[sel[s].pos]
  <2>0. "BOSS" \in RoutedRole /\ sel[s].at = "walk"
    BY <1>5 DEF RoutedRole, Walk
  <2>1. \/ /\ e \in Active /\ sel' = [sel EXCEPT ![s] = Ended(s, e)]
        \/ /\ e \notin Active \/ Cooling(DomainOf(e), sel[s].ts)
           /\ sel[s].pos = Len(chain)
           /\ sel' = [sel EXCEPT ![s] = Ended(s, NoEndpoint)]
        \/ /\ e \notin Active \/ Cooling(DomainOf(e), sel[s].ts)
           /\ sel[s].pos # Len(chain)
           /\ sel' = [sel EXCEPT ![s] = Onward(s, {})]
    <3>1. CASE sel[s].pos = Len(chain)
      BY <1>5, <3>1, Zenon DEF Walk
    <3>2. CASE sel[s].pos # Len(chain)
      BY <1>5, <3>2, Zenon DEF Walk
    <3> QED BY <3>1, <3>2
  <2>2. sel[s].calm =>
          /\ sel[s].role = "BOSS" /\ ~sel[s].overlay /\ sel[s].pos \in 1..Len(chain)
          /\ \A i \in 1..(sel[s].pos - 1) : Out(sel[s], chain[i])
    BY <1>0, <1>r, <2>0 DEF PassedOf
  <2>3. TableOf("BOSS", FALSE) = chain /\ DOMAIN chain = 1..Len(chain) /\ Len(chain) \in Nat
    BY <1>r, <2>0 DEF TableOf
  <2> HIDE DEF chain, e
  <2>4. CASE e \in Active /\ sel' = [sel EXCEPT ![s] = Ended(s, e)]
    <3>1. ASSUME sel[s].calm PROVE RightlyAnswered(Ended(s, e))
      <4>1. Admissible(e, "BOSS", sel[s].imp)
        BY <2>4 DEF Admissible
      <4>2. \A i \in 1..Len(chain) : i \in 1..(sel[s].pos - 1) \/ sel[s].pos \in 1..i
        BY <2>2, <2>3, <3>1
      <4>3. chain[sel[s].pos] = e
        BY DEF e, chain
      <4>4. /\ Ended(s, e).out = e /\ Ended(s, e).role = "BOSS" /\ Ended(s, e).overlay = FALSE
            /\ Ended(s, e).imp = sel[s].imp /\ Ended(s, e).ts = sel[s].ts
        BY <1>0, <2>2, <3>1, EndedFields DEF Selection
      <4>5. \A i \in 1..Len(chain) : (\E j \in 1..i : chain[j] = e) \/ Out(Ended(s, e), chain[i])
        BY <2>2, <3>1, <4>2, <4>3, <4>4 DEF Out
      <4> QED BY <2>3, <4>1, <4>4, <4>5 DEF RightlyAnswered
    <3> QED BY <1>0, <2>4, <3>1, AnswerPasses
  <2>5. CASE /\ e \notin Active \/ Cooling(DomainOf(e), sel[s].ts)
             /\ sel[s].pos = Len(chain)
             /\ sel' = [sel EXCEPT ![s] = Ended(s, NoEndpoint)]
    <3>1. ASSUME sel[s].calm PROVE RightlyAnswered(Ended(s, NoEndpoint))
      <4>1. \A i \in 1..Len(chain) : Out(sel[s], chain[i])
        <5> TAKE i \in 1..Len(chain)
        <5>1. CASE i = sel[s].pos
          BY <2>5, <5>1, FirstDomainJudges DEF Out, Admissible, e, chain
        <5>2. CASE i # sel[s].pos
          <6>1. sel[s].pos = Len(chain) /\ Len(chain) \in Nat
            BY <2>3, <2>5
          <6>2. i # Len(chain) /\ i \in 1..Len(chain)
            BY <6>1, <5>2
          <6>3. i \in 1..(Len(chain) - 1)
            BY <6>1, <6>2
          <6>4. i \in 1..(sel[s].pos - 1)
            BY <6>1, <6>3
          <6> QED BY <2>2, <3>1, <6>4
        <5> QED BY <5>1, <5>2
      <4>2. /\ Ended(s, NoEndpoint).out = NoEndpoint /\ Ended(s, NoEndpoint).role = "BOSS"
            /\ Ended(s, NoEndpoint).overlay = FALSE /\ Ended(s, NoEndpoint).role = sel[s].role
            /\ Ended(s, NoEndpoint).imp = sel[s].imp /\ Ended(s, NoEndpoint).ts = sel[s].ts
        BY <1>0, <2>2, <3>1, EndedFields DEF Selection
      <4> QED BY <2>3, <4>1, <4>2 DEF RightlyAnswered, Out
    <3> QED BY <1>0, <2>5, <3>1, AnswerPasses
  <2>6. CASE /\ e \notin Active \/ Cooling(DomainOf(e), sel[s].ts)
             /\ sel[s].pos # Len(chain)
             /\ sel' = [sel EXCEPT ![s] = Onward(s, {})]
    <3> DEFINE new == Onward(s, {})
    <3>1. /\ new.at = "walk" /\ new.excl = sel[s].excl /\ new.pos = sel[s].pos + 1
          /\ new.role = sel[s].role /\ new.imp = sel[s].imp /\ new.ts = sel[s].ts
          /\ new.overlay = sel[s].overlay /\ new.calm = sel[s].calm
      BY <2>0, OnwardFields
    <3> HIDE DEF new
    <3>2. sel'[s] = new
      BY <1>0, <2>6 DEF new
    <3>3. ASSUME sel[s].calm
          PROVE  /\ new.pos \in DOMAIN Chain["BOSS"]
                 /\ \A i \in 1..(new.pos - 1) : Out(new, Chain["BOSS"][i])
      <4>1. new.pos \in 1..Len(chain)
        BY <2>2, <2>3, <2>6, <3>1, <3>3
      <4>2. \A i \in 1..(new.pos - 1) : i \in 1..(sel[s].pos - 1) \/ i = sel[s].pos
        BY <2>2, <2>3, <3>1, <3>3
      <4>3. Out(sel[s], chain[sel[s].pos])
        BY <2>6, FirstDomainJudges DEF Out, Admissible, e, chain
      <4>4. \A i \in 1..(new.pos - 1) : Out(sel[s], chain[i])
        BY <2>2, <3>3, <4>2, <4>3
      <4>5. \A i \in 1..(new.pos - 1) : Out(new, chain[i])
        BY <3>1, <4>4 DEF Out
      <4> QED BY <2>3, <4>1, <4>5 DEF chain
    <3>4. \A i : Out(new, Chain["BOSS"][i]) => Out(sel[s], Chain["BOSS"][i])'
      BY <1>c, <3>2 DEF Out
    <3> QED BY <1>0, <1>l, <2>0, <2>2, <3>1, <3>2, <3>3, <3>4 DEF PassedOf
  <2> QED BY <2>1, <2>4, <2>5, <2>6
<1>6. CASE Filter(s)
  <2> DEFINE chain == Chain["VERIFIER"]
             n == sel[s].pos
             kept == sel[s].kept \cup (IF Survives(s, chain[n]) THEN {n} ELSE {})
  <2>0. "VERIFIER" \in RoutedRole /\ sel[s].at = "filter"
    BY <1>6 DEF RoutedRole, Filter
  <2>1. \/ n = Len(chain) /\ sel' = [sel EXCEPT ![s] = Ended(s, Survivor(kept))]
        \/ n # Len(chain) /\ sel' = [sel EXCEPT ![s] = Onward(s, kept)]
    BY <1>6 DEF Filter
  <2>2. TableOf("VERIFIER", FALSE) = chain /\ DOMAIN chain = 1..Len(chain) /\ Len(chain) \in Nat
    BY <1>r, <2>0 DEF TableOf
  <2>3. ASSUME sel[s].calm
        PROVE  /\ sel[s].role = "VERIFIER" /\ sel[s].overlay = FALSE /\ n \in 1..Len(chain)
               /\ \A i \in 1..n : i \in kept \/ Out(sel[s], chain[i])
               /\ \A i \in kept : i \in 1..n /\ Admissible(chain[i], "VERIFIER", sel[s].imp)
    <3>1. /\ sel[s].role = "VERIFIER" /\ ~sel[s].overlay /\ n \in DOMAIN chain
          /\ \A i \in 1..(n - 1) : i \in sel[s].kept \/ Out(sel[s], chain[i])
          /\ \A i \in sel[s].kept :
                i \in 1..(n - 1) /\ Admissible(chain[i], "VERIFIER", sel[s].imp)
          /\ \A c \in sel[s].excl : Suppressed(c, sel[s].ts)
      BY <1>0, <2>0, <2>3 DEF PassedOf
    <3>2. n \in kept \/ Out(sel[s], chain[n])
      BY <3>1, FirstDomainJudges DEF Survives, Out, Suppressed, JudgedBy
    <3>3. n \in kept => Admissible(chain[n], "VERIFIER", sel[s].imp) \/ n \in sel[s].kept
      BY DEF Survives
    <3>4. n \in Nat /\ \A i \in 1..n : i \in 1..(n - 1) \/ i = n
      BY <2>2, <3>1
    <3>5. \A i \in kept : i \in sel[s].kept \/ i = n
      OBVIOUS
    <3>6. sel[s].kept \subseteq kept
      OBVIOUS
    <3>7. sel[s].overlay = FALSE
      BY <1>0, <3>1 DEF Selection
    <3>8. n \in 1..n /\ 1..(n - 1) \subseteq 1..n
      BY <2>2, <3>1
    <3> HIDE DEF chain, n, kept
    <3>9. \A i \in 1..n : i \in kept \/ Out(sel[s], chain[i])
      BY <3>1, <3>2, <3>4, <3>6
    <3>10. \A i \in kept : i \in 1..n /\ Admissible(chain[i], "VERIFIER", sel[s].imp)
      BY <3>1, <3>3, <3>5, <3>8
    <3> QED BY <2>2, <3>1, <3>7, <3>9, <3>10
  <2> HIDE DEF chain, n, kept
  <2>4. CASE n = Len(chain) /\ sel' = [sel EXCEPT ![s] = Ended(s, Survivor(kept))]
    <3> DEFINE e == Survivor(kept)
    <3>1. ASSUME sel[s].calm PROVE RightlyAnswered(Ended(s, e))
      <4>1. kept \subseteq Nat
        BY <2>3, <3>1
      <4>2. e = NoEndpoint \/ Admissible(e, "VERIFIER", sel[s].imp)
        <5>1. CASE kept = {}
          BY <5>1 DEF Survivor
        <5>2. CASE kept # {}
          BY <2>3, <3>1, <4>1, <5>2, SurvivorIsKept DEF chain
        <5> QED BY <5>1, <5>2
      <4>3. \A i \in kept : \E j \in 1..i : chain[j] = e
        <5> TAKE i \in kept
        <5>1. FirstOf(kept) \in kept /\ FirstOf(kept) <= i
          BY <4>1, FirstOfIsMember
        <5>2. e = chain[FirstOf(kept)]
          BY DEF Survivor, chain
        <5>3. FirstOf(kept) \in 1..n /\ i \in 1..n /\ n \in Nat
          BY <2>2, <2>3, <3>1, <5>1
        <5>4. FirstOf(kept) \in 1..i
          BY <5>1, <5>3
        <5> QED BY <5>2, <5>4
      <4> HIDE DEF e
      <4>4. /\ Ended(s, e).out = e /\ Ended(s, e).role = "VERIFIER"
            /\ Ended(s, e).role = sel[s].role /\ Ended(s, e).overlay = FALSE
            /\ Ended(s, e).imp = sel[s].imp /\ Ended(s, e).ts = sel[s].ts
        BY <2>3, <3>1, EndedFields
      <4>5. \A i \in 1..Len(chain) :
               (\E j \in 1..i : chain[j] = e) \/ Out(Ended(s, e), chain[i])
        BY <2>3, <2>4, <3>1, <4>3, <4>4 DEF Out
      <4> QED BY <2>2, <4>2, <4>4, <4>5 DEF RightlyAnswered
    <3> QED BY <1>0, <2>4, <3>1, AnswerPasses
  <2>5. CASE n # Len(chain) /\ sel' = [sel EXCEPT ![s] = Onward(s, kept)]
    <3> DEFINE new == Onward(s, kept)
    <3>1. /\ new.at = "filter" /\ new.excl = sel[s].excl /\ new.pos = n + 1
          /\ new.kept = kept
          /\ new.role = sel[s].role /\ new.imp = sel[s].imp /\ new.ts = sel[s].ts
          /\ new.overlay = sel[s].overlay /\ new.calm = sel[s].calm
      BY <2>0, OnwardFields DEF n
    <3> HIDE DEF new
    <3>2. sel'[s] = new
      BY <1>0, <2>5 DEF new
    <3>3. ASSUME sel[s].calm
          PROVE  /\ new.pos \in DOMAIN Chain["VERIFIER"]
                 /\ \A i \in 1..(new.pos - 1) : i \in kept \/ Out(new, Chain["VERIFIER"][i])
                 /\ \A i \in kept : /\ i \in 1..(new.pos - 1)
                                    /\ Admissible(Chain["VERIFIER"][i], "VERIFIER", new.imp)
      <4>1. new.pos \in 1..Len(chain) /\ 1..(new.pos - 1) = 1..n
        BY <2>2, <2>3, <2>5, <3>1, <3>3
      <4>2. \A i \in 1..n : i \in kept \/ Out(new, chain[i])
        BY <2>3, <3>1, <3>3 DEF Out
      <4> QED BY <2>2, <2>3, <3>1, <3>3, <4>1, <4>2 DEF chain
    <3>4. \A i : Out(new, Chain["VERIFIER"][i]) => Out(sel[s], Chain["VERIFIER"][i])'
      BY <1>c, <3>2 DEF Out
    <3>5. sel[s].calm => \A c \in sel[s].excl : Suppressed(c, sel[s].ts)
      BY <1>0 DEF PassedOf
    <3> QED BY <1>l, <2>3, <3>1, <3>2, <3>3, <3>4, <3>5 DEF PassedOf
  <2> QED BY <2>1, <2>4, <2>5
<1> QED BY <1>1, <1>2, <1>3, <1>4, <1>5, <1>6 DEF Select

\* A step that is no selection's own keeps PassedOf: what cools down goes on
\* cooling down, unless every selection learns that the file was cleared.
LEMMA PassedStep ==
    ASSUME OneRecorder, TypeOK, KeptActive, FileInv, PassedInv, [Next]_vars
    PROVE  PassedInv'
<1>0. \A d \in Domain : health[d] \in Nat /\ health'[d] \in Nat
  BY HealthTypeStep DEF TypeOK, Untils
<1>1. ASSUME UNCHANGED sel, \A d \in Domain : health'[d] >= health[d]
      PROVE  PassedInv'
  <2> SUFFICES ASSUME NEW s \in Selector PROVE PassedOf(sel[s])'
    BY DEF PassedInv
  <2>1. sel[s] \in Selection /\ PassedOf(sel[s]) /\ sel'[s] = sel[s] /\ sel[s].ts \in Nat
    BY <1>1 DEF TypeOK, PassedInv, Selection
  <2>2. \A d : Cooling(d, sel[s].ts) => Cooling(d, sel[s].ts)'
    BY <1>0, <1>1, <2>1 DEF Cooling
  <2>3. \A e : Out(sel[s], e) => Out(sel[s], e)'
    BY <2>1, <2>2 DEF Out, JudgedBy
  <2>5. \A e : Suppressed(e, sel[s].ts) => Suppressed(e, sel[s].ts)'
    BY <2>1, <2>2 DEF Suppressed
  <2>4. RightlyAnswered(sel[s]) => RightlyAnswered(sel[s])'
    BY <2>1, <2>3 DEF RightlyAnswered
  <2> QED BY <2>1, <2>3, <2>4, <2>5 DEF PassedOf
<1>2. CASE Emptying
  <2>1. \A s \in Selector : sel'[s].calm = FALSE
    BY <1>2 DEF Emptying, ClearHealth, SaveCut, Emptied, TypeOK, Selection
  <2> QED BY <2>1 DEF PassedInv, PassedOf
<1>3. ASSUME NEW s \in Selector, Select(s) PROVE PassedInv'
  <2> SUFFICES ASSUME NEW q \in Selector, q # s PROVE PassedOf(sel[q])'
    BY <1>3, SelectKeepsPassed DEF PassedInv
  <2>1. sel'[q] = sel[q] /\ health' = health
    BY <1>3 DEF Select, Quiet, Begin, Snapshot, ChooseTable, Pick, Walk, Filter, TypeOK
  <2> QED BY <2>1 DEF PassedInv, PassedOf, RightlyAnswered, Out, Suppressed, Cooling
<1>4. CASE Tick \/ (\E r \in Recorder : Record(r) /\ ~SaveCut(r)) \/ UNCHANGED vars
  <2>1. UNCHANGED sel
    BY <1>4 DEF Tick, Record, Load, Save, Abandon, vars
  <2>2. \A d \in Domain : health'[d] >= health[d]
    <3>1. ASSUME NEW r \in Recorder, Save(r) PROVE \A d \in Domain : health'[d] >= health[d]
      BY <3>1 DEF Save, FileInv
    <3>2. UNCHANGED health => \A d \in Domain : health'[d] >= health[d]
      BY <1>0
    <3> QED BY <1>4, <3>1, <3>2 DEF Tick, Record, Load, Abandon, vars
  <2> QED BY <1>1, <2>1, <2>2
<1> QED BY <1>2, <1>3, <1>4 DEF Next, Emptying

\* With one recorder a selection passes over a candidate only for a reason that
\* still stands when it answers, and fails only if there is one for each: of the
\* table, of the Boss chain and of the reviewers alike (weighted_select,
\* shadow_boss_binding, select_reviewer).
THEOREM NoHealthyCandidateSkippedHolds ==
    ASSUME OneRecorder PROVE Spec => []NoHealthyCandidateSkipped
<1>1. Init => PassedInv
  BY DEF Init, PassedInv, PassedOf, NoSelection
<1>2. TypeOK /\ KeptActive /\ FileInv /\ PassedInv /\ [Next]_vars => PassedInv'
  BY PassedStep
<1>3. PassedInv => NoHealthyCandidateSkipped
  BY DEF PassedInv, PassedOf, RightlyAnswered, Out, NoHealthyCandidateSkipped
<1> QED BY <1>1, <1>2, <1>3, FileInvariant, HealthTypeCorrect, PTL DEF Spec
=============================================================================
