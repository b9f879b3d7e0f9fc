---------------------- MODULE AdaptiveSchedulerProofs ----------------------
(***************************************************************************)
(* Proofs about AdaptiveScheduler for every set of tasks, every limit and  *)
(* every bound on the number of spawns.                                    *)
(***************************************************************************)
EXTENDS SchedulerRefinement, FiniteSetTheorems, TLAPS

USE SchedulerAssumption DEF ScheduledTask, Role, CappedRole, ReviewRole

-----------------------------------------------------------------------------
(* The slot table under its two updates.                                   *)

OfRole(table, r) == {a \in table : a.role = r}

\* Entering a task adds at most one entry, and none to another role.
LEMMA EnteredSize ==
    ASSUME NEW t \in Tasks, IsFiniteSet(active), active \subseteq Tasks
    PROVE  /\ IsFiniteSet(Entered(t))
           /\ Cardinality(Entered(t)) \in Nat
           /\ Cardinality(Entered(t)) >= 1
           /\ Cardinality(Entered(t)) <= Cardinality(active) + 1
<1> DEFINE kept == {a \in active : a.task_id # t.task_id}
<1>1. kept \in SUBSET active  OBVIOUS
<1>2. IsFiniteSet(kept) /\ Cardinality(kept) <= Cardinality(active)
  BY <1>1, FS_Subset
<1>3. /\ IsFiniteSet(kept \cup {t})
      /\ Cardinality(kept \cup {t}) = Cardinality(kept) + 1
  BY <1>2, FS_AddElement
<1>4. Cardinality(kept) \in Nat /\ Cardinality(active) \in Nat
  BY <1>2, FS_CardinalityType
<1> QED BY <1>2, <1>3, <1>4 DEF Entered

\* The entries of role r after a dispatch: one more at most, and only when r
\* is the role of the task that entered.
LEMMA EnteredRoleSize ==
    ASSUME NEW t \in Tasks, NEW r \in Role, IsFiniteSet(active), active \subseteq Tasks
    PROVE  /\ Cardinality(OfRole(Entered(t), r)) \in Nat
           /\ Cardinality(ActiveOf(r)) \in Nat
           /\ r = t.role =>
                Cardinality(OfRole(Entered(t), r)) <= Cardinality(ActiveOf(r)) + 1
           /\ r # t.role =>
                Cardinality(OfRole(Entered(t), r)) <= Cardinality(ActiveOf(r))
<1> DEFINE kept == {a \in ActiveOf(r) : a.task_id # t.task_id}
<1>1. IsFiniteSet(ActiveOf(r))
  BY FS_Subset DEF ActiveOf
<1>2. kept \in SUBSET ActiveOf(r)  OBVIOUS
<1>3. IsFiniteSet(kept) /\ Cardinality(kept) <= Cardinality(ActiveOf(r))
  BY <1>1, <1>2, FS_Subset
<1>4. Cardinality(kept) \in Nat /\ Cardinality(ActiveOf(r)) \in Nat
  BY <1>1, <1>3, FS_CardinalityType
<1>5. CASE r = t.role
  <2>1. OfRole(Entered(t), r) = kept \cup {t}
    BY <1>5 DEF Entered, ActiveOf, OfRole
  <2>2. /\ IsFiniteSet(kept \cup {t})
        /\ Cardinality(kept \cup {t}) = Cardinality(kept) + 1
    BY <1>3, FS_AddElement
  <2> QED BY <1>3, <1>4, <1>5, <2>1, <2>2
<1>6. CASE r # t.role
  <2>1. OfRole(Entered(t), r) = kept
    BY <1>6 DEF Entered, ActiveOf, OfRole
  <2> QED BY <1>3, <1>4, <1>6, <2>1
<1> QED BY <1>5, <1>6

\* Finishing a task takes its entry out, from the table and from its role.
LEMMA PoppedSize ==
    ASSUME NEW t \in active, NEW success \in BOOLEAN, NEW r \in Role,
           IsFiniteSet(active), active \subseteq Tasks
    PROVE  /\ Cardinality(Popped(t, success)) = Cardinality(active) - 1
           /\ Cardinality(active) \in Nat
           /\ Cardinality(ActiveOf(r)) \in Nat
           /\ Cardinality(OfRole(Popped(t, success), r)) =
                IF r = t.role THEN Cardinality(ActiveOf(r)) - 1
                              ELSE Cardinality(ActiveOf(r))
<1>1. IsFiniteSet(ActiveOf(r))
  BY FS_Subset DEF ActiveOf
<1>2. /\ IsFiniteSet(active \ {t})
      /\ Cardinality(active \ {t}) = Cardinality(active) - 1
  BY FS_RemoveElement
<1>3. Cardinality(active) \in Nat /\ Cardinality(ActiveOf(r)) \in Nat
  BY <1>1, FS_CardinalityType
<1>4. CASE r = t.role
  <2>1. OfRole(Popped(t, success), r) = ActiveOf(r) \ {t} /\ t \in ActiveOf(r)
    BY <1>4 DEF Popped, ActiveOf, OfRole
  <2> QED BY <1>1, <1>2, <1>3, <1>4, <2>1, FS_RemoveElement DEF Popped
<1>5. CASE r # t.role
  <2>1. OfRole(Popped(t, success), r) = ActiveOf(r)
    BY <1>5 DEF Popped, ActiveOf, OfRole
  <2> QED BY <1>2, <1>3, <1>5, <2>1 DEF Popped
<1> QED BY <1>4, <1>5

-----------------------------------------------------------------------------
(* Any caller.                                                             *)

\* The table holds submitted tasks, finitely many, and the counters count.
THEOREM TypeCorrect == Spec => []TypeOK
<1>1. Init => TypeOK
  BY FS_EmptySet DEF Init, TypeOK
<1>2. TypeOK /\ [Next]_vars => TypeOK'
  <2> SUFFICES ASSUME TypeOK, [Next]_vars PROVE TypeOK'
    OBVIOUS
  <2> USE DEF TypeOK
  <2>1. ASSUME NEW t \in Tasks, Dispatch(t) PROVE TypeOK'
    <3>1. IsFiniteSet(Entered(t)) /\ Cardinality(Entered(t)) \in Nat
      BY EnteredSize
    <3>2. active' \subseteq Tasks
      BY <2>1 DEF Dispatch, Entered
    <3>3. peak' \in Nat /\ waves' \in Nat
      BY <2>1, <3>1 DEF Dispatch, PeakWith, WavesWith
    <3>4. spawned' \in [Role -> Nat]
      BY <2>1 DEF Dispatch, CounterOf
    <3> QED BY <2>1, <3>1, <3>2, <3>3, <3>4 DEF Dispatch
  <2>2. ASSUME NEW t \in Tasks, NEW success \in BOOLEAN, Finish(t, success)
        PROVE  TypeOK'
    <3>1. IsFiniteSet(active')
      BY <2>2, FS_RemoveElement DEF Finish, Popped
    <3>2. completed' \subseteq TaskId /\ failed' \subseteq TaskId
      BY <2>2 DEF Finish, CompletedBy, FailedBy, Filed
    <3>3. released' \in [Role -> Nat]
      BY <2>2 DEF Finish
    <3> QED BY <2>2, <3>1, <3>2, <3>3 DEF Finish, Popped
  <2>3. CASE UNCHANGED vars
    BY <2>3 DEF vars
  <2> QED BY <2>1, <2>2, <2>3 DEF Next
<1> QED BY <1>1, <1>2, PTL DEF Spec

\* The limits hold because both are checked before every insertion, which
\* adds one entry at most, to the table and to one role.
THEOREM SlotLimitsHold == Spec => []SlotLimits
<1>1. Init => SlotLimits
  <2> SUFFICES ASSUME Init PROVE SlotLimits
    OBVIOUS
  <2>1. \A r \in CappedRole : ActiveOf(r) = {}
    BY DEF Init, ActiveOf
  <2> QED BY <2>1, FS_EmptySet DEF Init, SlotLimits
<1>2. TypeOK /\ SlotLimits /\ [Next]_vars => SlotLimits'
  <2> SUFFICES ASSUME TypeOK, SlotLimits, [Next]_vars PROVE SlotLimits'
    OBVIOUS
  <2>1. ASSUME NEW t \in Tasks, Dispatch(t) PROVE SlotLimits'
    <3>1. /\ Cardinality(active') \in Nat
          /\ Cardinality(active) \in Nat
          /\ Cardinality(active') <= Cardinality(active) + 1
      BY <2>1, EnteredSize, FS_CardinalityType DEF TypeOK, Dispatch
    <3>2. Cardinality(active') <= peak' /\ peak' <= MaxActive
      BY <2>1, <3>1 DEF Dispatch, PeakWith, CanDispatch, SlotFree, SlotLimits, TypeOK
    <3>3. ASSUME NEW r \in CappedRole
          PROVE  Cardinality(ActiveOf(r)') <= RoleLimit[r]
      <4>1. ActiveOf(r)' = OfRole(Entered(t), r)
        BY <2>1 DEF Dispatch, ActiveOf, OfRole
      <4>2. /\ Cardinality(ActiveOf(r)') \in Nat
            /\ Cardinality(ActiveOf(r)) \in Nat
            /\ r = t.role => Cardinality(ActiveOf(r)') <= Cardinality(ActiveOf(r)) + 1
            /\ r # t.role => Cardinality(ActiveOf(r)') <= Cardinality(ActiveOf(r))
        BY <4>1, EnteredRoleSize DEF TypeOK
      <4> QED BY <2>1, <4>2 DEF Dispatch, CanDispatch, RoleSlotFree, SlotLimits
    <3> QED BY <3>2, <3>3 DEF SlotLimits
  <2>2. ASSUME NEW t \in Tasks, NEW success \in BOOLEAN, Finish(t, success)
        PROVE  SlotLimits'
    <3>1. ASSUME NEW r \in Role
          PROVE  /\ Cardinality(active') <= Cardinality(active)
                 /\ Cardinality(active') \in Int
                 /\ Cardinality(active) \in Nat
                 /\ Cardinality(ActiveOf(r)') <= Cardinality(ActiveOf(r))
                 /\ Cardinality(ActiveOf(r)') \in Int
                 /\ Cardinality(ActiveOf(r)) \in Nat
      <4>1. ActiveOf(r)' = OfRole(Popped(t, success), r)
        BY <2>2 DEF Finish, ActiveOf, OfRole
      <4> QED BY <2>2, <4>1, PoppedSize DEF Finish, TypeOK
    <3>2. "SCOUT" \in Role
      OBVIOUS
    <3>3. peak' = peak
      BY <2>2 DEF Finish
    <3> QED BY <3>1, <3>2, <3>3 DEF SlotLimits, TypeOK
  <2>3. CASE UNCHANGED vars
    BY <2>3 DEF vars, SlotLimits, ActiveOf
  <2> QED BY <2>1, <2>2, <2>3 DEF Next
<1> QED BY <1>1, <1>2, TypeCorrect, PTL DEF Spec

\* Both lines of the summary are moved by the size of the same table, when the
\* same dispatch brings it above one.
THEOREM ParallelismAgreesHolds == Spec => []ParallelismAgrees
<1>1. Init => ParallelismAgrees
  BY DEF Init, ParallelismAgrees
<1>2. TypeOK /\ ParallelismAgrees /\ [Next]_vars => ParallelismAgrees'
  <2> SUFFICES ASSUME TypeOK, ParallelismAgrees, [Next]_vars PROVE ParallelismAgrees'
    OBVIOUS
  <2> USE DEF ParallelismAgrees
  <2>1. ASSUME NEW t \in Tasks, Dispatch(t) PROVE ParallelismAgrees'
    <3>1. Cardinality(active') \in Nat
      BY <2>1, EnteredSize DEF TypeOK, Dispatch
    <3> QED BY <2>1, <3>1 DEF Dispatch, PeakWith, WavesWith, TypeOK
  <2>2. ASSUME NEW t \in Tasks, NEW success \in BOOLEAN, Finish(t, success)
        PROVE  ParallelismAgrees'
    BY <2>2 DEF Finish
  <2>3. CASE UNCHANGED vars
    BY <2>3 DEF vars
  <2> QED BY <2>1, <2>2, <2>3 DEF Next
<1> QED BY <1>1, <1>2, TypeCorrect, PTL DEF Spec

\* Two entries never share a file or an id: a task enters only beside disjoint
\* file sets and takes the place of the entry its id had.
THEOREM ExclusiveOwnershipHolds == Spec => []ExclusiveOwnership
<1>1. Init => ExclusiveOwnership
  BY DEF Init, ExclusiveOwnership
<1>2. ExclusiveOwnership /\ [Next]_vars => ExclusiveOwnership'
  <2> SUFFICES ASSUME ExclusiveOwnership, [Next]_vars PROVE ExclusiveOwnership'
    OBVIOUS
  <2>1. ASSUME NEW t \in Tasks, Dispatch(t) PROVE ExclusiveOwnership'
    <3>1. active' = {a \in active : a.task_id # t.task_id} \cup {t}
      BY <2>1 DEF Dispatch, Entered
    <3>2. \A a \in active : t.owned_files \cap a.owned_files = {}
      BY <2>1 DEF Dispatch, CanDispatch, OwnershipFree
    <3> QED BY <3>1, <3>2 DEF ExclusiveOwnership
  <2>2. ASSUME NEW t \in Tasks, NEW success \in BOOLEAN, Finish(t, success)
        PROVE  ExclusiveOwnership'
    BY <2>2 DEF ExclusiveOwnership, Finish, Popped
  <2>3. CASE UNCHANGED vars
    BY <2>3 DEF vars, ExclusiveOwnership
  <2> QED BY <2>1, <2>2, <2>3 DEF Next
<1> QED BY <1>1, <1>2, PTL DEF Spec

\* The first of the ids to run would have needed another one to have completed
\* before it.
THEOREM DeadEndsNeverRunHolds == Spec => []DeadEndsNeverRun
<1>1. Init => DeadEndsNeverRun
  BY DEF Init, DeadEndsNeverRun, ActiveIds
<1>2. DeadEndsNeverRun /\ [Next]_vars => DeadEndsNeverRun'
  <2> SUFFICES ASSUME DeadEndsNeverRun, [Next]_vars, NEW C \in SUBSET TaskId,
                      \A t \in Tasks : t.task_id \in C => WaitsFor(t) \cap C # {}
               PROVE  (C \cap (ActiveIds \cup completed \cup failed))' = {}
    BY DEF DeadEndsNeverRun
  <2>1. C \cap ActiveIds = {} /\ C \cap completed = {} /\ C \cap failed = {}
    BY DEF DeadEndsNeverRun
  <2>2. ASSUME NEW t \in Tasks, Dispatch(t)
        PROVE  (C \cap (ActiveIds \cup completed \cup failed))' = {}
    <3>1. WaitsFor(t) \subseteq completed
      BY <2>2 DEF Dispatch, CanDispatch, DependenciesDone, ImplementerDone, WaitsFor
    <3>2. t.task_id \notin C
      BY <2>1, <3>1
    <3>3. ActiveIds' \subseteq ActiveIds \cup {t.task_id}
      BY <2>2 DEF Dispatch, Entered, ActiveIds
    <3>4. completed' = completed /\ failed' = failed
      BY <2>2 DEF Dispatch
    <3> QED BY <2>1, <3>2, <3>3, <3>4
  <2>3. ASSUME NEW t \in Tasks, NEW success \in BOOLEAN, Finish(t, success)
        PROVE  (C \cap (ActiveIds \cup completed \cup failed))' = {}
    <3>1. t.task_id \in ActiveIds
      BY <2>3 DEF Finish, ActiveIds
    <3>2. /\ ActiveIds' \subseteq ActiveIds
          /\ completed' \subseteq completed \cup {t.task_id}
          /\ failed' \subseteq failed \cup {t.task_id}
      BY <2>3 DEF Finish, Popped, CompletedBy, FailedBy, Filed, ActiveIds
    <3> QED BY <2>1, <3>1, <3>2
  <2>4. CASE UNCHANGED vars
    BY <2>1, <2>4 DEF vars, ActiveIds
  <2> QED BY <2>2, <2>3, <2>4 DEF Next
<1> QED BY <1>1, <1>2, PTL DEF Spec

\* What a running task was admitted on stays completed while it runs, because
\* no operation takes an id out of completed_tasks.
THEOREM BuiltOnFinishedWorkHolds == Spec => []BuiltOnFinishedWork
<1>1. Init => BuiltOnFinishedWork
  BY DEF Init, BuiltOnFinishedWork
<1>2. BuiltOnFinishedWork /\ [Next]_vars => BuiltOnFinishedWork'
  <2> SUFFICES ASSUME BuiltOnFinishedWork, [Next]_vars PROVE BuiltOnFinishedWork'
    OBVIOUS
  <2>1. ASSUME NEW t \in Tasks, Dispatch(t) PROVE BuiltOnFinishedWork'
    <3>1. DependenciesDone(t) /\ ImplementerDone(t)
      BY <2>1 DEF Dispatch, CanDispatch
    <3>2. active' \subseteq active \cup {t} /\ completed' = completed
      BY <2>1 DEF Dispatch, Entered
    <3> QED BY <3>1, <3>2 DEF BuiltOnFinishedWork, DependenciesDone, ImplementerDone
  <2>2. ASSUME NEW t \in Tasks, NEW success \in BOOLEAN, Finish(t, success)
        PROVE  BuiltOnFinishedWork'
    <3>1. active' \subseteq active /\ completed \subseteq completed'
      BY <2>2 DEF Finish, Popped, CompletedBy, Filed
    <3> QED BY <3>1 DEF BuiltOnFinishedWork
  <2>3. CASE UNCHANGED vars
    BY <2>3 DEF vars, BuiltOnFinishedWork
  <2> QED BY <2>1, <2>2, <2>3 DEF Next
<1> QED BY <1>1, <1>2, PTL DEF Spec

\* The counters cover the work: a dispatch counts one spawn and adds one entry
\* at most to that role, a finish moves one entry from the table to released.
THEOREM SpawnsCoverWorkHolds == Spec => []SpawnsCoverWork
<1>1. Init => SpawnsCoverWork
  <2> SUFFICES ASSUME Init, NEW r \in Role
               PROVE  released[r] + Cardinality(ActiveOf(r)) <= spawned[r]
    BY DEF SpawnsCoverWork
  <2>1. ActiveOf(r) = {}
    BY DEF Init, ActiveOf
  <2> QED BY <2>1, FS_EmptySet DEF Init
<1>2. TypeOK /\ SpawnsCoverWork /\ [Next]_vars => SpawnsCoverWork'
  <2> SUFFICES ASSUME TypeOK, SpawnsCoverWork, [Next]_vars, NEW r \in Role
               PROVE  released'[r] + Cardinality(ActiveOf(r)') <= spawned'[r]
    BY DEF SpawnsCoverWork
  <2>0. /\ released[r] \in Nat /\ spawned[r] \in Nat
        /\ released[r] + Cardinality(ActiveOf(r)) <= spawned[r]
    BY DEF TypeOK, SpawnsCoverWork
  <2>1. ASSUME NEW t \in Tasks, Dispatch(t)
        PROVE  released'[r] + Cardinality(ActiveOf(r)') <= spawned'[r]
    <3>1. ActiveOf(r)' = OfRole(Entered(t), r)
      BY <2>1 DEF Dispatch, ActiveOf, OfRole
    <3>2. /\ Cardinality(ActiveOf(r)') \in Nat
          /\ Cardinality(ActiveOf(r)) \in Nat
          /\ r = t.role => Cardinality(ActiveOf(r)') <= Cardinality(ActiveOf(r)) + 1
          /\ r # t.role => Cardinality(ActiveOf(r)') <= Cardinality(ActiveOf(r))
      BY <3>1, EnteredRoleSize DEF TypeOK
    <3>3. /\ released' = released
          /\ spawned'[r] = IF r = t.role THEN spawned[r] + 1 ELSE spawned[r]
      BY <2>1 DEF Dispatch, CounterOf, TypeOK
    <3> QED BY <2>0, <3>2, <3>3
  <2>2. ASSUME NEW t \in Tasks, NEW success \in BOOLEAN, Finish(t, success)
        PROVE  released'[r] + Cardinality(ActiveOf(r)') <= spawned'[r]
    <3>1. ActiveOf(r)' = OfRole(Popped(t, success), r)
      BY <2>2 DEF Finish, ActiveOf, OfRole
    <3>2. /\ Cardinality(ActiveOf(r)) \in Nat
          /\ Cardinality(ActiveOf(r)') =
               IF r = t.role THEN Cardinality(ActiveOf(r)) - 1
                             ELSE Cardinality(ActiveOf(r))
      BY <2>2, <3>1, PoppedSize DEF Finish, TypeOK
    <3>3. /\ spawned' = spawned
          /\ released'[r] = IF r = t.role THEN released[r] + 1 ELSE released[r]
      BY <2>2 DEF Finish, TypeOK
    <3> QED BY <2>0, <3>2, <3>3
  <2>3. CASE UNCHANGED vars
    BY <2>0, <2>3 DEF vars, ActiveOf
  <2> QED BY <2>1, <2>2, <2>3 DEF Next
<1> QED BY <1>1, <1>2, TypeCorrect, PTL DEF Spec

-----------------------------------------------------------------------------
(* A controller that runs each id once: its steps are steps of Next, so    *)
(* what holds for any caller holds for it.                                 *)

LEMMA PlanIsACaller == PlanSpec => Spec
<1>1. PlanNext => Next
  BY DEF PlanNext, Next, FirstAttempt
<1> QED BY <1>1, PTL DEF PlanSpec, Spec

\* An id is admitted once, so it cannot finish twice or in two ways.
THEOREM OneOutcomeHolds == PlanSpec => []OneOutcome
<1>1. Init => OneOutcome
  BY DEF Init, OneOutcome, ActiveIds
<1>2. ExclusiveOwnership /\ OneOutcome /\ [PlanNext]_vars => OneOutcome'
  <2> SUFFICES ASSUME ExclusiveOwnership, OneOutcome, [PlanNext]_vars PROVE OneOutcome'
    OBVIOUS
  <2>1. ASSUME NEW t \in Tasks, FirstAttempt(t) PROVE OneOutcome'
    <3>1. ActiveIds' \subseteq ActiveIds \cup {t.task_id}
      BY <2>1 DEF FirstAttempt, Dispatch, Entered, ActiveIds
    <3> QED BY <2>1, <3>1 DEF FirstAttempt, Dispatch, OneOutcome
  <2>2. ASSUME NEW t \in Tasks, NEW success \in BOOLEAN, Finish(t, success)
        PROVE  OneOutcome'
    <3>1. ActiveIds' \subseteq ActiveIds /\ t.task_id \notin ActiveIds'
      BY <2>2 DEF Finish, Popped, ActiveIds, ExclusiveOwnership
    <3>2. t.task_id \notin completed \cup failed
      BY <2>2 DEF Finish, OneOutcome, ActiveIds
    <3>3. \/ completed' = completed \cup {t.task_id} /\ failed' = failed
          \/ completed' = completed /\ failed' = failed \cup {t.task_id}
      BY <2>2 DEF Finish, CompletedBy, FailedBy, Filed
    <3> QED BY <3>1, <3>2, <3>3 DEF OneOutcome
  <2>3. CASE UNCHANGED vars
    BY <2>3 DEF vars, OneOutcome, ActiveIds
  <2> QED BY <2>1, <2>2, <2>3 DEF PlanNext
<1> QED BY <1>1, <1>2, PlanIsACaller, ExclusiveOwnershipHolds, PTL DEF PlanSpec, Spec

\* Review and dependent work never overlap the work they build on: that work
\* has completed, and a completed id is not running again.
THEOREM ReviewAfterImplementationHolds == PlanSpec => []ReviewAfterImplementation
<1>1. TypeOK /\ BuiltOnFinishedWork /\ OneOutcome => ReviewAfterImplementation
  <2> SUFFICES ASSUME TypeOK, BuiltOnFinishedWork, OneOutcome, NEW t \in active
               PROVE  /\ ActiveIds \cap t.dependencies = {}
                      /\ t.role \in ReviewRole => t.implementer_task_id \notin ActiveIds
    BY DEF ReviewAfterImplementation
  <2>1. ActiveIds \subseteq TaskId /\ ActiveIds \cap completed = {}
    BY DEF TypeOK, ActiveIds, OneOutcome
  <2>2. /\ t.dependencies \subseteq completed
        /\ t.role \in ReviewRole => t.implementer_task_id \in completed \cup {NoTask}
    BY DEF BuiltOnFinishedWork
  <2> QED BY <2>1, <2>2
<1> QED BY <1>1, PlanIsACaller, TypeCorrect, BuiltOnFinishedWorkHolds, OneOutcomeHolds, PTL

\* Slots balance: an admitted id replaces no entry, so a dispatch adds exactly
\* one entry for the spawn it counts.
THEOREM SpawnsBalanceHolds == PlanSpec => []SpawnsBalance
<1>1. Init => SpawnsBalance
  <2> SUFFICES ASSUME Init, NEW r \in Role
               PROVE  released[r] + Cardinality(ActiveOf(r)) = spawned[r]
    BY DEF SpawnsBalance
  <2>1. ActiveOf(r) = {}
    BY DEF Init, ActiveOf
  <2> QED BY <2>1, FS_EmptySet DEF Init
<1>2. TypeOK /\ SpawnsBalance /\ [PlanNext]_vars => SpawnsBalance'
  <2> SUFFICES ASSUME TypeOK, SpawnsBalance, [PlanNext]_vars, NEW r \in Role
               PROVE  released'[r] + Cardinality(ActiveOf(r)') = spawned'[r]
    BY DEF SpawnsBalance
  <2>0. /\ released[r] \in Nat /\ spawned[r] \in Nat
        /\ released[r] + Cardinality(ActiveOf(r)) = spawned[r]
        /\ IsFiniteSet(ActiveOf(r)) /\ Cardinality(ActiveOf(r)) \in Nat
    BY FS_Subset, FS_CardinalityType DEF TypeOK, SpawnsBalance, ActiveOf
  <2>1. ASSUME NEW t \in Tasks, FirstAttempt(t)
        PROVE  released'[r] + Cardinality(ActiveOf(r)') = spawned'[r]
    <3>1. active' = active \cup {t} /\ t \notin active
      BY <2>1 DEF FirstAttempt, Dispatch, Entered, ActiveIds
    <3>2. ActiveOf(r)' = IF r = t.role THEN ActiveOf(r) \cup {t} ELSE ActiveOf(r)
      BY <3>1 DEF ActiveOf
    <3>3. Cardinality(ActiveOf(r)') =
            IF r = t.role THEN Cardinality(ActiveOf(r)) + 1 ELSE Cardinality(ActiveOf(r))
      BY <2>0, <3>1, <3>2, FS_AddElement DEF ActiveOf
    <3>4. /\ released' = released
          /\ spawned'[r] = IF r = t.role THEN spawned[r] + 1 ELSE spawned[r]
      BY <2>1 DEF FirstAttempt, Dispatch, CounterOf, TypeOK
    <3> QED BY <2>0, <3>3, <3>4
  <2>2. ASSUME NEW t \in Tasks, NEW success \in BOOLEAN, Finish(t, success)
        PROVE  released'[r] + Cardinality(ActiveOf(r)') = spawned'[r]
    <3>1. ActiveOf(r)' = OfRole(Popped(t, success), r)
      BY <2>2 DEF Finish, ActiveOf, OfRole
    <3>2. Cardinality(ActiveOf(r)') =
            IF r = t.role THEN Cardinality(ActiveOf(r)) - 1 ELSE Cardinality(ActiveOf(r))
      BY <2>2, <3>1, PoppedSize DEF Finish, TypeOK
    <3>3. /\ spawned' = spawned
          /\ released'[r] = IF r = t.role THEN released[r] + 1 ELSE released[r]
      BY <2>2 DEF Finish, TypeOK
    <3> QED BY <2>0, <3>2, <3>3
  <2>3. CASE UNCHANGED vars
    BY <2>0, <2>3 DEF vars, ActiveOf
  <2> QED BY <2>1, <2>2, <2>3 DEF PlanNext
<1> QED BY <1>1, <1>2, PlanIsACaller, TypeCorrect, PTL DEF PlanSpec, Spec

-----------------------------------------------------------------------------
(* The slot table implements one lock per file.                            *)

\* The lease on a file is the one its only owner in the table has.
LEMMA LeaseOfOwner ==
    ASSUME ExclusiveOwnership, NEW t \in active, NEW f \in File, f \in t.owned_files
    PROVE  LeaseOwner[f] = t.task_id
<1>1. (CHOOSE a \in active : f \in a.owned_files) = t
  BY DEF ExclusiveOwnership
<1> QED BY <1>1 DEF LeaseOwner

LEMMA NoOwnerNoLease ==
    ASSUME NEW f \in File, \A a \in active : f \notin a.owned_files
    PROVE  LeaseOwner[f] = NoTask
BY DEF LeaseOwner

\* There are no more ids in a table than entries.
LEMMA IdsBounded ==
    ASSUME NEW table, IsFiniteSet(table)
    PROVE  /\ IsFiniteSet({a.task_id : a \in table})
           /\ Cardinality({a.task_id : a \in table}) <= Cardinality(table)
<1> DEFINE ids == {a.task_id : a \in table}
           idOf == [a \in table |-> a.task_id]
<1>1. idOf \in Surjection(table, ids)
  BY DEF Surjection
<1> QED BY <1>1, FS_Surjection

LEMMA DispatchSits ==
    ASSUME TypeOK, TypeOK', SlotLimits', ExclusiveOwnership, ExclusiveOwnership',
           NEW t \in Tasks, Dispatch(t)
    PROVE  Leases!Sit(t.task_id, t.owned_files)
<1> DEFINE id == t.task_id
           files == t.owned_files
<1>1. active' = {a \in active : a.task_id # id} \cup {t}
  BY DEF Dispatch, Entered
<1>2. \A a \in active : files \cap a.owned_files = {}
  BY DEF Dispatch, CanDispatch, OwnershipFree
<1>3. files \subseteq File /\ id \in TaskId /\ id # NoTask
  BY DEF TypeOK
<1>4. \A f \in files : LeaseOwner[f] = NoTask
  BY <1>2, <1>3, NoOwnerNoLease
<1>5. ActiveIds' = ActiveIds \cup {id}
  BY <1>1 DEF ActiveIds
<1>6. Cardinality(ActiveIds') <= MaxActive
  <2>1. ActiveIds' = {a.task_id : a \in active'}
    BY DEF ActiveIds
  <2>2. /\ IsFiniteSet(ActiveIds')
        /\ Cardinality(ActiveIds') <= Cardinality(active')
    BY <2>1, IdsBounded DEF TypeOK
  <2>3. Cardinality(ActiveIds') \in Nat /\ Cardinality(active') \in Nat
    BY <2>2, FS_CardinalityType DEF TypeOK
  <2> QED BY <2>2, <2>3 DEF SlotLimits, TypeOK
<1>7. LeaseOwner' = Leases!Leased(id, files)
  <2>1. ASSUME NEW f \in File, f \in files PROVE LeaseOwner'[f] = id
    <3>1. t \in active'
      BY <1>1
    <3>2. (CHOOSE a \in active' : f \in a.owned_files) = t
      BY <2>1, <3>1 DEF ExclusiveOwnership
    <3> QED BY <2>1, <3>1, <3>2 DEF LeaseOwner
  <2>2. ASSUME NEW f \in File, f \notin files
        PROVE  LeaseOwner'[f] = IF LeaseOwner[f] = id THEN NoTask ELSE LeaseOwner[f]
    <3>1. CASE \E a \in active' : f \in a.owned_files
      <4>1. PICK a \in active' : f \in a.owned_files
        BY <3>1
      <4>2. a \in active /\ a.task_id # id
        BY <1>1, <2>2, <4>1
      <4>3. (CHOOSE b \in active' : f \in b.owned_files) = a
        BY <4>1 DEF ExclusiveOwnership
      <4>4. LeaseOwner'[f] = a.task_id
        BY <4>1, <4>3 DEF LeaseOwner
      <4>5. LeaseOwner[f] = a.task_id
        BY <4>1, <4>2, LeaseOfOwner
      <4> QED BY <4>2, <4>4, <4>5
    <3>2. CASE \A a \in active' : f \notin a.owned_files
      <4>1. LeaseOwner'[f] = NoTask
        BY <3>2 DEF LeaseOwner
      <4>2. CASE \E a \in active : f \in a.owned_files
        <5>1. PICK a \in active : f \in a.owned_files
          BY <4>2
        <5>2. a.task_id = id
          BY <1>1, <3>2, <5>1
        <5> QED BY <4>1, <5>1, <5>2, LeaseOfOwner
      <4>3. CASE \A a \in active : f \notin a.owned_files
        BY <1>3, <4>1, <4>3, NoOwnerNoLease
      <4> QED BY <4>2, <4>3
    <3> QED BY <3>1, <3>2
  <2>3. LeaseOwner' = [f \in File |-> LeaseOwner'[f]]
    BY DEF LeaseOwner
  <2> QED BY <2>1, <2>2, <2>3 DEF Leases!Leased
<1>8. Leases!Cardinality(ActiveIds') = Cardinality(ActiveIds')
  BY DEF Leases!Cardinality, Cardinality
<1> QED BY <1>4, <1>5, <1>6, <1>7, <1>8 DEF Leases!Sit

LEMMA FinishLeaves ==
    ASSUME TypeOK, ExclusiveOwnership, ExclusiveOwnership',
           NEW t \in Tasks, NEW success \in BOOLEAN, Finish(t, success)
    PROVE  Leases!Leave(t.task_id)
<1> DEFINE id == t.task_id
<1>1. t \in active /\ active' = active \ {t}
  BY DEF Finish, Popped
<1>2. id \in TaskId /\ id # NoTask
  OBVIOUS
<1>3. id \in ActiveIds /\ ActiveIds' = ActiveIds \ {id}
  BY <1>1 DEF ActiveIds, ExclusiveOwnership
<1>4. LeaseOwner' = Leases!Leased(id, {})
  <2>1. ASSUME NEW f \in File
        PROVE  LeaseOwner'[f] = IF LeaseOwner[f] = id THEN NoTask ELSE LeaseOwner[f]
    <3>1. CASE f \in t.owned_files
      <4>1. LeaseOwner[f] = id
        BY <1>1, <3>1, LeaseOfOwner
      <4>2. \A a \in active' : f \notin a.owned_files
        BY <1>1, <3>1 DEF ExclusiveOwnership
      <4> QED BY <4>1, <4>2 DEF LeaseOwner
    <3>2. CASE f \notin t.owned_files /\ \E a \in active : f \in a.owned_files
      <4>1. PICK a \in active : f \in a.owned_files
        BY <3>2
      <4>2. a \in active' /\ a.task_id # id
        BY <1>1, <3>2, <4>1 DEF ExclusiveOwnership
      <4>3. LeaseOwner[f] = a.task_id
        BY <4>1, LeaseOfOwner
      <4>4. (CHOOSE b \in active' : f \in b.owned_files) = a
        BY <4>1, <4>2 DEF ExclusiveOwnership
      <4>5. LeaseOwner'[f] = a.task_id
        BY <4>1, <4>2, <4>4 DEF LeaseOwner
      <4> QED BY <4>2, <4>3, <4>5
    <3>3. CASE \A a \in active : f \notin a.owned_files
      <4>1. \A a \in active' : f \notin a.owned_files
        BY <1>1, <3>3
      <4>2. LeaseOwner'[f] = NoTask
        BY <4>1 DEF LeaseOwner
      <4> QED BY <1>2, <3>3, <4>2, NoOwnerNoLease
    <3> QED BY <3>1, <3>2, <3>3
  <2>2. LeaseOwner' = [f \in File |-> LeaseOwner'[f]]
    BY DEF LeaseOwner
  <2> QED BY <2>1, <2>2 DEF Leases!Leased
<1> QED BY <1>3, <1>4 DEF Leases!Leave

\* The scheduler refines OwnershipLeases under the mapping of LeaseOwner: a
\* dispatch sits, a finish leaves, every other step stutters.
THEOREM RefinesLeases == Spec => ImplementsLeases
<1>1. Init => Leases!Init
  <2> SUFFICES ASSUME Init PROVE Leases!Init
    OBVIOUS
  <2>1. active = {}
    BY DEF Init
  <2> QED BY <2>1 DEF Leases!Init, ActiveIds, LeaseOwner
<1>2. /\ TypeOK /\ TypeOK' /\ SlotLimits /\ SlotLimits'
      /\ ExclusiveOwnership /\ ExclusiveOwnership' /\ [Next]_vars
      => [Leases!Next]_Leases!leaseVars
  <2> SUFFICES ASSUME TypeOK, TypeOK', SlotLimits', ExclusiveOwnership,
                      ExclusiveOwnership', [Next]_vars
               PROVE  [Leases!Next]_Leases!leaseVars
    OBVIOUS
  <2>1. ASSUME NEW t \in Tasks, Dispatch(t) PROVE Leases!Next
    <3>1. t.task_id \in TaskId /\ t.owned_files \in SUBSET File
      OBVIOUS
    <3> QED BY <2>1, <3>1, DispatchSits DEF Leases!Next
  <2>2. ASSUME NEW t \in Tasks, NEW success \in BOOLEAN, Finish(t, success)
        PROVE  Leases!Next
    <3>1. t.task_id \in TaskId
      OBVIOUS
    <3> QED BY <2>2, <3>1, FinishLeaves DEF Leases!Next
  <2>3. CASE UNCHANGED vars
    <3>1. active' = active
      BY <2>3 DEF vars
    <3> QED BY <3>1 DEF Leases!leaseVars, ActiveIds, LeaseOwner
  <2> QED BY <2>1, <2>2, <2>3 DEF Next
<1> QED BY <1>1, <1>2, TypeCorrect, SlotLimitsHold, ExclusiveOwnershipHolds, PTL
        DEF Spec, ImplementsLeases, Leases!Spec
============================================================================
