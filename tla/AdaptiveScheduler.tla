------------------------- MODULE AdaptiveScheduler -------------------------
(***************************************************************************)
(* core/runtime_adaptive_scheduler.py: the controller's table of running   *)
(* subagents.  A caller submits ScheduledTask records; dispatch() admits   *)
(* one into an active slot when can_dispatch() allows it, finish_task()    *)
(* frees the slot.  The BOSS holds no slot.                                *)
(*                                                                         *)
(* The three dictionaries are keyed by task_id.  active_tasks is the set   *)
(* of its values (no two with one id); of completed_tasks and failed_tasks *)
(* only the keys are ever read.  A refused dispatch and a finish_task of   *)
(* an id that is not active change nothing but the event log, which is     *)
(* not modelled except for the TASK_FINISHED count per role (released).    *)
(***************************************************************************)
EXTENDS Integers, FiniteSets

CONSTANTS
    TaskId,      \* task_id values
    File,        \* paths a task may own
    NoTask,      \* implementer_task_id = None
    Tasks,       \* the ScheduledTask records a caller may submit
    MaxActive,   \* ConcurrencyConfig.max_active_subagents
    RoleLimit,   \* ConcurrencyConfig.max_parallel_*, by role
    MaxSpawns    \* bound: dispatches per role that a behaviour may contain

CappedRole == {"SCOUT", "STANDARD_WORKER", "DEEP_WORKER"}
ReviewRole == {"VERIFIER", "PREMIUM_SECOND_OPINION"}
Role == CappedRole \cup ReviewRole

ScheduledTask == [ task_id : TaskId, role : Role, owned_files : SUBSET File,
                   dependencies : SUBSET TaskId,
                   implementer_task_id : TaskId \cup {NoTask} ]

\* load_runtime_policy rejects a limit below 1.
ASSUME SchedulerAssumption ==
    /\ NoTask \notin TaskId
    /\ Tasks \subseteq ScheduledTask
    /\ MaxActive \in Nat \ {0}
    /\ RoleLimit \in [CappedRole -> Nat \ {0}]
    /\ MaxSpawns \in Nat

VARIABLES
    active,      \* active_tasks.values()
    completed,   \* completed_tasks.keys()
    failed,      \* failed_tasks.keys()
    spawned,     \* scouts_count .. premium_count, by role
    peak,        \* peak_active
    waves,       \* parallel_waves
    released     \* TASK_FINISHED events, by role

vars == <<active, completed, failed, spawned, peak, waves, released>>

TypeOK ==
    /\ active \subseteq Tasks
    /\ IsFiniteSet(active)
    /\ completed \subseteq TaskId
    /\ failed \subseteq TaskId
    /\ spawned \in [Role -> Nat]
    /\ peak \in Nat
    /\ waves \in Nat
    /\ released \in [Role -> Nat]

Init ==
    /\ active = {} /\ completed = {} /\ failed = {}
    /\ spawned = [r \in Role |-> 0]
    /\ peak = 0 /\ waves = 0
    /\ released = [r \in Role |-> 0]

-----------------------------------------------------------------------------
(* can_dispatch: five checks, each a guard of its own.  A definition whose *)
(* name ends in _Defect is used by no specification: it is the plausible   *)
(* mistake that the property named beside it rules out.                    *)

ActiveIds == {t.task_id : t \in active}
ActiveOf(r) == {t \in active : t.role = r}

SlotFree_Defect == Cardinality(active) <= MaxActive  \* SlotLimits
SlotFree == Cardinality(active) < MaxActive

RoleSlotFree_Defect(t) ==  \* ReadyTasksRun: compares the total spawned so far
    t.role \in CappedRole => spawned[t.role] < RoleLimit[t.role]
RoleSlotFree(t) ==
    t.role \in CappedRole => Cardinality(ActiveOf(t.role)) < RoleLimit[t.role]

DependenciesDone_Defect(t) ==  \* BuiltOnFinishedWork: a failed task counts as done
    t.dependencies \subseteq completed \cup failed
DependenciesDone(t) == t.dependencies \subseteq completed

OwnershipFree_Defect(t) ==  \* ExclusiveOwnership: only equal file lists conflict
    \A a \in active : t.owned_files # a.owned_files
\* A task that owns no file overlaps with nothing.
OwnershipFree(t) == \A a \in active : t.owned_files \cap a.owned_files = {}

ImplementerDone_Defect(t) ==  \* ReviewAfterImplementation: premium reviewers skip it
    t.role = "VERIFIER" => t.implementer_task_id \in completed \cup {NoTask}
ImplementerDone(t) ==
    t.role \in ReviewRole => t.implementer_task_id \in completed \cup {NoTask}

CanDispatch(t) ==
    /\ SlotFree
    /\ RoleSlotFree(t)
    /\ DependenciesDone(t)
    /\ OwnershipFree(t)
    /\ ImplementerDone(t)

-----------------------------------------------------------------------------
(* dispatch and finish_task.                                               *)

Entered_Defect(t) == active \cup {t}  \* ImplementsLeases: not keyed by task_id
\* active_tasks[task.task_id] = task replaces the entry the id had, if any.
Entered(t) == {a \in active : a.task_id # t.task_id} \cup {t}

WavesWith_Defect(n) == IF n > 2 THEN waves + 1 ELSE waves  \* ParallelismAgrees
\* n entries are active once the task has entered.
WavesWith(n) == IF n > 1 THEN waves + 1 ELSE waves
PeakWith(n) == IF n > peak THEN n ELSE peak

CounterOf_Defect(t) ==  \* SpawnsBalance: premium reviews counted as reviews
    IF t.role \in ReviewRole THEN "VERIFIER" ELSE t.role
\* The counter that dispatch increments: each role has its own.
CounterOf(t) == t.role

Dispatch(t) ==
    /\ CanDispatch(t)
    /\ spawned[t.role] < MaxSpawns
    /\ active' = Entered(t)
    /\ peak' = PeakWith(Cardinality(active'))
    /\ waves' = WavesWith(Cardinality(active'))
    /\ spawned' = [spawned EXCEPT ![CounterOf(t)] = @ + 1]
    /\ UNCHANGED <<completed, failed, released>>

Popped_Defect(t, success) ==  \* SpawnsCoverWork: a failed task keeps its slot
    IF success THEN active \ {t} ELSE active
Popped(t, success) == active \ {t}

Filed_Defect(ids, t) == ids \cup {t}  \* TypeOK: files the task, not its id
Filed(ids, t) == ids \cup {t.task_id}

CompletedBy_Defect(t, success) == Filed(completed, t)  \* OneOutcome
\* The outcome that is not reported keeps what it says of the id.
CompletedBy(t, success) == IF success THEN Filed(completed, t) ELSE completed
FailedBy(t, success) == IF success THEN failed ELSE Filed(failed, t)

\* Whatever the outcome, the slot and the files are free at once.
Finish(t, success) ==
    /\ t \in active
    /\ active' = Popped(t, success)
    /\ completed' = CompletedBy(t, success)
    /\ failed' = FailedBy(t, success)
    /\ released' = [released EXCEPT ![t.role] = @ + 1]
    /\ UNCHANGED <<spawned, peak, waves>>

\* Any caller: whatever it submits, whenever, as often as it likes.
Next == \E t \in Tasks : Dispatch(t) \/ \E success \in BOOLEAN : Finish(t, success)

Spec == Init /\ [][Next]_vars

-----------------------------------------------------------------------------
(* A controller that runs a plan once: it submits an id only while the id  *)
(* has never been admitted, and retries a refused submission until it is   *)
(* admitted.  The host returns every child's result in the end.            *)

FirstAttempt(t) ==
    /\ t.task_id \notin ActiveIds \cup completed \cup failed
    /\ Dispatch(t)

PlanNext ==
    \E t \in Tasks : FirstAttempt(t) \/ \E success \in BOOLEAN : Finish(t, success)

PlanFairness ==
    \A t \in Tasks :
        /\ WF_vars(FirstAttempt(t))
        /\ WF_vars(\E success \in BOOLEAN : Finish(t, success))

PlanSpec == Init /\ [][PlanNext]_vars /\ PlanFairness

-----------------------------------------------------------------------------
(* What the scheduler promises to any caller.                              *)

\* The slot table never outgrows the configured concurrency: the total and
\* each capped role stay within their limits, and the peak reported in the
\* run summary is a true maximum that fits in the limit printed next to it.
SlotLimits ==
    /\ Cardinality(active) <= peak
    /\ peak <= MaxActive
    /\ \A r \in CappedRole : Cardinality(ActiveOf(r)) <= RoleLimit[r]

\* Write ownership is exclusive: no two entries of the table own a common
\* file, and an id has one entry, whatever order tasks start and finish in.
ExclusiveOwnership ==
    \A a, b \in active :
        a # b => /\ a.owned_files \cap b.owned_files = {}
                 /\ a.task_id # b.task_id

\* A task holds a slot only on top of finished work: everything it depends
\* on, and the implementer a reviewer is bound to, has completed at least
\* once and no later failure or rework of it takes that away.
BuiltOnFinishedWork ==
    \A t \in active :
        /\ t.dependencies \subseteq completed
        /\ t.role \in ReviewRole => t.implementer_task_id \in completed \cup {NoTask}

\* The counters of the run summary account for every child that was
\* started: what a role has released and what it still holds never exceeds
\* what the summary says it spawned.
SpawnsCoverWork ==
    \A r \in Role : released[r] + Cardinality(ActiveOf(r)) <= spawned[r]

\* "Parallel Waves" and "Parallelism Used" of one summary agree.
ParallelismAgrees == waves > 0 <=> peak > 1

\* What a task cannot start without.
WaitsFor(t) ==
    t.dependencies \cup
        IF t.role \in ReviewRole THEN {t.implementer_task_id} \ {NoTask} ELSE {}

\* Refusal can be for good, and dispatch does not say so: of ids each of which
\* waits for another of them, be they a cycle, one that waits for itself, or
\* those behind an id nobody submits, none ever holds a slot, whatever else runs.
DeadEndsNeverRun ==
    \A C \in SUBSET TaskId :
        (\A t \in Tasks : t.task_id \in C => WaitsFor(t) \cap C # {})
            => C \cap (ActiveIds \cup completed \cup failed) = {}

-----------------------------------------------------------------------------
(* What it promises to a controller that runs each id once.                *)

\* Every spawned child is in exactly one place: holding its slot or released.
\* No slot leaks and none is released twice.
SpawnsBalance ==
    \A r \in Role : released[r] + Cardinality(ActiveOf(r)) = spawned[r]

\* An id has one outcome, and none while it runs.
OneOutcome ==
    /\ completed \cap failed = {}
    /\ ActiveIds \cap (completed \cup failed) = {}

\* Independent review happens after implementation: no reviewer holds a slot
\* while its implementer, or a task it depends on, is running.
ReviewAfterImplementation ==
    \A t \in active :
        /\ ActiveIds \cap t.dependencies = {}
        /\ t.role \in ReviewRole => t.implementer_task_id \notin ActiveIds

\* A slot is always found: once all that a task waits for has completed, the
\* task itself runs to an outcome, however the other tasks compete for slots,
\* role limits and files, and whichever of them fail.
ReadyTasksRun ==
    \A t \in Tasks :
        DependenciesDone(t) /\ ImplementerDone(t) ~> t.task_id \in completed \cup failed

-----------------------------------------------------------------------------
(* What a comment of can_dispatch says, for any caller.                    *)

\* can_dispatch, line 116: "Verifiers must have their implementer completed".
\* At the moment a reviewer is admitted its implementer is not at work.
ReviewersWaitForImplementer ==
    [][\A t \in active' \ active :
          t.role \in ReviewRole => t.implementer_task_id \notin ActiveIds]_vars
=============================================================================
