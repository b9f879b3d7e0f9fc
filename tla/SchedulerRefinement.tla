------------------------ MODULE SchedulerRefinement ------------------------
(***************************************************************************)
(* The scheduler implements OwnershipLeases: the pairwise overlap scan of  *)
(* can_dispatch is worth one lock per file.                                *)
(***************************************************************************)
EXTENDS AdaptiveScheduler

\* The lease a file is under is read off the slot table.
LeaseOwner ==
    [f \in File |->
        IF \E t \in active : f \in t.owned_files
        THEN (CHOOSE t \in active : f \in t.owned_files).task_id
        ELSE NoTask]

Leases == INSTANCE OwnershipLeases
    WITH Free <- NoTask, Seats <- MaxActive, seated <- ActiveIds, owner <- LeaseOwner

\* Every dispatch is one atomic acquisition of a slot and of a lease on each
\* owned file, every finish_task gives up exactly those, and nothing else
\* moves a lease.
ImplementsLeases == Leases!Spec
=============================================================================
