-------------------------- MODULE OwnershipLeases --------------------------
(***************************************************************************)
(* What the scheduler's slot table amounts to, file by file: a pool of     *)
(* Seats slots and one exclusive write lease per file.  A seated id takes  *)
(* all its leases at once or none, gives them all up when it leaves, and   *)
(* an id that is seated anew swaps its old leases for the new ones.        *)
(***************************************************************************)
EXTENDS Integers, FiniteSets

CONSTANTS TaskId, File, Free, Seats

VARIABLES
    seated,   \* the ids that hold a slot
    owner     \* owner[f]: the id with the lease on f, or Free

leaseVars == <<seated, owner>>

Init ==
    /\ seated = {}
    /\ owner = [f \in File |-> Free]

\* The owner map once id has dropped what it held and taken the files in F.
Leased(id, F) ==
    [f \in File |-> IF f \in F THEN id ELSE IF owner[f] = id THEN Free ELSE owner[f]]

Sit(id, F) ==
    /\ \A f \in F : owner[f] = Free
    /\ seated' = seated \cup {id}
    /\ Cardinality(seated') <= Seats
    /\ owner' = Leased(id, F)

Leave(id) ==
    /\ id \in seated
    /\ seated' = seated \ {id}
    /\ owner' = Leased(id, {})

Next == \E id \in TaskId : Leave(id) \/ \E F \in SUBSET File : Sit(id, F)

Spec == Init /\ [][Next]_leaseVars
=============================================================================
