-------------------------- MODULE GuardedRegister --------------------------
(***************************************************************************)
(* What the guarded change of a file promises while others change it too.  *)
(* A change is derived from a value the file had since the change began,   *)
(* only after the value it was approved against was seen in the file since *)
(* then and a copy of that value was kept.  It does not promise that the   *)
(* file still has that value when the change lands.                        *)
(***************************************************************************)
CONSTANTS
    Changer,                    \* who changes the file under the guard
    Derived(_, _),              \* Derived(v, w): w is a change of v
    None                        \* what a changer that is not changing approves

VARIABLES
    value,                      \* the file
    kept,                       \* the copies
    open,                       \* for each changer: what it saw, {} when not changing
    approved                    \* for each changer: the value its change is for

vars == <<value, kept, open, approved>>

Init ==
    /\ kept = {}
    /\ open = [p \in Changer |-> {}]
    /\ approved = [p \in Changer |-> None]

\* Everyone who is changing may see the new value.
Seen(v) == [p \in Changer |-> IF open[p] = {} THEN {} ELSE open[p] \cup {v}]

Begin(p) ==
    /\ open[p] = {}
    /\ open' = [open EXCEPT ![p] = {value}]
    /\ approved' = [approved EXCEPT ![p] = approved'[p]]
    /\ UNCHANGED <<value, kept>>

Keep(p) ==
    /\ \E v \in open[p] : kept' = kept \cup {v}
    /\ UNCHANGED <<value, open, approved>>

Commit(p) ==
    /\ approved[p] \in open[p] \cap kept
    /\ \E v \in open[p] : Derived(v, value')
    /\ open' = [Seen(value') EXCEPT ![p] = {}]
    /\ approved' = [approved EXCEPT ![p] = None]
    /\ UNCHANGED kept

GiveUp(p) ==
    /\ open' = [open EXCEPT ![p] = {}]
    /\ approved' = [approved EXCEPT ![p] = None]
    /\ UNCHANGED <<value, kept>>

\* A user edits the file by hand, without the guard.
Edit ==
    /\ open' = Seen(value')
    /\ UNCHANGED <<kept, approved>>

Next ==
    \/ Edit
    \/ \E p \in Changer : Begin(p) \/ Keep(p) \/ Commit(p) \/ GiveUp(p)

Spec == Init /\ [][Next]_vars
=============================================================================
