----------------------------- MODULE TaskMutex -----------------------------
(***************************************************************************)
(* What the task lock promises the transaction kernel: a writer is inside   *)
(* only while it holds the lock, and a stale lock (its holder gone) is freed *)
(* by a repair alone.                                                       *)
(***************************************************************************)
CONSTANTS Writers, Free, Stale

VARIABLES
    holder,   \* Free, Stale, or the writer the lock belongs to
    inside    \* the writers at work under it

Init == holder = Free /\ inside = {}

Take(w) == holder = Free /\ holder' = w /\ inside' = inside \cup {w}
Leave(w) == holder = w /\ holder' \in {Free, Stale} /\ inside' = inside \ {w}
Repair == holder = Stale /\ holder' = Free /\ UNCHANGED inside

Next == Repair \/ \E w \in Writers : Take(w) \/ Leave(w)

Spec == Init /\ [][Next]_<<holder, inside>>
=============================================================================
