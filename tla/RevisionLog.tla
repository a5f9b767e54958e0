----------------------------- MODULE RevisionLog -----------------------------
(***************************************************************************)
(* What the transaction kernel promises its callers: one durable log of      *)
(* committed transitions, each appended by a single atomic compare-and-swap  *)
(* on the revision (the length of the log), and answers that never lie.      *)
(*                                                                          *)
(*  - "ok" only after a transition of this very request is in the log:       *)
(*    either this call appended it, or it was the newest entry and is        *)
(*    replayed;                                                             *)
(*  - "refused" only if this call appended nothing;                          *)
(*  - "unknown" (a crash, or an answer that says so) otherwise.              *)
(***************************************************************************)
EXTENDS Naturals, Sequences

CONSTANTS Clients, Calls

VARIABLES log, call, fate

Fates == {"idle", "pending", "committed", "ok", "refused", "unknown"}

Init ==
    /\ log = <<>>
    /\ call \in [Clients -> Calls]
    /\ fate = [c \in Clients |-> "idle"]

Newest == log[Len(log)]

Answers(t, k) == t.intent = k.intent /\ t.request = k.request /\ t.world = k.world

Begin(c) ==
    /\ fate[c] \in {"idle", "ok", "refused", "unknown"}
    /\ \E k \in Calls : call' = [call EXCEPT ![c] = k]
    /\ fate' = [fate EXCEPT ![c] = "pending"]
    /\ UNCHANGED log

(* The compare and the swap are one step, and the intent that committed last *)
(* is never committed again on top of itself.                                *)
Commit(c) ==
    /\ fate[c] = "pending"
    /\ call[c].expected = Len(log)
    /\ Len(log) > 0 => Newest.intent # call[c].intent
    /\ log' = Append(log, [intent |-> call[c].intent, request |-> call[c].request,
                           world |-> call[c].world, prior |-> Len(log)])
    /\ fate' = [fate EXCEPT ![c] = "committed"]
    /\ UNCHANGED call

Replay(c) ==
    /\ fate[c] = "pending"
    /\ Len(log) > 0 /\ Answers(Newest, call[c])
    /\ fate' = [fate EXCEPT ![c] = "ok"]
    /\ UNCHANGED <<log, call>>

Confirm(c) ==
    /\ fate[c] = "committed"
    /\ fate' = [fate EXCEPT ![c] = "ok"]
    /\ UNCHANGED <<log, call>>

Refuse(c) ==
    /\ fate[c] = "pending"
    /\ fate' = [fate EXCEPT ![c] = "refused"]
    /\ UNCHANGED <<log, call>>

Lose(c) ==
    /\ fate[c] \in {"pending", "committed", "ok"}
    /\ fate' = [fate EXCEPT ![c] = "unknown"]
    /\ UNCHANGED <<log, call>>

Next ==
    \E c \in Clients :
        Begin(c) \/ Commit(c) \/ Replay(c) \/ Confirm(c) \/ Refuse(c) \/ Lose(c)

Spec == Init /\ [][Next]_<<log, call, fate>>
=============================================================================
