----------------------------- MODULE SendQueue -----------------------------
(* The ordered output of the server process: createSendQueue of             *)
(* src/mcp/send-queue.ts over one Node Writable.  A pipe is the queue and   *)
(* the stream below it.  Messages wait, are written in order, and stay      *)
(* incomplete until the stream calls back; a write that answers FALSE       *)
(* pauses the queue until the stream drains.                                *)
(*                                                                          *)
(* The operators are functions of a pipe, because every call of the queue   *)
(* runs to its end inside one turn of the event loop; McpServer composes    *)
(* them with the runtime they call back into. *)
EXTENDS Integers, Sequences, SequencesExt, FiniteSets

CONSTANTS
  MaxEntries,   \* MAX_ENTRIES: messages not yet completed
  MaxBytes      \* MAX_BYTES: their bytes together

ASSUME LimitsAssumption == MaxEntries \in Nat \ {0} /\ MaxBytes \in Nat \ {0}

(* waiting, incomplete, bytes, paused, closed: the queue.  wire: all that   *)
(* was handed to the stream; unacked: the writes it owes a callback; full:  *)
(* it owes a "drain".  accepted: every message enqueue took, in order. *)
Opened ==
  [accepted |-> <<>>, waiting |-> <<>>, incomplete |-> {}, bytes |-> 0,
   paused |-> FALSE, closed |-> FALSE,
   wire |-> <<>>, unacked |-> <<>>, full |-> FALSE]

(* shutDown, up to what it tells its observers. *)
Shut(p) ==
  [p EXCEPT !.closed = TRUE, !.paused = FALSE, !.waiting = <<>>,
            !.incomplete = {}, !.bytes = 0]

(* The loop of pump after k writes, of which the last may have answered     *)
(* FALSE. *)
Wrote(p, k, stopped) ==
  [p EXCEPT !.waiting = SubSeq(@, k + 1, Len(@)),
            !.wire = @ \o SubSeq(p.waiting, 1, k),
            !.unacked = @ \o SubSeq(p.waiting, 1, k),
            !.full = stopped, !.paused = stopped]

(* Every way pump may end: all written, or stopped by the write that filled *)
(* the stream. *)
Pumped(p) ==
  IF p.paused \/ p.closed \/ p.waiting = <<>> THEN {p}
  ELSE {Wrote(p, Len(p.waiting), FALSE)}
         \cup {Wrote(p, k, TRUE) : k \in 1..Len(p.waiting)}

(* The write that throws: its message was taken from waiting and is         *)
(* rejected; the queue then shuts down with an error. *)
Thrown(p) ==
  IF p.paused \/ p.closed \/ p.waiting = <<>> THEN {}
  ELSE {Shut(Wrote(p, k - 1, FALSE)) : k \in 1..Len(p.waiting)}

Overflows(p, m) ==
  \/ m.size > MaxBytes
  \/ Cardinality(p.incomplete) >= MaxEntries
  \/ p.bytes + m.size > MaxBytes

(* What enqueue records before it pumps.  Two messages are never the same   *)
(* object, so each carries its number. *)
Queued(p, msg) ==
  LET m == [msg EXCEPT !.n = Len(p.accepted) + 1] IN
  [p EXCEPT !.accepted = Append(@, m), !.waiting = Append(@, m),
            !.incomplete = @ \cup {m}, !.bytes = @ + m.size]

(* finish without an error, for the oldest write that the stream owes. *)
Completed(p) ==
  LET m == Head(p.unacked) IN
  IF p.closed THEN [p EXCEPT !.unacked = Tail(@)]
  ELSE [p EXCEPT !.unacked = Tail(@), !.incomplete = @ \ {m},
                 !.bytes = @ - m.size]

-----------------------------------------------------------------------------
(* Messages leave in the order they were accepted, none twice and none      *)
(* skipped: what is on the wire is the beginning of what was accepted, and  *)
(* while the queue is open the rest is waiting. *)
InOrder(p) ==
  /\ IsPrefix(p.wire, p.accepted)
  /\ ~p.closed => p.accepted = p.wire \o p.waiting

(* A message waits only while the stream owes the drain that will move it.  *)
DrainOwed(p) == ~p.closed /\ p.waiting # <<>> => p.paused /\ p.full
=============================================================================
