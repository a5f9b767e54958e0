-------------------------- MODULE McpServerProofs --------------------------
(***************************************************************************)
(* Machine-checked facts about McpServer for every set of request ids,      *)
(* every size of answers and every limit of the queue and the framer.       *)
(* Each operator of a turn is shown to keep a runtime sound, so that each   *)
(* action, which is one turn, does.                                         *)
(***************************************************************************)
EXTENDS McpServer, SequenceTheorems, TLAPS

(* A sound pipe: what the stream has is a prefix of what was accepted, the  *)
(* rest waits in order, and only a stream that owes a drain pauses it.      *)
Sound(p) ==
  /\ p \in Pipes
  /\ InOrder(p)
  /\ p.paused => p.full /\ ~p.closed

-----------------------------------------------------------------------------
(* The queue. *)

(* A queue whose messages are all on the wire or waiting is in order.       *)
LEMMA WireIsPrefix ==
  ASSUME NEW S, NEW w \in Seq(S), NEW v \in Seq(S)
  PROVE  IsPrefix(w, w \o v)
<1>1. Len(w \o v) = Len(w) + Len(v) /\ Len(w) \in Nat /\ Len(v) \in Nat
  BY ConcatProperties, LenProperties
<1>2. CASE w = <<>>
  <2>1. SubSeq(w, 1, Len(w)) = <<>> /\ SubSeq(w \o v, 1, Len(w)) = <<>>
    BY <1>2, SubSeqEmpty, Len(w) = 0
  <2> QED
    BY <1>1, <2>1 DEF IsPrefix
<1>3. CASE w # <<>>
  <2>1. Len(w) \in 1 .. Len(w)
    BY <1>1, <1>3, EmptySeq
  <2>2. SubSeq(w \o v, 1, Len(w)) = SubSeq(w, 1, Len(w))
    BY <2>1, SubSeqOfConcat1, 1 \in 1 .. Len(w)
  <2> QED
    BY <1>1, <2>2 DEF IsPrefix
<1> QED
  BY <1>2, <1>3

(* Moving the head of what waits to the wire loses and reorders nothing.    *)
LEMMA MoveKeepsOrder ==
  ASSUME NEW S, NEW w \in Seq(S), NEW v \in Seq(S), NEW k \in 0 .. Len(v)
  PROVE  /\ SubSeq(v, 1, k) \in Seq(S) /\ SubSeq(v, k + 1, Len(v)) \in Seq(S)
         /\ (w \o SubSeq(v, 1, k)) \o SubSeq(v, k + 1, Len(v)) = w \o v
         /\ k = Len(v) => SubSeq(v, k + 1, Len(v)) = <<>>
<1>1. Len(v) \in Nat /\ \A i \in 1 .. Len(v) : v[i] \in S
  BY LenProperties, ElementOfSeq
<1>2. SubSeq(v, 1, k) \in Seq(S)
  BY <1>1, SubSeqProperties
<1>3. SubSeq(v, k + 1, Len(v)) \in Seq(S)
  BY <1>1, SubSeqProperties
<1>4. SubSeq(v, 1, k) \o SubSeq(v, k + 1, Len(v)) = SubSeq(v, 1, Len(v))
  <2>1. 1 \in 1 .. Len(v) + 1 /\ k \in 0 .. Len(v) /\ Len(v) \in k .. Len(v) /\ 1 - 1 = 0
    BY <1>1
  <2>2. \A m \in 1 .. Len(v) + 1 : \A j \in m - 1 .. Len(v) : \A n \in j .. Len(v) :
          SubSeq(v, m, j) \o SubSeq(v, j + 1, n) = SubSeq(v, m, n)
    BY ConcatAdjacentSubSeq
  <2> QED
    BY <2>1, <2>2, Zenon
<1>5. SubSeq(v, 1, Len(v)) = v
  BY SubSeqFull
<1>6. (w \o SubSeq(v, 1, k)) \o SubSeq(v, k + 1, Len(v)) = w \o v
  <2> DEFINE a == SubSeq(v, 1, k)
             b == SubSeq(v, k + 1, Len(v))
  <2>1. a \in Seq(S) /\ b \in Seq(S) /\ a \o b = v
    BY <1>2, <1>3, <1>4, <1>5
  <2> HIDE DEF a, b
  <2>2. a \in Seq(S) /\ b \in Seq(S)
    BY <2>1
  <2>3. (w \o a) \o b = w \o (a \o b)
    BY <2>2, ConcatAssociative
  <2>4. (w \o a) \o b = w \o v
    BY <2>1, <2>3, Zenon
  <2> QED
    BY <2>4 DEF a, b
<1>7. k = Len(v) => SubSeq(v, k + 1, Len(v)) = <<>>
  BY <1>1, SubSeqEmpty
<1> QED
  BY <1>2, <1>3, <1>6, <1>7

(* The updates of a pipe, with names for the values they write. *)
Emptied(p, none, nothing, zero) ==
  [p EXCEPT !.closed = TRUE, !.paused = FALSE, !.waiting = none,
            !.incomplete = nothing, !.bytes = zero]

Moved(p, a, b, c, stopped) ==
  [p EXCEPT !.waiting = a, !.wire = b, !.unacked = c,
            !.full = stopped, !.paused = stopped]

Extended(p, a, b, c, n) ==
  [p EXCEPT !.accepted = a, !.waiting = b, !.incomplete = c, !.bytes = n]

Released(p, a, c, n) ==
  [p EXCEPT !.unacked = a, !.incomplete = c, !.bytes = n]

LEMMA EmptiedFields ==
  ASSUME NEW p \in Pipes, NEW none \in Queues, NEW nothing \in SUBSET Messages,
         NEW zero \in Int
  PROVE  LET q == Emptied(p, none, nothing, zero) IN
         /\ q \in Pipes /\ q.closed = TRUE /\ q.paused = FALSE
         /\ q.wire = p.wire /\ q.accepted = p.accepted
BY DEF Pipes, Emptied

LEMMA MovedFields ==
  ASSUME NEW p \in Pipes, NEW a \in Queues, NEW b \in Queues, NEW c \in Queues,
         NEW stopped \in BOOLEAN
  PROVE  LET q == Moved(p, a, b, c, stopped) IN
         /\ q \in Pipes /\ q.waiting = a /\ q.wire = b
         /\ q.full = stopped /\ q.paused = stopped
         /\ q.closed = p.closed /\ q.accepted = p.accepted
BY DEF Pipes, Moved

LEMMA ExtendedFields ==
  ASSUME NEW p \in Pipes, NEW a \in Queues, NEW b \in Queues,
         NEW c \in SUBSET Messages, NEW n \in Int
  PROVE  LET q == Extended(p, a, b, c, n) IN
         /\ q \in Pipes /\ q.accepted = a /\ q.waiting = b /\ q.wire = p.wire
         /\ q.full = p.full /\ q.paused = p.paused /\ q.closed = p.closed
BY DEF Pipes, Extended

LEMMA ReleasedFields ==
  ASSUME NEW p \in Pipes, NEW a \in Queues, NEW c \in SUBSET Messages, NEW n \in Int
  PROVE  LET q == Released(p, a, c, n) IN
         /\ q \in Pipes /\ q.accepted = p.accepted /\ q.waiting = p.waiting
         /\ q.wire = p.wire /\ q.full = p.full /\ q.paused = p.paused
         /\ q.closed = p.closed
BY DEF Pipes, Released

LEMMA ShutIsSound ==
  ASSUME NEW p, Sound(p)
  PROVE  /\ Sound(Shut(p)) /\ DrainOwed(Shut(p))
         /\ Shut(p).closed /\ ~Shut(p).paused
<1>1. p \in Pipes /\ InOrder(p) /\ <<>> \in Queues
  BY EmptySeq DEF Sound, Queues
<1> DEFINE q == Shut(p)
           none == <<>>
           nothing == {}
           zero == 0
<1>2. q = Emptied(p, none, nothing, zero)
  BY Zenon DEF Shut, Emptied
<1>3. none \in Queues /\ nothing \in SUBSET Messages /\ zero \in Int
  BY <1>1
<1> HIDE DEF q, none, nothing, zero
<1>4. /\ q \in Pipes /\ q.closed = TRUE /\ q.paused = FALSE
      /\ q.wire = p.wire /\ q.accepted = p.accepted
  BY <1>1, <1>2, <1>3, EmptiedFields, Zenon
<1>5. Sound(q) /\ DrainOwed(q) /\ q.closed /\ ~q.paused
  BY <1>1, <1>4 DEF Sound, InOrder, DrainOwed
<1> QED
  BY <1>5 DEF q

LEMMA WroteIsSound ==
  ASSUME NEW p, Sound(p), ~p.closed, NEW k \in 0 .. Len(p.waiting),
         NEW stopped \in BOOLEAN
  PROVE  /\ Sound(Wrote(p, k, stopped))
         /\ stopped \/ k = Len(p.waiting) => DrainOwed(Wrote(p, k, stopped))
<1> DEFINE q == Wrote(p, k, stopped)
           taken == SubSeq(p.waiting, 1, k)
           left == SubSeq(p.waiting, k + 1, Len(p.waiting))
<1>1. /\ p \in Pipes /\ InOrder(p) /\ p.wire \in Seq(Messages)
      /\ p.waiting \in Seq(Messages) /\ p.unacked \in Seq(Messages)
  BY DEF Sound, Pipes, Queues
<1>2. /\ taken \in Seq(Messages) /\ left \in Seq(Messages)
      /\ (p.wire \o taken) \o left = p.wire \o p.waiting
      /\ k = Len(p.waiting) => left = <<>>
  <2>1. \A w, v \in Seq(Messages) : \A j \in 0 .. Len(v) :
          /\ SubSeq(v, 1, j) \in Seq(Messages) /\ SubSeq(v, j + 1, Len(v)) \in Seq(Messages)
          /\ (w \o SubSeq(v, 1, j)) \o SubSeq(v, j + 1, Len(v)) = w \o v
          /\ j = Len(v) => SubSeq(v, j + 1, Len(v)) = <<>>
    BY MoveKeepsOrder
  <2> QED
    BY <1>1, <2>1, Zenon
<1>3. p.wire \o taken \in Queues /\ p.unacked \o taken \in Queues /\ left \in Queues
  BY <1>1, <1>2, ConcatProperties, Zenon DEF Queues
<1>4. q = Moved(p, left, p.wire \o taken, p.unacked \o taken, stopped)
  BY Zenon DEF Wrote, Moved
<1>5. /\ q \in Pipes /\ q.waiting = left /\ q.wire = p.wire \o taken
      /\ q.full = stopped /\ q.paused = stopped
      /\ q.closed = p.closed /\ q.accepted = p.accepted
  <2> DEFINE longer == p.wire \o taken
             owed == p.unacked \o taken
  <2>1. longer \in Queues /\ owed \in Queues /\ left \in Queues
    BY <1>3
  <2>2. q = Moved(p, left, longer, owed, stopped)
    BY <1>4
  <2> HIDE DEF taken, left, q, longer, owed
  <2>3. /\ q \in Pipes /\ q.waiting = left /\ q.wire = longer
        /\ q.full = stopped /\ q.paused = stopped
        /\ q.closed = p.closed /\ q.accepted = p.accepted
    BY <1>1, <2>1, <2>2, MovedFields
  <2> QED
    BY <2>3 DEF longer
<1>6. p.accepted = p.wire \o p.waiting
  BY DEF Sound, InOrder
<1>7. IsPrefix(q.wire, q.wire \o left)
  BY <1>1, <1>2, <1>3, <1>5, WireIsPrefix, Zenon DEF Queues
<1>8. q.accepted = q.wire \o q.waiting
  <2> HIDE DEF taken, left, q
  <2> QED
    BY <1>2, <1>5, <1>6, Zenon
<1> HIDE DEF taken, left, q
<1>9. Sound(q)
  BY <1>5, <1>7, <1>8 DEF Sound, InOrder
<1>10. stopped \/ k = Len(p.waiting) => DrainOwed(q)
  BY <1>2, <1>5 DEF DrainOwed
<1> QED
  BY <1>9, <1>10 DEF q

(* However pump ends, nothing is left waiting without a drain.              *)
LEMMA PumpedIsSound ==
  ASSUME NEW p, Sound(p), NEW q \in Pumped(p)
  PROVE  Sound(q) /\ DrainOwed(q)
<1>1. CASE p.paused \/ p.closed \/ p.waiting = <<>>
  BY <1>1 DEF Pumped, Sound, DrainOwed
<1>2. CASE ~(p.paused \/ p.closed \/ p.waiting = <<>>)
  <2>1. Len(p.waiting) \in Nat
    BY LenProperties DEF Sound, Pipes, Queues
  <2>2. q \in {Wrote(p, Len(p.waiting), FALSE)}
              \cup {Wrote(p, k, TRUE) : k \in 1 .. Len(p.waiting)}
    BY <1>2 DEF Pumped
  <2>3. CASE q = Wrote(p, Len(p.waiting), FALSE)
    <3>1. Len(p.waiting) \in 0 .. Len(p.waiting)
      BY <2>1
    <3> QED
      BY <1>2, <2>3, <3>1, WroteIsSound, Zenon
  <2>4. ASSUME NEW k \in 1 .. Len(p.waiting), q = Wrote(p, k, TRUE)
        PROVE  Sound(q) /\ DrainOwed(q)
    <3>1. k \in 0 .. Len(p.waiting)
      BY <2>1
    <3> QED
      BY <1>2, <2>4, <3>1, WroteIsSound, Zenon
  <2> QED
    BY <2>2, <2>3, <2>4
<1> QED
  BY <1>1, <1>2

LEMMA ThrownIsSound ==
  ASSUME NEW p, Sound(p), NEW q \in Thrown(p)
  PROVE  Sound(q) /\ DrainOwed(q)
<1>1. ~p.closed /\ Len(p.waiting) \in Nat
  BY LenProperties DEF Thrown, Sound, Pipes, Queues
<1>2. PICK k \in 1 .. Len(p.waiting) : q = Shut(Wrote(p, k - 1, FALSE))
  BY DEF Thrown
<1>3. Sound(Wrote(p, k - 1, FALSE))
  BY <1>1, WroteIsSound, k - 1 \in 0 .. Len(p.waiting)
<1> QED
  BY <1>2, <1>3, ShutIsSound

LEMMA QueuedIsSound ==
  ASSUME NEW p, Sound(p), ~p.closed, NEW m \in Messages
  PROVE  Sound(Queued(p, m))
<1> DEFINE e == [m EXCEPT !.n = Len(p.accepted) + 1]
           q == Queued(p, m)
<1>1. /\ p \in Pipes /\ p.wire \in Seq(Messages) /\ p.waiting \in Seq(Messages)
      /\ p.accepted \in Seq(Messages) /\ p.accepted = p.wire \o p.waiting
      /\ p.incomplete \in SUBSET Messages /\ p.bytes \in Int
  BY DEF Sound, Pipes, Queues, InOrder
<1>2. e \in Messages /\ e.size \in Nat
  <2>1. Len(p.accepted) \in Nat
    BY <1>1, LenProperties, Zenon
  <2>2. Len(p.accepted) + 1 \in Nat
    BY <2>1
  <2> QED
    BY <2>2 DEF Messages
<1> HIDE DEF e
<1>3. Append(p.accepted, e) \in Queues /\ Append(p.waiting, e) \in Queues
  BY <1>1, <1>2, AppendProperties, Zenon DEF Queues
<1>4. Append(p.accepted, e) = p.wire \o Append(p.waiting, e)
  <2>1. Append(p.accepted, e) = (p.wire \o p.waiting) \o <<e>>
    BY <1>1, <1>2, AppendIsConcat, Zenon
  <2>2. Append(p.waiting, e) = p.waiting \o <<e>>
    BY <1>1, <1>2, AppendIsConcat, Zenon
  <2>3. <<e>> \in Seq(Messages) /\ Append(p.waiting, e) \in Seq(Messages)
    BY <1>2, <1>3 DEF Queues
  <2> DEFINE last == <<e>>
             w == p.wire
             v == p.waiting
  <2>4. w \in Seq(Messages) /\ v \in Seq(Messages) /\ last \in Seq(Messages)
    BY <1>1, <2>3
  <2> HIDE DEF last, w, v
  <2>5. (w \o v) \o last = w \o (v \o last)
    BY <2>4, ConcatAssociative
  <2> QED
    BY <1>1, <2>1, <2>2, <2>5, Zenon DEF last, w, v
<1>5. q = Extended(p, Append(p.accepted, e), Append(p.waiting, e),
                   p.incomplete \cup {e}, p.bytes + e.size)
  <2>1. e.size = m.size
    BY DEF e, Messages
  <2> QED
    BY <2>1, Zenon DEF Queued, Extended, e
<1>6. p.incomplete \cup {e} \in SUBSET Messages /\ p.bytes + e.size \in Int
  BY <1>1, <1>2
<1>7. /\ q \in Pipes /\ q.accepted = Append(p.accepted, e)
      /\ q.waiting = Append(p.waiting, e) /\ q.wire = p.wire
      /\ q.full = p.full /\ q.paused = p.paused /\ q.closed = p.closed
  <2> DEFINE a == Append(p.accepted, e)
             b == Append(p.waiting, e)
             c == p.incomplete \cup {e}
             n == p.bytes + e.size
  <2>1. q = Extended(p, a, b, c, n) /\ p \in Pipes
    BY <1>1, <1>5
  <2>2. a \in Queues /\ b \in Queues /\ c \in SUBSET Messages /\ n \in Int
    BY <1>3, <1>6
  <2> HIDE DEF q, a, b, c, n
  <2>3. /\ q \in Pipes /\ q.accepted = a /\ q.waiting = b /\ q.wire = p.wire
        /\ q.full = p.full /\ q.paused = p.paused /\ q.closed = p.closed
    BY <2>1, <2>2, ExtendedFields
  <2> QED
    BY <2>3 DEF a, b
<1>8. IsPrefix(p.wire, p.wire \o Append(p.waiting, e))
  BY <1>1, <1>3, WireIsPrefix, Zenon DEF Queues
<1> HIDE DEF q
<1>9. q.accepted = q.wire \o q.waiting /\ IsPrefix(q.wire, q.accepted)
  BY <1>4, <1>7, <1>8, Zenon
<1>10. Sound(q)
  BY <1>7, <1>9 DEF Sound, InOrder
<1> QED
  BY <1>10 DEF q

LEMMA CompletedIsSound ==
  ASSUME NEW p, Sound(p), p.unacked # <<>>
  PROVE  Sound(Completed(p))
<1> DEFINE m == Head(p.unacked)
           rest == Tail(p.unacked)
<1>1. m \in Messages /\ rest \in Queues /\ p \in Pipes /\ InOrder(p)
  BY HeadTailProperties, Zenon DEF Sound, Pipes, Queues
<1>2. m.size \in Int
  BY <1>1 DEF Messages
<1> HIDE DEF m, rest
<1>3. CASE p.closed
  <2>1. Completed(p) = [p EXCEPT !.unacked = rest]
    BY <1>3, Zenon DEF Completed, rest
  <2> QED
    BY <1>1, <2>1 DEF Sound, Pipes, InOrder
<1>4. CASE ~p.closed
  <2> DEFINE q == Completed(p)
  <2>1. q = Released(p, rest, p.incomplete \ {m}, p.bytes - m.size)
    BY <1>4, Zenon DEF Completed, Released, rest, m
  <2>2. p.incomplete \ {m} \in SUBSET Messages /\ p.bytes - m.size \in Int
    BY <1>1, <1>2 DEF Pipes
  <2> HIDE DEF q
  <2>3. /\ q \in Pipes /\ q.accepted = p.accepted /\ q.waiting = p.waiting
        /\ q.wire = p.wire /\ q.full = p.full /\ q.paused = p.paused
        /\ q.closed = p.closed
    BY <1>1, <2>1, <2>2, ReleasedFields, Zenon
  <2>4. Sound(q)
    BY <1>1, <2>3 DEF Sound, InOrder
  <2> QED
    BY <2>4 DEF q
<1> QED
  BY <1>3, <1>4

-----------------------------------------------------------------------------
(* The runtime. *)

(* A sound runtime: a framer that stopped kept nothing, an open one has no  *)
(* reason to end and a token for every call that is being handled, and one  *)
(* that ended with its input has read all of it and handles nothing.        *)
RtInv(s) ==
  /\ s \in Runtimes
  /\ Sound(s.pipe)
  /\ s.framing # "open" => s.unread = <<>>
  /\ s.phase = "open" => s.reason = None /\ s.handling \subseteq s.tokens
  /\ s.reason = "input-eof" => s.handling = {} /\ s.unread = <<>>

(* What a part of a turn does: it keeps the runtime sound, leaves the pipe  *)
(* alone or attended, and never touches a closed one.                       *)
Turned(s, t) ==
  /\ RtInv(t)
  /\ t.pipe = s.pipe \/ DrainOwed(t.pipe)
  /\ s.pipe.closed => t.pipe = s.pipe

Admitted(s, p, wake, key, ok) ==
  [s EXCEPT !.pipe = p, !.wake = wake, !.initKey = key, !.initAccepted = ok]

Piped(s, p) == [s EXCEPT !.pipe = p]

LEMMA TerminateKeeps ==
  ASSUME NEW s, RtInv(s), NEW r \in Terminations,
         r = "input-eof" => s.tokens = {} /\ s.unread = <<>>
  PROVE  RtInv(Terminate(s, r)) /\ Terminate(s, r).pipe = s.pipe
<1>1. CASE s.phase # "open"
  BY <1>1 DEF Terminate
<1>2. CASE s.phase = "open"
  <2> DEFINE t == [s EXCEPT !.phase = "closing", !.reason = r, !.tokens = {}]
  <2>1. t = Terminate(s, r)
    BY <1>2, Zenon DEF Terminate
  <2>2. /\ t \in Runtimes /\ t.pipe = s.pipe /\ t.framing = s.framing
        /\ t.unread = s.unread /\ t.phase = "closing" /\ t.reason = r
        /\ t.handling = s.handling
    BY DEF RtInv, Runtimes
  <2>3. r = "input-eof" => s.handling = {}
    BY <1>2 DEF RtInv
  <2> HIDE DEF t
  <2>4. RtInv(t)
    BY <2>2, <2>3 DEF RtInv
  <2> QED
    BY <2>1, <2>2, <2>4
<1> QED
  BY <1>1, <1>2

LEMMA AdmittedFields ==
  ASSUME NEW s \in Runtimes, NEW p \in Pipes, NEW wake \in BOOLEAN,
         NEW key \in Ids \cup {None}, NEW ok \in BOOLEAN
  PROVE  LET t == Admitted(s, p, wake, key, ok) IN
         /\ t \in Runtimes /\ t.pipe = p /\ t.framing = s.framing
         /\ t.unread = s.unread /\ t.phase = s.phase /\ t.reason = s.reason
         /\ t.handling = s.handling /\ t.tokens = s.tokens
BY DEF Runtimes, Admitted

LEMMA PipedFields ==
  ASSUME NEW s \in Runtimes, NEW p \in Pipes
  PROVE  LET t == Piped(s, p) IN
         /\ t \in Runtimes /\ t.pipe = p /\ t.framing = s.framing
         /\ t.unread = s.unread /\ t.phase = s.phase /\ t.reason = s.reason
         /\ t.handling = s.handling /\ t.tokens = s.tokens
BY DEF Runtimes, Piped

(* A runtime with another sound pipe is as sound as before.                 *)
LEMMA PipedKeeps ==
  ASSUME NEW s, RtInv(s), NEW p, Sound(p)
  PROVE  RtInv(Piped(s, p)) /\ Piped(s, p).pipe = p /\ Piped(s, p).phase = s.phase
<1>1. s \in Runtimes /\ p \in Pipes
  BY DEF RtInv, Sound
<1> DEFINE t == Piped(s, p)
<1>2. /\ t \in Runtimes /\ t.pipe = p /\ t.framing = s.framing
      /\ t.unread = s.unread /\ t.phase = s.phase /\ t.reason = s.reason
      /\ t.handling = s.handling /\ t.tokens = s.tokens
  BY <1>1, PipedFields
<1> HIDE DEF t
<1>3. RtInv(t)
  BY <1>2 DEF RtInv
<1> QED
  BY <1>2, <1>3 DEF t

LEMMA AdmitKeeps ==
  ASSUME NEW s, RtInv(s), NEW p, Sound(p)
  PROVE  RtInv(Admit(s, p)) /\ Admit(s, p).pipe = p
<1>1. s \in Runtimes /\ p \in Pipes
  BY DEF RtInv, Sound
<1>2. s.wake \in BOOLEAN /\ s.initKey \in Ids \cup {None} /\ s.initAccepted \in BOOLEAN
  BY <1>1 DEF Runtimes
<1> DEFINE new == {p.wire[i] : i \in (Len(s.pipe.wire) + 1) .. Len(p.wire)}
           settles == {m \in new : s.initKey # None /\ m.to = s.initKey}
           wake == s.wake \/ new # {}
           key == IF settles = {} THEN s.initKey ELSE None
           ok == s.initAccepted \/ \E m \in settles : m.ok
           t == Admit(s, p)
<1>3. t = Admitted(s, p, wake, key, ok)
  BY Zenon DEF Admit, Admitted
<1> HIDE DEF new, settles
<1>4. wake \in BOOLEAN /\ key \in Ids \cup {None} /\ ok \in BOOLEAN
  BY <1>2
<1> HIDE DEF wake, key, ok, t
<1>5. /\ t \in Runtimes /\ t.pipe = p /\ t.framing = s.framing
      /\ t.unread = s.unread /\ t.phase = s.phase /\ t.reason = s.reason
      /\ t.handling = s.handling /\ t.tokens = s.tokens
  BY <1>1, <1>3, <1>4, AdmittedFields
<1>6. RtInv(t)
  BY <1>5 DEF RtInv
<1> QED
  BY <1>5, <1>6 DEF t

LEMMA PumpKeeps ==
  ASSUME NEW s, RtInv(s), NEW t \in Pump(s)
  PROVE  RtInv(t) /\ DrainOwed(t.pipe)
<1>1. Sound(s.pipe)
  BY DEF RtInv
<1>2. CASE \E p \in Pumped(s.pipe) : t = Admit(s, p)
  <2>1. PICK p \in Pumped(s.pipe) : t = Admit(s, p)
    BY <1>2
  <2>2. Sound(p) /\ DrainOwed(p)
    BY <1>1, PumpedIsSound
  <2> QED
    BY <2>1, <2>2, AdmitKeeps
<1>3. CASE \E p \in Thrown(s.pipe) : t = Terminate(Admit(s, p), "output-error")
  <2>1. PICK p \in Thrown(s.pipe) : t = Terminate(Admit(s, p), "output-error")
    BY <1>3
  <2>2. Sound(p) /\ DrainOwed(p)
    BY <1>1, ThrownIsSound
  <2>3. RtInv(Admit(s, p)) /\ Admit(s, p).pipe = p
    BY <2>2, AdmitKeeps
  <2>4. "output-error" \in Terminations /\ "output-error" # "input-eof"
    BY DEF Terminations
  <2> QED
    BY <2>1, <2>2, <2>3, <2>4, TerminateKeeps
<1> QED
  BY <1>2, <1>3, Zenon DEF Pump

(* What enqueue does to a queue that takes the message, and to one that     *)
(* does not.                                                                *)
LEMMA QueuedKeeps ==
  ASSUME NEW s, RtInv(s), ~s.pipe.closed, NEW m \in Messages
  PROVE  RtInv([s EXCEPT !.pipe = Queued(@, m)])
<1>1. Sound(Queued(s.pipe, m))
  BY QueuedIsSound DEF RtInv
<1>2. [s EXCEPT !.pipe = Queued(@, m)] = Piped(s, Queued(s.pipe, m))
  BY Zenon DEF Piped
<1> QED
  BY <1>1, <1>2, PipedKeeps

LEMMA ShutKeeps ==
  ASSUME NEW s, RtInv(s)
  PROVE  LET t == [s EXCEPT !.pipe = Shut(@)] IN
         /\ RtInv(t) /\ t.pipe = Shut(s.pipe) /\ t.pipe.closed /\ ~t.pipe.paused
         /\ DrainOwed(t.pipe)
<1>1. /\ Sound(Shut(s.pipe)) /\ Shut(s.pipe).closed /\ ~Shut(s.pipe).paused
      /\ DrainOwed(Shut(s.pipe))
  BY ShutIsSound DEF RtInv
<1>2. [s EXCEPT !.pipe = Shut(@)] = Piped(s, Shut(s.pipe))
  BY Zenon DEF Piped
<1> QED
  BY <1>1, <1>2, PipedKeeps

LEMMA MessagesSent ==
  /\ \A id \in Ids \cup {None} : ErrorTo(id) \in Messages
  /\ \A id \in Ids, ok \in BOOLEAN : AnswerTo(id, ok) \in Messages
BY SizeAssumption DEF ErrorTo, AnswerTo, Messages

LEMMA EnqueueInsideKeeps ==
  ASSUME NEW s, RtInv(s), NEW m \in Messages, NEW t \in EnqueueInside(s, m)
  PROVE  Turned(s, t)
<1>1. CASE s.phase # "open" \/ s.pipe.closed
  <2>1. t = s
    BY <1>1 DEF EnqueueInside
  <2> QED
    BY <2>1 DEF Turned
<1>2. CASE ~(s.phase # "open" \/ s.pipe.closed) /\ Overflows(s.pipe, m)
  <2> DEFINE u == [s EXCEPT !.pipe = Shut(@)]
  <2>1. t = Terminate(u, "output-error")
    BY <1>2 DEF EnqueueInside
  <2>2. RtInv(u) /\ DrainOwed(u.pipe)
    BY ShutKeeps
  <2> HIDE DEF u
  <2>3. "output-error" \in Terminations /\ "output-error" # "input-eof"
    BY DEF Terminations
  <2> QED
    BY <1>2, <2>1, <2>2, <2>3, TerminateKeeps DEF Turned
<1>3. CASE ~(s.phase # "open" \/ s.pipe.closed) /\ ~Overflows(s.pipe, m)
  <2> DEFINE u == [s EXCEPT !.pipe = Queued(@, m)]
  <2>1. t \in Pump(u)
    BY <1>3 DEF EnqueueInside
  <2>2. RtInv(u)
    BY <1>3, QueuedKeeps
  <2> HIDE DEF u
  <2> QED
    BY <1>3, <2>1, <2>2, PumpKeeps DEF Turned
<1> QED
  BY <1>1, <1>2, <1>3

(* A frame is handled by an open runtime.                                   *)
LEMMA HandleFrameKeeps ==
  ASSUME NEW s, RtInv(s), s.phase = "open", NEW f \in Frames,
         NEW t \in HandleFrame(s, f)
  PROVE  Turned(s, t)
<1>1. /\ f.id \in Ids \cup {None}
      /\ f.kind \in {"request", "cancel", "initialized", "garbage", "broken", "rest"}
      /\ f.kind \in {"request", "cancel"} => f.id \in Ids
  BY DEF Frames
<1>2. /\ ErrorTo(None) \in Messages /\ ErrorTo(f.id) \in Messages
      /\ "protocol-fatal" \in Terminations /\ "protocol-fatal" # "input-eof"
  BY <1>1, MessagesSent DEF Terminations
<1>3. CASE f.kind \in {"garbage", "rest"}
  <2>1. t \in EnqueueInside(s, ErrorTo(None))
    BY <1>3 DEF HandleFrame
  <2> QED
    BY <1>2, <2>1, EnqueueInsideKeeps
<1>4. CASE f.kind = "broken"
  <2>1. t \in {Terminate(u, "protocol-fatal") : u \in EnqueueInside(s, ErrorTo(None))}
    BY <1>4 DEF HandleFrame
  <2>2. PICK u \in EnqueueInside(s, ErrorTo(None)) : t = Terminate(u, "protocol-fatal")
    BY <2>1
  <2>3. Turned(s, u)
    BY <1>2, EnqueueInsideKeeps
  <2>4. RtInv(t) /\ t.pipe = u.pipe
    BY <1>2, <2>2, <2>3, TerminateKeeps DEF Turned
  <2> QED
    BY <2>3, <2>4 DEF Turned
<1>5. CASE f.kind = "request"
  <2>1. CASE f.id \in Initializes /\ (s.initAccepted \/ s.initKey # None)
    <3>1. t \in EnqueueInside(s, ErrorTo(f.id))
      BY <1>5, <2>1 DEF HandleFrame
    <3> QED
      BY <1>2, <3>1, EnqueueInsideKeeps
  <2>2. CASE ~(f.id \in Initializes /\ (s.initAccepted \/ s.initKey # None))
    <3> DEFINE key == IF f.id \in Initializes THEN f.id ELSE s.initKey
    <3>1. t = [s EXCEPT !.tokens = @ \cup {f.id}, !.handling = @ \cup {f.id},
                        !.initKey = key]
      BY <1>5, <2>2 DEF HandleFrame
    <3>2. s \in Runtimes /\ f.id \in Ids /\ key \in Ids \cup {None}
      BY <1>1, <1>5 DEF RtInv, Runtimes
    <3> HIDE DEF key
    <3>3. /\ t \in Runtimes /\ t.pipe = s.pipe /\ t.framing = s.framing
          /\ t.unread = s.unread /\ t.phase = s.phase /\ t.reason = s.reason
          /\ t.handling = s.handling \cup {f.id} /\ t.tokens = s.tokens \cup {f.id}
      BY <3>1, <3>2 DEF Runtimes
    <3>4. s.reason = None /\ None # "input-eof"
      BY NoneAssumption DEF RtInv, Terminations
    <3> QED
      BY <3>3, <3>4 DEF RtInv, Turned
  <2> QED
    BY <2>1, <2>2
<1>6. CASE f.kind = "cancel"
  <2>1. t = Cancelled(s, f.id)
    BY <1>6 DEF HandleFrame
  <2>2. s \in Runtimes
    BY DEF RtInv
  <2>3. /\ t \in Runtimes /\ t.pipe = s.pipe /\ t.framing = s.framing
        /\ t.unread = s.unread /\ t.phase = s.phase /\ t.reason = s.reason
        /\ t.handling = s.handling \ {f.id} /\ t.tokens = s.tokens \ {f.id}
    BY <2>1, <2>2 DEF Cancelled, Runtimes
  <2> QED
    BY <2>3 DEF RtInv, Turned
<1>7. CASE f.kind = "initialized"
  <2>1. t = s \/ t = Terminate(s, "protocol-fatal")
    BY <1>7 DEF HandleFrame
  <2> QED
    BY <1>2, <2>1, TerminateKeeps DEF Turned
<1> QED
  BY <1>1, <1>3, <1>4, <1>5, <1>6, <1>7

LEMMA ReadKeeps ==
  ASSUME NEW s, RtInv(s), s.phase = "open", s.unread # <<>>
  PROVE  /\ RtInv(Read(s)) /\ Read(s).pipe = s.pipe /\ Read(s).phase = "open"
         /\ Head(s.unread) \in Frames
<1> DEFINE rest == Tail(s.unread)
           none == <<>>
<1>1. s \in Runtimes /\ s.unread \in Lines
  BY DEF RtInv, Runtimes
<1>2. rest \in Lines /\ none \in Lines /\ Head(s.unread) \in Frames
  BY <1>1, HeadTailProperties, EmptySeq DEF Lines
<1>3. s.reason = None /\ None # "input-eof" /\ s.handling \subseteq s.tokens
      /\ (s.framing # "open" => FALSE)
  BY NoneAssumption DEF RtInv, Terminations
<1>4. CASE Head(s.unread).kind \in {"broken", "rest"}
  <2> DEFINE t == [s EXCEPT !.unread = none, !.framing = "stopped", !.wake = TRUE]
  <2>1. Read(s) = t
    BY <1>4, Zenon DEF Read
  <2> HIDE DEF none
  <2>2. /\ t \in Runtimes /\ t.pipe = s.pipe /\ t.unread = none /\ t.phase = s.phase
        /\ t.reason = s.reason /\ t.handling = s.handling /\ t.tokens = s.tokens
    BY <1>1, <1>2 DEF Runtimes
  <2> HIDE DEF t
  <2>3. RtInv(t)
    BY <1>3, <2>2 DEF RtInv, none
  <2> QED
    BY <1>2, <2>1, <2>2, <2>3
<1>5. CASE Head(s.unread).kind \notin {"broken", "rest"}
  <2> DEFINE t == [s EXCEPT !.unread = rest, !.wake = TRUE]
  <2>1. Read(s) = t
    BY <1>5, Zenon DEF Read
  <2> HIDE DEF rest
  <2>2. /\ t \in Runtimes /\ t.pipe = s.pipe /\ t.framing = s.framing
        /\ t.phase = s.phase
        /\ t.reason = s.reason /\ t.handling = s.handling /\ t.tokens = s.tokens
    BY <1>1, <1>2 DEF Runtimes
  <2> HIDE DEF t
  <2>3. RtInv(t)
    BY <1>3, <2>2 DEF RtInv
  <2> QED
    BY <1>2, <2>1, <2>2, <2>3
<1> QED
  BY <1>4, <1>5

(* The end of the input ends a runtime that read all of it and owes no      *)
(* answer; nothing else in drainFrames does.                                *)
LEMMA DrainFramesKeeps ==
  ASSUME NEW s, RtInv(s), NEW t \in DrainFrames(s)
  PROVE  Turned(s, t)
<1>1. CASE s.phase # "open" \/ s.pipe.paused \/ s.initKey # None
  BY <1>1 DEF DrainFrames, Turned
<1>2. CASE /\ ~(s.phase # "open" \/ s.pipe.paused \/ s.initKey # None)
           /\ s.framing = "failed"
  <2> DEFINE u == [s EXCEPT !.framing = "stopped", !.wake = TRUE]
             f == [kind |-> "broken", id |-> None]
  <2>1. t \in HandleFrame(u, f)
    BY <1>2 DEF DrainFrames
  <2>2. f \in Frames
    BY DEF Frames
  <2>3. /\ u \in Runtimes /\ u.pipe = s.pipe /\ u.unread = s.unread
        /\ u.phase = s.phase /\ u.reason = s.reason
        /\ u.handling = s.handling /\ u.tokens = s.tokens
    BY DEF RtInv, Runtimes
  <2> HIDE DEF u, f
  <2>4. RtInv(u)
    BY <1>2, <2>3 DEF RtInv
  <2>5. Turned(u, t)
    BY <1>2, <2>1, <2>2, <2>3, <2>4, HandleFrameKeeps
  <2> QED
    BY <2>3, <2>5 DEF Turned
<1>3. CASE /\ ~(s.phase # "open" \/ s.pipe.paused \/ s.initKey # None)
           /\ s.framing # "failed"
           /\ s.framing = "open" /\ s.unread # <<>>
           /\ Head(s.unread).kind # "rest" \/ s.eof
  <2>1. t \in HandleFrame(Read(s), Head(s.unread))
    BY <1>3, Zenon DEF DrainFrames
  <2>2. /\ RtInv(Read(s)) /\ Read(s).pipe = s.pipe /\ Read(s).phase = "open"
        /\ Head(s.unread) \in Frames
    BY <1>3, ReadKeeps
  <2>3. Turned(Read(s), t)
    BY <2>1, <2>2, HandleFrameKeeps
  <2> QED
    BY <2>2, <2>3 DEF Turned
<1>4. CASE /\ ~(s.phase # "open" \/ s.pipe.paused \/ s.initKey # None)
           /\ s.framing # "failed"
           /\ ~(s.framing = "open" /\ s.unread # <<>>
                  /\ (Head(s.unread).kind # "rest" \/ s.eof))
  <2>1. CASE ~s.eof
    BY <1>4, <2>1 DEF DrainFrames, Turned
  <2>2. CASE s.eof
    <3> DEFINE u == [s EXCEPT !.framing = "stopped"]
    <3>1. t = IF Settled(s) THEN Terminate(u, "input-eof") ELSE u
      BY <1>4, <2>2 DEF DrainFrames
    <3>2. s.unread = <<>>
      BY <1>4, <2>2 DEF RtInv
    <3>3. /\ u \in Runtimes /\ u.pipe = s.pipe /\ u.unread = s.unread
          /\ u.phase = s.phase /\ u.reason = s.reason
          /\ u.handling = s.handling /\ u.tokens = s.tokens
      BY DEF RtInv, Runtimes
    <3> HIDE DEF u
    <3>4. RtInv(u)
      BY <3>2, <3>3 DEF RtInv
    <3>5. CASE Settled(s)
      <4>1. u.tokens = {} /\ u.unread = <<>> /\ "input-eof" \in Terminations
        BY <3>2, <3>3, <3>5 DEF Settled, Terminations
      <4> QED
        BY <3>1, <3>3, <3>4, <3>5, <4>1, TerminateKeeps DEF Turned
    <3>6. CASE ~Settled(s)
      BY <3>1, <3>3, <3>4, <3>6 DEF Turned
    <3> QED
      BY <3>5, <3>6
  <2> QED
    BY <2>1, <2>2
<1> QED
  BY <1>1, <1>2, <1>3, <1>4

(* A queue that fails ends closed, whatever its observers do meanwhile.     *)
LEMMA FailKeeps ==
  ASSUME NEW s, RtInv(s), NEW t \in Fail(s)
  PROVE  RtInv(t) /\ t.pipe = Shut(s.pipe) /\ t.pipe.closed /\ ~t.pipe.paused
<1> DEFINE u == [s EXCEPT !.pipe = Shut(@)]
<1>1. RtInv(u) /\ u.pipe = Shut(s.pipe) /\ u.pipe.closed /\ ~u.pipe.paused
  BY ShutKeeps
<1>2. PICK v \in IF s.pipe.paused THEN DrainFrames(u) ELSE {u} :
        t = Terminate(v, "output-error")
  BY DEF Fail
<1> HIDE DEF u
<1>3. Turned(u, v)
  <2>1. CASE s.pipe.paused
    BY <1>1, <1>2, <2>1, DrainFramesKeeps
  <2>2. CASE ~s.pipe.paused
    BY <1>1, <1>2, <2>2 DEF Turned
  <2> QED
    BY <2>1, <2>2
<1>4. RtInv(v) /\ v.pipe = u.pipe
  BY <1>1, <1>3 DEF Turned
<1>5. "output-error" \in Terminations /\ "output-error" # "input-eof"
  BY DEF Terminations
<1> QED
  BY <1>1, <1>2, <1>4, <1>5, TerminateKeeps

LEMMA EnqueueKeeps ==
  ASSUME NEW s, RtInv(s), DrainOwed(s.pipe), NEW m \in Messages,
         NEW t \in Enqueue(s, m)
  PROVE  RtInv(t) /\ DrainOwed(t.pipe)
<1>1. CASE s.phase # "open" \/ s.pipe.closed
  BY <1>1 DEF Enqueue
<1>2. CASE ~(s.phase # "open" \/ s.pipe.closed) /\ Overflows(s.pipe, m)
  <2>1. t \in Fail(s)
    BY <1>2 DEF Enqueue
  <2> QED
    BY <2>1, FailKeeps DEF DrainOwed
<1>3. CASE ~(s.phase # "open" \/ s.pipe.closed) /\ ~Overflows(s.pipe, m)
  <2> DEFINE u == [s EXCEPT !.pipe = Queued(@, m)]
  <2>1. t \in Pump(u)
    BY <1>3 DEF Enqueue
  <2>2. RtInv(u)
    BY <1>3, QueuedKeeps
  <2> HIDE DEF u
  <2> QED
    BY <2>1, <2>2, PumpKeeps
<1> QED
  BY <1>1, <1>2, <1>3

LEMMA BrokenKeeps ==
  ASSUME NEW s, RtInv(s), s.pipe.closed, ~s.pipe.paused
  PROVE  RtInv(Broken(s)) /\ DrainOwed(Broken(s).pipe)
<1> DEFINE none == <<>>
           p == [s.pipe EXCEPT !.unacked = none, !.full = FALSE]
<1>1. Broken(s) = Piped(s, p)
  BY DEF Broken, Piped, RtInv, Runtimes, Pipes
<1>2. none \in Queues /\ s.pipe \in Pipes
  BY EmptySeq DEF Queues, RtInv, Sound
<1> HIDE DEF none
<1>3. /\ p \in Pipes /\ p.closed /\ ~p.paused
      /\ p.wire = s.pipe.wire /\ p.accepted = s.pipe.accepted
  BY <1>2 DEF Pipes
<1> HIDE DEF p
<1>4. Sound(p) /\ DrainOwed(p)
  BY <1>3 DEF RtInv, Sound, InOrder, DrainOwed
<1> QED
  BY <1>1, <1>4, PipedKeeps

-----------------------------------------------------------------------------
(* The server.  The strengthening of the three invariants: the runtime is   *)
(* sound between two turns, and whatever waits waits for a drain.           *)
IInv ==
  /\ TypeOK
  /\ RtInv(rt)
  /\ DrainOwed(rt.pipe)

LEMMA InitSound == Init => IInv
<1> SUFFICES ASSUME Init
             PROVE  IInv
  OBVIOUS
<1> DEFINE none == <<>>
           p == Opened
<1>1. none \in Queues /\ none \in Lines /\ none \o none = none /\ IsPrefix(none, none)
  <2>1. none \in Seq(Messages) /\ none \in Seq(Frames)
    BY EmptySeq
  <2>2. none \o none = none
    BY <2>1, ConcatEmptySeq
  <2>3. IsPrefix(none, none \o none)
    BY <2>1, WireIsPrefix
  <2> QED
    BY <2>1, <2>2, <2>3 DEF Queues, Lines
<1> HIDE DEF none
<1>2. p = [accepted |-> none, waiting |-> none, incomplete |-> {}, bytes |-> 0,
           paused |-> FALSE, closed |-> FALSE, wire |-> none, unacked |-> none,
           full |-> FALSE]
  BY DEF Opened, none
<1>3. p \in Pipes
  BY <1>1, <1>2 DEF Pipes
<1>4. Sound(p) /\ DrainOwed(p)
  <2>1. p.waiting = <<>>
    BY <1>2 DEF none
  <2> QED
    BY <1>1, <1>2, <1>3, <2>1 DEF Sound, InOrder, DrainOwed
<1> HIDE DEF p
<1>5. rt = [pipe |-> p, unread |-> none, framing |-> "open", eof |-> FALSE,
            tokens |-> {}, handling |-> {}, initKey |-> None,
            initAccepted |-> FALSE, wake |-> FALSE, phase |-> "open",
            reason |-> None, closeFailed |-> FALSE]
  BY Zenon DEF Init, Idle, none, p
<1>6. rt \in Runtimes
  BY <1>1, <1>3, <1>5 DEF Runtimes
<1>7. RtInv(rt) /\ DrainOwed(rt.pipe)
  <2>1. None # "input-eof"
    BY NoneAssumption DEF Terminations
  <2> QED
    BY <1>4, <1>5, <1>6, <2>1 DEF RtInv
<1>8. TypeOK
  BY <1>6 DEF Init, TypeOK, ExitReasons
<1> QED
  BY <1>7, <1>8 DEF IInv

(* A turn of the runtime that leaves the host and the runner alone.         *)
LEMMA TurnKeeps ==
  ASSUME IInv, RtInv(rt'), DrainOwed(rt'.pipe), UNCHANGED <<host, runner>>
  PROVE  IInv'
BY DEF IInv, TypeOK, RtInv

LEMMA TurnedKeeps ==
  ASSUME NEW s, DrainOwed(s.pipe), NEW t, Turned(s, t)
  PROVE  RtInv(t) /\ DrainOwed(t.pipe)
BY DEF Turned

(* What the host sends is kept, or all that was kept is dropped.            *)
LEMMA KeptKeeps ==
  ASSUME NEW s, RtInv(s), s.phase = "open", NEW f \in Frames
  PROVE  RtInv(Kept(s, f)) /\ Kept(s, f).pipe = s.pipe
<1> DEFINE none == <<>>
           more == Append(s.unread, f)
<1>1. s \in Runtimes /\ s.unread \in Lines
  BY DEF RtInv, Runtimes
<1>2. none \in Lines /\ more \in Lines
  BY <1>1, EmptySeq, AppendProperties DEF Lines
<1>3. s.reason = None /\ None # "input-eof" /\ s.handling \subseteq s.tokens
  BY NoneAssumption DEF RtInv, Terminations
<1>4. CASE s.framing # "open"
  BY <1>4 DEF Kept
<1>5. CASE s.framing = "open" /\ Len(s.unread) >= MaxRetained
  <2> DEFINE t == [s EXCEPT !.framing = "failed", !.unread = none]
  <2>1. Kept(s, f) = t
    BY <1>5, Zenon DEF Kept
  <2> HIDE DEF none
  <2>2. /\ t \in Runtimes /\ t.pipe = s.pipe /\ t.unread = none /\ t.phase = s.phase
        /\ t.reason = s.reason /\ t.handling = s.handling /\ t.tokens = s.tokens
    BY <1>1, <1>2 DEF Runtimes
  <2> HIDE DEF t
  <2>3. RtInv(t)
    BY <1>3, <2>2 DEF RtInv, none
  <2> QED
    BY <2>1, <2>2, <2>3
<1>6. CASE s.framing = "open" /\ ~(Len(s.unread) >= MaxRetained)
  <2> DEFINE t == [s EXCEPT !.unread = more]
  <2>1. Kept(s, f) = t
    BY <1>6, Zenon DEF Kept
  <2> HIDE DEF more
  <2>2. /\ t \in Runtimes /\ t.pipe = s.pipe /\ t.framing = "open" /\ t.phase = s.phase
        /\ t.reason = s.reason /\ t.handling = s.handling /\ t.tokens = s.tokens
    BY <1>1, <1>2, <1>6 DEF Runtimes
  <2> HIDE DEF t
  <2>3. RtInv(t)
    BY <1>3, <2>2 DEF RtInv
  <2> QED
    BY <2>1, <2>2, <2>3
<1> QED
  BY <1>4, <1>5, <1>6

LEMMA DeliverKeeps ==
  ASSUME IInv, NEW f \in Frames, Deliver(f)
  PROVE  IInv'
<1>1. rt.phase = "open" /\ RtInv(rt) /\ DrainOwed(rt.pipe)
  BY DEF Deliver, InputFlows, IInv
<1>2. RtInv(Kept(rt, f)) /\ DrainOwed(Kept(rt, f).pipe)
  BY <1>1, KeptKeeps
<1>3. rt' \in DrainFrames(Kept(rt, f))
  BY DEF Deliver
<1>4. RtInv(rt') /\ DrainOwed(rt'.pipe)
  BY <1>2, <1>3, DrainFramesKeeps, TurnedKeeps
<1>5. host' \in [used : SUBSET Ids, cancelled : SUBSET Ids, frames : Nat, rest : BOOLEAN]
  <2> DEFINE used == IF f.kind = "request" THEN host.used \cup {f.id} ELSE host.used
             gone == IF f.kind = "cancel" THEN host.cancelled \cup {f.id}
                     ELSE host.cancelled
             last == f.kind = "rest"
  <2>1. f.kind \in {"request", "cancel"} => f.id \in Ids
    BY DEF Frames
  <2>2. host \in [used : SUBSET Ids, cancelled : SUBSET Ids, frames : Nat, rest : BOOLEAN]
    BY DEF IInv, TypeOK
  <2>3. used \in SUBSET Ids /\ gone \in SUBSET Ids /\ last \in BOOLEAN
    BY <2>1, <2>2
  <2>4. host' = [host EXCEPT !.frames = @ + 1, !.rest = last, !.used = used,
                             !.cancelled = gone]
    BY Zenon DEF Deliver
  <2> HIDE DEF used, gone, last
  <2>5. host.frames + 1 \in Nat
    BY <2>2
  <2> QED
    BY <2>2, <2>3, <2>4, <2>5
<1>6. runner' = runner /\ rt' \in Runtimes
  BY <1>4 DEF Deliver, RtInv
<1> QED
  BY <1>4, <1>5, <1>6 DEF IInv, TypeOK

LEMMA EndInputKeeps == ASSUME IInv, EndInput PROVE IInv'
<1> DEFINE s == [rt EXCEPT !.eof = TRUE]
<1>1. /\ s \in Runtimes /\ s.pipe = rt.pipe /\ s.unread = rt.unread
      /\ s.phase = rt.phase /\ s.reason = rt.reason /\ s.framing = rt.framing
      /\ s.handling = rt.handling /\ s.tokens = rt.tokens
  BY DEF IInv, RtInv, Runtimes
<1>2. rt' \in DrainFrames(s) /\ UNCHANGED <<host, runner>>
  BY DEF EndInput
<1> HIDE DEF s
<1>3. RtInv(s) /\ DrainOwed(s.pipe)
  BY <1>1 DEF IInv, RtInv
<1> QED
  BY <1>2, <1>3, DrainFramesKeeps, TurnedKeeps, TurnKeeps

LEMMA InputFailsKeeps == ASSUME IInv, InputFails PROVE IInv'
<1>1. "input-error" \in Terminations /\ "input-error" # "input-eof"
  BY DEF Terminations
<1>2. RtInv(rt') /\ DrainOwed(rt'.pipe)
  BY <1>1, TerminateKeeps DEF IInv, InputFails
<1> QED
  BY <1>2, TurnKeeps DEF InputFails

LEMMA AnswerKeeps ==
  ASSUME IInv, NEW id \in Ids, NEW ok \in BOOLEAN, Answer(id, ok)
  PROVE  IInv'
<1> DEFINE s == [rt EXCEPT !.handling = @ \ {id}, !.tokens = @ \ {id}]
<1>1. rt' \in Enqueue(s, AnswerTo(id, ok)) /\ UNCHANGED <<host, runner>>
  BY DEF Answer
<1>2. /\ s \in Runtimes /\ s.pipe = rt.pipe /\ s.unread = rt.unread
      /\ s.phase = rt.phase /\ s.reason = rt.reason /\ s.framing = rt.framing
      /\ s.handling = rt.handling \ {id} /\ s.tokens = rt.tokens \ {id}
  BY DEF IInv, RtInv, Runtimes
<1> HIDE DEF s
<1>3. RtInv(s) /\ DrainOwed(s.pipe)
  BY <1>2 DEF IInv, RtInv
<1>4. AnswerTo(id, ok) \in Messages
  BY MessagesSent
<1> QED
  BY <1>1, <1>3, <1>4, EnqueueKeeps, TurnKeeps

(* The runtime only wakes: nothing it is judged by changes.                 *)
LEMMA WokenKeeps ==
  ASSUME NEW s, RtInv(s), NEW wake \in BOOLEAN
  PROVE  LET t == [s EXCEPT !.wake = wake] IN RtInv(t) /\ t.pipe = s.pipe
<1> DEFINE t == [s EXCEPT !.wake = wake]
<1>1. /\ t \in Runtimes /\ t.pipe = s.pipe /\ t.unread = s.unread
      /\ t.phase = s.phase /\ t.reason = s.reason /\ t.framing = s.framing
      /\ t.handling = s.handling /\ t.tokens = s.tokens
  BY DEF RtInv, Runtimes
<1> HIDE DEF t
<1>2. RtInv(t)
  BY <1>1 DEF RtInv
<1> QED
  BY <1>1, <1>2 DEF t

LEMMA WriteDoneKeeps == ASSUME IInv, WriteDone PROVE IInv'
<1> DEFINE s == [rt EXCEPT !.pipe = Completed(@)]
           m == Head(rt.pipe.unacked)
<1>1. RtInv(rt) /\ rt.pipe.unacked # <<>> /\ Sound(rt.pipe)
  BY DEF IInv, RtInv, WriteDone
<1>2. RtInv(s)
  <2>1. s = Piped(rt, Completed(rt.pipe))
    BY Zenon DEF Piped
  <2> QED
    BY <1>1, <2>1, CompletedIsSound, PipedKeeps
<1>3. PICK t \in Pump(s) :
        rt' = [t EXCEPT !.wake = @ \/ (m.sdk /\ ~s.pipe.closed /\ s.eof /\ Settled(s))]
  BY Zenon DEF WriteDone
<1> DEFINE wake == t.wake \/ (m.sdk /\ ~s.pipe.closed /\ s.eof /\ Settled(s))
<1>4. rt' = [t EXCEPT !.wake = wake]
  BY <1>3, Zenon
<1> HIDE DEF s, m
<1>5. RtInv(t) /\ DrainOwed(t.pipe)
  BY <1>2, <1>3, PumpKeeps
<1>6. wake \in BOOLEAN
  BY <1>5 DEF RtInv, Runtimes
<1> HIDE DEF wake
<1>7. RtInv(rt') /\ rt'.pipe = t.pipe
  BY <1>4, <1>5, <1>6, WokenKeeps
<1> QED
  BY <1>5, <1>7, TurnKeeps DEF WriteDone

LEMMA WriteFailsKeeps == ASSUME IInv, WriteFails PROVE IInv'
<1>1. PICK t \in Fail(rt) : rt' = Broken(t)
  BY DEF WriteFails
<1>2. RtInv(t) /\ t.pipe.closed /\ ~t.pipe.paused
  BY FailKeeps DEF IInv
<1> QED
  BY <1>1, <1>2, BrokenKeeps, TurnKeeps DEF WriteFails

LEMMA OutputFailsKeeps == ASSUME IInv, OutputFails PROVE IInv'
<1> DEFINE s == Terminate(rt, "output-error")
           t == [s EXCEPT !.pipe = Shut(@)]
<1>1. rt' = Broken(t)
  BY DEF OutputFails
<1>2. "output-error" \in Terminations /\ "output-error" # "input-eof"
  BY DEF Terminations
<1>3. RtInv(s)
  BY <1>2, TerminateKeeps DEF IInv
<1> HIDE DEF s
<1>4. RtInv(t) /\ t.pipe.closed /\ ~t.pipe.paused
  BY <1>3, ShutKeeps
<1> HIDE DEF t
<1> QED
  BY <1>1, <1>4, BrokenKeeps, TurnKeeps DEF OutputFails

(* The observer of the drain runs before the queue pumps, and the pump      *)
(* attends to what it left waiting.                                         *)
LEMMA DrainKeeps == ASSUME IInv, Drain PROVE IInv'
<1> DEFINE s == [rt EXCEPT !.pipe.full = FALSE, !.pipe.paused = FALSE]
           p == [rt.pipe EXCEPT !.full = FALSE, !.paused = FALSE]
<1>1. RtInv(rt) /\ Sound(rt.pipe) /\ rt \in Runtimes /\ rt.pipe \in Pipes
  BY DEF IInv, RtInv, Sound
<1>2. s = Piped(rt, p)
  BY <1>1 DEF Piped, Runtimes, Pipes
<1>3. Sound(p)
  <2>1. /\ p \in Pipes /\ p.paused = FALSE /\ p.wire = rt.pipe.wire
        /\ p.accepted = rt.pipe.accepted /\ p.waiting = rt.pipe.waiting
        /\ p.closed = rt.pipe.closed
    BY <1>1 DEF Pipes
  <2> HIDE DEF p
  <2> QED
    BY <1>1, <2>1 DEF Sound, InOrder
<1>4. PICK t \in DrainFrames(s) : rt' \in Pump(t)
  BY DEF Drain
<1> HIDE DEF s, p
<1>5. RtInv(t)
  BY <1>1, <1>2, <1>3, <1>4, PipedKeeps, DrainFramesKeeps DEF Turned
<1> QED
  BY <1>4, <1>5, PumpKeeps, TurnKeeps DEF Drain

LEMMA MicrotaskKeeps == ASSUME IInv, Microtask PROVE IInv'
<1> DEFINE s == [rt EXCEPT !.wake = FALSE]
<1>1. rt' \in DrainFrames(s)
  BY DEF Microtask
<1>2. RtInv(s) /\ s.pipe = rt.pipe
  BY WokenKeeps DEF IInv
<1> HIDE DEF s
<1>3. RtInv(rt') /\ DrainOwed(rt'.pipe)
  BY <1>1, <1>2, DrainFramesKeeps, TurnedKeeps DEF IInv
<1> QED
  BY <1>3, TurnKeeps DEF Microtask

LEMMA CloseTailKeeps ==
  ASSUME IInv, NEW failed \in BOOLEAN, CloseTail(failed)
  PROVE  IInv'
<1> DEFINE q == Shut(rt.pipe)
           t == [rt EXCEPT !.phase = "closed", !.pipe = q,
                           !.closeFailed = failed, !.wake = FALSE]
<1>1. rt' = Broken(t)
  BY Zenon DEF CloseTail
<1>2. Sound(q) /\ q.closed /\ ~q.paused /\ q \in Pipes
  BY ShutIsSound DEF IInv, RtInv, Sound
<1> HIDE DEF q
<1>3. /\ t \in Runtimes /\ t.pipe = q /\ t.unread = rt.unread
      /\ t.phase = "closed" /\ t.reason = rt.reason /\ t.framing = rt.framing
      /\ t.handling = rt.handling /\ t.tokens = rt.tokens
  BY <1>2 DEF IInv, RtInv, Runtimes
<1> HIDE DEF t
<1>4. RtInv(t)
  BY <1>2, <1>3 DEF IInv, RtInv
<1> QED
  BY <1>1, <1>2, <1>3, <1>4, BrokenKeeps, TurnKeeps DEF CloseTail

LEMMA RunnerKeeps ==
  ASSUME IInv,
         \/ Start \/ StartFails \/ Watch \/ Exit
         \/ \E sig \in Signals : Signal(sig)
  PROVE  IInv'
<1>1. rt' = rt /\ host' = host
  BY DEF Start, StartFails, Watch, Exit, Signal
<1>2. runner' \in [phase : {"starting", "started", "failed", "late"},
                   reason : ExitReasons \cup {None}, exit : {0, 1, 130, 143, None}]
  <2> DEFINE R == [phase : {"starting", "started", "failed", "late"},
                   reason : ExitReasons \cup {None}, exit : {0, 1, 130, 143, None}]
  <2>0. runner \in R /\ "startup" \in ExitReasons
    BY DEF IInv, TypeOK, ExitReasons
  <2>1. CASE Start
    BY <2>0, <2>1 DEF Start
  <2>4. CASE StartFails
    <3> DEFINE why == IF runner.reason = None THEN "startup" ELSE runner.reason
    <3>1. why \in ExitReasons \cup {None}
      BY <2>0
    <3>2. runner' = [runner EXCEPT !.phase = "failed", !.reason = why]
      BY <2>4, Zenon DEF StartFails
    <3> HIDE DEF why
    <3> QED
      BY <2>0, <3>1, <3>2
  <2>2. CASE Watch \/ \E sig \in Signals : Signal(sig)
    BY <2>2 DEF Watch, Signal, Select, IInv, TypeOK, ExitReasons
  <2>3. CASE Exit
    <3>1. runner.reason \in ExitReasons
      BY <2>3 DEF Exit, IInv, TypeOK
    <3>2. ExitCode(runner.reason) \in {0, 1, 130, 143}
      BY <3>1 DEF ExitCode, ExitReasons, Signals
    <3> QED
      BY <2>3, <3>2 DEF Exit, IInv, TypeOK
  <2> QED
    BY <2>1, <2>2, <2>3, <2>4
<1> QED
  BY <1>1, <1>2 DEF IInv, TypeOK

LEMMA CloseRuntimeKeeps == ASSUME IInv, CloseRuntime PROVE IInv'
<1>1. "caller-close" \in Terminations /\ "caller-close" # "input-eof"
  BY DEF Terminations
<1>2. RtInv(rt') /\ DrainOwed(rt'.pipe)
  BY <1>1, TerminateKeeps DEF IInv, CloseRuntime
<1> QED
  BY <1>2, TurnKeeps DEF CloseRuntime

LEMMA StepSound == IInv /\ [Next]_vars => IInv'
<1> SUFFICES ASSUME IInv, [Next]_vars
             PROVE  IInv'
  OBVIOUS
<1>1. CASE \E f \in Frames : Deliver(f)
  BY <1>1, DeliverKeeps
<1>2. CASE EndInput \/ InputFails
  BY <1>2, EndInputKeeps, InputFailsKeeps
<1>3. CASE \E id \in Ids, ok \in BOOLEAN : Answer(id, ok)
  BY <1>3, AnswerKeeps
<1>4. CASE WriteDone \/ WriteFails \/ OutputFails \/ Drain
  BY <1>4, WriteDoneKeeps, WriteFailsKeeps, OutputFailsKeeps, DrainKeeps
<1>5. CASE Microtask
  BY <1>5, MicrotaskKeeps
<1>6. CASE \E failed \in BOOLEAN : CloseTail(failed)
  BY <1>6, CloseTailKeeps
<1>7. CASE Start \/ StartFails \/ Watch \/ Exit \/ \E sig \in Signals : Signal(sig)
  BY <1>7, RunnerKeeps
<1>8. CASE CloseRuntime
  BY <1>8, CloseRuntimeKeeps
<1>9. CASE UNCHANGED vars
  BY <1>9 DEF vars, IInv, TypeOK
<1> QED
  BY <1>1, <1>2, <1>3, <1>4, <1>5, <1>6, <1>7, <1>8, <1>9 DEF Next

LEMMA AlwaysSound == Spec => []IInv
<1>1. Init => IInv
  BY InitSound
<1>2. IInv /\ [Next]_vars => IInv'
  BY StepSound
<1> QED
  BY <1>1, <1>2, PTL DEF Spec

(* Types: the state of the host, of the runtime and of the runner always    *)
(* has the form the code gives it, whatever the limits and the frames.      *)
THEOREM TypeCorrect == Spec => []TypeOK
<1>1. IInv => TypeOK
  BY DEF IInv
<1> QED
  BY <1>1, AlwaysSound, PTL

(* pump and the drain that calls back before it: what the stream was given  *)
(* is always a prefix of what the queue accepted, and an open queue still   *)
(* holds the rest in order.                                                 *)
THEOREM AnswersAreInOrder == Spec => []AnswersInOrder
<1>1. IInv => AnswersInOrder
  BY DEF IInv, RtInv, Sound, AnswersInOrder
<1> QED
  BY <1>1, AlwaysSound, PTL

(* No message waits in an open queue unless the stream owes the drain that  *)
(* will write it.                                                           *)
THEOREM NothingWaits == Spec => []NothingWaitsUnnoticed
<1>1. IInv => NothingWaitsUnnoticed
  BY DEF IInv, NothingWaitsUnnoticed
<1> QED
  BY <1>1, AlwaysSound, PTL

(* A runtime that drainFrames ended with its input has read every frame and *)
(* no handler is still at work.                                             *)
THEOREM EofWaits == Spec => []EofWaitsForHandlers
<1>1. IInv => EofWaitsForHandlers
  BY DEF IInv, RtInv, EofWaitsForHandlers
<1> QED
  BY <1>1, AlwaysSound, PTL
=============================================================================
