-------------------------- MODULE ReviewRoundsProofs -------------------------
(***************************************************************************)
(* What ReviewRounds promises, for any bytes, any limit of rounds and any  *)
(* number of human decisions, failures and corrections.                    *)
(***************************************************************************)
EXTENDS ReviewRounds, FiniteSetTheorems, TLAPS

-----------------------------------------------------------------------------
(* The inductive invariant *)

(* What the records are. *)
Works == [id : Subjects,
          from : [by : {"minor", "simple"}, on : Subjects, cycle : BOOLEAN] \cup {None}]
Reviews == [id : Nat, on : Subjects, style : {"report", "structured"},
            attempt : Nat, outcome : SUBSET Findings]
Rounds == [attempt : Nat, review : Nat]
Triages == [on : Subjects, review : Nat, marks : SUBSET Marks, history : SUBSET Rounds]
Gates == [kind : {"approval", "exhausted"}, on : Subjects, review : Nat, pushable : BOOLEAN]
Pendings == [on : Subjects, cycle : BOOLEAN, attempt : Nat]
Cursors == [step : {"produce", "counter_review", "triage"},
            status : {"running", "succeeded", "failed"}, attempt : Nat \ {0}]
Spents == [decisions : Nat, failures : Nat, minors : Nat]
Seens == [minted : Nat, rounds : SUBSET Nat, alone : Nat, owed : BOOLEAN, hops : Nat]

Shapes ==
  /\ TypeOK
  /\ work \in Works \cup {None}
  /\ review \in Reviews \cup {None}
  /\ triage \in Triages \cup {None}
  /\ gate \in Gates \cup {None}
  /\ pending \in Pendings \cup {None}
  /\ spent \in Spents /\ seen \in Seens

(* A production exists wherever one is judged, shown or revised. *)
WorkExists ==
  (\/ at.step # "produce" \/ at.status = "succeeded"
   \/ gate # None \/ asked # None \/ pending # None) => work \in Works

Reviewed(status) == at.step = "counter_review" /\ at.status = status

(* A call that runs a review runs it in its own step of an open phase. *)
HeldRuns == held => Reviewed("running") /\ done = "no" /\ gate = None /\ asked = None

(* A human revision is being produced from the work it names. *)
PendingStands ==
  pending # None =>
    /\ pending.on = work.id
    /\ at.step = "produce" /\ at.status # "succeeded"
    /\ gate = None /\ asked = None
    /\ seen.alone = 0

(* A correction is counted from what the review read. *)
HopsCounted ==
  review # None /\ work \in Works =>
    /\ review.on = work.id => seen.hops = 0
    /\ work.from # None /\ work.from.on = review.on => seen.hops <= 1

NearReview ==
  /\ review # None
  /\ \/ review.on = work.id
     \/ seen.hops <= 1 /\ work.from # None /\ work.from.on = review.on

(* An open gate shows the work and the review in force. *)
GateStands ==
  gate # None =>
    /\ asked = None /\ review # None /\ ~Reviewed("succeeded")
    /\ gate.on = work.id /\ gate.review = review.id
    /\ gate.kind = "approval" => NearReview
    /\ gate.pushable => /\ at.step = "triage"
                        /\ Cardinality(seen.rounds) >= 2
AdvancedStands == done = "advanced" => NearReview /\ ~seen.owed

(* What a review and a round are known by. *)
Minted ==
  /\ IsFiniteSet(seen.rounds) /\ \A id \in seen.rounds : id <= seen.minted
  /\ review # None => review.id = seen.minted /\ review.id \in seen.rounds
  /\ \A p \in passes : p.review <= seen.minted

(* Each round of the history is one attempt and one review that happened. *)
HistorySound ==
  triage # None =>
    /\ triage.review \in seen.rounds
    /\ \A r \in triage.history : r.review \in seen.rounds /\ r.review <= triage.review
    /\ \A r, q \in triage.history : r.attempt = q.attempt \/ r.review = q.review => r = q

(* The review just run is in nobody's history and passed by nobody. *)
Unjudged ==
  Reviewed("succeeded") =>
    /\ triage # None => triage.review + 1 = seen.minted
    /\ \A p \in passes : p.review # seen.minted
    /\ ~seen.owed

(* Whoever accepted a finding has neither let it pass nor had it reviewed. *)
OwedStands ==
  seen.owed => "accepted" \in triage.marks /\ \A p \in passes : p.review # seen.minted

(* Since the last human decision every review but the first is in the       *)
(* history once it is triaged, and the one under way has an attempt of its  *)
(* own.                                                                     *)
AloneRecorded ==
  /\ triage # None =>
       /\ Reviewed("succeeded") \/ triage.review = seen.minted
       /\ \A i \in Nat : seen.minted + 2 <= i + seen.alone /\ i <= triage.review =>
            \E r \in triage.history : r.review = i
       /\ \A r \in triage.history : r.attempt <= at.attempt
       /\ (\/ at.step = "produce" /\ seen.alone >= 1
           \/ Reviewed("running") /\ seen.alone >= 1
           \/ Reviewed("succeeded") /\ seen.alone >= 2) =>
             \A r \in triage.history : r.attempt < at.attempt
  /\ triage = None =>
       \/ seen.alone = 0
       \/ Reviewed("succeeded") /\ seen.alone <= 2
       \/ at.step = "triage"
  /\ seen.alone <= seen.minted

(* Nobody starts over alone without room for one more review. *)
RoomLeft ==
  /\ seen.alone <= Maximum + 1 + spent.minors
  /\ at.step = "produce" \/ Reviewed("running") => seen.alone <= Maximum + spent.minors
  /\ triage # None /\ triage.review = seen.minted /\ "editorial" \in triage.marks
       => seen.alone <= Maximum + spent.minors
  /\ asked # None => seen.alone = 0 /\ ~held /\ ~Reviewed("succeeded")

RoundsInv ==
  /\ Shapes /\ WorkExists /\ HeldRuns /\ PendingStands /\ HopsCounted /\ GateStands
  /\ AdvancedStands /\ Minted /\ HistorySound /\ Unjudged /\ OwedStands
  /\ AloneRecorded /\ RoomLeft

-----------------------------------------------------------------------------
(* What the assessment says, read backwards *)

LEMMA Assesses ==
  /\ NextStep \in {"advance", "adjudication", "policy", "reentry", "editorial"} =>
       TriageCurrent /\ ReviewCurrent
  /\ NextStep = "triage" => ReviewCurrent
  /\ NextStep = "editorial" => Fresh /\ Marked("editorial")
  /\ NextStep \in {"advance", "adjudication"} /\ ~Escalated /\ Marked("accepted") => AcceptedSettled
<1>1. PolicyStep \in {"advance", "policy", "adjudication"}
  BY DEF PolicyStep
<1>2. Escalated => Fresh
  BY DEF Escalated
<1>3. MustRevise => Fresh
  BY DEF MustRevise
<1>4. MustPolish => Fresh /\ Marked("editorial")
  BY DEF MustPolish
<1>5. Fresh => TriageCurrent
  BY DEF Fresh
<1>6. TriageCurrent => ReviewCurrent
  BY DEF TriageCurrent
<1> QED
  BY <1>1, <1>2, <1>3, <1>4, <1>5, <1>6 DEF NextStep

(* Current evidence was read from bytes at most one correction away.          *)
LEMMA CurrentIsNear == HopsCounted /\ work \in Works /\ Shapes /\ ReviewCurrent => NearReview
<1> SUFFICES ASSUME HopsCounted, work \in Works, Shapes, ReviewCurrent PROVE NearReview
  OBVIOUS
<1>1. review # None /\ (Exact(review.on) \/ Hop(review.on))
  BY DEF ReviewCurrent
<1>2. CASE Exact(review.on)
  BY <1>1, <1>2 DEF Exact, NearReview
<1>3. CASE Hop(review.on)
  BY <1>1, <1>3 DEF Hop, NearReview, HopsCounted
<1> QED
  BY <1>1, <1>2, <1>3

-----------------------------------------------------------------------------
(* Counting rounds *)

LEMMA CursorMoves ==
  ASSUME Shapes, NEW step \in {"produce", "counter_review", "triage"},
         NEW status \in {"running", "succeeded", "failed"}
  PROVE  /\ Cursor(step, status) \in Cursors
         /\ Cursor(step, status).step = step /\ Cursor(step, status).status = status
         /\ Cursor(step, status).attempt = at.attempt
BY DEF Shapes, TypeOK, Cursors, Cursor

LEMMA SeenMoves ==
  ASSUME Shapes, NEW subject \in Subjects
  PROVE  /\ Distance(subject) \in Nat
         /\ [seen EXCEPT !.hops = Distance(subject)] \in Seens
         /\ [seen EXCEPT !.hops = Distance(subject)].hops = Distance(subject)
<1>1. seen \in Seens
  BY DEF Shapes, Seens
<1>2. Distance(subject) \in Nat
  BY <1>1 DEF Distance, Seens
<1> QED
  BY <1>1, <1>2 DEF Seens

LEMMA SpentMoves ==
  ASSUME Shapes
  PROVE  /\ [spent EXCEPT !.failures = @ + 1] \in Spents
         /\ [spent EXCEPT !.minors = @ + 1] \in Spents
         /\ [spent EXCEPT !.decisions = @ + 1] \in Spents
         /\ [spent EXCEPT !.failures = @ + 1].minors = spent.minors
         /\ [spent EXCEPT !.decisions = @ + 1].minors = spent.minors
         /\ [spent EXCEPT !.minors = @ + 1].minors = spent.minors + 1
<1>1. spent \in Spents
  BY DEF Shapes, Spents
<1>2. spent.failures + 1 \in Nat /\ spent.minors + 1 \in Nat /\ spent.decisions + 1 \in Nat
  BY <1>1 DEF Spents
<1> QED
  BY <1>1, <1>2 DEF Spents

Counted == {r.attempt : r \in {r \in triage.history : r.attempt <= at.attempt}}

(* The current review waits to be counted. *)
Open ==
  /\ review # None
  /\ \A r \in triage.history : r.review # review.id
  /\ at.step = "triage" \/ (at.step = "counter_review" /\ at.status = "succeeded")

LEMMA CountIs ==
  Count = IF triage = None THEN IF review = None THEN 0 ELSE 1
          ELSE Cardinality(Counted \union IF Open THEN {at.attempt} ELSE {})
BY DEF Count, Counted, Open

(* Every attempt that counts stands for a review of its own. *)
LEMMA CountedAreRounds ==
  ASSUME Shapes, Minted, HistorySound, triage # None
  PROVE  LET T == Counted \union IF Open THEN {at.attempt} ELSE {}
         IN  IsFiniteSet(T) /\ Cardinality(T) <= Cardinality(seen.rounds)
<1> DEFINE T == Counted \union IF Open THEN {at.attempt} ELSE {}
           Of(a) == CHOOSE r \in triage.history : r.attempt = a
           f == [a \in T |-> IF a \in Counted THEN Of(a).review ELSE review.id]
<1>1. \A a \in Counted : Of(a) \in triage.history /\ Of(a).attempt = a
  BY DEF Counted
<1>2. f \in [T -> seen.rounds]
  <2>1. ASSUME NEW a \in T PROVE (IF a \in Counted THEN Of(a).review ELSE review.id) \in seen.rounds
    BY <1>1 DEF HistorySound, Minted, Open
  <2> QED
    BY <2>1
<1>3. ASSUME NEW a \in T, NEW b \in T, f[a] = f[b] PROVE a = b
  <2>1. CASE a \in Counted /\ b \in Counted
    <3>1. Of(a).review = Of(b).review
      BY <1>3, <2>1
    <3>2. Of(a) = Of(b)
      BY <1>1, <2>1, <3>1 DEF HistorySound
    <3> QED
      BY <1>1, <2>1, <3>2
  <2>2. CASE a \notin Counted /\ b \notin Counted
    BY <2>2
  <2>3. ASSUME NEW x \in Counted, NEW y \in T, y \notin Counted PROVE f[x] # f[y]
    <3>1. f[x] = Of(x).review /\ f[y] = review.id /\ Open
      BY <2>3
    <3> QED
      BY <1>1, <2>3, <3>1 DEF Open
  <2> QED
    BY <1>3, <2>1, <2>2, <2>3
<1>4. f \in Injection(T, seen.rounds)
  BY <1>2, <1>3 DEF Injection, IsInjective
<1>5. IsFiniteSet(seen.rounds)
  BY DEF Minted
<1> HIDE DEF f, T
<1>6. IsFiniteSet(T) /\ Cardinality(T) <= Cardinality(seen.rounds)
  BY <1>4, <1>5, FS_Injection
<1> QED
  BY <1>6 DEF T

LEMMA CountBelow ==
  ASSUME Shapes, Minted, HistorySound
  PROVE  Count \in Nat /\ Count <= Cardinality(seen.rounds)
<1>0. IsFiniteSet(seen.rounds) /\ Cardinality(seen.rounds) \in Nat
  BY FS_CardinalityType DEF Minted
<1>1. CASE triage = None
  <2>1. CASE review = None
    BY <1>0, <1>1, <2>1, CountIs
  <2>2. CASE review # None
    <3>1. seen.rounds # {}
      BY <2>2 DEF Minted
    <3>2. Cardinality(seen.rounds) # 0
      BY <1>0, <3>1, FS_EmptySet
    <3> QED
      BY <1>0, <1>1, <2>2, <3>2, CountIs
  <2> QED
    BY <2>1, <2>2
<1>2. CASE triage # None
  <2> DEFINE T == Counted \union IF Open THEN {at.attempt} ELSE {}
  <2>1. IsFiniteSet(T) /\ Cardinality(T) <= Cardinality(seen.rounds)
    BY <1>2, CountedAreRounds
  <2>2. Cardinality(T) \in Nat
    BY <2>1, FS_CardinalityType
  <2>3. Count = Cardinality(T)
    BY <1>2, CountIs
  <2> QED
    BY <2>1, <2>2, <2>3
<1> QED
  BY <1>1, <1>2

(* Reviews in the history are rounds. *)
LEMMA HistoryBelow ==
  ASSUME Shapes, Minted, HistorySound, triage # None
  PROVE  /\ IsFiniteSet(triage.history)
         /\ Cardinality(triage.history) \in Nat /\ Cardinality(seen.rounds) \in Nat
         /\ Cardinality(triage.history) <= Cardinality(seen.rounds)
<1> DEFINE H == triage.history
           f == [r \in H |-> r.review]
<1>1. f \in Injection(H, seen.rounds)
  BY DEF HistorySound, Injection, IsInjective
<1>2. IsFiniteSet(seen.rounds)
  BY DEF Minted
<1> HIDE DEF f, H
<1>3. IsFiniteSet(H) /\ Cardinality(H) <= Cardinality(seen.rounds)
  BY <1>1, <1>2, FS_Injection
<1>4. Cardinality(H) \in Nat /\ Cardinality(seen.rounds) \in Nat
  BY <1>2, <1>3, FS_CardinalityType
<1> QED
  BY <1>3, <1>4 DEF H

(* Left alone, all reviews but one count once the last one is triaged.        *)
LEMMA AloneIsCounted ==
  ASSUME Shapes, Minted, HistorySound, AloneRecorded, TriageCurrent
  PROVE  seen.alone <= Count + 1
<1> DEFINE T == Counted \union IF Open THEN {at.attempt} ELSE {}
           lo == seen.minted + 2 - seen.alone
           Of(i) == CHOOSE r \in triage.history : r.review = i
           g == [i \in lo..seen.minted |-> Of(i).attempt]
<1>0. /\ triage # None /\ triage.review = seen.minted
      /\ seen.minted \in Nat /\ seen.alone \in Nat /\ seen.alone <= seen.minted
  BY DEF TriageCurrent, ReviewCurrent, Minted, AloneRecorded, Shapes, Seens
<1>1. \A i \in lo..seen.minted : Of(i) \in triage.history /\ Of(i).review = i
  <2>1. ASSUME NEW i \in lo..seen.minted PROVE \E r \in triage.history : r.review = i
    <3>1. i \in Nat /\ seen.minted + 2 <= i + seen.alone /\ i <= triage.review
      BY <1>0
    <3> QED
      BY <1>0, <3>1 DEF AloneRecorded
  <2> QED
    BY <2>1
<1>2. \A i \in lo..seen.minted : Of(i).attempt \in T
  BY <1>0, <1>1 DEF AloneRecorded, Counted
<1>3. \A i, j \in lo..seen.minted : g[i] = g[j] => i = j
  <2>1. ASSUME NEW i \in lo..seen.minted, NEW j \in lo..seen.minted, g[i] = g[j] PROVE i = j
    <3>1. Of(i).attempt = Of(j).attempt
      BY <2>1
    <3>2. Of(i) = Of(j)
      BY <1>0, <1>1, <3>1 DEF HistorySound
    <3> QED
      BY <1>1, <3>2
  <2> QED
    BY <2>1
<1>4. g \in Injection(lo..seen.minted, T)
  BY <1>2, <1>3 DEF Injection, IsInjective
<1>5. IsFiniteSet(T)
  BY <1>0, CountedAreRounds
<1>6. Count = Cardinality(T) /\ Cardinality(T) \in Nat
  BY <1>0, <1>5, CountIs, FS_CardinalityType
<1>7. lo \in Int /\ seen.minted \in Int
  BY <1>0
<1>8. Cardinality(lo..seen.minted) = IF lo > seen.minted THEN 0 ELSE seen.minted - lo + 1
  BY <1>7, FS_Interval
<1> HIDE DEF g, T
<1>9. Cardinality(lo..seen.minted) <= Cardinality(T)
  BY <1>4, <1>5, FS_Injection
<1> QED
  BY <1>0, <1>6, <1>8, <1>9

(* The history a triage leaves. *)
Past == IF triage = None THEN {} ELSE triage.history
NewRound == [attempt |-> at.attempt, review |-> review.id]

LEMMA HistoryIs ==
  /\ History \subseteq Past \cup {NewRound}
  /\ \A r, q \in History : r.attempt = q.attempt => r = q
  /\ (\A r, q \in Past \cup {NewRound} : r.attempt = q.attempt => r = q) =>
       History = Past \cup {NewRound}
BY DEF History, Past, NewRound

-----------------------------------------------------------------------------
(* Each step keeps the invariant *)

LEMMA BeginStep ==
  ASSUME RoundsInv, Begin PROVE RoundsInv'
<1>1. /\ at'.step = "produce" /\ at'.status = "running" /\ at'.attempt = at.attempt + 1
      /\ at.attempt \in Nat /\ UNCHANGED <<triage, seen, spent, asked, held, review>>
      /\ TriageCurrent /\ ReviewCurrent /\ asked = None
  BY Assesses DEF RoundsInv, Shapes, TypeOK, Begin, Needs, Assessed
<1>2. /\ HeldRuns' /\ PendingStands' /\ HopsCounted' /\ GateStands' /\ AdvancedStands'
      /\ Minted' /\ HistorySound' /\ Unjudged' /\ OwedStands'
  BY DEF RoundsInv, HeldRuns, Reviewed, Begin, Needs, Assessed, PendingStands,
     HopsCounted, GateStands, NearReview, AdvancedStands, Minted, HistorySound,
     Unjudged, OwedStands
<1>3. Shapes'
  BY DEF RoundsInv, Shapes, Begin, Needs, Assessed, TypeOK, Seens, Spents
<1>4. WorkExists'
  BY DEF RoundsInv, WorkExists, Begin, Needs, Assessed, Shapes, TypeOK, Seens, Spents,
     HeldRuns, PendingStands, GateStands, Unjudged, Reviewed
<1>5. AloneRecorded'
  <2>1. \A r \in triage.history : triage # None => r.attempt \in Nat
    BY DEF RoundsInv, Shapes, Triages, Rounds
  <2>2. triage # None /\ triage.review = seen.minted
    BY <1>1 DEF RoundsInv, Minted, TriageCurrent, ReviewCurrent
  <2> QED
    BY <1>1, <2>1, <2>2 DEF RoundsInv, AloneRecorded, Reviewed
<1>6. RoomLeft'
  <2>1. seen.alone <= Maximum + spent.minors
    <3>1. CASE NextStep = "editorial"
      <4>1. /\ triage # None /\ "editorial" \in triage.marks
            /\ review # None /\ triage.review = review.id
        BY <1>1, <3>1, Assesses DEF Marked, TriageCurrent, ReviewCurrent
      <4> QED
        BY <4>1 DEF RoundsInv, Minted, RoomLeft
    <3>2. CASE NextStep # "editorial"
      <4>1. ~(Count >= Maximum)
        BY <3>2 DEF Begin, Needs, Exhausted
      <4>2. Count \in Nat /\ seen.alone <= Count + 1
        BY <1>1, CountBelow, AloneIsCounted DEF RoundsInv
      <4> QED
        BY <4>1, <4>2, RoundsAssumption DEF RoundsInv, Shapes, Seens, Spents
    <3> QED
      BY <3>1, <3>2
  <2> QED
    BY <1>1, <2>1, RoundsAssumption DEF RoundsInv, RoomLeft, Shapes, Seens, Spents
<1> QED
  BY <1>2, <1>3, <1>4, <1>5, <1>6 DEF RoundsInv

LEMMA SubmitPlainStep ==
  ASSUME RoundsInv, NEW subject \in Subjects, SubmitPlain(subject) PROVE RoundsInv'
<1>1. /\ work' = [id |-> subject, from |-> None]
      /\ at' = Cursor("produce", "succeeded")
      /\ seen' = [seen EXCEPT !.hops = Distance(subject)]
  BY DEF SubmitPlain
<1>2. /\ seen' \in Seens /\ seen'.hops = Distance(subject)
      /\ at' \in Cursors /\ at'.step = "produce" /\ at'.status = "succeeded"
  BY <1>1, CursorMoves, SeenMoves DEF RoundsInv
<1>3. work' \in Works
  BY <1>1 DEF Works
<1>4. /\ HeldRuns' /\ PendingStands' /\ GateStands' /\ AdvancedStands' /\ Minted'
      /\ HistorySound' /\ Unjudged' /\ OwedStands' /\ AloneRecorded' /\ RoomLeft'
  BY CursorMoves DEF RoundsInv, HeldRuns, Reviewed, SubmitPlain, Producing,
     PendingStands, GateStands, NearReview, AdvancedStands, Minted, HistorySound,
     Unjudged, OwedStands, AloneRecorded, RoomLeft
<1>5. Shapes'
  BY <1>2, <1>3 DEF RoundsInv, Shapes, TypeOK, Cursors, SubmitPlain
<1>6. WorkExists'
  BY <1>3 DEF WorkExists
<1>7. HopsCounted'
  BY <1>1, <1>2 DEF RoundsInv, HopsCounted, SubmitPlain, Distance
<1> QED
  BY <1>4, <1>5, <1>6, <1>7 DEF RoundsInv

LEMMA SubmitMinorStep ==
  ASSUME RoundsInv, NEW subject \in Subjects, SubmitMinor(subject) PROVE RoundsInv'
<1>1. /\ work' = [id |-> subject, from |-> [by |-> "minor", on |-> work.id, cycle |-> TRUE]]
      /\ at' = Cursor("produce", "succeeded")
      /\ seen' = [seen EXCEPT !.hops = Distance(subject)]
  BY DEF SubmitMinor
<1>2. /\ seen' \in Seens /\ seen'.hops = Distance(subject)
      /\ at' \in Cursors /\ at'.step = "produce" /\ at'.status = "succeeded"
  BY <1>1, CursorMoves, SeenMoves DEF RoundsInv
<1>3. work' \in Works
  BY <1>1 DEF RoundsInv, Shapes, Works, SubmitMinor, RetainedEditorial
<1>4. /\ HeldRuns' /\ PendingStands' /\ GateStands' /\ AdvancedStands' /\ Minted'
      /\ HistorySound' /\ Unjudged' /\ OwedStands' /\ AloneRecorded' /\ RoomLeft'
  BY CursorMoves DEF RoundsInv, HeldRuns, Reviewed, SubmitMinor, Producing,
     PendingStands, GateStands, NearReview, AdvancedStands, Minted, HistorySound,
     Unjudged, OwedStands, AloneRecorded, RoomLeft
<1>5. Shapes'
  <2>1. ruled' \subseteq Subjects
    BY <1>3 DEF RoundsInv, Shapes, TypeOK, Works, SubmitMinor, Settle
  <2> QED
    BY <1>2, <1>3, <2>1 DEF RoundsInv, Shapes, TypeOK, Cursors, SubmitMinor
<1>6. WorkExists'
  BY <1>3 DEF WorkExists
<1>7. HopsCounted'
  <2>1. work \in Works /\ review # None /\ work.id = review.on /\ subject # work.id
    BY DEF RoundsInv, Shapes, SubmitMinor, RetainedEditorial
  <2>2. seen.hops = 0
    BY <2>1 DEF RoundsInv, HopsCounted
  <2>3. work'.id = subject /\ UNCHANGED review
    BY <1>1 DEF SubmitMinor
  <2> QED
    BY <1>2, <2>1, <2>2, <2>3 DEF HopsCounted, Distance
<1> QED
  BY <1>4, <1>5, <1>6, <1>7 DEF RoundsInv

LEMMA SubmitSimpleStep ==
  ASSUME RoundsInv, NEW subject \in Subjects, SubmitSimple(subject) PROVE RoundsInv'
<1>1. /\ work' = [id |-> subject, from |-> [by |-> "simple", on |-> pending.on, cycle |-> pending.cycle]]
      /\ at' = Cursor("produce", "succeeded")
      /\ seen' = [seen EXCEPT !.hops = Distance(subject)]
  BY DEF SubmitSimple
<1>2. /\ seen' \in Seens /\ seen'.hops = Distance(subject)
      /\ at' \in Cursors /\ at'.step = "produce" /\ at'.status = "succeeded"
  BY <1>1, CursorMoves, SeenMoves DEF RoundsInv
<1>3. work' \in Works
  BY <1>1 DEF RoundsInv, Shapes, Works, Pendings, SubmitSimple, Answers
<1>4. /\ HeldRuns' /\ PendingStands' /\ GateStands' /\ AdvancedStands' /\ Minted'
      /\ HistorySound' /\ Unjudged' /\ OwedStands' /\ AloneRecorded' /\ RoomLeft'
  BY CursorMoves DEF RoundsInv, HeldRuns, Reviewed, SubmitSimple, Answers, Producing,
     PendingStands, GateStands, NearReview, AdvancedStands, Minted, HistorySound,
     Unjudged, OwedStands, AloneRecorded, RoomLeft
<1>5. Shapes'
  BY <1>2, <1>3 DEF RoundsInv, Shapes, TypeOK, Cursors, SubmitSimple
<1>6. WorkExists'
  BY <1>3 DEF WorkExists
<1>7. HopsCounted'
  <2>1. work \in Works /\ pending # None /\ pending.on = work.id /\ subject # work.id
    BY DEF RoundsInv, WorkExists, PendingStands, SubmitSimple, Answers
  <2>2. review # None /\ review.on = work.id => seen.hops = 0
    BY <2>1 DEF RoundsInv, HopsCounted
  <2>3. work'.id = subject /\ work'.from.on = work.id /\ UNCHANGED review
    BY <1>1, <2>1 DEF SubmitSimple
  <2> QED
    BY <1>2, <2>1, <2>2, <2>3 DEF HopsCounted, Distance
<1> QED
  BY <1>4, <1>5, <1>6, <1>7 DEF RoundsInv

LEMMA SubmitSignificantStep ==
  ASSUME RoundsInv, NEW subject \in Subjects, SubmitSignificant(subject) PROVE RoundsInv'
<1>1. /\ seen \in Seens /\ Distance(subject) \in Nat
      /\ seen' = [seen EXCEPT !.hops = Distance(subject), !.rounds = {}, !.owed = FALSE]
  BY SeenMoves DEF RoundsInv, Shapes, SubmitSignificant
<1>2. /\ seen' \in Seens /\ seen'.rounds = {} /\ seen'.owed = FALSE
      /\ seen'.minted = seen.minted /\ seen'.alone = seen.alone
  BY <1>1 DEF Seens
<1>3. work' \in Works
  BY DEF SubmitSignificant, Works
<1>4. /\ HeldRuns' /\ PendingStands' /\ HopsCounted' /\ GateStands' /\ AdvancedStands'
      /\ HistorySound' /\ Unjudged' /\ OwedStands' /\ RoomLeft'
  BY DEF RoundsInv, HeldRuns, Reviewed, SubmitSignificant, Answers, Producing,
     PendingStands, HopsCounted, GateStands, NearReview, AdvancedStands, HistorySound,
     Unjudged, OwedStands, RoomLeft
<1>5. Shapes'
  <2>1. at' \in Cursors
    BY DEF SubmitSignificant, Cursors
  <2> QED
    BY <1>2, <1>3, <2>1 DEF RoundsInv, Shapes, TypeOK, Cursors, SubmitSignificant
<1>6. WorkExists'
  BY <1>3 DEF WorkExists
<1>7. Minted'
  BY <1>2, FS_EmptySet DEF RoundsInv, Minted, SubmitSignificant
<1>8. AloneRecorded'
  <2>1. seen.alone = 0
    BY DEF RoundsInv, PendingStands, SubmitSignificant, Answers
  <2> QED
    BY <1>2, <2>1 DEF RoundsInv, Shapes, Seens, AloneRecorded, SubmitSignificant
<1> QED
  BY <1>4, <1>5, <1>6, <1>7, <1>8 DEF RoundsInv

LEMMA FailStep ==
  ASSUME RoundsInv, Fail PROVE RoundsInv'
<1>1. /\ at' = Cursor("produce", "failed") /\ spent' = [spent EXCEPT !.failures = @ + 1]
  BY DEF Fail
<1>2. /\ at' \in Cursors /\ at'.step = "produce" /\ at'.status = "failed" /\ at'.attempt = at.attempt
      /\ spent' \in Spents /\ spent'.minors = spent.minors
  BY <1>1, CursorMoves, SpentMoves DEF RoundsInv
<1>3. /\ WorkExists' /\ HeldRuns' /\ PendingStands' /\ HopsCounted' /\ GateStands'
      /\ AdvancedStands' /\ Minted' /\ HistorySound' /\ Unjudged' /\ OwedStands'
      /\ AloneRecorded' /\ RoomLeft'
  BY CursorMoves DEF RoundsInv, WorkExists, Fail, Producing, HeldRuns, Reviewed,
     PendingStands, HopsCounted, GateStands, NearReview, AdvancedStands, Minted,
     HistorySound, Unjudged, OwedStands, AloneRecorded, RoomLeft
<1>4. Shapes'
  BY <1>2 DEF RoundsInv, Shapes, TypeOK, Cursors, Fail
<1> QED
  BY <1>3, <1>4 DEF RoundsInv

LEMMA RetryStep ==
  ASSUME RoundsInv, Retry PROVE RoundsInv'
<1>1. /\ WorkExists' /\ HeldRuns' /\ PendingStands' /\ HopsCounted' /\ GateStands'
      /\ AdvancedStands' /\ Minted' /\ HistorySound' /\ Unjudged' /\ OwedStands'
      /\ RoomLeft'
  BY DEF RoundsInv, WorkExists, Retry, HeldRuns, Reviewed, PendingStands, HopsCounted,
     GateStands, NearReview, AdvancedStands, Minted, HistorySound, Unjudged, OwedStands,
     RoomLeft
<1>2. Shapes'
  BY DEF RoundsInv, Shapes, Retry, TypeOK, Seens, Spents
<1>3. AloneRecorded'
  <2>1. /\ at'.step = "produce" /\ at'.attempt = at.attempt + 1 /\ at.attempt \in Nat
        /\ at.step = "produce" /\ UNCHANGED <<triage, seen>>
    BY DEF RoundsInv, Shapes, TypeOK, Retry
  <2>2. triage # None => \A r \in triage.history : r.attempt \in Nat
    BY DEF RoundsInv, Shapes, Triages, Rounds
  <2> QED
    BY <2>1, <2>2 DEF RoundsInv, AloneRecorded, Reviewed
<1> QED
  BY <1>1, <1>2, <1>3 DEF RoundsInv

LEMMA EnterReviewStep ==
  ASSUME RoundsInv, EnterReview PROVE RoundsInv'
<1>1. /\ WorkExists' /\ HeldRuns' /\ PendingStands' /\ HopsCounted' /\ GateStands'
      /\ AdvancedStands' /\ Minted' /\ HistorySound' /\ Unjudged' /\ OwedStands'
      /\ AloneRecorded' /\ RoomLeft'
  BY CursorMoves DEF RoundsInv, WorkExists, EnterReview, Needs, Assessed, HeldRuns,
     Reviewed, PendingStands, HopsCounted, GateStands, NearReview, AdvancedStands,
     Minted, HistorySound, Unjudged, OwedStands, AloneRecorded, RoomLeft
<1>2. Shapes'
  <2>1. at' \in Cursors
    BY CursorMoves DEF RoundsInv, EnterReview
  <2> QED
    BY <2>1 DEF RoundsInv, Shapes, TypeOK, Cursors, EnterReview
<1> QED
  BY <1>1, <1>2 DEF RoundsInv

LEMMA InterruptStep ==
  ASSUME RoundsInv, Interrupt PROVE RoundsInv'
<1>1. /\ WorkExists' /\ HeldRuns' /\ PendingStands' /\ HopsCounted' /\ GateStands'
      /\ AdvancedStands' /\ Minted' /\ HistorySound' /\ Unjudged' /\ OwedStands'
      /\ AloneRecorded' /\ RoomLeft'
  BY DEF RoundsInv, WorkExists, Interrupt, HeldRuns, Reviewed, PendingStands,
     HopsCounted, GateStands, NearReview, AdvancedStands, Minted, HistorySound,
     Unjudged, OwedStands, AloneRecorded, RoomLeft
<1>2. Shapes'
  <2>1. spent' \in Spents
    BY SpentMoves DEF RoundsInv, Interrupt
  <2> QED
    BY <2>1 DEF RoundsInv, Shapes, TypeOK, Interrupt
<1> QED
  BY <1>1, <1>2 DEF RoundsInv

LEMMA ReviewStep ==
  ASSUME RoundsInv, NEW outcome \in SUBSET Findings, Review(outcome) PROVE RoundsInv'
<1>1. /\ at' = Cursor("counter_review", "succeeded")
      /\ review' = [id |-> seen.minted + 1, on |-> work.id, style |-> "report",
                    attempt |-> at.attempt, outcome |-> outcome]
      /\ seen' = [minted |-> seen.minted + 1, rounds |-> seen.rounds \union {seen.minted + 1},
                  alone |-> seen.alone + 1, owed |-> FALSE, hops |-> 0]
      /\ seen \in Seens /\ at \in Cursors
      /\ UNCHANGED <<work, triage, passes, asked, spent, gate, done>>
  BY DEF RoundsInv, Shapes, TypeOK, Cursors, Review
<1>2. /\ at' \in Cursors /\ at'.attempt = at.attempt
      /\ at'.step = "counter_review" /\ at'.status = "succeeded"
  BY <1>1, CursorMoves DEF RoundsInv
<1>3. /\ seen' \in Seens /\ seen'.minted = seen.minted + 1 /\ seen'.alone = seen.alone + 1
      /\ seen'.rounds = seen.rounds \union {seen.minted + 1}
      /\ seen.minted \in Nat /\ seen.alone \in Nat
  BY <1>1 DEF Seens
<1>4. /\ at.step = "counter_review" /\ at.status = "running"
      /\ done = "no" /\ gate = None /\ asked = None /\ work \in Works
  BY DEF RoundsInv, HeldRuns, WorkExists, Review, Needs, Assessed
<1>5. triage # None =>
        /\ triage.review = seen.minted
        /\ \A r \in triage.history : r.attempt \in Nat /\ r.review \in Nat
  BY <1>4 DEF RoundsInv, AloneRecorded, Reviewed, Shapes, Triages, Rounds
<1>6. /\ WorkExists' /\ HeldRuns' /\ PendingStands' /\ HopsCounted' /\ HistorySound'
      /\ OwedStands'
  BY CursorMoves DEF RoundsInv, WorkExists, Review, Needs, Assessed, HeldRuns, Reviewed,
     PendingStands, HopsCounted, HistorySound, OwedStands
<1>7. Shapes'
  <2>1. review' \in Reviews
    BY <1>1, <1>3, <1>4 DEF Reviews, Works, Cursors
  <2> QED
    BY <1>1, <1>2, <1>3, <2>1 DEF RoundsInv, Shapes, TypeOK, Cursors, Review
<1>8. GateStands'
  BY <1>1, <1>4 DEF GateStands
<1>9. AdvancedStands'
  BY <1>1, <1>4 DEF AdvancedStands
<1>10. Minted'
  <2>1. IsFiniteSet(seen'.rounds)
    BY <1>3, FS_AddElement DEF RoundsInv, Minted
  <2>2. \A p \in passes : p.review \in Nat
    BY DEF RoundsInv, Shapes, TypeOK
  <2> QED
    BY <1>1, <1>3, <2>1, <2>2 DEF RoundsInv, Minted, Seens
<1>11. Unjudged'
  <2>1. \A p \in passes : p.review \in Nat /\ p.review <= seen.minted
    BY DEF RoundsInv, Shapes, TypeOK, Minted
  <2> QED
    BY <1>1, <1>3, <1>5, <2>1 DEF Unjudged
<1>12. AloneRecorded'
  BY <1>1, <1>2, <1>3, <1>4, <1>5 DEF RoundsInv, AloneRecorded, Reviewed, Cursors
<1>13. RoomLeft'
  <2>1. seen.alone <= Maximum + spent.minors
    BY <1>4 DEF RoundsInv, RoomLeft, Reviewed
  <2>2. triage # None => triage.review # seen'.minted
    BY <1>3, <1>5
  <2>3. spent.minors \in Nat /\ Maximum \in Nat
    BY RoundsAssumption DEF RoundsInv, Shapes, Spents
  <2> QED
    BY <1>1, <1>2, <1>3, <1>4, <2>1, <2>2, <2>3 DEF RoomLeft, Reviewed
<1> QED
  BY <1>6, <1>7, <1>8, <1>9, <1>10, <1>11, <1>12, <1>13 DEF RoundsInv

LEMMA TriageStep ==
  ASSUME RoundsInv, NEW marks \in SUBSET Marks, Triage(marks) PROVE RoundsInv'
<1>1. /\ at' = Cursor("triage", "succeeded")
      /\ triage' = [on |-> work.id, review |-> review.id, marks |-> marks, history |-> History]
      /\ seen' = [seen EXCEPT !.owed = "accepted" \in marks]
      /\ at.step = "counter_review" /\ at.status = "succeeded"
      /\ asked = None /\ ~held /\ UNCHANGED <<work, review, passes, asked, held, gate>>
  BY DEF Triage, Needs, Assessed
<1>2. /\ at' \in Cursors /\ at \in Cursors /\ at'.attempt = at.attempt
      /\ at'.step = "triage" /\ at'.status = "succeeded"
  BY <1>1, CursorMoves DEF RoundsInv, Shapes, TypeOK, Cursors
<1>3. /\ seen' \in Seens /\ seen'.minted = seen.minted /\ seen'.alone = seen.alone
      /\ seen'.rounds = seen.rounds /\ seen.minted \in Nat /\ seen.alone \in Nat
  <2>1. PICK owed : owed = ("accepted" \in marks) /\ owed \in BOOLEAN
    <3>1. ("accepted" \in marks) \in BOOLEAN
      OBVIOUS
    <3> QED
      BY <3>1, Zenon
  <2>2. seen \in Seens /\ owed \in BOOLEAN /\ seen' = [seen EXCEPT !.owed = owed]
    BY <1>1, <2>1 DEF RoundsInv, Shapes
  <2> QED
    BY <2>2 DEF Seens
<1>4. /\ review # None /\ review \in Reviews /\ review.id = seen.minted /\ work \in Works
  BY <1>1, Assesses DEF RoundsInv, Shapes, Minted, WorkExists, Triage, Needs, ReviewCurrent
<1>5. /\ triage'.review = seen.minted /\ triage'.marks = marks /\ triage'.history = History
  BY <1>1, <1>4
<1>6. /\ spent' \in Spents /\ spent.minors \in Nat
      /\ spent'.minors = IF "editorial" \in marks THEN spent.minors + 1 ELSE spent.minors
  <2>1. spent \in Spents
    BY DEF RoundsInv, Shapes
  <2>2. CASE "editorial" \in marks
    BY <2>1, <2>2, SpentMoves DEF RoundsInv, Triage, Spents
  <2>3. CASE "editorial" \notin marks
    BY <2>1, <2>3 DEF Triage, Spents
  <2> QED
    BY <2>2, <2>3
<1>7. /\ History \in SUBSET Rounds
      /\ \A r \in Past : r \in Rounds /\ r.review < seen.minted /\ r.review \in seen.rounds
                         /\ r.attempt <= at.attempt
      /\ seen.alone >= 2 => \A r \in Past : r.attempt < at.attempt
      /\ NewRound = [attempt |-> at.attempt, review |-> seen.minted] /\ NewRound \in Rounds
  <2>1. NewRound = [attempt |-> at.attempt, review |-> seen.minted] /\ NewRound \in Rounds
    BY <1>2, <1>3, <1>4 DEF NewRound, Rounds, Cursors
  <2>2. CASE triage = None
    BY <2>1, <2>2, HistoryIs DEF Past
  <2>3. CASE triage # None
    <3>1. triage \in Triages /\ Past = triage.history
      BY <2>3 DEF RoundsInv, Shapes, Past
    <3>2. triage.review + 1 = seen.minted /\ triage.review \in Nat
      BY <1>1, <2>3, <3>1 DEF RoundsInv, Unjudged, Reviewed, Triages
    <3>3. \A r \in Past : r \in Rounds /\ r.review \in Nat
      BY <3>1 DEF Triages, Rounds
    <3>4. \A r \in Past : r.review <= triage.review /\ r.review \in seen.rounds
      BY <2>3, <3>1 DEF RoundsInv, HistorySound
    <3>5. /\ \A r \in Past : r.attempt <= at.attempt
          /\ seen.alone >= 2 => \A r \in Past : r.attempt < at.attempt
      BY <1>1, <2>3, <3>1 DEF RoundsInv, AloneRecorded, Reviewed
    <3> QED
      BY <1>3, <2>1, <3>2, <3>3, <3>4, <3>5, HistoryIs
  <2> QED
    BY <2>2, <2>3
<1>8. /\ WorkExists' /\ HeldRuns' /\ PendingStands' /\ HopsCounted' /\ GateStands'
      /\ AdvancedStands' /\ Minted' /\ Unjudged'
  BY CursorMoves DEF RoundsInv, WorkExists, Triage, Needs, Assessed, HeldRuns, Reviewed,
     PendingStands, HopsCounted, GateStands, NearReview, AdvancedStands, Minted,
     Unjudged
<1>9. Shapes'
  <2>1. triage' \in Triages
    BY <1>1, <1>4, <1>7 DEF Triages, Works, Reviews
  <2>2. ruled' \subseteq Subjects
    BY <1>1, <1>4 DEF RoundsInv, Shapes, TypeOK, Works, Triage, Settle
  <2> QED
    BY <1>2, <1>3, <1>6, <2>1, <2>2 DEF RoundsInv, Shapes, TypeOK, Cursors, Triage
<1>10. HistorySound'
  <2>1. seen.minted \in seen.rounds
    BY <1>4 DEF RoundsInv, Minted
  <2>2. \A r, q \in Past : r.review = q.review => r = q
    BY DEF RoundsInv, HistorySound, Past
  <2>3. \A r, q \in Past \cup {NewRound} : r.review = q.review => r = q
    BY <1>3, <1>7, <2>2 DEF Rounds
  <2>4. \A r \in Past \cup {NewRound} : r.review \in seen.rounds /\ r.review <= seen.minted
    BY <1>3, <1>7, <2>1 DEF Rounds
  <2> QED
    BY <1>3, <1>5, <2>1, <2>3, <2>4, HistoryIs DEF HistorySound
<1>11. OwedStands'
  BY CursorMoves DEF RoundsInv, OwedStands, Triage, Needs, Assessed, Shapes, TypeOK,
     Seens, Spents, WorkExists, HeldRuns, PendingStands, GateStands, Unjudged, Reviewed
<1>12. AloneRecorded'
  <2>1. ASSUME NEW i \in Nat, seen.minted + 2 <= i + seen.alone, i <= seen.minted
        PROVE  \E r \in History : r.review = i
    <3>1. seen.alone >= 2
      BY <1>3, <2>1
    <3>2. NewRound \in History /\ Past \subseteq History
      <4>1. \A r, q \in Past : r.attempt = q.attempt => r = q
        BY DEF RoundsInv, HistorySound, Past
      <4>2. \A r \in Past : r.attempt \in Nat /\ at.attempt \in Nat /\ r.attempt < at.attempt
        BY <1>2, <1>7, <3>1 DEF Rounds, Cursors
      <4>3. \A r, q \in Past \cup {NewRound} : r.attempt = q.attempt => r = q
        BY <1>7, <4>1, <4>2
      <4> QED
        BY <4>3, HistoryIs
    <3>3. CASE i = seen.minted
      BY <1>7, <3>2, <3>3
    <3>4. CASE i # seen.minted
      <4>1. seen.alone >= 3
        BY <1>3, <2>1, <3>4
      <4>2. triage # None
        BY <1>1, <1>3, <4>1 DEF RoundsInv, AloneRecorded
      <4>3. i <= triage.review
        BY <1>1, <1>3, <2>1, <3>4, <4>2 DEF RoundsInv, Unjudged, Reviewed, Shapes, Triages
      <4>4. \E r \in Past : r.review = i
        BY <2>1, <4>2, <4>3 DEF RoundsInv, AloneRecorded, Past
      <4> QED
        BY <3>2, <4>4
    <3> QED
      BY <3>3, <3>4
  <2>2. \A r \in History : r.attempt <= at.attempt
    BY <1>2, <1>7, HistoryIs DEF Cursors
  <2>3. seen.alone <= seen.minted
    BY DEF RoundsInv, AloneRecorded
  <2> QED
    BY <1>2, <1>3, <1>5, <2>1, <2>2, <2>3 DEF AloneRecorded, Reviewed
<1>13. RoomLeft'
  <2>1. seen.alone <= Maximum + 1 + spent.minors /\ Maximum \in Nat
    BY RoundsAssumption DEF RoundsInv, RoomLeft
  <2> QED
    BY <1>1, <1>2, <1>3, <1>5, <1>6, <2>1 DEF RoomLeft, Reviewed
<1> QED
  BY <1>8, <1>9, <1>10, <1>11, <1>12, <1>13 DEF RoundsInv

LEMMA OpenGateStep ==
  ASSUME RoundsInv, OpenGate PROVE RoundsInv'
<1>1. /\ TriageCurrent /\ ReviewCurrent /\ Assessed
      /\ UNCHANGED <<at, work, review, seen, asked, held>>
  BY Assesses DEF OpenGate, Exhausted
<1>2. work \in Works /\ review \in Reviews /\ review # None
  BY <1>1 DEF RoundsInv, Shapes, WorkExists, Assessed, ReviewCurrent
<1>3. PICK k \in {"approval", "exhausted"}, push \in BOOLEAN :
        /\ gate' = [kind |-> k, on |-> work.id, review |-> review.id, pushable |-> push]
        /\ push => Pushable
  <2>1. Pushable \in BOOLEAN
    BY DEF Pushable
  <2> QED
    BY <2>1 DEF OpenGate
<1>4. /\ WorkExists' /\ HeldRuns' /\ PendingStands' /\ HopsCounted' /\ AdvancedStands'
      /\ Minted' /\ HistorySound' /\ Unjudged' /\ OwedStands' /\ AloneRecorded'
      /\ RoomLeft'
  BY DEF RoundsInv, WorkExists, OpenGate, Assessed, HeldRuns, Reviewed, PendingStands,
     HopsCounted, AdvancedStands, NearReview, Minted, HistorySound, Unjudged,
     OwedStands, AloneRecorded, RoomLeft
<1>5. Shapes'
  <2>1. gate' \in Gates
    BY <1>2, <1>3 DEF Gates, Works, Reviews
  <2> QED
    BY <2>1 DEF RoundsInv, Shapes, TypeOK, OpenGate
<1>6. GateStands'
  <2>1. NearReview
    BY <1>1, <1>2, CurrentIsNear DEF RoundsInv
  <2>2. NearReview'
    BY <1>1, <2>1 DEF NearReview
  <2>3. /\ gate'.on = work.id /\ gate'.review = review.id
        /\ gate'.pushable => Pushable
    BY <1>3
  <2>4. Pushable => at.step = "triage" /\ Cardinality(seen.rounds) >= 2
    <3>1. triage # None
      BY <1>1 DEF TriageCurrent
    <3> QED
      BY <3>1, HistoryBelow DEF RoundsInv, Pushable
  <2>5. asked = None
    BY <1>1 DEF Assessed
  <2>6. ~Reviewed("succeeded")
    BY <1>1 DEF RoundsInv, Unjudged, Minted, TriageCurrent, ReviewCurrent, Shapes, Seens
  <2> QED
    BY <1>1, <1>2, <2>2, <2>3, <2>4, <2>5, <2>6 DEF GateStands, Reviewed
<1> QED
  BY <1>4, <1>5, <1>6 DEF RoundsInv

LEMMA ApproveStep ==
  ASSUME RoundsInv, Approve PROVE RoundsInv'
<1>1. /\ spent' \in Spents /\ spent'.minors = spent.minors
  BY SpentMoves DEF RoundsInv, Approve, Decides
<1>2. /\ seen' \in Seens /\ seen'.alone = 0 /\ seen'.minted = seen.minted
      /\ seen'.rounds = seen.rounds /\ seen'.hops = seen.hops /\ seen'.owed = seen.owed
  BY DEF RoundsInv, Shapes, Seens, Approve
<1>3. /\ gate # None /\ gate \in Gates /\ work \in Works /\ asked = None /\ ~held
      /\ gate.on = work.id /\ review # None /\ review \in Reviews /\ gate.review = review.id
      /\ ~Reviewed("succeeded")
  BY DEF RoundsInv, Shapes, WorkExists, GateStands, HeldRuns, Approve, Decides
<1>4. /\ WorkExists' /\ HeldRuns' /\ PendingStands' /\ HopsCounted' /\ GateStands'
      /\ AdvancedStands' /\ Minted' /\ HistorySound' /\ Unjudged' /\ OwedStands'
  BY DEF RoundsInv, WorkExists, Approve, Decides, HeldRuns, Reviewed, PendingStands,
     HopsCounted, GateStands, NearReview, AdvancedStands, Minted, HistorySound,
     Unjudged, OwedStands
<1>5. Shapes'
  BY <1>1, <1>2, <1>3 DEF RoundsInv, Shapes, TypeOK, Works, Reviews, Approve, Decides
<1>6. AloneRecorded'
  BY DEF RoundsInv, AloneRecorded, Reviewed, Approve, Decides, Shapes, TypeOK, Seens,
     Spents
<1>7. RoomLeft'
  <2>1. spent.minors \in Nat /\ Maximum \in Nat
    BY RoundsAssumption DEF RoundsInv, Shapes, Spents
  <2> QED
    BY <1>1, <1>2, <1>3, <2>1 DEF RoundsInv, RoomLeft, Reviewed, Approve
<1> QED
  BY <1>4, <1>5, <1>6, <1>7 DEF RoundsInv

LEMMA AskRevisionStep ==
  ASSUME RoundsInv, AskRevision PROVE RoundsInv'
<1>1. /\ spent' \in Spents /\ spent'.minors = spent.minors
  BY SpentMoves DEF RoundsInv, AskRevision, Decides
<1>2. /\ seen' \in Seens /\ seen'.alone = 0 /\ seen'.minted = seen.minted
      /\ seen'.rounds = seen.rounds /\ seen'.hops = seen.hops /\ seen'.owed = seen.owed
  BY DEF RoundsInv, Shapes, Seens, AskRevision
<1>3. /\ gate # None /\ gate \in Gates /\ work \in Works /\ asked = None /\ ~held
      /\ gate.on = work.id /\ review # None /\ review \in Reviews /\ gate.review = review.id
      /\ ~Reviewed("succeeded")
  BY DEF RoundsInv, Shapes, WorkExists, GateStands, HeldRuns, AskRevision, Decides
<1>4. /\ WorkExists' /\ HeldRuns' /\ PendingStands' /\ HopsCounted' /\ GateStands'
      /\ AdvancedStands' /\ Minted' /\ HistorySound' /\ Unjudged' /\ OwedStands'
  BY DEF RoundsInv, WorkExists, AskRevision, Decides, HeldRuns, Reviewed, PendingStands,
     HopsCounted, GateStands, NearReview, AdvancedStands, Minted, HistorySound,
     Unjudged, OwedStands
<1>5. Shapes'
  BY <1>1, <1>2, <1>3 DEF RoundsInv, Shapes, TypeOK, Works, Reviews, AskRevision, Decides
<1>6. AloneRecorded'
  BY DEF RoundsInv, AloneRecorded, Reviewed, AskRevision, Decides, Shapes, TypeOK,
     Seens, Spents
<1>7. RoomLeft'
  <2>1. spent.minors \in Nat /\ Maximum \in Nat
    BY RoundsAssumption DEF RoundsInv, Shapes, Spents
  <2> QED
    BY <1>1, <1>2, <1>3, <2>1 DEF RoundsInv, RoomLeft, Reviewed, AskRevision
<1> QED
  BY <1>4, <1>5, <1>6, <1>7 DEF RoundsInv

LEMMA RetryOnceStep ==
  ASSUME RoundsInv, RetryOnce PROVE RoundsInv'
<1>1. /\ spent' \in Spents /\ spent'.minors = spent.minors
  BY SpentMoves DEF RoundsInv, RetryOnce, Decides
<1>2. /\ seen' \in Seens /\ seen'.alone = 0 /\ seen'.minted = seen.minted
      /\ seen'.rounds = seen.rounds /\ seen'.hops = seen.hops /\ seen'.owed = seen.owed
  BY DEF RoundsInv, Shapes, Seens, RetryOnce
<1>3. /\ gate # None /\ gate \in Gates /\ work \in Works /\ asked = None /\ ~held
      /\ gate.on = work.id /\ review # None /\ review \in Reviews /\ gate.review = review.id
      /\ ~Reviewed("succeeded")
  BY DEF RoundsInv, Shapes, WorkExists, GateStands, HeldRuns, RetryOnce, Decides
<1>4. /\ WorkExists' /\ HeldRuns' /\ PendingStands' /\ HopsCounted' /\ GateStands'
      /\ AdvancedStands' /\ Minted' /\ HistorySound' /\ Unjudged' /\ OwedStands'
  BY DEF RoundsInv, WorkExists, RetryOnce, Decides, HeldRuns, Reviewed, PendingStands,
     HopsCounted, GateStands, NearReview, AdvancedStands, Minted, HistorySound,
     Unjudged, OwedStands
<1>5. Shapes'
  BY <1>1, <1>2, <1>3 DEF RoundsInv, Shapes, TypeOK, Works, Reviews, RetryOnce, Decides
<1>6. AloneRecorded'
  BY DEF RoundsInv, AloneRecorded, Reviewed, RetryOnce, Decides, Shapes, TypeOK, Seens,
     Spents
<1>7. RoomLeft'
  <2>1. spent.minors \in Nat /\ Maximum \in Nat
    BY RoundsAssumption DEF RoundsInv, Shapes, Spents
  <2> QED
    BY <1>1, <1>2, <1>3, <2>1 DEF RoundsInv, RoomLeft, Reviewed, RetryOnce
<1> QED
  BY <1>4, <1>5, <1>6, <1>7 DEF RoundsInv

LEMMA PushThroughStep ==
  ASSUME RoundsInv, PushThrough PROVE RoundsInv'
<1>1. /\ spent' \in Spents /\ spent'.minors = spent.minors
  BY SpentMoves DEF RoundsInv, PushThrough, Decides
<1>2. /\ seen' \in Seens /\ seen'.alone = 0 /\ seen'.minted = seen.minted
      /\ seen'.rounds = seen.rounds /\ seen'.hops = seen.hops /\ seen'.owed = FALSE
  BY DEF RoundsInv, Shapes, Seens, PushThrough
<1>3. /\ gate # None /\ gate \in Gates /\ work \in Works /\ asked = None /\ ~held
      /\ gate.on = work.id /\ review # None /\ review \in Reviews /\ gate.review = review.id
      /\ ~Reviewed("succeeded")
  BY DEF RoundsInv, Shapes, WorkExists, GateStands, HeldRuns, PushThrough, Decides
<1>4. /\ WorkExists' /\ HeldRuns' /\ PendingStands' /\ HopsCounted' /\ GateStands'
      /\ AdvancedStands' /\ HistorySound' /\ OwedStands'
  BY DEF RoundsInv, WorkExists, PushThrough, Decides, HeldRuns, Reviewed, PendingStands,
     HopsCounted, GateStands, NearReview, AdvancedStands, HistorySound, OwedStands
<1>5. Shapes'
  <2>1. ruled' \subseteq Subjects
    BY <1>3 DEF RoundsInv, Shapes, TypeOK, Works, PushThrough, Settle
  <2>2. passes' \subseteq [attempt : Nat, on : Subjects, review : Nat]
    BY <1>3 DEF RoundsInv, Shapes, TypeOK, Works, Reviews, PushThrough
  <2> QED
    BY <1>1, <1>2, <2>1, <2>2 DEF RoundsInv, Shapes, TypeOK, PushThrough, Decides
<1>6. Minted'
  <2>1. \A p \in passes' : p \in passes \/ p.review = review.id
    BY <1>3 DEF PushThrough
  <2> QED
    BY <1>2, <1>3, <2>1 DEF RoundsInv, Minted, PushThrough, Shapes, Reviews
<1>7. Unjudged'
  <2>1. at.step = "triage" /\ UNCHANGED at
    BY DEF RoundsInv, GateStands, PushThrough, Decides
  <2> QED
    BY <2>1 DEF Unjudged, Reviewed
<1>8. AloneRecorded'
  BY DEF RoundsInv, AloneRecorded, Reviewed, PushThrough, Decides, Shapes, TypeOK,
     Seens, Spents
<1>9. RoomLeft'
  <2>1. spent.minors \in Nat /\ Maximum \in Nat
    BY RoundsAssumption DEF RoundsInv, Shapes, Spents
  <2> QED
    BY <1>1, <1>2, <1>3, <2>1 DEF RoundsInv, RoomLeft, Reviewed, PushThrough
<1> QED
  BY <1>4, <1>5, <1>6, <1>7, <1>8, <1>9 DEF RoundsInv

LEMMA WaiveStep ==
  ASSUME RoundsInv, NEW what \in Findings, Waive(what) PROVE RoundsInv'
<1>1. /\ spent' \in Spents /\ spent'.minors = spent.minors
  BY SpentMoves DEF RoundsInv, Waive, Decides
<1>2. /\ seen' \in Seens /\ seen'.alone = 0 /\ seen'.minted = seen.minted
      /\ seen'.rounds = seen.rounds /\ seen'.hops = seen.hops /\ seen'.owed = seen.owed
  BY DEF RoundsInv, Shapes, Seens, Waive
<1>3. /\ gate # None /\ gate \in Gates /\ work \in Works /\ asked = None /\ ~held
      /\ gate.on = work.id /\ review # None /\ review \in Reviews /\ gate.review = review.id
      /\ ~Reviewed("succeeded")
  BY DEF RoundsInv, Shapes, WorkExists, GateStands, HeldRuns, Waive, Decides
<1>4. /\ WorkExists' /\ HeldRuns' /\ PendingStands' /\ HopsCounted' /\ GateStands'
      /\ AdvancedStands' /\ Minted' /\ HistorySound' /\ Unjudged' /\ OwedStands'
  BY DEF RoundsInv, WorkExists, Waive, Decides, HeldRuns, Reviewed, PendingStands,
     HopsCounted, GateStands, NearReview, AdvancedStands, Minted, HistorySound,
     Unjudged, OwedStands
<1>5. Shapes'
  <2>1. ruled' \subseteq Subjects
    BY <1>3 DEF RoundsInv, Shapes, TypeOK, Works, Waive, Settle
  <2>2. waivers' \subseteq [on : Subjects, what : Findings]
    BY <1>3 DEF RoundsInv, Shapes, TypeOK, Works, Waive
  <2> QED
    BY <1>1, <1>2, <2>1, <2>2 DEF RoundsInv, Shapes, TypeOK, Waive, Decides
<1>6. AloneRecorded'
  BY DEF RoundsInv, AloneRecorded, Reviewed, Waive, Decides, Shapes, TypeOK, Seens,
     Spents
<1>7. RoomLeft'
  <2>1. spent.minors \in Nat /\ Maximum \in Nat
    BY RoundsAssumption DEF RoundsInv, Shapes, Spents
  <2> QED
    BY <1>1, <1>2, <1>3, <2>1 DEF RoundsInv, RoomLeft, Reviewed, Waive
<1> QED
  BY <1>4, <1>5, <1>6, <1>7 DEF RoundsInv

LEMMA CancelStep ==
  ASSUME RoundsInv, Cancel PROVE RoundsInv'
<1>1. /\ spent' \in Spents /\ spent'.minors = spent.minors
  BY SpentMoves DEF RoundsInv, Cancel, Decides
<1>2. /\ WorkExists' /\ HeldRuns' /\ PendingStands' /\ HopsCounted' /\ GateStands'
      /\ AdvancedStands' /\ Minted' /\ HistorySound' /\ Unjudged' /\ OwedStands'
      /\ AloneRecorded' /\ RoomLeft'
  BY DEF RoundsInv, WorkExists, Cancel, Decides, HeldRuns, Reviewed, PendingStands,
     HopsCounted, GateStands, NearReview, AdvancedStands, Minted, HistorySound,
     Unjudged, OwedStands, AloneRecorded, RoomLeft
<1>3. Shapes'
  BY <1>1 DEF RoundsInv, Shapes, TypeOK, Cancel, Decides
<1> QED
  BY <1>2, <1>3 DEF RoundsInv

LEMMA EnterRevisionStep ==
  ASSUME RoundsInv, EnterRevision PROVE RoundsInv'
<1>1. /\ at' \in Cursors /\ at'.step = "produce" /\ at'.status = "running"
      /\ at'.attempt \in {at.attempt, at.attempt + 1}
      /\ at \in Cursors
  BY DEF RoundsInv, Shapes, TypeOK, Cursors, EnterRevision
<1>2. /\ asked # None /\ asked' = None /\ gate = None /\ pending = None
      /\ seen.alone = 0 /\ ~held /\ work \in Works
      /\ UNCHANGED <<work, review, triage, gate, held, spent, seen, done>>
  BY DEF RoundsInv, WorkExists, PendingStands, GateStands, RoomLeft, EnterRevision
<1>3. /\ pending' \in {pending, [on |-> work.id, cycle |-> at.step # "produce", attempt |-> at.attempt]}
  BY DEF EnterRevision
<1>4. /\ HeldRuns' /\ HopsCounted' /\ GateStands' /\ AdvancedStands' /\ Minted'
      /\ HistorySound' /\ Unjudged' /\ OwedStands'
  BY DEF RoundsInv, HeldRuns, Reviewed, EnterRevision, HopsCounted, GateStands,
     NearReview, AdvancedStands, Minted, HistorySound, Unjudged, OwedStands
<1>5. Shapes'
  <2>1. pending' \in Pendings \cup {None}
    <3>1. PICK known \in BOOLEAN : known = (at.step # "produce")
      OBVIOUS
    <3>2. [on |-> work.id, cycle |-> known, attempt |-> at.attempt] \in Pendings
      BY <1>1, <1>2 DEF Pendings, Works, Cursors
    <3> QED
      BY <1>2, <1>3, <3>1, <3>2
  <2> QED
    BY <1>1, <2>1 DEF RoundsInv, Shapes, TypeOK, Cursors, EnterRevision
<1>6. WorkExists'
  BY <1>2 DEF WorkExists
<1>7. PendingStands'
  BY <1>1, <1>2, <1>3 DEF PendingStands
<1>8. AloneRecorded'
  <2>1. triage # None => \A r \in triage.history : r.attempt \in Nat
    BY DEF RoundsInv, Shapes, Triages, Rounds
  <2>2. triage # None => triage.review = seen.minted
    BY <1>2 DEF RoundsInv, RoomLeft, AloneRecorded, EnterRevision
  <2> QED
    BY <1>1, <1>2, <2>1, <2>2 DEF RoundsInv, AloneRecorded, Cursors, Reviewed
<1>9. RoomLeft'
  <2>1. spent.minors \in Nat /\ Maximum \in Nat
    BY RoundsAssumption DEF RoundsInv, Shapes, Spents
  <2> QED
    BY <1>2, <2>1 DEF RoomLeft
<1> QED
  BY <1>4, <1>5, <1>6, <1>7, <1>8, <1>9 DEF RoundsInv

LEMMA AdvanceStep ==
  ASSUME RoundsInv, Advance PROVE RoundsInv'
<1>1. /\ TriageCurrent /\ ReviewCurrent /\ ~Escalated /\ NextStep \in {"advance", "adjudication"}
      /\ UNCHANGED <<work, review, seen>>
  BY Assesses DEF Advance, Needs, Free
<1>2. work \in Works
  BY DEF RoundsInv, WorkExists, Advance
<1>3. /\ WorkExists' /\ HeldRuns' /\ PendingStands' /\ HopsCounted' /\ GateStands'
      /\ Minted' /\ HistorySound' /\ Unjudged' /\ OwedStands' /\ AloneRecorded'
      /\ RoomLeft'
  BY DEF RoundsInv, WorkExists, Advance, Needs, Assessed, HeldRuns, Reviewed,
     PendingStands, HopsCounted, GateStands, NearReview, Minted, HistorySound, Unjudged,
     OwedStands, AloneRecorded, RoomLeft
<1>4. Shapes'
  BY DEF RoundsInv, Shapes, Advance, Needs, Assessed, TypeOK, Seens, Spents
<1>5. AdvancedStands'
  <2>1. NearReview
    BY <1>1, <1>2, CurrentIsNear DEF RoundsInv
  <2>2. NearReview'
    BY <1>1, <2>1 DEF NearReview
  <2>3. ASSUME seen.owed PROVE FALSE
    <3>1. Marked("accepted") /\ \A p \in passes : p.review # seen.minted
      BY <2>3 DEF RoundsInv, OwedStands, Marked
    <3>2. AcceptedSettled /\ review # None /\ review.id = seen.minted
      BY <1>1, <3>1, Assesses DEF RoundsInv, Minted, ReviewCurrent
    <3>3. [attempt |-> at.attempt, on |-> work.id, review |-> review.id] \in passes
      BY <3>2 DEF AcceptedSettled
    <3> QED
      BY <3>1, <3>2, <3>3
  <2> QED
    BY <1>1, <2>2, <2>3 DEF AdvancedStands
<1> QED
  BY <1>3, <1>4, <1>5 DEF RoundsInv

-----------------------------------------------------------------------------
(* The invariant *)

LEMMA Starts == Init => RoundsInv
<1> SUFFICES ASSUME Init PROVE RoundsInv
  OBVIOUS
<1>1. /\ gate = None /\ asked = None /\ pending = None /\ passes = {} /\ held = FALSE /\ done = "no"
      /\ approvals = {} /\ waivers = {} /\ ruled = {}
      /\ spent \in Spents /\ spent.minors = 0 /\ Maximum \in Nat \ {0}
  BY RoundsAssumption DEF Init, Spents
<1>2. CASE at.step = "produce"
  <2>1. /\ at = [step |-> "produce", status |-> "running", attempt |-> 1]
        /\ work = None /\ review = None /\ triage = None
        /\ seen = [minted |-> 0, rounds |-> {}, alone |-> 0, owed |-> FALSE, hops |-> 0]
    BY <1>2 DEF Init
  <2>2. seen \in Seens /\ seen.minted = 0 /\ seen.rounds = {} /\ seen.alone = 0
        /\ seen.owed = FALSE /\ seen.hops = 0 /\ at.status = "running"
    BY <2>1 DEF Seens
  <2>4. at \in Cursors
    BY <2>1 DEF Cursors
  <2>3. Shapes
    BY <1>1, <2>1, <2>2, <2>4 DEF Shapes, TypeOK, Cursors
  <2> QED
    BY <1>1, <1>2, <2>1, <2>2, <2>3, FS_EmptySet
       DEF RoundsInv, WorkExists, HeldRuns, PendingStands, HopsCounted, GateStands, AdvancedStands,
           Minted, HistorySound, Unjudged, OwedStands, AloneRecorded, RoomLeft, Reviewed
<1>3. CASE at.step # "produce"
  <2>1. PICK old \in Subjects, new \in Subjects, outcome \in SUBSET Findings :
          /\ at = [step |-> "counter_review", status |-> "succeeded", attempt |-> 2]
          /\ work = [id |-> new, from |-> None]
          /\ review = [id |-> 2, on |-> new, style |-> "structured", attempt |-> 2,
                       outcome |-> outcome]
          /\ triage = [on |-> old, review |-> 1, marks |-> {"accepted"},
                       history |-> {[attempt |-> 1, review |-> 1]}]
          /\ seen = [minted |-> 2, rounds |-> {1, 2}, alone |-> 2, owed |-> FALSE, hops |-> 0]
    BY <1>3 DEF Init
  <2>2. /\ seen \in Seens /\ seen.minted = 2 /\ seen.rounds = {1, 2} /\ seen.alone = 2
        /\ seen.owed = FALSE /\ seen.hops = 0 /\ at.status = "succeeded" /\ at.attempt = 2
        /\ at.step = "counter_review"
    BY <2>1 DEF Seens
  <2>3. work \in Works /\ review \in Reviews
    BY <2>1 DEF Works, Reviews
  <2>4. triage \in Triages
    BY <2>1 DEF Triages, Rounds, Marks
  <2>8. at \in Cursors
    BY <2>1 DEF Cursors
  <2>5. Shapes
    BY <1>1, <2>2, <2>3, <2>4, <2>8 DEF Shapes, TypeOK, Cursors
  <2>6. IsFiniteSet({1, 2})
    <3>1. IsFiniteSet({1}) /\ {1, 2} = {1} \cup {2}
      BY FS_Singleton
    <3> QED
      BY <3>1, FS_AddElement
  <2>7. /\ triage.review = 1 /\ triage.history = {[attempt |-> 1, review |-> 1]}
        /\ review.id = 2 /\ review.on = work.id /\ work.from = None
    BY <2>1
  <2>9. Minted /\ HistorySound
    BY <1>1, <2>2, <2>6, <2>7 DEF Minted, HistorySound
  <2>10. AloneRecorded
    <3>1. \A r \in triage.history : r.attempt = 1
      BY <2>7
    <3>2. \A i \in Nat : ~(seen.minted + 2 <= i + seen.alone /\ i <= triage.review)
      BY <2>2, <2>7
    <3>3. triage # None => Reviewed("succeeded")
      BY <2>2 DEF Reviewed
    <3>4. triage = None => Reviewed("succeeded") /\ seen.alone <= 2
      BY <2>2 DEF Reviewed
    <3> QED
      BY <2>2, <3>1, <3>2, <3>3, <3>4 DEF AloneRecorded, Reviewed
  <2>11. RoomLeft /\ Unjudged /\ OwedStands
    BY <1>1, <2>2, <2>7 DEF RoomLeft, Unjudged, OwedStands, Reviewed
  <2> QED
    BY <1>1, <1>3, <2>2, <2>3, <2>5, <2>7, <2>9, <2>10, <2>11
       DEF RoundsInv, WorkExists, HeldRuns, PendingStands, HopsCounted, GateStands, AdvancedStands
<1> QED
  BY <1>2, <1>3

LEMMA Stutters == RoundsInv /\ UNCHANGED vars => RoundsInv'
BY DEF vars, state, RoundsInv, Shapes, TypeOK, WorkExists, HeldRuns, PendingStands, HopsCounted,
       GateStands, AdvancedStands, Minted, HistorySound, Unjudged, OwedStands, AloneRecorded,
       RoomLeft, Reviewed, NearReview

LEMMA Steps == RoundsInv /\ [Next]_vars => RoundsInv'
<1> SUFFICES ASSUME RoundsInv, Next PROVE RoundsInv'
  BY Stutters
<1>1. CASE Submit
  BY <1>1, SubmitPlainStep, SubmitMinorStep, SubmitSimpleStep, SubmitSignificantStep DEF Submit
<1>2. CASE Begin \/ Fail \/ Retry
  BY <1>2, BeginStep, FailStep, RetryStep
<1>3. CASE EnterReview \/ Interrupt \/ Reviewing \/ Triaging
  BY <1>3, EnterReviewStep, InterruptStep, ReviewStep, TriageStep DEF Reviewing, Triaging
<1>4. CASE OpenGate \/ EnterRevision \/ Advance
  BY <1>4, OpenGateStep, EnterRevisionStep, AdvanceStep
<1>5. CASE Human
  BY <1>5, ApproveStep, AskRevisionStep, RetryOnceStep, PushThroughStep, WaiveStep, CancelStep
     DEF Human
<1> QED
  BY <1>1, <1>2, <1>3, <1>4, <1>5 DEF Next

(* In every behaviour, for any set of bytes and any limits.                   *)
THEOREM RoundsInvariant == Spec => []RoundsInv
<1> QED
  BY Starts, Steps, PTL DEF Spec

(* The cursor, the decisions and the settlements are well formed.             *)
THEOREM RoundsTyped == Spec => []TypeOK
<1>1. RoundsInv => TypeOK
  BY DEF RoundsInv, Shapes
<1> QED
  BY <1>1, RoundsInvariant, PTL

(* However productions, corrections and failures alternate, a phase is left,  *)
(* or put to a human for approval, only with bytes a review read or bytes one *)
(* authorised correction away from them.                                      *)
THEOREM AdvancesReviewed == Spec => []AdvanceIsReviewed
<1>1. RoundsInv => AdvanceIsReviewed
  BY DEF RoundsInv, AdvancedStands, GateStands, NearReview, AdvanceIsReviewed
<1> QED
  BY <1>1, RoundsInvariant, PTL

(* No phase is left over a finding its author accepted and neither changed    *)
(* the work for nor had a human push through in exactly that round.           *)
THEOREM AnswersAccepted == Spec => []AcceptedIsAnswered
<1>1. RoundsInv => AcceptedIsAnswered
  BY DEF RoundsInv, AdvancedStands, AcceptedIsAnswered
<1> QED
  BY <1>1, RoundsInvariant, PTL

(* The completed rounds that spend the limit and open the push-through are    *)
(* never more than the reviews that happened: the attempts of the history map *)
(* one to one into them.                                                      *)
THEOREM RoundsHappened == Spec => []RoundsNeverInflated
<1>1. RoundsInv => RoundsNeverInflated
  BY CountBelow DEF RoundsInv, GateStands, RoundsNeverInflated
<1> QED
  BY <1>1, RoundsInvariant, PTL

(* Left alone, the models ask a human after at most the limit of rounds, one  *)
(* more, and one more for each minor correction called significant: every     *)
(* review since the last human decision but the first is a counted round.     *)
THEOREM LoopBounded == Spec => []LoopIsBounded
<1>1. RoundsInv => LoopIsBounded
  BY DEF RoundsInv, RoomLeft, LoopIsBounded
<1> QED
  BY <1>1, RoundsInvariant, PTL
=============================================================================
