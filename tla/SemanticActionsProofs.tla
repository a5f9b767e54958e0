------------------------ MODULE SemanticActionsProofs ------------------------
(***************************************************************************)
(* What status and apply promise a client, proved for any number of clients *)
(* and servers and any bounds: a retry resumes, an offer is legal, and the   *)
(* substeps of an operation stay together.                                  *)
(***************************************************************************)
EXTENDS SemanticActions, TLAPS

-----------------------------------------------------------------------------
(* The invariant *)

(* The position: what was reviewed is there, and only triaged work is done. *)
Positioned ==
  /\ ~MidProduce(task) => task.subject # 0
  /\ task.step # "produce" => task.status # "failed"
  /\ At("produce", "succeeded") \/ At("counter_review", "running") => task.evidence = "none"
  /\ At("counter_review", "succeeded") \/ At("triage", "running") =>
       task.evidence \in {"reports", "empty"}
  /\ At("triage", "succeeded") => task.evidence \in {"clean", "revise"}
  /\ task.done \/ task.approved =>
       At("triage", "succeeded") /\ task.evidence = "clean" /\ ~Checkpoint(task)
  /\ Checkpoint(task) => task.gate = None /\ At("triage", "succeeded")

(* A gate is open at the revision that opened it, over changed or clean work. *)
Gated ==
  task.gate # None =>
    /\ task.gate.opened = task.revision /\ ~MidProduce(task) /\ task.last.substep = "none"
    /\ task.gate.kind = "baseline" => drift # 0 /\ task.gate.version # 0
    /\ task.gate.kind = "approval" => /\ At("triage", "succeeded") /\ task.evidence = "clean"
                                      /\ ~task.done /\ ~task.approved

(* Work in progress has no subject to offer. *)
SubjectNow == IF MidProduce(task) THEN 0 ELSE task.subject

(* A token was given out for this revision or an earlier one. *)
Issued(token) ==
  /\ token \in Offers /\ token.revision <= task.revision /\ token.gate \in {0, token.revision}
  /\ token.expected = "decision" =>
       token.action = "decide" /\ ~token.archived /\ token.gate = token.revision
  /\ token.revision = task.revision => token.attempt = task.attempt /\ token.subject = SubjectNow

(* An operation names the subject and attempt it was begun for: the attempt   *)
(* stands as long as the subject does.                                       *)
Begun(op) ==
  /\ op \in Operations /\ Issued(op.token) /\ op.subject <= task.subject
  /\ op.subject = task.subject /\ ~MidProduce(task) => op.attempt = task.attempt
  /\ op.token.revision = task.revision => op.attempt = task.attempt /\ op.subject = SubjectNow

Current(op) == op.subject = task.subject /\ op.attempt = task.attempt

IsReview(op) == op.action = "review" /\ op.submission = Nothing
IsTriage(op) == op.action = "triage" /\ op.submission.kind = "triage"
IsDecision(op) ==
  /\ Begun(op) /\ op.action = "decide" /\ op.token.expected = "decision"
  /\ op.submission.kind = "decision"

Resumable == {"review-enter", "review-run", "triage-enter", "revise-enter"}

(* What the last transition says of the position, and of its operation. *)
MarkedBy(op) ==
  /\ task.last.substep \in Resumable => task.gate = None /\ Begun(op)
  /\ task.last.substep = "review-enter" =>
       At("counter_review", "running") /\ IsReview(op) /\ Current(op)
  /\ task.last.substep = "review-run" =>
       At("counter_review", "succeeded") /\ IsReview(op) /\ Current(op)
  /\ task.last.substep = "triage-enter" =>
       /\ At("triage", "running")
       /\ \/ IsReview(op) /\ (op.subject = task.subject => task.evidence = "empty")
          \/ IsTriage(op) /\ Current(op) /\ task.evidence = "reports"
  /\ task.last.substep = "revise-enter" => op.subject # 0

Marked == \A op \in {task.last.op} : MarkedBy(op)

Archived ==
  archive # None =>
    /\ task.gate # None /\ archive.choice \in ChoicesAt(task.gate)
    /\ \A op \in {archive.op} \ LocalOps : IsDecision(op)

(* What a client may decide, it was asked at this gate. *)
Asked(call) ==
  /\ Issued(call.offer)
  /\ call.offer.revision = task.revision /\ call.offer.expected = "decision" =>
       call.submission.say \in ChoicesAt(task.gate)

(* The review of the operation found nothing, if its subject is still there. *)
Emptied(op) == op.subject = task.subject => task.evidence \in {"empty", "clean", "revise"}

Decisions == {"decision-archive", "decision-settle"}

UpToDate(p) == p.read = task.revision

(* What a plan carries through all its substeps. *)
Planned(p) ==
  /\ p.read <= task.revision
  /\ UpToDate(p) => p.seen[1] <= drift /\ (p.seen[2] => archive # None)
  /\ p.substep \notin Decisions => Begun(p.op)
  /\ p.checkpoint => p.substep = "revise-enter"
  /\ p.substep = "revise-enter" => p.op.subject # 0
  /\ p.phase = "queued" =>
       p.substep \in {"review-enter", "review-run", "review-empty-triage"} /\ ~p.late
  /\ p.substep \in {"review-enter", "review-run"} =>
       p.action = "review" /\ IsReview(p.op) /\ (UpToDate(p) => Current(p.op))
  /\ p.substep = "review-empty-triage" => p.action = "review"
  /\ p.late => p.action = "review" /\ p.substep \in {"triage-enter", "review-empty-triage"}
  /\ p.substep = "triage-enter" => p.action \in {"review", "triage"}
  /\ p.substep \in {"triage-enter", "review-empty-triage"} /\ p.action = "review" =>
       IsReview(p.op) /\ Emptied(p.op)
  /\ p.substep = "triage-enter" /\ p.action = "triage" =>
       IsTriage(p.op) /\ (UpToDate(p) => Current(p.op) /\ task.evidence = "reports")
  /\ p.substep = "decision-archive" /\ p.op \notin LocalOps => IsDecision(p.op)

(* A review that waits for its turn was planned from the position it names. *)
Waiting(p) ==
  p.phase = "queued" /\ UpToDate(p) =>
    /\ task.gate = None
    /\ p.substep = "review-enter" => At("produce", "succeeded")
    /\ p.substep = "review-run" => At("counter_review", "running")
    /\ p.substep = "review-empty-triage" =>
         task.evidence = "empty" /\ (At("counter_review", "succeeded") \/ At("triage", "running"))

(* The substep a plan comes to next. *)
Coming(p) ==
  IF p.phase = "queued" /\ p.substep = "review-empty-triage"
  THEN EnterFirst("review-empty-triage") ELSE p.substep

(* It begins its operation, or goes on where the last transition left off. *)
Joined(p) ==
  p.phase # "refresh" /\ p.substep \notin Decisions /\ ~p.checkpoint /\ ~p.late /\ UpToDate(p)
  => \/ p.op.token.revision = task.revision
     \/ p.op = task.last.op /\ task.last.substep = Before(Coming(p), p.action)

(* The clause of OfferedIsLegal about one call. *)
Accepting(p) ==
  /\ p.phase = "commit" /\ UpToDate(p) /\ p.seen = Seen /\ ~p.late
  /\ p.substep = "refresh-stale-baseline" => archive = None
  /\ p.substep = "decision-settle" => archive # None /\ archive.op = p.op
  /\ p.substep = "review-empty-triage" => p.op.subject = task.subject
  => Legal(p)

TaskInv == Positioned /\ Gated /\ Marked /\ Archived
PlanInv(p) == Planned(p) /\ Waiting(p) /\ Joined(p) /\ Accepting(p)
ClientInv(c) ==
  /\ \A call \in {held[c]} \ {None} : Asked(call)
  /\ \A p \in {plan[c]} \ {None} : PlanInv(p)

SemanticInv == TypeOK /\ TaskInv /\ \A c \in Clients : ClientInv(c)

-----------------------------------------------------------------------------
(* Offers and operations *)

(* What the next action says of the task. *)
LEMMA NextActionIs ==
  LET code == NextAction(task, drift) IN
  /\ code \in {"refresh-stale-baseline", "open-gate", "resolve-open-gate", "task-complete",
               "produce", "counter_review", "triage", "complete-task"}
  /\ code = "refresh-stale-baseline" <=> Stale(task, drift)
  /\ code = "open-gate" =>
       /\ task.gate = None /\ ~MidProduce(task)
       /\ \/ Finding(task, drift)
          \/ /\ ~task.done /\ ~task.approved
             /\ task.evidence \notin {"none", "reports", "empty", "revise"}
  /\ code = "resolve-open-gate" => task.gate # None
  /\ code = "produce" =>
       task.gate = None /\ (~MidProduce(task) => task.evidence = "revise")
  /\ code = "counter_review" => task.gate = None /\ ~MidProduce(task) /\ task.evidence = "none"
  /\ code = "triage" =>
       task.gate = None /\ ~MidProduce(task) /\ task.evidence \in {"reports", "empty"}
  /\ code = "complete-task" => task.gate = None /\ task.approved /\ ~task.done
<1>1. CASE Stale(task, drift)
  <2>1. NextAction(task, drift) = "refresh-stale-baseline"
    BY <1>1 DEF NextAction
  <2> QED
    BY <1>1, <2>1
<1>2. CASE ~Stale(task, drift) /\ Finding(task, drift)
  <2>1. NextAction(task, drift) = IF task.gate = None THEN "open-gate" ELSE "resolve-open-gate"
    BY <1>2 DEF NextAction
  <2> QED
    BY <1>2, <2>1 DEF Finding
<1>3. CASE ~Stale(task, drift) /\ ~Finding(task, drift)
  <2> DEFINE code == NextAction(task, drift)
  <2>1. code = IF task.done THEN "task-complete"
               ELSE IF task.gate # None THEN "resolve-open-gate"
               ELSE IF MidProduce(task) \/ task.evidence = "revise" THEN "produce"
               ELSE IF task.evidence = "none" THEN "counter_review"
               ELSE IF task.evidence \in {"reports", "empty"} THEN "triage"
               ELSE IF task.approved THEN "complete-task" ELSE "open-gate"
    BY <1>3 DEF NextAction
  <2> HIDE DEF code
  <2>2. CASE task.done \/ task.gate # None
    <3>1. code \in {"task-complete", "resolve-open-gate"}
          /\ (code = "resolve-open-gate" => task.gate # None)
      BY <2>1, <2>2
    <3> QED
      BY <1>3, <3>1 DEF code
  <2>3. CASE ~task.done /\ task.gate = None /\ (MidProduce(task) \/ task.evidence \in {"revise", "none", "reports", "empty"})
    <3>1. CASE MidProduce(task)
      <4>1. code = "produce"
        BY <2>1, <2>3, <3>1
      <4> QED
        BY <1>3, <2>3, <3>1, <4>1 DEF code
    <3>2. CASE ~MidProduce(task)
      <4>1. code = IF task.evidence = "revise" THEN "produce"
                   ELSE IF task.evidence = "none" THEN "counter_review" ELSE "triage"
        BY <2>1, <2>3, <3>2
      <4> QED
        BY <1>3, <2>3, <3>2, <4>1 DEF code
    <3> QED
      BY <3>1, <3>2
  <2>4. CASE ~task.done /\ task.gate = None /\ ~MidProduce(task) /\ task.evidence \notin {"revise", "none", "reports", "empty"}
    <3>1. code = IF task.approved THEN "complete-task" ELSE "open-gate"
      BY <2>1, <2>4
    <3> QED
      BY <1>3, <2>4, <3>1 DEF code
  <2> QED
    BY <2>2, <2>3, <2>4
<1> QED
  BY <1>1, <1>2, <1>3

(* What an offer says of the task. *)
LEMMA ShapeIs ==
  ASSUME TypeOK, Positioned, NEW a
  PROVE  LET action == Shape(task, a, drift)[1]
             expected == Shape(task, a, drift)[2]
         IN /\ action \in Kinds \cup {"none"} /\ expected \in Expectations
            /\ action = "review" =>
                 /\ task.gate = None /\ ~MidProduce(task)
                 /\ \/ expected = "review-dispatch" /\ task.evidence = "none"
                    \/ expected = "none" /\ task.evidence = "empty"
            /\ action = "triage" =>
                 /\ expected = "triage" /\ task.gate = None /\ ~MidProduce(task)
                 /\ task.evidence = "reports"
            /\ action = "revise" =>
                 /\ expected = "none" /\ task.gate = None /\ At("triage", "succeeded")
                 /\ ~Checkpoint(task) => task.evidence = "revise"
            /\ action = "begin-work" =>
                 expected = "none" /\ task.gate = None /\ At("produce", "failed")
            /\ action = "submit-work" =>
                 expected = "work-result" /\ task.gate = None /\ At("produce", "running")
            /\ action = "decide" =>
                 \/ expected = "gate-summary" /\ NextAction(task, drift) = "open-gate"
                 \/ /\ expected = IF a = None THEN "decision" ELSE "none"
                    /\ task.gate # None /\ ~Stale(task, drift)
            /\ action = "finish-task" =>
                 expected = "none" /\ task.gate = None /\ task.approved /\ ~task.done
            /\ action = "refresh-stale-baseline" => expected = "none" /\ Stale(task, drift)
            /\ Checkpoint(task) => action = "revise"
<1> DEFINE code == NextAction(task, drift)
           shape == Shape(task, a, drift)
<1>1. task.step \in {"produce", "counter_review", "triage"}
      /\ task.status \in {"running", "failed", "succeeded"} /\ task.evidence \in Evidence
  BY DEF TypeOK, Tasks
<1>2. CASE Checkpoint(task)
  <2>1. shape = <<"revise", "none">>
    BY <1>2 DEF Shape
  <2> QED
    BY <1>2, <2>1 DEF Positioned, Kinds, Expectations
<1>3. CASE ~Checkpoint(task) /\ code \in {"open-gate", "resolve-open-gate"}
  <2>1. shape = <<"decide", IF code = "open-gate" THEN "gate-summary"
                            ELSE IF a = None THEN "decision" ELSE "none">>
    BY <1>3 DEF Shape
  <2> QED
    BY <1>3, <2>1, NextActionIs DEF Kinds, Expectations
<1>4. CASE ~Checkpoint(task) /\ code = "produce"
  <2>1. shape = IF task.step = "triage" THEN <<"revise", "none">>
                ELSE IF task.step = "produce" /\ task.status = "running"
                THEN <<"submit-work", "work-result">> ELSE <<"begin-work", "none">>
    BY <1>4 DEF Shape
  <2>2. task.gate = None /\ (MidProduce(task) \/ task.evidence = "revise")
    BY <1>4, NextActionIs
  <2>3. CASE task.step = "triage"
    BY <1>1, <1>4, <2>1, <2>2, <2>3 DEF Positioned, At, MidProduce, Kinds, Expectations
  <2>4. CASE task.step = "produce" /\ task.status = "running"
    BY <1>4, <2>1, <2>2, <2>4 DEF At, Kinds, Expectations
  <2>5. CASE task.step # "triage" /\ ~(task.step = "produce" /\ task.status = "running")
    <3>1. At("produce", "failed")
      BY <1>1, <2>2, <2>5 DEF Positioned, At, MidProduce
    <3> QED
      BY <1>4, <2>1, <2>2, <2>5, <3>1 DEF Kinds, Expectations
  <2> QED
    BY <2>3, <2>4, <2>5
<1>5. CASE ~Checkpoint(task) /\ code \in {"counter_review", "triage"}
  <2>1. shape = IF code = "counter_review" THEN <<"review", "review-dispatch">>
                ELSE IF task.evidence = "reports" THEN <<"triage", "triage">>
                ELSE <<"review", "none">>
    BY <1>5 DEF Shape
  <2> QED
    BY <1>5, <2>1, NextActionIs DEF Kinds, Expectations
<1>6. CASE ~Checkpoint(task) /\ code \in {"complete-task", "refresh-stale-baseline", "task-complete"}
  <2>1. shape = IF code = "complete-task" THEN <<"finish-task", "none">>
                ELSE IF code = "refresh-stale-baseline" THEN <<code, "none">>
                ELSE <<"none", "none">>
    BY <1>6 DEF Shape
  <2> QED
    BY <1>6, <2>1, NextActionIs DEF Kinds, Expectations
<1> QED
  BY <1>2, <1>3, <1>4, <1>5, <1>6, NextActionIs

(* An offer is given out for the task as it is. *)
LEMMA OfferIssued ==
  ASSUME TypeOK, Positioned, Gated, NEW a, Shape(task, a, drift)[1] # "none"
  PROVE  Issued(OfferOf(task, a, drift))
<1> DEFINE offer == OfferOf(task, a, drift)
<1>1. /\ task.revision \in Nat /\ task.attempt \in Nat /\ task.subject \in Nat
      /\ task.gate # None => task.gate.opened = task.revision
  BY DEF TypeOK, Tasks, Gated
<1>2. /\ offer.revision = task.revision /\ offer.attempt = task.attempt
      /\ offer.subject = SubjectNow /\ offer.gate \in {0, task.revision}
      /\ task.gate # None => offer.gate = task.revision
      /\ a = None => ~offer.archived
  BY <1>1 DEF OfferOf, SubjectNow
<1>3. offer \in Offers
  BY <1>1, ShapeIs DEF OfferOf, Offers
<1>4. offer.action = Shape(task, a, drift)[1] /\ offer.expected = Shape(task, a, drift)[2]
  BY DEF OfferOf
<1>5. offer.expected = "decision" => offer.action = "decide" /\ a = None /\ task.gate # None
  BY <1>4, ShapeIs DEF Kinds
<1> HIDE DEF offer
<1>6. Issued(offer)
  BY <1>1, <1>2, <1>3, <1>5 DEF Issued
<1> QED
  BY <1>6 DEF offer

(* The operation a call names is begun for the task as it is. *)
LEMMA OperationBegun ==
  ASSUME TypeOK, Positioned, Gated, Offered, NEW call \in Calls, Issued(call.offer)
  PROVE  /\ Begun(Operation(call, OfferNow))
         /\ ~MidProduce(task) => Current(Operation(call, OfferNow))
<1> DEFINE op == Operation(call, OfferNow)
<1>1. /\ op.token = call.offer /\ op.action = OfferNow.action /\ op.attempt = task.attempt
      /\ op.subject = SubjectNow /\ op.submission = call.submission
  BY DEF Operation, OfferNow, OfferOf, SubjectNow
<1>2. task.attempt \in Nat /\ task.subject \in Nat
  BY DEF TypeOK, Tasks
<1>3. OfferNow.action \in Kinds
  BY ShapeIs DEF Offered, OfferNow, OfferOf
<1>4. op \in Operations
  BY <1>2, <1>3 DEF Operation, OfferNow, OfferOf, Operations, Calls
<1> HIDE DEF op
<1>5. Begun(op) /\ (~MidProduce(task) => Current(op))
  BY <1>1, <1>2, <1>4 DEF Begun, Current, SubjectNow
<1> QED
  BY <1>5 DEF op

(* The archive changes what is expected, not what is to be done. *)
LEMMA SameAction ==
  ASSUME NEW a, NEW b
  PROVE  /\ OfferOf(task, a, drift).action = OfferOf(task, b, drift).action
         /\ OfferOf(task, a, drift).attempt = OfferOf(task, b, drift).attempt
         /\ OfferOf(task, a, drift).subject = OfferOf(task, b, drift).subject
<1>1. Shape(task, a, drift)[1] = Shape(task, b, drift)[1]
  BY DEF Shape
<1> QED
  BY <1>1 DEF OfferOf

(* The decision of a gate that is not stale closes it. *)
LEMMA DecisionCloses ==
  ASSUME TypeOK, Gated, Archived, archive # None, ~Stale(task, drift)
  PROVE  task.gate # None /\ Closes(archive.choice)
<1>1. /\ task.gate # None /\ archive.choice \in ChoicesAt(task.gate)
      /\ task.gate.kind = "baseline" => drift # 0
  BY DEF Archived, Gated
<1> QED
  BY <1>1 DEF ChoicesAt, Closes, Stale

(* Which position the first substep of a review stands for. *)
LEMMA ReviewPosition ==
  ASSUME TypeOK, Positioned, ~MidProduce(task), task.evidence \in {"none", "empty"}
  PROVE  /\ FirstReviewSubstep \in {"review-enter", "review-run", "review-empty-triage"}
         /\ FirstReviewSubstep = "review-enter" => At("produce", "succeeded")
         /\ FirstReviewSubstep = "review-run" => At("counter_review", "running")
         /\ FirstReviewSubstep = "review-empty-triage" =>
              /\ task.evidence = "empty"
              /\ At("counter_review", "succeeded") \/ At("triage", "running")
<1>1. task.step \in {"produce", "counter_review", "triage"}
      /\ task.status \in {"running", "failed", "succeeded"}
  BY DEF TypeOK, Tasks
<1> QED
  BY <1>1 DEF Positioned, FirstReviewSubstep, At, MidProduce

LEMMA TriagePosition ==
  ASSUME TypeOK, Positioned, ~MidProduce(task), task.evidence = "reports"
  PROVE  At("counter_review", "succeeded") \/ At("triage", "running")
<1>1. task.step \in {"produce", "counter_review", "triage"}
      /\ task.status \in {"running", "failed", "succeeded"}
  BY DEF TypeOK, Tasks
<1> QED
  BY <1>1 DEF Positioned, At, MidProduce

(* The substep after which the rest of a review or of a triage is done. *)
Predecessor ==
  IF OfferNow.action = "review"
  THEN IF FirstReviewSubstep = "review-run" THEN "review-enter"
       ELSE IF FirstReviewSubstep = "review-enter" THEN "no substep"
       ELSE IF task.step = "triage" THEN "triage-enter" ELSE "review-run"
  ELSE IF OfferNow.action = "triage" /\ task.step = "triage" THEN "triage-enter"
  ELSE "no substep"

LEMMA InterruptedIs ==
  ASSUME TypeOK
  PROVE  /\ task.last.substep # "no substep"
         /\ Interrupted(OfferNow) = IF task.last.substep = Predecessor THEN task.last.op
                                    ELSE IF OfferNow.action = "decide" /\ archive # None
                                    THEN archive.op ELSE None
<1>1. task.last.substep # "no substep"
  BY DEF TypeOK, Tasks, Lasts, Substeps
<1> QED
  BY <1>1 DEF Interrupted, Predecessor

(* A revision that was entered is not entered again by the same call: the  *)
(* work in progress has no subject, the operation had one.                 *)
LEMMA NeverEntered ==
  ASSUME Marked, NEW call
  PROVE  ~EnteredBy(call)
<1>1. SUFFICES ASSUME EnteredBy(call) PROVE FALSE
  OBVIOUS
<1>2. /\ task.step = "produce" /\ task.status = "running" /\ task.last.substep = "revise-enter"
      /\ task.last.op = Operation(call, [OfferNow EXCEPT !.action = "revise",
                                                         !.attempt = task.last.before])
  BY <1>1 DEF EnteredBy
<1>3. MidProduce(task)
  BY <1>2 DEF MidProduce
<1>4. [OfferNow EXCEPT !.action = "revise", !.attempt = task.last.before].subject = 0
  BY <1>3 DEF OfferNow, OfferOf
<1>5. task.last.op.subject = 0
  BY <1>2, <1>4 DEF Operation
<1> QED
  BY <1>2, <1>5 DEF Marked, MarkedBy

(* An accepted call plans an operation of its own from the offer of the     *)
(* moment, or goes on with the one that was interrupted.                    *)
LEMMA AcceptedIs ==
  ASSUME TypeOK, TaskInv, NEW call \in Calls, Asked(call), Accepted(call), NEW p, p = PlanFor(call)
  PROVE  /\ Offered /\ Begun(Operation(call, OfferNow))
         /\ p.op = IF Interrupted(OfferNow) # None THEN Interrupted(OfferNow)
                   ELSE Operation(call, OfferNow)
         /\ p.action = OfferNow.action /\ p.say = call.submission.say
         /\ p.substep = IF DecidedBefore(call) THEN "decision-archive" ELSE FirstSubstep(OfferNow)
         /\ p.checkpoint = Checkpoint(task) /\ p.read = task.revision /\ p.seen = Seen
         /\ p.late = FALSE /\ p.phase = IF OfferNow.action = "review" THEN "queued" ELSE "commit"
         /\ ~DecidedBefore(call) =>
              /\ Matches(OfferNow.expected, call.submission)
              /\ Interrupted(OfferNow) = None \/ OfferNow.action \notin {"review", "triage"} =>
                   call.offer = OfferNow
         /\ DecidedBefore(call) =>
              /\ call.offer = OfferOf(task, None, drift)
              /\ Operation(call, OfferNow) = archive.op
<1>1. Offered /\ ~EnteredBy(call)
  BY NeverEntered DEF Accepted, TaskInv
<1>2. Begun(Operation(call, OfferNow))
  BY <1>1, OperationBegun DEF Asked, TaskInv
<1>3. /\ p.op = IF Interrupted(OfferNow) # None THEN Interrupted(OfferNow)
                ELSE Operation(call, OfferNow)
      /\ p.action = OfferNow.action /\ p.say = call.submission.say
      /\ p.substep = IF DecidedBefore(call) THEN "decision-archive" ELSE FirstSubstep(OfferNow)
      /\ p.checkpoint = Checkpoint(task) /\ p.read = task.revision /\ p.seen = Seen
      /\ p.late = FALSE /\ p.phase = IF OfferNow.action = "review" THEN "queued" ELSE "commit"
  BY <1>1 DEF PlanFor
<1>4. Operation(call, OfferNow) # None
  BY <1>2, NoneAssumption DEF Begun
<1>5. ASSUME ~DecidedBefore(call)
      PROVE  /\ Matches(OfferNow.expected, call.submission)
             /\ Interrupted(OfferNow) = None \/ OfferNow.action \notin {"review", "triage"} =>
                  call.offer = OfferNow
  BY <1>1, <1>4, <1>5 DEF Accepted
<1>6. ASSUME DecidedBefore(call)
      PROVE  /\ call.offer = OfferOf(task, None, drift)
             /\ Operation(call, OfferNow) = archive.op
  <2>1. /\ call.offer = OfferOf(task, None, drift)
        /\ Operation(call, OfferOf(task, None, drift)) = archive.op
    BY <1>1, <1>6 DEF Accepted
  <2>2. Operation(call, OfferOf(task, None, drift)) = Operation(call, OfferNow)
    BY SameAction DEF Operation, OfferNow
  <2> QED
    BY <2>1, <2>2
<1> QED
  BY <1>1, <1>2, <1>3, <1>5, <1>6

-----------------------------------------------------------------------------
(* Planning: what an accepted call is about to do is legal where it stands. *)

LEMMA PlanTyped ==
  ASSUME TypeOK, TaskInv, NEW call \in Calls, Asked(call), Accepted(call), NEW p, p = PlanFor(call)
  PROVE  p \in Plans
<1>1. /\ task.revision \in Nat /\ drift \in Nat /\ task.last.op \in Named
      /\ archive # None => archive.op \in Named
  BY DEF TypeOK, Tasks, Lasts
<1>2. Operation(call, OfferNow) \in Named
  BY AcceptedIs DEF Begun, Named
<1>3. Interrupted(OfferNow) \in Named
  BY <1>1, InterruptedIs DEF Named
<1>4. OfferNow.action \in Kinds /\ ~EnteredBy(call)
  BY AcceptedIs, NeverEntered, ShapeIs DEF Offered, OfferNow, OfferOf, TaskInv
<1>5. FirstSubstep(OfferNow) \in Substeps
  BY <1>4 DEF FirstSubstep, FirstReviewSubstep, EnterFirst, Substeps, Kinds
<1>6. call.submission.say \in Sayings
  BY DEF Calls, Submitted, Nothing, Sayings
<1>7. Seen \in Nat \X BOOLEAN
  BY <1>1 DEF Seen
<1>8. Checkpoint(task) \in BOOLEAN
  BY DEF Checkpoint
<1> DEFINE op == IF Interrupted(OfferNow) # None THEN Interrupted(OfferNow)
                 ELSE Operation(call, OfferNow)
           first == IF DecidedBefore(call) THEN "decision-archive" ELSE FirstSubstep(OfferNow)
           phase == IF OfferNow.action = "review" THEN "queued" ELSE "commit"
<1>9. p = [op |-> op, action |-> OfferNow.action, substep |-> first, say |-> call.submission.say,
           checkpoint |-> Checkpoint(task), read |-> task.revision, seen |-> Seen,
           late |-> FALSE, phase |-> phase]
  BY <1>4 DEF PlanFor
<1>10. op \in Named /\ first \in Substeps /\ phase \in {"queued", "commit", "refresh"}
  BY <1>2, <1>3, <1>5 DEF Substeps
<1> HIDE DEF op, first, phase
<1> QED
  BY <1>1, <1>4, <1>6, <1>7, <1>8, <1>9, <1>10 DEF Plans

(* What every new plan carries. *)
LEMMA PlanIsNew ==
  ASSUME TypeOK, TaskInv, NEW call \in Calls, Asked(call), Accepted(call), NEW p, p = PlanFor(call)
  PROVE  /\ p.read = task.revision /\ UpToDate(p) /\ ~p.late /\ p.action = OfferNow.action
         /\ p.seen[1] = drift /\ (p.seen[2] => archive # None)
         /\ p.checkpoint => p.action = "revise"
         /\ p.action # "review" => p.phase = "commit"
<1>1. Checkpoint(task) => OfferNow.action = "revise"
  BY ShapeIs DEF OfferNow, OfferOf, TaskInv
<1>2. PICK b \in BOOLEAN : b <=> archive # None
  OBVIOUS
<1>3. Seen = <<drift, b>>
  BY <1>2 DEF Seen
<1>4. p.seen[1] = drift /\ (p.seen[2] => archive # None)
  <2>1. p.seen = <<drift, b>>
    BY <1>3, AcceptedIs
  <2> QED
    BY <1>2, <2>1
<1> QED
  BY <1>1, <1>4, AcceptedIs DEF UpToDate

LEMMA ReviewPlan ==
  ASSUME TypeOK, TaskInv, NEW call \in Calls, Asked(call), Accepted(call), NEW p, p = PlanFor(call),
         p.action = "review"
  PROVE  PlanInv(p)
<1> DEFINE fresh == Operation(call, OfferNow)
           old == Interrupted(OfferNow)
<1>1. /\ p.op = IF old # None THEN old ELSE fresh
      /\ p.substep = FirstReviewSubstep /\ p.phase = "queued" /\ ~p.checkpoint
      /\ Begun(fresh) /\ fresh.token = call.offer /\ fresh.action = "review"
      /\ fresh.submission = call.submission
      /\ Matches(OfferNow.expected, call.submission)
      /\ old = None => call.offer = OfferNow
      /\ OfferNow.action = "review"
  <2>1. OfferNow.action = "review"
    BY PlanIsNew
  <2>2. ~DecidedBefore(call) /\ FirstSubstep(OfferNow) = FirstReviewSubstep
    BY <2>1 DEF DecidedBefore, FirstSubstep
  <2>3. fresh.token = call.offer /\ fresh.action = "review" /\ fresh.submission = call.submission
    BY <2>1 DEF Operation
  <2> QED
    BY <2>1, <2>2, <2>3, AcceptedIs, PlanIsNew
<1>2. /\ task.gate = None /\ ~MidProduce(task) /\ task.evidence \in {"none", "empty"}
      /\ OfferNow.expected \in {"review-dispatch", "none"}
  BY <1>1, ShapeIs DEF OfferNow, OfferOf, TaskInv
<1>3. /\ FirstReviewSubstep \in {"review-enter", "review-run", "review-empty-triage"}
      /\ FirstReviewSubstep = "review-enter" => At("produce", "succeeded")
      /\ FirstReviewSubstep = "review-run" => At("counter_review", "running")
      /\ FirstReviewSubstep = "review-empty-triage" =>
           task.evidence = "empty" /\ (At("counter_review", "succeeded") \/ At("triage", "running"))
  BY <1>2, ReviewPosition DEF TaskInv
<1>4. IsReview(fresh) /\ Current(fresh)
  <2>1. call.submission = Nothing
    BY <1>1, <1>2 DEF Matches, Calls, Submitted
  <2> QED
    BY <1>1, <1>2, <2>1, OperationBegun, AcceptedIs DEF IsReview, Asked, TaskInv
<1>5. old # None =>
        /\ old = task.last.op /\ task.last.substep = Predecessor /\ FirstReviewSubstep # "review-enter"
        /\ Begun(old) /\ IsReview(old) /\ (FirstReviewSubstep = "review-run" => Current(old))
  <2>1. SUFFICES ASSUME old # None PROVE /\ old = task.last.op /\ task.last.substep = Predecessor
                                         /\ FirstReviewSubstep # "review-enter"
                                         /\ Begun(old) /\ IsReview(old)
                                         /\ FirstReviewSubstep = "review-run" => Current(old)
    OBVIOUS
  <2>2. old = task.last.op /\ task.last.substep = Predecessor /\ task.last.substep # "no substep"
    BY <1>1, <2>1, InterruptedIs
  <2>3. /\ FirstReviewSubstep # "review-enter"
        /\ Predecessor = IF FirstReviewSubstep = "review-run" THEN "review-enter"
                         ELSE IF task.step = "triage" THEN "triage-enter" ELSE "review-run"
    BY <1>1, <2>2 DEF Predecessor
  <2>4. MarkedBy(old)
    BY <2>2 DEF TaskInv, Marked
  <2>5. Begun(old)
    BY <2>2, <2>3, <2>4 DEF MarkedBy, Resumable
  <2>6. IsReview(old) /\ (FirstReviewSubstep = "review-run" => Current(old))
    BY <1>2, <2>2, <2>3, <2>4 DEF MarkedBy
  <2> QED
    BY <2>2, <2>3, <2>5, <2>6
<1>6. Before(Coming(p), p.action) = Predecessor \/ FirstReviewSubstep = "review-enter"
  BY <1>1, <1>3 DEF Before, Coming, EnterFirst, Predecessor, At
<1>7. fresh.token.revision = task.revision \/ old # None
  BY <1>1 DEF OfferNow, OfferOf
<1> HIDE DEF fresh, old
<1>8. /\ Begun(p.op) /\ IsReview(p.op)
      /\ FirstReviewSubstep \in {"review-enter", "review-run"} => Current(p.op)
      /\ FirstReviewSubstep = "review-empty-triage" => Emptied(p.op)
  BY <1>1, <1>3, <1>4, <1>5 DEF Emptied
<1>9. Planned(p)
  BY <1>1, <1>3, <1>8, PlanIsNew DEF Planned, UpToDate, Decisions, TypeOK, Tasks
<1>10. Waiting(p)
  BY <1>1, <1>2, <1>3 DEF Waiting
<1>11. Joined(p)
  BY <1>1, <1>5, <1>6, <1>7 DEF Joined
<1>12. Accepting(p)
  BY <1>1 DEF Accepting
<1> QED
  BY <1>9, <1>10, <1>11, <1>12 DEF PlanInv

LEMMA TriagePlan ==
  ASSUME TypeOK, TaskInv, NEW call \in Calls, Asked(call), Accepted(call), NEW p, p = PlanFor(call),
         p.action = "triage"
  PROVE  PlanInv(p)
<1> DEFINE fresh == Operation(call, OfferNow)
           old == Interrupted(OfferNow)
<1>1. /\ p.op = IF old # None THEN old ELSE fresh
      /\ p.substep = EnterFirst("triage") /\ p.phase = "commit" /\ ~p.checkpoint
      /\ Begun(fresh) /\ fresh.token = call.offer /\ fresh.action = "triage"
      /\ fresh.submission = call.submission
      /\ Matches(OfferNow.expected, call.submission)
      /\ old = None => call.offer = OfferNow
      /\ OfferNow.action = "triage"
  <2>1. OfferNow.action = "triage"
    BY PlanIsNew
  <2>2. ~DecidedBefore(call) /\ FirstSubstep(OfferNow) = EnterFirst("triage")
    BY <2>1 DEF DecidedBefore, FirstSubstep
  <2>3. fresh.token = call.offer /\ fresh.action = "triage" /\ fresh.submission = call.submission
    BY <2>1 DEF Operation
  <2> QED
    BY <2>1, <2>2, <2>3, AcceptedIs, PlanIsNew
<1>2. /\ task.gate = None /\ ~MidProduce(task) /\ task.evidence = "reports"
      /\ OfferNow.expected = "triage"
  BY <1>1, ShapeIs DEF OfferNow, OfferOf, TaskInv
<1>3. \/ At("counter_review", "succeeded") /\ p.substep = "triage-enter"
      \/ At("triage", "running") /\ p.substep = "triage"
  BY <1>1, <1>2, TriagePosition DEF TaskInv, At, EnterFirst
<1>4. IsTriage(fresh) /\ Current(fresh)
  <2>1. call.submission.kind = "triage"
    BY <1>1, <1>2 DEF Matches
  <2> QED
    BY <1>1, <1>2, <2>1, OperationBegun, AcceptedIs DEF IsTriage, Asked, TaskInv
<1>5. old # None =>
        /\ old = task.last.op /\ task.last.substep = "triage-enter" /\ task.step = "triage"
        /\ Begun(old)
  <2>1. SUFFICES ASSUME old # None PROVE /\ old = task.last.op /\ task.last.substep = "triage-enter"
                                         /\ task.step = "triage" /\ Begun(old)
    OBVIOUS
  <2>2. old = task.last.op /\ task.last.substep = Predecessor /\ task.last.substep # "no substep"
    BY <1>1, <2>1, InterruptedIs
  <2>3. Predecessor = "triage-enter" /\ task.step = "triage"
    BY <1>1, <2>2 DEF Predecessor
  <2>4. MarkedBy(old)
    BY <2>2 DEF TaskInv, Marked
  <2>5. Begun(old)
    BY <2>2, <2>3, <2>4 DEF MarkedBy, Resumable
  <2> QED
    BY <2>2, <2>3, <2>5
<1>6. fresh.token.revision = task.revision \/ old # None
  BY <1>1 DEF OfferNow, OfferOf
<1> HIDE DEF fresh, old
<1>7. Begun(p.op) /\ (p.substep = "triage-enter" => IsTriage(p.op) /\ Current(p.op))
  BY <1>1, <1>3, <1>4, <1>5 DEF At
<1>8. Planned(p)
  BY <1>1, <1>2, <1>3, <1>7, PlanIsNew DEF Planned, UpToDate, Decisions, TypeOK, Tasks
<1>9. Waiting(p)
  BY <1>1 DEF Waiting
<1>10. Joined(p)
  BY <1>1, <1>3, <1>5, <1>6 DEF Joined, Coming, Before, At
<1>11. Accepting(p)
  BY <1>2, <1>3 DEF Accepting, Legal
<1> QED
  BY <1>8, <1>9, <1>10, <1>11 DEF PlanInv

LEMMA DirectPlan ==
  ASSUME TypeOK, TaskInv, NEW call \in Calls, Asked(call), Accepted(call), NEW p, p = PlanFor(call),
         p.action \in {"begin-work", "submit-work", "revise", "finish-task", "refresh-stale-baseline"}
  PROVE  PlanInv(p)
<1> DEFINE fresh == Operation(call, OfferNow)
<1>1. /\ p.op = fresh /\ p.phase = "commit" /\ p.checkpoint = Checkpoint(task)
      /\ p.substep = IF p.action = "revise" THEN "revise-enter" ELSE p.action
      /\ Begun(fresh) /\ fresh.token.revision = task.revision /\ fresh.subject = SubjectNow
      /\ OfferNow.action = p.action
  <2>1. OfferNow.action = p.action
    BY PlanIsNew
  <2>2. /\ ~DecidedBefore(call) /\ Interrupted(OfferNow) = None
        /\ FirstSubstep(OfferNow) = IF p.action = "revise" THEN "revise-enter" ELSE p.action
    <3>1. Predecessor = "no substep"
      BY <2>1 DEF Predecessor
    <3> QED
      BY <2>1, <3>1, InterruptedIs DEF DecidedBefore, FirstSubstep
  <2>3. call.offer = OfferNow
    BY <2>2, AcceptedIs
  <2>4. fresh.token.revision = task.revision /\ fresh.subject = SubjectNow
    BY <2>3 DEF Operation, OfferNow, OfferOf, SubjectNow
  <2> QED
    BY <2>1, <2>2, <2>4, AcceptedIs, PlanIsNew
<1> HIDE DEF fresh
<1>2. /\ p.action = "revise" => /\ task.gate = None /\ At("triage", "succeeded")
                                /\ ~Checkpoint(task) => task.evidence = "revise"
      /\ p.action = "begin-work" => task.gate = None /\ At("produce", "failed")
      /\ p.action = "submit-work" => task.gate = None /\ At("produce", "running")
      /\ p.action = "finish-task" => task.gate = None /\ task.approved /\ ~task.done
      /\ p.action = "refresh-stale-baseline" => Stale(task, drift)
  BY <1>1, ShapeIs DEF OfferNow, OfferOf, TaskInv
<1>3. p.action = "revise" => p.op.subject # 0
  BY <1>1, <1>2 DEF SubjectNow, MidProduce, At, TaskInv, Positioned
<1>4. Planned(p)
  BY <1>1, <1>3, PlanIsNew DEF Planned, UpToDate, Decisions, TypeOK, Tasks
<1>5. Waiting(p) /\ Joined(p)
  BY <1>1 DEF Waiting, Joined
<1>6. Accepting(p)
  BY <1>1, <1>2 DEF Accepting, Legal
<1> QED
  BY <1>4, <1>5, <1>6 DEF PlanInv

LEMMA DecisionPlan ==
  ASSUME TypeOK, TaskInv, NEW call \in Calls, Asked(call), Accepted(call), NEW p, p = PlanFor(call),
         p.action = "decide"
  PROVE  PlanInv(p)
<1> DEFINE fresh == Operation(call, OfferNow)
<1>1. /\ OfferNow.action = "decide" /\ p.phase = "commit" /\ ~p.checkpoint
      /\ p.substep = IF DecidedBefore(call) THEN "decision-archive" ELSE FirstSubstep(OfferNow)
      /\ p.op = IF archive = None \/ archive.op = None THEN fresh ELSE archive.op
      /\ p.say = call.submission.say /\ Begun(fresh)
      /\ fresh.token = call.offer /\ fresh.action = "decide" /\ fresh.submission = call.submission
  <2>1. OfferNow.action = "decide"
    BY PlanIsNew
  <2>2. Predecessor = "no substep"
    BY <2>1 DEF Predecessor
  <2>3. Interrupted(OfferNow) = IF archive # None THEN archive.op ELSE None
    BY <2>1, <2>2, InterruptedIs
  <2>4. fresh.token = call.offer /\ fresh.action = "decide" /\ fresh.submission = call.submission
    BY <2>1 DEF Operation
  <2> QED
    BY <2>1, <2>3, <2>4, AcceptedIs, PlanIsNew
<1>2. \/ OfferNow.expected = "gate-summary" /\ NextAction(task, drift) = "open-gate"
      \/ /\ OfferNow.expected = IF archive = None THEN "decision" ELSE "none"
         /\ task.gate # None /\ ~Stale(task, drift)
  BY <1>1, ShapeIs DEF OfferNow, OfferOf, TaskInv
<1>3. archive # None => task.gate # None /\ OfferNow.expected = "none"
  BY <1>2, NextActionIs DEF TaskInv, Archived
<1> HIDE DEF fresh
<1>4. CASE OfferNow.expected = "gate-summary"
  <2>1. archive = None /\ ~DecidedBefore(call) /\ FirstSubstep(OfferNow) = "open-gate"
    BY <1>1, <1>3, <1>4 DEF DecidedBefore, FirstSubstep
  <2>2. call.offer = OfferNow
    BY <1>1, <2>1, AcceptedIs
  <2>3. /\ p.substep = "open-gate" /\ p.op = fresh /\ fresh.token.revision = task.revision
        /\ task.gate = None /\ NextAction(task, drift) = "open-gate"
    BY <1>1, <1>2, <1>4, <2>1, <2>2, NextActionIs DEF OfferNow, OfferOf
  <2>4. Planned(p)
    BY <1>1, <2>3, PlanIsNew DEF Planned, UpToDate, Decisions, TypeOK, Tasks
  <2>5. Waiting(p) /\ Joined(p)
    BY <1>1, <2>3 DEF Waiting, Joined
  <2>6. Accepting(p)
    BY <2>3 DEF Accepting, Legal
  <2> QED
    BY <2>4, <2>5, <2>6 DEF PlanInv
<1>5. CASE archive = None /\ OfferNow.expected = "decision"
  <2>1. ~DecidedBefore(call) /\ FirstSubstep(OfferNow) = "decision-archive"
    BY <1>1, <1>5 DEF DecidedBefore, FirstSubstep
  <2>2. call.offer = OfferNow /\ Matches("decision", call.submission)
    BY <1>1, <1>5, <2>1, AcceptedIs
  <2>3. call.submission.kind = "decision"
    BY <2>2 DEF Matches
  <2>4. p.op = fresh /\ IsDecision(fresh)
    BY <1>1, <1>5, <2>2, <2>3 DEF IsDecision
  <2>5. call.offer.revision = task.revision /\ call.offer.expected = "decision"
    BY <1>5, <2>2 DEF OfferNow, OfferOf
  <2>6. task.gate # None /\ p.say \in ChoicesAt(task.gate)
    BY <1>1, <1>2, <1>5, <2>5 DEF Asked
  <2>7. p.substep = "decision-archive"
    BY <1>1, <2>1
  <2>8. Planned(p)
    BY <1>1, <2>4, <2>7, PlanIsNew DEF Planned, UpToDate, Decisions, TypeOK, Tasks
  <2>9. Waiting(p) /\ Joined(p)
    BY <1>1, <2>7 DEF Waiting, Joined, Decisions
  <2>10. Accepting(p)
    BY <1>5, <2>6, <2>7 DEF Accepting, Legal
  <2> QED
    BY <2>8, <2>9, <2>10 DEF PlanInv
<1>6. CASE archive # None /\ DecidedBefore(call)
  <2>1. /\ call.offer = OfferOf(task, None, drift) /\ fresh = archive.op
        /\ p.op = archive.op /\ p.substep = "decision-archive"
    BY <1>1, <1>6, AcceptedIs DEF fresh
  <2>2. OfferOf(task, None, drift).action = "decide"
    BY <1>1, SameAction DEF OfferNow
  <2>3. call.offer.revision = task.revision /\ call.offer.expected = "decision"
    <3>1. OfferOf(task, None, drift).expected \in {"gate-summary", "decision"}
          /\ (OfferOf(task, None, drift).expected = "gate-summary" => NextAction(task, drift) = "open-gate")
      BY <2>2, ShapeIs DEF OfferOf, TaskInv
    <3>2. OfferOf(task, None, drift).expected = "decision"
      BY <1>3, <1>6, <3>1, NextActionIs
    <3> QED
      BY <2>1, <3>2 DEF OfferOf
  <2>4. task.gate # None /\ p.say \in ChoicesAt(task.gate)
    BY <1>1, <1>3, <1>6, <2>3 DEF Asked
  <2>5. p.op \notin LocalOps => IsDecision(p.op)
    BY <1>6, <2>1 DEF TaskInv, Archived
  <2>6. Planned(p)
    BY <1>1, <2>1, <2>5, PlanIsNew DEF Planned, UpToDate, Decisions, TypeOK, Tasks
  <2>7. Waiting(p) /\ Joined(p)
    BY <1>1, <2>1 DEF Waiting, Joined, Decisions
  <2>8. Accepting(p)
    BY <2>1, <2>4 DEF Accepting, Legal
  <2> QED
    BY <2>6, <2>7, <2>8 DEF PlanInv
<1>7. CASE archive # None /\ ~DecidedBefore(call)
  <2>1. FirstSubstep(OfferNow) = "decision-settle"
    BY <1>1, <1>3, <1>7 DEF FirstSubstep
  <2>2. p.substep = "decision-settle"
    BY <1>1, <1>7, <2>1
  <2>3. Closes(archive.choice) /\ task.gate # None
    <3>1. ~Stale(task, drift)
      BY <1>2, <1>3, <1>7
    <3> QED
      BY <1>7, <3>1, DecisionCloses DEF TaskInv
  <2>4. Planned(p)
    BY <1>1, <2>2, PlanIsNew DEF Planned, UpToDate, Decisions, TypeOK, Tasks
  <2>5. Waiting(p) /\ Joined(p)
    BY <1>1, <2>2 DEF Waiting, Joined, Decisions
  <2>6. Accepting(p)
    BY <1>7, <2>2, <2>3 DEF Accepting, Legal
  <2> QED
    BY <2>4, <2>5, <2>6 DEF PlanInv
<1> QED
  BY <1>2, <1>3, <1>4, <1>5, <1>6, <1>7

LEMMA ApplyPlans ==
  ASSUME TypeOK, TaskInv, NEW call \in Calls, Asked(call), Accepted(call), NEW p, p = PlanFor(call)
  PROVE  p \in Plans /\ PlanInv(p)
<1>1. p \in Plans
  BY PlanTyped
<1>2. p.action \in Kinds
  BY <1>1 DEF Plans
<1> QED
  BY <1>1, <1>2, ReviewPlan, TriagePlan, DirectPlan, DecisionPlan DEF Kinds

-----------------------------------------------------------------------------
(* The steps that leave the task as it is *)

LEMMA TaskStill ==
  ASSUME TaskInv, UNCHANGED <<task, archive, drift>>
  PROVE  TaskInv'
<1>1. Positioned'
  BY DEF TaskInv, Positioned, MidProduce, At, Checkpoint
<1>2. Gated'
  BY DEF TaskInv, Gated, MidProduce, At
<1>3. Marked'
  BY DEF TaskInv, Marked, MarkedBy, Begun, Issued, SubjectNow, MidProduce, At, IsReview, IsTriage,
         Current
<1>4. Archived'
  BY DEF TaskInv, Archived, ChoicesAt, IsDecision, Begun, Issued, SubjectNow, MidProduce
<1> QED
  BY <1>1, <1>2, <1>3, <1>4 DEF TaskInv

LEMMA AskedStill ==
  ASSUME NEW call, Asked(call), UNCHANGED task
  PROVE  Asked(call)'
BY DEF Asked, Issued, SubjectNow, MidProduce, ChoicesAt

LEMMA LegalStill ==
  ASSUME NEW p, Legal(p), UNCHANGED <<task, archive, drift>>
  PROVE  Legal(p)'
BY DEF Legal, At, Checkpoint, NextAction, Stale, Finding, MidProduce, ChoicesAt, Closes

LEMMA BegunStill ==
  ASSUME NEW op, UNCHANGED task
  PROVE  /\ Begun(op) => Begun(op)'
         /\ Current(op) => Current(op)'
         /\ Emptied(op) => Emptied(op)'
         /\ IsDecision(op) => IsDecision(op)'
BY DEF Begun, Issued, SubjectNow, MidProduce, Current, Emptied, IsDecision

LEMMA PlanStill ==
  ASSUME NEW p, PlanInv(p), UNCHANGED <<task, archive, drift>>
  PROVE  PlanInv(p)'
<1>1. Planned(p)'
  BY BegunStill DEF PlanInv, Planned, UpToDate
<1>2. Waiting(p)'
  BY DEF PlanInv, Waiting, UpToDate, At
<1>3. Joined(p)'
  BY DEF PlanInv, Joined, UpToDate, Coming, EnterFirst
<1>4. Accepting(p)'
  <2>1. Accepting(p) /\ Seen' = Seen
    BY DEF PlanInv, Seen
  <2> QED
    BY <2>1, LegalStill DEF Accepting, UpToDate
<1> QED
  BY <1>1, <1>2, <1>3, <1>4 DEF PlanInv

(* A step that only plans. *)
LEMMA PlanningStep ==
  ASSUME SemanticInv, UNCHANGED <<server, task, archive, drift, held, edits>>,
         crashes' \in 0 .. MaxCrashes, DOMAIN queue' = Servers,
         plan' \in [Clients -> Plans \cup {None}],
         \A c \in Clients : \A p \in {plan'[c]} \ {None} : PlanInv(p)
  PROVE  SemanticInv'
<1>1. TypeOK'
  BY DEF SemanticInv, TypeOK
<1>2. TaskInv'
  BY TaskStill DEF SemanticInv
<1>3. ASSUME NEW c \in Clients PROVE ClientInv(c)'
  <2>1. \A call \in {held'[c]} \ {None} : Asked(call)'
    BY AskedStill DEF SemanticInv, ClientInv
  <2>2. \A p \in {plan'[c]} \ {None} : PlanInv(p)'
    BY PlanStill
  <2> QED
    BY <2>1, <2>2 DEF ClientInv
<1> QED
  BY <1>1, <1>2, <1>3 DEF SemanticInv

LEMMA PhasePlans ==
  ASSUME NEW q \in Plans, PlanInv(q)
  PROVE  /\ [q EXCEPT !.phase = "refresh"] \in Plans
         /\ PlanInv([q EXCEPT !.phase = "refresh"])
<1>1. PICK p \in Plans : p = [q EXCEPT !.phase = "refresh"]
  BY DEF Plans
<1>2. /\ p.op = q.op /\ p.action = q.action /\ p.substep = q.substep /\ p.say = q.say
      /\ p.checkpoint = q.checkpoint /\ p.read = q.read /\ p.seen = q.seen /\ p.late = q.late
      /\ p.phase = "refresh"
  BY <1>1 DEF Plans
<1>3. Planned(p)
  BY <1>2 DEF PlanInv, Planned, UpToDate
<1>4. Waiting(p) /\ Joined(p) /\ Accepting(p)
  BY <1>2 DEF Waiting, Joined, Accepting
<1> QED
  BY <1>1, <1>3, <1>4 DEF PlanInv

(* A plan at its turn. *)
LEMMA StartPlans ==
  ASSUME TypeOK, TaskInv, NEW c \in Clients, NEW q \in Plans, q = plan[c], PlanInv(q),
         q.phase = "queued", NEW p,
         p = IF q.substep = "review-empty-triage"
             THEN [Reread(c, EnterFirst("review-empty-triage"))
                     EXCEPT !.late = q.read # task.revision]
             ELSE [q EXCEPT !.phase = "commit"]
  PROVE  p \in Plans /\ PlanInv(p)
<1>1. CASE q.substep # "review-empty-triage"
  <2>1. p = [q EXCEPT !.phase = "commit"] /\ p \in Plans
    BY <1>1 DEF Plans
  <2>2. /\ p.op = q.op /\ p.action = q.action /\ p.substep = q.substep /\ p.say = q.say
        /\ p.checkpoint = q.checkpoint /\ p.read = q.read /\ p.seen = q.seen /\ p.late = q.late
        /\ p.phase = "commit" /\ q.substep \in {"review-enter", "review-run"}
    BY <1>1, <2>1 DEF Plans, PlanInv, Planned
  <2>3. Planned(p)
    BY <2>2 DEF PlanInv, Planned, UpToDate
  <2>4. Waiting(p)
    BY <2>2 DEF Waiting
  <2>5. Joined(p)
    BY <2>2 DEF PlanInv, Joined, UpToDate, Coming
  <2>6. Accepting(p)
    <3>1. UpToDate(p) => UpToDate(q)
      BY <2>2 DEF UpToDate
    <3>2. CASE q.substep = "review-enter"
      <4>1. Legal(p) <=> task.gate = None /\ At("produce", "succeeded")
        BY <2>2, <3>2 DEF Legal
      <4> QED
        BY <2>2, <3>1, <3>2, <4>1 DEF PlanInv, Waiting, Accepting
    <3>3. CASE q.substep = "review-run"
      <4>1. Legal(p) <=> task.gate = None /\ At("counter_review", "running")
        BY <2>2, <3>3 DEF Legal
      <4> QED
        BY <2>2, <3>1, <3>3, <4>1 DEF PlanInv, Waiting, Accepting
    <3> QED
      BY <2>2, <3>2, <3>3
  <2> QED
    BY <2>1, <2>3, <2>4, <2>5, <2>6 DEF PlanInv
<1>2. CASE q.substep = "review-empty-triage"
  <2> DEFINE first == EnterFirst("review-empty-triage")
  <2>1. PICK late \in BOOLEAN : late <=> q.read # task.revision
    OBVIOUS
  <2>2. first = IF At("counter_review", "succeeded") THEN "triage-enter" ELSE "review-empty-triage"
    BY DEF EnterFirst, At
  <2>3. PICK s : s = Seen
    OBVIOUS
  <2>4. s \in Nat \X BOOLEAN /\ s[1] = drift /\ (s[2] => archive # None)
    <3>1. PICK b \in BOOLEAN : b <=> archive # None
      OBVIOUS
    <3>2. s = <<drift, b>> /\ drift \in Nat
      BY <2>3, <3>1 DEF Seen, TypeOK
    <3> QED
      BY <3>1, <3>2
  <2>5. p = [q EXCEPT !.substep = first, !.phase = "commit", !.read = task.revision, !.seen = s,
                      !.late = late]
    <3>1. p = [[q EXCEPT !.substep = first, !.phase = "commit", !.read = task.revision, !.seen = s]
                 EXCEPT !.late = late]
      BY <1>2, <2>1, <2>3 DEF Reread
    <3> QED
      BY <3>1 DEF Plans
  <2>6. first \in Substeps /\ task.revision \in Nat
    BY <2>2 DEF Substeps, TypeOK, Tasks
  <2>7. p \in Plans
    BY <2>4, <2>5, <2>6 DEF Plans
  <2>8. /\ p.op = q.op /\ p.action = "review" /\ p.substep = first /\ ~p.checkpoint
        /\ p.read = task.revision /\ p.seen = s /\ p.late = late /\ p.phase = "commit"
    BY <1>2, <2>5 DEF Plans, PlanInv, Planned
  <2> HIDE DEF first
  <2>9. Planned(p)
    BY <1>2, <2>2, <2>4, <2>6, <2>8 DEF PlanInv, Planned, UpToDate, Decisions
  <2>10. Waiting(p)
    BY <2>8 DEF Waiting
  <2>11. Joined(p)
    <3>1. Coming(q) = first /\ Coming(p) = first
      BY <1>2, <2>2, <2>8 DEF Coming, first
    <3> QED
      BY <1>2, <2>1, <2>8, <3>1 DEF PlanInv, Planned, Joined, UpToDate, Decisions
  <2>12. Accepting(p)
    BY <1>2, <2>1, <2>2, <2>8 DEF PlanInv, Waiting, Accepting, UpToDate, Legal
  <2> QED
    BY <2>7, <2>9, <2>10, <2>11, <2>12 DEF PlanInv
<1> QED
  BY <1>1, <1>2

(* What the last substep of a review leaves to do. *)
LEMMA RefreshLeads ==
  ASSUME TypeOK, TaskInv, NEW c \in Clients, NEW q \in Plans, q = plan[c], PlanInv(q),
         NEW next, next = Continues(c), next # "none"
  PROVE  /\ ~q.checkpoint /\ q.substep \in {"review-enter", "review-run", "triage-enter", "decision-archive"}
         /\ next = "review-run" =>
              /\ q.action = "review" /\ IsReview(q.op) /\ Current(q.op) /\ Begun(q.op)
              /\ task.gate = None /\ At("counter_review", "running")
              /\ q.op = task.last.op /\ task.last.substep = "review-enter"
         /\ next = "triage-enter" =>
              /\ q.action = "review" /\ IsReview(q.op) /\ Begun(q.op) /\ task.evidence = "empty"
              /\ task.gate = None /\ At("counter_review", "succeeded")
              /\ q.op = task.last.op /\ task.last.substep = "review-run"
         /\ next = "review-empty-triage" =>
              /\ q.action = "review" /\ IsReview(q.op) /\ Begun(q.op) /\ Emptied(q.op)
              /\ task.gate = None /\ At("triage", "running")
              /\ q.op.subject = task.subject => task.evidence = "empty"
              /\ q.op = task.last.op /\ task.last.substep = "triage-enter"
         /\ next = "triage" =>
              /\ q.action = "triage" /\ Begun(q.op) /\ task.evidence = "reports"
              /\ task.gate = None /\ At("triage", "running")
              /\ q.op = task.last.op /\ task.last.substep = "triage-enter"
         /\ next = "decision-settle" /\ archive # None =>
              task.gate # None /\ Closes(archive.choice)
         /\ next \in {"review-run", "triage-enter", "review-empty-triage", "triage", "decision-settle"}
<1>1. ~q.checkpoint \/ q.substep = "revise-enter"
  BY DEF PlanInv, Planned
<1>2. Installed(c) => q.op = task.last.op /\ task.last.substep = q.substep /\ MarkedBy(q.op)
  BY DEF Installed, TaskInv, Marked
<1>3. CASE q.substep = "review-enter" /\ Installed(c) /\ OfferNow.action = "review"
  <2>1. next = "review-run"
    BY <1>3 DEF Continues
  <2> QED
    BY <1>1, <1>2, <1>3, <2>1 DEF MarkedBy, Resumable, PlanInv, Planned
<1>4. CASE q.substep = "review-run" /\ Installed(c) /\ OfferNow.action = "review"
  <2>1. next = "triage-enter"
    BY <1>4 DEF Continues
  <2>2. task.evidence \in {"none", "empty"}
    BY <1>4, ShapeIs DEF OfferNow, OfferOf, TaskInv
  <2>3. At("counter_review", "succeeded")
    BY <1>2, <1>4 DEF MarkedBy
  <2>4. task.evidence = "empty"
    BY <2>2, <2>3 DEF TaskInv, Positioned
  <2> QED
    BY <1>1, <1>2, <1>4, <2>1, <2>3, <2>4 DEF MarkedBy, Resumable, PlanInv, Planned
<1>5. CASE q.substep = "triage-enter" /\ Installed(c) /\ At("triage", "running")
  <2>1. next = IF q.action = "review" THEN "review-empty-triage" ELSE "triage"
    BY <1>5 DEF Continues
  <2>2. q.action \in {"review", "triage"} /\ Begun(q.op) /\ task.gate = None /\ ~q.checkpoint
    BY <1>1, <1>2, <1>5 DEF PlanInv, Planned, MarkedBy, Resumable
  <2>3. CASE q.action = "review"
    <3>1. IsReview(q.op) /\ Emptied(q.op)
      BY <1>5, <2>3 DEF PlanInv, Planned
    <3>2. q.op.subject = task.subject => task.evidence = "empty"
      BY <1>5, <3>1 DEF Emptied, TaskInv, Positioned
    <3> QED
      BY <1>2, <1>5, <2>1, <2>2, <2>3, <3>1, <3>2
  <2>4. CASE q.action = "triage"
    <3>1. IsTriage(q.op)
      BY <1>5, <2>4 DEF PlanInv, Planned
    <3>2. ~IsReview(q.op)
      BY <3>1 DEF IsReview, IsTriage, Nothing
    <3>3. task.evidence = "reports"
      BY <1>2, <1>5, <3>2 DEF MarkedBy
    <3> QED
      BY <1>2, <1>5, <2>1, <2>2, <2>4, <3>3
  <2> QED
    BY <2>2, <2>3, <2>4
<1>6. CASE q.substep = "decision-archive" /\ OfferNow.action = "decide" /\ OfferNow.expected = "none"
  <2>1. next = "decision-settle"
    BY <1>6 DEF Continues
  <2>2. ~Stale(task, drift)
    BY <1>6, ShapeIs DEF OfferNow, OfferOf, TaskInv
  <2> QED
    BY <1>1, <1>6, <2>1, <2>2, DecisionCloses DEF TaskInv
<1> QED
  BY <1>3, <1>4, <1>5, <1>6 DEF Continues

(* A plan that goes on after its substep. *)
LEMMA RefreshPlans ==
  ASSUME TypeOK, TaskInv, NEW c \in Clients, NEW q \in Plans, q = plan[c], PlanInv(q),
         Continues(c) # "none", NEW p, p = Reread(c, Continues(c))
  PROVE  p \in Plans /\ PlanInv(p)
<1>1. PICK next : next = Continues(c)
  OBVIOUS
<1>2. PICK s : s = Seen
  OBVIOUS
<1>3. s \in Nat \X BOOLEAN /\ s[1] = drift /\ (s[2] => archive # None)
  <2>1. PICK b \in BOOLEAN : b <=> archive # None
    OBVIOUS
  <2>2. s = <<drift, b>> /\ drift \in Nat
    BY <1>2, <2>1 DEF Seen, TypeOK
  <2> QED
    BY <2>1, <2>2
<1>4. p = [q EXCEPT !.substep = next, !.phase = "commit", !.read = task.revision, !.seen = s]
  BY <1>1, <1>2 DEF Reread
<1>5. next \in Substeps /\ task.revision \in Nat
  BY <1>1, RefreshLeads DEF Substeps, TypeOK, Tasks
<1>6. p \in Plans
  BY <1>3, <1>4, <1>5 DEF Plans
<1>7. /\ p.op = q.op /\ p.action = q.action /\ p.substep = next /\ p.checkpoint = q.checkpoint
      /\ p.read = task.revision /\ p.seen = s /\ p.late = q.late /\ p.phase = "commit"
  BY <1>4 DEF Plans
<1>8. Planned(p)
  <2>1. q.late => q.action = "review" /\ q.substep \in {"triage-enter", "review-empty-triage"}
    BY DEF PlanInv, Planned
  <2>2. p.late => p.action = "review" /\ p.substep = "review-empty-triage"
    BY <1>1, <1>7, <2>1 DEF Continues
  <2> QED
    BY <1>1, <1>3, <1>5, <1>7, <2>2, RefreshLeads DEF Planned, UpToDate, Decisions, Emptied, TypeOK
<1>9. Waiting(p)
  BY <1>7 DEF Waiting
<1>10. Joined(p)
  <2>1. Coming(p) = next
    BY <1>7 DEF Coming
  <2>2. next # "decision-settle" => p.op = task.last.op /\ task.last.substep = Before(next, p.action)
    BY <1>1, <1>7, RefreshLeads DEF Before
  <2> QED
    BY <1>7, <2>1, <2>2 DEF Joined, Decisions
<1>11. Accepting(p)
  <2>1. /\ next \in {"review-run", "triage-enter", "review-empty-triage", "triage", "decision-settle"}
        /\ next # "decision-settle" => task.gate = None
        /\ next = "review-run" => At("counter_review", "running")
        /\ next = "triage-enter" => At("counter_review", "succeeded")
        /\ next = "review-empty-triage" =>
             At("triage", "running") /\ (p.op.subject = task.subject => task.evidence = "empty")
        /\ next = "triage" => At("triage", "running") /\ task.evidence = "reports"
        /\ next = "decision-settle" /\ archive # None => task.gate # None /\ Closes(archive.choice)
    BY <1>1, <1>7, RefreshLeads
  <2>2. CASE next = "decision-settle"
    BY <1>7, <2>1, <2>2 DEF Accepting, Legal
  <2>3. CASE next # "decision-settle"
    BY <1>7, <2>1, <2>3 DEF Accepting, Legal
  <2> QED
    BY <2>2, <2>3
<1> QED
  BY <1>6, <1>8, <1>9, <1>10, <1>11 DEF PlanInv

LEMMA AskStep ==
  ASSUME SemanticInv, NEW c \in Clients, Ask(c)
  PROVE  SemanticInv'
<1>1. TypeOK /\ TaskInv /\ Offered
  BY DEF SemanticInv, Ask
<1>2. PICK s \in Submissions(OfferNow) : held' = [held EXCEPT ![c] = [offer |-> OfferNow, submission |-> s]]
  BY DEF Ask
<1>3. UNCHANGED <<server, task, archive, drift, plan, queue, edits, crashes>>
  BY DEF Ask
<1>4. PICK call : call = [offer |-> OfferNow, submission |-> s]
  OBVIOUS
<1>5. Issued(OfferNow)
  BY <1>1, OfferIssued DEF Offered, OfferNow, OfferOf, TaskInv
<1>6. /\ s \in Submitted
      /\ OfferNow.expected = "decision" => s.say \in ChoicesAt(task.gate)
  BY <1>2 DEF Submissions, Submitted, Sayings, ChoicesAt
<1>7. call \in Calls /\ Asked(call)
  BY <1>4, <1>5, <1>6 DEF Calls, Asked, Issued
<1>8. TypeOK'
  BY <1>1, <1>2, <1>3, <1>4, <1>7 DEF TypeOK
<1>9. TaskInv'
  BY <1>1, <1>3, TaskStill
<1>10. ASSUME NEW d \in Clients PROVE ClientInv(d)'
  <2>1. \A p \in {plan'[d]} \ {None} : PlanInv(p)'
    BY <1>3, PlanStill DEF SemanticInv, ClientInv
  <2>2. \A k \in {held'[d]} \ {None} : Asked(k)
    BY <1>1, <1>2, <1>4, <1>7 DEF SemanticInv, ClientInv, TypeOK
  <2>3. \A k \in {held'[d]} \ {None} : Asked(k)'
    BY <1>3, <2>2, AskedStill
  <2> QED
    BY <2>1, <2>3 DEF ClientInv
<1> QED
  BY <1>8, <1>9, <1>10 DEF SemanticInv

(* A step that gives one client another plan, or ends its call. *)
LEMMA OnePlanStep ==
  ASSUME SemanticInv, NEW c \in Clients, NEW p \in Plans \cup {None},
         UNCHANGED <<server, task, archive, drift, held, edits, crashes>>,
         plan' = [plan EXCEPT ![c] = p], DOMAIN queue' = Servers,
         p # None => PlanInv(p)
  PROVE  SemanticInv'
<1>1. plan' \in [Clients -> Plans \cup {None}] /\ crashes' \in 0 .. MaxCrashes
  BY DEF SemanticInv, TypeOK
<1>2. \A d \in Clients : \A q \in {plan'[d]} \ {None} : PlanInv(q)
  BY DEF SemanticInv, ClientInv, TypeOK
<1> QED
  BY <1>1, <1>2, PlanningStep

LEMMA ApplyStep ==
  ASSUME SemanticInv, NEW c \in Clients, Apply(c)
  PROVE  SemanticInv'
<1>1. /\ TypeOK /\ TaskInv /\ held[c] # None /\ Accepted(held[c])
      /\ UNCHANGED <<server, task, archive, drift, held, edits, crashes>>
  BY DEF SemanticInv, Apply
<1>2. PICK call \in Calls : call = held[c]
  BY <1>1 DEF TypeOK
<1>3. Asked(call)
  BY <1>1, <1>2 DEF SemanticInv, ClientInv
<1>4. PICK p : p = PlanFor(call)
  OBVIOUS
<1>5. p \in Plans /\ PlanInv(p)
  BY <1>1, <1>2, <1>3, <1>4, ApplyPlans
<1>6. plan' = [plan EXCEPT ![c] = p] /\ DOMAIN queue' = Servers
  BY <1>1, <1>2, <1>4 DEF Apply, TypeOK
<1> QED
  BY <1>1, <1>5, <1>6, OnePlanStep

LEMMA StartStep ==
  ASSUME SemanticInv, NEW c \in Clients, Start(c)
  PROVE  SemanticInv'
<1>1. /\ TypeOK /\ TaskInv /\ plan[c] # None /\ plan[c].phase = "queued"
      /\ UNCHANGED <<server, task, archive, drift, held, queue, edits, crashes>>
  BY DEF SemanticInv, Start
<1>2. PICK q \in Plans : q = plan[c]
  BY <1>1 DEF TypeOK
<1>3. PlanInv(q)
  BY <1>1, <1>2 DEF SemanticInv, ClientInv
<1>4. PICK p : p = IF q.substep = "review-empty-triage"
                   THEN [Reread(c, EnterFirst("review-empty-triage"))
                           EXCEPT !.late = q.read # task.revision]
                   ELSE [q EXCEPT !.phase = "commit"]
  OBVIOUS
<1>5. p \in Plans /\ PlanInv(p)
  BY <1>1, <1>2, <1>3, <1>4, StartPlans
<1>6. plan' = [plan EXCEPT ![c] = p] /\ DOMAIN queue' = Servers
  BY <1>1, <1>2, <1>4 DEF Start, TypeOK
<1> QED
  BY <1>1, <1>5, <1>6, OnePlanStep

LEMMA ReplayStep ==
  ASSUME SemanticInv, NEW c \in Clients, Replay(c)
  PROVE  SemanticInv'
<1>1. /\ TypeOK /\ plan[c] # None /\ plan' = [plan EXCEPT ![c].phase = "refresh"]
      /\ UNCHANGED <<server, task, archive, drift, held, queue, edits, crashes>>
  BY DEF SemanticInv, Replay, HasTurn
<1>2. PICK q \in Plans : q = plan[c]
  BY <1>1 DEF TypeOK
<1>3. PlanInv(q)
  BY <1>1, <1>2 DEF SemanticInv, ClientInv
<1>4. PICK p \in Plans : p = [q EXCEPT !.phase = "refresh"] /\ PlanInv(p)
  BY <1>3, PhasePlans
<1>5. plan' = [plan EXCEPT ![c] = p] /\ DOMAIN queue' = Servers
  BY <1>1, <1>2, <1>4 DEF TypeOK
<1> QED
  BY <1>1, <1>4, <1>5, OnePlanStep

LEMMA AnswerStep ==
  ASSUME SemanticInv, NEW c \in Clients, Answer(c),
         UNCHANGED <<server, task, archive, drift, held, edits, crashes>>
  PROVE  SemanticInv'
<1>1. plan' = [plan EXCEPT ![c] = None] /\ DOMAIN queue' = Servers
  BY DEF SemanticInv, TypeOK, Answer
<1> QED
  BY <1>1, OnePlanStep

LEMMA RefreshStep ==
  ASSUME SemanticInv, NEW c \in Clients, Refresh(c)
  PROVE  SemanticInv'
<1>1. /\ TypeOK /\ TaskInv /\ plan[c] # None
      /\ UNCHANGED <<server, task, archive, drift, held, edits, crashes>>
  BY DEF SemanticInv, Refresh
<1>2. CASE Continues(c) = "none"
  BY <1>1, <1>2, AnswerStep DEF Refresh
<1>3. CASE Continues(c) # "none"
  <2>1. PICK q \in Plans : q = plan[c]
    BY <1>1 DEF TypeOK
  <2>2. PlanInv(q)
    BY <1>1, <2>1 DEF SemanticInv, ClientInv
  <2>3. PICK p : p = Reread(c, Continues(c))
    OBVIOUS
  <2>4. p \in Plans /\ PlanInv(p)
    BY <1>1, <1>3, <2>1, <2>2, <2>3, RefreshPlans
  <2>5. plan' = [plan EXCEPT ![c] = p] /\ DOMAIN queue' = Servers
    BY <1>1, <1>3, <2>3 DEF Refresh, TypeOK
  <2> QED
    BY <1>1, <2>4, <2>5, OnePlanStep
<1> QED
  BY <1>2, <1>3

LEMMA CrashStep ==
  ASSUME SemanticInv, NEW s \in Servers, Crash(s)
  PROVE  SemanticInv'
<1>1. /\ UNCHANGED <<server, task, archive, drift, held, edits>>
      /\ plan' = [c \in Clients |-> IF server[c] = s THEN None ELSE plan[c]]
      /\ crashes < MaxCrashes /\ crashes' = crashes + 1 /\ queue' = [queue EXCEPT ![s] = <<>>]
  BY DEF Crash
<1>2. /\ plan' \in [Clients -> Plans \cup {None}] /\ DOMAIN queue' = Servers
      /\ crashes' \in 0 .. MaxCrashes
  BY <1>1, SemanticAssumption DEF SemanticInv, TypeOK
<1>3. \A c \in Clients : \A p \in {plan'[c]} \ {None} : PlanInv(p)
  BY <1>1 DEF SemanticInv, ClientInv
<1> QED
  BY <1>1, <1>2, <1>3, PlanningStep

-----------------------------------------------------------------------------
(* The files and the archive *)

LEMMA EditStep ==
  ASSUME SemanticInv, Edit
  PROVE  SemanticInv'
<1>1. /\ TypeOK /\ TaskInv /\ drift' = edits + 1 /\ edits' = edits + 1 /\ edits < MaxEdits
      /\ UNCHANGED <<server, task, archive, held, plan, queue, crashes>>
  BY DEF SemanticInv, Edit
<1>2. drift \in Nat /\ edits \in Nat /\ drift' \in Nat /\ drift < drift' /\ MaxEdits \in Nat
  BY <1>1, SemanticAssumption DEF TypeOK
<1>3. TypeOK'
  BY <1>1, <1>2 DEF TypeOK
<1>4. TaskInv'
  <2>1. Positioned'
    BY <1>1 DEF TaskInv, Positioned, MidProduce, At, Checkpoint
  <2>2. Gated'
    BY <1>1, <1>2 DEF TaskInv, Gated, MidProduce, At
  <2>3. Marked'
    BY <1>1 DEF TaskInv, Marked, MarkedBy, Begun, Issued, SubjectNow, MidProduce, At, IsReview,
                IsTriage, Current
  <2>4. Archived'
    BY <1>1 DEF TaskInv, Archived, ChoicesAt, IsDecision, Begun, Issued, SubjectNow, MidProduce
  <2> QED
    BY <2>1, <2>2, <2>3, <2>4 DEF TaskInv
<1>5. ASSUME NEW p \in Plans, PlanInv(p) PROVE PlanInv(p)'
  <2>1. p.seen[1] \in Nat
    BY DEF Plans
  <2>2. UpToDate(p)' => UpToDate(p)
    BY <1>1 DEF UpToDate
  <2>3. Planned(p)'
    BY <1>1, <1>2, <1>5, <2>1, BegunStill DEF PlanInv, Planned, UpToDate
  <2>4. Waiting(p)'
    BY <1>1, <1>5 DEF PlanInv, Waiting, UpToDate, At
  <2>5. Joined(p)'
    BY <1>1, <1>5 DEF PlanInv, Joined, UpToDate, Coming, EnterFirst
  <2>6. Accepting(p)'
    <3>1. UpToDate(p)' => p.seen[1] < drift'
      BY <1>2, <1>5, <2>1, <2>2 DEF PlanInv, Planned
    <3>2. p.seen = Seen' => p.seen[1] = drift'
      BY DEF Seen
    <3> QED
      BY <1>2, <2>1, <3>1, <3>2 DEF Accepting
  <2> QED
    BY <2>3, <2>4, <2>5, <2>6 DEF PlanInv
<1>6. ASSUME NEW c \in Clients PROVE ClientInv(c)'
  <2>1. \A call \in {held'[c]} \ {None} : Asked(call)'
    BY <1>1, AskedStill DEF SemanticInv, ClientInv
  <2>2. \A p \in {plan'[c]} \ {None} : p \in Plans /\ PlanInv(p)
    BY <1>1 DEF SemanticInv, ClientInv, TypeOK
  <2> QED
    BY <1>5, <2>1, <2>2 DEF ClientInv
<1> QED
  BY <1>3, <1>4, <1>6 DEF SemanticInv

(* A decision is put into the archive of an open gate. *)
LEMMA ArchiveGrows ==
  ASSUME NEW p \in Plans, PlanInv(p), archive = None, archive' # None, UNCHANGED <<task, drift>>
  PROVE  PlanInv(p)'
<1>1. UpToDate(p)' => UpToDate(p)
  BY DEF UpToDate
<1>2. Planned(p)'
  BY BegunStill DEF PlanInv, Planned, UpToDate
<1>3. Waiting(p)'
  BY DEF PlanInv, Waiting, UpToDate, At
<1>4. Joined(p)'
  BY DEF PlanInv, Joined, UpToDate, Coming, EnterFirst
<1>5. Accepting(p)'
  <2>1. UpToDate(p)' => ~p.seen[2]
    BY <1>1 DEF PlanInv, Planned
  <2>2. p.seen = Seen' => p.seen[2]
    <3>1. PICK b \in BOOLEAN : b <=> archive' # None
      OBVIOUS
    <3>2. Seen' = <<drift', b>> /\ b
      BY <3>1 DEF Seen
    <3> QED
      BY <3>2
  <2> QED
    BY <2>1, <2>2 DEF Accepting
<1> QED
  BY <1>2, <1>3, <1>4, <1>5 DEF PlanInv

LEMMA ArchiveStep ==
  ASSUME SemanticInv, UNCHANGED <<server, task, drift, held, edits, crashes>>, DOMAIN queue' = Servers,
         plan' \in [Clients -> Plans \cup {None}],
         \A c \in Clients : \A p \in {plan'[c]} \ {None} : PlanInv(p),
         archive = None, NEW op \in Named, NEW choice \in Sayings,
         archive' = [op |-> op, choice |-> choice],
         task.gate # None, choice \in ChoicesAt(task.gate),
         op \notin LocalOps => IsDecision(op)
  PROVE  SemanticInv'
<1>1. CASE archive' = archive
  BY <1>1, PlanningStep DEF SemanticInv, TypeOK
<1>2. CASE archive' # archive
  <2>1. TypeOK /\ TaskInv
    BY DEF SemanticInv
  <2>2. TypeOK'
    BY <2>1 DEF TypeOK
  <2>3. TaskInv'
    <3>1. Positioned'
      BY <2>1 DEF TaskInv, Positioned, MidProduce, At, Checkpoint
    <3>2. Gated'
      BY <2>1 DEF TaskInv, Gated, MidProduce, At
    <3>3. Marked'
      BY <2>1 DEF TaskInv, Marked, MarkedBy, Begun, Issued, SubjectNow, MidProduce, At, IsReview,
                  IsTriage, Current
    <3>4. Archived'
      BY BegunStill DEF Archived, ChoicesAt
    <3> QED
      BY <3>1, <3>2, <3>3, <3>4 DEF TaskInv
  <2>4. ASSUME NEW c \in Clients PROVE ClientInv(c)'
    <3>1. \A call \in {held'[c]} \ {None} : Asked(call)'
      BY AskedStill DEF SemanticInv, ClientInv
    <3>2. \A p \in {plan'[c]} \ {None} : PlanInv(p)'
      BY <1>2, ArchiveGrows
    <3> QED
      BY <3>1, <3>2 DEF ClientInv
  <2> QED
    BY <2>2, <2>3, <2>4 DEF SemanticInv
<1> QED
  BY <1>1, <1>2

LEMMA AnswerLocallyStep ==
  ASSUME SemanticInv, AnswerLocally
  PROVE  SemanticInv'
<1>1. /\ TypeOK /\ task.gate # None /\ archive = None
      /\ UNCHANGED <<server, task, drift, held, plan, queue, edits, crashes>>
  BY DEF SemanticInv, AnswerLocally
<1>2. PICK op \in LocalOps, choice \in ChoicesAt(task.gate) : archive' = [op |-> op, choice |-> choice]
  BY DEF AnswerLocally
<1>3. op \in Named /\ choice \in Sayings
  BY <1>2 DEF Named, ChoicesAt, Sayings
<1>4. /\ DOMAIN queue' = Servers /\ plan' \in [Clients -> Plans \cup {None}]
      /\ \A c \in Clients : \A p \in {plan'[c]} \ {None} : PlanInv(p)
  BY <1>1 DEF SemanticInv, ClientInv, TypeOK
<1> QED
  BY <1>1, <1>2, <1>3, <1>4, ArchiveStep

-----------------------------------------------------------------------------
(* Commits: every one is a revision later, the subject never goes back, and *)
(* while the reviewed work stays the same so does its attempt.              *)
Moved ==
  /\ task'.revision = task.revision + 1
  /\ task.subject <= task'.subject
  /\ task'.subject = task.subject /\ ~MidProduce(task)' =>
       ~MidProduce(task) /\ task'.attempt = task.attempt
  /\ task'.subject = task.subject /\ task.evidence \in {"empty", "clean", "revise"} =>
       task'.evidence \in {"empty", "clean", "revise"}

LEMMA IssuedMoved ==
  ASSUME TypeOK, Moved, NEW token, Issued(token)
  PROVE  Issued(token)' /\ token.revision # task'.revision
<1>1. task.revision \in Nat /\ token.revision \in Nat /\ token.revision <= task.revision
  BY DEF TypeOK, Tasks, Issued, Offers
<1>2. task'.revision = task.revision + 1
  BY DEF Moved
<1> QED
  BY <1>1, <1>2 DEF Issued

LEMMA BegunMoved ==
  ASSUME TypeOK, task' \in Tasks, Moved, NEW op, Begun(op)
  PROVE  Begun(op)' /\ (Emptied(op) => Emptied(op)')
<1>1. Issued(op.token)' /\ op.token.revision # task'.revision
  BY IssuedMoved DEF Begun
<1>2. /\ op \in Operations /\ op.subject \in Nat /\ op.subject <= task.subject
      /\ task.subject \in Nat /\ task'.subject \in Nat
  BY DEF Begun, Operations, TypeOK, Tasks
<1>3. op.subject <= task'.subject
  BY <1>2 DEF Moved
<1>4. op.subject = task'.subject => task'.subject = task.subject
  BY <1>2 DEF Moved
<1>5. op.subject = task'.subject /\ ~MidProduce(task)' => op.attempt = task'.attempt
  BY <1>4 DEF Begun, Moved
<1>6. Emptied(op) => Emptied(op)'
  BY <1>4 DEF Emptied, Moved
<1> QED
  BY <1>1, <1>2, <1>3, <1>5, <1>6 DEF Begun

LEMMA PlanMoved ==
  ASSUME TypeOK, TypeOK', Moved, NEW p \in Plans, PlanInv(p)
  PROVE  PlanInv(p)'
<1>1. p.read \in Nat /\ task.revision \in Nat /\ p.read <= task.revision
  BY DEF Plans, PlanInv, Planned, TypeOK, Tasks
<1>2. ~UpToDate(p)' /\ p.read <= task'.revision
  BY <1>1 DEF Moved, UpToDate
<1>3. /\ Begun(p.op) => Begun(p.op)' /\ (Emptied(p.op) => Emptied(p.op)')
      /\ IsDecision(p.op) => IsDecision(p.op)'
  BY BegunMoved DEF IsDecision, TypeOK
<1>4. Planned(p)'
  BY <1>2, <1>3 DEF PlanInv, Planned, Decisions
<1>5. Waiting(p)' /\ Joined(p)' /\ Accepting(p)'
  BY <1>2 DEF Waiting, Joined, Accepting
<1> QED
  BY <1>4, <1>5 DEF PlanInv

LEMMA AskedMoved ==
  ASSUME TypeOK, Moved, NEW call, Asked(call)
  PROVE  Asked(call)'
<1>1. Issued(call.offer)' /\ call.offer.revision # task'.revision
  BY IssuedMoved DEF Asked
<1> QED
  BY <1>1 DEF Asked

(* The client invariant after a commit, from that of the task. *)
LEMMA MovedStep ==
  ASSUME SemanticInv, UNCHANGED <<server, held, queue, edits, crashes>>,
         plan' \in [Clients -> Plans \cup {None}],
         \A c \in Clients : \A p \in {plan'[c]} \ {None} : PlanInv(p),
         task' \in Tasks, archive' \in {None, archive}, drift' \in {0, drift}, Moved, TaskInv'
  PROVE  SemanticInv'
<1>1. TypeOK /\ TypeOK'
  <2>1. drift' \in 0 .. edits
    BY DEF SemanticInv, TypeOK
  <2>2. archive' \in [op : Named, choice : Sayings] \cup {None}
    BY DEF SemanticInv, TypeOK
  <2> QED
    BY <2>1, <2>2 DEF SemanticInv, TypeOK
<1>2. ASSUME NEW c \in Clients PROVE ClientInv(c)'
  <2>1. \A call \in {held'[c]} \ {None} : Asked(call)'
    BY <1>1, AskedMoved DEF SemanticInv, ClientInv
  <2>2. \A p \in {plan'[c]} \ {None} : PlanInv(p)'
    BY <1>1, PlanMoved
  <2> QED
    BY <2>1, <2>2 DEF ClientInv
<1> QED
  BY <1>1, <1>2 DEF SemanticInv

(* What a commit makes of the task, for a plan that is legal. *)
Committable(q) ==
  /\ TypeOK /\ TaskInv /\ PlanInv(q) /\ Legal(q)
  /\ UpToDate(q) \/ q.substep \in Decisions \/ q.checkpoint

MovesTask == task' \in Tasks /\ archive' \in {None, archive} /\ drift' \in {0, drift} /\ Moved /\ TaskInv'

LEMMA InstallIs ==
  ASSUME TypeOK, NEW c \in Clients, NEW q \in Plans, q = plan[c], NEW t \in Tasks,
         t.revision = task.revision, Install(c, t)
  PROVE  /\ task' \in Tasks /\ task'.revision = task.revision + 1
         /\ task'.step = t.step /\ task'.status = t.status /\ task'.attempt = t.attempt
         /\ task'.subject = t.subject /\ task'.evidence = t.evidence /\ task'.gate = t.gate
         /\ task'.approved = t.approved /\ task'.done = t.done
         /\ task'.last.op = q.op /\ task'.last.substep = q.substep
<1>1. PICK last : last = [op |-> q.op, substep |-> q.substep, say |-> q.say, before |-> task.attempt]
  OBVIOUS
<1>2. last \in Lasts /\ last.op = q.op /\ last.substep = q.substep
  BY <1>1 DEF Lasts, Plans, TypeOK, Tasks
<1>3. PICK n \in Nat : n = task.revision + 1
  BY DEF TypeOK, Tasks
<1>4. task' = [t EXCEPT !.revision = n, !.last = last]
  <2>1. task' = [t EXCEPT !.revision = @ + 1, !.last = last]
    BY <1>1 DEF Install
  <2> QED
    BY <1>3, <2>1 DEF Tasks
<1>5. task' \in Tasks
  BY <1>2, <1>3, <1>4 DEF Tasks
<1>6. /\ task'.revision = n /\ task'.last = last
      /\ task'.step = t.step /\ task'.status = t.status /\ task'.attempt = t.attempt
      /\ task'.subject = t.subject /\ task'.evidence = t.evidence /\ task'.gate = t.gate
      /\ task'.approved = t.approved /\ task'.done = t.done
  BY <1>4 DEF Tasks
<1> QED
  BY <1>2, <1>3, <1>5, <1>6

(* A commit where no gate is open. *)
LEMMA PlainCommit ==
  ASSUME TypeOK, TaskInv, task.gate = None, task' \in Tasks, task'.gate = None,
         archive' = archive, drift' \in {0, drift}, Moved, Positioned',
         \/ task'.last.substep \notin Resumable
         \/ \A op \in {task'.last.op} : MarkedBy(op)'
  PROVE  MovesTask
<1>1. archive = None
  BY DEF TaskInv, Archived
<1>2. Gated' /\ Archived'
  BY <1>1 DEF Gated, Archived
<1>3. Marked'
  BY DEF Marked, MarkedBy, Resumable
<1> QED
  BY <1>2, <1>3 DEF MovesTask, TaskInv

LEMMA BeginWorkCommit ==
  ASSUME NEW c \in Clients, NEW q \in Plans, q = plan[c], Committable(q), BeginWork(c)
  PROVE  MovesTask
<1>1. /\ TypeOK /\ TaskInv /\ q.substep = "begin-work" /\ UNCHANGED <<archive, drift>>
      /\ task.gate = None /\ At("produce", "failed")
  BY DEF Committable, BeginWork, Doing, Legal
<1>2. PICK t \in Tasks : t = [task EXCEPT !.status = "running", !.attempt = @ + 1]
  <2>1. PICK n \in Nat : n = task.attempt + 1
    BY <1>1 DEF TypeOK, Tasks
  <2>2. [task EXCEPT !.status = "running", !.attempt = n] \in Tasks
    BY <1>1 DEF TypeOK, Tasks
  <2>3. [task EXCEPT !.status = "running", !.attempt = n] =
          [task EXCEPT !.status = "running", !.attempt = @ + 1]
    BY <1>1, <2>1 DEF TypeOK, Tasks
  <2> QED
    BY <2>2, <2>3
<1>3. /\ t.revision = task.revision /\ t.step = "produce" /\ t.status = "running"
      /\ t.subject = task.subject /\ t.evidence = task.evidence /\ t.gate = None
      /\ t.approved = task.approved /\ t.done = task.done
  BY <1>1, <1>2 DEF TypeOK, Tasks, At
<1>4. /\ task' \in Tasks /\ task'.revision = task.revision + 1
      /\ task'.step = "produce" /\ task'.status = "running" /\ task'.gate = None
      /\ task'.subject = task.subject /\ task'.evidence = task.evidence
      /\ task'.approved = task.approved /\ task'.done = task.done
      /\ task'.last.substep = "begin-work"
  <2>1. Install(c, t)
    BY <1>2 DEF BeginWork
  <2> QED
    BY <1>1, <1>3, <2>1, InstallIs
<1>5. Positioned'
  BY <1>1, <1>4 DEF TaskInv, Positioned, MidProduce, At, Checkpoint
<1>6. Moved
  BY <1>1, <1>4 DEF Moved, MidProduce, TypeOK, Tasks
<1> QED
  BY <1>1, <1>4, <1>5, <1>6, PlainCommit DEF Resumable

LEMMA SubmitWorkCommit ==
  ASSUME NEW c \in Clients, NEW q \in Plans, q = plan[c], Committable(q), SubmitWork(c)
  PROVE  MovesTask
<1>1. /\ TypeOK /\ TaskInv /\ q.substep = "submit-work" /\ archive' = archive
      /\ task.gate = None /\ At("produce", "running")
  BY DEF Committable, SubmitWork, Doing, Legal
<1>2. ASSUME Install(c, [task EXCEPT !.status = "failed"]), UNCHANGED drift PROVE MovesTask
  <2>1. PICK t \in Tasks : t = [task EXCEPT !.status = "failed"]
    BY <1>1 DEF TypeOK, Tasks
  <2>2. /\ t.revision = task.revision /\ t.step = "produce" /\ t.status = "failed"
        /\ t.subject = task.subject /\ t.evidence = task.evidence /\ t.gate = None
        /\ t.approved = task.approved /\ t.done = task.done
    BY <1>1, <2>1 DEF TypeOK, Tasks, At
  <2>3. /\ task' \in Tasks /\ task'.revision = task.revision + 1
        /\ task'.step = "produce" /\ task'.status = "failed" /\ task'.gate = None
        /\ task'.subject = task.subject /\ task'.evidence = task.evidence
        /\ task'.approved = task.approved /\ task'.done = task.done
        /\ task'.last.substep = "submit-work"
    <3>1. Install(c, t)
      BY <1>2, <2>1
    <3> QED
      BY <1>1, <2>2, <3>1, InstallIs
  <2>4. Positioned'
    BY <1>1, <2>3 DEF TaskInv, Positioned, MidProduce, At, Checkpoint
  <2>5. Moved
    BY <1>1, <2>3 DEF Moved, MidProduce, TypeOK, Tasks
  <2> QED
    BY <1>1, <1>2, <2>3, <2>4, <2>5, PlainCommit DEF Resumable
<1>3. ASSUME Install(c, [task EXCEPT !.status = "succeeded", !.subject = @ + 1,
                                     !.evidence = "none", !.approved = FALSE]),
             drift' \in {0, drift}
      PROVE  MovesTask
  <2>1. PICK t \in Tasks : t = [task EXCEPT !.status = "succeeded", !.subject = @ + 1,
                                            !.evidence = "none", !.approved = FALSE]
    <3>1. PICK n \in Nat : n = task.subject + 1
      BY <1>1 DEF TypeOK, Tasks
    <3>2. [task EXCEPT !.status = "succeeded", !.subject = n, !.evidence = "none",
                       !.approved = FALSE] \in Tasks
      BY <1>1 DEF TypeOK, Tasks, Evidence
    <3>3. [task EXCEPT !.status = "succeeded", !.subject = n, !.evidence = "none",
                       !.approved = FALSE] =
            [task EXCEPT !.status = "succeeded", !.subject = @ + 1, !.evidence = "none",
                         !.approved = FALSE]
      BY <1>1, <3>1 DEF TypeOK, Tasks
    <3> QED
      BY <3>2, <3>3
  <2>2. /\ t.revision = task.revision /\ t.step = "produce" /\ t.status = "succeeded"
        /\ t.subject = task.subject + 1 /\ t.evidence = "none" /\ t.gate = None
        /\ ~t.approved /\ t.done = task.done
    BY <1>1, <2>1 DEF TypeOK, Tasks, At
  <2>3. /\ task' \in Tasks /\ task'.revision = task.revision + 1
        /\ task'.step = "produce" /\ task'.status = "succeeded" /\ task'.gate = None
        /\ task'.subject = task.subject + 1 /\ task'.evidence = "none"
        /\ ~task'.approved /\ task'.done = task.done
        /\ task'.last.substep = "submit-work"
    <3>1. Install(c, t)
      BY <1>3, <2>1
    <3> QED
      BY <1>1, <2>2, <3>1, InstallIs
  <2>4. task.subject \in Nat
    BY <1>1 DEF TypeOK, Tasks
  <2>5. Positioned'
    BY <1>1, <2>3, <2>4 DEF TaskInv, Positioned, MidProduce, At, Checkpoint
  <2>6. Moved
    BY <1>1, <2>3, <2>4 DEF Moved
  <2> QED
    BY <1>1, <1>3, <2>3, <2>5, <2>6, PlainCommit DEF Resumable
<1> QED
  BY <1>1, <1>2, <1>3 DEF SubmitWork

LEMMA ReviewEnterCommit ==
  ASSUME NEW c \in Clients, NEW q \in Plans, q = plan[c], Committable(q), ReviewEnter(c)
  PROVE  MovesTask
<1>1. /\ TypeOK /\ TaskInv /\ q.substep = "review-enter" /\ UNCHANGED <<archive, drift>>
      /\ task.gate = None /\ At("produce", "succeeded")
  BY DEF Committable, ReviewEnter, Doing, Legal
<1>2. Begun(q.op) /\ IsReview(q.op) /\ Current(q.op)
  BY <1>1 DEF Committable, PlanInv, Planned, Decisions
<1>3. PICK t \in Tasks : t = [task EXCEPT !.step = "counter_review", !.status = "running"]
  BY <1>1 DEF TypeOK, Tasks
<1>4. /\ t.revision = task.revision /\ t.step = "counter_review" /\ t.status = "running"
      /\ t.subject = task.subject /\ t.evidence = task.evidence /\ t.gate = None
      /\ t.approved = task.approved /\ t.done = task.done /\ t.attempt = task.attempt
  BY <1>1, <1>3 DEF TypeOK, Tasks, At
<1>5. /\ task' \in Tasks /\ task'.revision = task.revision + 1 /\ task'.attempt = task.attempt
      /\ task'.step = "counter_review" /\ task'.status = "running" /\ task'.gate = None
      /\ task'.subject = task.subject /\ task'.evidence = task.evidence
      /\ task'.approved = task.approved /\ task'.done = task.done
      /\ task'.last.substep = "review-enter" /\ task'.last.op = q.op
  <2>1. Install(c, t)
    BY <1>3 DEF ReviewEnter
  <2> QED
    BY <1>1, <1>4, <2>1, InstallIs
<1>6. task.subject \in Nat /\ ~MidProduce(task)
  BY <1>1 DEF TypeOK, Tasks, MidProduce, At
<1>7. Positioned'
  BY <1>1, <1>5, <1>6 DEF TaskInv, Positioned, MidProduce, At, Checkpoint
<1>8. Moved
  BY <1>5, <1>6 DEF Moved
<1>9. Begun(q.op)'
  BY <1>1, <1>2, <1>5, <1>8, BegunMoved DEF TypeOK
<1>10. MarkedBy(q.op)'
  BY <1>2, <1>5, <1>9 DEF MarkedBy, At, Current
<1> QED
  BY <1>1, <1>5, <1>7, <1>8, <1>10, PlainCommit

LEMMA ReviewRunCommit ==
  ASSUME NEW c \in Clients, NEW q \in Plans, q = plan[c], Committable(q), ReviewRun(c)
  PROVE  MovesTask
<1>1. /\ TypeOK /\ TaskInv /\ q.substep = "review-run" /\ UNCHANGED <<archive, drift>>
      /\ task.gate = None /\ At("counter_review", "running")
  BY DEF Committable, ReviewRun, Doing, Legal
<1>2. Begun(q.op) /\ IsReview(q.op) /\ Current(q.op)
  BY <1>1 DEF Committable, PlanInv, Planned, Decisions
<1>3. PICK found \in {"reports", "empty"} :
        Install(c, [task EXCEPT !.status = "succeeded", !.evidence = found])
  BY DEF ReviewRun
<1>4. PICK t \in Tasks : t = [task EXCEPT !.status = "succeeded", !.evidence = found]
  BY <1>1 DEF TypeOK, Tasks, Evidence
<1>5. /\ t.revision = task.revision /\ t.step = "counter_review" /\ t.status = "succeeded"
      /\ t.subject = task.subject /\ t.evidence = found /\ t.gate = None
      /\ t.approved = task.approved /\ t.done = task.done /\ t.attempt = task.attempt
  BY <1>1, <1>4 DEF TypeOK, Tasks, At
<1>6. /\ task' \in Tasks /\ task'.revision = task.revision + 1 /\ task'.attempt = task.attempt
      /\ task'.step = "counter_review" /\ task'.status = "succeeded" /\ task'.gate = None
      /\ task'.subject = task.subject /\ task'.evidence = found
      /\ task'.approved = task.approved /\ task'.done = task.done
      /\ task'.last.substep = "review-run" /\ task'.last.op = q.op
  <2>1. Install(c, t)
    BY <1>3, <1>4
  <2> QED
    BY <1>1, <1>5, <2>1, InstallIs
<1>7. task.subject \in Nat /\ ~MidProduce(task) /\ task.evidence = "none"
  BY <1>1 DEF TypeOK, Tasks, MidProduce, At, TaskInv, Positioned
<1>8. Positioned'
  BY <1>1, <1>6, <1>7 DEF TaskInv, Positioned, MidProduce, At, Checkpoint
<1>9. Moved
  BY <1>6, <1>7 DEF Moved
<1>10. Begun(q.op)'
  BY <1>1, <1>2, <1>6, <1>9, BegunMoved
<1>11. MarkedBy(q.op)'
  BY <1>2, <1>6, <1>10 DEF MarkedBy, At, Current
<1> QED
  BY <1>1, <1>6, <1>8, <1>9, <1>11, PlainCommit

LEMMA TriageEnterCommit ==
  ASSUME NEW c \in Clients, NEW q \in Plans, q = plan[c], Committable(q), TriageEnter(c)
  PROVE  MovesTask
<1>1. /\ TypeOK /\ TaskInv /\ q.substep = "triage-enter" /\ UNCHANGED <<archive, drift>>
      /\ task.gate = None /\ At("counter_review", "succeeded")
  BY DEF Committable, TriageEnter, Doing, Legal
<1>2. task.subject \in Nat /\ ~MidProduce(task) /\ task.evidence \in {"reports", "empty"}
  BY <1>1 DEF TypeOK, Tasks, MidProduce, At, TaskInv, Positioned
<1>3. /\ Begun(q.op)
      /\ \/ IsReview(q.op) /\ (q.op.subject = task.subject => task.evidence = "empty")
         \/ IsTriage(q.op) /\ Current(q.op) /\ task.evidence = "reports"
  BY <1>1, <1>2 DEF Committable, PlanInv, Planned, Decisions, Emptied
<1>4. PICK t \in Tasks : t = [task EXCEPT !.step = "triage", !.status = "running"]
  BY <1>1 DEF TypeOK, Tasks
<1>5. /\ t.revision = task.revision /\ t.step = "triage" /\ t.status = "running"
      /\ t.subject = task.subject /\ t.evidence = task.evidence /\ t.gate = None
      /\ t.approved = task.approved /\ t.done = task.done /\ t.attempt = task.attempt
  BY <1>1, <1>4 DEF TypeOK, Tasks, At
<1>6. /\ task' \in Tasks /\ task'.revision = task.revision + 1 /\ task'.attempt = task.attempt
      /\ task'.step = "triage" /\ task'.status = "running" /\ task'.gate = None
      /\ task'.subject = task.subject /\ task'.evidence = task.evidence
      /\ task'.approved = task.approved /\ task'.done = task.done
      /\ task'.last.substep = "triage-enter" /\ task'.last.op = q.op
  <2>1. Install(c, t)
    BY <1>4 DEF TriageEnter
  <2> QED
    BY <1>1, <1>5, <2>1, InstallIs
<1>7. Positioned'
  BY <1>1, <1>2, <1>6 DEF TaskInv, Positioned, MidProduce, At, Checkpoint
<1>8. Moved
  BY <1>2, <1>6 DEF Moved
<1>9. Begun(q.op)'
  BY <1>1, <1>3, <1>6, <1>8, BegunMoved
<1>10. MarkedBy(q.op)'
  BY <1>3, <1>6, <1>9 DEF MarkedBy, At, Current
<1> QED
  BY <1>1, <1>6, <1>7, <1>8, <1>10, PlainCommit

LEMMA TriageCommit ==
  ASSUME NEW c \in Clients, NEW q \in Plans, q = plan[c], Committable(q), Triage(c)
  PROVE  MovesTask
<1>1. /\ TypeOK /\ TaskInv /\ q.substep \in {"triage", "review-empty-triage"}
      /\ UNCHANGED <<archive, drift>> /\ task.gate = None /\ At("triage", "running")
  BY DEF Committable, Triage, Doing, Legal
<1>2. PICK found \in {"clean", "revise"} : found = IF q.say = "revise" THEN "revise" ELSE "clean"
  OBVIOUS
<1>3. PICK t \in Tasks : t = [task EXCEPT !.status = "succeeded", !.evidence = found]
  BY <1>1 DEF TypeOK, Tasks, Evidence
<1>4. /\ t.revision = task.revision /\ t.step = "triage" /\ t.status = "succeeded"
      /\ t.subject = task.subject /\ t.evidence = found /\ t.gate = None
      /\ t.approved = task.approved /\ t.done = task.done /\ t.attempt = task.attempt
  BY <1>1, <1>3 DEF TypeOK, Tasks, At
<1>5. /\ task' \in Tasks /\ task'.revision = task.revision + 1 /\ task'.attempt = task.attempt
      /\ task'.step = "triage" /\ task'.status = "succeeded" /\ task'.gate = None
      /\ task'.subject = task.subject /\ task'.evidence = found
      /\ task'.approved = task.approved /\ task'.done = task.done
      /\ task'.last.substep = q.substep
  <2>1. Install(c, t)
    BY <1>2, <1>3 DEF Triage
  <2> QED
    BY <1>1, <1>4, <2>1, InstallIs
<1>6. task.subject \in Nat /\ ~MidProduce(task)
  BY <1>1 DEF TypeOK, Tasks, MidProduce, At
<1>7. Positioned'
  BY <1>1, <1>5, <1>6 DEF TaskInv, Positioned, MidProduce, At, Checkpoint
<1>8. Moved
  BY <1>5, <1>6 DEF Moved
<1> QED
  BY <1>1, <1>5, <1>7, <1>8, PlainCommit DEF Resumable

LEMMA ReviseEnterCommit ==
  ASSUME NEW c \in Clients, NEW q \in Plans, q = plan[c], Committable(q), ReviseEnter(c)
  PROVE  MovesTask
<1>1. /\ TypeOK /\ TaskInv /\ q.substep = "revise-enter" /\ UNCHANGED <<archive, drift>>
      /\ \/ Checkpoint(task)
         \/ task.gate = None /\ At("triage", "succeeded") /\ task.evidence = "revise"
  <2>1. TypeOK /\ TaskInv /\ q.substep = "revise-enter" /\ UNCHANGED <<archive, drift>> /\ Legal(q)
    BY DEF Committable, ReviseEnter, Doing
  <2>2. CASE q.checkpoint
    BY <2>1, <2>2 DEF Legal
  <2>3. CASE ~q.checkpoint
    BY <2>1, <2>3 DEF Legal
  <2> QED
    BY <2>1, <2>2, <2>3
<1>2. task.gate = None /\ At("triage", "succeeded") /\ ~task.done /\ ~task.approved
  BY <1>1 DEF TaskInv, Positioned
<1>3. Begun(q.op) /\ q.op.subject # 0
  BY <1>1 DEF Committable, PlanInv, Planned, Decisions
<1>4. PICK n \in Nat : n = IF q.checkpoint THEN task.attempt ELSE task.attempt + 1
  BY <1>1 DEF TypeOK, Tasks
<1>5. PICK t \in Tasks : t = [task EXCEPT !.step = "produce", !.status = "running", !.attempt = n]
  BY <1>1 DEF TypeOK, Tasks
<1>6. t = [task EXCEPT !.step = "produce", !.status = "running",
                       !.attempt = IF q.checkpoint THEN @ ELSE @ + 1]
  BY <1>1, <1>4, <1>5 DEF TypeOK, Tasks
<1>7. /\ t.revision = task.revision /\ t.step = "produce" /\ t.status = "running"
      /\ t.subject = task.subject /\ t.evidence = task.evidence /\ t.gate = None
      /\ t.approved = task.approved /\ t.done = task.done
  BY <1>1, <1>2, <1>5 DEF TypeOK, Tasks, At
<1>8. /\ task' \in Tasks /\ task'.revision = task.revision + 1
      /\ task'.step = "produce" /\ task'.status = "running" /\ task'.gate = None
      /\ task'.subject = task.subject /\ task'.evidence = task.evidence
      /\ task'.approved = task.approved /\ task'.done = task.done
      /\ task'.last.substep = "revise-enter" /\ task'.last.op = q.op
  <2>1. Install(c, t)
    BY <1>6 DEF ReviseEnter
  <2> QED
    BY <1>1, <1>7, <2>1, InstallIs
<1>9. task.subject \in Nat /\ ~MidProduce(task) /\ MidProduce(task)'
  BY <1>1, <1>2, <1>8 DEF TypeOK, Tasks, MidProduce, At
<1>10. Positioned'
  BY <1>1, <1>2, <1>8, <1>9 DEF TaskInv, Positioned, MidProduce, At, Checkpoint
<1>11. Moved
  BY <1>8, <1>9 DEF Moved
<1>12. Begun(q.op)'
  BY <1>1, <1>3, <1>8, <1>11, BegunMoved
<1>13. MarkedBy(q.op)'
  BY <1>3, <1>8, <1>12 DEF MarkedBy
<1> QED
  BY <1>1, <1>2, <1>8, <1>10, <1>11, <1>13, PlainCommit

LEMMA OpenGateCommit ==
  ASSUME NEW c \in Clients, NEW q \in Plans, q = plan[c], Committable(q), OpenGate(c)
  PROVE  MovesTask
<1>1. /\ TypeOK /\ TaskInv /\ UNCHANGED <<archive, drift>>
      /\ task.gate = None /\ NextAction(task, drift) = "open-gate"
  BY DEF Committable, OpenGate, Doing, Legal
<1>2. PICK finding \in BOOLEAN : finding <=> Finding(task, drift)
  OBVIOUS
<1>3. /\ ~MidProduce(task) /\ task.subject \in Nat /\ task.revision \in Nat /\ drift \in Nat
      /\ finding => drift # 0
      /\ ~finding => At("triage", "succeeded") /\ task.evidence = "clean" /\ ~task.done /\ ~task.approved
  <2>1. /\ ~MidProduce(task) /\ task.subject \in Nat /\ task.revision \in Nat /\ drift \in Nat
        /\ task.evidence \in Evidence /\ task.step \in {"produce", "counter_review", "triage"}
        /\ task.status \in {"running", "failed", "succeeded"}
    BY <1>1, NextActionIs DEF TypeOK, Tasks
  <2>2. finding => drift # 0
    BY <1>2 DEF Finding
  <2>3. ~finding => /\ ~task.done /\ ~task.approved
                    /\ task.evidence \notin {"none", "reports", "empty", "revise"}
    BY <1>1, <1>2, NextActionIs
  <2>4. ~finding => At("triage", "succeeded") /\ task.evidence = "clean"
    BY <1>1, <2>1, <2>3 DEF TaskInv, Positioned, At, MidProduce, Evidence
  <2> QED
    BY <2>1, <2>2, <2>3, <2>4
<1>4. PICK gate : gate = [kind |-> IF Finding(task, drift) THEN "baseline" ELSE "approval",
                          version |-> IF Finding(task, drift) THEN drift ELSE 0,
                          opened |-> task.revision + 1]
  OBVIOUS
<1>5. /\ gate \in Gates /\ gate.opened = task.revision + 1
      /\ gate.kind = "baseline" => finding /\ gate.version = drift
      /\ gate.kind = "approval" => ~finding
  BY <1>2, <1>3, <1>4 DEF Gates
<1>6. task' = [task EXCEPT !.revision = @ + 1, !.last = Untouched, !.gate = gate]
  BY <1>4 DEF OpenGate
<1>7. /\ task' \in Tasks /\ task'.revision = task.revision + 1 /\ task'.attempt = task.attempt
      /\ task'.step = task.step /\ task'.status = task.status /\ task'.gate = gate
      /\ task'.subject = task.subject /\ task'.evidence = task.evidence
      /\ task'.approved = task.approved /\ task'.done = task.done
      /\ task'.last.substep = "none"
  <2>1. PICK last : last = Untouched
    OBVIOUS
  <2>2. last \in Lasts /\ last.substep = "none"
    BY <2>1 DEF Untouched, Lasts, Named, Sayings
  <2>3. PICK n \in Nat : n = task.revision + 1
    BY <1>3
  <2>4. task \in Tasks
    BY <1>1 DEF TypeOK
  <2>5. task' = [task EXCEPT !.revision = n, !.last = last, !.gate = gate]
    BY <1>6, <2>1, <2>3, <2>4 DEF Tasks
  <2>6. task' \in Tasks
    BY <1>5, <2>2, <2>4, <2>5 DEF Tasks
  <2> QED
    BY <2>2, <2>3, <2>4, <2>5, <2>6 DEF Tasks
<1>8. Positioned'
  BY <1>1, <1>3, <1>7 DEF TaskInv, Positioned, MidProduce, At, Checkpoint
<1>9. Gated'
  BY <1>1, <1>3, <1>5, <1>7 DEF Gated, MidProduce, At
<1>10. Marked'
  BY <1>7 DEF Marked, MarkedBy, Resumable
<1>11. archive = None /\ Archived'
  BY <1>1 DEF TaskInv, Archived
<1>12. Moved
  BY <1>3, <1>7 DEF Moved
<1> QED
  BY <1>1, <1>7, <1>8, <1>9, <1>10, <1>11, <1>12 DEF MovesTask, TaskInv

LEMMA RefreshStaleBaselineCommit ==
  ASSUME NEW c \in Clients, NEW q \in Plans, q = plan[c], Committable(q), RefreshStaleBaseline(c)
  PROVE  MovesTask
<1>1. /\ TypeOK /\ TaskInv /\ UNCHANGED <<archive, drift>>
      /\ task.gate # None /\ archive = None
  BY DEF Committable, RefreshStaleBaseline, Doing, Legal, Stale
<1>2. task.subject \in Nat /\ task.revision \in Nat /\ ~MidProduce(task)
  BY <1>1 DEF TypeOK, Tasks, TaskInv, Gated
<1>3. /\ task' \in Tasks /\ task'.revision = task.revision + 1 /\ task'.attempt = task.attempt
      /\ task'.step = task.step /\ task'.status = task.status /\ task'.gate = None
      /\ task'.subject = task.subject /\ task'.evidence = task.evidence
      /\ task'.approved = task.approved /\ task'.done = task.done
      /\ task'.last.substep = "none"
  <2>1. PICK last : last = Untouched
    OBVIOUS
  <2>2. last \in Lasts /\ last.substep = "none"
    BY <2>1 DEF Untouched, Lasts, Named, Sayings
  <2>3. PICK n \in Nat : n = task.revision + 1
    BY <1>2
  <2>4. task \in Tasks
    BY <1>1 DEF TypeOK
  <2>5. task' = [task EXCEPT !.revision = n, !.gate = None, !.last = last]
    BY <2>1, <2>3, <2>4 DEF RefreshStaleBaseline, Tasks
  <2>6. task' \in Tasks
    BY <2>2, <2>4, <2>5 DEF Tasks
  <2> QED
    BY <2>2, <2>3, <2>4, <2>5, <2>6 DEF Tasks
<1>4. Positioned'
  BY <1>1, <1>2, <1>3 DEF TaskInv, Positioned, MidProduce, At, Checkpoint
<1>5. Gated' /\ Marked' /\ Archived'
  BY <1>1, <1>3 DEF Gated, Marked, MarkedBy, Resumable, Archived
<1>6. Moved
  BY <1>2, <1>3 DEF Moved
<1> QED
  BY <1>1, <1>3, <1>4, <1>5, <1>6 DEF MovesTask, TaskInv

LEMMA FinishTaskCommit ==
  ASSUME NEW c \in Clients, NEW q \in Plans, q = plan[c], Committable(q), FinishTask(c)
  PROVE  MovesTask
<1>1. /\ TypeOK /\ TaskInv /\ q.substep = "finish-task" /\ UNCHANGED <<archive, drift>>
      /\ task.gate = None /\ task.approved
  BY DEF Committable, FinishTask, Doing, Legal
<1>2. PICK t \in Tasks : t = [task EXCEPT !.done = TRUE]
  BY <1>1 DEF TypeOK, Tasks
<1>3. /\ t.revision = task.revision /\ t.step = task.step /\ t.status = task.status
      /\ t.subject = task.subject /\ t.evidence = task.evidence /\ t.gate = None
      /\ t.approved = task.approved /\ t.attempt = task.attempt
  BY <1>1, <1>2 DEF TypeOK, Tasks
<1>4. /\ task' \in Tasks /\ task'.revision = task.revision + 1 /\ task'.attempt = task.attempt
      /\ task'.step = task.step /\ task'.status = task.status /\ task'.gate = None
      /\ task'.subject = task.subject /\ task'.evidence = task.evidence
      /\ task'.last.substep = "finish-task"
  BY <1>1, <1>2, <1>3, InstallIs DEF FinishTask
<1>5. task.subject \in Nat /\ ~MidProduce(task)
  BY <1>1 DEF TypeOK, Tasks, TaskInv, Positioned, MidProduce, At
<1>6. Positioned'
  BY <1>1, <1>4, <1>5 DEF TaskInv, Positioned, MidProduce, At, Checkpoint
<1>7. Moved
  BY <1>4, <1>5 DEF Moved
<1> QED
  BY <1>1, <1>4, <1>6, <1>7, PlainCommit DEF Resumable

LEMMA SettleDecisionCommit ==
  ASSUME NEW c \in Clients, NEW q \in Plans, q = plan[c], Committable(q), SettleDecision(c)
  PROVE  MovesTask
<1>1. /\ TypeOK /\ TaskInv /\ task.gate # None /\ archive # None /\ archive' = None
      /\ drift' = IF archive.choice = "keep-current-versions" THEN 0 ELSE drift
  BY DEF Committable, SettleDecision, Doing, Legal
<1>2. /\ archive.choice \in ChoicesAt(task.gate) /\ ~MidProduce(task)
      /\ task.subject \in Nat /\ task.revision \in Nat
      /\ archive.choice \in {"approve", "request-changes"} =>
           /\ At("triage", "succeeded") /\ task.evidence = "clean"
           /\ ~task.done /\ ~task.approved
  <2>1. archive.choice \in ChoicesAt(task.gate) /\ task.gate.kind \in {"baseline", "approval"}
    BY <1>1 DEF TaskInv, Archived, TypeOK, Tasks, Gates
  <2> QED
    BY <1>1, <2>1 DEF ChoicesAt, TaskInv, Gated, TypeOK, Tasks
<1>3. PICK last : last = IF archive.choice = "request-changes"
                         THEN [op |-> q.op, substep |-> "decision-settle",
                               say |-> "request-changes", before |-> 0]
                         ELSE [Untouched EXCEPT !.substep = "open-gate"]
  OBVIOUS
<1>4. /\ last \in Lasts /\ last.substep \in {"decision-settle", "open-gate"}
      /\ last.substep = "decision-settle" => archive.choice = "request-changes"
  BY <1>3 DEF Untouched, Lasts, Named, Sayings, Substeps, Plans
<1>5. PICK approved \in BOOLEAN :
        approved <=> task.approved \/ archive.choice = "approve"
  OBVIOUS
<1>6. PICK n \in Nat : n = task.revision + 1
  BY <1>2
<1>7. task \in Tasks /\ task.approved \in BOOLEAN
  BY <1>1 DEF TypeOK, Tasks
<1>8. task' = [task EXCEPT !.revision = n, !.gate = None, !.last = last, !.approved = approved]
  <2>1. CASE archive.choice = "request-changes"
    <3>1. approved = task.approved
      BY <1>2, <1>5, <1>7, <2>1
    <3>2. task' = [[task EXCEPT !.revision = n, !.gate = None] EXCEPT !.last = last]
      BY <1>3, <1>6, <1>7, <2>1 DEF SettleDecision, Tasks
    <3> QED
      BY <1>7, <3>1, <3>2 DEF Tasks
  <2>2. CASE archive.choice # "request-changes"
    <3>1. approved = (task.approved \/ archive.choice = "approve")
      BY <1>5, <1>7
    <3>2. task' = [[task EXCEPT !.revision = n, !.gate = None]
                     EXCEPT !.last = last, !.approved = @ \/ archive.choice = "approve"]
      BY <1>3, <1>6, <1>7, <2>2 DEF SettleDecision, Tasks
    <3> QED
      BY <1>7, <3>1, <3>2 DEF Tasks
  <2> QED
    BY <2>1, <2>2
<1>9. task' \in Tasks
  BY <1>4, <1>7, <1>8 DEF Tasks
<1>10. /\ task'.revision = task.revision + 1 /\ task'.attempt = task.attempt
       /\ task'.step = task.step /\ task'.status = task.status /\ task'.gate = None
       /\ task'.subject = task.subject /\ task'.evidence = task.evidence
       /\ task'.approved = approved /\ task'.done = task.done /\ task'.last = last
  BY <1>6, <1>7, <1>8 DEF Tasks
<1>11. Positioned'
  BY <1>1, <1>2, <1>4, <1>5, <1>10 DEF TaskInv, Positioned, MidProduce, At, Checkpoint
<1>12. Gated' /\ Marked' /\ Archived'
  BY <1>1, <1>4, <1>10 DEF Gated, Marked, MarkedBy, Resumable, Archived
<1>13. Moved
  BY <1>2, <1>10 DEF Moved
<1> QED
  BY <1>1, <1>9, <1>10, <1>11, <1>12, <1>13 DEF MovesTask, TaskInv

-----------------------------------------------------------------------------
(* Every step preserves the invariant. *)

LEMMA CommitStep ==
  ASSUME SemanticInv, NEW c \in Clients, Commit(c)
  PROVE  SemanticInv'
<1>1. /\ TypeOK /\ plan[c] # None /\ Admitted(c) /\ Substep(c)
      /\ plan' = [plan EXCEPT ![c].phase = "refresh"]
      /\ UNCHANGED <<server, held, queue, edits, crashes>>
  BY DEF SemanticInv, Commit, HasTurn
<1>2. PICK q \in Plans : q = plan[c]
  BY <1>1 DEF TypeOK
<1>3. PlanInv(q) /\ Committable(q)
  <2>1. PlanInv(q)
    BY <1>1, <1>2 DEF SemanticInv, ClientInv
  <2> QED
    BY <1>1, <1>2, <2>1 DEF SemanticInv, Committable, Admitted, ReadsUnderLock, Fresh, UpToDate,
                            Decisions
<1>4. PICK p \in Plans : p = [q EXCEPT !.phase = "refresh"] /\ PlanInv(p)
  BY <1>3, PhasePlans
<1>5. /\ plan' \in [Clients -> Plans \cup {None}]
      /\ \A d \in Clients : \A r \in {plan'[d]} \ {None} : PlanInv(r)
  <2>1. plan' = [plan EXCEPT ![c] = p]
    BY <1>1, <1>2, <1>4 DEF TypeOK
  <2> QED
    BY <1>1, <1>4, <2>1 DEF SemanticInv, ClientInv, TypeOK
<1>6. CASE ArchiveDecision(c)
  <2>1. /\ UNCHANGED <<task, drift>> /\ q.substep = "decision-archive"
        /\ archive' = IF archive = None THEN [op |-> q.op, choice |-> q.say] ELSE archive
    BY <1>2, <1>6 DEF ArchiveDecision, Doing
  <2>2. CASE archive # None
    BY <1>1, <1>5, <2>1, <2>2, PlanningStep DEF TypeOK
  <2>3. CASE archive = None
    <3>1. task.gate # None /\ q.say \in ChoicesAt(task.gate)
      BY <1>3, <2>1 DEF Committable, Legal
    <3>2. q.op \notin LocalOps => IsDecision(q.op)
      BY <1>3, <2>1 DEF PlanInv, Planned
    <3>3. q.op \in Named /\ q.say \in Sayings
      BY DEF Plans
    <3>4. DOMAIN queue' = Servers
      BY <1>1 DEF TypeOK
    <3> QED
      BY <1>1, <1>5, <2>1, <2>3, <3>1, <3>2, <3>3, <3>4, ArchiveStep
  <2> QED
    BY <2>2, <2>3
<1>7. CASE ~ArchiveDecision(c)
  <2>1. MovesTask
    BY <1>1, <1>2, <1>3, <1>7, BeginWorkCommit, SubmitWorkCommit, ReviewEnterCommit,
       ReviewRunCommit, TriageEnterCommit, TriageCommit, ReviseEnterCommit, OpenGateCommit,
       RefreshStaleBaselineCommit, FinishTaskCommit, SettleDecisionCommit DEF Substep
  <2> QED
    BY <1>1, <1>5, <2>1, MovedStep DEF MovesTask
<1> QED
  BY <1>6, <1>7

LEMMA InitialState ==
  ASSUME Init
  PROVE  SemanticInv
<1>1. PICK at \in Starts : task = Found(at)
  BY DEF Init
<1>2. /\ archive = None /\ drift = 0 /\ edits = 0 /\ crashes = 0
      /\ server \in Placements /\ queue = [s \in Servers |-> <<>>]
      /\ held = [c \in Clients |-> None] /\ plan = [c \in Clients |-> None]
  BY DEF Init
<1>3. at \in {"working", "produced", "reviewed", "emptied", "triaged"}
  BY SemanticAssumption
<1>4. PICK last : last = Untouched
  OBVIOUS
<1>5. last \in Lasts /\ last.substep = "none" /\ last.say = "none"
  BY <1>4 DEF Untouched, Lasts, Named, Sayings
<1>6. PICK step \in {"produce", "counter_review", "triage"}, status \in {"running", "succeeded"},
           subject \in {0, 1}, evidence \in {"none", "reports", "empty", "clean"} :
        /\ task = [revision |-> 1, step |-> step, status |-> status, attempt |-> 1,
                   subject |-> subject, evidence |-> evidence, gate |-> None, approved |-> FALSE,
                   done |-> FALSE, last |-> last]
        /\ \/ step = "produce" /\ evidence = "none" /\ (status = "running" \/ subject = 1)
           \/ step = "counter_review" /\ status = "succeeded" /\ subject = 1 /\ evidence \in {"reports", "empty"}
           \/ step = "triage" /\ status = "succeeded" /\ subject = 1 /\ evidence = "clean"
  <2>1. CASE at = "working"
    <3>1. task = [revision |-> 1, step |-> "produce", status |-> "running", attempt |-> 1,
                  subject |-> 0, evidence |-> "none", gate |-> None, approved |-> FALSE,
                  done |-> FALSE, last |-> last]
      BY <1>1, <1>4, <2>1 DEF Found
    <3> QED
      BY <3>1
  <2>2. CASE at = "produced"
    <3>1. task = [revision |-> 1, step |-> "produce", status |-> "succeeded", attempt |-> 1,
                  subject |-> 1, evidence |-> "none", gate |-> None, approved |-> FALSE,
                  done |-> FALSE, last |-> last]
      BY <1>1, <1>4, <2>2 DEF Found
    <3> QED
      BY <3>1
  <2>3. CASE at = "reviewed"
    <3>1. task = [revision |-> 1, step |-> "counter_review", status |-> "succeeded", attempt |-> 1,
                  subject |-> 1, evidence |-> "reports", gate |-> None, approved |-> FALSE,
                  done |-> FALSE, last |-> last]
      BY <1>1, <1>4, <2>3 DEF Found
    <3> QED
      BY <3>1
  <2>4. CASE at = "emptied"
    <3>1. task = [revision |-> 1, step |-> "counter_review", status |-> "succeeded", attempt |-> 1,
                  subject |-> 1, evidence |-> "empty", gate |-> None, approved |-> FALSE,
                  done |-> FALSE, last |-> last]
      BY <1>1, <1>4, <2>4 DEF Found
    <3> QED
      BY <3>1
  <2>5. CASE at = "triaged"
    <3>1. task = [revision |-> 1, step |-> "triage", status |-> "succeeded", attempt |-> 1,
                  subject |-> 1, evidence |-> "clean", gate |-> None, approved |-> FALSE,
                  done |-> FALSE, last |-> last]
      BY <1>1, <1>4, <2>5 DEF Found
    <3> QED
      BY <3>1
  <2> QED
    BY <1>3, <2>1, <2>2, <2>3, <2>4, <2>5
<1>7. task \in Tasks
  BY <1>5, <1>6 DEF Tasks, Evidence
<1>8. TypeOK
  BY <1>2, <1>7, SemanticAssumption DEF TypeOK
<1>9. Positioned
  BY <1>5, <1>6 DEF Positioned, MidProduce, At, Checkpoint
<1>10. Gated /\ Marked /\ Archived
  BY <1>2, <1>5, <1>6 DEF Gated, Marked, MarkedBy, Resumable, Archived
<1>11. \A c \in Clients : ClientInv(c)
  BY <1>2 DEF ClientInv
<1> QED
  BY <1>8, <1>9, <1>10, <1>11 DEF SemanticInv, TaskInv

LEMMA StepInvariant ==
  ASSUME SemanticInv, [Next]_vars
  PROVE  SemanticInv'
<1>1. CASE UNCHANGED vars
  <2>1. UNCHANGED <<server, task, archive, drift, held, plan, queue, edits, crashes>>
    BY <1>1 DEF vars
  <2>2. /\ plan' \in [Clients -> Plans \cup {None}] /\ DOMAIN queue' = Servers
        /\ crashes' \in 0 .. MaxCrashes
        /\ \A c \in Clients : \A p \in {plan'[c]} \ {None} : PlanInv(p)
    BY <2>1 DEF SemanticInv, ClientInv, TypeOK
  <2> QED
    BY <2>1, <2>2, PlanningStep
<1>2. ASSUME NEW c \in Clients, Ask(c) \/ Apply(c) \/ Step(c) PROVE SemanticInv'
  <2>1. CASE Refuse(c)
    BY <2>1, AnswerStep DEF Refuse
  <2> QED
    BY <1>2, <2>1, AskStep, ApplyStep, StartStep, CommitStep, ReplayStep, RefreshStep DEF Step
<1>3. ASSUME NEW s \in Servers, Crash(s) PROVE SemanticInv'
  BY <1>3, CrashStep
<1> QED
  BY <1>1, <1>2, <1>3, EditStep, AnswerLocallyStep DEF Next

THEOREM SemanticInvariant == Spec => []SemanticInv
<1>1. Init => SemanticInv
  BY InitialState
<1>2. SemanticInv /\ [Next]_vars => SemanticInv'
  BY StepInvariant
<1> QED
  BY <1>1, <1>2, PTL DEF Spec

(* Type correctness: what the state file, the archive, the calls and the    *)
(* plans of every client hold.                                              *)
THEOREM TypeCorrect == Spec => []TypeOK
<1>1. SemanticInv => TypeOK
  BY DEF SemanticInv
<1> QED
  BY <1>1, SemanticInvariant, PTL

-----------------------------------------------------------------------------
(* What status offers, the handlers accept (workflow-decision.ts and        *)
(* request-composition.ts): a call planned from the task as it is finds the *)
(* task at a position where its substep is legal.                           *)
THEOREM OfferedStaysLegal == Spec => []OfferedIsLegal
<1>1. SemanticInv => OfferedIsLegal
  <2>1. SUFFICES ASSUME SemanticInv, NEW c \in Clients,
                        /\ plan[c] # None /\ plan[c].phase = "commit"
                        /\ Fresh(c) /\ plan[c].seen = Seen /\ ~plan[c].late
                        /\ plan[c].substep = "refresh-stale-baseline" => archive = None
                        /\ plan[c].substep = "decision-settle" =>
                             archive # None /\ archive.op = plan[c].op
                        /\ plan[c].substep = "review-empty-triage" =>
                             plan[c].op.subject = task.subject
                 PROVE  Legal(plan[c])
    BY DEF OfferedIsLegal
  <2>2. PICK p : p = plan[c] /\ p # None
    BY <2>1
  <2>3. Accepting(p)
    BY <2>1, <2>2 DEF SemanticInv, ClientInv, PlanInv
  <2> QED
    BY <2>1, <2>2, <2>3 DEF Accepting, Fresh, UpToDate
<1> QED
  BY <1>1, SemanticInvariant, PTL

(* The substeps of an operation stay together (semantic-actions.ts, the     *)
(* continuation that last_transition authenticates): whatever other clients *)
(* do in between, a composed substep either begins an operation from a      *)
(* token for the present revision or follows the last transition of its own.*)
(* The settlement whose turn came late answers for no review that found     *)
(* something, because it is composed for an empty one again.                *)
THEOREM OperationsStayTogether == Spec => EffectsStayTogether
<1>1. ASSUME SemanticInv, [Next]_vars, NEW c \in Clients, CommitsNow(c)
      PROVE  Commit(c)
  <2>1. PICK p \in Plans : p = plan[c]
    BY <1>1 DEF SemanticInv, TypeOK, CommitsNow
  <2>2. plan'[c] # plan[c] /\ task' # task
    <3>1. plan'[c] # plan[c]
      <4>1. plan'[c] = [p EXCEPT !.phase = "refresh"] /\ p.phase = "commit"
        BY <1>1, <2>1 DEF CommitsNow
      <4>2. plan'[c].phase = "refresh"
        BY <4>1 DEF Plans
      <4> QED
        BY <4>1, <4>2, <2>1
    <3>2. task' # task
      <4>1. task.revision \in Nat
        BY <1>1 DEF SemanticInv, TypeOK, Tasks
      <4>2. task' = task => task'.revision = task.revision
        OBVIOUS
      <4> QED
        BY <1>1, <4>1, <4>2 DEF CommitsNow
    <3> QED
      BY <3>1, <3>2
  <2>3. \E d \in Clients : Commit(d)
    BY <1>1, <2>2 DEF Next, vars, Ask, Apply, Step, Start, Replay, Refuse, Refresh, Crash, Edit,
                      AnswerLocally
  <2>4. PICK d \in Clients : Commit(d)
    BY <2>3
  <2>5. d = c
    BY <1>1, <2>2, <2>4 DEF Commit, SemanticInv, TypeOK
  <2> QED
    BY <2>4, <2>5
<1>2. ASSUME SemanticInv, NEW c \in Clients, CommitsNow(c), Commit(c),
             plan[c].substep \notin {"decision-archive", "decision-settle"},
             ~plan[c].checkpoint, ~plan[c].late
      PROVE  \/ plan[c].op.token.revision = task.revision
             \/ /\ plan[c].op = task.last.op
                /\ task.last.substep = Before(plan[c].substep, plan[c].action)
  <2>1. PICK p \in Plans : p = plan[c]
    BY <1>2 DEF SemanticInv, TypeOK, CommitsNow
  <2>2. UpToDate(p) /\ Joined(p)
    <3>1. Joined(p)
      BY <1>2, <2>1 DEF SemanticInv, ClientInv, PlanInv, CommitsNow
    <3> QED
      BY <1>2, <2>1, <3>1 DEF Commit, Admitted, ReadsUnderLock, Fresh, UpToDate
  <2>3. Coming(p) = p.substep
    BY <1>2, <2>1 DEF Coming, CommitsNow
  <2> QED
    BY <1>2, <2>1, <2>2, <2>3 DEF Joined, Decisions, CommitsNow
<1>3. ASSUME SemanticInv, NEW c \in Clients, CommitsNow(c), Commit(c),
             plan[c].late, task'.evidence # task.evidence
      PROVE  task.evidence = "empty"
  <2>1. PICK p \in Plans : p = plan[c]
    BY <1>3 DEF SemanticInv, TypeOK, CommitsNow
  <2>2. p.substep \in {"triage-enter", "review-empty-triage"}
    BY <1>3, <2>1 DEF SemanticInv, ClientInv, PlanInv, Planned, CommitsNow
  <2>3. CASE p.substep = "review-empty-triage"
    BY <1>3, <2>1, <2>3 DEF Commit, Admitted, Legal
  <2>4. CASE p.substep = "triage-enter"
    <3>1. TriageEnter(c)
      BY <1>3, <2>1, <2>4 DEF Commit, Substep, Doing, BeginWork, SubmitWork, ReviewEnter, ReviewRun,
         Triage, ReviseEnter, OpenGate, RefreshStaleBaseline, FinishTask, ArchiveDecision,
         SettleDecision
    <3>2. task \in Tasks
      BY <1>3 DEF SemanticInv, TypeOK
    <3>3. task'.evidence = task.evidence
      BY <3>1, <3>2 DEF TriageEnter, Install, Tasks
    <3> QED
      BY <1>3, <3>3
  <2> QED
    BY <2>2, <2>3, <2>4
<1>4. SemanticInv /\ [Next]_vars =>
        [\A c \in Clients : CommitsNow(c) =>
           /\ /\ plan[c].substep \notin {"decision-archive", "decision-settle"}
              /\ ~plan[c].checkpoint /\ ~plan[c].late
              => \/ plan[c].op.token.revision = task.revision
                 \/ /\ plan[c].op = task.last.op
                    /\ task.last.substep = Before(plan[c].substep, plan[c].action)
           /\ plan[c].late /\ task'.evidence # task.evidence => task.evidence = "empty"]_vars
  BY <1>1, <1>2, <1>3
<1> QED
  BY <1>4, SemanticInvariant, PTL DEF Spec, EffectsStayTogether

-----------------------------------------------------------------------------
(* Retries *)

(* The operation of a retry is rebuilt from the offer of the moment.        *)
LEMMA SameOperation ==
  ASSUME NEW op \in Operations, NEW call \in Calls, NEW offer,
         op.token = call.offer, op.submission = call.submission, op.action = offer.action,
         op.attempt = offer.attempt, op.subject = offer.subject
  PROVE  Operation(call, offer) = op
BY DEF Operation, Operations

LEMMA ReviewResumes ==
  ASSUME TypeOK, TaskInv, ~Finding(task, drift), NEW call \in Calls, NEW op, op = task.last.op,
         HalfDone, op.token = call.offer, op.submission = call.submission
  PROVE  Accepted(call) /\ PlanFor(call).op = op
<1>1. MarkedBy(op) /\ task.last.substep \in Resumable
  BY DEF HalfDone, TaskInv, Marked, Resumable
<1>2. task.gate = None /\ Begun(op) /\ ~MidProduce(task) /\ ~Checkpoint(task)
  BY <1>1 DEF HalfDone, MarkedBy, At, MidProduce, Checkpoint
<1>3. op \in Operations /\ op # None
  BY <1>2, NoneAssumption DEF Begun
<1>4. Current(op)
  BY <1>1, <1>2 DEF HalfDone, MarkedBy, Begun, Current
<1>5. /\ ~Stale(task, drift)
      /\ ~task.done
  BY <1>1, <1>2 DEF Stale, HalfDone, MarkedBy, TaskInv, Positioned, At
<1>6. \/ /\ task.last.substep = "review-enter" /\ At("counter_review", "running")
         /\ IsReview(op) /\ task.evidence = "none"
      \/ /\ task.last.substep = "review-run" /\ At("counter_review", "succeeded")
         /\ IsReview(op) /\ task.evidence = "empty"
      \/ /\ task.last.substep = "triage-enter" /\ At("triage", "running")
         /\ IsReview(op) /\ task.evidence = "empty"
      \/ /\ task.last.substep = "triage-enter" /\ At("triage", "running")
         /\ IsTriage(op) /\ task.evidence = "reports"
  BY <1>1 DEF HalfDone, MarkedBy, TaskInv, Positioned
<1>7. NextAction(task, drift) = IF task.evidence = "none" THEN "counter_review" ELSE "triage"
  BY <1>2, <1>5, <1>6 DEF NextAction
<1>8. Shape(task, archive, drift) =
        IF task.evidence = "none" THEN <<"review", "review-dispatch">>
        ELSE IF task.evidence = "reports" THEN <<"triage", "triage">> ELSE <<"review", "none">>
  BY <1>2, <1>6, <1>7 DEF Shape
<1>9. /\ OfferNow.action = op.action /\ OfferNow.action \in {"review", "triage"}
      /\ OfferNow.attempt = op.attempt /\ OfferNow.subject = op.subject
      /\ Matches(OfferNow.expected, call.submission) /\ Offered
  <2>1. /\ OfferNow.action = Shape(task, archive, drift)[1]
        /\ OfferNow.expected = Shape(task, archive, drift)[2]
        /\ OfferNow.attempt = task.attempt /\ OfferNow.subject = task.subject
    BY <1>2 DEF OfferNow, OfferOf
  <2>2. OfferNow.attempt = op.attempt /\ OfferNow.subject = op.subject
    BY <1>4, <2>1 DEF Current
  <2>3. CASE IsReview(op) /\ task.evidence \in {"none", "empty"}
    BY <1>8, <2>1, <2>2, <2>3 DEF IsReview, Matches, Offered
  <2>4. CASE IsTriage(op) /\ task.evidence = "reports"
    BY <1>8, <2>1, <2>2, <2>4 DEF IsTriage, Matches, Offered, Nothing
  <2> QED
    BY <1>6, <2>3, <2>4
<1>10. Operation(call, OfferNow) = op
  BY <1>3, <1>9, SameOperation
<1>11. Predecessor = task.last.substep
  <2>1. OfferNow.action = IF task.evidence = "reports" THEN "triage" ELSE "review"
    BY <1>6, <1>9 DEF IsReview, IsTriage
  <2> QED
    BY <1>6, <2>1 DEF Predecessor, FirstReviewSubstep, At
<1>12. Interrupted(OfferNow) = op
  BY <1>11, InterruptedIs
<1>13. ~EnteredBy(call) /\ ~DecidedBefore(call)
  BY <1>9, NeverEntered DEF DecidedBefore, TaskInv
<1>14. Accepted(call)
  BY <1>9, <1>10, <1>12, <1>13 DEF Accepted
<1> QED
  BY <1>3, <1>12, <1>13, <1>14 DEF PlanFor

LEMMA DecisionResumes ==
  ASSUME TypeOK, TaskInv, ~Finding(task, drift), NEW call \in Calls, NEW op,
         archive # None, op = archive.op, op \notin LocalOps,
         op.token = call.offer, op.submission = call.submission, op.token.gate = task.gate.opened
  PROVE  Accepted(call) /\ PlanFor(call).op = op
<1>1. /\ task.gate # None /\ IsDecision(op) /\ Begun(op) /\ Issued(op.token)
      /\ op.action = "decide" /\ op.submission.kind = "decision"
  BY DEF TaskInv, Archived, IsDecision, Begun
<1>2. op \in Operations /\ op # None
  BY <1>1, NoneAssumption DEF Begun
<1>3. task.gate.opened = task.revision /\ ~MidProduce(task) /\ task.last.substep = "none"
  BY <1>1 DEF TaskInv, Gated
<1>4. drift = 0 /\ ~task.done
  <2>1. drift = 0
    BY <1>3 DEF Finding
  <2>2. task.gate.kind \in {"baseline", "approval"}
    BY <1>1 DEF TypeOK, Tasks, Gates
  <2> QED
    BY <1>1, <2>1, <2>2 DEF TaskInv, Gated
<1>5. NextAction(task, drift) = "resolve-open-gate"
  BY <1>1, <1>4 DEF NextAction, Stale, Finding
<1>6. ~Checkpoint(task)
  BY <1>3 DEF Checkpoint
<1>7. \A a : Shape(task, a, drift) = <<"decide", IF a = None THEN "decision" ELSE "none">>
  BY <1>5, <1>6 DEF Shape
<1>8. /\ op.token.revision = task.revision /\ op.token.gate = task.revision
      /\ op.token.action = "decide" /\ op.token.expected = "decision" /\ ~op.token.archived
      /\ op.token.attempt = task.attempt /\ op.token.subject = task.subject
      /\ op.attempt = task.attempt /\ op.subject = task.subject
  BY <1>1, <1>3 DEF IsDecision, Begun, Issued, SubjectNow
<1>9. call.offer = OfferOf(task, None, drift)
  <2>1. op.token \in Offers
    BY <1>1 DEF Issued
  <2>2. op.token.archived = FALSE
    BY <1>8, <2>1 DEF Offers
  <2>3. OfferOf(task, None, drift) =
          [revision |-> task.revision, action |-> "decide", expected |-> "decision",
           attempt |-> task.attempt, subject |-> task.subject, gate |-> task.revision,
           archived |-> FALSE]
    <3>1. Shape(task, None, drift) = <<"decide", "decision">>
      BY <1>7
    <3>2. /\ (IF MidProduce(task) THEN 0 ELSE task.subject) = task.subject
          /\ (IF task.gate = None THEN 0 ELSE task.gate.opened) = task.revision
          /\ (None # None) = FALSE
      BY <1>1, <1>3
    <3>3. Shape(task, None, drift)[1] = "decide" /\ Shape(task, None, drift)[2] = "decision"
      BY <3>1
    <3> QED
      BY <3>2, <3>3 DEF OfferOf
  <2> QED
    BY <1>8, <2>1, <2>2, <2>3 DEF Offers
<1>10. /\ OfferNow.action = "decide" /\ Offered
       /\ OfferOf(task, None, drift).action = "decide"
       /\ OfferOf(task, None, drift).attempt = task.attempt
       /\ OfferOf(task, None, drift).subject = task.subject
  BY <1>3, <1>7 DEF OfferNow, OfferOf, Offered
<1>11. Operation(call, OfferOf(task, None, drift)) = op
  BY <1>1, <1>2, <1>8, <1>10, SameOperation
<1>12. DecidedBefore(call) /\ ~EnteredBy(call)
  BY <1>1, <1>10, NeverEntered DEF DecidedBefore, TaskInv
<1>13. Accepted(call)
  BY <1>9, <1>10, <1>11, <1>12 DEF Accepted
<1>14. Interrupted(OfferNow) = op
  <2>1. Predecessor = "no substep"
    BY <1>10 DEF Predecessor
  <2> QED
    BY <1>10, <2>1, InterruptedIs
<1> QED
  BY <1>2, <1>12, <1>13, <1>14 DEF PlanFor

(* A lost answer is no lost operation (semantic-actions.ts,                 *)
(* planSemanticAction): the call that began a review, a triage or a         *)
(* decision is accepted again and goes on under the operation it began.     *)
THEOREM RetriesResume == Spec => []RetryResumes
<1>1. SemanticInv => RetryResumes
  <2>1. SUFFICES ASSUME SemanticInv, ~Finding(task, drift), NEW c \in Clients, held[c] # None
                 PROVE  /\ /\ HalfDone /\ task.last.op.token = held[c].offer
                           /\ task.last.op.submission = held[c].submission
                           => Accepted(held[c]) /\ PlanFor(held[c]).op = task.last.op
                        /\ /\ archive # None /\ archive.op \notin LocalOps
                           /\ archive.op.token = held[c].offer
                           /\ archive.op.submission = held[c].submission
                           /\ archive.op.token.gate = task.gate.opened
                           => Accepted(held[c]) /\ PlanFor(held[c]).op = archive.op
    BY DEF RetryResumes
  <2>2. PICK call \in Calls : call = held[c]
    BY <2>1 DEF SemanticInv, TypeOK
  <2>3. TypeOK /\ TaskInv
    BY <2>1 DEF SemanticInv
  <2> QED
    BY <2>1, <2>2, <2>3, ReviewResumes, DecisionResumes
<1> QED
  BY <1>1, SemanticInvariant, PTL
=============================================================================
