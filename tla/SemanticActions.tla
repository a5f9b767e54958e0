-------------------------- MODULE SemanticActions --------------------------
(***************************************************************************)
(* The facade a coding agent drives: status offers one action, bound by a  *)
(* token to everything the offer depends on, and apply carries it out.     *)
(* Apply reads the task once, decides from that snapshot which named       *)
(* substep of which operation comes first, and then commits one substep    *)
(* after another, reading the task again in between.  Other clients and    *)
(* other server processes do the same at the same time; a server may crash *)
(* between two substeps; an answer may be lost and the same call sent      *)
(* again, any time later; files change, which calls for a human decision   *)
(* at any position; a person may answer an open gate on the command line.  *)
(*                                                                         *)
(* One phase of one task is modelled.  A substep is one committed revision *)
(* (TaskKernel says how it is committed) or one archived decision          *)
(* (GateLifecycle).  A token is the offer itself, an operation digest the  *)
(* record it is computed from.  Left out: waivers, exhausted attempts,     *)
(* reopening, recoveries, the handoff and the facts of a submission.       *)
(***************************************************************************)
EXTENDS Naturals, Sequences

CONSTANTS Clients,      \* agents, each with one call at a time
          Servers,      \* server processes, each with one dispatch queue
          Placements,   \* which server each client may be connected to
          Starts,       \* the positions the task may be found at
          MaxRevision,  \* bound: committed revisions
          MaxCrashes,   \* bound: server crashes
          MaxEdits,     \* bound: changes of recorded files
          LocalOps,     \* the operation of an answer given on the command
                        \* line; empty where nobody answers there
          None

ASSUME SemanticAssumption ==
  /\ Placements \subseteq [Clients -> Servers]
  /\ Starts \subseteq {"working", "produced", "reviewed", "emptied", "triaged"}
  /\ {MaxRevision, MaxCrashes, MaxEdits} \subseteq Nat

VARIABLES
  task,     \* the state file
  archive,  \* the archived decision of the open gate: [op, choice], or None
  drift,    \* version of recorded files no decision has accepted, 0 when none
  server,   \* the server each client is connected to
  held,     \* the call each client holds and may send, or send again
  plan,     \* what its apply call is about to do, or None
  queue,    \* reviews that have or await the dispatch queue of each server
  edits, crashes
vars == <<task, archive, drift, server, held, plan, queue, edits, crashes>>

Evidence == {"none", "reports", "empty", "clean", "revise"}
Nothing == [kind |-> "none", say |-> "none"]
Untouched == [op |-> None, substep |-> "none", say |-> "none", before |-> 0]

-----------------------------------------------------------------------------
(* What the variables hold *)

Substeps == {"begin-work", "submit-work", "review-enter", "review-run", "triage-enter",
             "triage", "review-empty-triage", "revise-enter", "open-gate",
             "decision-archive", "decision-settle", "refresh-stale-baseline", "finish-task"}
Kinds == {"begin-work", "submit-work", "review", "triage", "revise", "decide", "finish-task",
          "refresh-stale-baseline"}
Expectations == {"none", "gate-summary", "decision", "work-result", "review-dispatch", "triage"}
Sayings == {"none", "succeeded", "failed", "finish", "revise", "summary",
            "keep-current-versions", "approve", "request-changes"}

Offers == [revision : Nat, action : Kinds, expected : Expectations, attempt : Nat,
           subject : Nat, gate : Nat, archived : BOOLEAN]
Submitted == [kind : {"work-result", "triage", "gate-summary", "decision"}, say : Sayings]
               \cup {Nothing}
Calls == [offer : Offers, submission : Submitted]
Operations == [token : Offers, action : Kinds, attempt : Nat, subject : Nat,
               submission : Submitted]
Named == Operations \cup LocalOps \cup {None}

Gates == [kind : {"baseline", "approval"}, version : Nat, opened : Nat]
Lasts == [op : Named, substep : Substeps \cup {"none"}, say : Sayings, before : Nat]
Tasks == [revision : Nat, step : {"produce", "counter_review", "triage"},
          status : {"running", "failed", "succeeded"}, attempt : Nat, subject : Nat,
          evidence : Evidence, gate : Gates \cup {None}, approved : BOOLEAN, done : BOOLEAN,
          last : Lasts]
Plans == [op : Named, action : Kinds, substep : Substeps, say : Sayings, checkpoint : BOOLEAN,
          read : Nat, seen : Nat \X BOOLEAN, late : BOOLEAN,
          phase : {"queued", "commit", "refresh"}]

ASSUME NoneAssumption == None \notin Operations

-----------------------------------------------------------------------------
(* What status offers *)

MidProduce(t) == t.step = "produce" /\ t.status # "succeeded"

(* While work is produced, changed files are expected. *)
Finding(t, d) == d # 0 /\ ~MidProduce(t)

Stale(t, d) == t.gate # None /\ t.gate.kind = "baseline" /\ d # 0 /\ t.gate.version # d

Checkpoint(t) == t.last.substep = "decision-settle" /\ t.last.say = "request-changes"

(* What-if: an open gate is not preferred to opening one. *)
NextActionOpensTwice(t, d) ==
  IF Stale(t, d) THEN "refresh-stale-baseline"
  ELSE IF Finding(t, d) THEN "open-gate"
  ELSE IF t.done THEN "task-complete"
  ELSE IF t.gate # None THEN "resolve-open-gate"
  ELSE IF MidProduce(t) \/ t.evidence = "revise" THEN "produce"
  ELSE IF t.evidence = "none" THEN "counter_review"
  ELSE IF t.evidence \in {"reports", "empty"} THEN "triage"
  ELSE IF t.approved THEN "complete-task" ELSE "open-gate"

NextAction(t, d) ==
  IF Stale(t, d) THEN "refresh-stale-baseline"
  ELSE IF Finding(t, d) THEN IF t.gate = None THEN "open-gate" ELSE "resolve-open-gate"
  ELSE IF t.done THEN "task-complete"
  ELSE IF t.gate # None THEN "resolve-open-gate"
  ELSE IF MidProduce(t) \/ t.evidence = "revise" THEN "produce"
  ELSE IF t.evidence = "none" THEN "counter_review"
  ELSE IF t.evidence \in {"reports", "empty"} THEN "triage"
  ELSE IF t.approved THEN "complete-task" ELSE "open-gate"

(* The action status shows and the submission it expects. *)
Shape(t, a, d) ==
  LET code == NextAction(t, d) IN
  IF Checkpoint(t) THEN <<"revise", "none">>
  ELSE IF code = "open-gate" THEN <<"decide", "gate-summary">>
  ELSE IF code = "resolve-open-gate"
    THEN <<"decide", IF a = None THEN "decision" ELSE "none">>
  ELSE IF code = "produce"
    THEN IF t.step = "triage" THEN <<"revise", "none">>
         ELSE IF t.step = "produce" /\ t.status = "running" THEN <<"submit-work", "work-result">>
         ELSE <<"begin-work", "none">>
  ELSE IF code = "counter_review" THEN <<"review", "review-dispatch">>
  ELSE IF code = "triage"
    THEN IF t.evidence = "reports" THEN <<"triage", "triage">> ELSE <<"review", "none">>
  ELSE IF code = "complete-task" THEN <<"finish-task", "none">>
  ELSE IF code = "refresh-stale-baseline" THEN <<code, "none">>
  ELSE <<"none", "none">>

(* The offer the token is a digest of.  Work in progress has no subject. *)
OfferOf(t, a, d) ==
  [revision |-> t.revision, action |-> Shape(t, a, d)[1], expected |-> Shape(t, a, d)[2],
   attempt |-> t.attempt, subject |-> IF MidProduce(t) THEN 0 ELSE t.subject,
   gate |-> IF t.gate = None THEN 0 ELSE t.gate.opened, archived |-> a # None]

OfferNow == OfferOf(task, archive, drift)
Offered == OfferNow.action # "none"

ChoicesAt(gate) ==
  IF gate.kind = "baseline" THEN {"keep-current-versions"} ELSE {"approve", "request-changes"}

(* What a client may submit with an offer. *)
Submissions(offer) ==
  IF offer.expected = "work-result" THEN [kind : {"work-result"}, say : {"succeeded", "failed"}]
  ELSE IF offer.expected = "triage" THEN [kind : {"triage"}, say : {"finish", "revise"}]
  ELSE IF offer.expected = "gate-summary" THEN [kind : {"gate-summary"}, say : {"summary"}]
  ELSE IF offer.expected = "decision" THEN [kind : {"decision"}, say : ChoicesAt(task.gate)]
  ELSE {Nothing}

-----------------------------------------------------------------------------
(* Planning *)

Operation(call, offer) ==
  [token |-> call.offer, action |-> offer.action, attempt |-> offer.attempt,
   subject |-> offer.subject, submission |-> call.submission]

Matches(expected, submission) ==
  IF submission = Nothing THEN expected \in {"none", "review-dispatch"}
  ELSE submission.kind = expected

(* The first substep a review has not done yet. *)
FirstReviewSubstep ==
  IF task.step = "counter_review" /\ task.status = "running" THEN "review-run"
  ELSE IF task.evidence = "empty" THEN "review-empty-triage"
  ELSE "review-enter"

EnterFirst(direct) ==
  IF task.step = "counter_review" /\ task.status = "succeeded" THEN "triage-enter" ELSE direct

FirstSubstep(offer) ==
  IF offer.action = "review" THEN FirstReviewSubstep
  ELSE IF offer.action = "triage" THEN EnterFirst("triage")
  ELSE IF offer.action = "revise" THEN "revise-enter"
  ELSE IF offer.action = "decide"
    THEN IF offer.expected = "gate-summary" THEN "open-gate"
         ELSE IF offer.expected = "decision" THEN "decision-archive" ELSE "decision-settle"
  ELSE offer.action

(* The operation whose remaining substeps the offer stands for, when the    *)
(* last transition, or the archived decision, says so.                      *)
Interrupted(offer) ==
  LET continues ==
        IF offer.action = "review"
        THEN IF FirstReviewSubstep = "review-run" THEN "review-enter"
             ELSE IF FirstReviewSubstep = "review-enter" THEN "no substep"
             ELSE IF task.step = "triage" THEN "triage-enter" ELSE "review-run"
        ELSE IF offer.action = "triage" /\ task.step = "triage" THEN "triage-enter"
        ELSE "no substep"
  IN IF task.last.substep = continues THEN task.last.op
     ELSE IF offer.action = "decide" /\ archive # None THEN archive.op
     ELSE None

(* A revision that was entered by this very call: the operation is rebuilt  *)
(* from the present offer, under the attempt before the entry.              *)
EnteredBy(call) ==
  /\ task.step = "produce" /\ task.status = "running"
  /\ task.last.substep = "revise-enter"
  /\ call.submission = Nothing
  /\ Operation(call, [OfferNow EXCEPT !.action = "revise", !.attempt = task.last.before])
       = task.last.op

DecidedBefore(call) ==
  OfferNow.action = "decide" /\ archive # None /\ call.submission.kind = "decision"

(* What-if: only the current token is good. *)
AcceptedOnlyNow(call) == Offered /\ call.offer = OfferNow

(* A token is good while its offer stands.  An old one is good for the      *)
(* operation it began, and a decision for the offer it was made from.       *)
Accepted(call) ==
  /\ Offered
  /\ \/ EnteredBy(call)
     \/ IF DecidedBefore(call)
        THEN /\ call.offer = OfferOf(task, None, drift)
             /\ Operation(call, OfferOf(task, None, drift)) = archive.op
        ELSE /\ Matches(OfferNow.expected, call.submission)
             /\ \/ call.offer = OfferNow
                \/ /\ OfferNow.action \in {"review", "triage"}
                   /\ Interrupted(OfferNow) = Operation(call, OfferNow)

(* What a plan rests on besides the revision. *)
Seen == <<drift, archive # None>>

PlanFor(call) ==
  LET op == IF EnteredBy(call) THEN task.last.op
            ELSE IF Interrupted(OfferNow) # None THEN Interrupted(OfferNow)
            ELSE Operation(call, OfferNow)
      first == IF EnteredBy(call) THEN "revise-enter"
               ELSE IF DecidedBefore(call) THEN "decision-archive" ELSE FirstSubstep(OfferNow)
      action == IF EnteredBy(call) THEN "revise" ELSE OfferNow.action
  IN [op |-> op, action |-> action, substep |-> first, say |-> call.submission.say,
      checkpoint |-> Checkpoint(task), read |-> task.revision, seen |-> Seen,
      late |-> FALSE, phase |-> IF action = "review" THEN "queued" ELSE "commit"]

-----------------------------------------------------------------------------
(* Calls *)

(* A client reads the status and makes up its next call. *)
Ask(c) ==
  /\ plan[c] = None /\ Offered /\ task.revision < MaxRevision
  /\ \E s \in Submissions(OfferNow) :
       held' = [held EXCEPT ![c] = [offer |-> OfferNow, submission |-> s]]
  /\ UNCHANGED <<server, task, archive, drift, plan, queue, edits, crashes>>

(* It sends its call, for the first time or again; what is not accepted     *)
(* changes nothing.  A review waits for the server's dispatch queue.        *)
Apply(c) ==
  /\ plan[c] = None /\ held[c] # None /\ task.revision < MaxRevision
  /\ Accepted(held[c])
  /\ plan' = [plan EXCEPT ![c] = PlanFor(held[c])]
  /\ queue' = IF PlanFor(held[c]).phase = "queued"
                THEN [queue EXCEPT ![server[c]] = Append(@, c)] ELSE queue
  /\ UNCHANGED <<server, task, archive, drift, held, edits, crashes>>

(* The call is answered: its client may send it again or make up another.   *)
Answer(c) ==
  /\ plan' = [plan EXCEPT ![c] = None]
  /\ queue' = [queue EXCEPT ![server[c]] = SelectSeq(@, LAMBDA d : d # c)]

IsHead(c) == queue[server[c]] # <<>> /\ Head(queue[server[c]]) = c

Reread(c, substep) ==
  [plan[c] EXCEPT !.substep = substep, !.phase = "commit",
                  !.read = task.revision, !.seen = Seen]

(* At its turn a settlement of an empty review reads the task again, but    *)
(* keeps what it planned.                                                   *)
Start(c) ==
  /\ plan[c] # None /\ plan[c].phase = "queued" /\ IsHead(c)
  /\ plan' = [plan EXCEPT ![c] =
       IF plan[c].substep = "review-empty-triage"
       THEN [Reread(c, EnterFirst("review-empty-triage"))
               EXCEPT !.late = plan[c].read # task.revision]
       ELSE [plan[c] EXCEPT !.phase = "commit"]]
  /\ UNCHANGED <<server, task, archive, drift, held, queue, edits, crashes>>

-----------------------------------------------------------------------------
(* Substeps *)

Doing(c, substep) ==
  plan[c] # None /\ plan[c].phase = "commit" /\ plan[c].substep = substep

(* The request was composed from the task as it still is. *)
Fresh(c) == plan[c].read = task.revision

Installed(c) == task.last.op = plan[c].op /\ task.last.substep = plan[c].substep

(* The last transition was made for the same request as this one.           *)
Replayed(c) == Installed(c) /\ task.last.say = plan[c].say

At(step, status) == task.step = step /\ task.status = status

Closes(choice) == choice = "keep-current-versions" => drift = task.gate.version

(* What the handlers and the composers accept, whatever status offered.     *)
Legal(p) ==
  LET substep == p.substep IN
  CASE substep = "begin-work" -> task.gate = None /\ At("produce", "failed")
    [] substep = "submit-work" -> task.gate = None /\ At("produce", "running")
    [] substep = "review-enter" -> task.gate = None /\ At("produce", "succeeded")
    [] substep = "review-run" -> task.gate = None /\ At("counter_review", "running")
    [] substep = "triage-enter" -> task.gate = None /\ At("counter_review", "succeeded")
    [] substep = "review-empty-triage" ->
         task.gate = None /\ At("triage", "running") /\ task.evidence = "empty"
    [] substep = "triage" ->
         task.gate = None /\ At("triage", "running") /\ task.evidence = "reports"
    [] substep = "revise-enter" ->
         IF p.checkpoint THEN Checkpoint(task)
         ELSE task.gate = None /\ At("triage", "succeeded") /\ task.evidence = "revise"
    [] substep = "open-gate" -> task.gate = None /\ NextAction(task, drift) = "open-gate"
    [] substep = "refresh-stale-baseline" -> Stale(task, drift) /\ archive = None
    [] substep = "finish-task" -> task.gate = None /\ task.approved /\ ~task.done
    [] substep = "decision-archive" ->
         /\ task.gate # None /\ p.say \in ChoicesAt(task.gate)
         /\ archive # None => archive.op = p.op
    [] substep = "decision-settle" ->
         /\ task.gate # None /\ archive # None
         /\ archive.op \in {p.op} \cup LocalOps
         /\ Closes(archive.choice)
         /\ archive.choice = "request-changes" => archive.op = p.op

(* The state is replaced by one a revision later, and says by what. *)
Install(c, t) ==
  task' = [t EXCEPT !.revision = @ + 1,
                    !.last = [op |-> plan[c].op, substep |-> plan[c].substep,
                              say |-> plan[c].say, before |-> task.attempt]]

BeginWork(c) ==
  /\ Doing(c, "begin-work")
  /\ Install(c, [task EXCEPT !.status = "running", !.attempt = @ + 1])
  /\ UNCHANGED <<archive, drift>>

(* The outputs become the recorded files; other changes stay. *)
SubmitWork(c) ==
  /\ Doing(c, "submit-work")
  /\ \/ /\ plan[c].say = "failed"
        /\ Install(c, [task EXCEPT !.status = "failed"])
        /\ UNCHANGED drift
     \/ /\ plan[c].say = "succeeded"
        /\ Install(c, [task EXCEPT !.status = "succeeded", !.subject = @ + 1,
                                   !.evidence = "none", !.approved = FALSE])
        /\ drift' \in {0, drift}
  /\ UNCHANGED archive

ReviewEnter(c) ==
  /\ Doing(c, "review-enter")
  /\ Install(c, [task EXCEPT !.step = "counter_review", !.status = "running"])
  /\ UNCHANGED <<archive, drift>>

ReviewRun(c) ==
  /\ Doing(c, "review-run")
  /\ \E found \in {"reports", "empty"} :
       Install(c, [task EXCEPT !.status = "succeeded", !.evidence = found])
  /\ UNCHANGED <<archive, drift>>

TriageEnter(c) ==
  /\ Doing(c, "triage-enter")
  /\ Install(c, [task EXCEPT !.step = "triage", !.status = "running"])
  /\ UNCHANGED <<archive, drift>>

Triage(c) ==
  /\ Doing(c, "triage") \/ Doing(c, "review-empty-triage")
  /\ Install(c, [task EXCEPT !.status = "succeeded",
                             !.evidence = IF plan[c].say = "revise" THEN "revise" ELSE "clean"])
  /\ UNCHANGED <<archive, drift>>

(* A revision asked for at a gate keeps the attempt. *)
ReviseEnter(c) ==
  /\ Doing(c, "revise-enter")
  /\ Install(c, [task EXCEPT !.step = "produce", !.status = "running",
                             !.attempt = IF plan[c].checkpoint THEN @ ELSE @ + 1])
  /\ UNCHANGED <<archive, drift>>

(* An open gate erases what the last transition was. *)
OpenGate(c) ==
  /\ Doing(c, "open-gate")
  /\ task' = [task EXCEPT
       !.revision = @ + 1, !.last = Untouched,
       !.gate = [kind |-> IF Finding(task, drift) THEN "baseline" ELSE "approval",
                 version |-> IF Finding(task, drift) THEN drift ELSE 0,
                 opened |-> task.revision + 1]]
  /\ UNCHANGED <<archive, drift>>

RefreshStaleBaseline(c) ==
  /\ Doing(c, "refresh-stale-baseline")
  /\ task' = [task EXCEPT !.revision = @ + 1, !.gate = None, !.last = Untouched]
  /\ UNCHANGED <<archive, drift>>

FinishTask(c) ==
  /\ Doing(c, "finish-task")
  /\ Install(c, [task EXCEPT !.done = TRUE])
  /\ UNCHANGED <<archive, drift>>

(* The decision is kept for the gate that is open, by its choice alone.     *)
ArchiveDecision(c) ==
  /\ Doing(c, "decision-archive")
  /\ archive' = IF archive = None THEN [op |-> plan[c].op, choice |-> plan[c].say] ELSE archive
  /\ UNCHANGED <<task, drift>>

(* A settlement names the request that opened the gate; one that asks for   *)
(* changes names its own operation, and is the checkpoint of a revision.    *)
SettleDecision(c) ==
  LET closed == [task EXCEPT !.revision = @ + 1, !.gate = None] IN
  /\ Doing(c, "decision-settle")
  /\ task' = IF archive.choice = "request-changes"
             THEN [closed EXCEPT !.last = [op |-> plan[c].op, substep |-> "decision-settle",
                                           say |-> "request-changes", before |-> 0]]
             ELSE [closed EXCEPT !.last = [Untouched EXCEPT !.substep = "open-gate"],
                                 !.approved = @ \/ archive.choice = "approve"]
  /\ drift' = IF archive.choice = "keep-current-versions" THEN 0 ELSE drift
  /\ archive' = None

Substep(c) ==
  \/ BeginWork(c) \/ SubmitWork(c) \/ ReviewEnter(c) \/ ReviewRun(c) \/ TriageEnter(c)
  \/ Triage(c) \/ ReviseEnter(c) \/ OpenGate(c) \/ RefreshStaleBaseline(c) \/ FinishTask(c)
  \/ ArchiveDecision(c) \/ SettleDecision(c)

(* Decisions and the entry from a checkpoint read the task under the lock;  *)
(* every other substep is refused when its request is no longer fresh.      *)
ReadsUnderLock(c) ==
  plan[c].substep \in {"decision-archive", "decision-settle"} \/ plan[c].checkpoint

(* What-if: the revision a request expects is not compared. *)
AdmittedLate(c) == Legal(plan[c])

Admitted(c) == Legal(plan[c]) /\ (Fresh(c) \/ ReadsUnderLock(c))

(* What-if: a review takes a turn of its own inside the turn it has. *)
HasTurnNested(c) ==
  /\ plan[c] # None /\ plan[c].phase = "commit"
  /\ plan[c].substep = "review-run" => queue[server[c]] = <<>>

(* A review runs inside the turn its call was given. *)
HasTurn(c) == 
  /\ plan[c] # None /\ plan[c].phase = "commit"
  /\ plan[c].substep = "review-run" => IsHead(c)

Commit(c) ==
  /\ HasTurn(c) /\ Admitted(c) /\ ~Installed(c)
  /\ Substep(c)
  /\ plan' = [plan EXCEPT ![c].phase = "refresh"]
  /\ UNCHANGED <<server, held, queue, edits, crashes>>

(* The same transition again is answered from the last one. *)
Replay(c) ==
  /\ HasTurn(c) /\ Replayed(c)
  /\ plan' = [plan EXCEPT ![c].phase = "refresh"]
  /\ UNCHANGED <<server, task, archive, drift, held, queue, edits, crashes>>

(* A conflict is reported; work and reviews also fail for their own reasons. *)
Refuse(c) ==
  /\ HasTurn(c) /\ ~Replayed(c)
  /\ ~Admitted(c) \/ Installed(c) \/ plan[c].substep \in {"submit-work", "review-run"}
  /\ Answer(c)
  /\ UNCHANGED <<server, task, archive, drift, held, edits, crashes>>

-----------------------------------------------------------------------------
(* After a substep the task is read again, and must be where it led. *)

Continues(c) ==
  CASE plan[c].substep = "review-enter" /\ Installed(c) /\ OfferNow.action = "review" ->
         "review-run"
    [] plan[c].substep = "review-run" /\ Installed(c) /\ OfferNow.action = "review" ->
         "triage-enter"
    [] plan[c].substep = "triage-enter" /\ Installed(c) /\ At("triage", "running") ->
         IF plan[c].action = "review" THEN "review-empty-triage" ELSE "triage"
    [] plan[c].substep = "decision-archive" /\ OfferNow.action = "decide"
         /\ OfferNow.expected = "none" -> "decision-settle"
    [] OTHER -> "none"

Refresh(c) ==
  /\ plan[c] # None /\ plan[c].phase = "refresh"
  /\ IF Continues(c) = "none" THEN Answer(c)
     ELSE plan' = [plan EXCEPT ![c] = Reread(c, Continues(c))] /\ UNCHANGED queue
  /\ UNCHANGED <<server, task, archive, drift, held, edits, crashes>>

-----------------------------------------------------------------------------
(* The world *)

(* A server dies with the calls it was carrying out. *)
Crash(s) ==
  /\ crashes < MaxCrashes /\ \E c \in Clients : server[c] = s /\ plan[c] # None
  /\ plan' = [c \in Clients |-> IF server[c] = s THEN None ELSE plan[c]]
  /\ queue' = [queue EXCEPT ![s] = <<>>]
  /\ crashes' = crashes + 1
  /\ UNCHANGED <<server, task, archive, drift, held, edits>>

(* Recorded files change. *)
Edit ==
  /\ edits < MaxEdits
  /\ edits' = edits + 1
  /\ drift' = edits + 1
  /\ UNCHANGED <<server, task, archive, held, plan, queue, crashes>>

(* A decision written into the gate's interface file on the machine becomes *)
(* the archive, without an operation of a client.                           *)
AnswerLocally ==
  /\ task.gate # None /\ archive = None
  /\ \E o \in LocalOps, choice \in ChoicesAt(task.gate) :
       archive' = [op |-> o, choice |-> choice]
  /\ UNCHANGED <<server, task, drift, held, plan, queue, edits, crashes>>

-----------------------------------------------------------------------------
Found(at) ==
  LET base == [revision |-> 1, step |-> "produce", status |-> "running", attempt |-> 1,
               subject |-> 0, evidence |-> "none", gate |-> None, approved |-> FALSE,
               done |-> FALSE, last |-> Untouched]
      reviewed == [base EXCEPT !.step = "counter_review", !.status = "succeeded",
                               !.subject = 1, !.evidence = "reports"]
  IN CASE at = "working" -> base
       [] at = "produced" -> [base EXCEPT !.status = "succeeded", !.subject = 1]
       [] at = "reviewed" -> reviewed
       [] at = "emptied" -> [reviewed EXCEPT !.evidence = "empty"]
       [] at = "triaged" -> [reviewed EXCEPT !.step = "triage", !.evidence = "clean"]

Init ==
  /\ \E at \in Starts : task = Found(at)
  /\ archive = None /\ drift = 0
  /\ server \in Placements
  /\ held = [c \in Clients |-> None]
  /\ plan = [c \in Clients |-> None]
  /\ queue = [s \in Servers |-> <<>>]
  /\ edits = 0 /\ crashes = 0

Step(c) == Start(c) \/ Commit(c) \/ Replay(c) \/ Refuse(c) \/ Refresh(c)

Next ==
  \/ \E c \in Clients : Ask(c) \/ Apply(c) \/ Step(c)
  \/ \E s \in Servers : Crash(s)
  \/ Edit \/ AnswerLocally

Spec == Init /\ [][Next]_vars

(* A server goes on with the calls it has. *)
FairSpec == Spec /\ \A c \in Clients : WF_vars(Step(c))

-----------------------------------------------------------------------------
(* Type correctness, the contents of the queues apart. *)
TypeOK ==
  /\ task \in Tasks
  /\ archive \in [op : Named, choice : Sayings] \cup {None}
  /\ edits \in 0 .. MaxEdits /\ drift \in 0 .. edits /\ crashes \in 0 .. MaxCrashes
  /\ server \in [Clients -> Servers]
  /\ held \in [Clients -> Calls \cup {None}]
  /\ plan \in [Clients -> Plans \cup {None}]
  /\ DOMAIN queue = Servers

(* What an operation does stays in one piece.  A substep a request is made  *)
(* for either begins an operation, whose token was given out for the task   *)
(* as it is, or goes on with the operation of the last transition, where    *)
(* it left off.  Decisions and checkpoints are not composed this way, nor   *)
(* is the settlement of a review without findings whose turn came late: it  *)
(* may settle another such review, but never one that found something.      *)
Before(substep, action) ==
  CASE substep = "review-run" -> "review-enter"
    [] substep = "triage-enter" /\ action = "review" -> "review-run"
    [] substep \in {"triage", "review-empty-triage"} -> "triage-enter"
    [] OTHER -> "nothing"

CommitsNow(c) ==
  /\ plan[c] # None /\ plan[c].phase = "commit" /\ task'.revision > task.revision
  /\ plan'[c] = [plan[c] EXCEPT !.phase = "refresh"]

EffectsStayTogether ==
  [][\A c \in Clients : CommitsNow(c) =>
       /\ /\ plan[c].substep \notin {"decision-archive", "decision-settle"}
          /\ ~plan[c].checkpoint /\ ~plan[c].late
          => \/ plan[c].op.token.revision = task.revision
             \/ /\ plan[c].op = task.last.op
                /\ task.last.substep = Before(plan[c].substep, plan[c].action)
       /\ plan[c].late /\ task'.evidence # task.evidence => task.evidence = "empty"]_vars

(* A call that began a review or a triage, or whose decision is archived,   *)
(* and lost its answer can be sent again: it is accepted and goes on under  *)
(* the same operation, unless changed files call for a human first.  Not    *)
(* so when the triage was entered for work that is no longer there, by a    *)
(* settlement that had waited for its turn.                                 *)
HalfDone ==
  \/ task.last.substep = "review-enter"
  \/ task.last.substep = "review-run" /\ task.evidence = "empty"
  \/ task.last.substep = "triage-enter" /\ task.last.op.subject = task.subject

RetryResumes ==
  \A c \in Clients : held[c] # None /\ ~Finding(task, drift) =>
    LET began(op) == op.token = held[c].offer /\ op.submission = held[c].submission
        resumes(op) == Accepted(held[c]) /\ PlanFor(held[c]).op = op
    IN /\ HalfDone /\ began(task.last.op) => resumes(task.last.op)
       /\ /\ archive # None /\ archive.op \notin LocalOps
          /\ began(archive.op) /\ archive.op.token.gate = task.gate.opened
          => resumes(archive.op)

(* Status offers what the handlers accept: a call planned from the task as  *)
(* it is, files and archive included, is not refused for its state.  Not so *)
(* for a stale gate that is answered already (GateLifecycle), a settlement  *)
(* of another call's decision, or one of an empty review that is late or    *)
(* of work that is no longer there.                                         *)
OfferedIsLegal ==
  \A c \in Clients :
    /\ plan[c] # None /\ plan[c].phase = "commit"
    /\ Fresh(c) /\ plan[c].seen = Seen /\ ~plan[c].late
    /\ plan[c].substep = "refresh-stale-baseline" => archive = None
    /\ plan[c].substep = "decision-settle" => archive # None /\ archive.op = plan[c].op
    /\ plan[c].substep = "review-empty-triage" => plan[c].op.subject = task.subject
    => Legal(plan[c])

(* A decision is archived for the gate it was made about.                   *)
DecisionBindsItsGate ==
  archive # None /\ archive.op \notin LocalOps => archive.op.token.gate = task.gate.opened

(* Every call a server has is answered, or dies with the server.            *)
EveryApplyAnswered ==
  \A c \in Clients : plan[c] # None ~> plan[c] = None
=============================================================================
