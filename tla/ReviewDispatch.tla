--------------------------- MODULE ReviewDispatch ---------------------------
(***************************************************************************)
(* How a counter-review is carried out.  A call waits its turn in the      *)
(* process-wide queue, opens the review that is running, lends one         *)
(* workspace to all its reviewers, and lets every reviewer answer, from a  *)
(* retained output or from a child process that a deadline, an abort, its  *)
(* output or its streams may stop.  The answers become evidence only when  *)
(* every reviewer has settled and the subject is still the one reviewed.   *)
(* Dispatches are counted in a journal that outlives the process, and the  *)
(* received outputs are kept for a retry.                                  *)
(*                                                                         *)
(* A role stands for a reviewer and the one route configured for it;       *)
(* Reviewers keep an output before they read it, Judges after they have    *)
(* validated it, and Selectors advise and never fail a review.  A call     *)
(* whose human authorized another attempt has that authorization in its    *)
(* key.  An envelope is the subject and the optional context it was sealed *)
(* with.                                                                   *)
(***************************************************************************)
EXTENDS Naturals, Sequences

CONSTANTS
  Processes,      \* server processes that work on the task
  Calls,          \* counter-review calls
  Reviewers, Judges, Selectors,  \* roles, by how their output is kept
  Panel,          \* the roles each subject is reviewed by: its phase decides
  Contexts,       \* optional verification context an envelope is sealed with
  Auths,          \* human authorizations of one more dispatch
  Faults,         \* what besides deadline and abort stops a child
  MaxDispatches,  \* dispatches a journal entry may count
  MaxSubjects, MaxCalls, MaxUpsets,   \* bounds; an upset is a crash, a
                  \* cancel, an edit, an amendment or an authorized retry
  None

Roles == Reviewers \cup Judges \cup Selectors
Mandatory == Reviewers \cup Judges

ASSUME DispatchAssumption ==
  /\ {MaxDispatches, MaxSubjects, MaxCalls, MaxUpsets} \subseteq Nat
  /\ MaxDispatches > 0 /\ MaxSubjects > 0
  /\ Panel \in [1..MaxSubjects -> SUBSET Roles] /\ None \notin Auths
  /\ Reviewers \cap Judges = {} /\ Selectors \cap Mandatory = {}
  /\ Faults \subseteq {"overflow", "io"}

VARIABLES
  subject,   \* [rev, open]: the produced subject, and whether its review runs
  edited,    \* the working tree differs from the produced projection
  journal,   \* dispatch-recovery.json: the subject it is bound to, its entries
  retained,  \* outputs kept for a retry of the same envelope
  fifo,      \* per process: the calls in its dispatch queue, in order
  call,      \* per call: how far it is and what it captured
  op,        \* per call and role: the reviewer's operation and its child
  evidence,  \* committed reviews (a record of what each rests on)
  spent,     \* dispatches without a success or an authorization, per role
             \* and envelope (a record, read by no step)
  used       \* what is left of the bounds
vars == <<subject, edited, journal, retained, fifo, call, op, evidence, spent, used>>

Revs == 1..MaxSubjects
Envelopes == [rev : Revs, context : Contexts]
NoEnvelope == [rev |-> 0]
Grants == Auths \cup {None}
Stops == {"timeout", "cancelled"} \cup Faults
Gots == {"valid", "unreadable", "transient", "failed", "cancelled", "exhausted", "stale", "default"}

(* The places of a call whose turn has come and whose workspace is there. *)
Working == {"running", "settled", "commit", "discard"}

Fresh == [at |-> "ready", stop |-> None, got |-> None, answers |-> NoEnvelope]
AtRest == [pc |-> "idle", process |-> None, env |-> NoEnvelope, auth |-> None,
           aborted |-> FALSE, workspace |-> FALSE, matched |-> FALSE]

Rev(c) == call[c].env.rev
Team(c) == Panel[Rev(c)]
IsHead(c) == fifo[call[c].process] # <<>> /\ Head(fifo[call[c].process]) = c

(* A child is alive until its process and everything that holds its output *)
(* streams are gone.                                                       *)
Alive(c, r) == op[c][r].at \in {"child", "exited"}

-----------------------------------------------------------------------------
(* The journal *)

Entries == [role : Roles, auth : Grants, env : Envelopes \cup {NoEnvelope},
            n : 0..MaxDispatches, status : {"running", "retrying", "failed", "succeeded"}]

(* What a call finds in the journal: nothing, when it is bound to another  *)
(* subject.                                                                *)
Recorded(c) == IF journal.of = Rev(c) THEN journal.entries ELSE {}

SameKey(e, c, r) == e.role = r /\ e.auth = call[c].auth /\ e.env = call[c].env
Own(c, r) == {e \in Recorded(c) : SameKey(e, c, r)}

(* Only the review that still runs may write the journal. *)
MayWrite(c) == subject.open /\ subject.rev = Rev(c)

Journal(c, entries) == journal' = [of |-> Rev(c), entries |-> entries]

Marked(c, r, status) ==
  (Recorded(c) \ Own(c, r)) \cup {[e EXCEPT !.status = status] : e \in Own(c, r)}

Exhausted(c, r) ==
  \E e \in Own(c, r) : e.status # "succeeded" /\ e.n >= MaxDispatches

(* What-if: a dispatch that died without an answer does not count. *)
CountedWhenAnswered(c, r) ==
  IF \E e \in Own(c, r) : e.status \in {"retrying", "failed"}
    THEN (CHOOSE e \in Own(c, r) : TRUE).n + 1
    ELSE 1

Counted(c, r) ==
  IF \E e \in Own(c, r) : e.status # "succeeded"
    THEN (CHOOSE e \in Own(c, r) : TRUE).n + 1
    ELSE 1

(* A dispatch replaces its own entry and the failures it retries; without  *)
(* an authorization, failures over another envelope stay.                  *)
Superseded(c, r) ==
  {e \in Recorded(c) :
     /\ e.role = r /\ e.status = "failed"
     /\ call[c].auth # None \/ e.env \in {NoEnvelope, call[c].env}}

Launched(c, r) ==
  (Recorded(c) \ (Own(c, r) \cup Superseded(c, r)))
    \cup {[role |-> r, auth |-> call[c].auth, env |-> call[c].env,
           n |-> Counted(c, r), status |-> "running"]}

(* A failure that never reached a child is noted without an envelope,      *)
(* unless the role's failure is already on record.                         *)
Observed(c, r) ==
  IF \E e \in Recorded(c) : e.role = r /\ e.status = "failed"
    THEN Recorded(c)
    ELSE {e \in Recorded(c) : ~(e.role = r /\ e.auth = call[c].auth /\ e.env = NoEnvelope)}
           \cup {[role |-> r, auth |-> call[c].auth, env |-> NoEnvelope,
                  n |-> 0, status |-> "failed"]}

Observe(c, r) ==
  IF MayWrite(c) THEN Journal(c, Observed(c, r)) ELSE UNCHANGED journal

-----------------------------------------------------------------------------
(* Retained outputs *)

Kept(r, env) == [role |-> r, env |-> env, ok |-> TRUE]

(* What-if: kept by role alone. *)
HasKeptByRole(c, r) == {k \in retained : k.role = r /\ k.ok}

HasKept(c, r) == {k \in retained : k.role = r /\ k.env = call[c].env /\ k.ok}

Keep(c, r) ==
  {k \in retained : ~(k.role = r /\ k.env = call[c].env)}
    \cup {[Kept(r, call[c].env) EXCEPT !.ok = op[c][r].got = "valid"]}

-----------------------------------------------------------------------------
(* A reviewer's operation *)

Op(c, r, at) == op' = [op EXCEPT ![c][r].at = at]
Settled(c, r, got) == op' = [op EXCEPT ![c][r].at = "settled", ![c][r].got = got]

(* A reviewer's readable answer may still not do as evidence: then its       *)
(* operation fails, with the dispatch recorded as a success.                 *)
Built(r) == IF r \in Reviewers THEN {"valid", "failed"} ELSE {"valid"}

(* A retained answer to the same envelope needs no child.  A selector        *)
(* without a usable route is not asked: the default selection stands.        *)
OpStart(c, r) ==
  /\ call[c].pc = "running" /\ r \in Team(c) /\ op[c][r].at = "ready"
  /\ \/ \E k \in HasKept(c, r), got \in Built(r) :
          op' = [op EXCEPT ![c][r] = [Fresh EXCEPT !.at = "settled", !.got = got,
                                                   !.answers = k.env]]
     \/ r \in Selectors
          /\ op' = [op EXCEPT ![c][r] = [Fresh EXCEPT !.at = "settled", !.got = "default",
                                                      !.answers = call[c].env]]
     \/ HasKept(c, r) = {}
          /\ op' = [op EXCEPT ![c][r].at = IF r \in Selectors THEN "child" ELSE "book",
                              ![c][r].answers = call[c].env]
  /\ UNCHANGED <<subject, edited, journal, retained, fifo, call, evidence, spent, used>>

(* Counting the dispatch before the child starts. *)
OpBook(c, r) ==
  /\ op[c][r].at = "book" /\ ~call[c].aborted
  /\ MayWrite(c) /\ ~Exhausted(c, r)
  /\ Journal(c, Launched(c, r))
  /\ op' = [op EXCEPT ![c][r] = [@ EXCEPT !.at = "child", !.stop = None, !.got = None]]
  /\ spent' = IF call[c].auth = None THEN [spent EXCEPT ![r][call[c].env] = @ + 1]
              ELSE [spent EXCEPT ![r] = [e \in Envelopes |-> 0]]
  /\ UNCHANGED <<subject, edited, retained, fifo, call, evidence, used>>

OpExhausted(c, r) ==
  /\ op[c][r].at = "book" /\ ~call[c].aborted
  /\ MayWrite(c) /\ Exhausted(c, r)
  /\ Journal(c, Marked(c, r, "failed"))
  /\ Settled(c, r, "exhausted")
  /\ UNCHANGED <<subject, edited, retained, fifo, call, evidence, spent, used>>

(* The review is over, or its caller is gone: no child is started. *)
OpRefused(c, r) ==
  /\ op[c][r].at = "book"
  /\ call[c].aborted \/ ~MayWrite(c)
  /\ Observe(c, r)
  /\ Settled(c, r, IF call[c].aborted THEN "cancelled" ELSE "stale")
  /\ UNCHANGED <<subject, edited, retained, fifo, call, evidence, spent, used>>

(* The first reason to stop a child decides how its run ends. *)
ChildStop(c, r, reason) ==
  /\ Alive(c, r) /\ op[c][r].stop = None
  /\ op' = [op EXCEPT ![c][r].stop = reason]
  /\ UNCHANGED <<subject, edited, journal, retained, fifo, call, evidence, spent, used>>

Outcomes(stop) ==
  CASE stop = None        -> {"valid", "unreadable", "transient", "failed"}
    [] stop = "timeout"   -> {"transient"}
    [] stop = "cancelled" -> {"cancelled"}
    [] OTHER              -> {"failed"}

(* Its streams close: the run is over and its outcome is classified. *)
Close(c, r) ==
  \E got \in Outcomes(op[c][r].stop) :
    op' = [op EXCEPT ![c][r] = [@ EXCEPT !.at = "answered", !.stop = None, !.got = got]]

(* The child's process ends, by itself or killed: SIGTERM, then SIGKILL,   *)
(* go to its group as long as it runs.  A descendant may outlive it and    *)
(* hold its streams; nothing signals the group any more.                   *)
ChildExit(c, r) ==
  /\ op[c][r].at = "child"
  /\ Close(c, r) \/ Op(c, r, "exited")
  /\ UNCHANGED <<subject, edited, journal, retained, fifo, call, evidence, spent, used>>

DescendantEnds(c, r) ==
  /\ op[c][r].at = "exited"
  /\ Close(c, r)
  /\ UNCHANGED <<subject, edited, journal, retained, fifo, call, evidence, spent, used>>

(* A reviewer's output is kept, if the disk lets it, before it is read; a  *)
(* judge's and a selector's once it is known to be valid.                  *)
OpKeep(c, r) ==
  /\ \/ r \in Reviewers /\ op[c][r].at = "answered" /\ op[c][r].got \in {"valid", "unreadable"}
          /\ Op(c, r, "kept")
     \/ r \in Selectors /\ op[c][r].at = "answered" /\ op[c][r].got = "valid"
          /\ Op(c, r, "settled")
     \/ op[c][r].at = "judged" /\ Op(c, r, "settled")
  /\ retained' \in {retained, Keep(c, r)}
  /\ UNCHANGED <<subject, edited, journal, fifo, call, evidence, spent, used>>

(* A selector that failed leaves the default selection. *)
OpDefault(c, r) ==
  /\ r \in Selectors /\ op[c][r].at = "answered" /\ op[c][r].got # "valid"
  /\ Settled(c, r, "default")
  /\ UNCHANGED <<subject, edited, journal, retained, fifo, call, evidence, spent, used>>

Recordable(c, r) ==
  \/ r \in Reviewers /\ op[c][r].at = "kept"
  \/ r \in Reviewers /\ op[c][r].at = "answered" /\ op[c][r].got \notin {"valid", "unreadable"}
  \/ r \in Judges /\ op[c][r].at = "answered"

CanRecord(c, r) == MayWrite(c) /\ Own(c, r) # {}

OpSucceed(c, r) ==
  /\ Recordable(c, r) /\ op[c][r].got = "valid" /\ CanRecord(c, r)
  /\ Journal(c, Marked(c, r, "succeeded"))
  /\ spent' = [spent EXCEPT ![r][call[c].env] = 0]
  /\ \/ r \in Judges /\ Op(c, r, "judged")
     \/ r \notin Judges /\ \E got \in Built(r) : Settled(c, r, got)
  /\ UNCHANGED <<subject, edited, retained, fifo, call, evidence, used>>

Retries(c, r) ==
  /\ op[c][r].got = "transient" /\ ~call[c].aborted
  /\ \A e \in Own(c, r) : e.n < MaxDispatches

(* A transient failure waits and is dispatched again; any other ends it. *)
OpFail(c, r) ==
  /\ Recordable(c, r) /\ op[c][r].got # "valid" /\ CanRecord(c, r)
  /\ IF Retries(c, r)
       THEN Journal(c, Marked(c, r, "retrying")) /\ Op(c, r, "book")
       ELSE Journal(c, Marked(c, r, "failed")) /\ Settled(c, r, op[c][r].got)
  /\ UNCHANGED <<subject, edited, retained, fifo, call, evidence, spent, used>>

(* The subject moved on, or the entry is gone: the answer is not recorded. *)
OpLost(c, r) ==
  /\ Recordable(c, r) /\ ~CanRecord(c, r)
  /\ Observe(c, r)
  /\ Settled(c, r, "stale")
  /\ UNCHANGED <<subject, edited, retained, fifo, call, evidence, spent, used>>

OpStep(c, r) ==
  \/ OpStart(c, r) \/ OpBook(c, r) \/ OpExhausted(c, r) \/ OpRefused(c, r)
  \/ OpKeep(c, r) \/ OpDefault(c, r)
  \/ OpSucceed(c, r) \/ OpFail(c, r) \/ OpLost(c, r)

-----------------------------------------------------------------------------
(* A call *)

Invoke(c, p) ==
  /\ call[c].pc = "idle" /\ subject.open /\ used.calls < MaxCalls
  /\ \A r \in Roles : ~Alive(c, r)
  /\ \E context \in Contexts, auth \in Grants :
       /\ auth # None => used.upsets < MaxUpsets
       /\ used' = [calls |-> used.calls + 1,
                   upsets |-> used.upsets + IF auth = None THEN 0 ELSE 1]
       /\ call' = [call EXCEPT ![c] = [AtRest EXCEPT
                     !.pc = "queued", !.process = p, !.auth = auth,
                     !.env = [rev |-> subject.rev, context |-> context]]]
  /\ op' = [op EXCEPT ![c] = [r \in Roles |-> Fresh]]
  /\ fifo' = [fifo EXCEPT ![p] = Append(@, c)]
  /\ UNCHANGED <<subject, edited, journal, retained, evidence, spent>>

(* What-if: a call that failed keeps its turn. *)
AnswerOnCommit(c) ==
  /\ call' = [call EXCEPT ![c] = AtRest]
  /\ op' = [op EXCEPT ![c] = [r \in Roles |-> IF Alive(c, r) THEN @[r] ELSE Fresh]]
  /\ fifo' = IF call[c].pc = "discard"
               THEN [fifo EXCEPT ![call[c].process] = Tail(@)] ELSE fifo

(* The call answers, its workspace is removed and its turn is over: the     *)
(* next link of the chain of promises runs.                                *)
Answer(c) ==
  /\ call' = [call EXCEPT ![c] = AtRest]
  /\ op' = [op EXCEPT ![c] = [r \in Roles |-> IF Alive(c, r) THEN @[r] ELSE Fresh]]
  /\ fifo' = [fifo EXCEPT ![call[c].process] = Tail(@)]

Reviewed(rev) == \E v \in evidence : v.env.rev = rev

(* A retry of a committed review is replayed; a review that no longer runs,*)
(* a tree that is not the subject, or a view that cannot be laid out ends  *)
(* the call before any child starts.                                       *)
BeginRefused(c) ==
  /\ call[c].pc = "queued" /\ IsHead(c)
  /\ Answer(c)
  /\ UNCHANGED <<subject, edited, journal, retained, evidence, spent, used>>

(* Every route is selected before a child starts: one bad route ends it. *)
BeginUnrouted(c) ==
  /\ call[c].pc = "queued" /\ IsHead(c) /\ MayWrite(c) /\ ~edited
  /\ \E r \in Team(c) \cap Mandatory : Journal(c, Observed(c, r))
  /\ Answer(c)
  /\ UNCHANGED <<subject, edited, retained, evidence, spent, used>>

Begin(c) ==
  /\ call[c].pc = "queued" /\ IsHead(c)
  /\ ~Reviewed(Rev(c)) /\ MayWrite(c) /\ ~edited
  /\ call' = [call EXCEPT ![c].pc = "running", ![c].workspace = TRUE]
  /\ UNCHANGED <<subject, edited, journal, retained, fifo, op, evidence, spent, used>>

(* What-if: the first failure ends the review. *)
SettledOrFailed(c) ==
  \/ \A r \in Team(c) : op[c][r].at = "settled"
  \/ \E r \in Team(c) \cap Mandatory : op[c][r].at = "settled" /\ op[c][r].got # "valid"

AllSettled(c) == \A r \in Team(c) : op[c][r].at = "settled"

Failed(c) == \E r \in Team(c) \cap Mandatory : op[c][r].got # "valid"

(* Every reviewer has settled; one failure fails the review, and keeps     *)
(* what its siblings answered.                                             *)
Settle(c) ==
  /\ call[c].pc = "running" /\ AllSettled(c)
  /\ IF Failed(c)
       THEN Answer(c)
       ELSE /\ call' = [call EXCEPT ![c].pc = "settled", ![c].matched = ~edited]
            /\ UNCHANGED <<fifo, op>>
  /\ UNCHANGED <<subject, edited, journal, retained, evidence, spent, used>>

(* The subject is authenticated once more, after the last child. *)
Reobserve(c) ==
  /\ call[c].pc = "settled"
  /\ IF subject.rev = Rev(c) /\ ~edited
       THEN call' = [call EXCEPT ![c].pc = "commit"] /\ UNCHANGED <<fifo, op>>
       ELSE Answer(c)
  /\ UNCHANGED <<subject, edited, journal, retained, evidence, spent, used>>

(* The transaction that records the review, at the revision it began from. *)
Commit(c) ==
  /\ call[c].pc = "commit" /\ MayWrite(c)
  /\ evidence' = evidence \cup {[env |-> call[c].env, matched |-> call[c].matched,
                                 rests |-> [r \in Team(c) \cap Mandatory |-> op[c][r].answers]]}
  /\ subject' = [subject EXCEPT !.open = FALSE]
  /\ call' = [call EXCEPT ![c].pc = "discard"]
  /\ UNCHANGED <<edited, journal, retained, fifo, op, spent, used>>

(* Any other transition since then refuses it. *)
CommitRefused(c) ==
  /\ call[c].pc = "commit"
  /\ Answer(c)
  /\ UNCHANGED <<subject, edited, journal, retained, evidence, spent, used>>

(* A committed round needs its outputs no more. *)
Discard(c) ==
  /\ call[c].pc = "discard"
  /\ retained' = {k \in retained : k.env # call[c].env}
  /\ Answer(c)
  /\ UNCHANGED <<subject, edited, journal, evidence, spent, used>>

CallStep(c) ==
  \/ Begin(c) \/ BeginRefused(c) \/ BeginUnrouted(c)
  \/ Settle(c) \/ Reobserve(c) \/ Commit(c) \/ CommitRefused(c) \/ Discard(c)

-----------------------------------------------------------------------------
(* The world around it *)

(* The caller cancels: every child that no reason stopped yet is stopped. *)
Cancel(c) ==
  /\ call[c].pc # "idle" /\ ~call[c].aborted /\ used.upsets < MaxUpsets
  /\ call' = [call EXCEPT ![c].aborted = TRUE]
  /\ op' = [op EXCEPT ![c] = [r \in Roles |->
              IF Alive(c, r) /\ @[r].stop = None
                THEN [@[r] EXCEPT !.stop = "cancelled"] ELSE @[r]]]
  /\ used' = [used EXCEPT !.upsets = @ + 1]
  /\ UNCHANGED <<subject, edited, journal, retained, fifo, evidence, spent>>

(* The server dies: its calls, its queue and its children's answers go. *)
Crash(p) ==
  /\ used.upsets < MaxUpsets
  /\ \E c \in Calls : call[c].pc # "idle" /\ call[c].process = p
  /\ LET mine == {c \in Calls : call[c].process = p}
     IN /\ call' = [c \in Calls |-> IF c \in mine THEN AtRest ELSE call[c]]
        /\ op' = [c \in Calls |-> IF c \in mine THEN [r \in Roles |-> Fresh] ELSE op[c]]
  /\ fifo' = [fifo EXCEPT ![p] = <<>>]
  /\ used' = [used EXCEPT !.upsets = @ + 1]
  /\ UNCHANGED <<subject, edited, journal, retained, evidence, spent>>

(* The produced subject is replaced and its review begins. *)
Amend ==
  /\ subject.rev < MaxSubjects /\ used.upsets < MaxUpsets
  /\ subject' = [rev |-> subject.rev + 1, open |-> TRUE]
  /\ edited' = FALSE
  /\ used' = [used EXCEPT !.upsets = @ + 1]
  /\ UNCHANGED <<journal, retained, fifo, call, op, evidence, spent>>

EditTree ==
  /\ used.upsets < MaxUpsets
  /\ edited' = ~edited
  /\ used' = [used EXCEPT !.upsets = @ + 1]
  /\ call' = [c \in Calls |->
       [call[c] EXCEPT !.matched = @ \/ (edited /\ call[c].pc \in {"settled", "commit"})]]
  /\ UNCHANGED <<subject, journal, retained, fifo, op, evidence, spent>>

Init ==
  /\ subject = [rev |-> 1, open |-> TRUE]
  /\ edited = FALSE
  /\ journal = [of |-> 0, entries |-> {}]
  /\ retained = {}
  /\ fifo = [p \in Processes |-> <<>>]
  /\ call = [c \in Calls |-> AtRest]
  /\ op = [c \in Calls |-> [r \in Roles |-> Fresh]]
  /\ evidence = {}
  /\ spent = [r \in Roles |-> [e \in Envelopes |-> 0]]
  /\ used = [calls |-> 0, upsets |-> 0]

Next ==
  \/ \E c \in Calls, r \in Roles :
       \/ OpStep(c, r) \/ ChildExit(c, r) \/ DescendantEnds(c, r)
       \/ \E reason \in Stops \ {"cancelled"} : ChildStop(c, r, reason)
  \/ \E c \in Calls : CallStep(c) \/ Cancel(c) \/ \E p \in Processes : Invoke(c, p)
  \/ \E p \in Processes : Crash(p)
  \/ Amend \/ EditTree

Spec == Init /\ [][Next]_vars

(* What the code sees to, per call: its own steps and its reviewers' are    *)
(* taken, the deadline fires, and a child told to stop is killed.           *)
Fairness ==
  \A c \in Calls :
    /\ WF_vars(CallStep(c))
    /\ WF_vars(\E r \in Roles : OpStep(c, r))
    /\ WF_vars(\E r \in Roles : ChildStop(c, r, "timeout"))
    /\ WF_vars(\E r \in Roles : op[c][r].stop # None /\ ChildExit(c, r))

CodeSpec == Spec /\ Fairness

(* What it leaves to the reviewer: a descendant that outlives the child    *)
(* closes the child's streams in the end.                                  *)
FairSpec ==
  CodeSpec /\ \A c \in Calls : WF_vars(\E r \in Roles : DescendantEnds(c, r))

-----------------------------------------------------------------------------
TypeOK ==
  /\ subject \in [rev : Revs, open : BOOLEAN] /\ edited \in BOOLEAN
  /\ journal \in [of : 0..MaxSubjects, entries : SUBSET Entries]
  /\ retained \subseteq [role : Roles, env : Envelopes, ok : BOOLEAN]
  /\ fifo \in [Processes -> Seq(Calls)]
  /\ call \in [Calls ->
       [pc : {"idle", "queued"} \cup Working, process : Processes \cup {None},
        env : Envelopes \cup {NoEnvelope}, auth : Grants,
        aborted : BOOLEAN, workspace : BOOLEAN, matched : BOOLEAN]]
  /\ \A c \in Calls : call[c].pc # "idle" => call[c].env \in Envelopes
  /\ \A c \in Calls : call[c].pc # "idle" => call[c].process \in Processes
  /\ op \in [Calls -> [Roles ->
       [at : {"ready", "book", "child", "exited", "answered", "kept", "judged", "settled"},
        stop : Stops \cup {None}, got : Gots \cup {None},
        answers : Envelopes \cup {NoEnvelope}]]]
  /\ \A v \in evidence : v.env \in Envelopes /\ v.matched \in BOOLEAN
  /\ spent \in [Roles -> [Envelopes -> Nat]]
  /\ used \in [calls : 0..MaxCalls, upsets : 0..MaxUpsets]

(* Reviewer dispatches have a budget that outlives crashes, restarts and   *)
(* other processes: one envelope is never dispatched to one reviewer more  *)
(* than MaxDispatches times without a success or a human's authorization.  *)
BudgetHolds ==
  \A r \in Mandatory, e \in Envelopes : spent[r][e] <= MaxDispatches

(* A committed review rests, role by role, on answers to the very envelope *)
(* it is recorded for, retained ones included, and the tree was the        *)
(* reviewed subject at some moment after its last reviewer had settled; no *)
(* subject is reviewed twice.                                              *)
EvidenceIsCurrent ==
  /\ \A v \in evidence : v.matched /\ \A r \in DOMAIN v.rests : v.rests[r] = v.env
  /\ \A v, w \in evidence : v.env.rev = w.env.rev => v = w

(* The one workspace of a review is there for as long as any of its        *)
(* children lives, and only one review of a process has children.          *)
ChildrenHaveWorkspace ==
  \A c \in Calls, r \in Roles : Alive(c, r) =>
    /\ call[c].workspace
    /\ \A d \in Calls \ {c}, s \in Roles :
         call[d].process = call[c].process => ~Alive(d, s)

(* Every call is answered, whatever its reviewers do and however long the  *)
(* queue before it, unless its server dies.                                *)
EveryReviewAnswered == \A c \in Calls : call[c].pc # "idle" ~> call[c].pc = "idle"

=============================================================================
