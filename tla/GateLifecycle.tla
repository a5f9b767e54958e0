--------------------------- MODULE GateLifecycle ---------------------------
(***************************************************************************)
(* The life of a durable gate, write by write: opening installs an         *)
(* immutable request, then the interface, then the state that names the    *)
(* gate; a human decision is archived while the gate stays open and        *)
(* settled by a later call, which may first install a receipt; a decided   *)
(* revision closes into a checkpoint from which production is entered.     *)
(* A crash may fall between any two writes, the worktree, HEAD and the     *)
(* configuration move at any time, and cleanup after a commit removes the  *)
(* decision groups nothing refers to.                                      *)
(*                                                                         *)
(* Every operation holds the task lock (TaskLock), so at most one call is  *)
(* in progress; what it still has to write is call.next.  TaskWorkflow     *)
(* says when a phase may ask for a gate; here ordinary work is reduced to  *)
(* what gates interact with.  Gates are numbered in the order their        *)
(* identities are first used.  Left out: restore-collision, constitution-  *)
(* edit and migration-audit gates (the shapes of adoption, revision and    *)
(* approval), the settlement of approval rules, legacy local decisions.    *)
(***************************************************************************)
EXTENDS Naturals, FiniteSets

CONSTANTS Kinds,        \* the kinds of gate that may be opened
          Subjects,     \* digests of produced work
          MaxGates,     \* bound: gate identities
          MaxRevision,  \* bound: the revision new work starts below
          MaxMoves,     \* bound: moves of HEAD, the worktree, the config
          MaxCrashes    \* bound: crashes

AllKinds == {"approval", "waiver", "exhausted", "override", "adoption", "drift"}

ASSUME GateAssumption ==
  /\ Kinds \subseteq AllKinds
  /\ {MaxGates, MaxRevision, MaxMoves, MaxCrashes} \subseteq Nat

VARIABLES
  st,       \* state.json, reduced to what gates read and write
  request,  \* authority/decisions/<gate>/request.json
  archive,  \* authority/decisions/<gate>/decision.json: the choice
  receipt,  \* the gate's intent receipt: what it was prepared from
  shown,    \* gate.json: the gate it presents, or 0
  issued,   \* how many gate identities have been used
  call,     \* the operation in progress
  world,    \* [head, bytes, config]: the repository around the task
  moves, crashes
files == <<request, archive, receipt, shown, issued>>
outside == <<world, moves, crashes>>
vars == <<st, files, call, outside>>

Gates == 1..MaxGates
NoGate == 0
None == [absent |-> TRUE]
Idle == [op |-> "idle"]
Unanswered == "none"

Choices(kind) ==
  CASE kind = "approval"  -> {"approve", "revise", "reject", "waive", "cancel"}
    [] kind = "waiver"    -> {"grant", "deny", "cancel"}
    [] kind = "exhausted" -> {"retry-once", "revise", "push-through", "reject", "cancel"}
    [] kind = "override"  -> {"grant-override", "deny-override", "cancel"}
    [] kind = "adoption"  -> {"adopt", "restore", "reject", "cancel"}
    [] kind = "drift"     -> {"amend", "revise", "reject", "cancel"}
AllChoices == UNION {Choices(k) : k \in AllKinds}
Superseded == "superseded-stale-baseline"

EnactsReentry == {"revise", "retry-once"}
EarnsReceipt == {"approve", "push-through", "adopt", "restore", "grant"}
Advances == EarnsReceipt \ {"grant"}

-----------------------------------------------------------------------------
(* Requests *)

Drift == "drift"
Validations == "validations"

(* What a gate is about: the produced subject, the drift of the baseline,  *)
(* or the validations to override.                                         *)
SubjectOf(kind) ==
  CASE kind = "adoption" -> Drift
    [] kind = "override" -> Validations
    [] OTHER -> st.subject

(* A gate is bound to the revision its opening results in, and to what its *)
(* context observed of the task and the repository.                        *)
Content(kind) ==
  [kind |-> kind, subject |-> SubjectOf(kind), opened |-> st.revision + 1,
   origin |-> IF kind = "waiver" THEN st.last.gate ELSE NoGate,
   asked |-> st.asked, head |-> world.head,
   bytes |-> world.bytes, recorded |-> st.recorded.bytes]

(* The identity is a digest of intent and request: asking the same again   *)
(* names the same gate, anything else a gate never used before.            *)
IdentityOf(content) ==
  LET same == {g \in Gates : request[g] = content}
  IN IF same # {} THEN CHOOSE g \in same : TRUE ELSE issued + 1

(* The open gate is frozen with the revision it was opened at. *)
Matches(g) ==
  st.open = g /\ request[g] # None /\ request[g].opened = st.revision

-----------------------------------------------------------------------------
(* What an authority recorded in the state is authenticated from *)

(* The origin of a waiver: an ordinary gate whose archive redirects. *)
AuthenticOrigin(o, subject) ==
  /\ o # NoGate /\ request[o] # None
  /\ request[o].kind = "approval" /\ request[o].subject = subject
  /\ archive[o] = "waive"

AuthenticApproval(u) ==
  /\ request[u.gate] # None /\ archive[u.gate] \in Advances
  /\ request[u.gate].subject = u.subject

AuthenticPushThrough(u) ==
  /\ \E a \in st.uses : a.use = "approval" /\ a.gate = u.gate /\ a.at = u.at
                         /\ a.subject = u.subject /\ AuthenticApproval(a)
  /\ request[u.gate].kind = "exhausted" /\ archive[u.gate] = "push-through"

AuthenticOverride(u) ==
  /\ request[u.gate] # None /\ request[u.gate].kind = "override"
  /\ archive[u.gate] = "grant-override" /\ request[u.gate].subject = u.subject
  /\ request[u.gate].opened = request[u.gate].asked + 1
  /\ u.at = request[u.gate].opened + 1

AuthenticWaiver(u) ==
  /\ request[u.gate] # None /\ request[u.gate].kind = "waiver"
  /\ request[u.gate].subject = u.subject /\ archive[u.gate] \in {"grant", "deny"}
  /\ AuthenticOrigin(request[u.gate].origin, u.subject)

(* The decision behind a revision a human asked for. *)
AuthenticRevision(g) == request[g] # None /\ archive[g] = "revise"

-----------------------------------------------------------------------------
(* What warrants a gate *)

(* The review ended and the workflow composes the gate it calls for. *)
ComposedWarranted == st.cursor = "triage" /\ st.asked = 0

(* Pushing through a review rests on every approval recorded so far. *)
ExhaustedWarranted ==
  /\ st.cursor = "triage" /\ st.asked = 0
  /\ \A u \in st.uses : u.use = "approval" => AuthenticApproval(u)

WaiverWarranted == st.last.by = "gate" /\ AuthenticOrigin(st.last.gate, st.subject)

(* Asked by the last transition, with nothing recorded since. *)
OverrideWarranted == st.cursor = "produce" /\ st.asked # 0 /\ st.asked = st.revision

(* Live drift, and no producer at work on it. *)
AdoptionWarranted == st.cursor = "triage" /\ world.bytes # st.recorded.bytes

Warranted(kind) ==
  CASE kind \in {"approval", "drift"} -> ComposedWarranted
    [] kind = "exhausted" -> ExhaustedWarranted
    [] kind = "waiver" -> WaiverWarranted
    [] kind = "override" -> OverrideWarranted
    [] kind = "adoption" -> AdoptionWarranted

AtRest == call = Idle /\ st.revision < MaxRevision
Checkpointed == st.last.by = "checkpoint"

-----------------------------------------------------------------------------
(* Opening *)

(* The request is created exclusively; a request a crash left behind is    *)
(* adopted when it is this very one.                                       *)
Open(kind) ==
  /\ AtRest /\ st.open = NoGate /\ ~Checkpointed
  /\ kind \in Kinds /\ Warranted(kind)
  /\ LET content == Content(kind)
         g == IdentityOf(content)
     IN /\ g \in Gates /\ archive[g] = Unanswered
        /\ request' = [request EXCEPT ![g] = content]
        /\ issued' = IF g > issued THEN g ELSE issued
        /\ call' = [op |-> "open", gate |-> g, next |-> "interface",
                    config |-> world.config]
  /\ UNCHANGED <<st, archive, receipt, shown, outside>>

(* What-if: the state names the gate and gate.json is left to a reader. *)
OpenUnpresented ==
  /\ call.op = "open" /\ call.next = "interface"
  /\ call' = [call EXCEPT !.next = "state"]
  /\ UNCHANGED <<st, files, outside>>

OpenInterface ==
  /\ call.op = "open" /\ call.next = "interface"
  /\ shown' = call.gate
  /\ call' = [call EXCEPT !.next = "state"]
  /\ UNCHANGED <<st, request, archive, receipt, issued, outside>>

OpenState ==
  /\ call.op = "open" /\ call.next = "state"
  /\ st' = [st EXCEPT !.revision = @ + 1, !.open = call.gate,
                      !.last = [by |-> "none", gate |-> NoGate],
                      !.seen = call.config]
  /\ call' = Idle
  /\ UNCHANGED <<files, outside>>

-----------------------------------------------------------------------------
(* Archiving the human's decision *)

(* A restore is refused before it is recorded when no retained result      *)
(* holds the bytes; no other landing condition is looked at.               *)
RestoreOffered == st.recorded.held

Archive(choice) ==
  /\ call = Idle /\ st.open # NoGate /\ Matches(st.open)
  /\ archive[st.open] = Unanswered
  /\ choice \in Choices(request[st.open].kind)
  /\ choice = "restore" => RestoreOffered
  /\ archive' = [archive EXCEPT ![st.open] = choice]
  /\ UNCHANGED <<st, request, receipt, shown, issued, call, outside>>

-----------------------------------------------------------------------------
(* Settling *)

(* When the closure of the open gate g by a choice is not refused. *)
ApproveApplies(g) == world.head = request[g].head

(* The human adopted exact bytes, over exact recorded ones. *)
AdoptApplies(g) ==
  st.recorded.bytes = request[g].recorded /\ world.bytes = request[g].bytes

RestoreApplies(g) == st.recorded.bytes = request[g].recorded /\ st.recorded.held

GrantApplies(g) == AuthenticOrigin(request[g].origin, request[g].subject)

OverrideApplies(g) ==
  Matches(g) /\ st.asked = request[g].asked /\ st.asked + 1 = st.revision

PushThroughApplies(g) ==
  /\ Matches(g) /\ st.cursor = "triage"
  /\ \A u \in st.uses : u.use = "approval" => AuthenticApproval(u)
  /\ \A u \in st.uses : u.use = "push-through" => u.gate # g

AmendApplies(g) == Matches(g)

Applies(g, choice) ==
  CASE choice = "approve" -> ApproveApplies(g)
    [] choice = "adopt" -> AdoptApplies(g)
    [] choice = "restore" -> RestoreApplies(g)
    [] choice = "grant" -> GrantApplies(g)
    [] choice \in {"grant-override", "deny-override"} -> OverrideApplies(g)
    [] choice = "push-through" -> PushThroughApplies(g)
    [] choice = "amend" -> AmendApplies(g)
    [] OTHER -> TRUE

(* Bytes that are neither those the human saw nor already restored. *)
RestoreStale(g) == world.bytes \notin {request[g].bytes, st.recorded.bytes}

Use(use, g) == 
  [use |-> use, gate |-> g, subject |-> request[g].subject, at |-> st.revision + 1]

Earned(g, choice) ==
  (IF choice \in Advances THEN {Use("approval", g)} ELSE {})
    \cup (IF choice = "push-through" THEN {Use("push-through", g)} ELSE {})
    \cup (IF choice = "adopt" THEN {Use("adoption", g)} ELSE {})
    \cup (IF choice \in {"grant", "deny"} THEN {Use("waiver", g)} ELSE {})
    \cup (IF choice = "grant-override" THEN {Use("override", g)} ELSE {})

Waivers == {u \in st.uses : u.use = "waiver"}
Cleared == {u.gate : u \in Waivers} \cup ({st.human} \ {NoGate})

(* Back to production, with the waivers and the asked revision recorded in *)
(* the history of restarts or of recoveries.                               *)
Reset(s, history, gates) ==
  [s EXCEPT !.cursor = "produce", !.human = NoGate, !.uses = @ \ Waivers,
            ![history] = @ \cup gates \cup Cleared]

(* The state the gate's closure prepares. *)
Closed(g, choice, config) ==
  LET base == [st EXCEPT !.revision = @ + 1, !.open = NoGate,
                         !.uses = @ \cup Earned(g, choice), !.seen = config,
                         !.asked = IF request[g].kind = "override" /\ choice # "cancel"
                                     THEN 0 ELSE @,
                         !.recorded = IF choice = "adopt"
                                        THEN [bytes |-> request[g].bytes, held |-> FALSE]
                                        ELSE @,
                         !.last = IF choice = "cancel"
                                    THEN [by |-> "none", gate |-> NoGate]
                                    ELSE [by |-> "gate", gate |-> g]]
  IN IF choice = "amend" THEN Reset(base, "restarts", {g}) ELSE base

FirstWrite(choice) ==
  IF choice = "restore" THEN "bytes"
  ELSE IF choice \in EarnsReceipt THEN "receipt" ELSE "state"

Settle(g) ==
  /\ call = Idle /\ st.open = g /\ request[g] # None /\ archive[g] \in AllChoices
  /\ call' = [op |-> "settle", gate |-> g, next |-> FirstWrite(archive[g]),
              config |-> world.config]
  /\ UNCHANGED <<st, files, outside>>

Settling(next) == call.op = "settle" /\ call.next = next
Choice == archive[call.gate]
Refused ==
  CASE call.next = "bytes" -> RestoreStale(call.gate) \/ ~st.recorded.held
    [] call.next = "receipt" -> ~Applies(call.gate, Choice)
    [] call.next = "state" -> Choice \notin EarnsReceipt \cup EnactsReentry
                                /\ ~Applies(call.gate, Choice)
    [] OTHER -> FALSE

(* What the prepared state holds of the world: the configuration seen and, *)
(* where the closure may settle by rule, the target's head.                *)
Prepared == [config |-> call.config,
             head |-> IF Choice \in {"grant", "push-through"} THEN world.head ELSE 0]
(* What-if: a receipt found in place is never compared. *)
CollidesIfPresent == receipt[call.gate] # None

Collides == receipt[call.gate] \notin {None, Prepared}

SettleRefused ==
  /\ call.op = "settle"
  /\ Refused \/ (call.next = "receipt" /\ Collides)
  /\ call' = Idle
  /\ UNCHANGED <<st, files, outside>>

SettleBytes ==
  /\ Settling("bytes") /\ ~Refused
  /\ world' = [world EXCEPT !.bytes = st.recorded.bytes]
  /\ call' = [call EXCEPT !.next = "receipt"]
  /\ UNCHANGED <<st, files, moves, crashes>>

SettleReceipt ==
  /\ Settling("receipt") /\ ~Refused /\ ~Collides
  /\ receipt' = [receipt EXCEPT ![call.gate] = Prepared]
  /\ call' = [call EXCEPT !.next = "state"]
  /\ UNCHANGED <<st, request, archive, shown, issued, outside>>

(* A decided revision closes the gate without entering production. *)
Checkpoint(g, config) ==
  [st EXCEPT !.revision = @ + 1, !.open = NoGate, !.seen = config,
             !.last = [by |-> "checkpoint", gate |-> g]]

(* What-if: the gate is cleared with its interface, not with its effect. *)
SettleKeepingOpen ==
  /\ Settling("state") /\ ~Refused
  /\ st' = IF Choice \in EnactsReentry THEN Checkpoint(call.gate, call.config)
           ELSE [Closed(call.gate, Choice, call.config) EXCEPT !.open = st.open]
  /\ call' = [call EXCEPT !.next = IF Choice \in EnactsReentry THEN "clean"
                                   ELSE "interface"]
  /\ UNCHANGED <<files, outside>>

SettleState ==
  /\ Settling("state") /\ ~Refused
  /\ st' = IF Choice \in EnactsReentry THEN Checkpoint(call.gate, call.config)
           ELSE Closed(call.gate, Choice, call.config)
  /\ call' = [call EXCEPT !.next = IF Choice \in EnactsReentry THEN "clean"
                                   ELSE "interface"]
  /\ UNCHANGED <<files, outside>>

RemoveInterface ==
  /\ call.op \in {"settle", "refresh"} /\ call.next = "interface"
  /\ shown' = NoGate
  /\ call' = IF call.op = "settle" THEN [call EXCEPT !.next = "clean"] ELSE Idle
  /\ UNCHANGED <<st, request, archive, receipt, issued, outside>>

-----------------------------------------------------------------------------
(* The checkpoint's one continuation *)

EnterRevision ==
  /\ call = Idle /\ st.open = NoGate /\ Checkpointed
  /\ LET g == st.last.gate
     IN /\ request[g] # None /\ archive[g] \in EnactsReentry
        /\ request[g].opened + 1 = st.revision
        /\ st' = [st EXCEPT !.revision = @ + 1, !.cursor = "produce",
                            !.human = IF archive[g] = "revise" THEN g ELSE @,
                            !.last = [by |-> "entry", gate |-> g],
                            !.seen = world.config]
  /\ UNCHANGED <<files, call, outside>>

-----------------------------------------------------------------------------
(* Superseding a baseline gate the repository has moved away from *)

RefreshArchive ==
  /\ call = Idle /\ st.open # NoGate /\ Matches(st.open)
  /\ request[st.open].kind = "adoption"
  /\ archive[st.open] \in {Unanswered, Superseded}
  /\ archive[st.open] = Unanswered => world.bytes # request[st.open].bytes
  /\ archive' = [archive EXCEPT ![st.open] = Superseded]
  /\ call' = [op |-> "refresh", gate |-> st.open, next |-> "state"]
  /\ UNCHANGED <<st, request, receipt, shown, issued, outside>>

RefreshState ==
  /\ call.op = "refresh" /\ call.next = "state"
  /\ st' = [st EXCEPT !.revision = @ + 1, !.open = NoGate,
                      !.last = [by |-> "none", gate |-> NoGate]]
  /\ call' = [call EXCEPT !.next = "interface"]
  /\ UNCHANGED <<files, outside>>

-----------------------------------------------------------------------------
(* Cleanup after a commit *)

(* Decisions the state names, and through their files the decisions those  *)
(* quote: only a waiver's request quotes another gate, never a waiver.     *)
Named ==
  {u.gate : u \in st.uses} \cup st.restarts \cup st.history
    \cup ({st.open, st.human, st.last.gate} \ {NoGate})

(* What-if: retention stops at the decisions state.json names itself. *)
QuotesNothing(gates) == {}

Quoted(gates) == {request[g].origin : g \in {h \in gates : request[h] # None}} \ {NoGate}

Live == Named \cup Quoted(Named)

Clean ==
  /\ call # Idle /\ call.next = "clean"
  /\ request' = [g \in Gates |-> IF g \in Live THEN request[g] ELSE None]
  /\ archive' = [g \in Gates |-> IF g \in Live THEN archive[g] ELSE Unanswered]
  /\ receipt' = [g \in Gates |->
       IF request[g] # None /\ request[g].opened = st.revision THEN receipt[g] ELSE None]
  /\ shown' = IF st.open = NoGate THEN NoGate ELSE shown
  /\ call' = Idle
  /\ UNCHANGED <<st, issued, outside>>

-----------------------------------------------------------------------------
(* Ordinary work, each a kernel commit followed by cleanup *)

Commit(next) ==
  /\ AtRest /\ st.open = NoGate
  /\ st' = [next EXCEPT !.revision = @ + 1, !.seen = world.config,
                        !.last = [by |-> "work", gate |-> NoGate]]
  /\ call' = [op |-> "work", next |-> "clean"]
  /\ UNCHANGED <<files, outside>>

(* A result is produced, reviewed and triaged; an asked revision moves to  *)
(* the history.                                                            *)
Produce(subject) ==
  /\ st.cursor = "produce" /\ st.asked = 0
  /\ Commit([st EXCEPT !.cursor = "triage", !.subject = subject, !.human = NoGate,
                       !.history = @ \cup ({st.human} \ {NoGate}),
                       !.recorded = [bytes |-> world.bytes, held |-> TRUE]])

Reenter == st.cursor = "triage" /\ ~Checkpointed /\ Commit([st EXCEPT !.cursor = "produce"])

(* Production failed and its producer asks for a validation override. *)
AskOverride ==
  /\ st.cursor = "produce" /\ st.human = NoGate
  /\ Commit([st EXCEPT !.asked = st.revision + 1])

(* A planning restart, and the recovery of a lost milestone. *)
Restart ==
  st.asked = 0 /\ ~Checkpointed /\ Commit(Reset(st, "restarts", {}))
Recover ==
  /\ st.cursor = "triage" /\ st.asked = 0 /\ ~Checkpointed
  /\ \E u \in st.uses : u.use = "approval" /\ u.subject = st.subject
  /\ Commit(Reset(st, "recoveries", {}))

-----------------------------------------------------------------------------
(* The repository around the task, and crashes *)

Move ==
  /\ moves < MaxMoves /\ moves' = moves + 1
  /\ \E part \in {"head", "bytes", "config"}, value \in 0..1 :
       world[part] # value /\ world' = [world EXCEPT ![part] = value]
  /\ UNCHANGED <<st, files, call, crashes>>

Crash ==
  /\ call # Idle /\ crashes < MaxCrashes /\ crashes' = crashes + 1
  /\ call' = Idle
  /\ UNCHANGED <<st, files, world, moves>>

Init ==
  /\ st \in [revision : {1}, open : {NoGate}, subject : Subjects, cursor : {"produce"},
             last : {[by |-> "work", gate |-> NoGate]}, uses : {{}}, human : {NoGate},
             history : {{}}, restarts : {{}}, recoveries : {{}}, asked : {0},
             seen : {0}, recorded : {[bytes |-> 0, held |-> TRUE]}]
  /\ request = [g \in Gates |-> None] /\ archive = [g \in Gates |-> Unanswered]
  /\ receipt = [g \in Gates |-> None]
  /\ shown = NoGate /\ issued = 0 /\ call = Idle
  /\ world = [head |-> 0, bytes |-> 0, config |-> 0]
  /\ moves = 0 /\ crashes = 0

Opening == OpenInterface \/ OpenState
Closing == SettleRefused \/ SettleBytes \/ SettleReceipt \/ SettleState
             \/ RemoveInterface \/ RefreshState \/ Clean
Work == (\E s \in Subjects : Produce(s)) \/ Reenter \/ AskOverride \/ Restart \/ Recover

Next ==
  \/ \E kind \in Kinds : Open(kind)
  \/ Opening
  \/ \E choice \in AllChoices : Archive(choice)
  \/ \E g \in Gates : Settle(g)
  \/ Closing
  \/ EnterRevision \/ RefreshArchive
  \/ Work
  \/ Move \/ Crash

Spec == Init /\ [][Next]_vars

(* A started call goes on, and a recorded decision is settled again until  *)
(* the gate is closed: the next call of any session offers exactly that.   *)
FairSpec == Spec /\ WF_vars(Opening \/ Closing) /\ \A g \in Gates : WF_vars(Settle(g))

-----------------------------------------------------------------------------
(* Properties *)

(* The shape of the files and of the state. *)
TypeOK ==
  /\ st.revision \in Nat /\ st.open \in Gates \cup {NoGate}
  /\ st.subject \in Subjects /\ st.cursor \in {"produce", "triage"}
  /\ st.human \in Gates \cup {NoGate} /\ st.last.gate \in Gates \cup {NoGate}
  /\ {u.gate : u \in st.uses} \cup st.restarts \cup st.recoveries \cup st.history
       \subseteq Gates
  /\ \A g \in Gates :
       /\ archive[g] \in AllChoices \cup {Unanswered, Superseded}
       /\ request[g] # None => request[g].kind \in Kinds /\ request[g].subject \in Subjects \cup {Drift, Validations}
       /\ g > issued => request[g] = None
  /\ shown \in Gates \cup {NoGate} /\ issued \in Gates \cup {NoGate}

(* Whatever crashed and whatever cleanup removed, each authority the state *)
(* still uses authenticates from its files, and was settled right after    *)
(* the opening its request is bound to; so does the decision behind every  *)
(* revision a human asked for.                                             *)
AuthorityIsArchived ==
  /\ \A u \in st.uses :
       /\ u.use \in {"approval", "adoption"} => AuthenticApproval(u)
       /\ u.use = "push-through" => AuthenticPushThrough(u)
       /\ u.use = "waiver" => AuthenticWaiver(u)
       /\ u.use = "override" => AuthenticOverride(u)
       /\ u.at = request[u.gate].opened + 1
  /\ \A g \in st.history \cup ({st.human} \ {NoGate}) : AuthenticRevision(g)

(* A gate the state holds open can be answered: its request is installed   *)
(* and is the one the state was frozen for, gate.json presents it, and     *)
(* what it rests on is still there, however the opening and earlier        *)
(* cleanups were cut short.                                                *)
OpenIsAnswerable ==
  st.open # NoGate =>
    /\ Matches(st.open) /\ shown = st.open
    /\ request[st.open].kind = "waiver" =>
         AuthenticOrigin(request[st.open].origin, st.subject)
    /\ request[st.open].kind = "override" => st.asked = request[st.open].asked

(* A decision takes effect once: however often it is settled again after   *)
(* crashes, no authority is recorded twice for the same gate.              *)
EffectOnce ==
  \A u, v \in st.uses : u.gate = v.gate /\ u.use = v.use => u = v

(* A recorded decision is carried out by the calls that follow, through    *)
(* crashes, unless its closure is refused as things stand: the repository  *)
(* moved, or a receipt was prepared from another configuration.            *)
Stuck(g) ==
  \/ ~Applies(g, archive[g])
  \/ archive[g] = "restore" /\ RestoreStale(g)
  \/ receipt[g] # None /\ receipt[g].config # world.config
  \/ receipt[g] # None /\ archive[g] \in {"grant", "push-through"}
       /\ receipt[g].head # world.head
ArchivedIsSettled ==
  \A g \in Gates :
    st.open = g /\ archive[g] \in AllChoices ~> st.open # g \/ Stuck(g)

=============================================================================
