------------------------ MODULE GateLifecycleProofs ------------------------
(***************************************************************************)
(* Machine-checked facts about GateLifecycle for every set of kinds and     *)
(* subjects and every bound: the gate a state holds open can be answered,   *)
(* every authority a state uses authenticates from its files, and no        *)
(* decision takes effect twice.                                             *)
(***************************************************************************)
EXTENDS GateLifecycle, TLAPS

-----------------------------------------------------------------------------
(* The inductive invariant. *)

GateOrNone == Gates \cup {NoGate}
AllSubjects == Subjects \cup {Drift, Validations}
Bits == 0..1

Uses == [use : {"approval", "push-through", "adoption", "waiver", "override"},
         gate : Gates, subject : AllSubjects, at : Nat]

Lasts == [by : {"none", "gate", "checkpoint", "entry", "work"}, gate : GateOrNone]

States ==
  [revision : Nat, open : GateOrNone, subject : Subjects, cursor : {"produce", "triage"},
   last : Lasts,
   uses : SUBSET Uses, human : GateOrNone, history : SUBSET Gates,
   restarts : SUBSET Gates, recoveries : SUBSET Gates, asked : Nat, seen : Bits,
   recorded : [bytes : Bits, held : BOOLEAN]]

Requests ==
  [kind : AllKinds \cap Kinds, subject : AllSubjects, opened : Nat, origin : GateOrNone,
   asked : Nat, head : Bits, bytes : Bits, recorded : Bits]

Calls ==
  {Idle} \cup [op : {"open"}, gate : Gates, next : {"interface", "state"}, config : Bits]
    \cup [op : {"settle"}, gate : Gates,
          next : {"bytes", "receipt", "state", "interface", "clean"}, config : Bits]
    \cup [op : {"refresh"}, gate : Gates, next : {"state", "interface"}]
    \cup [op : {"work"}, next : {"clean"}]

Shapes ==
  /\ st \in States
  /\ request \in [Gates -> Requests \cup {None}]
  /\ archive \in [Gates -> AllChoices \cup {Unanswered, Superseded}]
  /\ shown \in GateOrNone /\ issued \in GateOrNone
  /\ call \in Calls
  /\ world \in [head : Bits, bytes : Bits, config : Bits]

(* Identities are used in order. *)
InOrder == \A g \in Gates : g > issued => request[g] = None

(* A recorded choice is one its request offers. *)
ChoiceFits ==
  \A g \in Gates : archive[g] \in AllChoices =>
    request[g] # None /\ archive[g] \in Choices(request[g].kind)

(* An override is asked one revision before its gate is opened. *)
OverrideFits ==
  \A g \in Gates : request[g] # None /\ request[g].kind = "override" =>
    request[g].opened = request[g].asked + 1

(* What a gate rests on, from its request to its settlement. *)
Rests(g) ==
  /\ request[g].kind = "waiver" =>
       request[g].subject = st.subject /\ AuthenticOrigin(request[g].origin, st.subject)
  /\ request[g].kind = "override" => st.asked = request[g].asked

OpenStands ==
  st.open # NoGate => Matches(st.open) /\ shown = st.open /\ Rests(st.open)

(* How far the call in progress has come. *)
CallStands ==
  /\ call.op = "open" =>
       /\ st.open = NoGate /\ request[call.gate] # None
       /\ request[call.gate].opened = st.revision + 1
       /\ archive[call.gate] = Unanswered /\ Rests(call.gate)
       /\ call.next = "state" => shown = call.gate
  /\ call.op = "settle" /\ call.next \in {"bytes", "receipt", "state"} =>
       st.open = call.gate /\ archive[call.gate] \in AllChoices
  /\ call.op # "idle" /\ call.next \in {"interface", "clean"} => st.open = NoGate

GateInv ==
  /\ Shapes /\ InOrder /\ ChoiceFits /\ OverrideFits
  /\ OpenStands /\ CallStands /\ AuthorityIsArchived

-----------------------------------------------------------------------------
(* Facts every step keeps as long as it leaves the answered gates alone. *)

(* What the state rests on, in full: the body of AuthorityIsArchived. *)
Archived(u) ==
  /\ u.use \in {"approval", "adoption"} => AuthenticApproval(u)
  /\ u.use = "push-through" => AuthenticPushThrough(u)
  /\ u.use = "waiver" => AuthenticWaiver(u)
  /\ u.use = "override" => AuthenticOverride(u)
  /\ u.at = request[u.gate].opened + 1

Asked == st.history \cup ({st.human} \ {NoGate})

LEMMA AuthorityBody ==
  AuthorityIsArchived <=> (\A u \in st.uses : Archived(u)) /\ (\A g \in Asked : AuthenticRevision(g))
BY DEF AuthorityIsArchived, Archived, Asked

LEMMA StateFields ==
  ASSUME GateInv
  PROVE  /\ st \in States /\ st.revision \in Nat /\ st.asked \in Nat
         /\ {st.open, st.human, st.last.gate, NoGate} \subseteq GateOrNone
         /\ st.history \subseteq Gates /\ st.restarts \subseteq Gates
         /\ st.recorded.bytes \in Bits /\ st.recorded.held \in BOOLEAN /\ st.subject \in Subjects
         /\ st.last \in Lasts
<1>1. st \in States
  BY DEF GateInv, Shapes
<1>2. st.last \in Lasts
  BY <1>1 DEF States
<1>3. st.last.gate \in GateOrNone
  BY <1>2 DEF Lasts
<1> QED
  BY <1>1, <1>2, <1>3 DEF States, GateOrNone

(* A step that keeps the files of every answered gate something refers to. *)
KeepsAnswered ==
  \A g \in Live : request[g] # None /\ archive[g] \in AllChoices =>
    request'[g] = request[g] /\ archive'[g] = archive[g]

KeepsApprovals == \A u \in st.uses : u.use = "approval" => u \in st'.uses

LEMMA AnswersAreChoices ==
  /\ Advances \subseteq AllChoices
  /\ {"waive", "revise", "grant", "deny", "grant-override", "push-through"} \subseteq AllChoices
BY DEF Advances, EarnsReceipt, AllChoices, AllKinds, Choices

(* Every use of a gate is an answered gate the state names. *)
LEMMA UsesAreAnswered ==
  ASSUME GateInv, NEW u \in st.uses
  PROVE  /\ u \in Uses /\ u.gate \in Live /\ u.gate \in Gates
         /\ request[u.gate] # None /\ archive[u.gate] \in AllChoices
<1>1. u \in Uses
  BY DEF GateInv, Shapes, States
<1>2. u.gate \in Live
  BY DEF Live, Named
<1>3. Archived(u)
  BY AuthorityBody DEF GateInv
<1>4. ASSUME u.use \in {"approval", "adoption"}
      PROVE  request[u.gate] # None /\ archive[u.gate] \in AllChoices
  BY <1>3, <1>4, AnswersAreChoices DEF Archived, AuthenticApproval
<1>5. ASSUME u.use = "push-through"
      PROVE  request[u.gate] # None /\ archive[u.gate] \in AllChoices
  BY <1>3, <1>5, AnswersAreChoices DEF Archived, AuthenticPushThrough, AuthenticApproval
<1>6. ASSUME u.use = "waiver"
      PROVE  request[u.gate] # None /\ archive[u.gate] \in AllChoices
  BY <1>3, <1>6, AnswersAreChoices DEF Archived, AuthenticWaiver
<1>7. ASSUME u.use = "override"
      PROVE  request[u.gate] # None /\ archive[u.gate] \in AllChoices
  BY <1>3, <1>7, AnswersAreChoices DEF Archived, AuthenticOverride
<1>8. u.use \in {"approval", "push-through", "adoption", "waiver", "override"} /\ u.gate \in Gates
  BY <1>1 DEF Uses
<1> QED
  BY <1>1, <1>2, <1>4, <1>5, <1>6, <1>7, <1>8

(* The origin of a waiver is quoted by its request. *)
LEMMA OriginCarries ==
  ASSUME GateInv, KeepsAnswered, NEW o \in Quoted(Named), NEW subject, AuthenticOrigin(o, subject)
  PROVE  AuthenticOrigin(o, subject)'
<1>1. o \in Live
  BY DEF Live
<1>2. request[o] # None /\ archive[o] = "waive" /\ archive[o] \in AllChoices
  BY AnswersAreChoices DEF AuthenticOrigin
<1>3. request'[o] = request[o] /\ archive'[o] = archive[o]
  BY <1>1, <1>2 DEF KeepsAnswered
<1> QED
  BY <1>3 DEF AuthenticOrigin

LEMMA QuotedOrigin ==
  ASSUME NEW h \in Named, request[h] # None, NEW subject,
         AuthenticOrigin(request[h].origin, subject)
  PROVE  request[h].origin \in Quoted(Named)
BY DEF Quoted, AuthenticOrigin

(* What is archived stays archived. *)
LEMMA ApprovalCarries ==
  ASSUME GateInv, KeepsAnswered, NEW u \in st.uses, AuthenticApproval(u)
  PROVE  AuthenticApproval(u)'
<1>1. request'[u.gate] = request[u.gate] /\ archive'[u.gate] = archive[u.gate]
  BY UsesAreAnswered DEF KeepsAnswered
<1> QED
  BY <1>1 DEF AuthenticApproval

LEMMA UseCarries ==
  ASSUME GateInv, KeepsAnswered, KeepsApprovals, NEW u \in st.uses
  PROVE  Archived(u)'
<1>1. request'[u.gate] = request[u.gate] /\ archive'[u.gate] = archive[u.gate]
  BY UsesAreAnswered DEF KeepsAnswered
<1>2. Archived(u)
  BY AuthorityBody DEF GateInv
<1>3. ASSUME u.use \in {"approval", "adoption"}
      PROVE  AuthenticApproval(u)'
  BY <1>2, <1>3, ApprovalCarries DEF Archived
<1>4. ASSUME u.use = "push-through"
      PROVE  AuthenticPushThrough(u)'
  <2>1. AuthenticPushThrough(u)
    BY <1>2, <1>4 DEF Archived
  <2>2. PICK a \in st.uses : a.use = "approval" /\ a.gate = u.gate /\ a.at = u.at
                             /\ a.subject = u.subject /\ AuthenticApproval(a)
    BY <2>1 DEF AuthenticPushThrough
  <2>3. a \in st'.uses /\ AuthenticApproval(a)'
    BY <2>2, ApprovalCarries DEF KeepsApprovals
  <2> QED
    BY <1>1, <2>1, <2>2, <2>3 DEF AuthenticPushThrough
<1>5. ASSUME u.use = "waiver"
      PROVE  AuthenticWaiver(u)'
  <2>1. AuthenticWaiver(u)
    BY <1>2, <1>5 DEF Archived
  <2>2. u.gate \in Named
    BY DEF Named
  <2>3. PICK o : o = request[u.gate].origin
    OBVIOUS
  <2>4. AuthenticOrigin(o, u.subject) /\ o \in Quoted(Named)
    BY <2>1, <2>2, <2>3, QuotedOrigin DEF AuthenticWaiver
  <2>5. AuthenticOrigin(o, u.subject)'
    BY <2>4, OriginCarries
  <2> QED
    BY <1>1, <2>1, <2>3, <2>5 DEF AuthenticWaiver, AuthenticOrigin
<1>6. ASSUME u.use = "override"
      PROVE  AuthenticOverride(u)'
  BY <1>1, <1>2, <1>6 DEF Archived, AuthenticOverride
<1> QED
  BY <1>1, <1>2, <1>3, <1>4, <1>5, <1>6 DEF Archived

LEMMA RevisionCarries ==
  ASSUME GateInv, KeepsAnswered, NEW g \in Asked
  PROVE  AuthenticRevision(g)'
<1>1. AuthenticRevision(g)
  BY AuthorityBody DEF GateInv
<1>2. g \in Live
  BY DEF Asked, Live, Named
<1>3. request'[g] = request[g] /\ archive'[g] = archive[g]
  BY <1>1, <1>2, AnswersAreChoices DEF KeepsAnswered, AuthenticRevision
<1> QED
  BY <1>1, <1>3 DEF AuthenticRevision

LEMMA AuthorityCarries ==
  ASSUME GateInv, KeepsAnswered, KeepsApprovals,
         st'.uses \subseteq st.uses, Asked' \subseteq Asked
  PROVE  AuthorityIsArchived'
<1>1. \A u \in st'.uses : Archived(u)'
  BY UseCarries
<1>2. \A g \in Asked' : AuthenticRevision(g)'
  BY RevisionCarries
<1> QED
  BY <1>1, <1>2 DEF AuthorityIsArchived, Archived, Asked

LEMMA AuthorityUntouched ==
  ASSUME GateInv, UNCHANGED <<st, request, archive>>
  PROVE  AuthorityIsArchived' /\ ChoiceFits' /\ OverrideFits'
<1>1. KeepsAnswered /\ KeepsApprovals /\ Asked' = Asked /\ st'.uses = st.uses
  BY DEF KeepsAnswered, KeepsApprovals, Asked
<1>2. AuthorityIsArchived'
  BY <1>1, AuthorityCarries
<1> QED
  BY <1>2 DEF GateInv, ChoiceFits, OverrideFits, Choices

(* The call in progress, by its operation. *)
OpenCalls == [op : {"open"}, gate : Gates, next : {"interface", "state"}, config : Bits]
SettleCalls ==
  [op : {"settle"}, gate : Gates, next : {"bytes", "receipt", "state", "interface", "clean"},
   config : Bits]
RefreshCalls == [op : {"refresh"}, gate : Gates, next : {"state", "interface"}]
WorkCalls == [op : {"work"}, next : {"clean"}]

LEMMA CallKinds ==
  ASSUME GateInv
  PROVE  /\ call.op = "open" => call \in OpenCalls
         /\ call.op = "settle" => call \in SettleCalls
         /\ call.op = "refresh" => call \in RefreshCalls
         /\ call # Idle => call.op # "idle" /\ call \in OpenCalls \cup SettleCalls \cup RefreshCalls \cup WorkCalls
         /\ call.op = "idle" <=> call = Idle
BY DEF GateInv, Shapes, Calls, Idle, OpenCalls, SettleCalls, RefreshCalls, WorkCalls

LEMMA CallUnion ==
  Calls = {Idle} \cup OpenCalls \cup SettleCalls \cup RefreshCalls \cup WorkCalls
BY DEF Calls, OpenCalls, SettleCalls, RefreshCalls, WorkCalls

(* Steps that write neither the state nor a decision group. *)
LEMMA StepBeside ==
  ASSUME GateInv, UNCHANGED <<st, request, archive, issued>>,
         call' \in Calls, shown' \in GateOrNone, world' \in [head : Bits, bytes : Bits, config : Bits],
         st.open # NoGate => shown' = shown, CallStands'
  PROVE  GateInv'
<1>1. AuthorityIsArchived' /\ ChoiceFits' /\ OverrideFits'
  BY AuthorityUntouched
<1>2. Shapes' /\ InOrder'
  BY DEF GateInv, Shapes, InOrder
<1>3. OpenStands'
  BY DEF GateInv, OpenStands, Matches, Rests, AuthenticOrigin
<1> QED
  BY <1>1, <1>2, <1>3 DEF GateInv

LEMMA OpenInterfaceKeeps ==
  ASSUME GateInv, OpenInterface
  PROVE  GateInv'
<1>1. call \in OpenCalls
  BY CallKinds DEF OpenInterface
<1>2. /\ call' \in OpenCalls /\ call'.gate = call.gate /\ call'.op = "open"
      /\ call.gate \in Gates
  BY <1>1 DEF OpenInterface, OpenCalls
<1>3. UNCHANGED <<st, request, archive, issued, world>> /\ shown' = call.gate /\ call'.next = "state"
  BY <1>1 DEF OpenInterface, outside, OpenCalls
<1>4. st.open = NoGate
  BY DEF OpenInterface, GateInv, CallStands
<1>5. CallStands'
  BY <1>2, <1>3, <1>4 DEF OpenInterface, GateInv, CallStands, Rests, AuthenticOrigin
<1> QED
  BY <1>2, <1>3, <1>4, <1>5, StepBeside, CallUnion DEF GateOrNone, GateInv, Shapes

LEMMA SettleKeeps ==
  ASSUME GateInv, NEW g \in Gates, Settle(g)
  PROVE  GateInv'
<1>1. /\ call' \in SettleCalls /\ call'.gate = g /\ call'.op = "settle"
      /\ call'.next \in {"bytes", "receipt", "state"}
  BY DEF Settle, SettleCalls, FirstWrite, GateInv, Shapes
<1>2. UNCHANGED <<st, request, archive, issued, shown, world>>
  BY DEF Settle, files, outside
<1>3. CallStands'
  BY <1>1, <1>2 DEF Settle, CallStands
<1> QED
  BY <1>1, <1>2, <1>3, StepBeside, CallUnion DEF GateInv, Shapes

LEMMA SettleRefusedKeeps ==
  ASSUME GateInv, SettleRefused
  PROVE  GateInv'
<1>1. UNCHANGED <<st, request, archive, issued, shown, world>> /\ call' = Idle
  BY DEF SettleRefused, files, outside
<1>2. CallStands' /\ call' \in Calls
  BY <1>1 DEF CallStands, Idle, Calls
<1> QED
  BY <1>1, <1>2, StepBeside DEF GateInv, Shapes

LEMMA SettleBytesKeeps ==
  ASSUME GateInv, SettleBytes
  PROVE  GateInv'
<1>1. call \in SettleCalls
  BY CallKinds DEF SettleBytes, Settling
<1>2. call' \in SettleCalls /\ call'.gate = call.gate /\ call'.op = "settle" /\ call'.next = "receipt"
  BY <1>1 DEF SettleBytes, SettleCalls
<1>3. UNCHANGED <<st, request, archive, issued, shown>>
  BY DEF SettleBytes, files
<1>4. world' \in [head : Bits, bytes : Bits, config : Bits]
  BY DEF SettleBytes, GateInv, Shapes, States
<1>5. CallStands'
  BY <1>2, <1>3 DEF SettleBytes, Settling, GateInv, CallStands
<1> QED
  BY <1>2, <1>3, <1>4, <1>5, StepBeside, CallUnion DEF GateInv, Shapes

LEMMA SettleReceiptKeeps ==
  ASSUME GateInv, SettleReceipt
  PROVE  GateInv'
<1>1. call \in SettleCalls
  BY CallKinds DEF SettleReceipt, Settling
<1>2. call' \in SettleCalls /\ call'.gate = call.gate /\ call'.op = "settle" /\ call'.next = "state"
  BY <1>1 DEF SettleReceipt, SettleCalls
<1>3. UNCHANGED <<st, request, archive, issued, shown, world>>
  BY DEF SettleReceipt, outside
<1>5. CallStands'
  BY <1>2, <1>3 DEF SettleReceipt, Settling, GateInv, CallStands
<1> QED
  BY <1>2, <1>3, <1>5, StepBeside, CallUnion DEF GateInv, Shapes

LEMMA RemoveInterfaceKeeps ==
  ASSUME GateInv, RemoveInterface
  PROVE  GateInv'
<1>1. call \in SettleCalls \cup RefreshCalls /\ call.op \in {"settle", "refresh"}
  BY CallKinds DEF RemoveInterface
<1>2. \/ call' = Idle
      \/ call' \in SettleCalls /\ call'.op = "settle" /\ call'.next = "clean"
  BY <1>1 DEF RemoveInterface, SettleCalls, RefreshCalls
<1>3. UNCHANGED <<st, request, archive, issued, world>> /\ shown' = NoGate
  BY DEF RemoveInterface, outside
<1>4. st.open = NoGate
  BY <1>1 DEF RemoveInterface, GateInv, CallStands
<1>5. CallStands'
  BY <1>2, <1>3, <1>4 DEF CallStands, Idle
<1> QED
  BY <1>2, <1>3, <1>4, <1>5, StepBeside, CallUnion DEF GateInv, Shapes, GateOrNone

LEMMA MoveKeeps ==
  ASSUME GateInv, Move
  PROVE  GateInv'
<1>1. UNCHANGED <<st, request, archive, issued, shown, call>>
  BY DEF Move, files
<1>2. world' \in [head : Bits, bytes : Bits, config : Bits]
  <2>1. PICK part \in {"head", "bytes", "config"}, value \in 0..1 :
          world' = [world EXCEPT ![part] = value]
    BY DEF Move
  <2>2. world \in [head : Bits, bytes : Bits, config : Bits]
    BY DEF GateInv, Shapes
  <2> QED
    BY <2>1, <2>2 DEF Bits
<1>3. CallStands'
  BY <1>1 DEF GateInv, CallStands, Rests, AuthenticOrigin
<1> QED
  BY <1>1, <1>2, <1>3, StepBeside DEF GateInv, Shapes

LEMMA CrashKeeps ==
  ASSUME GateInv, Crash
  PROVE  GateInv'
<1>1. UNCHANGED <<st, request, archive, issued, shown, world>> /\ call' = Idle
  BY DEF Crash, files
<1>2. CallStands' /\ call' \in Calls
  BY <1>1 DEF CallStands, Idle, Calls
<1> QED
  BY <1>1, <1>2, StepBeside DEF GateInv, Shapes

-----------------------------------------------------------------------------
(* Steps that write a decision group. *)

(* A choice is recorded, or replaced, only where no answer was recorded. *)
LEMMA ArchiveWrites ==
  ASSUME GateInv, NEW g \in Gates, NEW choice \in AllChoices \cup {Superseded},
         request[g] # None, archive[g] \in {Unanswered, Superseded},
         archive' = [archive EXCEPT ![g] = choice],
         UNCHANGED <<st, request>>,
         choice \in AllChoices => choice \in Choices(request[g].kind)
  PROVE  /\ AuthorityIsArchived' /\ ChoiceFits' /\ OverrideFits'
         /\ archive' \in [Gates -> AllChoices \cup {Unanswered, Superseded}]
         /\ \A h \in GateOrNone : \A subject : AuthenticOrigin(h, subject) => AuthenticOrigin(h, subject)'
<1>1. archive \in [Gates -> AllChoices \cup {Unanswered, Superseded}]
  BY DEF GateInv, Shapes
<1>2. archive[g] \notin AllChoices
  BY DEF AllChoices, AllKinds, Choices, Unanswered, Superseded
<1>3. \A h \in Gates : archive[h] \in AllChoices => archive'[h] = archive[h]
  BY <1>1, <1>2
<1>4. Live \subseteq GateOrNone /\ Named \subseteq Gates
  <2>1. \A u \in st.uses : u.gate \in Gates
    BY UsesAreAnswered
  <2>2. Named \subseteq Gates
    BY <2>1, StateFields DEF Named, GateOrNone
  <2>3. \A h \in Gates : request[h] # None => request[h].origin \in GateOrNone
    BY DEF GateInv, Shapes, Requests
  <2> QED
    BY <2>2, <2>3 DEF Live, Quoted, GateOrNone
<1>5. KeepsAnswered
  <2>1. Quoted(Named) \subseteq Gates
    BY <1>4 DEF Live, Quoted, GateOrNone
  <2> QED
    BY <1>3, <1>4, <2>1 DEF KeepsAnswered, Live
<1>6. KeepsApprovals /\ Asked' = Asked /\ st'.uses = st.uses
  BY DEF KeepsApprovals, Asked
<1>7. AuthorityIsArchived'
  BY <1>5, <1>6, AuthorityCarries
<1>8. ChoiceFits' /\ OverrideFits'
  BY <1>1 DEF GateInv, ChoiceFits, OverrideFits, Choices
<1>9. archive' \in [Gates -> AllChoices \cup {Unanswered, Superseded}]
  BY <1>1
<1>10. ASSUME NEW h \in GateOrNone, NEW subject, AuthenticOrigin(h, subject)
       PROVE  AuthenticOrigin(h, subject)'
  BY <1>3, <1>10, AnswersAreChoices DEF AuthenticOrigin, GateOrNone
<1> QED
  BY <1>7, <1>8, <1>9, <1>10

(* The origin a request quotes is a gate or none. *)
LEMMA OriginIsGate ==
  ASSUME GateInv, NEW g \in Gates, request[g] # None
  PROVE  request[g].origin \in GateOrNone
BY DEF GateInv, Shapes, Requests

LEMMA ArchiveKeeps ==
  ASSUME GateInv, NEW choice \in AllChoices, Archive(choice)
  PROVE  GateInv'
<1> DEFINE g == st.open
<1>1. g \in Gates /\ request[g] # None /\ archive[g] = Unanswered
  BY DEF Archive, Matches, GateInv, Shapes, States, GateOrNone
<1>2. UNCHANGED <<st, request, shown, issued, call, world>>
      /\ archive' = [archive EXCEPT ![g] = choice]
      /\ choice \in Choices(request[g].kind)
  BY DEF Archive, outside
<1>3. /\ AuthorityIsArchived' /\ ChoiceFits' /\ OverrideFits'
      /\ archive' \in [Gates -> AllChoices \cup {Unanswered, Superseded}]
      /\ \A h \in GateOrNone : \A subject : AuthenticOrigin(h, subject) => AuthenticOrigin(h, subject)'
  BY <1>1, <1>2, ArchiveWrites
<1>4. Shapes' /\ InOrder'
  BY <1>2, <1>3 DEF GateInv, Shapes, InOrder
<1>5. OpenStands'
  BY <1>1, <1>2, <1>3, OriginIsGate DEF GateInv, OpenStands, Matches, Rests
<1>6. CallStands'
  BY <1>1, <1>2 DEF Archive, CallStands, Idle
<1> QED
  BY <1>3, <1>4, <1>5, <1>6 DEF GateInv

LEMMA RefreshArchiveKeeps ==
  ASSUME GateInv, RefreshArchive
  PROVE  GateInv'
<1> DEFINE g == st.open
<1>1. g \in Gates /\ request[g] # None /\ archive[g] \in {Unanswered, Superseded}
  BY DEF RefreshArchive, Matches, GateInv, Shapes, States, GateOrNone
<1>2. UNCHANGED <<st, request, shown, issued, world>>
      /\ archive' = [archive EXCEPT ![g] = Superseded]
      /\ call' = [op |-> "refresh", gate |-> g, next |-> "state"]
  BY DEF RefreshArchive, outside
<1>3. /\ AuthorityIsArchived' /\ ChoiceFits' /\ OverrideFits'
      /\ archive' \in [Gates -> AllChoices \cup {Unanswered, Superseded}]
      /\ \A h \in GateOrNone : \A subject : AuthenticOrigin(h, subject) => AuthenticOrigin(h, subject)'
  <2>1. Superseded \notin AllChoices
    BY DEF AllChoices, AllKinds, Choices, Superseded
  <2> QED
    BY <1>1, <1>2, <2>1, ArchiveWrites
<1>4. call' \in RefreshCalls
  BY <1>1, <1>2 DEF RefreshCalls
<1>5. Shapes' /\ InOrder'
  BY <1>2, <1>3, <1>4, CallUnion DEF GateInv, Shapes, InOrder
<1>6. OpenStands'
  BY <1>1, <1>2, <1>3, OriginIsGate DEF GateInv, OpenStands, Matches, Rests
<1>7. CallStands'
  BY <1>2 DEF CallStands
<1> QED
  BY <1>3, <1>5, <1>6, <1>7 DEF GateInv

-----------------------------------------------------------------------------
(* A request is created where none was, or found to be this very one. *)

LEMMA ContentIsRequest ==
  ASSUME GateInv, NEW kind \in Kinds, st.open = NoGate
  PROVE  /\ Content(kind) \in Requests /\ Content(kind) # None
         /\ Content(kind).kind = kind /\ Content(kind).opened = st.revision + 1
         /\ Content(kind).asked = st.asked
         /\ kind = "waiver" => Content(kind).subject = st.subject /\ Content(kind).origin = st.last.gate
<1>1. kind \in AllKinds
  BY GateAssumption
<1>2. /\ st.revision + 1 \in Nat /\ st.asked \in Nat /\ st.last.gate \in GateOrNone
      /\ st.recorded.bytes \in Bits /\ st.subject \in Subjects /\ NoGate \in GateOrNone
      /\ world.head \in Bits /\ world.bytes \in Bits
  BY StateFields DEF GateInv, Shapes, GateOrNone
<1>3. SubjectOf(kind) \in AllSubjects /\ (kind = "waiver" => SubjectOf(kind) = st.subject)
  BY <1>2 DEF SubjectOf, AllSubjects
<1>4. Content(kind) \in Requests
  BY <1>1, <1>2, <1>3 DEF Content, Requests
<1>5. Content(kind) # None
  BY DEF Content, None
<1>6. /\ Content(kind).kind = kind /\ Content(kind).opened = st.revision + 1
      /\ Content(kind).asked = st.asked
      /\ kind = "waiver" => Content(kind).subject = st.subject /\ Content(kind).origin = st.last.gate
  BY <1>3 DEF Content
<1> QED
  BY <1>4, <1>5, <1>6

LEMMA IdentityIsFresh ==
  ASSUME GateInv, NEW content, IdentityOf(content) \in Gates
  PROVE  request[IdentityOf(content)] \in {content, None}
<1> DEFINE same == {g \in Gates : request[g] = content}
<1>1. CASE same # {}
  BY <1>1 DEF IdentityOf
<1>2. CASE same = {}
  <2>1. IdentityOf(content) = issued + 1
    BY <1>2 DEF IdentityOf
  <2>2. issued + 1 > issued
    BY GateAssumption DEF GateInv, Shapes, GateOrNone, Gates, NoGate
  <2> QED
    BY <2>1, <2>2 DEF GateInv, InOrder
<1> QED
  BY <1>1, <1>2

LEMMA OpenKeeps ==
  ASSUME GateInv, NEW kind \in Kinds, Open(kind)
  PROVE  GateInv'
<1>0. PICK content, g : content = Content(kind) /\ g = IdentityOf(content)
  OBVIOUS
<1>1. st.open = NoGate /\ Warranted(kind)
  BY DEF Open
<1>2. /\ content \in Requests /\ content # None
      /\ content.kind = kind /\ content.opened = st.revision + 1 /\ content.asked = st.asked
      /\ kind = "waiver" => content.subject = st.subject /\ content.origin = st.last.gate
  BY <1>0, <1>1, ContentIsRequest
<1>3. /\ g \in Gates /\ archive[g] = Unanswered
      /\ request' = [request EXCEPT ![g] = content]
      /\ issued' = IF g > issued THEN g ELSE issued
      /\ call' = [op |-> "open", gate |-> g, next |-> "interface", config |-> world.config]
      /\ UNCHANGED <<st, archive, receipt, shown, world>>
  BY <1>0 DEF Open, outside
<1>4. request[g] \in {content, None}
  BY <1>0, <1>3, IdentityIsFresh
<1>5. \A h \in Gates : request[h] # None => request'[h] = request[h]
  BY <1>3, <1>4 DEF GateInv, Shapes
<1>6. request'[g] = content
  BY <1>3 DEF GateInv, Shapes
<1>7. Named \subseteq Gates /\ Quoted(Named) \subseteq Gates
  <2>1. \A u \in st.uses : u.gate \in Gates
    BY UsesAreAnswered
  <2>2. Named \subseteq Gates
    BY <2>1, StateFields DEF Named, GateOrNone
  <2> QED
    BY <2>2, OriginIsGate DEF Quoted, GateOrNone
<1>8. AuthorityIsArchived'
  <2>1. KeepsAnswered
    BY <1>3, <1>5, <1>7 DEF KeepsAnswered, Live
  <2>2. KeepsApprovals /\ Asked' = Asked /\ st'.uses = st.uses
    BY <1>3 DEF KeepsApprovals, Asked
  <2> QED
    BY <2>1, <2>2, AuthorityCarries
<1>9. ChoiceFits'
  <2>1. \A h \in Gates : archive'[h] \in AllChoices => request'[h] = request[h] /\ request[h] # None
    BY <1>3, <1>5 DEF GateInv, ChoiceFits
  <2> QED
    BY <1>3, <2>1 DEF GateInv, ChoiceFits, Choices
<1>10. OverrideFits'
  <2>1. kind = "override" => content.opened = content.asked + 1
    BY <1>1, <1>2 DEF Warranted, OverrideWarranted
  <2>2. ASSUME NEW h \in Gates, request'[h] # None, request'[h].kind = "override"
        PROVE  request'[h].opened = request'[h].asked + 1
    <3>1. CASE h = g
      BY <1>2, <1>6, <2>1, <2>2, <3>1
    <3>2. CASE h # g
      BY <1>3, <2>2, <3>2 DEF GateInv, OverrideFits, Shapes
    <3> QED
      BY <3>1, <3>2
  <2> QED
    BY <2>2 DEF OverrideFits
<1>11. Shapes'
  <2>1. request' \in [Gates -> Requests \cup {None}]
    BY <1>2, <1>3 DEF GateInv, Shapes
  <2>2. call' \in OpenCalls
    BY <1>3 DEF OpenCalls, GateInv, Shapes
  <2>3. issued' \in GateOrNone
    BY <1>3 DEF GateInv, Shapes, GateOrNone
  <2> QED
    BY <1>3, <2>1, <2>2, <2>3, CallUnion DEF GateInv, Shapes
<1>12. InOrder'
  <2>1. issued \in Nat /\ \A h \in Gates : h \in Nat
    BY GateAssumption DEF GateInv, Shapes, GateOrNone, Gates, NoGate
  <2> QED
    BY <1>3, <2>1 DEF GateInv, InOrder, Shapes
<1>13. OpenStands'
  BY <1>1, <1>3 DEF OpenStands
<1>14. CallStands'
  <2>1. kind = "waiver" => AuthenticOrigin(st.last.gate, st.subject)
    BY <1>1 DEF Warranted, WaiverWarranted
  <2>2. kind = "waiver" => AuthenticOrigin(st.last.gate, st.subject)'
    BY <1>3, <1>5, <2>1 DEF AuthenticOrigin, GateInv, Shapes, States, GateOrNone
  <2>3. Rests(g)'
    BY <1>2, <1>3, <1>6, <2>2 DEF Rests, AuthenticOrigin
  <2> QED
    BY <1>1, <1>2, <1>3, <1>6, <2>3 DEF CallStands, Rests, AuthenticOrigin
<1> QED
  BY <1>8, <1>9, <1>10, <1>11, <1>12, <1>13, <1>14 DEF GateInv

-----------------------------------------------------------------------------
(* Steps that write the state and leave the decision groups alone. *)

(* The next revision of a state, with names for the values it writes. *)
Step(s, g, l, c) == [s EXCEPT !.revision = s.revision + 1, !.open = g, !.last = l, !.seen = c]

LEMMA Stepped ==
  ASSUME NEW s \in States, NEW c \in Bits, NEW g \in GateOrNone, NEW l \in Lasts
  PROVE  LET r == Step(s, g, l, c)
         IN  /\ r \in States /\ r.open = g /\ r.revision = s.revision + 1 /\ r.uses = s.uses
             /\ r.human = s.human /\ r.history = s.history /\ r.subject = s.subject
             /\ r.asked = s.asked
<1>1. s.revision + 1 \in Nat
  BY DEF States
<1>2. PICK n \in Nat : n = s.revision + 1
  BY <1>1
<1>3. PICK r : r = [s EXCEPT !.revision = n, !.open = g, !.last = l, !.seen = c]
  OBVIOUS
<1>4. /\ r \in States /\ r.open = g /\ r.revision = n /\ r.uses = s.uses
      /\ r.human = s.human /\ r.history = s.history /\ r.subject = s.subject
      /\ r.asked = s.asked
  BY <1>3 DEF States
<1> QED
  BY <1>2, <1>3, <1>4 DEF Step

LEMMA NoGateIsOne == NoGate \in GateOrNone
BY DEF GateOrNone

LEMMA StateStep ==
  ASSUME GateInv, UNCHANGED <<request, archive, issued, world>>,
         st' \in States, call' \in Calls, shown' \in GateOrNone,
         OpenStands', CallStands', AuthorityIsArchived'
  PROVE  GateInv'
<1>1. Shapes' /\ InOrder'
  BY DEF GateInv, Shapes, InOrder
<1>2. ChoiceFits' /\ OverrideFits'
  BY DEF GateInv, ChoiceFits, OverrideFits, Choices
<1> QED
  BY <1>1, <1>2 DEF GateInv

LEMMA AuthorityOfState ==
  ASSUME GateInv, UNCHANGED <<request, archive>>, KeepsApprovals,
         st'.uses \subseteq st.uses,
         \A g \in Asked' : g \in Asked \/ AuthenticRevision(g)
  PROVE  AuthorityIsArchived'
<1>1. KeepsAnswered
  BY DEF KeepsAnswered
<1>2. \A u \in st'.uses : Archived(u)'
  BY <1>1, UseCarries
<1>3. \A g \in Asked' : AuthenticRevision(g)'
  BY <1>1, RevisionCarries DEF AuthenticRevision
<1> QED
  BY <1>2, <1>3 DEF AuthorityIsArchived, Archived, Asked

LEMMA OpenStateKeeps ==
  ASSUME GateInv, OpenState
  PROVE  GateInv'
<1>1. call \in OpenCalls /\ call.op = "open" /\ call.next = "state"
  BY CallKinds DEF OpenState
<1>2. PICK g : g = call.gate
  OBVIOUS
<1>3. g \in Gates /\ g # NoGate /\ call.config \in Bits
  BY <1>1, <1>2 DEF OpenCalls, Gates, NoGate
<1>4. /\ st' \in States /\ st'.open = g /\ st'.revision = st.revision + 1
      /\ st'.uses = st.uses /\ st'.human = st.human /\ st'.history = st.history
      /\ st'.subject = st.subject /\ st'.asked = st.asked
  <2>1. PICK l \in Lasts : l = [by |-> "none", gate |-> NoGate]
    BY NoGateIsOne DEF Lasts
  <2>3. st' = Step(st, g, l, call.config)
    BY <1>2, <2>1 DEF OpenState, Step
  <2>2. g \in GateOrNone /\ st \in States
    BY <1>3, StateFields DEF GateOrNone
  <2> QED
    BY <1>3, <2>2, <2>3, Stepped
<1>5. UNCHANGED <<request, archive, shown, issued, world>> /\ call' = Idle
  BY DEF OpenState, files, outside
<1>6. AuthorityIsArchived'
  BY <1>4, <1>5, AuthorityOfState DEF KeepsApprovals, Asked
<1>7. /\ request[g] # None /\ request[g].opened = st.revision + 1 /\ shown = g /\ Rests(g)
  BY <1>1, <1>2 DEF GateInv, CallStands
<1>8. OpenStands'
  BY <1>4, <1>5, <1>7 DEF OpenStands, Matches, Rests, AuthenticOrigin
<1>9. CallStands' /\ call' \in Calls
  BY <1>5 DEF CallStands, Idle, Calls
<1> QED
  BY <1>4, <1>5, <1>6, <1>8, <1>9, StateStep DEF GateInv, Shapes

LEMMA RefreshStateKeeps ==
  ASSUME GateInv, RefreshState
  PROVE  GateInv'
<1>1. call \in RefreshCalls
  BY CallKinds DEF RefreshState
<1>2. call' \in RefreshCalls /\ call'.op = "refresh"
  BY <1>1 DEF RefreshState, RefreshCalls
<1>3. /\ st' \in States /\ st'.open = NoGate
      /\ st'.uses = st.uses /\ st'.human = st.human /\ st'.history = st.history
  <2>1. PICK l \in Lasts : l = [by |-> "none", gate |-> NoGate]
    BY NoGateIsOne DEF Lasts
  <2>2. st' = Step(st, NoGate, l, st.seen)
    BY <2>1, StateFields DEF RefreshState, States, Step
  <2>3. st.seen \in Bits
    BY StateFields DEF States
  <2>4. st \in States
    BY StateFields
  <2> QED
    BY <2>2, <2>3, <2>4, NoGateIsOne, Stepped
<1>4. UNCHANGED <<request, archive, shown, issued, world>>
  BY DEF RefreshState, files, outside
<1>5. AuthorityIsArchived'
  BY <1>3, <1>4, AuthorityOfState DEF KeepsApprovals, Asked
<1>6. OpenStands' /\ CallStands'
  BY <1>2, <1>3 DEF OpenStands, CallStands
<1> QED
  BY <1>2, <1>3, <1>4, <1>5, <1>6, StateStep, CallUnion DEF GateInv, Shapes

LEMMA EnterRevisionKeeps ==
  ASSUME GateInv, EnterRevision
  PROVE  GateInv'
<1>1. PICK g : g = st.last.gate
  OBVIOUS
<1>2. /\ g \in GateOrNone /\ request[g] # None /\ st.open = NoGate /\ world.config \in Bits
      /\ archive[g] = "revise" => AuthenticRevision(g)
  BY <1>1, StateFields DEF EnterRevision, AuthenticRevision, GateInv, Shapes
<1>3. /\ st' \in States /\ st'.open = NoGate
      /\ st'.uses = st.uses /\ st'.history = st.history
      /\ st'.human = IF archive[g] = "revise" THEN g ELSE st.human
  <2>1. PICK h \in GateOrNone : h = IF archive[g] = "revise" THEN g ELSE st.human
    BY <1>2, StateFields
  <2>2. PICK s : s = [st EXCEPT !.cursor = "produce", !.human = h]
    OBVIOUS
  <2>3. /\ s \in States /\ s.open = NoGate /\ s.uses = st.uses
        /\ s.history = st.history /\ s.human = h
    BY <1>2, <2>2, StateFields DEF States
  <2>5. PICK l \in Lasts : l = [by |-> "entry", gate |-> g]
    BY <1>2 DEF Lasts
  <2>4. st' = Step(s, NoGate, l, world.config)
    BY <1>1, <1>2, <2>1, <2>2, <2>5, StateFields DEF EnterRevision, States, Step
  <2>6. /\ st' \in States /\ st'.open = NoGate /\ st'.uses = s.uses
        /\ st'.history = s.history /\ st'.human = s.human
    BY <1>2, <2>3, <2>4, NoGateIsOne, Stepped
  <2> QED
    BY <2>1, <2>3, <2>6
<1>4. UNCHANGED <<request, archive, shown, issued, world, call>>
  BY DEF EnterRevision, files, outside
<1>5. AuthorityIsArchived'
  BY <1>2, <1>3, <1>4, AuthorityOfState DEF KeepsApprovals, Asked
<1>6. OpenStands' /\ CallStands'
  BY <1>3, <1>4 DEF EnterRevision, OpenStands, CallStands, Idle
<1> QED
  BY <1>3, <1>4, <1>5, <1>6, StateStep DEF GateInv, Shapes

(* Work that keeps the approvals and moves an asked revision to the history. *)
LEMMA CommitKeeps ==
  ASSUME GateInv, NEW next \in States, Commit(next),
         next.open = NoGate, next.uses \subseteq st.uses,
         \A u \in st.uses : u.use = "approval" => u \in next.uses,
         next.history \cup ({next.human} \ {NoGate}) \subseteq Asked
  PROVE  GateInv'
<1>1. /\ st' \in States /\ st'.open = NoGate
      /\ st'.uses = next.uses /\ st'.history = next.history /\ st'.human = next.human
  <2>1. PICK l \in Lasts : l = [by |-> "work", gate |-> NoGate]
    BY NoGateIsOne DEF Lasts
  <2>2. st' = Step(next, NoGate, l, world.config)
    BY <2>1 DEF Commit, States, Step
  <2>3. world.config \in Bits
    BY DEF GateInv, Shapes
  <2> QED
    BY <2>2, <2>3, NoGateIsOne, Stepped
<1>2. UNCHANGED <<request, archive, shown, issued, world>>
      /\ call' = [op |-> "work", next |-> "clean"]
  BY DEF Commit, files, outside
<1>3. AuthorityIsArchived'
  BY <1>1, <1>2, AuthorityOfState DEF KeepsApprovals, Asked
<1>4. OpenStands' /\ CallStands' /\ call' \in Calls
  BY <1>1, <1>2 DEF OpenStands, CallStands, Calls
<1> QED
  BY <1>1, <1>2, <1>3, <1>4, StateStep DEF GateInv, Shapes

LEMMA ProduceKeeps ==
  ASSUME GateInv, NEW s \in Subjects, Produce(s)
  PROVE  GateInv'
<1>1. PICK next : next = [st EXCEPT !.cursor = "triage", !.subject = s, !.human = NoGate,
                            !.history = @ \cup ({st.human} \ {NoGate}),
                            !.recorded = [bytes |-> world.bytes, held |-> TRUE]]
  OBVIOUS
<1>2. Commit(next) /\ st.open = NoGate
  BY <1>1 DEF Produce, Commit
<1>3. next \in States /\ next.open = NoGate /\ next.uses = st.uses
      /\ next.history = Asked /\ next.human = NoGate
  BY <1>1, <1>2 DEF GateInv, Shapes, States, GateOrNone, Asked
<1> QED
  BY <1>2, <1>3, CommitKeeps

LEMMA ReenterKeeps ==
  ASSUME GateInv, Reenter
  PROVE  GateInv'
<1>1. PICK next : next = [st EXCEPT !.cursor = "produce"]
  OBVIOUS
<1>2. Commit(next) /\ st.open = NoGate
  BY <1>1 DEF Reenter, Commit
<1>3. next \in States /\ next.open = NoGate /\ next.uses = st.uses
      /\ next.history = st.history /\ next.human = st.human
  BY <1>1, <1>2 DEF GateInv, Shapes, States
<1> QED
  BY <1>2, <1>3, CommitKeeps DEF Asked

LEMMA AskOverrideKeeps ==
  ASSUME GateInv, AskOverride
  PROVE  GateInv'
<1>1. PICK next : next = [st EXCEPT !.asked = st.revision + 1]
  OBVIOUS
<1>2. Commit(next) /\ st.open = NoGate
  BY <1>1 DEF AskOverride, Commit
<1>3. next \in States /\ next.open = NoGate /\ next.uses = st.uses
      /\ next.history = st.history /\ next.human = st.human
  BY <1>1, <1>2 DEF GateInv, Shapes, States
<1> QED
  BY <1>2, <1>3, CommitKeeps DEF Asked

(* A reset drops waivers and the asked revision, and only those. *)
LEMMA ResetShape ==
  ASSUME GateInv, NEW s \in States, NEW history \in {"restarts", "recoveries"},
         NEW gates \in SUBSET Gates
  PROVE  LET r == Reset(s, history, gates) IN
         /\ r \in States /\ r.open = s.open /\ r.history = s.history /\ r.human = NoGate
         /\ r.uses = s.uses \ Waivers /\ r.revision = s.revision
<1>1. Cleared \subseteq Gates
  BY UsesAreAnswered DEF Cleared, Waivers, GateInv, Shapes, States, GateOrNone
<1>2. s[history] \in SUBSET Gates
  BY DEF States
<1> QED
  BY <1>1, <1>2 DEF Reset, States, GateOrNone

LEMMA ResetKeeps ==
  ASSUME GateInv, NEW history \in {"restarts", "recoveries"}, Commit(Reset(st, history, {}))
  PROVE  GateInv'
<1>1. PICK next : next = Reset(st, history, {})
  OBVIOUS
<1>2. Commit(next) /\ st.open = NoGate
  BY <1>1 DEF Commit
<1>3. next \in States /\ next.open = NoGate /\ next.uses = st.uses \ Waivers
      /\ next.history = st.history /\ next.human = NoGate
  BY <1>1, <1>2, ResetShape DEF GateInv, Shapes
<1>4. \A u \in st.uses : u.use = "approval" => u \in next.uses
  BY <1>3 DEF Waivers
<1> QED
  BY <1>2, <1>3, <1>4, CommitKeeps DEF Asked

LEMMA WorkKeeps ==
  ASSUME GateInv, Work
  PROVE  GateInv'
<1>1. ASSUME Restart \/ Recover PROVE GateInv'
  BY <1>1, ResetKeeps DEF Restart, Recover
<1> QED
  BY <1>1, ProduceKeeps, ReenterKeeps, AskOverrideKeeps DEF Work

-----------------------------------------------------------------------------
(* The closure of a gate. *)

(* Only the kind that offers a choice can have been answered by it. *)
LEMMA ChoiceTellsKind ==
  ASSUME NEW kind \in AllKinds, NEW choice \in Choices(kind)
  PROVE  /\ choice = "push-through" => kind = "exhausted"
         /\ choice \in {"grant", "deny"} => kind = "waiver"
         /\ choice = "grant-override" => kind = "override"
BY DEF AllKinds, Choices

(* What a settlement has in hand. *)
LEMMA SettlementStands ==
  ASSUME GateInv, SettleState, NEW g, g = call.gate, NEW choice, choice = archive[g]
  PROVE  /\ g \in Gates /\ st.open = g /\ request[g] # None /\ choice \in AllChoices
         /\ request[g] \in Requests /\ request[g].opened = st.revision
         /\ choice \in Choices(request[g].kind) /\ request[g].kind \in AllKinds
         /\ Rests(g) /\ call.config \in Bits
<1>1. call \in SettleCalls /\ call.op = "settle" /\ call.next = "state"
  BY CallKinds DEF SettleState, Settling
<1>2. st.open = g /\ choice \in AllChoices /\ g \in Gates /\ g # NoGate /\ call.config \in Bits
  BY <1>1 DEF GateInv, CallStands, SettleCalls, Gates, NoGate
<1>3. Matches(g) /\ Rests(g) /\ request[g] # None
  BY <1>2 DEF GateInv, OpenStands, Matches
<1>4. request[g] \in Requests
  BY <1>2, <1>3 DEF GateInv, Shapes
<1>5. request[g].kind \in AllKinds /\ request[g].opened = st.revision
  BY <1>3, <1>4 DEF Requests, Matches
<1> QED
  BY <1>2, <1>3, <1>4, <1>5 DEF GateInv, ChoiceFits

(* An authority earned now authenticates from the gate that earned it. *)
LEMMA EarnedIsArchived ==
  ASSUME GateInv, SettleState, NEW g, g = call.gate, NEW choice, choice = archive[g],
         UNCHANGED <<request, archive>>, Earned(g, choice) \subseteq st'.uses,
         NEW u \in Earned(g, choice)
  PROVE  Archived(u)'
<1>1. /\ g \in Gates /\ st.open = g /\ request[g] # None /\ request[g].opened = st.revision
      /\ choice \in Choices(request[g].kind) /\ request[g].kind \in AllKinds /\ Rests(g)
  BY SettlementStands
<1>2. /\ u.gate = g /\ u.subject = request[g].subject /\ u.at = request[g].opened + 1
      /\ u.use \in {"approval", "push-through", "adoption", "waiver", "override"}
  BY <1>1 DEF Earned, Use
<1>3. /\ u.use \in {"approval", "adoption"} => choice \in Advances
      /\ u.use = "push-through" => choice = "push-through"
      /\ u.use = "waiver" => choice \in {"grant", "deny"}
      /\ u.use = "override" => choice = "grant-override"
  BY DEF Earned, Use, Advances, EarnsReceipt
<1>4. ASSUME u.use \in {"approval", "adoption"}
      PROVE  AuthenticApproval(u)'
  BY <1>1, <1>2, <1>3, <1>4 DEF AuthenticApproval
<1>5. ASSUME u.use = "push-through"
      PROVE  AuthenticPushThrough(u)'
  <2>1. choice = "push-through" /\ choice \in Advances
    BY <1>3, <1>5 DEF Advances, EarnsReceipt
  <2>2. request[g].kind = "exhausted"
    BY <1>1, <2>1, ChoiceTellsKind
  <2>3. PICK a : a = Use("approval", g)
    OBVIOUS
  <2>4. a \in st'.uses
    BY <2>1, <2>3 DEF Earned
  <2>5. a.use = "approval" /\ a.gate = u.gate /\ a.at = u.at /\ a.subject = u.subject
    BY <1>1, <1>2, <2>3 DEF Use
  <2>6. AuthenticApproval(a)'
    BY <1>1, <1>2, <2>1, <2>5 DEF AuthenticApproval
  <2> QED
    BY <1>1, <1>2, <2>1, <2>2, <2>4, <2>5, <2>6 DEF AuthenticPushThrough
<1>6. ASSUME u.use = "waiver"
      PROVE  AuthenticWaiver(u)'
  <2>1. request[g].kind = "waiver" /\ choice \in {"grant", "deny"}
    BY <1>1, <1>3, <1>6, ChoiceTellsKind
  <2>2. AuthenticOrigin(request[g].origin, request[g].subject)
    BY <1>1, <2>1 DEF Rests
  <2> QED
    BY <1>1, <1>2, <2>1, <2>2 DEF AuthenticWaiver, AuthenticOrigin
<1>7. ASSUME u.use = "override"
      PROVE  AuthenticOverride(u)'
  <2>1. request[g].kind = "override" /\ choice = "grant-override"
    BY <1>1, <1>3, <1>7, ChoiceTellsKind
  <2>2. request[g].opened = request[g].asked + 1
    BY <1>1, <2>1 DEF GateInv, OverrideFits
  <2> QED
    BY <1>1, <1>2, <2>1, <2>2 DEF AuthenticOverride
<1> QED
  BY <1>2, <1>4, <1>5, <1>6, <1>7 DEF Archived

(* The state a closure prepares, with names for the values it writes. *)
Settled(s, uses, config, asked, recorded, last) ==
  [s EXCEPT !.revision = s.revision + 1, !.open = NoGate, !.uses = uses, !.seen = config,
            !.asked = asked, !.recorded = recorded, !.last = last]

LEMMA SettledShape ==
  ASSUME NEW s \in States, NEW uses \in SUBSET Uses, NEW config \in Bits, NEW asked \in Nat,
         NEW recorded \in [bytes : Bits, held : BOOLEAN], NEW last \in Lasts
  PROVE  LET r == Settled(s, uses, config, asked, recorded, last)
         IN  /\ r \in States /\ r.open = NoGate /\ r.uses = uses
             /\ r.human = s.human /\ r.history = s.history
<1>1. s.revision + 1 \in Nat
  BY DEF States
<1>2. PICK n \in Nat : n = s.revision + 1
  BY <1>1
<1>3. PICK r : r = [s EXCEPT !.revision = n, !.open = NoGate, !.uses = uses, !.seen = config,
                             !.asked = asked, !.recorded = recorded, !.last = last]
  OBVIOUS
<1>4. /\ r \in States /\ r.open = NoGate /\ r.uses = uses
      /\ r.human = s.human /\ r.history = s.history
  BY <1>3 DEF States, GateOrNone
<1> QED
  BY <1>2, <1>3, <1>4 DEF Settled

LEMMA ClosedShape ==
  ASSUME GateInv, NEW g \in Gates, request[g] \in Requests, NEW choice, NEW config \in Bits
  PROVE  LET r == Closed(g, choice, config)
         IN  /\ r \in States /\ r.open = NoGate
             /\ r.uses \subseteq st.uses \cup Earned(g, choice)
             /\ \A u \in st.uses : u.use = "approval" => u \in r.uses
             /\ choice # "amend" => Earned(g, choice) \subseteq r.uses
             /\ r.human \in {st.human, NoGate} /\ r.history = st.history
<1>1. PICK uses : uses = st.uses \cup Earned(g, choice)
  OBVIOUS
<1>2. PICK asked : asked = IF request[g].kind = "override" /\ choice # "cancel" THEN 0 ELSE st.asked
  OBVIOUS
<1>3. PICK recorded : recorded = IF choice = "adopt" THEN [bytes |-> request[g].bytes, held |-> FALSE]
                                 ELSE st.recorded
  OBVIOUS
<1>4. PICK last : last = IF choice = "cancel" THEN [by |-> "none", gate |-> NoGate]
                         ELSE [by |-> "gate", gate |-> g]
  OBVIOUS
<1>5. PICK base : base = Settled(st, uses, config, asked, recorded, last)
  OBVIOUS
<1>6. Closed(g, choice, config) = IF choice = "amend" THEN Reset(base, "restarts", {g}) ELSE base
  BY <1>1, <1>2, <1>3, <1>4, <1>5 DEF Closed, Settled
<1>7. uses \subseteq Uses
  <2>1. st.revision + 1 \in Nat /\ request[g].subject \in AllSubjects
    BY StateFields DEF Requests
  <2>2. \A use \in {"approval", "push-through", "adoption", "waiver", "override"} : Use(use, g) \in Uses
    BY <2>1 DEF Use, Uses
  <2>3. Earned(g, choice) \subseteq Uses
    BY <2>2 DEF Earned
  <2> QED
    BY <1>1, <2>3, StateFields DEF States
<1>8. asked \in Nat
  BY <1>2, StateFields
<1>9. recorded \in [bytes : Bits, held : BOOLEAN]
  BY <1>3, StateFields DEF Requests, States
<1>10. last \in Lasts
  BY <1>4 DEF Lasts, GateOrNone
<1>11. /\ base \in States /\ base.open = NoGate /\ base.uses = uses
       /\ base.human = st.human /\ base.history = st.history
  BY <1>5, <1>7, <1>8, <1>9, <1>10, SettledShape, StateFields
<1>12. CASE choice = "amend"
  <2>1. PICK r : r = Reset(base, "restarts", {g})
    OBVIOUS
  <2>2. /\ r \in States /\ r.open = base.open /\ r.history = base.history /\ r.human = NoGate
        /\ r.uses = base.uses \ Waivers
    BY <1>11, <2>1, ResetShape
  <2>3. Closed(g, choice, config) = r
    BY <1>6, <1>12, <2>1
  <2>4. \A u \in st.uses : u.use = "approval" => u \in r.uses
    BY <1>1, <1>11, <2>2 DEF Waivers
  <2> QED
    BY <1>1, <1>11, <1>12, <2>2, <2>3, <2>4
<1>13. CASE choice # "amend"
  BY <1>1, <1>6, <1>11, <1>13
<1> QED
  BY <1>12, <1>13

LEMMA SettleStateKeeps ==
  ASSUME GateInv, SettleState
  PROVE  GateInv'
<1>1. PICK g, choice, config : g = call.gate /\ choice = archive[g] /\ config = call.config
  OBVIOUS
<1>2. /\ g \in Gates /\ st.open = g /\ request[g] \in Requests
      /\ config \in Bits
  BY <1>1, SettlementStands
<1>3. UNCHANGED <<request, archive, shown, issued, world>>
  BY DEF SettleState, files, outside
<1>4. st' = IF choice \in EnactsReentry THEN Checkpoint(g, config) ELSE Closed(g, choice, config)
  BY <1>1 DEF SettleState, Choice
<1>5. /\ st' \in States /\ st'.open = NoGate
      /\ st'.uses \subseteq st.uses \cup Earned(g, choice) /\ KeepsApprovals
      /\ st'.uses \subseteq st.uses \/ Earned(g, choice) \subseteq st'.uses
      /\ st'.human \in {st.human, NoGate} /\ st'.history = st.history
  <2>1. CASE choice \in EnactsReentry
    <3>1. PICK l \in Lasts : l = [by |-> "checkpoint", gate |-> g]
      BY <1>2 DEF Lasts, GateOrNone
    <3>2. st' = Step(st, NoGate, l, config)
      BY <1>4, <2>1, <3>1 DEF Checkpoint, Step
    <3>3. st \in States
      BY StateFields
    <3>4. /\ st' \in States /\ st'.open = NoGate /\ st'.uses = st.uses
          /\ st'.human = st.human /\ st'.history = st.history
      BY <1>2, <3>2, <3>3, NoGateIsOne, Stepped
    <3> QED
      BY <3>4 DEF KeepsApprovals
  <2>2. CASE choice \notin EnactsReentry
    <3>1. PICK r : r = Closed(g, choice, config)
      OBVIOUS
    <3>2. /\ r \in States /\ r.open = NoGate
          /\ r.uses \subseteq st.uses \cup Earned(g, choice)
          /\ \A u \in st.uses : u.use = "approval" => u \in r.uses
          /\ choice # "amend" => Earned(g, choice) \subseteq r.uses
          /\ r.human \in {st.human, NoGate} /\ r.history = st.history
      BY <1>2, <3>1, ClosedShape
    <3>3. choice = "amend" => Earned(g, choice) = {}
      BY DEF Earned, Advances, EarnsReceipt
    <3>4. st' = r
      BY <1>4, <2>2, <3>1
    <3> QED
      BY <3>2, <3>3, <3>4 DEF KeepsApprovals
  <2> QED
    BY <2>1, <2>2
<1>6. AuthorityIsArchived'
  <2>1. KeepsAnswered
    BY <1>3 DEF KeepsAnswered
  <2>2. ASSUME NEW u \in st'.uses
        PROVE  Archived(u)'
    <3>1. CASE u \in st.uses
      BY <1>5, <2>1, <3>1, UseCarries
    <3>2. CASE u \notin st.uses
      <4>1. u \in Earned(g, choice) /\ Earned(g, choice) \subseteq st'.uses
        BY <1>5, <3>2
      <4> QED
        BY <1>1, <1>3, <4>1, EarnedIsArchived
    <3> QED
      BY <3>1, <3>2
  <2>3. \A h \in Asked' : AuthenticRevision(h)'
    BY <1>5, <2>1, RevisionCarries DEF Asked
  <2> QED
    BY <2>2, <2>3 DEF AuthorityIsArchived, Archived, Asked
<1>7. call' \in SettleCalls /\ call'.op = "settle" /\ call'.next \in {"clean", "interface"}
  <2>1. call \in SettleCalls
    BY CallKinds DEF SettleState, Settling
  <2> QED
    BY <2>1 DEF SettleState, SettleCalls
<1>8. OpenStands' /\ CallStands'
  BY <1>5, <1>7 DEF OpenStands, CallStands
<1> QED
  BY <1>3, <1>5, <1>6, <1>7, <1>8, StateStep, CallUnion DEF GateInv, Shapes

-----------------------------------------------------------------------------
(* Cleanup. *)

LEMMA CleanKeeps ==
  ASSUME GateInv, Clean
  PROVE  GateInv'
<1>1. st.open = NoGate
  BY CallKinds DEF Clean, GateInv, CallStands
<1>2. UNCHANGED <<st, issued, world>> /\ call' = Idle /\ shown' \in GateOrNone
  BY <1>1, NoGateIsOne DEF Clean, outside
<1>3. /\ request' = [g \in Gates |-> IF g \in Live THEN request[g] ELSE None]
      /\ archive' = [g \in Gates |-> IF g \in Live THEN archive[g] ELSE Unanswered]
  BY DEF Clean
<1>4. Live \subseteq Gates
  <2>1. \A u \in st.uses : u.gate \in Gates
    BY UsesAreAnswered
  <2>2. Named \subseteq Gates
    BY <2>1, StateFields DEF Named, GateOrNone
  <2> QED
    BY <2>2, OriginIsGate DEF Live, Quoted, GateOrNone
<1>5. AuthorityIsArchived'
  <2>1. KeepsAnswered
    BY <1>3, <1>4 DEF KeepsAnswered
  <2>2. KeepsApprovals /\ Asked' = Asked /\ st'.uses = st.uses
    BY <1>2 DEF KeepsApprovals, Asked
  <2> QED
    BY <2>1, <2>2, AuthorityCarries
<1>6. Unanswered \notin AllChoices
  BY DEF AllChoices, AllKinds, Choices, Unanswered
<1>7. ChoiceFits' /\ OverrideFits' /\ InOrder'
  BY <1>2, <1>3, <1>6 DEF GateInv, ChoiceFits, OverrideFits, InOrder, Choices
<1>8. request' \in [Gates -> Requests \cup {None}]
      /\ archive' \in [Gates -> AllChoices \cup {Unanswered, Superseded}]
  BY <1>3 DEF GateInv, Shapes
<1>9. Shapes'
  BY <1>2, <1>8, CallUnion DEF GateInv, Shapes
<1>10. OpenStands' /\ CallStands'
  BY <1>1, <1>2 DEF OpenStands, CallStands, Idle
<1> QED
  BY <1>5, <1>7, <1>9, <1>10 DEF GateInv

-----------------------------------------------------------------------------
(* The theorems. *)

LEMMA InitStands ==
  ASSUME Init
  PROVE  GateInv
<1>1. /\ st \in States /\ st.open = NoGate /\ st.uses = {} /\ st.human = NoGate /\ st.history = {}
  <2>1. PICK last, recorded : /\ last = [by |-> "work", gate |-> NoGate]
                              /\ recorded = [bytes |-> 0, held |-> TRUE]
    OBVIOUS
  <2>2. last \in Lasts /\ recorded \in [bytes : Bits, held : BOOLEAN]
    BY <2>1, NoGateIsOne DEF Lasts, Bits
  <2>3. st \in [revision : {1}, open : {NoGate}, subject : Subjects, cursor : {"produce"},
                last : {last}, uses : {{}}, human : {NoGate},
                history : {{}}, restarts : {{}}, recoveries : {{}}, asked : {0},
                seen : {0}, recorded : {recorded}]
    BY <2>1 DEF Init
  <2>4. 0 \in Bits
    BY DEF Bits
  <2> QED
    BY <2>2, <2>3, <2>4, NoGateIsOne DEF States
<1>2. call = Idle /\ Shapes
  <2>1. world \in [head : Bits, bytes : Bits, config : Bits]
    BY DEF Init, Bits
  <2>2. call = Idle /\ Idle \in Calls
    BY DEF Init, Calls
  <2>3. shown = NoGate /\ issued = NoGate
    BY DEF Init, NoGate
  <2>4. request \in [Gates -> Requests \cup {None}]
    BY DEF Init
  <2>5. archive \in [Gates -> AllChoices \cup {Unanswered, Superseded}]
    BY DEF Init
  <2> QED
    BY <1>1, <2>1, <2>2, <2>3, <2>4, <2>5, NoGateIsOne DEF Shapes
<1>3. InOrder /\ ChoiceFits /\ OverrideFits
  BY DEF Init, InOrder, ChoiceFits, OverrideFits, Unanswered, AllChoices, AllKinds, Choices
<1>4. OpenStands /\ CallStands
  BY <1>1, <1>2 DEF OpenStands, CallStands, Idle
<1>5. AuthorityIsArchived
  BY <1>1 DEF AuthorityIsArchived
<1> QED
  BY <1>2, <1>3, <1>4, <1>5 DEF GateInv

LEMMA StutterKeeps ==
  ASSUME GateInv, UNCHANGED vars
  PROVE  GateInv'
<1>1. UNCHANGED <<st, request, archive, shown, issued, call, world>>
  BY DEF vars, files, outside
<1>2. CallStands'
  BY <1>1 DEF GateInv, CallStands, Rests, AuthenticOrigin
<1> QED
  BY <1>1, <1>2, StepBeside DEF GateInv, Shapes

(* What holds between any two writes: the shapes of the files, the call's    *)
(* progress, and that the open gate and every used authority stand.         *)
THEOREM GateInvariant == Spec => []GateInv
<1>1. Init => GateInv
  BY InitStands
<1>2. GateInv /\ [Next]_vars => GateInv'
  <2> SUFFICES ASSUME GateInv, [Next]_vars
               PROVE  GateInv'
    OBVIOUS
  <2>1. ASSUME NEW kind \in Kinds, Open(kind) PROVE GateInv'
    BY <2>1, OpenKeeps
  <2>2. CASE Opening
    BY <2>2, OpenInterfaceKeeps, OpenStateKeeps DEF Opening
  <2>3. ASSUME NEW choice \in AllChoices, Archive(choice) PROVE GateInv'
    BY <2>3, ArchiveKeeps
  <2>4. ASSUME NEW g \in Gates, Settle(g) PROVE GateInv'
    BY <2>4, SettleKeeps
  <2>5. CASE Closing
    BY <2>5, SettleRefusedKeeps, SettleBytesKeeps, SettleReceiptKeeps, SettleStateKeeps,
       RemoveInterfaceKeeps, RefreshStateKeeps, CleanKeeps DEF Closing
  <2>6. CASE EnterRevision
    BY <2>6, EnterRevisionKeeps
  <2>7. CASE RefreshArchive
    BY <2>7, RefreshArchiveKeeps
  <2>8. CASE Work
    BY <2>8, WorkKeeps
  <2>9. CASE Move
    BY <2>9, MoveKeeps
  <2>10. CASE Crash
    BY <2>10, CrashKeeps
  <2>11. CASE UNCHANGED vars
    BY <2>11, StutterKeeps
  <2> QED
    BY <2>1, <2>2, <2>3, <2>4, <2>5, <2>6, <2>7, <2>8, <2>9, <2>10, <2>11 DEF Next
<1> QED
  BY <1>1, <1>2, PTL DEF Spec

(* The state and its files have the shape every reader of them expects. *)
THEOREM TypeCorrect == Spec => []TypeOK
<1>1. GateInv => TypeOK
  <2> SUFFICES ASSUME GateInv PROVE TypeOK
    OBVIOUS
  <2>1. /\ \A u \in st.uses : u.gate \in Gates
        /\ st.recoveries \subseteq Gates /\ st.cursor \in {"produce", "triage"}
    BY UsesAreAnswered, StateFields DEF States
  <2>2. \A g \in Gates :
          /\ archive[g] \in AllChoices \cup {Unanswered, Superseded}
          /\ request[g] # None => request[g].kind \in Kinds /\ request[g].subject \in Subjects \cup {Drift, Validations}
          /\ g > issued => request[g] = None
    BY DEF GateInv, Shapes, Requests, InOrder, AllSubjects
  <2>3. shown \in Gates \cup {NoGate} /\ issued \in Gates \cup {NoGate}
    BY DEF GateInv, Shapes, GateOrNone
  <2> QED
    BY <2>1, <2>2, <2>3, StateFields DEF TypeOK, GateOrNone
<1> QED
  BY <1>1, GateInvariant, PTL

(* However an opening, a settlement or a cleanup was cut short, each        *)
(* authority the state uses authenticates from its files.                   *)
THEOREM AuthorityAuthenticates == Spec => []AuthorityIsArchived
<1>1. GateInv => AuthorityIsArchived
  BY DEF GateInv
<1> QED
  BY <1>1, GateInvariant, PTL

(* A gate the state holds open has its request, its interface and what it   *)
(* rests on.                                                                *)
THEOREM OpenGateIsAnswerable == Spec => []OpenIsAnswerable
<1>1. GateInv => OpenIsAnswerable
  <2> SUFFICES ASSUME GateInv, st.open # NoGate
               PROVE  /\ Matches(st.open) /\ shown = st.open
                      /\ request[st.open].kind = "waiver" =>
                           AuthenticOrigin(request[st.open].origin, st.subject)
                      /\ request[st.open].kind = "override" => st.asked = request[st.open].asked
    BY DEF OpenIsAnswerable
  <2> QED
    BY DEF GateInv, OpenStands, Rests
<1> QED
  BY <1>1, GateInvariant, PTL

(* A decision settled again after a crash earns nothing a second time: a    *)
(* use is what the gate it rests on makes of it.                            *)
THEOREM DecisionTakesEffectOnce == Spec => []EffectOnce
<1>1. GateInv => EffectOnce
  <2> SUFFICES ASSUME GateInv, NEW u \in st.uses, NEW v \in st.uses,
                      u.gate = v.gate, u.use = v.use
               PROVE  u = v
    BY DEF EffectOnce
  <2>1. ASSUME NEW w \in st.uses
        PROVE  w.subject = request[w.gate].subject /\ w.at = request[w.gate].opened + 1
    <3>1. Archived(w) /\ w \in Uses
      BY AuthorityBody, UsesAreAnswered DEF GateInv
    <3> QED
      BY <3>1 DEF Archived, Uses, AuthenticApproval, AuthenticPushThrough, AuthenticWaiver, AuthenticOverride
  <2>2. u \in Uses /\ v \in Uses
    BY UsesAreAnswered
  <2>3. u.subject = v.subject /\ u.at = v.at
    BY <2>1
  <2> QED
    BY <2>2, <2>3 DEF Uses
<1> QED
  BY <1>1, GateInvariant, PTL
=============================================================================
