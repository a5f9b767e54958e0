------------------------ MODULE ReviewDispatchProofs ------------------------
(***************************************************************************)
(* What ReviewDispatch promises, proved for any processes, calls, panels   *)
(* of roles, contexts, authorizations and bounds: the budget of dispatches,*)
(* what committed evidence rests on, and the workspace under the children. *)
(***************************************************************************)
EXTENDS ReviewDispatch, TLAPS

-----------------------------------------------------------------------------
(* The inductive invariant *)

Done(c) == call[c].pc \in {"settled", "commit", "discard"}

(* A call at work is the head of its queue and has its workspace. *)
HasItsTurn ==
  \A c \in Calls : call[c].pc \in Working => call[c].workspace /\ IsHead(c)

(* Only a call at work has operations: those of its team, which answer its *)
(* envelope.                                                               *)
OpsBelong ==
  \A c \in Calls, r \in Roles : op[c][r].at # "ready" =>
    call[c].pc \in Working /\ r \in Team(c) /\ op[c][r].answers = call[c].env

DoneStays == \A c \in Calls : Done(c) => AllSettled(c)

SubjectsPass == \A c \in Calls : call[c].pc # "idle" => Rev(c) <= subject.rev

(* A tree that was not the subject when the last reviewer settled must be  *)
(* restored before the call authenticates it, unless the subject passed.   *)
MatchedOrEdited ==
  \A c \in Calls :
    /\ call[c].pc = "settled" /\ Rev(c) = subject.rev => call[c].matched \/ edited
    /\ call[c].pc = "commit" => call[c].matched

ReviewedOnce ==
  \A v \in evidence :
    v.env.rev <= subject.rev /\ (v.env.rev = subject.rev => ~subject.open)

KeysAreUnique ==
  \A x, y \in journal.entries :
    x.role = y.role /\ x.auth = y.auth /\ x.env = y.env => x = y

JournalIsPast == journal.of <= subject.rev

(* An entry of the running review counts at least what was spent. *)
Accounts(r, e) ==
  /\ journal.of = subject.rev
  /\ \E x \in journal.entries :
       /\ x.role = r /\ x.auth = None /\ x.env = e
       /\ x.status # "succeeded" /\ spent[r][e] <= x.n

SpentIsCounted ==
  \A r \in Roles, e \in Envelopes :
    /\ e.rev > subject.rev => spent[r][e] = 0
    /\ e.rev = subject.rev => spent[r][e] = 0 \/ Accounts(r, e)
    /\ spent[r][e] <= MaxDispatches

Booked == KeysAreUnique /\ JournalIsPast /\ SpentIsCounted

DispatchInv ==
  /\ TypeOK /\ HasItsTurn /\ OpsBelong /\ DoneStays
  /\ SubjectsPass /\ MatchedOrEdited /\ ReviewedOnce /\ EvidenceIsCurrent
  /\ Booked

-----------------------------------------------------------------------------
(* Shapes *)

Places == {"idle", "queued"} \cup Working

CallRecords ==
  [pc : Places, process : Processes \cup {None}, env : Envelopes \cup {NoEnvelope},
   auth : Grants, aborted : BOOLEAN, workspace : BOOLEAN, matched : BOOLEAN]

Stages == {"ready", "book", "child", "exited", "answered", "kept", "judged", "settled"}

Operations ==
  [at : Stages, stop : Stops \cup {None}, got : Gots \cup {None},
   answers : Envelopes \cup {NoEnvelope}]

Shapes ==
  /\ call \in [Calls -> CallRecords] /\ op \in [Calls -> [Roles -> Operations]]
  /\ retained \subseteq [role : Roles, env : Envelopes, ok : BOOLEAN]
  /\ \A c \in Calls : call[c].pc # "idle" =>
       call[c].env \in Envelopes /\ call[c].process \in Processes

LEMMA TypesAreShapes == TypeOK => Shapes
<1>1. ASSUME TypeOK PROVE call \in [Calls -> CallRecords]
  BY <1>1 DEF TypeOK, CallRecords, Places
<1>2. ASSUME TypeOK PROVE op \in [Calls -> [Roles -> Operations]]
  BY <1>2 DEF TypeOK, Operations, Stages
<1> QED
  BY <1>1, <1>2 DEF TypeOK, Shapes

LEMMA FreshShape == Fresh \in Operations /\ Fresh.at = "ready"
  BY DEF Fresh, Operations, Stages

LEMMA AtRestShape ==
  /\ AtRest \in CallRecords /\ AtRest.pc = "idle" /\ AtRest.env = NoEnvelope
  BY DEF AtRest, CallRecords, Places, Grants

-----------------------------------------------------------------------------
(* Reviewers' operations *)

Operates(c, r) ==
  \/ OpStep(c, r) \/ ChildExit(c, r) \/ DescendantEnds(c, r)
  \/ \E reason \in Stops \ {"cancelled"} : ChildStop(c, r, reason)

(* What a step does to its operation, whichever step it is. *)
Moves(c, r) ==
  \E q \in Operations :
    /\ op' = [op EXCEPT ![c] = [op[c] EXCEPT ![r] = q]]
    /\ q.at # "ready" /\ q.answers = call[c].env

LEMMA PatchMoves ==
  ASSUME Shapes, NEW c \in Calls, NEW r \in Roles,
         NEW at \in Stages \ {"ready"}, NEW stop \in Stops \cup {None},
         NEW got \in Gots \cup {None}, op[c][r].answers = call[c].env,
         \/ op' = [op EXCEPT ![c][r].at = at]
         \/ op' = [op EXCEPT ![c][r].stop = stop] /\ op[c][r].at # "ready"
         \/ op' = [op EXCEPT ![c][r].at = at, ![c][r].got = got]
         \/ op' = [op EXCEPT ![c][r] = [@ EXCEPT !.at = at, !.stop = stop, !.got = got]]
  PROVE  Moves(c, r)
<1> DEFINE o == op[c][r]
<1>1. o \in Operations
  BY DEF Shapes
<1>2. CASE op' = [op EXCEPT ![c][r].at = at]
  <2> DEFINE q == [o EXCEPT !.at = at]
  <2>1. q \in Operations /\ q.at = at /\ q.answers = o.answers
    BY <1>1 DEF Operations
  <2> QED
    BY <1>2, <2>1 DEF Moves
<1>3. CASE op' = [op EXCEPT ![c][r].stop = stop] /\ op[c][r].at # "ready"
  <2> DEFINE q == [o EXCEPT !.stop = stop]
  <2>1. q \in Operations /\ q.at = o.at /\ q.answers = o.answers
    BY <1>1 DEF Operations
  <2> QED
    BY <1>3, <2>1 DEF Moves
<1>4. CASE op' = [op EXCEPT ![c][r].at = at, ![c][r].got = got]
  <2> DEFINE q == [o EXCEPT !.at = at, !.got = got]
  <2>1. q \in Operations /\ q.at = at /\ q.answers = o.answers
    BY <1>1 DEF Operations
  <2>2. op' = [op EXCEPT ![c] = [op[c] EXCEPT ![r] = q]]
    BY <1>4 DEF Shapes
  <2> QED
    BY <2>1, <2>2 DEF Moves
<1>5. CASE op' = [op EXCEPT ![c][r] = [@ EXCEPT !.at = at, !.stop = stop, !.got = got]]
  <2> DEFINE q == [o EXCEPT !.at = at, !.stop = stop, !.got = got]
  <2>1. q \in Operations /\ q.at = at /\ q.answers = o.answers
    BY <1>1 DEF Operations
  <2> QED
    BY <1>5, <2>1 DEF Moves
<1> QED
  BY <1>2, <1>3, <1>4, <1>5

(* Only reviewers of a running call take steps. *)
LEMMA OnlyRunningOperate ==
  ASSUME Shapes, OpsBelong, DoneStays, NEW c \in Calls, NEW r \in Roles,
         op[c][r].at \notin {"ready", "settled"}
  PROVE  call[c].pc = "running" /\ r \in Team(c) /\ op[c][r].answers = call[c].env
<1>1. call[c].pc \in Working /\ r \in Team(c) /\ op[c][r].answers = call[c].env
  BY DEF OpsBelong
<1>2. ~Done(c)
  BY <1>1 DEF DoneStays, AllSettled
<1> QED
  BY <1>1, <1>2 DEF Working, Done

LEMMA OperationSteps ==
  ASSUME Shapes, OpsBelong, DoneStays, NEW c \in Calls, NEW r \in Roles, Operates(c, r)
  PROVE  /\ UNCHANGED <<subject, edited, fifo, call, evidence, used>>
         /\ call[c].pc = "running" /\ r \in Team(c)
         /\ Moves(c, r)
<1> USE DEF Stages
<1> DEFINE Busy == op[c][r].at \notin {"ready", "settled"}
           Frame == UNCHANGED <<subject, edited, fifo, call, evidence, used>>
<1>0. /\ op[c][r] \in Operations /\ op[c][r].at \in Stages
      /\ op[c][r].stop \in Stops \cup {None} /\ op[c][r].got \in Gots \cup {None}
  BY DEF Shapes, Operations
<1>1. CASE OpStart(c, r)
  <2>1. Frame /\ call[c].pc = "running" /\ r \in Team(c)
    BY <1>1 DEF OpStart
  <2>2. call[c].env \in Envelopes
    BY <2>1 DEF Shapes
  <2>3. ASSUME NEW got \in {"valid", "failed", "default"},
               op' = [op EXCEPT ![c][r] = [Fresh EXCEPT !.at = "settled", !.got = got,
                                                        !.answers = call[c].env]]
        PROVE  Moves(c, r)
    <3> DEFINE q == [Fresh EXCEPT !.at = "settled", !.got = got, !.answers = call[c].env]
    <3>1. q \in Operations /\ q.at = "settled" /\ q.answers = call[c].env
      BY <2>2 DEF Fresh, Operations, Gots
    <3> QED
      BY <2>3, <3>1 DEF Moves
  <2>4. CASE \E k \in HasKept(c, r), got \in Built(r) :
               op' = [op EXCEPT ![c][r] = [Fresh EXCEPT !.at = "settled", !.got = got,
                                                        !.answers = k.env]]
    <3>1. PICK k \in HasKept(c, r), got \in {"valid", "failed"} :
            op' = [op EXCEPT ![c][r] = [Fresh EXCEPT !.at = "settled", !.got = got,
                                                     !.answers = k.env]]
      BY <2>4 DEF Built
    <3>2. k.env = call[c].env
      BY <3>1 DEF HasKept
    <3> QED
      BY <2>1, <2>3, <3>1, <3>2
  <2>5. CASE op' = [op EXCEPT ![c][r] = [Fresh EXCEPT !.at = "settled", !.got = "default",
                                                      !.answers = call[c].env]]
    BY <2>1, <2>3, <2>5
  <2>6. CASE op' = [op EXCEPT ![c][r].at = IF r \in Selectors THEN "child" ELSE "book",
                              ![c][r].answers = call[c].env]
    <3>1. PICK at \in {"child", "book"} :
            op' = [op EXCEPT ![c][r].at = at, ![c][r].answers = call[c].env]
      BY <2>6
    <3> DEFINE q == [op[c][r] EXCEPT !.at = at, !.answers = call[c].env]
    <3>2. q \in Operations /\ q.at = at /\ q.answers = call[c].env
      BY <1>0, <2>2 DEF Operations
    <3>3. op' = [op EXCEPT ![c] = [op[c] EXCEPT ![r] = q]]
      BY <3>1 DEF Shapes
    <3> QED
      BY <2>1, <3>2, <3>3 DEF Moves
  <2> QED
    BY <1>1, <2>1, <2>4, <2>5, <2>6 DEF OpStart
<1>2. ASSUME NEW at \in Stages \ {"ready"}, NEW got \in Gots, Frame, Busy,
             \/ op' = [op EXCEPT ![c][r].at = at]
             \/ op' = [op EXCEPT ![c][r].at = at, ![c][r].got = got]
             \/ op' = [op EXCEPT ![c][r] = [@ EXCEPT !.at = at, !.stop = None, !.got = got]]
             \/ op' = [op EXCEPT ![c][r] = [@ EXCEPT !.at = at, !.stop = None, !.got = None]]
      PROVE  Frame /\ call[c].pc = "running" /\ r \in Team(c) /\ Moves(c, r)
  <2>1. Busy => call[c].pc = "running" /\ r \in Team(c) /\ op[c][r].answers = call[c].env
    BY OnlyRunningOperate
  <2>2. None \in Stops \cup {None} /\ None \in Gots \cup {None} /\ got \in Gots \cup {None}
    OBVIOUS
  <2>3. CASE op' = [op EXCEPT ![c][r].at = at]
    BY <1>2, <2>1, <2>2, <2>3, PatchMoves
  <2>4. CASE op' = [op EXCEPT ![c][r].at = at, ![c][r].got = got]
    BY <1>2, <2>1, <2>2, <2>4, PatchMoves
  <2>5. CASE op' = [op EXCEPT ![c][r] = [@ EXCEPT !.at = at, !.stop = None, !.got = got]]
    BY <1>2, <2>1, <2>2, <2>5, PatchMoves
  <2>6. CASE op' = [op EXCEPT ![c][r] = [@ EXCEPT !.at = at, !.stop = None, !.got = None]]
    BY <1>2, <2>1, <2>2, <2>6, PatchMoves
  <2> QED
    BY <1>2, <2>3, <2>4, <2>5, <2>6
<1>3. CASE OpBook(c, r)
  <2>1. Frame /\ Busy /\ op' = [op EXCEPT ![c][r] = [@ EXCEPT !.at = "child", !.stop = None, !.got = None]]
    BY <1>3 DEF OpBook
  <2> QED
    BY <1>2, <2>1 DEF Gots
<1>4. CASE OpExhausted(c, r)
  <2>1. Frame /\ Busy /\ op' = [op EXCEPT ![c][r].at = "settled", ![c][r].got = "exhausted"]
    BY <1>4 DEF OpExhausted, Settled
  <2> QED
    BY <1>2, <2>1 DEF Gots
<1>5. CASE OpRefused(c, r)
  <2>1. PICK got \in {"cancelled", "stale"} :
          Frame /\ Busy /\ op' = [op EXCEPT ![c][r].at = "settled", ![c][r].got = got]
    BY <1>5 DEF OpRefused, Settled
  <2> QED
    BY <1>2, <2>1 DEF Gots
<1>6. CASE OpKeep(c, r)
  <2>1. PICK at \in {"kept", "settled"} : Frame /\ Busy /\ op' = [op EXCEPT ![c][r].at = at]
    BY <1>6 DEF OpKeep, Op
  <2> QED
    BY <1>2, <2>1 DEF Gots
<1>7. CASE OpDefault(c, r)
  <2>1. Frame /\ Busy /\ op' = [op EXCEPT ![c][r].at = "settled", ![c][r].got = "default"]
    BY <1>7 DEF OpDefault, Settled
  <2> QED
    BY <1>2, <2>1 DEF Gots
<1>8. Recordable(c, r) => Busy
  BY DEF Recordable
<1>9. CASE OpSucceed(c, r)
  <2>1. Frame /\ Busy
    BY <1>8, <1>9 DEF OpSucceed
  <2>2. CASE op' = [op EXCEPT ![c][r].at = "judged"]
    BY <1>2, <2>1, <2>2 DEF Gots
  <2>3. CASE \E got \in {"valid", "failed"} : op' = [op EXCEPT ![c][r].at = "settled", ![c][r].got = got]
    BY <1>2, <2>1, <2>3 DEF Gots
  <2> QED
    BY <1>9, <2>2, <2>3 DEF OpSucceed, Op, Settled, Built
<1>10. CASE OpFail(c, r)
  <2>1. CASE Retries(c, r)
    <3>1. Frame /\ Busy /\ op' = [op EXCEPT ![c][r].at = "book"]
      BY <1>8, <1>10, <2>1 DEF OpFail, Op
    <3> QED
      BY <1>2, <3>1 DEF Gots
  <2>2. CASE ~Retries(c, r)
    <3>1. Frame /\ Busy /\ op' = [op EXCEPT ![c][r].at = "settled", ![c][r].got = op[c][r].got]
      BY <1>8, <1>10, <2>2 DEF OpFail, Settled
    <3>2. op[c][r].answers = call[c].env /\ call[c].pc = "running" /\ r \in Team(c)
      BY <3>1, OnlyRunningOperate
    <3> QED
      BY <1>0, <3>1, <3>2, PatchMoves
  <2> QED
    BY <2>1, <2>2
<1>11. CASE OpLost(c, r)
  <2>1. Frame /\ Busy /\ op' = [op EXCEPT ![c][r].at = "settled", ![c][r].got = "stale"]
    BY <1>8, <1>11 DEF OpLost, Settled
  <2> QED
    BY <1>2, <2>1 DEF Gots
<1>12. ASSUME Frame, Busy, Close(c, r) \/ Op(c, r, "exited")
       PROVE  Frame /\ call[c].pc = "running" /\ r \in Team(c) /\ Moves(c, r)
  <2>1. CASE Close(c, r)
    <3>1. PICK got \in Outcomes(op[c][r].stop) :
            op' = [op EXCEPT ![c][r] = [@ EXCEPT !.at = "answered", !.stop = None, !.got = got]]
      BY <2>1 DEF Close
    <3>2. got \in Gots
      BY <3>1 DEF Outcomes, Gots
    <3> QED
      BY <1>2, <1>12, <3>1, <3>2
  <2>2. CASE Op(c, r, "exited")
    BY <1>2, <1>12, <2>2 DEF Op, Gots
  <2> QED
    BY <1>12, <2>1, <2>2
<1>13. CASE ChildExit(c, r)
  BY <1>12, <1>13 DEF ChildExit
<1>14. CASE DescendantEnds(c, r)
  BY <1>12, <1>14 DEF DescendantEnds
<1>15. ASSUME NEW reason \in Stops \ {"cancelled"}, ChildStop(c, r, reason)
       PROVE  Frame /\ call[c].pc = "running" /\ r \in Team(c) /\ Moves(c, r)
  <2>1. Frame /\ Busy /\ op' = [op EXCEPT ![c][r].stop = reason]
    BY <1>15 DEF ChildStop, Alive
  <2>2. op[c][r].answers = call[c].env /\ call[c].pc = "running" /\ r \in Team(c)
    BY <2>1, OnlyRunningOperate
  <2> QED
    BY <1>0, <2>1, <2>2, PatchMoves
<1> QED
  BY <1>1, <1>3, <1>4, <1>5, <1>6, <1>7, <1>9, <1>10, <1>11, <1>13, <1>14, <1>15
     DEF Operates, OpStep

-----------------------------------------------------------------------------
(* The journal *)

LEMMA EntryMarked ==
  ASSUME NEW e \in Entries, NEW s \in {"running", "retrying", "failed", "succeeded"}
  PROVE  LET f == [e EXCEPT !.status = s]
         IN /\ f \in Entries /\ f.status = s
            /\ f.role = e.role /\ f.auth = e.auth /\ f.env = e.env /\ f.n = e.n
  BY DEF Entries

LEMMA RecordedAre ==
  ASSUME TypeOK, NEW c \in Calls
  PROVE  /\ Recorded(c) \subseteq journal.entries /\ Recorded(c) \subseteq Entries
         /\ journal.of = Rev(c) => Recorded(c) = journal.entries
         /\ journal.of # Rev(c) => Recorded(c) = {}
  BY DEF TypeOK, Recorded

LEMMA JournalWritten ==
  ASSUME NEW c \in Calls, NEW entries, Journal(c, entries)
  PROVE  journal'.of = Rev(c) /\ journal'.entries = entries
  BY DEF Journal

LEMMA JournalTyped ==
  ASSUME TypeOK, NEW c \in Calls, NEW entries \in SUBSET Entries, MayWrite(c), Journal(c, entries)
  PROVE  journal' \in [of : 0..MaxSubjects, entries : SUBSET Entries]
<1>1. Rev(c) \in 0..MaxSubjects
  BY DispatchAssumption DEF MayWrite, TypeOK, Revs
<1> QED
  BY <1>1 DEF Journal

(* While nothing else is spent, an entry of the running review may be added *)
(* or replaced as long as each account keeps its count.                     *)
LEMMA AccountsKept ==
  ASSUME TypeOK, Booked, NEW c \in Calls, MayWrite(c), UNCHANGED <<subject, spent>>,
         NEW entries, Journal(c, entries),
         \A x, y \in entries : x.role = y.role /\ x.auth = y.auth /\ x.env = y.env => x = y,
         \A x \in Recorded(c) : x.auth = None /\ x.env \in Envelopes /\ x.status # "succeeded" =>
           \E y \in entries : /\ y.role = x.role /\ y.auth = None /\ y.env = x.env
                              /\ y.status # "succeeded" /\ y.n = x.n
  PROVE  Booked'
<1>1. journal'.of = subject.rev /\ journal'.entries = entries
  BY JournalWritten DEF MayWrite
<1>2. subject.rev \in Nat
  BY DEF TypeOK, Revs
<1>3. KeysAreUnique' /\ JournalIsPast'
  BY <1>1, <1>2 DEF KeysAreUnique, JournalIsPast
<1>4. ASSUME NEW r \in Roles, NEW e \in Envelopes, Accounts(r, e) PROVE Accounts(r, e)'
  <2>1. Recorded(c) = journal.entries
    BY <1>4 DEF Accounts, Recorded, MayWrite
  <2>2. PICK x \in journal.entries :
          /\ x.role = r /\ x.auth = None /\ x.env = e
          /\ x.status # "succeeded" /\ spent[r][e] <= x.n
    BY <1>4 DEF Accounts
  <2>3. \E y \in entries : /\ y.role = r /\ y.auth = None /\ y.env = e
                           /\ y.status # "succeeded" /\ y.n = x.n
    BY <2>1, <2>2
  <2> QED
    BY <1>1, <2>2, <2>3 DEF Accounts
<1>5. SpentIsCounted'
  BY <1>4 DEF Booked, SpentIsCounted
<1> QED
  BY <1>3, <1>5 DEF Booked

LEMMA MarkedShape ==
  ASSUME TypeOK, KeysAreUnique, NEW c \in Calls, NEW r \in Roles,
         NEW s \in {"running", "retrying", "failed", "succeeded"}
  PROVE  /\ Marked(c, r, s) \subseteq Entries
         /\ \A x, y \in Marked(c, r, s) :
              x.role = y.role /\ x.auth = y.auth /\ x.env = y.env => x = y
<1>1. Recorded(c) \subseteq journal.entries /\ Recorded(c) \subseteq Entries
  BY RecordedAre
<1>2. \A e \in Own(c, r) : e \in Recorded(c) /\ SameKey(e, c, r)
  BY DEF Own
<1>3. \A e \in Own(c, r) :
        LET f == [e EXCEPT !.status = s]
        IN /\ f \in Entries /\ f.status = s
           /\ f.role = e.role /\ f.auth = e.auth /\ f.env = e.env /\ f.n = e.n
  BY <1>1, <1>2, EntryMarked
<1>4. Marked(c, r, s) \subseteq Entries
  BY <1>1, <1>3 DEF Marked
<1>5. ASSUME NEW x \in Marked(c, r, s), NEW y \in Marked(c, r, s),
             x.role = y.role, x.auth = y.auth, x.env = y.env
      PROVE  x = y
  <2>1. SameKey(x, c, r) <=> SameKey(y, c, r)
    BY <1>5 DEF SameKey
  <2>2. CASE SameKey(x, c, r)
    <3>1. x \notin Recorded(c) \ Own(c, r) /\ y \notin Recorded(c) \ Own(c, r)
      BY <2>1, <2>2 DEF Own
    <3>2. PICK e \in Own(c, r) : x = [e EXCEPT !.status = s]
      BY <3>1 DEF Marked
    <3>3. PICK f \in Own(c, r) : y = [f EXCEPT !.status = s]
      BY <3>1 DEF Marked
    <3>4. e = f
      BY <1>1, <1>2 DEF SameKey, KeysAreUnique
    <3> QED
      BY <3>2, <3>3, <3>4
  <2>3. CASE ~SameKey(x, c, r)
    <3>1. \A e \in Own(c, r) : SameKey([e EXCEPT !.status = s], c, r)
      BY <1>2, <1>3 DEF SameKey
    <3>2. x \in Recorded(c) /\ y \in Recorded(c)
      BY <2>1, <2>3, <3>1 DEF Marked
    <3> QED
      BY <1>1, <1>5, <3>2 DEF KeysAreUnique
  <2> QED
    BY <2>2, <2>3
<1> QED
  BY <1>4, <1>5

(* A failure keeps what was counted. *)
LEMMA FailureBooked ==
  ASSUME TypeOK, Booked, NEW c \in Calls, NEW r \in Roles, MayWrite(c),
         NEW s \in {"retrying", "failed"}, Journal(c, Marked(c, r, s)),
         UNCHANGED <<subject, spent>>
  PROVE  Booked'
<1>1. \A x, y \in Marked(c, r, s) :
        x.role = y.role /\ x.auth = y.auth /\ x.env = y.env => x = y
  BY MarkedShape DEF Booked
<1>2. ASSUME NEW x \in Recorded(c), x.auth = None, x.status # "succeeded"
      PROVE  \E y \in Marked(c, r, s) :
               /\ y.role = x.role /\ y.auth = None /\ y.env = x.env
               /\ y.status # "succeeded" /\ y.n = x.n
  <2>1. CASE x \in Own(c, r)
    <3>1. x \in Entries
      BY RecordedAre
    <3> DEFINE y == [x EXCEPT !.status = s]
    <3>2. y \in Marked(c, r, s)
      BY <2>1 DEF Marked
    <3>3. y.status = s /\ y.role = x.role /\ y.auth = x.auth /\ y.env = x.env /\ y.n = x.n
      BY <3>1, EntryMarked
    <3> HIDE DEF y
    <3> QED
      BY <1>2, <3>2, <3>3
  <2>2. CASE x \notin Own(c, r)
    <3>1. x \in Marked(c, r, s)
      BY <2>2 DEF Marked
    <3> QED
      BY <1>2, <3>1
  <2> QED
    BY <2>1, <2>2
<1> QED
  BY <1>1, <1>2, AccountsKept

LEMMA ObservedShape ==
  ASSUME TypeOK, KeysAreUnique, NEW c \in Calls, NEW r \in Roles
  PROVE  /\ Observed(c, r) \subseteq Entries
         /\ \A x, y \in Observed(c, r) :
              x.role = y.role /\ x.auth = y.auth /\ x.env = y.env => x = y
         /\ \A x \in Recorded(c) : x.env \in Envelopes => x \in Observed(c, r)
<1> DEFINE New == [role |-> r, auth |-> call[c].auth, env |-> NoEnvelope, n |-> 0, status |-> "failed"]
<1>1. Recorded(c) \subseteq journal.entries /\ Recorded(c) \subseteq Entries
  BY RecordedAre
<1>2. call[c].auth \in Grants
  BY DEF TypeOK
<1>3. New \in Entries
  BY <1>2, DispatchAssumption DEF Entries
<1>4. NoEnvelope \notin Envelopes
  BY DispatchAssumption DEF NoEnvelope, Envelopes, Revs
<1>5. CASE \E e \in Recorded(c) : e.role = r /\ e.status = "failed"
  BY <1>1, <1>5 DEF Observed, KeysAreUnique
<1>6. CASE ~\E e \in Recorded(c) : e.role = r /\ e.status = "failed"
  <2> DEFINE Old == {e \in Recorded(c) : ~(e.role = r /\ e.auth = call[c].auth /\ e.env = NoEnvelope)}
  <2>1. Observed(c, r) = Old \cup {New}
    BY <1>6 DEF Observed
  <2>2. \A x \in Old : ~(x.role = New.role /\ x.auth = New.auth /\ x.env = New.env)
    OBVIOUS
  <2>3. \A x, y \in Old : x.role = y.role /\ x.auth = y.auth /\ x.env = y.env => x = y
    BY <1>1 DEF KeysAreUnique
  <2>4. \A x, y \in Old \cup {New} : x.role = y.role /\ x.auth = y.auth /\ x.env = y.env => x = y
    <3> HIDE DEF Old, New
    <3> QED
      BY <2>2, <2>3
  <2> QED
    BY <1>1, <1>3, <1>4, <2>1, <2>4
<1> QED
  BY <1>5, <1>6

LEMMA ObservationBooked ==
  ASSUME TypeOK, Booked, NEW c \in Calls, NEW r \in Roles, Observe(c, r),
         UNCHANGED <<subject, spent>>
  PROVE  Booked'
<1>1. CASE MayWrite(c)
  <2>1. Journal(c, Observed(c, r))
    BY <1>1 DEF Observe
  <2>2. /\ \A x, y \in Observed(c, r) :
             x.role = y.role /\ x.auth = y.auth /\ x.env = y.env => x = y
        /\ \A x \in Recorded(c) : x.env \in Envelopes => x \in Observed(c, r)
    BY ObservedShape DEF Booked
  <2> QED
    BY <1>1, <2>1, <2>2, AccountsKept
<1>2. CASE ~MayWrite(c)
  <2>1. UNCHANGED journal
    BY <1>2 DEF Observe
  <2> QED
    BY <2>1 DEF Booked, KeysAreUnique, JournalIsPast, SpentIsCounted, Accounts
<1> QED
  BY <1>1, <1>2

(* What a success or a dispatch changes is one role's. *)
LEMMA BookedFrom ==
  ASSUME TypeOK, Booked, NEW c \in Calls, MayWrite(c), UNCHANGED subject,
         NEW entries, Journal(c, entries),
         \A x, y \in entries : x.role = y.role /\ x.auth = y.auth /\ x.env = y.env => x = y,
         \A q \in Roles, e \in Envelopes :
           \/ spent'[q][e] = 0
           \/ /\ spent'[q][e] = spent[q][e]
              /\ \A x \in Recorded(c) :
                   x.role = q /\ x.auth = None /\ x.env = e => x \in entries
           \/ /\ e.rev = subject.rev /\ spent'[q][e] <= MaxDispatches
              /\ \E y \in entries : /\ y.role = q /\ y.auth = None /\ y.env = e
                                    /\ y.status # "succeeded" /\ spent'[q][e] <= y.n
  PROVE  Booked'
<1>1. journal'.of = subject.rev /\ journal'.entries = entries
  BY JournalWritten DEF MayWrite
<1>2. subject.rev \in Nat /\ MaxDispatches \in Nat
  BY DispatchAssumption DEF TypeOK, Revs
<1>3. KeysAreUnique' /\ JournalIsPast'
  BY <1>1, <1>2 DEF KeysAreUnique, JournalIsPast
<1>4. ASSUME NEW q \in Roles, NEW e \in Envelopes
      PROVE  /\ e.rev > subject.rev => spent'[q][e] = 0
             /\ e.rev = subject.rev => spent'[q][e] = 0 \/ Accounts(q, e)'
             /\ spent'[q][e] <= MaxDispatches
  <2>0. e.rev \in Nat
    BY DEF Envelopes, Revs
  <2>1. CASE spent'[q][e] = 0
    BY <1>2, <2>1
  <2>2. CASE /\ spent'[q][e] = spent[q][e]
             /\ \A x \in Recorded(c) : x.role = q /\ x.auth = None /\ x.env = e => x \in entries
    <3>1. ASSUME Accounts(q, e) PROVE Accounts(q, e)'
      <4>1. Recorded(c) = journal.entries
        BY <3>1 DEF Accounts, Recorded, MayWrite
      <4> QED
        BY <1>1, <2>2, <3>1, <4>1 DEF Accounts
    <3> QED
      BY <2>2, <3>1 DEF Booked, SpentIsCounted
  <2>3. CASE /\ e.rev = subject.rev /\ spent'[q][e] <= MaxDispatches
             /\ \E y \in entries : /\ y.role = q /\ y.auth = None /\ y.env = e
                                   /\ y.status # "succeeded" /\ spent'[q][e] <= y.n
    <3>1. Accounts(q, e)'
      BY <1>1, <2>3 DEF Accounts
    <3> QED
      BY <1>2, <2>0, <2>3, <3>1
  <2> QED
    BY <2>1, <2>2, <2>3
<1>5. SpentIsCounted'
  BY <1>4 DEF SpentIsCounted
<1> QED
  BY <1>3, <1>5 DEF Booked

(* A success starts the count again. *)
LEMMA SuccessBooked ==
  ASSUME TypeOK, Booked, NEW c \in Calls, NEW r \in Roles, MayWrite(c), UNCHANGED subject,
         Journal(c, Marked(c, r, "succeeded")),
         spent' = [spent EXCEPT ![r][call[c].env] = 0]
  PROVE  Booked'
<1>1. \A x, y \in Marked(c, r, "succeeded") :
        x.role = y.role /\ x.auth = y.auth /\ x.env = y.env => x = y
  BY MarkedShape DEF Booked
<1>2. ASSUME NEW q \in Roles, NEW e \in Envelopes
      PROVE  \/ spent'[q][e] = 0
             \/ /\ spent'[q][e] = spent[q][e]
                /\ \A x \in Recorded(c) :
                     x.role = q /\ x.auth = None /\ x.env = e => x \in Marked(c, r, "succeeded")
  <2>1. CASE q = r /\ e = call[c].env
    BY <2>1 DEF TypeOK
  <2>2. CASE ~(q = r /\ e = call[c].env)
    <3>1. spent'[q][e] = spent[q][e]
      BY <2>2 DEF TypeOK
    <3>2. \A x \in Recorded(c) : x.role = q /\ x.env = e => x \in Marked(c, r, "succeeded")
      BY <2>2 DEF Marked, Own, SameKey
    <3> QED
      BY <3>1, <3>2
  <2> QED
    BY <2>1, <2>2
<1> QED
  BY <1>1, <1>2, BookedFrom

LEMMA CountedMore ==
  ASSUME TypeOK, Booked, NEW c \in Calls, NEW r \in Roles, ~Exhausted(c, r)
  PROVE  /\ Counted(c, r) \in 1..MaxDispatches
         /\ \A e \in Own(c, r) : e.status # "succeeded" => Counted(c, r) = e.n + 1
<1>1. MaxDispatches \in Nat \ {0}
  BY DispatchAssumption
<1>2. ASSUME NEW e \in Own(c, r), e.status # "succeeded"
      PROVE  Counted(c, r) = e.n + 1 /\ e.n + 1 \in 1..MaxDispatches
  <2>1. \A f \in Own(c, r) : f = e
    BY RecordedAre DEF Own, SameKey, Booked, KeysAreUnique
  <2>2. e \in Entries /\ e.n < MaxDispatches
    <3>1. e \in Entries
      BY RecordedAre DEF Own
    <3>2. ~(e.n >= MaxDispatches)
      BY <1>2 DEF Exhausted
    <3> QED
      BY <1>1, <3>1, <3>2 DEF Entries
  <2>3. (CHOOSE f \in Own(c, r) : TRUE) = e
    BY <2>1
  <2>4. Counted(c, r) = e.n + 1
    BY <1>2, <2>3 DEF Counted
  <2> QED
    BY <1>1, <2>2, <2>4 DEF Entries
<1>3. (\A e \in Own(c, r) : e.status = "succeeded") => Counted(c, r) = 1
  BY DEF Counted
<1> QED
  BY <1>1, <1>2, <1>3

LEMMA LaunchedShape ==
  ASSUME TypeOK, Booked, NEW c \in Calls, NEW r \in Roles, MayWrite(c), ~Exhausted(c, r)
  PROVE  /\ Launched(c, r) \subseteq Entries
         /\ \A x, y \in Launched(c, r) :
              x.role = y.role /\ x.auth = y.auth /\ x.env = y.env => x = y
         /\ \E x \in Launched(c, r) :
              /\ x.role = r /\ x.auth = call[c].auth /\ x.env = call[c].env
              /\ x.status = "running" /\ x.n = Counted(c, r)
<1> DEFINE New == [role |-> r, auth |-> call[c].auth, env |-> call[c].env,
                   n |-> Counted(c, r), status |-> "running"]
           Old == Recorded(c) \ (Own(c, r) \cup Superseded(c, r))
<1>1. Recorded(c) \subseteq journal.entries /\ Recorded(c) \subseteq Entries
  BY RecordedAre
<1>2. call[c].auth \in Grants /\ call[c].env \in Envelopes \cup {NoEnvelope}
  BY DEF TypeOK
<1>3. New \in Entries
  BY <1>2, CountedMore, DispatchAssumption DEF Entries
<1>4. Launched(c, r) = Old \cup {New}
  BY DEF Launched
<1>5. \A x \in Old : ~(x.role = New.role /\ x.auth = New.auth /\ x.env = New.env)
  BY DEF Own, SameKey
<1>6. \A x, y \in Old : x.role = y.role /\ x.auth = y.auth /\ x.env = y.env => x = y
  BY <1>1 DEF Booked, KeysAreUnique
<1>7. \A x, y \in Old \cup {New} : x.role = y.role /\ x.auth = y.auth /\ x.env = y.env => x = y
  <2> HIDE DEF Old, New
  <2> QED
    BY <1>5, <1>6
<1> QED
  BY <1>1, <1>3, <1>4, <1>7

(* A dispatch is on record before its child starts. *)
LEMMA LaunchBooked ==
  ASSUME TypeOK, Booked, NEW c \in Calls, NEW r \in Roles, MayWrite(c), ~Exhausted(c, r),
         call[c].env \in Envelopes, UNCHANGED subject, Journal(c, Launched(c, r)),
         spent' = IF call[c].auth = None THEN [spent EXCEPT ![r][call[c].env] = @ + 1]
                  ELSE [spent EXCEPT ![r] = [e \in Envelopes |-> 0]]
  PROVE  Booked'
<1>1. \A x, y \in Launched(c, r) :
        x.role = y.role /\ x.auth = y.auth /\ x.env = y.env => x = y
  BY LaunchedShape
<1>2. ASSUME NEW x \in Recorded(c), x.role # r
      PROVE  x \in Launched(c, r)
  BY <1>2 DEF Launched, Own, SameKey, Superseded
<1>3. call[c].env.rev = subject.rev /\ NoEnvelope \notin Envelopes
  BY DispatchAssumption DEF MayWrite, Rev, NoEnvelope, Envelopes, Revs
<1>4. ASSUME NEW q \in Roles, NEW e \in Envelopes
      PROVE  \/ spent'[q][e] = 0
             \/ /\ spent'[q][e] = spent[q][e]
                /\ \A x \in Recorded(c) :
                     x.role = q /\ x.auth = None /\ x.env = e => x \in Launched(c, r)
             \/ /\ e.rev = subject.rev /\ spent'[q][e] <= MaxDispatches
                /\ \E y \in Launched(c, r) :
                     /\ y.role = q /\ y.auth = None /\ y.env = e
                     /\ y.status # "succeeded" /\ spent'[q][e] <= y.n
  <2>1. CASE q # r
    <3>1. spent'[q][e] = spent[q][e]
      BY <2>1 DEF TypeOK
    <3> QED
      BY <1>2, <2>1, <3>1
  <2>2. CASE q = r /\ call[c].auth # None
    <3>1. spent'[q][e] = 0
      BY <2>2 DEF TypeOK
    <3> QED
      BY <3>1
  <2>3. CASE q = r /\ call[c].auth = None /\ e # call[c].env
    <3>1. spent'[q][e] = spent[q][e]
      BY <2>3 DEF TypeOK
    <3>2. \A x \in Recorded(c) : x.auth = None /\ x.env = e => x \in Launched(c, r)
      BY <1>3, <2>3 DEF Launched, Own, SameKey, Superseded
    <3> QED
      BY <3>1, <3>2
  <2>4. CASE q = r /\ call[c].auth = None /\ e = call[c].env
    <3>1. spent'[q][e] = spent[q][e] + 1 /\ spent[q][e] \in Nat
      BY <2>4 DEF TypeOK
    <3>2. spent[q][e] + 1 <= Counted(c, r)
      <4>1. CASE spent[q][e] = 0
        BY <4>1, CountedMore
      <4>2. CASE spent[q][e] # 0
        <5>1. Accounts(q, e)
          BY <1>3, <2>4, <4>2 DEF Booked, SpentIsCounted
        <5>2. Recorded(c) = journal.entries
          BY <5>1 DEF Accounts, Recorded, MayWrite
        <5>3. PICK x \in Own(c, r) : x.status # "succeeded" /\ spent[q][e] <= x.n
          BY <2>4, <5>1, <5>2 DEF Accounts, Own, SameKey
        <5>4. x \in Entries
          BY RecordedAre DEF Own
        <5>5. x.n \in Nat
          BY <5>4 DEF Entries
        <5> QED
          BY <3>1, <5>3, <5>5, CountedMore
      <4> QED
        BY <4>1, <4>2
    <3>3. PICK y \in Launched(c, r) :
            /\ y.role = r /\ y.auth = call[c].auth /\ y.env = call[c].env
            /\ y.status = "running" /\ y.n = Counted(c, r)
      BY LaunchedShape
    <3>4. spent'[q][e] <= MaxDispatches
      BY <3>1, <3>2, CountedMore, DispatchAssumption
    <3> QED
      BY <1>3, <2>4, <3>1, <3>2, <3>3, <3>4
  <2> QED
    BY <2>1, <2>2, <2>3, <2>4
<1> QED
  BY <1>1, <1>4, BookedFrom

-----------------------------------------------------------------------------
(* The invariant: the reviewers' steps *)

LEMMA Starts == Init => DispatchInv
<1> SUFFICES ASSUME Init PROVE DispatchInv
  OBVIOUS
<1>1. 1 \in Revs /\ 0 \in Nat /\ MaxSubjects \in Nat /\ MaxCalls \in Nat /\ MaxUpsets \in Nat
  BY DispatchAssumption DEF Revs
<1>2. \A c \in Calls : call[c] \in CallRecords /\ call[c].pc = "idle"
  BY AtRestShape DEF Init
<1>3. \A c \in Calls, r \in Roles : op[c][r] \in Operations /\ op[c][r].at = "ready"
  BY FreshShape DEF Init
<1>4. call \in [Calls -> CallRecords] /\ op \in [Calls -> [Roles -> Operations]]
  BY AtRestShape, FreshShape DEF Init
<1>5. fifo \in [Processes -> Seq(Calls)]
  BY DEF Init
<1>6. TypeOK
  <2>1. /\ subject \in [rev : Revs, open : BOOLEAN] /\ edited \in BOOLEAN
        /\ journal \in [of : 0..MaxSubjects, entries : SUBSET Entries]
        /\ used \in [calls : 0..MaxCalls, upsets : 0..MaxUpsets]
    <3>1. 0 \in 0..MaxSubjects /\ 0 \in 0..MaxCalls /\ 0 \in 0..MaxUpsets
      BY <1>1
    <3> QED
      BY <1>1, <3>1 DEF Init
  <2>2. spent \in [Roles -> [Envelopes -> Nat]] /\ retained = {} /\ evidence = {}
    BY DEF Init
  <2> QED
    BY <1>2, <1>4, <1>5, <2>1, <2>2 DEF TypeOK, CallRecords, Places, Operations, Stages
<1>7. HasItsTurn /\ OpsBelong /\ DoneStays /\ SubjectsPass /\ MatchedOrEdited
  BY <1>2, <1>3 DEF HasItsTurn, OpsBelong, DoneStays, SubjectsPass, MatchedOrEdited, Working, Done
<1>8. ReviewedOnce /\ EvidenceIsCurrent
  BY DEF Init, ReviewedOnce, EvidenceIsCurrent
<1>9. Booked
  <2>1. \A r \in Roles, e \in Envelopes : spent[r][e] = 0
    BY DEF Init
  <2> QED
    BY <1>1, <2>1, DispatchAssumption
       DEF Init, Booked, KeysAreUnique, JournalIsPast, SpentIsCounted
<1> QED
  BY <1>6, <1>7, <1>8, <1>9 DEF DispatchInv

LEMMA OperationMovesOn ==
  ASSUME DispatchInv, NEW c \in Calls, NEW r \in Roles, Operates(c, r)
  PROVE  /\ op' \in [Calls -> [Roles -> Operations]]
         /\ HasItsTurn' /\ OpsBelong' /\ DoneStays' /\ SubjectsPass' /\ MatchedOrEdited'
         /\ ReviewedOnce' /\ EvidenceIsCurrent'
<1>1. /\ UNCHANGED <<subject, edited, fifo, call, evidence, used>>
      /\ call[c].pc = "running" /\ r \in Team(c) /\ Moves(c, r)
  BY OperationSteps, TypesAreShapes DEF DispatchInv
<1>2. PICK q \in Operations :
        /\ op' = [op EXCEPT ![c] = [op[c] EXCEPT ![r] = q]]
        /\ q.at # "ready" /\ q.answers = call[c].env
  BY <1>1 DEF Moves
<1>3. op \in [Calls -> [Roles -> Operations]]
  BY TypesAreShapes DEF DispatchInv, Shapes
<1>4. op' \in [Calls -> [Roles -> Operations]]
  BY <1>2, <1>3
<1>5. \A d \in Calls, s \in Roles :
        \/ op'[d][s] = op[d][s]
        \/ d = c /\ s = r /\ op'[d][s] = q
  BY <1>2, <1>3
<1>6. \A d \in Calls : d # c => op'[d] = op[d]
  BY <1>2, <1>3
<1>7. HasItsTurn' /\ SubjectsPass' /\ MatchedOrEdited' /\ ReviewedOnce' /\ EvidenceIsCurrent'
  BY <1>1 DEF DispatchInv, HasItsTurn, IsHead, SubjectsPass, Rev, MatchedOrEdited, ReviewedOnce,
              EvidenceIsCurrent
<1>8. OpsBelong'
  BY <1>1, <1>2, <1>5 DEF DispatchInv, OpsBelong, Team, Rev, Working
<1>9. DoneStays'
  BY <1>1, <1>6 DEF DispatchInv, DoneStays, Done, AllSettled, Team, Rev
<1> QED
  BY <1>4, <1>7, <1>8, <1>9

LEMMA KeptShape ==
  ASSUME Shapes, NEW c \in Calls, NEW r \in Roles, call[c].env \in Envelopes
  PROVE  Keep(c, r) \subseteq [role : Roles, env : Envelopes, ok : BOOLEAN]
<1> PICK b \in BOOLEAN : b = (op[c][r].got = "valid")
  OBVIOUS
<1>1. [Kept(r, call[c].env) EXCEPT !.ok = op[c][r].got = "valid"]
        = [role |-> r, env |-> call[c].env, ok |-> b]
  BY DEF Kept
<1> QED
  BY <1>1 DEF Keep, Shapes

(* The rest of what an operation's step may write. *)
OperationWrites ==
  /\ journal' \in [of : 0..MaxSubjects, entries : SUBSET Entries]
  /\ retained' \subseteq [role : Roles, env : Envelopes, ok : BOOLEAN]
  /\ spent' \in [Roles -> [Envelopes -> Nat]]
  /\ Booked'

LEMMA BookKept ==
  ASSUME TypeOK, Booked, UNCHANGED <<subject, journal, spent>>,
         retained' \subseteq [role : Roles, env : Envelopes, ok : BOOLEAN]
  PROVE  OperationWrites
  BY DEF TypeOK, OperationWrites, Booked, KeysAreUnique, JournalIsPast, SpentIsCounted, Accounts

LEMMA ObservationTyped ==
  ASSUME TypeOK, Booked, NEW c \in Calls, NEW r \in Roles, Observe(c, r)
  PROVE  journal' \in [of : 0..MaxSubjects, entries : SUBSET Entries]
<1>1. CASE MayWrite(c)
  BY <1>1, ObservedShape, JournalTyped DEF Observe, Booked
<1>2. CASE ~MayWrite(c)
  BY <1>2 DEF Observe, TypeOK
<1> QED
  BY <1>1, <1>2

LEMMA OperationBooks ==
  ASSUME DispatchInv, NEW c \in Calls, NEW r \in Roles, Operates(c, r)
  PROVE  OperationWrites
<1> USE DEF DispatchInv
<1> DEFINE Typed == journal' \in [of : 0..MaxSubjects, entries : SUBSET Entries]
<1>0. UNCHANGED subject /\ call[c].env \in Envelopes
  BY OperationSteps, TypesAreShapes DEF Shapes
<1>1. ASSUME UNCHANGED <<journal, retained, spent>> PROVE OperationWrites
  BY <1>0, <1>1, BookKept DEF TypeOK
<1>2. ASSUME NEW s \in {"retrying", "failed"}, MayWrite(c), Journal(c, Marked(c, r, s)),
             UNCHANGED <<retained, spent>>
      PROVE  OperationWrites
  <2>1. Typed
    BY <1>2, MarkedShape, JournalTyped DEF Booked
  <2>2. Booked'
    BY <1>0, <1>2, FailureBooked
  <2> QED
    BY <1>2, <2>1, <2>2 DEF OperationWrites, TypeOK
<1>3. ASSUME Observe(c, r), UNCHANGED <<retained, spent>> PROVE OperationWrites
  <2>1. Typed
    BY <1>3, ObservationTyped
  <2>2. Booked'
    BY <1>0, <1>3, ObservationBooked
  <2> QED
    BY <1>3, <2>1, <2>2 DEF OperationWrites, TypeOK
<1>4. CASE OpBook(c, r)
  <2>1. Typed
    BY <1>4, LaunchedShape, JournalTyped DEF OpBook
  <2>2. Booked'
    BY <1>0, <1>4, LaunchBooked DEF OpBook
  <2>3. spent' \in [Roles -> [Envelopes -> Nat]]
    <3>1. CASE call[c].auth = None
      <4>1. spent' = [spent EXCEPT ![r] = [spent[r] EXCEPT ![call[c].env] = spent[r][call[c].env] + 1]]
        BY <1>4, <3>1 DEF OpBook
      <4> QED
        BY <1>0, <4>1 DEF TypeOK
    <3>2. CASE call[c].auth # None
      <4>1. spent' = [spent EXCEPT ![r] = [e \in Envelopes |-> 0]]
        BY <1>4, <3>2 DEF OpBook
      <4> QED
        BY <4>1 DEF TypeOK
    <3> QED
      BY <3>1, <3>2
  <2> QED
    BY <1>4, <2>1, <2>2, <2>3 DEF OperationWrites, OpBook, TypeOK
<1>5. CASE OpKeep(c, r)
  <2>1. retained' \subseteq [role : Roles, env : Envelopes, ok : BOOLEAN]
    BY <1>0, <1>5, KeptShape, TypesAreShapes DEF OpKeep, TypeOK
  <2> QED
    BY <1>5, <2>1, BookKept DEF OpKeep
<1>6. CASE OpSucceed(c, r)
  <2>0. MayWrite(c) /\ Journal(c, Marked(c, r, "succeeded")) /\ UNCHANGED retained
        /\ spent' = [spent EXCEPT ![r] = [spent[r] EXCEPT ![call[c].env] = 0]]
    BY <1>6 DEF OpSucceed, CanRecord
  <2>1. Typed
    BY <2>0, MarkedShape, JournalTyped DEF Booked
  <2>2. Booked'
    BY <1>0, <1>6, SuccessBooked DEF OpSucceed, CanRecord
  <2> QED
    BY <2>0, <2>1, <2>2 DEF OperationWrites, TypeOK
<1>7. CASE OpFail(c, r)
  BY <1>2, <1>7 DEF OpFail, CanRecord
<1>8. CASE OpStart(c, r) \/ OpDefault(c, r) \/ ChildExit(c, r) \/ DescendantEnds(c, r)
  BY <1>1, <1>8 DEF OpStart, OpDefault, ChildExit, DescendantEnds
<1>9. ASSUME NEW reason \in Stops \ {"cancelled"}, ChildStop(c, r, reason) PROVE OperationWrites
  BY <1>1, <1>9 DEF ChildStop
<1>10. CASE OpExhausted(c, r)
  BY <1>2, <1>10 DEF OpExhausted
<1>11. CASE OpRefused(c, r) \/ OpLost(c, r)
  BY <1>3, <1>11 DEF OpRefused, OpLost
<1> QED
  BY <1>4, <1>5, <1>6, <1>7, <1>8, <1>9, <1>10, <1>11 DEF Operates, OpStep

LEMMA OperationKeeps ==
  ASSUME DispatchInv, NEW c \in Calls, NEW r \in Roles, Operates(c, r)
  PROVE  DispatchInv'
<1>1. /\ op' \in [Calls -> [Roles -> Operations]]
      /\ HasItsTurn' /\ OpsBelong' /\ DoneStays' /\ SubjectsPass' /\ MatchedOrEdited'
      /\ ReviewedOnce' /\ EvidenceIsCurrent'
  BY OperationMovesOn
<1>2. OperationWrites
  BY OperationBooks
<1>3. UNCHANGED <<subject, edited, fifo, call, evidence, used>>
  BY OperationSteps, TypesAreShapes DEF DispatchInv
<1>4. TypeOK'
  BY <1>1, <1>2, <1>3 DEF DispatchInv, TypeOK, OperationWrites, Operations, Stages
<1> QED
  BY <1>1, <1>2, <1>4 DEF DispatchInv, OperationWrites

-----------------------------------------------------------------------------
(* The invariant: the calls' steps *)

Untouched == UNCHANGED <<subject, edited, journal, retained, evidence, spent, used>>

(* A call whose reviewers have settled, or have not begun, has no children. *)
LEMMA NoneAlive ==
  ASSUME OpsBelong, DoneStays, NEW c \in Calls,
         call[c].pc \notin Working \/ AllSettled(c)
  PROVE  \A r \in Roles : ~Alive(c, r)
  BY DEF OpsBelong, AllSettled, Alive

(* Two calls of a process are never at work together. *)
LEMMA OneAtWork ==
  ASSUME HasItsTurn, NEW c \in Calls, NEW d \in Calls,
         call[c].pc \in Working \/ IsHead(c), call[d].pc \in Working \/ IsHead(d),
         call[c].process = call[d].process
  PROVE  c = d
  BY DEF HasItsTurn, IsHead

(* What holds of calls and operations is kept when one call's record changes *)
(* and its operations stay.                                                  *)
LEMMA RecordsKept ==
  ASSUME DispatchInv, NEW c \in Calls, NEW q \in CallRecords,
         call' = [call EXCEPT ![c] = q], UNCHANGED <<fifo, op, spent, used>>,
         q.pc \in Working, q.workspace, q.process = call[c].process, q.env = call[c].env,
         IsHead(c), call[c].pc # "idle",
         q.pc \in {"settled", "commit", "discard"} => AllSettled(c)
  PROVE  /\ call' \in [Calls -> CallRecords]
         /\ \A d \in Calls : call'[d].pc # "idle" =>
              call'[d].env \in Envelopes /\ call'[d].process \in Processes
         /\ HasItsTurn' /\ OpsBelong' /\ DoneStays'
<1> USE DEF DispatchInv
<1>1. Shapes
  BY TypesAreShapes
<1>2. \A d \in Calls : call'[d] = IF d = c THEN q ELSE call[d]
  BY <1>1 DEF Shapes
<1>3. /\ call' \in [Calls -> CallRecords]
      /\ \A d \in Calls : call'[d].pc # "idle" =>
           call'[d].env \in Envelopes /\ call'[d].process \in Processes
  BY <1>1, <1>2 DEF Shapes
<1>4. HasItsTurn'
  BY <1>2 DEF HasItsTurn, IsHead
<1>5. \A d \in Calls : Team(d)' = Team(d)
  BY <1>2 DEF Team, Rev
<1>6. OpsBelong'
  BY <1>2, <1>5 DEF OpsBelong
<1>7. DoneStays'
  BY <1>2, <1>5 DEF DoneStays, Done, AllSettled
<1> QED
  BY <1>3, <1>4, <1>6, <1>7

LEMMA AnswerClears ==
  ASSUME DispatchInv, NEW c \in Calls, Answer(c), IsHead(c), call[c].pc # "idle",
         call[c].pc = "queued" \/ AllSettled(c)
  PROVE  /\ call' \in [Calls -> CallRecords]
         /\ op' \in [Calls -> [Roles -> Operations]]
         /\ fifo' \in [Processes -> Seq(Calls)]
         /\ \A d \in Calls : call'[d].pc # "idle" => d # c /\ call'[d] = call[d]
         /\ HasItsTurn' /\ OpsBelong' /\ DoneStays'
<1> USE DEF DispatchInv
<1>1. Shapes
  BY TypesAreShapes
<1>2. \A r \in Roles : ~Alive(c, r)
  BY NoneAlive DEF Working
<1>3. op' = [op EXCEPT ![c] = [r \in Roles |-> Fresh]]
  <2>1. [r \in Roles |-> IF Alive(c, r) THEN op[c][r] ELSE Fresh] = [r \in Roles |-> Fresh]
    BY <1>2
  <2> QED
    BY <2>1 DEF Answer
<1>4. op' \in [Calls -> [Roles -> Operations]]
  BY <1>1, <1>3, FreshShape DEF Shapes
<1>5. \A d \in Calls, r \in Roles :
        op'[d][r].at # "ready" => d # c /\ op'[d] = op[d]
  BY <1>1, <1>3, FreshShape DEF Shapes
<1>6. \A d \in Calls : d # c => op'[d] = op[d] /\ call'[d] = call[d]
  BY <1>1, <1>3 DEF Answer, Shapes
<1>7. /\ call' \in [Calls -> CallRecords] /\ call'[c].pc = "idle"
  BY <1>1, AtRestShape DEF Answer, Shapes
<1>8. call[c].process \in Processes /\ fifo[call[c].process] # <<>>
  BY <1>1 DEF Shapes, IsHead
<1>9. fifo' \in [Processes -> Seq(Calls)]
  BY <1>8 DEF Answer, TypeOK
<1>10. \A p \in Processes : p # call[c].process => fifo'[p] = fifo[p]
  BY DEF Answer, TypeOK
<1>11. HasItsTurn'
  <2> SUFFICES ASSUME NEW d \in Calls, call'[d].pc \in Working
               PROVE  call'[d].workspace /\ IsHead(d)'
    BY DEF HasItsTurn
  <2>1. d # c /\ call'[d] = call[d]
    BY <1>6, <1>7 DEF Working
  <2>2. call[d].process # call[c].process
    BY <2>1, OneAtWork
  <2>3. call[d].process \in Processes
    BY <1>1, <2>1 DEF Shapes, Working
  <2>4. fifo'[call[d].process] = fifo[call[d].process]
    BY <1>10, <2>2, <2>3
  <2> QED
    BY <2>1, <2>4 DEF HasItsTurn, IsHead
<1>12. OpsBelong'
  BY <1>5, <1>6 DEF OpsBelong, Team, Rev
<1>13. DoneStays'
  BY <1>6, <1>7 DEF DoneStays, Done, AllSettled, Team, Rev
<1> QED
  BY <1>4, <1>6, <1>7, <1>9, <1>11, <1>12, <1>13

(* Every answer ends a call at its turn and leaves the evidence alone. *)
LEMMA AnswerKeeps ==
  ASSUME DispatchInv, NEW c \in Calls, Answer(c), IsHead(c), call[c].pc # "idle",
         call[c].pc = "queued" \/ AllSettled(c),
         UNCHANGED <<subject, edited, evidence, spent, used>>,
         retained' \subseteq retained, Booked',
         journal' \in [of : 0..MaxSubjects, entries : SUBSET Entries]
  PROVE  DispatchInv'
<1>1. /\ call' \in [Calls -> CallRecords]
      /\ op' \in [Calls -> [Roles -> Operations]]
      /\ fifo' \in [Processes -> Seq(Calls)]
      /\ \A d \in Calls : call'[d].pc # "idle" => d # c /\ call'[d] = call[d]
      /\ HasItsTurn' /\ OpsBelong' /\ DoneStays'
  BY AnswerClears
<1>2. SubjectsPass' /\ MatchedOrEdited' /\ ReviewedOnce' /\ EvidenceIsCurrent'
  BY <1>1 DEF DispatchInv, SubjectsPass, Rev, MatchedOrEdited, ReviewedOnce, EvidenceIsCurrent
<1>3. TypeOK'
  BY <1>1 DEF DispatchInv, TypeOK, CallRecords, Places, Operations, Stages
<1> QED
  BY <1>1, <1>2, <1>3 DEF DispatchInv

LEMMA BookedStays ==
  ASSUME Booked, UNCHANGED <<journal, spent, subject>>
  PROVE  Booked'
  BY DEF Booked, KeysAreUnique, JournalIsPast, SpentIsCounted, Accounts

(* A call that goes on leaves the books alone. *)
LEMMA GoesOn ==
  ASSUME DispatchInv, NEW c \in Calls, NEW q \in CallRecords,
         call' = [call EXCEPT ![c] = q],
         UNCHANGED <<fifo, op, edited, journal, retained, spent, used>>,
         q.pc \in Working, q.workspace, q.process = call[c].process, q.env = call[c].env,
         IsHead(c), call[c].pc # "idle",
         q.pc \in {"settled", "commit", "discard"} => AllSettled(c),
         subject' \in [rev : Revs, open : BOOLEAN], subject'.rev = subject.rev,
         \A v \in evidence' : v.env \in Envelopes /\ v.matched \in BOOLEAN,
         q.pc = "settled" => q.matched \/ edited, q.pc = "commit" => q.matched,
         ReviewedOnce', EvidenceIsCurrent'
  PROVE  DispatchInv'
<1>1. /\ call' \in [Calls -> CallRecords]
      /\ \A d \in Calls : call'[d].pc # "idle" =>
           call'[d].env \in Envelopes /\ call'[d].process \in Processes
      /\ HasItsTurn' /\ OpsBelong' /\ DoneStays'
  BY RecordsKept
<1>2. \A d \in Calls : call'[d] = IF d = c THEN q ELSE call[d]
  BY TypesAreShapes DEF DispatchInv, Shapes
<1>3. SubjectsPass' /\ MatchedOrEdited'
  BY <1>2 DEF DispatchInv, SubjectsPass, Rev, MatchedOrEdited
<1>4. TypeOK'
  BY <1>1 DEF DispatchInv, TypeOK, CallRecords, Places
<1>5. Booked'
  BY DEF DispatchInv, Booked, KeysAreUnique, JournalIsPast, SpentIsCounted, Accounts
<1> QED
  BY <1>1, <1>3, <1>4, <1>5 DEF DispatchInv

LEMMA BeginKeeps ==
  ASSUME DispatchInv, NEW c \in Calls, Begin(c) PROVE DispatchInv'
<1> DEFINE q == [call[c] EXCEPT !.pc = "running", !.workspace = TRUE]
<1>1. call[c] \in CallRecords
  BY TypesAreShapes DEF DispatchInv, Shapes
<1>2. /\ q \in CallRecords /\ q.pc = "running" /\ q.workspace
      /\ q.process = call[c].process /\ q.env = call[c].env
  BY <1>1 DEF CallRecords, Places, Working
<1>3. call' = [call EXCEPT ![c] = q]
  BY TypesAreShapes DEF DispatchInv, Shapes, Begin
<1>4. /\ UNCHANGED <<subject, edited, journal, retained, fifo, op, evidence, spent, used>>
      /\ call[c].pc = "queued" /\ IsHead(c)
  BY DEF Begin
<1>5. /\ subject' \in [rev : Revs, open : BOOLEAN] /\ subject'.rev = subject.rev
      /\ \A v \in evidence' : v.env \in Envelopes /\ v.matched \in BOOLEAN
      /\ ReviewedOnce' /\ EvidenceIsCurrent'
  BY <1>4 DEF DispatchInv, TypeOK, ReviewedOnce, EvidenceIsCurrent
<1> HIDE DEF q
<1> QED
  BY <1>2, <1>3, <1>4, <1>5, GoesOn DEF Working

LEMMA SettleKeeps ==
  ASSUME DispatchInv, NEW c \in Calls, Settle(c) PROVE DispatchInv'
<1>1. /\ call[c] \in CallRecords /\ IsHead(c) /\ call[c].workspace
  BY TypesAreShapes DEF DispatchInv, Shapes, Settle, HasItsTurn, Working
<1>2. /\ UNCHANGED <<subject, edited, journal, retained, evidence, spent, used>>
      /\ call[c].pc = "running" /\ AllSettled(c)
  BY DEF Settle
<1>3. CASE Failed(c)
  <2>1. Answer(c)
    BY <1>3 DEF Settle
  <2>2. Booked'
    BY <1>2, BookedStays DEF DispatchInv
  <2> QED
    BY <1>1, <1>2, <2>1, <2>2, AnswerKeeps DEF DispatchInv, TypeOK
<1>4. CASE ~Failed(c)
  <2>1. PICK b \in BOOLEAN : b = ~edited
    OBVIOUS
  <2> DEFINE q == [call[c] EXCEPT !.pc = "settled", !.matched = b]
  <2>2. /\ q \in CallRecords /\ q.pc = "settled" /\ q.workspace /\ q.matched = b
        /\ q.process = call[c].process /\ q.env = call[c].env
    BY <1>1 DEF CallRecords, Places, Working
  <2>3. call' = [call EXCEPT ![c] = q] /\ UNCHANGED <<fifo, op>>
    <3>1. call' = [call EXCEPT ![c].pc = "settled", ![c].matched = ~edited] /\ UNCHANGED <<fifo, op>>
      BY <1>4 DEF Settle
    <3> QED
      BY <2>1, <3>1, TypesAreShapes DEF DispatchInv, Shapes
  <2>4. /\ subject' \in [rev : Revs, open : BOOLEAN] /\ subject'.rev = subject.rev
        /\ \A v \in evidence' : v.env \in Envelopes /\ v.matched \in BOOLEAN
        /\ ReviewedOnce' /\ EvidenceIsCurrent'
    BY <1>2 DEF DispatchInv, TypeOK, ReviewedOnce, EvidenceIsCurrent
  <2> HIDE DEF q
  <2> QED
    BY <1>1, <1>2, <2>1, <2>2, <2>3, <2>4, GoesOn DEF Working
<1> QED
  BY <1>3, <1>4

LEMMA ReobserveKeeps ==
  ASSUME DispatchInv, NEW c \in Calls, Reobserve(c) PROVE DispatchInv'
<1>1. /\ call[c] \in CallRecords /\ IsHead(c) /\ call[c].workspace
  BY TypesAreShapes DEF DispatchInv, Shapes, Reobserve, HasItsTurn, Working
<1>2. /\ UNCHANGED <<subject, edited, journal, retained, evidence, spent, used>>
      /\ call[c].pc = "settled" /\ AllSettled(c)
  BY DEF Reobserve, DispatchInv, DoneStays, Done
<1>3. CASE ~(subject.rev = Rev(c) /\ ~edited)
  <2>1. Answer(c)
    BY <1>3 DEF Reobserve
  <2>2. Booked'
    BY <1>2, BookedStays DEF DispatchInv
  <2> QED
    BY <1>1, <1>2, <2>1, <2>2, AnswerKeeps DEF DispatchInv, TypeOK
<1>4. CASE subject.rev = Rev(c) /\ ~edited
  <2> DEFINE q == [call[c] EXCEPT !.pc = "commit"]
  <2>1. call[c].matched
    BY <1>2, <1>4 DEF DispatchInv, MatchedOrEdited
  <2>2. /\ q \in CallRecords /\ q.pc = "commit" /\ q.workspace /\ q.matched
        /\ q.process = call[c].process /\ q.env = call[c].env
    BY <1>1, <2>1 DEF CallRecords, Places, Working
  <2>3. call' = [call EXCEPT ![c] = q] /\ UNCHANGED <<fifo, op>>
    BY <1>4, TypesAreShapes DEF DispatchInv, Shapes, Reobserve
  <2>4. /\ subject' \in [rev : Revs, open : BOOLEAN] /\ subject'.rev = subject.rev
        /\ \A v \in evidence' : v.env \in Envelopes /\ v.matched \in BOOLEAN
        /\ ReviewedOnce' /\ EvidenceIsCurrent'
    BY <1>2 DEF DispatchInv, TypeOK, ReviewedOnce, EvidenceIsCurrent
  <2> HIDE DEF q
  <2> QED
    BY <1>1, <1>2, <2>2, <2>3, <2>4, GoesOn DEF Working
<1> QED
  BY <1>3, <1>4

(* The evidence rests on answers to its own envelope, on a tree that        *)
(* matched, and no earlier review was of this subject.                      *)
LEMMA CommitKeeps ==
  ASSUME DispatchInv, NEW c \in Calls, Commit(c) PROVE DispatchInv'
<1> DEFINE q == [call[c] EXCEPT !.pc = "discard"]
           v == [env |-> call[c].env, matched |-> call[c].matched,
                 rests |-> [r \in Team(c) \cap Mandatory |-> op[c][r].answers]]
<1>1. /\ call[c] \in CallRecords /\ IsHead(c) /\ call[c].workspace /\ call[c].env \in Envelopes
  BY TypesAreShapes DEF DispatchInv, Shapes, Commit, HasItsTurn, Working
<1>2. /\ UNCHANGED <<edited, journal, retained, fifo, op, spent, used>>
      /\ call[c].pc = "commit" /\ AllSettled(c) /\ call[c].matched
      /\ subject.open /\ subject.rev = call[c].env.rev
      /\ evidence' = evidence \cup {v} /\ call' = [call EXCEPT ![c] = q]
      /\ subject' = [subject EXCEPT !.open = FALSE]
  BY TypesAreShapes
     DEF Commit, DispatchInv, Shapes, DoneStays, Done, MatchedOrEdited, MayWrite, Rev
<1>3. /\ q \in CallRecords /\ q.pc = "discard" /\ q.workspace
      /\ q.process = call[c].process /\ q.env = call[c].env
  BY <1>1 DEF CallRecords, Places, Working
<1>4. subject' \in [rev : Revs, open : BOOLEAN] /\ subject'.rev = subject.rev /\ ~subject'.open
  BY <1>2 DEF DispatchInv, TypeOK
<1>5. v.env = call[c].env /\ v.matched = call[c].matched
      /\ DOMAIN v.rests = Team(c) \cap Mandatory
      /\ \A r \in Team(c) \cap Mandatory : v.rests[r] = op[c][r].answers
  OBVIOUS
<1>6. \A r \in Team(c) \cap Mandatory : op[c][r].answers = call[c].env
  <2>1. Mandatory \subseteq Roles
    BY DEF Mandatory, Roles
  <2> QED
    BY <1>2, <2>1 DEF DispatchInv, OpsBelong, AllSettled
<1> HIDE DEF q, v
<1>7. \A w \in evidence' : w.env \in Envelopes /\ w.matched \in BOOLEAN
  BY <1>1, <1>2, <1>5 DEF DispatchInv, TypeOK
<1>8. subject.rev \in Nat
  BY DEF DispatchInv, TypeOK, Revs
<1>9. ReviewedOnce'
  BY <1>2, <1>4, <1>5, <1>8 DEF DispatchInv, ReviewedOnce
<1>10. EvidenceIsCurrent'
  <2>1. \A w \in evidence : w.env.rev # v.env.rev
    BY <1>2, <1>5 DEF DispatchInv, ReviewedOnce
  <2>2. \A w \in evidence' : w.matched /\ \A r \in DOMAIN w.rests : w.rests[r] = w.env
    BY <1>2, <1>5, <1>6 DEF DispatchInv, EvidenceIsCurrent
  <2>3. \A w, x \in evidence' : w.env.rev = x.env.rev => w = x
    BY <1>2, <2>1 DEF DispatchInv, EvidenceIsCurrent
  <2> QED
    BY <2>2, <2>3 DEF EvidenceIsCurrent
<1> QED
  BY <1>1, <1>2, <1>3, <1>4, <1>7, <1>9, <1>10, GoesOn DEF Working

(* The steps that answer without going on. *)
LEMMA AnswersKeep ==
  ASSUME DispatchInv, NEW c \in Calls,
         BeginRefused(c) \/ BeginUnrouted(c) \/ CommitRefused(c) \/ Discard(c)
  PROVE  DispatchInv'
<1>1. CASE BeginRefused(c) \/ CommitRefused(c)
  <2>1. /\ Answer(c) /\ UNCHANGED <<subject, edited, journal, retained, evidence, spent, used>>
        /\ call[c].pc \in {"queued", "commit"} /\ IsHead(c)
        /\ call[c].pc = "queued" \/ AllSettled(c)
    BY <1>1 DEF BeginRefused, CommitRefused, DispatchInv, HasItsTurn, Working, DoneStays, Done
  <2>2. Booked'
    BY <2>1, BookedStays DEF DispatchInv
  <2> QED
    BY <2>1, <2>2, AnswerKeeps DEF DispatchInv, TypeOK
<1>2. CASE Discard(c)
  <2>1. /\ Answer(c) /\ UNCHANGED <<subject, edited, journal, evidence, spent, used>>
        /\ call[c].pc = "discard" /\ IsHead(c) /\ AllSettled(c) /\ retained' \subseteq retained
    BY <1>2 DEF Discard, DispatchInv, HasItsTurn, Working, DoneStays, Done
  <2>2. Booked'
    BY <2>1, BookedStays DEF DispatchInv
  <2> QED
    BY <2>1, <2>2, AnswerKeeps DEF DispatchInv, TypeOK
<1>3. CASE BeginUnrouted(c)
  <2>1. /\ Answer(c) /\ UNCHANGED <<subject, edited, retained, evidence, spent, used>>
        /\ call[c].pc = "queued" /\ IsHead(c) /\ MayWrite(c)
    BY <1>3 DEF BeginUnrouted
  <2>2. PICK r \in Team(c) \cap Mandatory : Journal(c, Observed(c, r))
    BY <1>3 DEF BeginUnrouted
  <2>3. r \in Roles /\ Observe(c, r)
    BY <2>1, <2>2 DEF Mandatory, Roles, Observe
  <2>4. Booked'
    BY <2>1, <2>3, ObservationBooked DEF DispatchInv
  <2>5. journal' \in [of : 0..MaxSubjects, entries : SUBSET Entries]
    BY <2>3, ObservationTyped DEF DispatchInv
  <2> QED
    BY <2>1, <2>4, <2>5, AnswerKeeps
<1> QED
  BY <1>1, <1>2, <1>3

-----------------------------------------------------------------------------
(* The invariant: the world around the calls *)

LEMMA InvokeKeeps ==
  ASSUME DispatchInv, NEW c \in Calls, NEW p \in Processes, Invoke(c, p)
  PROVE  DispatchInv'
<1> USE DEF DispatchInv
<1>1. Shapes /\ subject.rev \in Revs /\ subject.rev \in Nat
  BY TypesAreShapes DEF TypeOK, Revs
<1>2. PICK context \in Contexts, auth \in Grants :
        /\ auth # None => used.upsets < MaxUpsets
        /\ used' = [calls |-> used.calls + 1,
                    upsets |-> used.upsets + IF auth = None THEN 0 ELSE 1]
        /\ call' = [call EXCEPT ![c] = [AtRest EXCEPT
                      !.pc = "queued", !.process = p, !.auth = auth,
                      !.env = [rev |-> subject.rev, context |-> context]]]
  BY DEF Invoke
<1> DEFINE q == [AtRest EXCEPT !.pc = "queued", !.process = p, !.auth = auth,
                               !.env = [rev |-> subject.rev, context |-> context]]
<1>3. /\ q \in CallRecords /\ q.pc = "queued" /\ q.process = p
      /\ q.env \in Envelopes /\ q.env.rev = subject.rev
  BY <1>1 DEF AtRest, CallRecords, Places, Envelopes, Grants
<1>4. call' = [call EXCEPT ![c] = q]
  BY <1>2
<1> HIDE DEF q
<1>5. /\ op' = [op EXCEPT ![c] = [r \in Roles |-> Fresh]]
      /\ fifo' = [fifo EXCEPT ![p] = Append(fifo[p], c)]
      /\ UNCHANGED <<subject, edited, journal, retained, evidence, spent>>
      /\ call[c].pc = "idle" /\ used.calls < MaxCalls
  BY DEF Invoke
<1>6. \A d \in Calls : call'[d] = IF d = c THEN q ELSE call[d]
  BY <1>1, <1>4 DEF Shapes
<1>7. /\ call' \in [Calls -> CallRecords]
      /\ \A d \in Calls : call'[d].pc # "idle" =>
           call'[d].env \in Envelopes /\ call'[d].process \in Processes
  BY <1>1, <1>3, <1>4, <1>6 DEF Shapes
<1>8. /\ op' \in [Calls -> [Roles -> Operations]]
      /\ \A r \in Roles : op'[c][r].at = "ready"
      /\ \A d \in Calls : d # c => op'[d] = op[d]
  BY <1>1, <1>5, FreshShape DEF Shapes
<1>9. fifo' \in [Processes -> Seq(Calls)]
  BY <1>5 DEF TypeOK
<1>10. used' \in [calls : 0..MaxCalls, upsets : 0..MaxUpsets]
  BY <1>2, <1>5, DispatchAssumption DEF TypeOK
<1>11. TypeOK'
  BY <1>5, <1>7, <1>8, <1>9, <1>10 DEF TypeOK, CallRecords, Places, Operations, Stages
<1>12. HasItsTurn'
  <2> SUFFICES ASSUME NEW d \in Calls, call'[d].pc \in Working
               PROVE  call'[d].workspace /\ IsHead(d)'
    BY DEF HasItsTurn
  <2>1. d # c /\ call'[d] = call[d]
    BY <1>3, <1>6 DEF Working
  <2>2. call[d].workspace /\ IsHead(d)
    BY <2>1 DEF HasItsTurn
  <2>3. call[d].process \in Processes
    BY <1>1, <2>1 DEF Shapes, Working
  <2>4. fifo[p] \in Seq(Calls)
    BY DEF TypeOK
  <2>5. fifo[p] # <<>> => Append(fifo[p], c) # <<>> /\ Head(Append(fifo[p], c)) = Head(fifo[p])
    BY <2>4
  <2>6. fifo'[call[d].process] # <<>> /\ Head(fifo'[call[d].process]) = d
    BY <1>5, <2>2, <2>3, <2>5 DEF IsHead, TypeOK
  <2> QED
    BY <2>1, <2>2, <2>6 DEF IsHead
<1>13. OpsBelong'
  BY <1>6, <1>8 DEF OpsBelong, Team, Rev
<1>14. DoneStays'
  BY <1>3, <1>6, <1>8 DEF DoneStays, Done, AllSettled, Team, Rev
<1>15. SubjectsPass' /\ MatchedOrEdited' /\ ReviewedOnce' /\ EvidenceIsCurrent'
  BY <1>1, <1>3, <1>5, <1>6
     DEF SubjectsPass, Rev, MatchedOrEdited, ReviewedOnce, EvidenceIsCurrent
<1>16. Booked'
  BY <1>5, BookedStays
<1> QED
  BY <1>11, <1>12, <1>13, <1>14, <1>15, <1>16

LEMMA UpsetCounted ==
  ASSUME TypeOK, used.upsets < MaxUpsets, used' = [used EXCEPT !.upsets = used.upsets + 1]
  PROVE  used' \in [calls : 0..MaxCalls, upsets : 0..MaxUpsets]
<1>1. used.upsets + 1 \in 0..MaxUpsets /\ used \in [calls : 0..MaxCalls, upsets : 0..MaxUpsets]
  BY DispatchAssumption DEF TypeOK
<1> QED
  BY <1>1

LEMMA CancelKeeps ==
  ASSUME DispatchInv, NEW c \in Calls, Cancel(c) PROVE DispatchInv'
<1> USE DEF DispatchInv
<1>1. Shapes
  BY TypesAreShapes
<1> DEFINE q == [call[c] EXCEPT !.aborted = TRUE]
<1>2. /\ q \in CallRecords /\ q.pc = call[c].pc /\ q.workspace = call[c].workspace
      /\ q.process = call[c].process /\ q.env = call[c].env /\ q.matched = call[c].matched
  BY <1>1 DEF Shapes, CallRecords
<1>3. call' = [call EXCEPT ![c] = q]
  BY <1>1 DEF Cancel, Shapes
<1> HIDE DEF q
<1>4. /\ op' = [op EXCEPT ![c] = [r \in Roles |->
                 IF Alive(c, r) /\ op[c][r].stop = None
                   THEN [op[c][r] EXCEPT !.stop = "cancelled"] ELSE op[c][r]]]
      /\ used' = [used EXCEPT !.upsets = used.upsets + 1] /\ used.upsets < MaxUpsets
      /\ UNCHANGED <<subject, edited, journal, retained, fifo, evidence, spent>>
  BY DEF Cancel
<1>5. ASSUME NEW r \in Roles
      PROVE  LET o == [op[c][r] EXCEPT !.stop = "cancelled"]
             IN o \in Operations /\ o.at = op[c][r].at /\ o.answers = op[c][r].answers
  <2>1. op[c][r] \in Operations
    BY <1>1 DEF Shapes
  <2> QED
    BY <2>1 DEF Operations, Stops
<1>6. /\ op' \in [Calls -> [Roles -> Operations]]
      /\ \A d \in Calls, r \in Roles :
           op'[d][r].at = op[d][r].at /\ op'[d][r].answers = op[d][r].answers
  BY <1>1, <1>4, <1>5 DEF Shapes
<1>7. /\ call' \in [Calls -> CallRecords]
      /\ \A d \in Calls :
           /\ call'[d].pc = call[d].pc /\ call'[d].workspace = call[d].workspace
           /\ call'[d].process = call[d].process /\ call'[d].env = call[d].env
           /\ call'[d].matched = call[d].matched
  BY <1>1, <1>2, <1>3 DEF Shapes
<1>8. used' \in [calls : 0..MaxCalls, upsets : 0..MaxUpsets]
  BY <1>4, UpsetCounted
<1>9. TypeOK'
  BY <1>4, <1>6, <1>7, <1>8 DEF TypeOK, CallRecords, Places, Operations, Stages
<1>10. HasItsTurn' /\ OpsBelong'
  BY <1>4, <1>6, <1>7 DEF HasItsTurn, IsHead, OpsBelong, Team, Rev
<1>11. DoneStays'
  <2> SUFFICES ASSUME NEW d \in Calls, Done(d)', NEW r \in Team(d)'
               PROVE  op'[d][r].at = "settled"
    BY DEF DoneStays, AllSettled
  <2>1. Done(d) /\ r \in Team(d)
    BY <1>7 DEF Done, Team, Rev
  <2>2. r \in Roles
    <3>1. call[d].env \in Envelopes
      BY <1>1, <2>1 DEF Done, Shapes
    <3> QED
      BY <2>1, <3>1, DispatchAssumption DEF Team, Rev, Envelopes, Revs
  <2> QED
    BY <1>6, <2>1, <2>2 DEF DoneStays, AllSettled
<1>12. SubjectsPass' /\ MatchedOrEdited' /\ ReviewedOnce' /\ EvidenceIsCurrent'
  BY <1>4, <1>7 DEF SubjectsPass, Rev, MatchedOrEdited, ReviewedOnce, EvidenceIsCurrent
<1>13. Booked'
  BY <1>4, BookedStays
<1> QED
  BY <1>9, <1>10, <1>11, <1>12, <1>13

LEMMA CrashKeeps ==
  ASSUME DispatchInv, NEW p \in Processes, Crash(p) PROVE DispatchInv'
<1> USE DEF DispatchInv
<1>1. Shapes
  BY TypesAreShapes
<1> DEFINE mine == {c \in Calls : call[c].process = p}
<1>2. /\ call' = [c \in Calls |-> IF c \in mine THEN AtRest ELSE call[c]]
      /\ op' = [c \in Calls |-> IF c \in mine THEN [r \in Roles |-> Fresh] ELSE op[c]]
      /\ fifo' = [fifo EXCEPT ![p] = <<>>]
      /\ used' = [used EXCEPT !.upsets = used.upsets + 1] /\ used.upsets < MaxUpsets
      /\ UNCHANGED <<subject, edited, journal, retained, evidence, spent>>
  BY DEF Crash
<1>3. call' \in [Calls -> CallRecords] /\ op' \in [Calls -> [Roles -> Operations]]
  BY <1>1, <1>2, AtRestShape, FreshShape DEF Shapes
<1>4. \A c \in Calls :
        \/ call'[c].pc = "idle" /\ \A r \in Roles : op'[c][r].at = "ready"
        \/ call'[c] = call[c] /\ op'[c] = op[c] /\ call[c].process # p
  BY <1>2, AtRestShape, FreshShape
<1>5. fifo' \in [Processes -> Seq(Calls)] /\ \A s \in Processes : s # p => fifo'[s] = fifo[s]
  BY <1>2 DEF TypeOK
<1>6. used' \in [calls : 0..MaxCalls, upsets : 0..MaxUpsets]
  BY <1>2, UpsetCounted
<1> HIDE DEF mine
<1>7. TypeOK'
  BY <1>1, <1>2, <1>3, <1>4, <1>5, <1>6
     DEF Shapes, TypeOK, CallRecords, Places, Operations, Stages
<1>8. HasItsTurn'
  BY <1>1, <1>4, <1>5 DEF HasItsTurn, IsHead, Shapes, Working
<1>9. OpsBelong' /\ DoneStays'
  BY <1>4 DEF OpsBelong, DoneStays, Done, AllSettled, Team, Rev
<1>10. SubjectsPass' /\ MatchedOrEdited' /\ ReviewedOnce' /\ EvidenceIsCurrent'
  BY <1>2, <1>4 DEF SubjectsPass, Rev, MatchedOrEdited, ReviewedOnce, EvidenceIsCurrent
<1>11. Booked'
  BY <1>2, BookedStays
<1> QED
  BY <1>7, <1>8, <1>9, <1>10, <1>11

(* A new subject: what earlier reviews spent and recorded is past. *)
LEMMA AmendKeeps == ASSUME DispatchInv, Amend PROVE DispatchInv'
<1> USE DEF DispatchInv
<1>1. /\ subject' = [rev |-> subject.rev + 1, open |-> TRUE] /\ edited' = FALSE
      /\ used' = [used EXCEPT !.upsets = used.upsets + 1] /\ used.upsets < MaxUpsets
      /\ UNCHANGED <<journal, retained, fifo, call, op, evidence, spent>>
      /\ subject.rev < MaxSubjects /\ subject.rev \in Nat
  BY DEF Amend, TypeOK, Revs
<1>2. subject' \in [rev : Revs, open : BOOLEAN] /\ subject'.rev = subject.rev + 1
  BY <1>1, DispatchAssumption DEF Revs, TypeOK
<1>3. used' \in [calls : 0..MaxCalls, upsets : 0..MaxUpsets]
  BY <1>1, UpsetCounted
<1>4. TypeOK'
  BY <1>1, <1>2, <1>3 DEF TypeOK
<1>5. HasItsTurn' /\ OpsBelong' /\ DoneStays' /\ EvidenceIsCurrent'
  BY <1>1 DEF HasItsTurn, IsHead, OpsBelong, DoneStays, Done, AllSettled, Team, Rev,
              EvidenceIsCurrent
<1>6. \A e \in Envelopes : e.rev \in Nat
  BY DEF Envelopes, Revs
<1>7. SubjectsPass' /\ MatchedOrEdited' /\ ReviewedOnce'
  <2>1. \A c \in Calls : call[c].pc # "idle" => call[c].env.rev \in Nat
    BY <1>6, TypesAreShapes DEF Shapes
  <2>2. SubjectsPass'
    BY <1>1, <1>2, <2>1 DEF SubjectsPass, Rev
  <2>3. MatchedOrEdited'
    BY <1>1, <1>2, <2>1 DEF MatchedOrEdited, SubjectsPass, Rev
  <2>4. ReviewedOnce'
    BY <1>1, <1>2, <1>6 DEF ReviewedOnce, TypeOK
  <2> QED
    BY <2>2, <2>3, <2>4
<1>8. KeysAreUnique' /\ JournalIsPast'
  <2>1. journal.of \in Nat
    BY DispatchAssumption DEF TypeOK
  <2> QED
    BY <1>1, <1>2, <2>1 DEF Booked, KeysAreUnique, JournalIsPast
<1>9. SpentIsCounted'
  BY <1>1, <1>2, <1>6 DEF Booked, SpentIsCounted
<1> QED
  BY <1>4, <1>5, <1>7, <1>8, <1>9 DEF Booked

LEMMA EditTreeKeeps == ASSUME DispatchInv, EditTree PROVE DispatchInv'
<1> USE DEF DispatchInv
<1>1. Shapes
  BY TypesAreShapes
<1>2. /\ edited' = ~edited /\ edited \in BOOLEAN
      /\ used' = [used EXCEPT !.upsets = used.upsets + 1] /\ used.upsets < MaxUpsets
      /\ UNCHANGED <<subject, journal, retained, fifo, op, evidence, spent>>
      /\ call' = [c \in Calls |->
           [call[c] EXCEPT !.matched = call[c].matched
                             \/ (edited /\ call[c].pc \in {"settled", "commit"})]]
  BY DEF EditTree, TypeOK
<1>3. ASSUME NEW c \in Calls
      PROVE  /\ call'[c] \in CallRecords
             /\ call'[c].pc = call[c].pc /\ call'[c].workspace = call[c].workspace
             /\ call'[c].process = call[c].process /\ call'[c].env = call[c].env
             /\ call[c].matched => call'[c].matched
             /\ edited /\ call[c].pc \in {"settled", "commit"} => call'[c].matched
  <2>1. PICK b \in BOOLEAN :
          b = (call[c].matched \/ (edited /\ call[c].pc \in {"settled", "commit"}))
    OBVIOUS
  <2>2. call'[c] = [call[c] EXCEPT !.matched = b]
    BY <1>2, <2>1
  <2>3. /\ call'[c] \in CallRecords /\ call'[c].matched = b
        /\ call'[c].pc = call[c].pc /\ call'[c].workspace = call[c].workspace
        /\ call'[c].process = call[c].process /\ call'[c].env = call[c].env
    BY <1>1, <2>2 DEF Shapes, CallRecords
  <2> QED
    BY <2>1, <2>3
<1>4. call' \in [Calls -> CallRecords]
  BY <1>2, <1>3
<1>5. used' \in [calls : 0..MaxCalls, upsets : 0..MaxUpsets]
  BY <1>2, UpsetCounted
<1>6. TypeOK'
  <2>1. call' \in [Calls ->
          [pc : {"idle", "queued"} \cup Working, process : Processes \cup {None},
           env : Envelopes \cup {NoEnvelope}, auth : Grants,
           aborted : BOOLEAN, workspace : BOOLEAN, matched : BOOLEAN]]
    BY <1>4 DEF CallRecords, Places
  <2>2. \A c \in Calls : call'[c].pc # "idle" =>
          call'[c].env \in Envelopes /\ call'[c].process \in Processes
    BY <1>3 DEF TypeOK
  <2> QED
    BY <1>2, <1>5, <2>1, <2>2 DEF TypeOK
<1>7. HasItsTurn' /\ OpsBelong' /\ DoneStays'
  <2>1. \A c \in Calls : Team(c)' = Team(c)
    BY <1>3 DEF Team, Rev
  <2>2. HasItsTurn'
    BY <1>2, <1>3 DEF HasItsTurn, IsHead
  <2>3. OpsBelong'
    BY <1>2, <1>3, <2>1 DEF OpsBelong
  <2>4. DoneStays'
    BY <1>2, <1>3, <2>1 DEF DoneStays, Done, AllSettled
  <2> QED
    BY <2>2, <2>3, <2>4
<1>8. SubjectsPass' /\ MatchedOrEdited' /\ ReviewedOnce' /\ EvidenceIsCurrent'
  <2>1. \A c \in Calls : Rev(c)' = Rev(c)
    BY <1>3 DEF Rev
  <2>2. SubjectsPass'
    BY <1>2, <1>3, <2>1 DEF SubjectsPass
  <2>3. ASSUME NEW c \in Calls
        PROVE  /\ call'[c].pc = "settled" /\ Rev(c)' = subject.rev => call'[c].matched \/ edited'
               /\ call'[c].pc = "commit" => call'[c].matched
    <3>1. /\ call[c].pc = "settled" /\ Rev(c) = subject.rev => call[c].matched \/ edited
          /\ call[c].pc = "commit" => call[c].matched
      BY DEF MatchedOrEdited
    <3> QED
      BY <1>2, <1>3, <2>1, <3>1
  <2>4. MatchedOrEdited'
    BY <1>2, <2>3 DEF MatchedOrEdited
  <2>5. ReviewedOnce' /\ EvidenceIsCurrent'
    BY <1>2 DEF ReviewedOnce, EvidenceIsCurrent
  <2> QED
    BY <2>2, <2>4, <2>5
<1>9. Booked'
  BY <1>2, BookedStays
<1> QED
  BY <1>6, <1>7, <1>8, <1>9

-----------------------------------------------------------------------------
(* Theorems *)

(* The invariant the properties rest on holds in every reachable state. *)
THEOREM DispatchInvariant == Spec => []DispatchInv
<1>1. DispatchInv /\ [Next]_vars => DispatchInv'
  <2> SUFFICES ASSUME DispatchInv, [Next]_vars PROVE DispatchInv'
    OBVIOUS
  <2>1. ASSUME NEW c \in Calls, NEW r \in Roles, Operates(c, r) PROVE DispatchInv'
    BY <2>1, OperationKeeps
  <2>2. ASSUME NEW c \in Calls, CallStep(c) PROVE DispatchInv'
    BY <2>2, BeginKeeps, SettleKeeps, ReobserveKeeps, CommitKeeps, AnswersKeep DEF CallStep
  <2>3. ASSUME NEW c \in Calls, NEW p \in Processes, Invoke(c, p) PROVE DispatchInv'
    BY <2>3, InvokeKeeps
  <2>4. ASSUME NEW c \in Calls, Cancel(c) PROVE DispatchInv'
    BY <2>4, CancelKeeps
  <2>5. CASE \E p \in Processes : Crash(p)
    BY <2>5, CrashKeeps
  <2>6. CASE Amend \/ EditTree
    BY <2>6, AmendKeeps, EditTreeKeeps
  <2>7. CASE UNCHANGED vars
    <3>1. UNCHANGED <<subject, edited, journal, retained, fifo, call, op, evidence, spent, used>>
      BY <2>7 DEF vars
    <3> QED
      BY <3>1
         DEF DispatchInv, TypeOK, HasItsTurn, IsHead, OpsBelong, DoneStays, Done, AllSettled, Team,
             Rev, SubjectsPass, MatchedOrEdited, ReviewedOnce, EvidenceIsCurrent,
             Booked, KeysAreUnique, JournalIsPast, SpentIsCounted, Accounts
  <2> QED
    BY <2>1, <2>2, <2>3, <2>4, <2>5, <2>6, <2>7 DEF Next, Operates
<1> QED
  BY <1>1, Starts, PTL DEF Spec

(* Every variable keeps its shape, entries of the journal within their      *)
(* budget and bounds included.                                              *)
THEOREM TypeCorrect == Spec => []TypeOK
  BY DispatchInvariant, PTL DEF DispatchInv

(* No crash, restart, retry, cancel or other process lets one envelope be   *)
(* dispatched to one reviewer more often than the journal allows, unless an *)
(* answer was good or a human authorized it.                                *)
THEOREM DispatchesAreBudgeted == Spec => []BudgetHolds
<1>1. DispatchInv => BudgetHolds
  BY DEF DispatchInv, Booked, SpentIsCounted, BudgetHolds, Mandatory, Roles
<1> QED
  BY <1>1, DispatchInvariant, PTL

(* A committed review rests on answers to its own envelope and on a tree    *)
(* that was the subject after the last of them, and is the only one of its  *)
(* subject.                                                                 *)
THEOREM EvidenceRestsOnItsEnvelope == Spec => []EvidenceIsCurrent
  BY DispatchInvariant, PTL DEF DispatchInv

(* A child never outlives its workspace, and one review of a process has    *)
(* children at a time.                                                      *)
THEOREM ChildrenKeepWorkspace == Spec => []ChildrenHaveWorkspace
<1>1. DispatchInv => ChildrenHaveWorkspace
  <2> SUFFICES ASSUME DispatchInv, NEW c \in Calls, NEW r \in Roles, Alive(c, r)
               PROVE  /\ call[c].workspace
                      /\ \A d \in Calls \ {c}, s \in Roles :
                           call[d].process = call[c].process => ~Alive(d, s)
    BY DEF ChildrenHaveWorkspace
  <2>1. \A d \in Calls, s \in Roles : Alive(d, s) => call[d].pc \in Working
    BY DEF DispatchInv, OpsBelong, Alive
  <2> QED
    BY <2>1, OneAtWork DEF DispatchInv, HasItsTurn
<1> QED
  BY <1>1, DispatchInvariant, PTL

=============================================================================
