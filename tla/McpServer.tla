----------------------------- MODULE McpServer -----------------------------
(* The server process: the runtime of src/mcp/sdk-adapter.ts with its line  *)
(* framer (framing.ts) over the queue of SendQueue, and the process runner  *)
(* (process-runner.ts) that starts it, watches signals and sets the exit    *)
(* code.  The host on the other side writes frames, closes its end, reads   *)
(* slowly or not at all; a tool handler answers when it likes.              *)
(*                                                                          *)
(* One action is one turn of the event loop.  drainFrames runs directly     *)
(* where the code calls it and once more per microtask it asked for (wake): *)
(* no other event comes in between (Quiet). *)
EXTENDS SendQueue, TLC

CONSTANTS
  Ids,             \* the request ids of the host, each used once
  Initializes,     \* those it sends as "initialize"; the others call a tool
  None,
  Size,            \* the bytes of the answer to an id
  MaxFrames,       \* bound: frames the host sends
  MaxRetained,     \* frames the framer keeps before MAX_FRAME_BYTES is passed
  StreamFails      \* whether the output or the input may fail

ASSUME IdsAssumption == Initializes \subseteq Ids /\ None \notin Ids
ASSUME SizeAssumption == Size \in [Ids -> Nat]

VARIABLES
  host,      \* the ids the host has used and cancelled, the frames it sent
  rt,        \* the runtime and its pipe
  runner     \* the process runner

vars == <<host, rt, runner>>

Signals == {"SIGINT", "SIGTERM"}

(* "request", "cancel" and "initialized" name what the SDK dispatches;      *)
(* "garbage" is a line that is not JSON, "broken" one that is too long or   *)
(* is not UTF-8, "rest" the beginning of a line that never ends. *)
Frames ==
  [kind : {"request", "cancel"}, id : Ids]
    \cup [kind : {"initialized", "garbage", "broken", "rest"}, id : {None}]

(* A message the runtime sends itself, and one it sends for the SDK. *)
ErrorTo(id) == [to |-> id, size |-> 1, sdk |-> FALSE, ok |-> FALSE, n |-> 0]

AnswerTo(id, ok) == [to |-> id, size |-> Size[id], sdk |-> TRUE, ok |-> ok, n |-> 0]

Messages ==
  [to : Ids \cup {None}, size : Nat, sdk : BOOLEAN, ok : BOOLEAN, n : Nat]

Queues == Seq(Messages)

Pipes ==
  [accepted : Queues, waiting : Queues, incomplete : SUBSET Messages,
   bytes : Int, paused : BOOLEAN, closed : BOOLEAN,
   wire : Queues, unacked : Queues, full : BOOLEAN]

Terminations ==
  {"caller-close", "input-eof", "input-error", "output-error", "protocol-fatal"}

ASSUME NoneAssumption == None \notin Terminations

Lines == Seq(Frames)

Runtimes ==
  [pipe : Pipes, unread : Lines, framing : {"open", "failed", "stopped"},
   eof : BOOLEAN, tokens : SUBSET Ids, handling : SUBSET Ids,
   initKey : Ids \cup {None}, initAccepted : BOOLEAN, wake : BOOLEAN,
   phase : {"open", "closing", "closed"}, reason : Terminations \cup {None},
   closeFailed : BOOLEAN]

ExitReasons == Signals \cup {"startup", "fatal", "eof"}

TypeOK ==
  /\ host \in [used : SUBSET Ids, cancelled : SUBSET Ids, frames : Nat, rest : BOOLEAN]
  /\ rt \in Runtimes
  /\ runner \in [phase : {"starting", "started", "failed", "late"},
                 reason : ExitReasons \cup {None}, exit : {0, 1, 130, 143, None}]

Idle ==
  [pipe |-> Opened, unread |-> <<>>, framing |-> "open", eof |-> FALSE,
   tokens |-> {}, handling |-> {}, initKey |-> None, initAccepted |-> FALSE,
   wake |-> FALSE,
   phase |-> "open", reason |-> None, closeFailed |-> FALSE]

Init ==
  /\ host = [used |-> {}, cancelled |-> {}, frames |-> 0, rest |-> FALSE]
  /\ rt = Idle
  /\ runner = [phase |-> "starting", reason |-> None, exit |-> None]

-----------------------------------------------------------------------------
(* terminate: the first reason stays; what follows is a microtask. *)
Terminate(s, reason) ==
  IF s.phase # "open" THEN s
  ELSE [s EXCEPT !.phase = "closing", !.reason = reason, !.tokens = {}]

(* The microtask of receipt.admitted for the messages that a pump wrote:    *)
(* the answer to an initialize in flight settles it, and drainFrames runs.  *)
Admit(s, p) ==
  LET new == {p.wire[i] : i \in (Len(s.pipe.wire) + 1)..Len(p.wire)}
      settles == {m \in new : s.initKey # None /\ m.to = s.initKey} IN
  [s EXCEPT !.pipe = p,
            !.wake = @ \/ new # {},
            !.initKey = IF settles = {} THEN @ ELSE None,
            !.initAccepted = @ \/ \E m \in settles : m.ok]

(* Pump, and terminate when a write threw. *)
Pump(s) ==
  {Admit(s, p) : p \in Pumped(s.pipe)}
    \cup (IF StreamFails
          THEN {Terminate(Admit(s, p), "output-error") : p \in Thrown(s.pipe)}
          ELSE {})

(* What-if: a message goes straight to a stream that is not paused. *)
EnqueueInsideAtOnce(s, m) ==
  IF s.phase # "open" \/ s.pipe.closed THEN {s}
  ELSE IF s.pipe.paused THEN {[s EXCEPT !.pipe = Queued(@, m)]}
  ELSE LET p == Queued(s.pipe, m) IN
       {Admit(s, [p EXCEPT !.waiting = Front(@), !.wire = Append(@, Last(p.waiting)),
                           !.unacked = Append(@, Last(p.waiting))])}

(* enqueue of the runtime from inside drainFrames, where the call back of   *)
(* a queue that shuts down finds drainFrames busy. *)
EnqueueInside(s, m) ==
  IF s.phase # "open" \/ s.pipe.closed THEN {s}
  ELSE IF Overflows(s.pipe, m)
       THEN {Terminate([s EXCEPT !.pipe = Shut(@)], "output-error")}
       ELSE Pump([s EXCEPT !.pipe = Queued(@, m)])

(* What-if: the token of a cancelled call is left for an answer. *)
CancelledKeepsToken(s, id) == [s EXCEPT !.handling = @ \ {id}]

(* A cancelled call sends no answer, so its token is settled here. *)
Cancelled(s, id) == [s EXCEPT !.tokens = @ \ {id}, !.handling = @ \ {id}]

(* handleFrame, and what the SDK does with the frame before it waits.       *)
HandleFrame(s, f) ==
  CASE f.kind \in {"garbage", "rest"} -> EnqueueInside(s, ErrorTo(None))
    [] f.kind = "broken" ->
         {Terminate(t, "protocol-fatal") : t \in EnqueueInside(s, ErrorTo(None))}
    [] f.kind = "request" ->
         IF f.id \in Initializes /\ (s.initAccepted \/ s.initKey # None)
         THEN EnqueueInside(s, ErrorTo(f.id))
         ELSE {[s EXCEPT !.tokens = @ \cup {f.id}, !.handling = @ \cup {f.id},
                         !.initKey = IF f.id \in Initializes THEN f.id ELSE @]}
    [] f.kind = "cancel" ->
         {Cancelled(s, f.id)}
    [] f.kind = "initialized" ->
         {IF s.initAccepted THEN s ELSE Terminate(s, "protocol-fatal")}

(* Every request the SDK was given has an answer in the queue, or none to   *)
(* come. *)
Settled(s) == s.tokens = {}

(* next and finish take the first frame; what cannot be read, or never      *)
(* ends, is the last and clears what the framer kept. *)
Read(s) ==
  IF Head(s.unread).kind \in {"broken", "rest"}
  THEN [s EXCEPT !.unread = <<>>, !.framing = "stopped", !.wake = TRUE]
  ELSE [s EXCEPT !.unread = Tail(@), !.wake = TRUE]

(* drainFrames: one frame and a microtask for the next; at the end of the   *)
(* input, what the framer kept; and when every token is settled, the end.   *)
DrainFrames(s) ==
  IF s.phase # "open" \/ s.pipe.paused \/ s.initKey # None THEN {s}
  ELSE IF s.framing = "failed"
  THEN HandleFrame([s EXCEPT !.framing = "stopped", !.wake = TRUE],
                   [kind |-> "broken", id |-> None])
  ELSE IF s.framing = "open" /\ s.unread # <<>> /\ (Head(s.unread).kind # "rest" \/ s.eof)
  THEN HandleFrame(Read(s), Head(s.unread))
  ELSE IF ~s.eof THEN {s}
  ELSE LET t == [s EXCEPT !.framing = "stopped"] IN
       {IF Settled(s) THEN Terminate(t, "input-eof") ELSE t}

(* The queue shuts down with an error outside drainFrames.  A paused queue  *)
(* first tells its observer that the pressure is gone, which drains a frame *)
(* of the open runtime; only then does it report the failure. *)
Fail(s) ==
  LET t == [s EXCEPT !.pipe = Shut(@)] IN
  {Terminate(u, "output-error") : u \in IF s.pipe.paused THEN DrainFrames(t) ELSE {t}}

Enqueue(s, m) ==
  IF s.phase # "open" \/ s.pipe.closed THEN {s}
  ELSE IF Overflows(s.pipe, m) THEN Fail(s)
       ELSE Pump([s EXCEPT !.pipe = Queued(@, m)])

-----------------------------------------------------------------------------
RunnerBusy ==
  \/ runner.reason # None /\ runner.exit = None
  \/ runner.phase = "started" /\ runner.reason = None /\ rt.phase = "closed"
  \/ runner.phase = "late" /\ rt.phase = "open"

(* Microtasks come before the next event of a stream, a handler or a signal. *)
Quiet == ~rt.wake /\ rt.phase # "closing" /\ ~RunnerBusy

InputFlows ==
  runner.phase \in {"started", "late"} /\ rt.phase = "open" /\ ~rt.pipe.paused /\ ~rt.eof

(* append: a chunk that does not fit makes the framer drop all it kept. *)
Kept(s, f) ==
  IF s.framing # "open" THEN s
  ELSE IF Len(s.unread) >= MaxRetained
       THEN [s EXCEPT !.framing = "failed", !.unread = <<>>]
       ELSE [s EXCEPT !.unread = Append(@, f)]

(* onData.  The host uses an id once and cancels only tool calls.           *)
Deliver(f) ==
  /\ Quiet /\ InputFlows /\ host.frames < MaxFrames /\ ~host.rest
  /\ f.kind = "request" => f.id \notin host.used
  /\ f.kind = "cancel" => f.id \in host.used \ (host.cancelled \cup Initializes)
  /\ host' = [host EXCEPT !.frames = @ + 1, !.rest = f.kind = "rest",
                          !.used = IF f.kind = "request" THEN @ \cup {f.id} ELSE @,
                          !.cancelled = IF f.kind = "cancel" THEN @ \cup {f.id} ELSE @]
  /\ rt' \in DrainFrames(Kept(rt, f))
  /\ UNCHANGED runner

(* onEnd. *)
EndInput ==
  /\ Quiet /\ InputFlows
  /\ rt' \in DrainFrames([rt EXCEPT !.eof = TRUE])
  /\ UNCHANGED <<host, runner>>

(* onInputError. *)
InputFails ==
  /\ StreamFails /\ Quiet /\ InputFlows
  /\ rt' = Terminate(rt, "input-error")
  /\ UNCHANGED <<host, runner>>

(* The SDK answers: transport.send settles the token before it enqueues;    *)
(* once the runtime is closing the answer is dropped.  Whether it is a      *)
(* result or an error matters for an initialize alone. *)
Answer(id, ok) ==
  /\ Quiet /\ id \in rt.handling
  /\ id \notin Initializes => ok
  /\ LET s == [rt EXCEPT !.handling = @ \ {id}, !.tokens = @ \ {id}] IN
     rt' \in Enqueue(s, AnswerTo(id, ok))
  /\ UNCHANGED <<host, runner>>

(* The stream calls back for its oldest write.  What waited for that answer *)
(* looks once more for the end of the input. *)
WriteDone ==
  /\ Quiet /\ rt.pipe.unacked # <<>>
  /\ LET m == Head(rt.pipe.unacked)
         s == [rt EXCEPT !.pipe = Completed(@)] IN
     \E t \in Pump(s) :
       rt' = [t EXCEPT !.wake = @ \/ (m.sdk /\ ~s.pipe.closed /\ s.eof /\ Settled(s))]
  /\ UNCHANGED <<host, runner>>

(* The stream calls back with an error and stays broken. *)
Broken(s) == [s EXCEPT !.pipe.unacked = <<>>, !.pipe.full = FALSE]

WriteFails ==
  /\ StreamFails /\ Quiet /\ rt.pipe.unacked # <<>> /\ ~rt.pipe.closed
  /\ rt' \in {Broken(t) : t \in Fail(rt)}
  /\ UNCHANGED <<host, runner>>

(* The runtime listens to the errors of its output before the queue does.   *)
OutputFails ==
  /\ StreamFails /\ Quiet /\ runner.phase \in {"started", "late"} /\ rt.phase = "open"
  /\ rt' = Broken([Terminate(rt, "output-error") EXCEPT !.pipe = Shut(@)])
  /\ UNCHANGED <<host, runner>>

(* What-if: the drained queue is left for the next message to pump. *)
DrainForgets ==
  /\ Quiet /\ rt.pipe.full
  /\ rt' \in DrainFrames([rt EXCEPT !.pipe.full = FALSE, !.pipe.paused = FALSE])
  /\ UNCHANGED <<host, runner>>

(* handleDrain: the runtime hears of it, and drains a frame, before the     *)
(* queue pumps. *)
Drain ==
  /\ Quiet /\ rt.pipe.full /\ rt.pipe.paused /\ ~rt.pipe.closed
  /\ \E t \in DrainFrames([rt EXCEPT !.pipe.full = FALSE, !.pipe.paused = FALSE]) :
       rt' \in Pump(t)
  /\ UNCHANGED <<host, runner>>

(* The microtask drainFrames queued for itself or a settled send asked for. *)
Microtask ==
  /\ rt.wake
  /\ rt' \in DrainFrames([rt EXCEPT !.wake = FALSE])
  /\ UNCHANGED <<host, runner>>

(* What-if: the queue is closed only when every write has called back. *)
CloseTailFlushes(failed) ==
  /\ rt.phase = "closing" /\ rt.pipe.unacked = <<>>
  /\ rt' = Broken([rt EXCEPT !.phase = "closed", !.pipe = Shut(@),
                             !.closeFailed = failed, !.wake = FALSE])
  /\ UNCHANGED <<host, runner>>

(* The rest of terminate: the SDK closes, well or not, and then the queue,  *)
(* after which nobody listens to the stream. *)
CloseTail(failed) ==
  /\ rt.phase = "closing"
  /\ rt' = Broken([rt EXCEPT !.phase = "closed", !.pipe = Shut(@),
                             !.closeFailed = failed, !.wake = FALSE])
  /\ UNCHANGED <<host, runner>>

-----------------------------------------------------------------------------
(* select: the first reason decides. *)
Select(reason) ==
  runner' = [runner EXCEPT !.reason = IF @ = None THEN reason ELSE @]

(* start resolves.  After a signal the runtime comes too late and is closed. *)
Start ==
  /\ runner.phase = "starting" /\ Quiet
  /\ runner' = [runner EXCEPT !.phase = IF runner.exit = None THEN "started" ELSE "late"]
  /\ UNCHANGED <<host, rt>>

StartFails ==
  /\ runner.phase = "starting" /\ Quiet
  /\ runner' = [runner EXCEPT !.phase = "failed",
                              !.reason = IF @ = None THEN "startup" ELSE @]
  /\ UNCHANGED <<host, rt>>

(* A signal, while the runner listens. *)
Signal(sig) ==
  /\ Quiet /\ runner.exit = None
  /\ Select(sig)
  /\ UNCHANGED <<host, rt>>

(* The watcher of runtime.closed. *)
Watch ==
  /\ runner.phase = "started" /\ rt.phase = "closed" /\ runner.reason = None
  /\ Select(IF rt.reason = "input-eof" THEN "eof" ELSE "fatal")
  /\ UNCHANGED <<host, rt>>

(* closeOnce. *)
CloseRuntime ==
  /\ rt.phase = "open"
  /\ runner.phase = "late" \/ (runner.phase = "started" /\ runner.reason # None)
  /\ rt' = Terminate(rt, "caller-close")
  /\ UNCHANGED <<host, runner>>

ExitCode(reason) ==
  CASE reason = "SIGINT" -> 130
    [] reason = "SIGTERM" -> 143
    [] reason = "eof" -> IF rt.closeFailed THEN 1 ELSE 0
    [] reason \in {"startup", "fatal"} -> 1

(* The end of runMcpProcess: a runtime that started is closed first. *)
Exit ==
  /\ runner.reason # None /\ runner.exit = None
  /\ runner.phase = "started" => rt.phase = "closed"
  /\ runner' = [runner EXCEPT !.exit = ExitCode(runner.reason)]
  /\ UNCHANGED <<host, rt>>

-----------------------------------------------------------------------------
Next ==
  \/ \E f \in Frames : Deliver(f)
  \/ EndInput \/ InputFails
  \/ \E id \in Ids, ok \in BOOLEAN : Answer(id, ok)
  \/ WriteDone \/ WriteFails \/ OutputFails \/ Drain
  \/ Microtask
  \/ \E failed \in BOOLEAN : CloseTail(failed)
  \/ Start \/ StartFails
  \/ \E sig \in Signals : Signal(sig)
  \/ Watch \/ CloseRuntime \/ Exit

Spec == Init /\ [][Next]_vars

(* The event loop runs the microtasks it has, and the process its own code. *)
(* The host owes no frame and no end of its input, nor does start resolve. *)
Fairness ==
  /\ WF_vars(Microtask) /\ WF_vars(\E failed \in BOOLEAN : CloseTail(failed))
  /\ WF_vars(Watch) /\ WF_vars(CloseRuntime) /\ WF_vars(Exit)

(* The handlers answer in the end, and the host reads what it is sent: the  *)
(* output drains and calls back.  Nothing of it is owed to a signal. *)
OthersServe ==
  /\ \A id \in Ids : WF_vars(\E ok \in BOOLEAN : Answer(id, ok))
  /\ WF_vars(WriteDone) /\ WF_vars(Drain)

FairSpec == Spec /\ Fairness

-----------------------------------------------------------------------------
(* Messages leave in the order they were accepted, none twice and none      *)
(* skipped, also those that are enqueued while the queue is being drained.  *)
AnswersInOrder == InOrder(rt.pipe)

(* No answer is left waiting without a drain to come that will write it.    *)
NothingWaitsUnnoticed == DrainOwed(rt.pipe)

(* A runtime that ended because its input did has read all of it and waits  *)
(* for no handler. *)
EofWaitsForHandlers ==
  rt.reason = "input-eof" => rt.handling = {} /\ rt.unread = <<>>

(* When the input ends, the handlers answer and the host reads, the process *)
(* ends. *)
EofEnds == OthersServe => (rt.eof ~> runner.exit # None)

(* A signal ends the process, whatever start and the handlers do, and even  *)
(* if the output is full and never drains or calls back a write; a runtime  *)
(* that starts late is closed. *)
SignalEnds ==
  /\ runner.reason \in Signals ~> runner.exit # None
  /\ (runner.reason \in Signals /\ runner.phase \in {"started", "late"})
       ~> rt.phase = "closed"
=============================================================================
