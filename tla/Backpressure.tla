---------------------------- MODULE Backpressure ----------------------------
(***************************************************************************)
(* The stream transformer of lib/bridge/backpressure.dart between the      *)
(* controller of the bridge (source) and the loop of the application,      *)
(* which is the await-for of Transport.stream (out).  Both subscriptions   *)
(* are of dart:async: they queue events, deliver one per turn of the event *)
(* loop, and hold their queue while paused.  The controller of out reports *)
(* isPaused from the moment its listener pauses until the listener has     *)
(* resumed and its queue is empty; then it calls onResume, which is _pump. *)
(***************************************************************************)
EXTENDS Integers, Sequences

CONSTANTS
  BufferSize,    \* BackpressurePolicy.bufferSize
  BatchMaxSize   \* BackpressurePolicy.batchMaxSize

ASSUME BackpressureAssumption ==
  BufferSize \in Nat \ {0} /\ BatchMaxSize \in Nat \ {0}

\* Events other than the items 1, 2, ...
Error == 0
Done == -1

VARIABLES
  strategy,      \* of the policy
  source,        \* events the source subscription holds
  sourcePaused,  \* _sub.isPaused
  pending,       \* _pending
  timer,         \* _flushTimer is armed
  grants,        \* grants under way: how many of each amount
  out,           \* events the out subscription holds
  outPaused,     \* the loop has paused it
  inputPaused,   \* _controller.isPaused
  turn,          \* which of the two microtasks is first in their queue
  consumed,      \* history: items the loop has received
  finished       \* how the loop ended: no, done, error, cancelled

buffers == <<strategy, source, sourcePaused, pending, timer, grants, out,
             outPaused, inputPaused, turn, consumed, finished>>

Strategies == {"dropLatest", "bufferDrop", "block", "batch"}
Live == finished = "no"

\* No microtask is left: only then the event loop turns to timers and ports.
SourceDue == ~sourcePaused /\ source # << >>
OutDue == ~outPaused /\ out # << >>
Quiet == Live => ~SourceDue /\ ~OutDue

\* rpcStream grants the first window right after the request.
BuffersInit ==
  /\ strategy \in Strategies
  /\ grants = [n \in 1 .. BufferSize |-> IF strategy = "block" /\ n = BufferSize
                                         THEN 1 ELSE 0]
  /\ source = << >> /\ sourcePaused = FALSE
  /\ pending = << >> /\ timer = FALSE
  /\ out = << >> /\ outPaused = FALSE /\ inputPaused = FALSE
  /\ turn = "source" /\ consumed = << >> /\ finished = "no"

Grant(n) == grants' = IF n = 0 THEN grants ELSE [grants EXCEPT ![n] = @ + 1]

\* _pump of the items held: to a controller that is not paused it moves them
\* all, and reports them; then it resumes a source that it had paused.
\* Variants: the source stays paused, and the pause of the controller is ignored.
PumpKeepsSourcePaused(held, paused, atSource, queue) ==
  /\ pending' = IF paused THEN held ELSE << >>
  /\ out' = IF paused THEN queue ELSE queue \o held
  /\ Grant(IF strategy = "block" /\ ~paused THEN Len(held) ELSE 0)
  /\ sourcePaused' = atSource

PumpIgnoresPause(held, paused, atSource, queue) ==
  /\ pending' = << >>
  /\ out' = queue \o held
  /\ Grant(IF strategy = "block" THEN Len(held) ELSE 0)
  /\ sourcePaused' = (atSource /\ strategy # "block")

Pump(held, paused, atSource, queue) ==
  /\ pending' = IF paused THEN held ELSE << >>
  /\ out' = IF paused THEN queue ELSE queue \o held
  /\ Grant(IF strategy = "block" /\ ~paused THEN Len(held) ELSE 0)
  /\ sourcePaused' = (atSource /\ ~(strategy = "block" /\ Len(pending') < BufferSize))

\* What _onData makes of _pending.  Variant: the ring drops the newest item.
HoldDropsNewest(item) ==
  CASE strategy = "dropLatest" -> << item >>
    [] strategy = "bufferDrop" /\ Len(pending) >= BufferSize -> pending
    [] OTHER -> Append(pending, item)

Hold(item) ==
  CASE strategy = "dropLatest" -> << item >>
    [] strategy = "bufferDrop" /\ Len(pending) >= BufferSize ->
         Append(Tail(pending), item)
    [] OTHER -> Append(pending, item)

\* _onData: a partial batch waits for the timer; block pauses a source that
\* filled the buffer.
OnData(item) ==
  LET held == Hold(item) IN
  IF strategy = "batch" /\ Len(held) < BatchMaxSize
  THEN /\ pending' = held /\ timer' = TRUE
       /\ UNCHANGED <<grants, out, sourcePaused>>
  ELSE /\ timer' = FALSE
       /\ Pump(held, inputPaused, strategy = "block" /\ Len(held) >= BufferSize, out)

\* Variant: what is pending is not delivered before Done.
OnDoneDropsPending ==
  /\ out' = Append(out, Done)
  /\ pending' = << >> /\ timer' = FALSE
  /\ UNCHANGED <<grants, sourcePaused>>

\* _onDone: whatever is pending, then the close, also while paused.
OnDone ==
  /\ out' = out \o pending \o << Done >>
  /\ pending' = << >> /\ timer' = FALSE
  /\ UNCHANGED <<grants, sourcePaused>>

\* onError: _controller.addError, past the items that are pending.
OnError ==
  /\ out' = Append(out, Error)
  /\ UNCHANGED <<pending, timer, grants, sourcePaused>>

\* One event of the source.  A microtask that is due again queues behind the
\* other one.
FromSource ==
  /\ Live /\ SourceDue /\ (OutDue => turn = "source")
  /\ turn' = "out"
  /\ source' = Tail(source)
  /\ CASE Head(source) = Done  -> OnDone
       [] Head(source) = Error -> OnError
       [] OTHER                -> OnData(Head(source))
  /\ UNCHANGED <<strategy, outPaused, inputPaused, consumed, finished>>

TimerFires ==
  /\ Live /\ Quiet /\ timer
  /\ timer' = FALSE
  /\ Pump(pending, inputPaused, sourcePaused, out)
  /\ UNCHANGED <<strategy, source, outPaused, inputPaused, turn, consumed, finished>>

\* The out subscription changes: paused by its listener or not, and with the
\* queue left.  When that ends isPaused, onResume pumps.
OutBecomes(paused, left) ==
  /\ turn' = IF SourceDue THEN "source" ELSE "out"
  /\ outPaused' = paused
  /\ inputPaused' = (paused \/ (inputPaused /\ left # << >>))
  /\ IF inputPaused /\ ~inputPaused'
     THEN Pump(pending, FALSE, sourcePaused, left)
     ELSE out' = left /\ UNCHANGED <<pending, grants, sourcePaused>>

\* One item for the loop, which may pause while its body runs.
Consume ==
  /\ Live /\ OutDue /\ (SourceDue => turn = "out") /\ Head(out) > 0
  /\ consumed' = Append(consumed, Head(out))
  /\ \E paused \in BOOLEAN : OutBecomes(paused, Tail(out))
  /\ UNCHANGED <<strategy, source, timer, finished>>

Resume ==
  /\ Live /\ outPaused
  /\ OutBecomes(FALSE, out)
  /\ UNCHANGED <<strategy, source, timer, consumed, finished>>

\* The end of the loop: Done, an error, or a cancellation by the application;
\* the last two run _onCancel.
End(how) ==
  /\ Live /\ finished' = how
  /\ timer' = FALSE
  /\ UNCHANGED <<strategy, source, sourcePaused, pending, grants, out, outPaused,
                 inputPaused, turn, consumed>>

EndOfStream ==
  /\ OutDue /\ (SourceDue => turn = "out") /\ Head(out) \in {Done, Error}
  /\ End(IF Head(out) = Done THEN "done" ELSE "error")

Cancel == End("cancelled")

\* The microtasks.
Microtask == FromSource \/ Consume \/ EndOfStream
=============================================================================
