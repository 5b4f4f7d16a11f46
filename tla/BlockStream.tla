---------------------------- MODULE BlockStream ----------------------------
(***************************************************************************)
(* A server stream from the Go handler to the application under a          *)
(* backpressure policy: the handler, its flow gate (as CreditWindow        *)
(* promises it), the port, the controller of rpcStream, the transformer    *)
(* (Backpressure), and the grants that come back.  Each grant is a request *)
(* of its own and runs in its own goroutine, so grants overtake each other *)
(* and the items.  The first one is sent after the stream request: items   *)
(* the handler sends before it arrives are outside the window.             *)
(***************************************************************************)
EXTENDS Backpressure, FiniteSetsExt, SequencesExt

CONSTANT MaxItems   \* bound: items of the stream

ASSUME BlockStreamAssumption == MaxItems \in Nat

VARIABLES
  produced,  \* items the handler has sent
  handler,   \* running, returned, or died with its worker
  limited,   \* the gate has got a grant
  received,  \* credits it has got
  used,      \* credits it has used
  free,      \* history: items it let pass before the first grant
  wire       \* messages on the port of the stream

gate == <<limited, received, used, free>>
vars == <<buffers, produced, handler, gate, wire>>

Events == {Error, Done} \cup (1 .. MaxItems)

TypeOK ==
  /\ strategy \in Strategies
  /\ source \in Seq(Events) /\ out \in Seq(Events) /\ wire \in Seq(Events)
  /\ pending \in Seq(1 .. MaxItems) /\ consumed \in Seq(1 .. MaxItems)
  /\ grants \in [1 .. BufferSize -> Nat]
  /\ {sourcePaused, timer, outPaused, inputPaused, limited} \subseteq BOOLEAN
  /\ turn \in {"source", "out"}
  /\ finished \in {"no", "done", "error", "cancelled"}
  /\ produced \in 0 .. MaxItems
  /\ handler \in {"running", "returned", "died"}
  /\ received \in Nat /\ used \in 0 .. received /\ free \in 0 .. MaxItems

Init ==
  /\ BuffersInit
  /\ produced = 0 /\ handler = "running"
  /\ limited = FALSE /\ received = 0 /\ used = 0 /\ free = 0
  /\ wire = << >>

Window == INSTANCE CreditWindow

\* The handler acquires a credit and sends an item.
Produce ==
  /\ handler = "running" /\ produced < MaxItems
  /\ Window!Pass \/ Window!Use
  /\ produced' = produced + 1
  /\ wire' = Append(wire, produced + 1)
  /\ UNCHANGED <<buffers, handler>>

\* It returns after its last item, or at once when the client cancelled.
Return ==
  /\ handler = "running"
  /\ produced = MaxItems \/ finished \in {"error", "cancelled"}
  /\ handler' = "returned"
  /\ wire' = Append(wire, Done)
  /\ UNCHANGED <<buffers, produced, gate>>

GrantArrives(n) ==
  /\ grants[n] > 0
  /\ grants' = [grants EXCEPT ![n] = @ - 1]
  /\ received' = received + n /\ Window!Grant
  /\ UNCHANGED <<strategy, source, sourcePaused, pending, timer, out, outPaused,
                 inputPaused, turn, consumed, finished, produced, handler, wire>>

\* The listener of the port adds to the controller, paused or not: one
\* message on native, what a signal drains from the ring on the web.
Arrive ==
  /\ Quiet
  /\ \E n \in 1 .. Len(wire) :
       /\ wire' = SubSeq(wire, n + 1, Len(wire))
       /\ source' = source \o SubSeq(wire, 1, n)
  /\ UNCHANGED <<strategy, sourcePaused, pending, timer, grants, out, outPaused,
                 inputPaused, turn, consumed, finished, produced, handler, gate>>

\* The web worker dies: _markFatal fails the streams that have not got Done
\* and closes them; what is still on the port comes too late.
WorkerDies ==
  /\ Quiet /\ handler # "died" /\ (handler = "returned" => wire # << >>)
  /\ handler' = "died" /\ wire' = << >>
  /\ source' = source \o << Error, Done >>
  /\ grants' = [n \in 1 .. BufferSize |-> 0]
  /\ UNCHANGED <<strategy, sourcePaused, pending, timer, out, outPaused,
                 inputPaused, turn, consumed, finished, produced, gate>>

Deliver == (Microtask \/ TimerFires) /\ UNCHANGED <<produced, handler, gate, wire>>
TakeMore == Resume /\ UNCHANGED <<produced, handler, gate, wire>>

Next ==
  \/ Produce \/ Return \/ Arrive \/ WorkerDies \/ Deliver \/ TakeMore
  \/ \E n \in 1 .. BufferSize : GrantArrives(n)
  \/ Cancel /\ UNCHANGED <<produced, handler, gate, wire>>

Spec == Init /\ [][Next]_vars

\* A cooperative handler sends when it may, messages and grants arrive, the
\* event loop turns, and the application comes back for the next item.
FairSpec ==
  /\ Spec
  /\ WF_vars(Produce \/ Return) /\ WF_vars(Arrive)
  /\ WF_vars(Deliver) /\ WF_vars(TakeMore)
  /\ \A n \in 1 .. BufferSize : WF_vars(GrantArrives(n))

-----------------------------------------------------------------------------
\* Everything the stream holds, oldest first, and what the application has yet
\* to get.
Flight == out \o pending \o source \o wire
Line == consumed \o Flight
IsItem(e) == e > 0
Items(s) == {e \in ToSet(s) : IsItem(e)}

\* Items in the order of their numbers, and nothing behind Done.
Precedes(e, f) == e # Done /\ (IsItem(e) /\ IsItem(f) => e < f)
InOrder(s) == \A i, j \in 1 .. Len(s) : i < j => Precedes(s[i], s[j])

\* Neither pauses, nor batches, nor an Error that overtakes what is pending
\* reorder or repeat items; block and batch lose none, and the strategies that
\* drop keep the latest.
StreamIntact ==
  /\ InOrder(Line)
  /\ \A e \in ToSet(Line) : e <= produced
  /\ handler # "died" /\ produced > 0 => produced \in ToSet(Line)
  /\ handler # "died" /\ strategy \in {"block", "batch"} => Items(Line) = 1 .. produced

\* The loop that ends with Done has had every item that was not dropped, and
\* the latest in any case.
DoneAfterItems ==
  finished = "done" /\ produced = MaxItems /\ MaxItems > 0 =>
    /\ consumed[Len(consumed)] = MaxItems
    /\ strategy \in {"block", "batch"} => Len(consumed) = MaxItems

\* block bounds what the client holds, wherever it is.
ClientBounded ==
  strategy = "block" => Cardinality(Items(Flight)) <= free + 2 * BufferSize

-----------------------------------------------------------------------------
(* The inductive invariant behind these properties.                        *)

\* Done is on the line once the handler ended, Error once its worker died, and
\* a loop that ended with Done has stopped in front of it.
EndsMarked ==
  /\ handler = "running" <=> Done \notin ToSet(Line)
  /\ handler = "died" <=> Error \in ToSet(Line)
  /\ finished = "done" => out # << >> /\ Head(out) = Done

\* What block and batch hand out starts at 1 and has no gap; death cuts the end
\* off.
NoGap ==
  strategy \in {"block", "batch"} =>
    /\ \A i \in 1 .. Len(consumed) : consumed[i] = i
    /\ \E m \in Len(consumed) .. produced :
         /\ Items(Flight) = Len(consumed) + 1 .. m
         /\ handler # "died" => m = produced

\* block holds items only while out is paused, and pauses the source exactly
\* when it holds BufferSize of them.
HeldWhilePaused ==
  /\ outPaused => inputPaused
  /\ strategy = "block" =>
       /\ Len(pending) <= BufferSize
       /\ sourcePaused <=> Len(pending) = BufferSize
       /\ ~inputPaused => pending = << >>

\* A window is handed out at a time, and the next item of the source only when
\* the loop has taken one.
OutBounded ==
  strategy = "block" /\ handler = "running" =>
    /\ Len(out) <= BufferSize
    /\ turn = "source" /\ ~inputPaused => Len(out) < BufferSize

\* Every credit beyond the first window stands for an item handed out.
Weights == [n \in 1 .. BufferSize |-> n * grants[n]]
UnderWay == MapThenSumSet(LAMBDA n : Weights[n], 1 .. BufferSize)

CreditAccount ==
  /\ produced = free + used
  /\ strategy = "block" /\ handler = "running" =>
       received + UnderWay = BufferSize + Len(consumed) + Len(out)
  /\ strategy = "block" => produced <= Len(consumed) + free + 2 * BufferSize

\* The whole path between handler and application: the stream is intact, its
\* ends are marked, nothing is held that is not paused, and no credit is lost or
\* granted twice.
IInv ==
  /\ TypeOK /\ StreamIntact /\ EndsMarked /\ NoGap
  /\ HeldWhilePaused /\ OutBounded /\ CreditAccount

\* Whoever waits for whom, the stream comes to its end: a paused source, an
\* empty window and a held batch never wait for each other.
StreamTerminates == <>(finished # "no")
=============================================================================
