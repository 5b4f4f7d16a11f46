----------------------------- MODULE SharedRing -----------------------------
(***************************************************************************)
(* One streaming response over the shared-memory transport of the web      *)
(* build: the Go worker publishes frames into a ring (web/shared.go) and   *)
(* signals each one on the stream's MessagePort; frames that are too large *)
(* or find the ring full travel as an envelope on the same port.  The Dart *)
(* page drains the ring on a signal (lib/bridge/shared_ring.dart) and      *)
(* parses what it drained (lib/bridge/bridge_web.dart).                    *)
(*                                                                         *)
(* The worker and the page are two threads.  The page handles one port     *)
(* message at a time, but the worker runs between any two of its accesses  *)
(* to the shared memory.  Frames are numbered in the order they are sent;  *)
(* a slot holds the number of the frame whose bytes are in it, not whole   *)
(* while the worker is copying.                                            *)
(***************************************************************************)
EXTENDS Integers, Sequences, SequencesExt

CONSTANTS
  Slots,      \* slots of the ring
  MaxFrames   \* bound: data frames of the stream, the Done frame not counted

ASSUME SharedRingAssumption ==
  /\ Slots \in Nat \ {0}
  /\ MaxFrames \in Nat

VARIABLES
  slot,        \* the shared payload memory
  used,        \* the shared counter of unread frames
  cursor,      \* sharedRing.cursor, owned by the worker
  worker,      \* progress of the worker in sharedRing.write
  next,        \* number of the next frame to send
  last,        \* number of the Done frame, 0 until it is sent
  inRing,      \* history: the frames that went through the ring
  queue,       \* messages of the port: 0 is a signal, n > 0 the envelope of n
  readCursor,  \* SharedRingReader._readCursor, owned by the page
  batch,       \* frames the running drain() has yet to read
  views,       \* views drain() returned that the page has yet to parse
  delivered,   \* frames handed to the stream's listener, 0 for a garbled one
  stream,      \* state of the StreamController and its port
  overlapped   \* history: a write began in a slot an unparsed view shows

ring   == <<slot, used>>
sender == <<cursor, worker, next, last, inRing>>
reader == <<readCursor, batch, views, delivered, stream>>
vars   == <<ring, sender, queue, reader, overlapped>>

SlotIds == 0 .. Slots - 1
FrameIds == 1 .. MaxFrames + 1
Signal == 0
Garbled == 0

TypeOK ==
  /\ slot \in [SlotIds -> [no : FrameIds \cup {0}, whole : BOOLEAN]]
  /\ used \in 0 .. Slots
  /\ cursor \in SlotIds
  /\ worker \in {"ready", "writing", "signalling"}
  /\ next \in 1 .. MaxFrames + 2
  /\ last \in FrameIds \cup {0}
  /\ inRing \in SUBSET FrameIds
  /\ queue \in Seq(FrameIds \cup {Signal})
  /\ readCursor \in SlotIds
  /\ batch \in 0 .. used
  /\ views \in Seq([slot : SlotIds, no : FrameIds])
  /\ delivered \in Seq(FrameIds \cup {Garbled})
  /\ stream \in {"open", "done", "cancelled"}
  /\ overlapped \in BOOLEAN

Init ==
  /\ slot = [s \in SlotIds |-> [no |-> 0, whole |-> TRUE]]
  /\ used = 0
  /\ cursor = 0
  /\ worker = "ready"
  /\ next = 1
  /\ last = 0
  /\ inRing = {}
  /\ queue = <<>>
  /\ readCursor = 0
  /\ batch = 0
  /\ views = <<>>
  /\ delivered = <<>>
  /\ stream = "open"
  /\ overlapped = FALSE

-----------------------------------------------------------------------------
(* The worker: sharedSink.send and sharedSink.done.                        *)

\* postMessage on a closed port is dropped.
Post(m) == queue' = IF stream = "open" THEN Append(queue, m) ELSE queue

\* ring.write until the counter is added to: the slot is being overwritten.
BeginWrite(n) ==
  /\ slot' = [slot EXCEPT ![cursor] = [no |-> n, whole |-> FALSE]]
  /\ overlapped' = (overlapped \/ \E i \in DOMAIN views : views[i].slot = cursor)
  /\ worker' = "writing"
  /\ inRing' = inRing \cup {n}
  /\ UNCHANGED queue

FallBack(n) ==
  /\ Post(n)
  /\ UNCHANGED <<slot, overlapped, worker, inRing>>

\* Variants that a check of this model must reject are defined next to the
\* operator they vary.  Here: the test for a full ring is off by one.
PublishableOffByOne(large) == ~large /\ used <= Slots

\* write returns false when the frame is too large or the ring is full.
Publishable(large) == ~large /\ used < Slots

\* Variant: frames are sent after Done.
SendFrameAfterDone(n, large) ==
  /\ worker = "ready"
  /\ next' = n + 1
  /\ IF Publishable(large) THEN BeginWrite(n) ELSE FallBack(n)
  /\ UNCHANGED <<used, cursor, reader>>

\* Done comes last: the worker sends it when the range over Call has ended.
SendFrame(n, large) ==
  /\ worker = "ready"
  /\ last = 0
  /\ next' = n + 1
  /\ IF Publishable(large) THEN BeginWrite(n) ELSE FallBack(n)
  /\ UNCHANGED <<used, cursor, reader>>

Send ==
  \E large \in BOOLEAN :
    /\ next <= MaxFrames
    /\ SendFrame(next, large)
    /\ UNCHANGED last

\* Variant: Done is not sent as an envelope when the ring is full.
SendDoneOnlyInRing ==
  /\ worker = "ready"
  /\ last = 0
  /\ next' = next + 1
  /\ last' = next
  /\ IF used < Slots
     THEN BeginWrite(next)
     ELSE UNCHANGED <<slot, overlapped, worker, inRing, queue>>
  /\ UNCHANGED <<used, cursor, reader>>

\* The Done frame always fits in a slot.
SendDone ==
  /\ SendFrame(next, FALSE)
  /\ last' = next

\* The copy is complete, Atomics.add publishes it, the cursor moves on.
Publish ==
  /\ worker = "writing"
  /\ slot' = [slot EXCEPT ![cursor].whole = TRUE]
  /\ used' = used + 1
  /\ cursor' = (cursor + 1) % Slots
  /\ worker' = "signalling"
  /\ UNCHANGED <<next, last, inRing, queue, reader, overlapped>>

\* Variant: only a frame that finds the ring empty is signalled.
PostSignalWhenEmpty ==
  /\ worker = "signalling"
  /\ IF used = 1 THEN Post(Signal) ELSE UNCHANGED queue
  /\ worker' = "ready"
  /\ UNCHANGED <<ring, cursor, next, last, inRing, reader, overlapped>>

PostSignal ==
  /\ worker = "signalling"
  /\ Post(Signal)
  /\ worker' = "ready"
  /\ UNCHANGED <<ring, cursor, next, last, inRing, reader, overlapped>>

-----------------------------------------------------------------------------
(* The page: port1.onmessage, SharedRingReader.drain and handle.           *)

Idle == stream = "open" /\ batch = 0 /\ views = <<>>

\* handle(resp): Done closes the ports and the controller, and whatever the
\* loop or the port still holds is dropped.
Handle(n) ==
  IF n = last /\ n # Garbled
  THEN stream' = "done" /\ UNCHANGED delivered
  ELSE delivered' = Append(delivered, n) /\ UNCHANGED stream

OnEnvelope ==
  /\ Idle
  /\ queue # <<>> /\ Head(queue) # Signal
  /\ Handle(Head(queue))
  /\ queue' = IF stream' = "open" THEN Tail(queue) ELSE <<>>
  /\ UNCHANGED <<ring, sender, readCursor, batch, views, overlapped>>

\* drain() loads the counter once and reads that many frames.
OnSignal ==
  /\ Idle
  /\ queue # <<>> /\ Head(queue) = Signal
  /\ queue' = Tail(queue)
  /\ batch' = used
  /\ UNCHANGED <<ring, sender, readCursor, views, delivered, stream,
                 overlapped>>

\* Variant: the frames of a batch are collected in reverse.
ReadSlotReversed ==
  /\ batch > 0
  /\ views' = <<[slot |-> readCursor, no |-> slot[readCursor].no]>> \o views
  /\ readCursor' = (readCursor + 1) % Slots
  /\ used' = used - 1
  /\ batch' = batch - 1
  /\ UNCHANGED <<slot, sender, queue, delivered, stream, overlapped>>

\* readBytes returns a view of the shared memory, and consume() gives the
\* slot back to the worker.
ReadSlot ==
  /\ batch > 0
  /\ views' = Append(views, [slot |-> readCursor, no |-> slot[readCursor].no])
  /\ readCursor' = (readCursor + 1) % Slots
  /\ used' = used - 1
  /\ batch' = batch - 1
  /\ UNCHANGED <<slot, sender, queue, delivered, stream, overlapped>>

Intact(v) == slot[v.slot] = [no |-> v.no, whole |-> TRUE]

\* Response.fromBuffer reads the slot as it is now.  Bytes of another frame,
\* or of a copy in progress, read as that frame, as some other message, or
\* fail to parse.
ParseView ==
  /\ batch = 0 /\ views # <<>>
  /\ LET v == Head(views) IN
       \E n \in IF Intact(v) THEN {v.no} ELSE {slot[v.slot].no, Garbled} :
         /\ Handle(n)
         /\ queue' = IF stream' = "open" THEN queue ELSE <<>>
         /\ views' = IF stream' = "open" THEN Tail(views) ELSE <<>>
  /\ UNCHANGED <<ring, sender, readCursor, batch, overlapped>>

\* The exception leaves onmessage: the rest of the batch is lost.
ParseFails ==
  /\ batch = 0 /\ views # <<>>
  /\ ~Intact(Head(views))
  /\ views' = <<>>
  /\ UNCHANGED <<ring, sender, queue, readCursor, batch, delivered, stream,
                 overlapped>>

\* controller.onCancel closes the ports at once.
CancelStream ==
  /\ Idle
  /\ stream' = "cancelled"
  /\ queue' = <<>>
  /\ UNCHANGED <<ring, sender, readCursor, batch, views, delivered, overlapped>>

Worker == Send \/ SendDone \/ Publish \/ PostSignal
Page == OnEnvelope \/ OnSignal \/ ReadSlot \/ ParseView \/ ParseFails

Next == Worker \/ Page \/ CancelStream

Spec == Init /\ [][Next]_vars

\* The worker finishes a write it began and the page's event loop runs; the
\* handler need not send anything, nor end.
FairSpec == Spec /\ WF_vars(Publish) /\ WF_vars(PostSignal) /\ WF_vars(Page)

-----------------------------------------------------------------------------
(* Safety.                                                                 *)

\* The k-th unread slot, the oldest first.
UnreadSlot(k) == (readCursor + k) % Slots

\* The worker never overwrites a frame that the page has not consumed: unread
\* slots are whole, hold frames in the order they were sent, and none is the
\* slot being written, although the worker tests the counter, writes and adds
\* in three steps and each side owns its cursor.
UnreadProtected ==
  /\ \A k \in 0 .. used - 1 :
       /\ slot[UnreadSlot(k)].whole
       /\ slot[UnreadSlot(k)].no \in inRing
       /\ k > 0 => slot[UnreadSlot(k - 1)].no < slot[UnreadSlot(k)].no
       /\ worker = "writing" => UnreadSlot(k) # cursor
  /\ cursor = UnreadSlot(used)

\* Frames are numbered in the order they are sent, and none follows Done.
FramesNumbered ==
  /\ inRing \subseteq 1 .. next - 1
  /\ last = 0 => next <= MaxFrames + 1

\* The frame being written is the latest one and has a slot of its own.
LatestInSlot ==
  worker = "writing" =>
    /\ used < Slots
    /\ slot[cursor].no = next - 1
    /\ next - 1 \in inRing
    /\ \A k \in 0 .. used - 1 : slot[UnreadSlot(k)].no < next - 1

\* What protects the ring, whatever happens on the port.
RingInv ==
  /\ TypeOK
  /\ UnreadProtected
  /\ FramesNumbered
  /\ LatestInSlot

\* Unless a slot is overwritten under a view, the listener gets sent frames,
\* each once, and only a frame that fell back to the envelope is overtaken,
\* and only by a frame of the ring.
OnlyFallbacksOvertaken ==
  ~overlapped =>
    \A i, j \in DOMAIN delivered : i < j =>
      \/ delivered[i] < delivered[j]
      \/ /\ delivered[i] > delivered[j]
         /\ delivered[i] \in inRing
         /\ delivered[j] \notin inRing

\* Unless a slot is overwritten under a view, a stream that ended with Done
\* has delivered every frame of the ring, and every frame when Done itself
\* travelled as an envelope.
LossOnlyOfFallbacks ==
  stream = "done" /\ ~overlapped =>
    /\ inRing \ {last} \subseteq ToSet(delivered)
    /\ last \notin inRing => 1 .. last - 1 \subseteq ToSet(delivered)

\* The frames in the ring behind the first b, and those drain() has returned.
Frame(k) == slot[UnreadSlot(k)].no
Unread(b) == {Frame(k) : k \in b .. used - 1}
Shown(vs) == {vs[i].no : i \in 1 .. Len(vs)}

\* Frames from this number on are on no way yet.
Fresh == IF worker = "writing" THEN next - 1 ELSE next

\* A stream that is closed has nothing left to hand out, and one that ended has
\* had its Done, which is the latest frame.
ClosedIsEmpty ==
  /\ stream # "open" => batch = 0 /\ views = << >> /\ queue = << >>
  /\ stream = "done" => last # 0
  /\ last # 0 => last = next - 1

\* The ring is read in the order it was written, and what was delivered is older
\* than what the ring still holds.
ViewsAscend(vs) == \A i, j \in 1 .. Len(vs) : i < j => vs[i].no < vs[j].no

RingInOrder ==
  /\ \A j, k \in 0 .. used - 1 : j < k => Frame(j) < Frame(k)
  /\ ViewsAscend(views) /\ Shown(views) \subseteq inRing
  /\ \A m \in Shown(views) : \A n \in Unread(0) : m < n
  /\ \A d \in ToSet(delivered) : \A n \in Shown(views) \cup Unread(0) : d < n

\* Envelopes travel in order.
EnvelopesAscend(q) ==
  \A i, j \in 1 .. Len(q) :
    i < j /\ q[i] # Signal /\ q[j] # Signal => q[i] < q[j]

EnvelopesInOrder ==
  /\ EnvelopesAscend(queue)
  /\ ToSet(queue) \cap inRing = {}
  /\ \A d \in ToSet(delivered) \ inRing : \A n \in ToSet(queue) \ {Signal} : d < n
  /\ \A n \in ToSet(delivered) \cup ToSet(queue) \cup Shown(views) : n < Fresh

\* The signal of a frame in the ring, or of one before it, is on the port ahead
\* of every later envelope, or about to be posted.
SignalBefore(q, n) ==
  \A i \in 1 .. Len(q) : q[i] > n => \E j \in 1 .. i - 1 : q[j] = Signal

Signalled ==
  stream = "open" =>
    \A n \in Unread(batch) :
      /\ SignalBefore(queue, n)
      /\ Signal \in ToSet(queue) \/ (worker = "signalling" /\ n = next - 1)

\* Every frame sent is somewhere until the stream closes.
NothingLost ==
  stream = "open" =>
    1 .. Fresh - 1 \subseteq ToSet(delivered) \cup ToSet(queue) \cup Shown(views) \cup Unread(0)

\* What holds of the frames on their way unless a slot is overwritten under a
\* view.
InOrder ==
  /\ \A i \in 1 .. Len(views) : Intact(views[i])
  /\ RingInOrder /\ EnvelopesInOrder /\ Signalled /\ NothingLost

\* The inductive invariant behind the types and the three properties above.
IInv ==
  /\ RingInv /\ ClosedIsEmpty
  /\ ~overlapped => InOrder
  /\ OnlyFallbacksOvertaken /\ LossOnlyOfFallbacks

\* What web/shared.go says of the mixed framing: the consumer never observes
\* reordering.
NoReordering ==
  ~overlapped =>
    \A i, j \in DOMAIN delivered : i < j => delivered[i] < delivered[j]

\* What shared_ring.dart says of readBytes: the bytes are copied, so what the
\* listener gets was sent, whatever happens to the slot afterwards.
ReadsAreCopies == Garbled \notin ToSet(delivered)

-----------------------------------------------------------------------------
(* Liveness.                                                               *)

\* Every published frame leaves the ring, or the stream has ended.
RingDrains == used > 0 ~> used = 0 \/ stream # "open"

\* A stream whose Done was sent ends, unless a slot was overwritten.
StreamEnds == last # 0 ~> stream # "open" \/ overlapped
=============================================================================
