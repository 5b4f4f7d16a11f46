-------------------------- MODULE SharedRingProofs --------------------------
(***************************************************************************)
(* The safety of the shared-memory ring for any number of slots and any    *)
(* length of the stream.  First the ring itself, whatever happens on the   *)
(* port: types, and no overwriting of unread frames (RingInv).  Then, as   *)
(* long as no slot is overwritten under a view, the order in which ring    *)
(* and port together hand frames to the listener (IInv).                   *)
(***************************************************************************)
EXTENDS SharedRing, TLAPS

USE SharedRingAssumption

-----------------------------------------------------------------------------
(* Positions of the ring.                                                  *)

\* The writer is at most one lap ahead of the reader, so a position wraps at
\* most once and the remainder is linear.
LEMMA SameLap == ASSUME NEW i \in 0 .. Slots - 1 PROVE i % Slots = i
OBVIOUS

LEMMA NextLap ==
  ASSUME NEW i \in Slots .. 2 * Slots - 1 PROVE i % Slots = i - Slots
OBVIOUS

LEMMA Wraps ==
  ASSUME NEW r \in SlotIds, NEW k \in 0 .. Slots
  PROVE  (r + k) % Slots = IF r + k < Slots THEN r + k ELSE (r + k) - Slots
<1>1. CASE r + k < Slots
  <2> DEFINE i == r + k
  <2>1. i \in 0 .. Slots - 1
    BY <1>1 DEF SlotIds
  <2> HIDE DEF i
  <2>2. i % Slots = i
    BY <2>1, SameLap
  <2>3. QED
    BY <1>1, <2>2, Zenon DEF i
<1>2. CASE ~(r + k < Slots)
  <2> DEFINE i == r + k
  <2>1. i \in Slots .. 2 * Slots - 1
    BY <1>2 DEF SlotIds
  <2> HIDE DEF i
  <2>2. i % Slots = i - Slots
    BY <2>1, NextLap
  <2>3. QED
    BY <1>2, <2>2, Zenon DEF i
<1>3. QED
  BY <1>1, <1>2

LEMMA PositionType ==
  ASSUME NEW r \in SlotIds, NEW k \in 0 .. Slots
  PROVE  (r + k) % Slots \in SlotIds
BY Wraps DEF SlotIds

LEMMA PositionZero == ASSUME NEW r \in SlotIds PROVE (r + 0) % Slots = r
<1> DEFINE i == r + 0
<1>1. i = r /\ i \in 0 .. Slots - 1
  BY DEF SlotIds
<1> HIDE DEF i
<1>2. i % Slots = i
  BY <1>1, SameLap
<1>3. i % Slots = r
  BY <1>1, <1>2
<1>4. QED
  BY <1>3, Zenon DEF i

\* Different distances below one lap are different slots.
LEMMA PositionsDiffer ==
  ASSUME NEW r \in SlotIds, NEW k \in 0 .. Slots - 1, NEW m \in 0 .. Slots - 1,
         k # m
  PROVE  (r + k) % Slots # (r + m) % Slots
<1> DEFINE a == (r + k) % Slots
           b == (r + m) % Slots
<1>1. /\ a = IF r + k < Slots THEN r + k ELSE (r + k) - Slots
      /\ b = IF r + m < Slots THEN r + m ELSE (r + m) - Slots
  <2>1. k \in 0 .. Slots /\ m \in 0 .. Slots
    OBVIOUS
  <2>2. QED
    BY <2>1, Wraps
<1> HIDE DEF a, b
<1>2. a # b
  BY <1>1 DEF SlotIds
<1>3. QED
  BY <1>2 DEF a, b

\* Moving the base by one slot moves every position by one.
LEMMA PositionShifts ==
  ASSUME NEW r \in SlotIds, NEW k \in 0 .. Slots - 1
  PROVE  /\ (((r + 1) % Slots) + k) % Slots = (r + (k + 1)) % Slots
         /\ (((r + k) % Slots) + 1) % Slots = (r + (k + 1)) % Slots
<1>1. 1 \in 0 .. Slots /\ k + 1 \in 0 .. Slots /\ k \in 0 .. Slots
  BY DEF SlotIds
<1> DEFINE a == (r + 1) % Slots
           b == (r + k) % Slots
<1>2. a \in SlotIds /\ b \in SlotIds
  BY <1>1, PositionType
<1>3. /\ a = IF r + 1 < Slots THEN r + 1 ELSE (r + 1) - Slots
      /\ b = IF r + k < Slots THEN r + k ELSE (r + k) - Slots
  BY <1>1, Wraps
<1> HIDE DEF a, b
<1>4. /\ (a + k) % Slots = IF a + k < Slots THEN a + k ELSE (a + k) - Slots
      /\ (b + 1) % Slots = IF b + 1 < Slots THEN b + 1 ELSE (b + 1) - Slots
  BY <1>1, <1>2, Wraps
<1>5. (r + (k + 1)) % Slots
        = IF r + (k + 1) < Slots THEN r + (k + 1) ELSE (r + (k + 1)) - Slots
  BY <1>1, Wraps
<1>6. r \in Nat /\ r < Slots
  BY DEF SlotIds
<1>7. (a + k) % Slots = (r + (k + 1)) % Slots
  BY <1>3, <1>4, <1>5, <1>6
<1>8. (b + 1) % Slots = (r + (k + 1)) % Slots
  BY <1>3, <1>4, <1>5, <1>6
<1>9. QED
  BY <1>7, <1>8 DEF a, b

-----------------------------------------------------------------------------
(* Initial states and types.                                               *)

LEMMA InitInv == Init => RingInv
<1> SUFFICES ASSUME Init PROVE RingInv
  OBVIOUS
<1>1. 0 \in SlotIds /\ UnreadSlot(0) = 0
  BY Wraps DEF Init, SlotIds, UnreadSlot
<1>2. TypeOK
  BY <1>1 DEF Init, TypeOK, FrameIds
<1>3. UnreadProtected
  BY <1>1 DEF Init, UnreadProtected
<1>4. FramesNumbered /\ LatestInSlot
  BY DEF Init, FramesNumbered, LatestInSlot
<1>5. QED
  BY <1>2, <1>3, <1>4 DEF RingInv

\* The oldest unread frame is a frame of the stream.
LEMMA OldestIsFrame ==
  ASSUME RingInv, batch > 0
  PROVE  slot[readCursor].no \in FrameIds
<1>1. 0 \in 0 .. used - 1
  BY DEF RingInv, TypeOK
<1>2. UnreadSlot(0) = readCursor
  <2>1. readCursor \in SlotIds
    BY DEF RingInv, TypeOK
  <2>2. QED
    BY <2>1, PositionZero, Zenon DEF UnreadSlot
<1>3. slot[readCursor].no \in inRing
  BY <1>1, <1>2 DEF RingInv, UnreadProtected
<1>4. QED
  BY <1>3 DEF RingInv, TypeOK

LEMMA HandleType ==
  ASSUME TypeOK, NEW n \in FrameIds \cup {Garbled}, Handle(n)
  PROVE  /\ delivered' \in Seq(FrameIds \cup {Garbled})
         /\ stream' \in {"open", "done", "cancelled"}
<1>1. CASE n = last /\ n # Garbled
  BY <1>1 DEF TypeOK, Handle
<1>2. CASE ~(n = last /\ n # Garbled)
  <2>1. delivered' = Append(delivered, n) /\ stream' = stream
    BY <1>2 DEF Handle
  <2>2. QED
    BY <2>1 DEF TypeOK
<1>3. QED
  BY <1>1, <1>2

LEMMA PostType ==
  ASSUME TypeOK, NEW m \in FrameIds \cup {Signal}, Post(m)
  PROVE  queue' \in Seq(FrameIds \cup {Signal})
BY DEF TypeOK, Post

LEMMA SendType ==
  ASSUME RingInv, NEW n, n = next, n \in FrameIds, NEW large \in BOOLEAN,
         SendFrame(n, large), last' \in FrameIds \cup {0}
  PROVE  TypeOK'
<1>1. next' \in 1 .. MaxFrames + 2
  BY DEF SendFrame, FrameIds
<1>2. CASE Publishable(large)
  <2>1. slot' \in [SlotIds -> [no : FrameIds \cup {0}, whole : BOOLEAN]]
    <3> DEFINE frame == [no |-> n, whole |-> FALSE]
    <3>1. frame \in [no : FrameIds \cup {0}, whole : BOOLEAN]
      OBVIOUS
    <3>2. slot' = [slot EXCEPT ![cursor] = frame]
      BY <1>2 DEF SendFrame, BeginWrite
    <3> HIDE DEF frame
    <3>3. QED
      BY <3>1, <3>2 DEF RingInv, TypeOK
  <2>2. overlapped' \in BOOLEAN
    BY <1>2 DEF SendFrame, BeginWrite, RingInv, TypeOK
  <2>3. QED
    BY <1>1, <1>2, <2>1, <2>2
       DEF SendFrame, BeginWrite, RingInv, TypeOK, reader
<1>3. CASE ~Publishable(large)
  <2>1. queue' \in Seq(FrameIds \cup {Signal})
    BY <1>3, PostType DEF SendFrame, FallBack, RingInv
  <2>2. QED
    BY <1>1, <1>3, <2>1 DEF SendFrame, FallBack, RingInv, TypeOK, reader
<1>4. QED
  BY <1>2, <1>3

LEMMA TypeStep == RingInv /\ [Next]_vars => TypeOK'
<1> SUFFICES ASSUME RingInv, [Next]_vars PROVE TypeOK'
  OBVIOUS
<1> USE DEF ring, sender, reader
<1>1. ASSUME Send PROVE TypeOK'
  <2>1. next \in FrameIds
    BY <1>1 DEF Send, RingInv, TypeOK, FrameIds
  <2>2. last \in FrameIds \cup {0}
    BY DEF RingInv, TypeOK
  <2>3. QED
    BY <1>1, <2>1, <2>2, SendType DEF Send
<1>2. ASSUME SendDone PROVE TypeOK'
  <2>1. next \in FrameIds
    BY <1>2 DEF SendDone, SendFrame, RingInv, TypeOK, FramesNumbered, FrameIds
  <2>2. QED
    BY <1>2, <2>1, SendType DEF SendDone
<1>3. ASSUME Publish PROVE TypeOK'
  <2>1. cursor' \in SlotIds
    <3>1. 1 \in 0 .. Slots
      OBVIOUS
    <3>2. QED
      BY <1>3, <3>1, PositionType DEF Publish, RingInv, TypeOK
  <2>2. used' \in 0 .. Slots /\ batch' \in 0 .. used'
    BY <1>3 DEF Publish, RingInv, TypeOK, LatestInSlot
  <2>3. slot' \in [SlotIds -> [no : FrameIds \cup {0}, whole : BOOLEAN]]
    BY <1>3 DEF Publish, RingInv, TypeOK
  <2>4. QED
    BY <1>3, <2>1, <2>2, <2>3 DEF Publish, RingInv, TypeOK
<1>4. ASSUME PostSignal PROVE TypeOK'
  BY <1>4 DEF PostSignal, Post, RingInv, TypeOK
<1>5. ASSUME OnEnvelope PROVE TypeOK'
  <2>1. Head(queue) \in FrameIds
    BY <1>5 DEF OnEnvelope, RingInv, TypeOK
  <2>2. queue' \in Seq(FrameIds \cup {Signal})
    BY <1>5 DEF OnEnvelope, RingInv, TypeOK
  <2>3. QED
    BY <1>5, <2>1, <2>2, HandleType DEF OnEnvelope, RingInv, TypeOK
<1>6. ASSUME OnSignal PROVE TypeOK'
  BY <1>6 DEF OnSignal, RingInv, TypeOK
<1>7. ASSUME ReadSlot PROVE TypeOK'
  <2>1. readCursor' \in SlotIds
    BY <1>7, PositionType DEF ReadSlot, RingInv, TypeOK
  <2>2. views' \in Seq([slot : SlotIds, no : FrameIds])
    BY <1>7, OldestIsFrame DEF ReadSlot, RingInv, TypeOK
  <2>3. QED
    BY <1>7, <2>1, <2>2 DEF ReadSlot, RingInv, TypeOK
<1>8. ASSUME ParseView PROVE TypeOK'
  <2>1. PICK n \in FrameIds \cup {Garbled} : Handle(n)
    <3> DEFINE View == [slot : SlotIds, no : FrameIds]
    <3>1. views \in Seq(View) /\ views # <<>>
      BY <1>8 DEF ParseView, RingInv, TypeOK
    <3> HIDE DEF View
    <3>2. Head(views) \in View
      BY <3>1
    <3> DEFINE v == Head(views)
    <3>3. v.no \in FrameIds /\ v.slot \in SlotIds
      BY <3>2 DEF View
    <3>4. slot[v.slot].no \in FrameIds \cup {Garbled}
      BY <3>3 DEF RingInv, TypeOK, Garbled
    <3>5. PICK n \in {v.no, slot[v.slot].no, Garbled} : Handle(n)
      BY <1>8 DEF ParseView
    <3>6. QED
      BY <3>3, <3>4, <3>5
  <2>2. QED
    BY <1>8, <2>1, HandleType DEF ParseView, RingInv, TypeOK
<1>9. ASSUME ParseFails \/ CancelStream \/ UNCHANGED vars PROVE TypeOK'
  <2>1. CASE ParseFails
    BY <2>1 DEF ParseFails, RingInv, TypeOK
  <2>2. CASE CancelStream
    BY <2>2 DEF CancelStream, RingInv, TypeOK
  <2>3. CASE UNCHANGED vars
    BY <2>3 DEF vars, RingInv, TypeOK
  <2>4. QED
    BY <1>9, <2>1, <2>2, <2>3
<1>10. QED
  BY <1>1, <1>2, <1>3, <1>4, <1>5, <1>6, <1>7, <1>8, <1>9
     DEF Next, Worker, Page

-----------------------------------------------------------------------------
(* Unread frames are protected.                                            *)

LEMMA NumberedStep == RingInv /\ [Next]_vars => FramesNumbered'
<1> SUFFICES ASSUME RingInv, [Next]_vars PROVE FramesNumbered'
  OBVIOUS
<1>0. /\ next \in 1 .. MaxFrames + 2
      /\ inRing \subseteq 1 .. next - 1
      /\ last = 0 => next <= MaxFrames + 1
  BY DEF RingInv, TypeOK, FramesNumbered
<1>1. ASSUME NEW n, n = next, NEW large \in BOOLEAN, SendFrame(n, large)
      PROVE  inRing' \subseteq 1 .. next' - 1
  <2>1. inRing' \subseteq inRing \cup {n} /\ next' = n + 1
    BY <1>1 DEF SendFrame, BeginWrite, FallBack
  <2>2. QED
    BY <1>0, <1>1, <2>1
<1>2. ASSUME Send PROVE FramesNumbered'
  <2>1. next <= MaxFrames /\ next' = next + 1
    BY <1>2 DEF Send, SendFrame
  <2>2. QED
    BY <1>0, <1>1, <1>2, <2>1 DEF Send, FramesNumbered
<1>3. ASSUME SendDone PROVE FramesNumbered'
  <2>1. last' = next
    BY <1>3 DEF SendDone
  <2>2. inRing' \subseteq 1 .. next' - 1
    BY <1>1, <1>3 DEF SendDone
  <2>3. QED
    BY <1>0, <2>1, <2>2 DEF FramesNumbered
<1>4. ASSUME \/ Publish \/ PostSignal \/ Page \/ CancelStream
             \/ UNCHANGED vars
      PROVE  FramesNumbered'
  <2>1. UNCHANGED <<inRing, next, last>>
    BY <1>4 DEF Publish, PostSignal, Page, OnEnvelope, OnSignal, ReadSlot,
                ParseView, ParseFails, CancelStream, sender, vars
  <2>2. QED
    BY <1>0, <2>1 DEF FramesNumbered
<1>5. QED
  BY <1>2, <1>3, <1>4 DEF Next, Worker

\* A step that leaves the ring and its cursors alone protects what it finds.
LEMMA RingUnchanged ==
  ASSUME RingInv, UNCHANGED <<slot, used, cursor, readCursor, inRing, next>>,
         worker' = worker \/ worker' = "ready"
  PROVE  UnreadProtected' /\ LatestInSlot'
BY DEF RingInv, UnreadProtected, LatestInSlot, UnreadSlot

\* The slot at the cursor is none of the unread ones while the ring has room.
LEMMA CursorFree ==
  ASSUME RingInv, used < Slots, NEW k \in 0 .. used - 1
  PROVE  UnreadSlot(k) # cursor
<1>1. readCursor \in SlotIds /\ used \in 0 .. Slots - 1
  BY DEF RingInv, TypeOK
<1>2. k \in 0 .. Slots - 1 /\ k # used
  BY <1>1
<1>3. UnreadSlot(k) # UnreadSlot(used)
  BY <1>1, <1>2, PositionsDiffer DEF UnreadSlot
<1>4. QED
  BY <1>3 DEF RingInv, UnreadProtected

LEMMA UnreadType ==
  ASSUME RingInv, NEW k \in 0 .. used PROVE UnreadSlot(k) \in SlotIds
<1>1. readCursor \in SlotIds /\ k \in 0 .. Slots
  BY DEF RingInv, TypeOK
<1>2. QED
  BY <1>1, PositionType DEF UnreadSlot

LEMMA WriteStep ==
  ASSUME RingInv, NEW n, n = next, NEW large \in BOOLEAN, SendFrame(n, large)
  PROVE  UnreadProtected' /\ LatestInSlot'
<1>1. CASE Publishable(large)
  <2>1. used < Slots
    BY <1>1 DEF Publishable
  <2>2. /\ slot' = [slot EXCEPT ![cursor] = [no |-> n, whole |-> FALSE]]
        /\ inRing' = inRing \cup {n}
        /\ worker' = "writing"
        /\ next' = n + 1
        /\ UNCHANGED <<used, cursor, readCursor>>
    BY <1>1 DEF SendFrame, BeginWrite, reader
  <2>3. \A k \in 0 .. used - 1 :
          UnreadSlot(k) # cursor /\ slot'[UnreadSlot(k)] = slot[UnreadSlot(k)]
    BY <2>1, <2>2, CursorFree, UnreadType DEF RingInv, TypeOK
  <2>4. \A k : UnreadSlot(k)' = UnreadSlot(k)
    BY <2>2 DEF UnreadSlot
  <2>5. UnreadProtected'
    BY <2>2, <2>3, <2>4 DEF RingInv, TypeOK, UnreadProtected
  <2>6. ASSUME NEW k \in 0 .. used - 1 PROVE slot[UnreadSlot(k)].no < n
    <3>1. slot[UnreadSlot(k)].no \in 1 .. n - 1
      BY DEF RingInv, UnreadProtected, FramesNumbered
    <3>2. QED
      BY <3>1 DEF RingInv, TypeOK
  <2>7. slot'[cursor].no = n
    BY <2>2 DEF RingInv, TypeOK
  <2>8. next' - 1 = n
    BY <2>2 DEF RingInv, TypeOK
  <2>9. LatestInSlot'
    BY <2>1, <2>2, <2>3, <2>4, <2>6, <2>7, <2>8 DEF LatestInSlot
  <2>10. QED
    BY <2>5, <2>9
<1>2. CASE ~Publishable(large)
  <2>1. UNCHANGED <<slot, used, cursor, readCursor, inRing, worker>>
    BY <1>2 DEF SendFrame, FallBack, reader
  <2>2. worker = "ready"
    BY DEF SendFrame
  <2>3. QED
    BY <2>1, <2>2 DEF RingInv, UnreadProtected, LatestInSlot, UnreadSlot
<1>3. QED
  BY <1>1, <1>2

LEMMA PublishStep ==
  ASSUME RingInv, Publish PROVE UnreadProtected' /\ LatestInSlot'
<1>1. used \in 0 .. Slots - 1 /\ readCursor \in SlotIds
  BY DEF Publish, RingInv, TypeOK, LatestInSlot
<1>2. /\ slot' = [slot EXCEPT ![cursor].whole = TRUE]
      /\ used' = used + 1
      /\ worker' = "signalling"
      /\ UNCHANGED <<inRing, next, readCursor>>
  BY DEF Publish, reader
<1>3. \A k : UnreadSlot(k)' = UnreadSlot(k)
  BY <1>2 DEF UnreadSlot
<1>4. cursor = UnreadSlot(used) /\ cursor \in SlotIds
  BY DEF RingInv, TypeOK, UnreadProtected
<1>5. cursor' = UnreadSlot(used)'
  <2>1. (UnreadSlot(used) + 1) % Slots = (readCursor + (used + 1)) % Slots
    BY <1>1, PositionShifts DEF UnreadSlot
  <2>2. UnreadSlot(used)' = (readCursor + (used + 1)) % Slots
    BY <1>2 DEF UnreadSlot
  <2>3. QED
    BY <1>4, <2>1, <2>2 DEF Publish
<1>6. \A k \in 0 .. used - 1 : slot'[UnreadSlot(k)] = slot[UnreadSlot(k)]
  BY <1>1, <1>2, CursorFree, UnreadType DEF RingInv, TypeOK
<1>7. /\ slot'[cursor].whole
      /\ slot'[cursor].no = next - 1
      /\ next - 1 \in inRing
      /\ \A k \in 0 .. used - 1 : slot[UnreadSlot(k)].no < next - 1
  BY <1>2, <1>4 DEF Publish, RingInv, TypeOK, LatestInSlot
<1>8. ASSUME NEW k \in 0 .. used
      PROVE  /\ slot'[UnreadSlot(k)].whole
             /\ slot'[UnreadSlot(k)].no \in inRing
             /\ k > 0 => slot'[UnreadSlot(k - 1)].no < slot'[UnreadSlot(k)].no
  <2>1. CASE k = used
    BY <1>1, <1>4, <1>6, <1>7, <2>1
  <2>2. CASE k # used
    BY <1>1, <1>6, <2>2 DEF RingInv, UnreadProtected
  <2>3. QED
    BY <2>1, <2>2
<1>9. UnreadProtected'
  <2>1. ASSUME NEW k \in 0 .. used' - 1
        PROVE  /\ slot'[UnreadSlot(k)'].whole
               /\ slot'[UnreadSlot(k)'].no \in inRing'
               /\ k > 0 => slot'[UnreadSlot(k - 1)'].no
                            < slot'[UnreadSlot(k)'].no
    <3>1. k \in 0 .. used
      BY <1>1, <1>2
    <3>2. UnreadSlot(k)' = UnreadSlot(k) /\ UnreadSlot(k - 1)' = UnreadSlot(k - 1)
      BY <1>3
    <3>3. QED
      BY <1>2, <1>8, <3>1, <3>2
  <2>2. worker' # "writing"
    BY <1>2
  <2>3. QED
    BY <1>5, <2>1, <2>2 DEF UnreadProtected
<1>10. QED
  BY <1>2, <1>9 DEF LatestInSlot

LEMMA ReadStep ==
  ASSUME RingInv, ReadSlot PROVE UnreadProtected' /\ LatestInSlot'
<1>1. /\ readCursor' = (readCursor + 1) % Slots
      /\ used' = used - 1
      /\ UNCHANGED <<slot, cursor, worker, next, inRing>>
  BY DEF ReadSlot, sender
<1>2. used \in 1 .. Slots /\ readCursor \in SlotIds
  BY DEF ReadSlot, RingInv, TypeOK
<1>3. \A k \in 0 .. used - 1 : UnreadSlot(k)' = UnreadSlot(k + 1)
  BY <1>1, <1>2, PositionShifts DEF UnreadSlot
<1>4. cursor' = UnreadSlot(used)'
  <2>1. used - 1 \in 0 .. Slots - 1 /\ (used - 1) + 1 = used
    BY <1>2
  <2>2. (((readCursor + 1) % Slots) + (used - 1)) % Slots
          = (readCursor + used) % Slots
    BY <1>2, <2>1, PositionShifts
  <2>3. UnreadSlot(used)' = UnreadSlot(used)
    BY <1>1, <2>2 DEF UnreadSlot
  <2>4. QED
    BY <1>1, <2>3 DEF RingInv, UnreadProtected
<1>5. ASSUME NEW k \in 0 .. used' - 1
      PROVE  /\ slot[UnreadSlot(k)'].whole
             /\ slot[UnreadSlot(k)'].no \in inRing
             /\ k > 0 => slot[UnreadSlot(k - 1)'].no < slot[UnreadSlot(k)'].no
             /\ worker = "writing" =>
                  UnreadSlot(k)' # cursor /\ slot[UnreadSlot(k)'].no < next - 1
  <2>1. k \in 0 .. used - 1 /\ k + 1 \in 0 .. used - 1 /\ k + 1 > 0
    BY <1>1, <1>2
  <2>2. UnreadSlot(k)' = UnreadSlot(k + 1)
    BY <1>3, <2>1
  <2>3. /\ slot[UnreadSlot(k + 1)].whole
        /\ slot[UnreadSlot(k + 1)].no \in inRing
        /\ slot[UnreadSlot((k + 1) - 1)].no < slot[UnreadSlot(k + 1)].no
        /\ worker = "writing" =>
             /\ UnreadSlot(k + 1) # cursor
             /\ slot[UnreadSlot(k + 1)].no < next - 1
    BY <2>1 DEF RingInv, UnreadProtected, LatestInSlot
  <2>4. k > 0 => UnreadSlot(k - 1)' = UnreadSlot((k + 1) - 1)
    <3>1. k > 0 => k - 1 \in 0 .. used - 1 /\ (k - 1) + 1 = (k + 1) - 1
      BY <1>2, <2>1
    <3>2. QED
      BY <1>3, <3>1
  <2>5. QED
    BY <2>2, <2>3, <2>4
<1>6. UnreadProtected'
  BY <1>1, <1>4, <1>5 DEF UnreadProtected
<1>7. LatestInSlot'
  BY <1>1, <1>2, <1>5 DEF RingInv, LatestInSlot
<1>8. QED
  BY <1>6, <1>7

LEMMA UnreadStep == RingInv /\ [Next]_vars => UnreadProtected' /\ LatestInSlot'
<1> SUFFICES ASSUME RingInv, [Next]_vars PROVE UnreadProtected' /\ LatestInSlot'
  OBVIOUS
<1>1. ASSUME Send \/ SendDone PROVE UnreadProtected' /\ LatestInSlot'
  BY <1>1, WriteStep DEF Send, SendDone
<1>2. ASSUME \/ PostSignal \/ OnEnvelope \/ OnSignal \/ ParseView
             \/ ParseFails \/ CancelStream \/ UNCHANGED vars
      PROVE  UnreadProtected' /\ LatestInSlot'
  BY <1>2, RingUnchanged
     DEF PostSignal, OnEnvelope, OnSignal, ParseView, ParseFails,
         CancelStream, ring, sender, reader, vars
<1>3. QED
  BY <1>1, <1>2, PublishStep, ReadStep DEF Next, Worker, Page

\* The inductive invariant of the ring holds in every reachable state.
THEOREM RingInvariance == Spec => []RingInv
<1>1. RingInv /\ [Next]_vars => RingInv'
  BY TypeStep, UnreadStep, NumberedStep DEF RingInv
<1>2. QED
  BY <1>1, InitInv, PTL DEF Spec

\* Every variable of the transport keeps its type; in particular the shared
\* counter stays between zero and the number of slots, although each side
\* updates it without looking at the other's cursor.
THEOREM TypeCorrect == Spec => []TypeOK
<1>1. RingInv => TypeOK
  BY DEF RingInv
<1>2. QED
  BY <1>1, RingInvariance, PTL

\* The worker never overwrites a frame the page has not consumed, and the
\* unread frames lie in the ring in the order they were sent.
THEOREM UnreadProtectedHolds == Spec => []UnreadProtected
<1>1. RingInv => UnreadProtected
  BY DEF RingInv
<1>2. QED
  BY <1>1, RingInvariance, PTL
-----------------------------------------------------------------------------
(* Queues, views and what was delivered.                                   *)

\* What Append and Tail do to the elements of a sequence.
LEMMA Elements ==
  ASSUME NEW S, NEW s \in Seq(S), NEW e \in S
  PROVE  /\ ToSet(Append(s, e)) = ToSet(s) \cup {e} /\ ToSet(s) \subseteq S
         /\ s # << >> => ToSet(s) = ToSet(Tail(s)) \cup {Head(s)}
<1>1. ToSet(s) = {s[i] : i \in 1 .. Len(s)} /\ Len(s) \in Nat
  BY DEF ToSet
<1>2. ToSet(Append(s, e)) = ToSet(s) \cup {e}
  <2> DEFINE t == Append(s, e)
  <2>1. /\ DOMAIN t = 1 .. Len(s) + 1 /\ t[Len(s) + 1] = e
        /\ \A i \in 1 .. Len(s) : t[i] = s[i]
    OBVIOUS
  <2> HIDE DEF t
  <2>2. ToSet(t) = {t[i] : i \in 1 .. Len(s) + 1}
    BY <2>1 DEF ToSet
  <2>3. ToSet(t) = ToSet(s) \cup {e}
    BY <1>1, <2>1, <2>2
  <2> QED  BY <2>3 DEF t
<1>3. ToSet(s) \subseteq S
  BY <1>1
<1>4. ASSUME s # << >> PROVE ToSet(s) = ToSet(Tail(s)) \cup {Head(s)}
  <2> DEFINE t == Tail(s)
  <2>1. /\ Len(s) \in Nat \ {0} /\ DOMAIN t = 1 .. Len(s) - 1 /\ Head(s) = s[1]
        /\ \A i \in 1 .. Len(s) - 1 : t[i] = s[i + 1]
    BY <1>4
  <2> HIDE DEF t
  <2>2. ToSet(t) = {s[i + 1] : i \in 1 .. Len(s) - 1}
    BY <2>1 DEF ToSet
  <2>3. \A i \in 1 .. Len(s) : i = 1 \/ (i - 1 \in 1 .. Len(s) - 1 /\ (i - 1) + 1 = i)
    BY <2>1
  <2>4. \A i \in 1 .. Len(s) - 1 : i + 1 \in 1 .. Len(s)
    BY <2>1
  <2>5. 1 \in 1 .. Len(s)
    BY <2>1
  <2>6. ToSet(s) \subseteq ToSet(t) \cup {Head(s)}
    <3> SUFFICES ASSUME NEW i \in 1 .. Len(s) PROVE s[i] \in ToSet(t) \cup {Head(s)}
      BY <1>1
    <3>1. CASE i = 1
      BY <2>1, <3>1
    <3>2. CASE i # 1
      <4>1. i - 1 \in 1 .. Len(s) - 1 /\ s[(i - 1) + 1] = s[i]
        BY <2>3, <3>2
      <4> QED  BY <2>2, <4>1
    <3> QED  BY <3>1, <3>2
  <2>7. ToSet(t) \cup {Head(s)} \subseteq ToSet(s)
    BY <1>1, <2>1, <2>2, <2>4, <2>5
  <2> QED  BY <2>6, <2>7 DEF t
<1> QED  BY <1>2, <1>3, <1>4

LEMMA NoElements == ToSet(<< >>) = {} /\ Shown(<< >>) = {}
BY DEF ToSet, Shown

Message == FrameIds \cup {Signal}

\* A message joins the queue: an envelope that is newer than the others.
LEMMA QueueAppend ==
  ASSUME NEW q \in Seq(Message), NEW m \in Message, EnvelopesAscend(q),
         m # Signal => \A n \in ToSet(q) : n < m
  PROVE  /\ EnvelopesAscend(Append(q, m))
         /\ \A n \in FrameIds :
              SignalBefore(q, n) /\ (m = Signal \/ m <= n \/ Signal \in ToSet(q))
                => SignalBefore(Append(q, m), n)
<1> DEFINE t == Append(q, m)
<1>1. /\ Len(q) \in Nat /\ Len(t) = Len(q) + 1 /\ t[Len(q) + 1] = m
      /\ \A i \in 1 .. Len(q) : t[i] = q[i] /\ q[i] \in ToSet(q)
      /\ \A i \in 1 .. Len(q) : q[i] \in Message
  BY DEF ToSet
<1>2. Message \subseteq Nat /\ Signal = 0
  BY DEF Message, FrameIds, Signal
<1> HIDE DEF t
<1>3. \A i \in 1 .. Len(t) : i \in 1 .. Len(q) \/ i = Len(q) + 1
  BY <1>1
<1>4. EnvelopesAscend(t)
  <2> SUFFICES ASSUME NEW i \in 1 .. Len(t), NEW j \in 1 .. Len(t), i < j,
                      t[i] # Signal, t[j] # Signal
               PROVE  t[i] < t[j]
    BY DEF EnvelopesAscend
  <2>1. i \in 1 .. Len(q)
    BY <1>1
  <2>2. CASE j \in 1 .. Len(q)
    BY <1>1, <2>1, <2>2 DEF EnvelopesAscend
  <2>3. CASE j = Len(q) + 1
    BY <1>1, <2>1, <2>3
  <2> QED  BY <1>3, <2>2, <2>3
<1>5. ASSUME NEW n \in FrameIds, SignalBefore(q, n),
             m = Signal \/ m <= n \/ Signal \in ToSet(q)
      PROVE  SignalBefore(t, n)
  <2> SUFFICES ASSUME NEW i \in 1 .. Len(t), t[i] > n
               PROVE  \E j \in 1 .. i - 1 : t[j] = Signal
    BY DEF SignalBefore
  <2>1. CASE i \in 1 .. Len(q)
    <3>1. PICK j \in 1 .. i - 1 : q[j] = Signal
      BY <1>1, <1>5, <2>1 DEF SignalBefore
    <3>2. j \in 1 .. Len(q)
      BY <1>1, <2>1
    <3> QED  BY <1>1, <3>1, <3>2
  <2>2. CASE i = Len(q) + 1
    <3>1. n \in Nat \ {0} /\ m > n
      BY <1>1, <2>2 DEF FrameIds
    <3>2. Signal \in ToSet(q)
      BY <1>2, <1>5, <3>1
    <3>3. PICK j \in 1 .. Len(q) : q[j] = Signal
      BY <1>1, <3>2 DEF ToSet
    <3> QED  BY <1>1, <2>2, <3>3
  <2> QED  BY <1>3, <2>1, <2>2
<1> QED  BY <1>4, <1>5 DEF t

\* The first message leaves the queue: an envelope is older than the others,
\* and than every frame of the ring whose signal is behind it.
LEMMA QueueTail ==
  ASSUME NEW q \in Seq(Message), q # << >>, EnvelopesAscend(q)
  PROVE  /\ EnvelopesAscend(Tail(q))
         /\ Head(q) # Signal => /\ \A n \in ToSet(Tail(q)) \ {Signal} : Head(q) < n
                                /\ Signal \in ToSet(q) => Signal \in ToSet(Tail(q))
         /\ \A n \in FrameIds :
              SignalBefore(q, n) /\ Head(q) # Signal =>
                SignalBefore(Tail(q), n) /\ Head(q) <= n
<1> DEFINE t == Tail(q)
<1>1. /\ Len(q) \in Nat \ {0} /\ Len(t) = Len(q) - 1 /\ Head(q) = q[1]
      /\ DOMAIN t = 1 .. Len(t)
      /\ \A i \in 1 .. Len(t) : t[i] = q[i + 1]
      /\ \A i \in 1 .. Len(q) : q[i] \in Message
  OBVIOUS
<1>2. Message \subseteq Nat /\ Signal = 0
  BY DEF Message, FrameIds, Signal
<1>3. ToSet(q) = ToSet(t) \cup {Head(q)}
  BY <1>1, Elements
<1> HIDE DEF t
<1>4. 1 \in 1 .. Len(q) /\ \A i \in 1 .. Len(t) : i + 1 \in 1 .. Len(q) /\ 1 < i + 1
  BY <1>1
<1>5. EnvelopesAscend(t)
  <2> SUFFICES ASSUME NEW i \in 1 .. Len(t), NEW j \in 1 .. Len(t), i < j,
                      t[i] # Signal, t[j] # Signal
               PROVE  t[i] < t[j]
    BY DEF EnvelopesAscend
  <2>1. i + 1 < j + 1
    BY <1>1
  <2> QED  BY <1>1, <1>4, <2>1 DEF EnvelopesAscend
<1>6. ASSUME Head(q) # Signal
      PROVE  /\ \A n \in ToSet(t) \ {Signal} : Head(q) < n
             /\ Signal \in ToSet(q) => Signal \in ToSet(t)
  <2>1. ASSUME NEW n \in ToSet(t) \ {Signal} PROVE Head(q) < n
    <3>1. PICK i \in 1 .. Len(t) : n = t[i]
      BY <1>1 DEF ToSet
    <3> QED  BY <1>1, <1>4, <1>6, <3>1 DEF EnvelopesAscend
  <2> QED  BY <1>3, <1>6, <2>1
<1>7. ASSUME NEW n \in FrameIds, SignalBefore(q, n), Head(q) # Signal
      PROVE  SignalBefore(t, n) /\ Head(q) <= n
  <2>1. Head(q) <= n
    <3>0. q[1] \in Nat /\ n \in Nat
      <4>1. q[1] \in Message
        BY <1>1, <1>4
      <4>2. n \in Message
        BY DEF Message
      <4> QED  BY <1>2, <4>1, <4>2
    <3> SUFFICES ASSUME q[1] > n PROVE FALSE
      BY <1>1, <3>0
    <3>1. \E j \in 1 .. 1 - 1 : q[j] = Signal
      BY <1>4, <1>7 DEF SignalBefore
    <3> QED  BY <3>1
  <2>2. SignalBefore(t, n)
    <3> SUFFICES ASSUME NEW i \in 1 .. Len(t), t[i] > n
                 PROVE  \E j \in 1 .. i - 1 : t[j] = Signal
      BY DEF SignalBefore
    <3>1. i + 1 \in 1 .. Len(q) /\ q[i + 1] > n
      BY <1>1, <1>4
    <3>2. PICK j \in 1 .. (i + 1) - 1 : q[j] = Signal
      BY <1>7, <3>1 DEF SignalBefore
    <3>3. j # 1 /\ j - 1 \in 1 .. i - 1 /\ (j - 1) + 1 = j
      BY <1>1, <1>7, <3>2
    <3>4. j - 1 \in 1 .. Len(t)
      BY <1>1, <3>3
    <3>5. t[j - 1] = Signal
      BY <1>1, <3>2, <3>3, <3>4
    <3> QED  BY <3>3, <3>5
  <2> QED  BY <2>1, <2>2
<1> QED  BY <1>5, <1>6, <1>7 DEF t

\* A view joins those of the batch, and the first one is parsed.
View == [slot : SlotIds, no : FrameIds]

LEMMA ViewsAppend ==
  ASSUME NEW vs \in Seq(View), NEW v \in View
  PROVE  /\ Shown(Append(vs, v)) = Shown(vs) \cup {v.no} /\ Shown(vs) \subseteq FrameIds
         /\ ViewsAscend(vs) /\ (\A n \in Shown(vs) : n < v.no) => ViewsAscend(Append(vs, v))
<1> DEFINE t == Append(vs, v)
<1>1. /\ Len(vs) \in Nat /\ Len(t) = Len(vs) + 1 /\ t[Len(vs) + 1] = v
      /\ \A i \in 1 .. Len(vs) : t[i] = vs[i]
      /\ \A i \in 1 .. Len(vs) : vs[i] \in View
  OBVIOUS
<1> HIDE DEF t
<1>2. \A i \in 1 .. Len(t) : i \in 1 .. Len(vs) \/ i = Len(vs) + 1
  BY <1>1
<1>3. \A i \in 1 .. Len(vs) : i \in 1 .. Len(t) /\ i < Len(vs) + 1
  BY <1>1
<1>4. Len(vs) + 1 \in 1 .. Len(t)
  BY <1>1
<1>5. Shown(t) = Shown(vs) \cup {v.no}
  BY <1>1, <1>2, <1>3, <1>4 DEF Shown
<1>6. Shown(vs) \subseteq FrameIds
  BY <1>1 DEF Shown, View
<1>7. ASSUME ViewsAscend(vs), \A n \in Shown(vs) : n < v.no
      PROVE  ViewsAscend(t)
  <2> SUFFICES ASSUME NEW i \in 1 .. Len(t), NEW j \in 1 .. Len(t), i < j
               PROVE  t[i].no < t[j].no
    BY DEF ViewsAscend
  <2>1. i \in 1 .. Len(vs)
    BY <1>1
  <2>2. CASE j \in 1 .. Len(vs)
    BY <1>1, <1>7, <2>1, <2>2 DEF ViewsAscend
  <2>3. CASE j = Len(vs) + 1
    BY <1>1, <1>7, <2>1, <2>3 DEF Shown
  <2> QED  BY <1>2, <2>2, <2>3
<1> QED  BY <1>5, <1>6, <1>7 DEF t

LEMMA ViewsTail ==
  ASSUME NEW vs \in Seq(View), vs # << >>, ViewsAscend(vs)
  PROVE  /\ Head(vs) \in View /\ Head(vs) = vs[1] /\ 1 \in 1 .. Len(vs)
         /\ Shown(vs) = Shown(Tail(vs)) \cup {Head(vs).no}
         /\ \A n \in Shown(Tail(vs)) : Head(vs).no < n
         /\ ViewsAscend(Tail(vs))
         /\ \A i \in 1 .. Len(Tail(vs)) : i + 1 \in 1 .. Len(vs) /\ Tail(vs)[i] = vs[i + 1]
<1> DEFINE t == Tail(vs)
<1>1. /\ Len(vs) \in Nat \ {0} /\ Len(t) = Len(vs) - 1 /\ Head(vs) = vs[1]
      /\ \A i \in 1 .. Len(t) : t[i] = vs[i + 1]
      /\ \A i \in 1 .. Len(vs) : vs[i] \in View
  OBVIOUS
<1> HIDE DEF t
<1>2. 1 \in 1 .. Len(vs) /\ \A i \in 1 .. Len(t) : i + 1 \in 1 .. Len(vs) /\ 1 < i + 1
  BY <1>1
<1>3. Shown(t) = {vs[i + 1].no : i \in 1 .. Len(t)}
  BY <1>1 DEF Shown
<1>4. Shown(vs) = Shown(t) \cup {Head(vs).no}
  <2>1. Shown(t) \cup {Head(vs).no} \subseteq Shown(vs)
    BY <1>1, <1>2, <1>3 DEF Shown
  <2>2. ASSUME NEW i \in 1 .. Len(vs) PROVE vs[i].no \in Shown(t) \cup {Head(vs).no}
    <3>1. CASE i = 1
      BY <1>1, <3>1
    <3>2. CASE i # 1
      <4>1. i - 1 \in 1 .. Len(t) /\ vs[(i - 1) + 1] = vs[i]
        BY <1>1, <3>2
      <4> QED  BY <1>3, <4>1
    <3> QED  BY <3>1, <3>2
  <2> QED  BY <2>1, <2>2 DEF Shown
<1>5. \A n \in Shown(t) : Head(vs).no < n
  BY <1>1, <1>2, <1>3 DEF ViewsAscend
<1>6. ViewsAscend(t)
  <2> SUFFICES ASSUME NEW i \in 1 .. Len(t), NEW j \in 1 .. Len(t), i < j
               PROVE  t[i].no < t[j].no
    BY DEF ViewsAscend
  <2>1. i + 1 < j + 1
    BY <1>1
  <2> QED  BY <1>1, <1>2, <2>1 DEF ViewsAscend
<1>7. Head(vs) \in View
  BY <1>1, <1>2
<1> QED  BY <1>1, <1>2, <1>4, <1>5, <1>6, <1>7 DEF t

-----------------------------------------------------------------------------
(* The frames in the ring.                                                 *)

\* They are frames of the stream that were sent.
LEMMA UnreadFacts ==
  ASSUME RingInv
  PROVE  /\ \A k \in 0 .. used - 1 : Frame(k) \in inRing
         /\ Unread(0) \subseteq inRing /\ Unread(batch) \subseteq Unread(0)
         /\ inRing \subseteq FrameIds /\ \A n \in inRing : n < next
         /\ batch \in 0 .. used /\ used \in Nat /\ next \in Nat /\ next - 1 \in Nat
         /\ \A n \in Unread(0) : n < Fresh
         /\ worker = "writing" => next - 1 \in inRing
<1>1. /\ batch \in 0 .. used /\ used \in 0 .. Slots /\ next \in 1 .. MaxFrames + 2
      /\ inRing \subseteq FrameIds /\ inRing \subseteq 1 .. next - 1
  BY DEF RingInv, TypeOK, FramesNumbered
<1>2. \A k \in 0 .. used - 1 : Frame(k) \in inRing
  BY DEF RingInv, UnreadProtected, Frame
<1>3. Unread(0) \subseteq inRing /\ Unread(batch) \subseteq Unread(0)
  BY <1>1, <1>2 DEF Unread
<1>4. \A n \in inRing : n < next
  BY <1>1
<1>5. \A n \in Unread(0) : n < Fresh
  <2>1. CASE worker = "writing"
    BY <2>1 DEF RingInv, LatestInSlot, Unread, Frame, Fresh
  <2>2. CASE worker # "writing"
    BY <1>3, <1>4, <2>2 DEF Fresh
  <2> QED  BY <2>1, <2>2
<1>6. worker = "writing" => next - 1 \in inRing
  BY DEF RingInv, LatestInSlot
<1> QED  BY <1>1, <1>2, <1>3, <1>4, <1>5, <1>6

\* Steps that leave the ring alone, and the copy into the slot at the cursor.
LEMMA UnreadKept ==
  ASSUME RingInv, readCursor' = readCursor, used' = used,
         slot' = slot \/ (used < Slots /\ \E f : slot' = [slot EXCEPT ![cursor] = f])
  PROVE  /\ \A k \in 0 .. used - 1 : Frame(k)' = Frame(k)
         /\ Unread(0)' = Unread(0) /\ \A b \in 0 .. used : Unread(b)' = Unread(b)
<1>1. \A k : UnreadSlot(k)' = UnreadSlot(k)
  BY DEF UnreadSlot
<1>2. ASSUME NEW k \in 0 .. used - 1 PROVE Frame(k)' = Frame(k)
  <2>1. CASE slot' = slot
    BY <1>1, <2>1 DEF Frame
  <2>2. CASE used < Slots /\ \E f : slot' = [slot EXCEPT ![cursor] = f]
    <3>1. UnreadSlot(k) # cursor
      BY <2>2, CursorFree
    <3>2. slot'[UnreadSlot(k)] = slot[UnreadSlot(k)]
      <4>1. k \in 0 .. used
        BY DEF RingInv, TypeOK
      <4> QED  BY <2>2, <3>1, <4>1, UnreadType DEF RingInv, TypeOK
    <3> QED  BY <1>1, <3>2 DEF Frame
  <2> QED  BY <2>1, <2>2
<1>3. ASSUME NEW b \in 0 .. used PROVE Unread(b)' = Unread(b)
  <2>1. used \in Nat
    BY DEF RingInv, TypeOK
  <2>2. \A k \in b .. used - 1 : k \in 0 .. used - 1
    BY <2>1
  <2>3. Unread(b)' = {Frame(k)' : k \in b .. used - 1}
    BY DEF Unread
  <2> QED  BY <1>2, <2>2, <2>3 DEF Unread
<1>4. 0 \in 0 .. used
  BY DEF RingInv, TypeOK
<1> QED  BY <1>2, <1>3, <1>4

LEMMA UnreadPublished ==
  ASSUME RingInv, Publish
  PROVE  /\ \A k \in 0 .. used - 1 : Frame(k)' = Frame(k)
         /\ \A k : k = used => Frame(k)' = next - 1
         /\ used' = used + 1
         /\ \A b \in 0 .. used : Unread(b)' = Unread(b) \cup {next - 1}
<1>1. used \in 0 .. Slots - 1 /\ readCursor \in SlotIds /\ used' = used + 1
  BY DEF Publish, RingInv, TypeOK, LatestInSlot
<1>2. /\ slot' = [slot EXCEPT ![cursor].whole = TRUE]
      /\ UNCHANGED <<next, readCursor>>
  BY DEF Publish, reader
<1>3. \A k : UnreadSlot(k)' = UnreadSlot(k)
  BY <1>2 DEF UnreadSlot
<1>4. cursor = UnreadSlot(used) /\ cursor \in SlotIds
  BY DEF RingInv, TypeOK, UnreadProtected
<1>5. \A k \in 0 .. used - 1 : Frame(k)' = Frame(k)
  <2> SUFFICES ASSUME NEW k \in 0 .. used - 1 PROVE Frame(k)' = Frame(k)
    OBVIOUS
  <2>1. UnreadSlot(k) # cursor /\ UnreadSlot(k) \in SlotIds
    <3>1. k \in 0 .. used
      BY <1>1
    <3> QED  BY <1>1, <3>1, CursorFree, UnreadType
  <2>2. slot'[UnreadSlot(k)] = slot[UnreadSlot(k)]
    BY <1>2, <2>1 DEF RingInv, TypeOK
  <2> QED  BY <1>3, <2>2 DEF Frame
<1>6. ASSUME NEW k, k = used PROVE Frame(k)' = next - 1
  <2>1. slot'[cursor].no = slot[cursor].no
    BY <1>2, <1>4 DEF RingInv, TypeOK
  <2>2. slot[cursor].no = next - 1
    BY DEF Publish, RingInv, LatestInSlot
  <2>3. UnreadSlot(k)' = cursor
    BY <1>3, <1>4, <1>6
  <2> QED  BY <2>1, <2>2, <2>3 DEF Frame
<1>7. ASSUME NEW b \in 0 .. used PROVE Unread(b)' = Unread(b) \cup {next - 1}
  <2>1. \A k \in b .. used : (k \in b .. used - 1 /\ k \in 0 .. used - 1) \/ k = used
    BY <1>1
  <2>2. \A k \in b .. used - 1 : k \in b .. used
    BY <1>1
  <2>3. Unread(b)' = {Frame(k)' : k \in b .. used}
    <3>1. b .. used' - 1 = b .. used
      BY <1>1
    <3>2. Unread(b)' = {Frame(k)' : k \in b .. used' - 1}
      BY DEF Unread
    <3> QED  BY <3>1, <3>2
  <2>4. used \in b .. used
    BY <1>1
  <2>5. Unread(b)' \subseteq Unread(b) \cup {next - 1}
    BY <1>5, <1>6, <2>1, <2>3 DEF Unread
  <2>6. Unread(b) \cup {next - 1} \subseteq Unread(b)'
    <3>1. \A k \in b .. used - 1 : Frame(k) \in Unread(b)'
      <4>1. \A k \in b .. used - 1 : k \in 0 .. used - 1
        BY <1>1
      <4> QED  BY <1>5, <2>2, <2>3, <4>1
    <3>2. next - 1 \in Unread(b)'
      BY <1>6, <2>3, <2>4
    <3> QED  BY <3>1, <3>2 DEF Unread
  <2> QED  BY <2>5, <2>6
<1> QED  BY <1>1, <1>5, <1>6, <1>7

\* drain() takes the oldest frame out.
LEMMA UnreadRead ==
  ASSUME RingInv, ReadSlot
  PROVE  /\ \A k \in 0 .. used' - 1 : Frame(k)' = Frame(k + 1) /\ k + 1 \in 0 .. used - 1
         /\ 0 \in 0 .. used - 1 /\ used' = used - 1
         /\ Unread(0) = Unread(0)' \cup {Frame(0)}
         /\ Unread(batch)' = Unread(batch)
         /\ Frame(0) = slot[readCursor].no /\ slot[readCursor].whole
<1>1. /\ readCursor' = (readCursor + 1) % Slots
      /\ used' = used - 1 /\ batch' = batch - 1 /\ slot' = slot
  BY DEF ReadSlot
<1>2. used \in 1 .. Slots /\ readCursor \in SlotIds /\ batch \in 1 .. used
  BY DEF ReadSlot, RingInv, TypeOK
<1>3. \A k \in 0 .. used - 1 : UnreadSlot(k)' = UnreadSlot(k + 1)
  BY <1>1, <1>2, PositionShifts DEF UnreadSlot
<1>4. ASSUME NEW k \in 0 .. used' - 1
      PROVE  Frame(k)' = Frame(k + 1) /\ k + 1 \in 0 .. used - 1
  <2>1. k \in 0 .. used - 1 /\ k + 1 \in 0 .. used - 1
    BY <1>1, <1>2
  <2> QED  BY <1>1, <1>3, <2>1 DEF Frame
<1>5. 0 \in 0 .. used - 1
  BY <1>2
<1>6. Unread(0)' = {Frame(k + 1) : k \in 0 .. used' - 1}
  BY <1>4 DEF Unread
<1>7. Unread(0) = Unread(0)' \cup {Frame(0)}
  <2>1. ASSUME NEW k \in 0 .. used - 1 PROVE Frame(k) \in Unread(0)' \cup {Frame(0)}
    <3>1. CASE k = 0
      BY <3>1
    <3>2. CASE k # 0
      <4>1. k - 1 \in 0 .. used' - 1 /\ (k - 1) + 1 = k
        BY <1>1, <1>2, <3>2
      <4> QED  BY <1>6, <4>1
    <3> QED  BY <3>1, <3>2
  <2>2. Unread(0)' \cup {Frame(0)} \subseteq Unread(0)
    BY <1>4, <1>5, <1>6 DEF Unread
  <2> QED  BY <2>1, <2>2 DEF Unread
<1>8. Unread(batch)' = Unread(batch)
  <2>1. Unread(batch)' = {Frame(k)' : k \in batch - 1 .. used - 1 - 1}
    BY <1>1 DEF Unread
  <2>2. \A k \in batch - 1 .. used - 1 - 1 : k \in 0 .. used' - 1 /\ k + 1 \in batch .. used - 1
    BY <1>1, <1>2
  <2>3. \A k \in batch .. used - 1 :
          k - 1 \in batch - 1 .. used - 1 - 1 /\ (k - 1) + 1 = k
    BY <1>1, <1>2
  <2>4. Unread(batch)' = {Frame(k + 1) : k \in batch - 1 .. used - 1 - 1}
    BY <1>4, <2>1, <2>2
  <2>5. Unread(batch)' \subseteq Unread(batch)
    BY <2>2, <2>4 DEF Unread
  <2>6. ASSUME NEW k \in batch .. used - 1 PROVE Frame(k) \in Unread(batch)'
    <3>1. Frame((k - 1) + 1) \in Unread(batch)'
      BY <2>3, <2>4
    <3> QED  BY <2>3, <3>1
  <2> QED  BY <2>5, <2>6 DEF Unread
<1>9. Frame(0) = slot[readCursor].no /\ slot[readCursor].whole
  <2>1. UnreadSlot(0) = readCursor
    BY <1>2, PositionZero, Zenon DEF UnreadSlot
  <2> QED  BY <1>5, <2>1 DEF RingInv, UnreadProtected, Frame
<1> QED  BY <1>1, <1>4, <1>5, <1>7, <1>8, <1>9

-----------------------------------------------------------------------------
(* The order in which frames reach the listener.                           *)

LEMMA OrderFacts ==
  ASSUME RingInv
  PROVE  /\ views \in Seq(View) /\ queue \in Seq(Message) /\ delivered \in Seq(Message)
         /\ ToSet(queue) \subseteq Message /\ ToSet(delivered) \subseteq Message
         /\ Shown(views) \subseteq FrameIds
         /\ Message \subseteq Nat /\ FrameIds \subseteq Nat \ {0}
         /\ Fresh \in Nat \ {0}
<1>1. views \in Seq(View) /\ queue \in Seq(Message) /\ delivered \in Seq(Message)
  BY DEF RingInv, TypeOK, View, Message, Garbled, Signal
<1>2. ToSet(queue) \subseteq Message /\ ToSet(delivered) \subseteq Message
  <2>1. Signal \in Message
    BY DEF Message
  <2> QED  BY <1>1, <2>1, Elements
<1>3. Shown(views) \subseteq FrameIds
  <2>1. \A i \in 1 .. Len(views) : views[i] \in View
    BY <1>1
  <2> QED  BY <2>1 DEF Shown, View
<1>4. Message \subseteq Nat /\ FrameIds \subseteq Nat \ {0}
  BY DEF Message, FrameIds, Signal
<1>5. Fresh \in Nat \ {0}
  <2>1. next \in Nat \ {0}
    BY DEF RingInv, TypeOK
  <2>2. worker = "writing" => next - 1 \in FrameIds
    BY UnreadFacts
  <2> QED  BY <1>4, <2>1, <2>2 DEF Fresh
<1> QED  BY <1>1, <1>2, <1>3, <1>4, <1>5

\* A frame is copied into the ring: unless it overwrites a view, what was
\* sent keeps its order.
LEMMA WriteOrder ==
  ASSUME RingInv, InOrder, NEW n, n = next, n \in FrameIds,
         SendFrame(n, FALSE) \/ SendFrame(n, TRUE), BeginWrite(n), used < Slots,
         ~overlapped'
  PROVE  InOrder'
<1>1. /\ slot' = [slot EXCEPT ![cursor] = [no |-> n, whole |-> FALSE]]
      /\ \A i \in DOMAIN views : views[i].slot # cursor
      /\ worker = "ready" /\ worker' = "writing" /\ next' = n + 1
      /\ inRing' = inRing \cup {n}
      /\ UNCHANGED <<used, readCursor, batch, views, delivered, stream, queue>>
  BY DEF SendFrame, BeginWrite, reader
<1>2. /\ \A k \in 0 .. used - 1 : Frame(k)' = Frame(k)
      /\ Unread(0)' = Unread(0) /\ \A b \in 0 .. used : Unread(b)' = Unread(b)
  BY <1>1, UnreadKept
<1>3. Unread(batch)' = Unread(batch) /\ Shown(views)' = Shown(views)
  BY <1>1, <1>2, UnreadFacts DEF Shown, Unread
<1>4. Fresh = n /\ Fresh' = n
  BY <1>1, UnreadFacts DEF Fresh
<1>5. \A i \in 1 .. Len(views)' : Intact(views[i])'
  <2> SUFFICES ASSUME NEW i \in 1 .. Len(views) PROVE Intact(views[i])'
    BY <1>1
  <2>1. views[i] \in View /\ i \in DOMAIN views
    BY OrderFacts
  <2>2. slot'[views[i].slot] = slot[views[i].slot]
    BY <1>1, <2>1 DEF RingInv, TypeOK, View
  <2> QED  BY <1>1, <2>2 DEF InOrder, Intact
<1>6. RingInOrder'
  BY <1>1, <1>2, <1>3 DEF InOrder, RingInOrder
<1>7. EnvelopesInOrder'
  <2>1. n \notin ToSet(queue)
    BY <1>4, OrderFacts DEF InOrder, EnvelopesInOrder
  <2> QED  BY <1>1, <1>3, <1>4, <2>1 DEF InOrder, EnvelopesInOrder
<1>8. Signalled'
  BY <1>1, <1>3 DEF InOrder, Signalled
<1>9. NothingLost'
  BY <1>1, <1>2, <1>3, <1>4 DEF InOrder, NothingLost
<1> QED  BY <1>5, <1>6, <1>7, <1>8, <1>9 DEF InOrder

\* A frame travels as an envelope: the signals of the frames before it that
\* are in the ring are on the port.
LEMMA FallBackOrder ==
  ASSUME RingInv, InOrder, ClosedIsEmpty, NEW n, n = next, n \in FrameIds,
         SendFrame(n, FALSE) \/ SendFrame(n, TRUE), FallBack(n)
  PROVE  InOrder'
<1>1. /\ worker = "ready" /\ worker' = "ready" /\ next' = n + 1
      /\ queue' = IF stream = "open" THEN Append(queue, n) ELSE queue
      /\ UNCHANGED <<slot, used, inRing, readCursor, batch, views, delivered, stream>>
  BY DEF SendFrame, FallBack, Post, reader
<1>2. /\ \A k \in 0 .. used - 1 : Frame(k)' = Frame(k)
      /\ Unread(0)' = Unread(0) /\ \A b \in 0 .. used : Unread(b)' = Unread(b)
  BY <1>1, UnreadKept
<1>3. Unread(batch)' = Unread(batch) /\ Shown(views)' = Shown(views)
  BY <1>1, <1>2, UnreadFacts DEF Shown, Unread
<1>4. Fresh = n /\ Fresh' = n + 1 /\ n \in Nat \ {0}
  BY <1>1, OrderFacts DEF Fresh
<1>5. \A i \in 1 .. Len(views)' : Intact(views[i])'
  BY <1>1 DEF InOrder, Intact
<1>6. RingInOrder'
  BY <1>1, <1>2, <1>3 DEF InOrder, RingInOrder
<1>7. /\ queue' = queue /\ stream # "open"
      \/ /\ queue' = Append(queue, n) /\ stream = "open"
         /\ ToSet(queue') = ToSet(queue) \cup {n}
  <2>1. n \in Message
    BY DEF Message
  <2> QED  BY <1>1, <2>1, Elements, OrderFacts
<1>8. n # Signal /\ \A m \in ToSet(queue) : m < n
  BY <1>4, OrderFacts DEF InOrder, EnvelopesInOrder, Signal
<1>9. n \notin inRing
  BY <1>4, UnreadFacts, OrderFacts
<1>10. EnvelopesInOrder'
  <2>1. EnvelopesAscend(queue')
    <3>1. n \in Message /\ queue \in Seq(Message) /\ EnvelopesAscend(queue)
      BY OrderFacts DEF Message, InOrder, EnvelopesInOrder
    <3>2. EnvelopesAscend(Append(queue, n))
      BY <1>8, <3>1, QueueAppend
    <3> QED  BY <1>7, <3>1, <3>2
  <2>2. ToSet(queue') \cap inRing' = {}
    BY <1>1, <1>7, <1>9 DEF InOrder, EnvelopesInOrder
  <2>3. \A d \in ToSet(delivered) : d < n
    BY <1>4 DEF InOrder, EnvelopesInOrder
  <2>4. \A m \in ToSet(delivered) \cup ToSet(queue') \cup Shown(views) : m < n + 1
    <3>1. \A m \in ToSet(delivered) \cup ToSet(queue) \cup Shown(views) : m < n /\ m \in Nat
      BY <1>4, OrderFacts DEF InOrder, EnvelopesInOrder
    <3> QED  BY <1>4, <1>7, <3>1
  <2> QED
    BY <1>1, <1>3, <1>4, <1>7, <2>1, <2>2, <2>3, <2>4 DEF InOrder, EnvelopesInOrder
<1>11. Signalled'
  <2> SUFFICES ASSUME stream = "open", NEW m \in Unread(batch)
               PROVE  SignalBefore(queue', m) /\ Signal \in ToSet(queue')
    BY <1>1, <1>3 DEF Signalled
  <2>1. SignalBefore(queue, m) /\ Signal \in ToSet(queue) /\ m \in FrameIds
    BY <1>1, UnreadFacts DEF InOrder, Signalled
  <2>2. n \in Message /\ queue \in Seq(Message) /\ EnvelopesAscend(queue)
    BY OrderFacts DEF Message, InOrder, EnvelopesInOrder
  <2>3. SignalBefore(Append(queue, n), m)
    BY <1>8, <2>1, <2>2, QueueAppend
  <2> QED  BY <1>7, <2>1, <2>3
<1>12. NothingLost'
  <2>1. stream = "open" => 1 .. Fresh' - 1 \subseteq (1 .. Fresh - 1) \cup {n}
    BY <1>4
  <2> QED  BY <1>1, <1>2, <1>3, <1>7, <2>1 DEF InOrder, NothingLost
<1> QED  BY <1>5, <1>6, <1>10, <1>11, <1>12 DEF InOrder

\* The copied frame is the latest one, and its signal is about to be posted.
LEMMA PublishOrder ==
  ASSUME RingInv, InOrder, Publish PROVE InOrder'
<1>1. /\ slot' = [slot EXCEPT ![cursor].whole = TRUE]
      /\ worker = "writing" /\ worker' = "signalling"
      /\ UNCHANGED <<next, inRing, queue, batch, views, delivered, stream>>
  BY DEF Publish, reader
<1>2. /\ \A k \in 0 .. used - 1 : Frame(k)' = Frame(k)
      /\ \A k : k = used => Frame(k)' = next - 1
      /\ used' = used + 1
      /\ \A b \in 0 .. used : Unread(b)' = Unread(b) \cup {next - 1}
  BY UnreadPublished
<1>3. /\ Unread(batch)' = Unread(batch) \cup {next - 1}
      /\ Unread(0)' = Unread(0) \cup {next - 1}
      /\ Shown(views)' = Shown(views)
  <2>1. batch \in 0 .. used /\ 0 \in 0 .. used
    BY UnreadFacts
  <2> QED  BY <1>1, <1>2, <2>1 DEF Shown, Unread
<1>4. Fresh = next - 1 /\ Fresh' = next /\ next \in Nat /\ next - 1 \in inRing
  BY <1>1, UnreadFacts DEF Fresh
<1>5. \A i \in 1 .. Len(views)' : Intact(views[i])'
  <2> SUFFICES ASSUME NEW i \in 1 .. Len(views) PROVE Intact(views[i])'
    BY <1>1
  <2>1. views[i] \in View
    BY OrderFacts
  <2>2. slot[views[i].slot] = [no |-> views[i].no, whole |-> TRUE]
    BY DEF InOrder, Intact
  <2>3. slot'[views[i].slot] = slot[views[i].slot]
    <3>1. views[i].slot \in SlotIds /\ slot \in [SlotIds -> [no : FrameIds \cup {0}, whole : BOOLEAN]]
      BY <2>1 DEF RingInv, TypeOK, View
    <3>2. CASE views[i].slot = cursor
      <4>1. slot'[cursor] \in [no : FrameIds \cup {0}, whole : BOOLEAN]
        BY <1>1, <3>1, <3>2
      <4>2. slot'[cursor].no = views[i].no /\ slot'[cursor].whole = TRUE
        BY <1>1, <2>2, <3>1, <3>2
      <4>3. slot'[cursor] = [no |-> views[i].no, whole |-> TRUE]
        BY <4>1, <4>2
      <4> QED  BY <2>2, <3>2, <4>3
    <3>3. CASE views[i].slot # cursor
      BY <1>1, <3>1, <3>3
    <3> QED  BY <3>2, <3>3
  <2> QED  BY <1>1, <2>2, <2>3 DEF Intact
<1>6. \A m \in ToSet(delivered) \cup ToSet(queue) \cup Shown(views) \cup Unread(0) :
        m < next - 1 /\ m \in Nat
  BY <1>4, UnreadFacts, OrderFacts DEF InOrder, EnvelopesInOrder
<1>7. RingInOrder'
  <2>1. \A j, k \in 0 .. used' - 1 : j < k => Frame(j)' < Frame(k)'
    <3> SUFFICES ASSUME NEW j \in 0 .. used' - 1, NEW k \in 0 .. used' - 1, j < k
                 PROVE  Frame(j)' < Frame(k)'
      OBVIOUS
    <3>1. j \in 0 .. used - 1 /\ (k \in 0 .. used - 1 \/ k = used)
      BY <1>2, UnreadFacts
    <3>2. CASE k \in 0 .. used - 1
      BY <1>2, <3>1, <3>2 DEF InOrder, RingInOrder
    <3>3. CASE k = used
      <4>1. Frame(j) < next - 1
        BY <1>6, <3>1 DEF Unread
      <4> QED  BY <1>2, <3>1, <3>3, <4>1
    <3> QED  BY <3>1, <3>2, <3>3
  <2> QED  BY <1>1, <1>3, <1>6, <2>1 DEF InOrder, RingInOrder
<1>8. EnvelopesInOrder'
  <2>1. \A m \in ToSet(delivered) \cup ToSet(queue) \cup Shown(views) : m < next
    BY <1>4, <1>6
  <2> QED  BY <1>1, <1>3, <1>4, <2>1 DEF InOrder, EnvelopesInOrder
<1>9. Signalled'
  <2>1. SignalBefore(queue, next - 1)
    <3>1. \A i \in 1 .. Len(queue) : queue[i] \in ToSet(queue)
      BY OrderFacts DEF ToSet
    <3> QED  BY <1>4, <1>6, <3>1 DEF SignalBefore
  <2> QED  BY <1>1, <1>3, <2>1 DEF InOrder, Signalled
<1>10. NothingLost'
  <2>1. 1 .. Fresh' - 1 \subseteq (1 .. Fresh - 1) \cup {next - 1}
    BY <1>4
  <2> QED  BY <1>1, <1>3, <2>1 DEF InOrder, NothingLost
<1> QED  BY <1>5, <1>7, <1>8, <1>9, <1>10 DEF InOrder

LEMMA SignalOrder ==
  ASSUME RingInv, InOrder, PostSignal PROVE InOrder'
<1>1. /\ worker = "signalling" /\ worker' = "ready"
      /\ queue' = IF stream = "open" THEN Append(queue, Signal) ELSE queue
      /\ UNCHANGED <<slot, used, next, inRing, readCursor, batch, views, delivered,
                     stream>>
  BY DEF PostSignal, Post, ring, reader
<1>2. /\ \A k \in 0 .. used - 1 : Frame(k)' = Frame(k)
      /\ Unread(0)' = Unread(0) /\ \A b \in 0 .. used : Unread(b)' = Unread(b)
  BY <1>1, UnreadKept
<1>3. Unread(batch)' = Unread(batch) /\ Shown(views)' = Shown(views)
  BY <1>1, <1>2, UnreadFacts DEF Shown, Unread
<1>4. Fresh' = Fresh
  BY <1>1 DEF Fresh
<1>5. \A i \in 1 .. Len(views)' : Intact(views[i])'
  BY <1>1 DEF InOrder, Intact
<1>6. RingInOrder'
  BY <1>1, <1>2, <1>3 DEF InOrder, RingInOrder
<1>7. /\ queue' = queue /\ stream # "open"
      \/ /\ queue' = Append(queue, Signal) /\ stream = "open"
         /\ ToSet(queue') = ToSet(queue) \cup {Signal}
  <2>1. Signal \in Message
    BY DEF Message
  <2> QED  BY <1>1, <2>1, Elements, OrderFacts
<1>8. /\ EnvelopesAscend(queue')
      /\ stream = "open" =>
           \A n \in FrameIds : SignalBefore(queue, n) => SignalBefore(queue', n)
  <2>1. Signal \in Message
    BY DEF Message
  <2> QED  BY <1>7, <2>1, QueueAppend, OrderFacts DEF InOrder, EnvelopesInOrder
<1>9. EnvelopesInOrder'
  <2>1. Signal \notin inRing /\ Signal < Fresh
    BY UnreadFacts, OrderFacts DEF Signal
  <2> QED  BY <1>1, <1>3, <1>4, <1>7, <1>8, <2>1 DEF InOrder, EnvelopesInOrder
<1>10. Signalled'
  <2> SUFFICES ASSUME stream = "open", NEW m \in Unread(batch)
               PROVE  SignalBefore(queue', m) /\ Signal \in ToSet(queue')
    BY <1>1, <1>3 DEF Signalled
  <2>1. m \in FrameIds /\ SignalBefore(queue, m)
    BY UnreadFacts DEF InOrder, Signalled
  <2> QED  BY <1>7, <1>8, <2>1
<1>11. NothingLost'
  BY <1>1, <1>2, <1>3, <1>4, <1>7 DEF InOrder, NothingLost
<1> QED  BY <1>5, <1>6, <1>9, <1>10, <1>11 DEF InOrder

-----------------------------------------------------------------------------
(* The page.                                                               *)

\* What the listener gets next, if nothing older than it is still to come.
LEMMA DeliveredNext ==
  ASSUME RingInv, OnlyFallbacksOvertaken, ~overlapped, inRing' = inRing,
         NEW n \in FrameIds, delivered' = Append(delivered, n),
         \A d \in ToSet(delivered) : d < n \/ (d > n /\ d \in inRing /\ n \notin inRing)
  PROVE  OnlyFallbacksOvertaken' /\ ToSet(delivered') = ToSet(delivered) \cup {n}
<1>1. n \in Message /\ delivered \in Seq(Message)
  BY OrderFacts DEF Message
<1>2. ToSet(delivered') = ToSet(delivered) \cup {n}
  BY <1>1, Elements
<1> DEFINE t == Append(delivered, n)
<1>3. /\ Len(delivered) \in Nat /\ Len(t) = Len(delivered) + 1 /\ t[Len(delivered) + 1] = n
      /\ DOMAIN t = 1 .. Len(t) /\ DOMAIN delivered = 1 .. Len(delivered)
      /\ \A i \in 1 .. Len(delivered) : t[i] = delivered[i] /\ t[i] \in ToSet(delivered)
  BY <1>1 DEF ToSet
<1> HIDE DEF t
<1>4. ASSUME NEW i \in DOMAIN t, NEW j \in DOMAIN t, i < j
      PROVE  t[i] < t[j] \/ (t[i] > t[j] /\ t[i] \in inRing /\ t[j] \notin inRing)
  <2>1. i \in 1 .. Len(delivered) /\ (j \in 1 .. Len(delivered) \/ j = Len(delivered) + 1)
    BY <1>3, <1>4
  <2>2. CASE j \in 1 .. Len(delivered)
    BY <1>3, <1>4, <2>1, <2>2 DEF OnlyFallbacksOvertaken
  <2>3. CASE j = Len(delivered) + 1
    BY <1>3, <2>1, <2>3
  <2> QED  BY <2>1, <2>2, <2>3
<1>5. delivered' = t
  BY DEF t
<1>6. OnlyFallbacksOvertaken'
  BY <1>4, <1>5 DEF OnlyFallbacksOvertaken
<1> QED  BY <1>2, <1>6

\* Nothing follows a Done that travelled as an envelope, and with the frames of
\* the ring signalled before it nothing is left to read.
LEMMA EnvelopeOrder ==
  ASSUME RingInv, InOrder, ClosedIsEmpty, OnlyFallbacksOvertaken, ~overlapped, OnEnvelope
  PROVE  InOrder' /\ OnlyFallbacksOvertaken' /\ LossOnlyOfFallbacks'
<1> DEFINE n == Head(queue)
<1>1. /\ stream = "open" /\ batch = 0 /\ views = << >> /\ queue # << >> /\ n # Signal
      /\ Handle(n)
      /\ queue' = IF stream' = "open" THEN Tail(queue) ELSE << >>
      /\ UNCHANGED <<slot, used, cursor, worker, next, last, inRing, readCursor, batch,
                     views, overlapped>>
  BY DEF OnEnvelope, Idle, ring, sender
<1>2. /\ \A k \in 0 .. used - 1 : Frame(k)' = Frame(k)
      /\ Unread(0)' = Unread(0) /\ \A b \in 0 .. used : Unread(b)' = Unread(b)
  BY <1>1, UnreadKept
<1>3. /\ Unread(batch)' = Unread(batch) /\ Unread(batch) = Unread(0)
      /\ Shown(views) = {} /\ Shown(views)' = {} /\ Fresh' = Fresh
  BY <1>1, <1>2, UnreadFacts, NoElements DEF Fresh, Shown, Unread
<1>4. /\ queue \in Seq(Message) /\ EnvelopesAscend(queue)
      /\ n \in Message /\ n \in FrameIds
      /\ ToSet(queue) = ToSet(Tail(queue)) \cup {n}
  <2>1. queue \in Seq(Message) /\ EnvelopesAscend(queue)
    BY OrderFacts DEF InOrder, EnvelopesInOrder
  <2>2. n \in Message
    BY <1>1, <2>1
  <2> QED  BY <1>1, <2>1, <2>2, Elements DEF Message
<1>5. /\ EnvelopesAscend(Tail(queue))
      /\ \A m \in ToSet(Tail(queue)) \ {Signal} : n < m
      /\ Signal \in ToSet(queue) => Signal \in ToSet(Tail(queue))
      /\ \A m \in FrameIds :
           SignalBefore(queue, m) => SignalBefore(Tail(queue), m) /\ n <= m
  BY <1>1, <1>4, QueueTail
<1> HIDE DEF n
<1>6. n \notin inRing /\ n < Fresh /\ n \in Nat \ {0}
  BY <1>4, OrderFacts DEF InOrder, EnvelopesInOrder
<1>7. \A m \in Unread(0) : n < m
  <2> SUFFICES ASSUME NEW m \in Unread(0) PROVE n < m
    OBVIOUS
  <2>1. m \in inRing /\ m \in FrameIds /\ m # n
    BY <1>6, UnreadFacts
  <2>2. n <= m
    BY <1>1, <1>3, <1>5, <2>1 DEF InOrder, Signalled
  <2> QED  BY <1>6, <2>1, <2>2, OrderFacts
<1>8. \A d \in ToSet(delivered) : d < n \/ (d > n /\ d \in inRing /\ n \notin inRing)
  <2> SUFFICES ASSUME NEW d \in ToSet(delivered), ~(d < n)
               PROVE  d > n /\ d \in inRing /\ n \notin inRing
    OBVIOUS
  <2>1. d \in inRing
    BY <1>1, <1>4 DEF InOrder, EnvelopesInOrder
  <2>2. d \in Nat /\ d # n
    BY <1>6, <2>1, OrderFacts
  <2> QED  BY <1>6, <2>1, <2>2
<1>9. \A i \in 1 .. Len(views)' : Intact(views[i])'
  BY <1>1 DEF InOrder, Intact
<1>10. CASE n = last
  <2>1. stream' = "done" /\ delivered' = delivered /\ queue' = << >>
    BY <1>1, <1>6, <1>10 DEF Handle, Garbled
  <2>2. ToSet(queue') = {}
    BY <2>1, NoElements
  <2>3. EnvelopesInOrder'
    <3>1. EnvelopesAscend(queue')
      BY <2>1 DEF EnvelopesAscend
    <3> QED  BY <1>1, <1>3, <2>1, <2>2, <3>1 DEF InOrder, EnvelopesInOrder
  <2>4. RingInOrder'
    BY <1>1, <1>2, <1>3, <2>1 DEF InOrder, RingInOrder
  <2>5. InOrder'
    BY <1>9, <2>1, <2>3, <2>4 DEF InOrder, Signalled, NothingLost
  <2>6. OnlyFallbacksOvertaken'
    BY <1>1, <2>1 DEF OnlyFallbacksOvertaken
  <2>7. last = next - 1 /\ next \in Nat
    BY <1>6, <1>10, UnreadFacts DEF ClosedIsEmpty
  <2>8. ASSUME NEW m \in 1 .. last - 1 PROVE m \in ToSet(delivered)
    <3>1. m < n /\ m \in 1 .. Fresh - 1 /\ m # Signal
      BY <1>6, <1>10, <2>7, OrderFacts DEF Signal
    <3>2. m \in ToSet(delivered) \cup ToSet(queue) \cup Shown(views) \cup Unread(0)
      BY <1>1, <3>1 DEF InOrder, NothingLost
    <3>3. m \notin Unread(0) /\ m \notin ToSet(queue)
      BY <1>4, <1>5, <1>6, <1>7, <3>1
    <3> QED  BY <1>3, <3>2, <3>3
  <2>9. inRing \ {last} \subseteq 1 .. last - 1
    <3>1. \A m \in inRing : m \in Nat \ {0} /\ m < next
      BY UnreadFacts, OrderFacts
    <3> QED  BY <2>7, <3>1
  <2>10. LossOnlyOfFallbacks'
    BY <1>1, <2>1, <2>8, <2>9 DEF LossOnlyOfFallbacks
  <2> QED  BY <2>5, <2>6, <2>10
<1>11. CASE n # last
  <2>1. stream' = "open" /\ delivered' = Append(delivered, n) /\ queue' = Tail(queue)
    BY <1>1, <1>11 DEF Handle
  <2>2. OnlyFallbacksOvertaken' /\ ToSet(delivered') = ToSet(delivered) \cup {n}
    BY <1>1, <1>4, <1>8, <2>1, DeliveredNext
  <2>3. RingInOrder'
    BY <1>1, <1>2, <1>3, <1>7, <2>2 DEF InOrder, RingInOrder
  <2>4. EnvelopesInOrder'
    BY <1>1, <1>3, <1>4, <1>5, <1>6, <2>1, <2>2 DEF InOrder, EnvelopesInOrder
  <2>5. Signalled'
    <3> SUFFICES ASSUME NEW m \in Unread(batch)
                 PROVE  /\ SignalBefore(queue', m)
                        /\ Signal \in ToSet(queue') \/ (worker = "signalling" /\ m = next - 1)
      BY <1>1, <1>3 DEF Signalled
    <3>1. m \in FrameIds
      BY UnreadFacts
    <3> QED  BY <1>1, <1>5, <2>1, <3>1 DEF InOrder, Signalled
  <2>6. NothingLost'
    BY <1>1, <1>2, <1>3, <1>4, <2>1, <2>2 DEF InOrder, NothingLost
  <2>7. InOrder'
    BY <1>9, <2>3, <2>4, <2>5, <2>6 DEF InOrder
  <2>8. LossOnlyOfFallbacks'
    BY <2>1 DEF LossOnlyOfFallbacks
  <2> QED  BY <2>2, <2>7, <2>8
<1> QED  BY <1>10, <1>11

\* drain() takes every frame it finds: none is left for a later signal.
LEMMA DrainOrder ==
  ASSUME RingInv, InOrder, OnSignal PROVE InOrder'
<1>1. /\ stream = "open" /\ queue # << >> /\ Head(queue) = Signal
      /\ queue' = Tail(queue) /\ batch' = used
      /\ UNCHANGED <<slot, used, worker, next, inRing, readCursor, views, delivered, stream>>
  BY DEF OnSignal, Idle, ring, sender
<1>2. /\ \A k \in 0 .. used - 1 : Frame(k)' = Frame(k)
      /\ Unread(0)' = Unread(0)
  BY <1>1, UnreadKept
<1>3. Unread(batch)' = {} /\ Shown(views)' = Shown(views) /\ Fresh' = Fresh
  <2>1. used .. used - 1 = {}
    BY UnreadFacts
  <2> QED  BY <1>1, <2>1 DEF Fresh, Shown, Unread
<1>4. queue \in Seq(Message) /\ EnvelopesAscend(queue)
  BY OrderFacts DEF InOrder, EnvelopesInOrder
<1>5. ToSet(queue) = ToSet(queue') \cup {Signal} /\ EnvelopesAscend(queue')
  BY <1>1, <1>4, Elements, QueueTail DEF Message
<1>6. \A i \in 1 .. Len(views)' : Intact(views[i])'
  BY <1>1 DEF InOrder, Intact
<1>7. RingInOrder'
  BY <1>1, <1>2, <1>3 DEF InOrder, RingInOrder
<1>8. EnvelopesInOrder'
  BY <1>1, <1>3, <1>5 DEF InOrder, EnvelopesInOrder
<1>9. Signalled'
  BY <1>3 DEF Signalled
<1>10. NothingLost'
  <2>1. Signal \notin 1 .. Fresh - 1
    BY OrderFacts DEF Signal
  <2> QED  BY <1>1, <1>2, <1>3, <1>5, <2>1 DEF InOrder, NothingLost
<1> QED  BY <1>6, <1>7, <1>8, <1>9, <1>10 DEF InOrder

LEMMA ReadOrder ==
  ASSUME RingInv, InOrder, ReadSlot PROVE InOrder'
<1> DEFINE v == [slot |-> readCursor, no |-> slot[readCursor].no]
<1>1. /\ views' = Append(views, v)
      /\ UNCHANGED <<slot, worker, next, inRing, queue, delivered, stream>>
  BY DEF ReadSlot, sender
<1>2. /\ \A k \in 0 .. used' - 1 : Frame(k)' = Frame(k + 1) /\ k + 1 \in 0 .. used - 1
      /\ 0 \in 0 .. used - 1 /\ used' = used - 1
      /\ Unread(0) = Unread(0)' \cup {Frame(0)}
      /\ Unread(batch)' = Unread(batch)
      /\ Frame(0) = slot[readCursor].no /\ slot[readCursor].whole
  BY UnreadRead
<1>3. v \in View /\ v.no = Frame(0) /\ Frame(0) \in inRing /\ v.slot = readCursor
      /\ Frame(0) \in Unread(0)
  <2>1. Frame(0) \in inRing /\ Frame(0) \in FrameIds /\ Frame(0) \in Unread(0)
    BY <1>2, UnreadFacts
  <2> QED  BY <1>2, <2>1 DEF RingInv, TypeOK, View
<1>4. slot[readCursor] = [no |-> v.no, whole |-> TRUE]
  <2>1. slot[readCursor] \in [no : FrameIds \cup {0}, whole : BOOLEAN]
    BY DEF RingInv, TypeOK
  <2>2. slot[readCursor].no = v.no /\ slot[readCursor].whole = TRUE
    BY <1>2, <2>1
  <2> QED  BY <2>1, <2>2
<1> HIDE DEF v
<1>5. /\ views \in Seq(View) /\ ViewsAscend(views)
      /\ \A m \in Shown(views) : \A n \in Unread(0) : m < n
  BY OrderFacts DEF InOrder, RingInOrder
<1>6. Shown(views)' = Shown(views) \cup {Frame(0)} /\ ViewsAscend(views')
  <2>1. \A m \in Shown(views) : m < v.no
    BY <1>3, <1>5
  <2>2. Shown(Append(views, v)) = Shown(views) \cup {v.no} /\ ViewsAscend(Append(views, v))
    BY <1>3, <1>5, <2>1, ViewsAppend
  <2>3. Shown(views)' = Shown(views')
    BY DEF Shown
  <2> QED  BY <1>1, <1>3, <2>2, <2>3
<1>7. \A i \in 1 .. Len(views)' : Intact(views[i])'
  <2> SUFFICES ASSUME NEW i \in 1 .. Len(views') PROVE Intact(views[i])'
    OBVIOUS
  <2> DEFINE t == Append(views, v)
  <2>1. /\ i \in 1 .. Len(views) \/ i = Len(views) + 1
        /\ t[Len(views) + 1] = v
        /\ \A j \in 1 .. Len(views) : t[j] = views[j]
    BY <1>1, <1>5
  <2> HIDE DEF t
  <2>2. views' = t
    BY <1>1 DEF t
  <2>3. CASE i \in 1 .. Len(views)
    BY <1>1, <2>1, <2>2, <2>3 DEF InOrder, Intact
  <2>4. CASE i = Len(views) + 1
    BY <1>1, <1>3, <1>4, <2>1, <2>2, <2>4 DEF Intact
  <2> QED  BY <2>1, <2>3, <2>4
<1>8. RingInOrder'
  <2>1. \A j, k \in 0 .. used' - 1 : j < k => Frame(j)' < Frame(k)'
    <3> SUFFICES ASSUME NEW j \in 0 .. used' - 1, NEW k \in 0 .. used' - 1, j < k
                 PROVE  Frame(j)' < Frame(k)'
      OBVIOUS
    <3>1. j + 1 < k + 1
      OBVIOUS
    <3> QED  BY <1>2, <3>1 DEF InOrder, RingInOrder
  <2>2. \A n \in Unread(0)' : Frame(0) < n
    <3> SUFFICES ASSUME NEW k \in 0 .. used' - 1 PROVE Frame(0) < Frame(k)'
      BY DEF Unread
    <3>1. 0 < k + 1
      OBVIOUS
    <3> QED  BY <1>2, <3>1 DEF InOrder, RingInOrder
  <2>3. \A m \in Shown(views)' : \A n \in Unread(0)' : m < n
    BY <1>2, <1>5, <1>6, <2>2
  <2>4. Shown(views)' \cup Unread(0)' = Shown(views) \cup Unread(0)
    BY <1>2, <1>6
  <2>5. Shown(views)' \subseteq inRing'
    BY <1>1, <1>3, <1>6 DEF InOrder, RingInOrder
  <2> QED
    BY <1>1, <1>6, <2>1, <2>3, <2>4, <2>5 DEF InOrder, RingInOrder
<1>9. EnvelopesInOrder'
  <2>1. Frame(0) < Fresh /\ Fresh' = Fresh
    BY <1>1, <1>3, UnreadFacts DEF Fresh
  <2> QED  BY <1>1, <1>6, <2>1 DEF InOrder, EnvelopesInOrder
<1>10. Signalled'
  BY <1>1, <1>2 DEF InOrder, Signalled
<1>11. NothingLost'
  <2>1. Fresh' = Fresh
    BY <1>1 DEF Fresh
  <2> QED  BY <1>1, <1>2, <1>6, <2>1 DEF InOrder, NothingLost
<1> QED  BY <1>7, <1>8, <1>9, <1>10, <1>11 DEF InOrder

\* A view that is still whole is older than everything that is yet to come from
\* the ring; and a Done from the ring is the last of it.
LEMMA ParseOrder ==
  ASSUME RingInv, InOrder, ClosedIsEmpty, OnlyFallbacksOvertaken, ~overlapped, ParseView
  PROVE  InOrder' /\ OnlyFallbacksOvertaken' /\ LossOnlyOfFallbacks'
<1>1. /\ batch = 0 /\ views # << >> /\ stream = "open"
      /\ UNCHANGED <<slot, used, cursor, worker, next, last, inRing, readCursor, batch,
                     overlapped>>
  BY DEF ParseView, ring, sender, ClosedIsEmpty
<1>2. /\ views \in Seq(View) /\ ViewsAscend(views)
  BY OrderFacts DEF InOrder, RingInOrder
<1>3. /\ Head(views) \in View /\ Head(views) = views[1] /\ 1 \in 1 .. Len(views)
      /\ Shown(views) = Shown(Tail(views)) \cup {Head(views).no}
      /\ \A n \in Shown(Tail(views)) : Head(views).no < n
      /\ ViewsAscend(Tail(views))
      /\ \A i \in 1 .. Len(Tail(views)) :
           i + 1 \in 1 .. Len(views) /\ Tail(views)[i] = views[i + 1]
  BY <1>1, <1>2, ViewsTail
<1> DEFINE n == Head(views).no
<1>4. /\ Handle(n)
      /\ queue' = IF stream' = "open" THEN queue ELSE << >>
      /\ views' = IF stream' = "open" THEN Tail(views) ELSE << >>
  <2>1. Intact(Head(views))
    BY <1>3 DEF InOrder
  <2> QED  BY <2>1 DEF ParseView
<1>5. n \in FrameIds
  BY <1>3 DEF View
<1> HIDE DEF n
<1>6. /\ \A k \in 0 .. used - 1 : Frame(k)' = Frame(k)
      /\ Unread(0)' = Unread(0) /\ \A b \in 0 .. used : Unread(b)' = Unread(b)
  BY <1>1, UnreadKept
<1>7. /\ Unread(batch)' = Unread(batch) /\ Unread(batch) = Unread(0) /\ Fresh' = Fresh
  BY <1>1, <1>6, UnreadFacts DEF Fresh, Unread
<1>8. /\ n \in Shown(views) /\ Shown(views) = Shown(Tail(views)) \cup {n}
      /\ \A m \in Shown(Tail(views)) : n < m
  BY <1>3 DEF n
<1>9. /\ n \in inRing /\ n < Fresh /\ n \in Nat \ {0}
      /\ \A m \in Unread(0) : n < m
      /\ \A d \in ToSet(delivered) : d < n
  BY <1>5, <1>8, OrderFacts DEF InOrder, RingInOrder, EnvelopesInOrder
<1>10. CASE n = last
  <2>1. stream' = "done" /\ delivered' = delivered /\ queue' = << >> /\ views' = << >>
    BY <1>4, <1>9, <1>10 DEF Handle, Garbled
  <2>2. ToSet(queue') = {} /\ Shown(views)' = {}
    BY <2>1, NoElements DEF Shown
  <2>3. EnvelopesInOrder'
    <3>1. EnvelopesAscend(queue')
      BY <2>1 DEF EnvelopesAscend
    <3> QED  BY <1>1, <1>7, <2>1, <2>2, <3>1 DEF InOrder, EnvelopesInOrder
  <2>4. RingInOrder'
    <3>1. ViewsAscend(views')
      BY <2>1 DEF ViewsAscend
    <3> QED  BY <1>1, <1>6, <2>1, <2>2, <3>1 DEF InOrder, RingInOrder
  <2>5. InOrder'
    BY <2>1, <2>3, <2>4 DEF InOrder, Signalled, NothingLost
  <2>6. OnlyFallbacksOvertaken'
    BY <1>1, <2>1 DEF OnlyFallbacksOvertaken
  <2>7. last = next - 1 /\ next \in Nat
    BY <1>9, <1>10, UnreadFacts DEF ClosedIsEmpty
  <2>8. ASSUME NEW m \in inRing \ {last} PROVE m \in ToSet(delivered)
    <3>1. m < n /\ m \in 1 .. Fresh - 1
      <4>1. m \in Nat \ {0} /\ m < next /\ Fresh \in Nat
        BY UnreadFacts, OrderFacts
      <4> QED  BY <1>9, <1>10, <2>7, <4>1
    <3>2. m \in ToSet(delivered) \cup ToSet(queue) \cup Shown(views) \cup Unread(0)
      BY <1>1, <3>1 DEF InOrder, NothingLost
    <3>3. m \notin Unread(0) /\ m \notin Shown(views)
      BY <1>8, <1>9, <3>1
    <3>4. m \notin ToSet(queue)
      BY DEF InOrder, EnvelopesInOrder
    <3> QED  BY <3>2, <3>3, <3>4
  <2>9. LossOnlyOfFallbacks'
    BY <1>1, <1>9, <1>10, <2>1, <2>8 DEF LossOnlyOfFallbacks
  <2> QED  BY <2>5, <2>6, <2>9
<1>11. CASE n # last
  <2>1. /\ stream' = "open" /\ delivered' = Append(delivered, n) /\ queue' = queue
        /\ views' = Tail(views)
    BY <1>1, <1>4, <1>11 DEF Handle
  <2>2. OnlyFallbacksOvertaken' /\ ToSet(delivered') = ToSet(delivered) \cup {n}
    BY <1>1, <1>5, <1>9, <2>1, DeliveredNext
  <2>3. Shown(views)' = Shown(Tail(views))
    BY <2>1 DEF Shown
  <2>4. \A i \in 1 .. Len(views)' : Intact(views[i])'
    BY <1>1, <1>3, <2>1 DEF InOrder, Intact
  <2>5. RingInOrder'
    <3>1. ViewsAscend(views')
      BY <1>3, <2>1
    <3> QED  BY <1>1, <1>6, <1>8, <1>9, <2>2, <2>3, <3>1 DEF InOrder, RingInOrder
  <2>6. EnvelopesInOrder'
    BY <1>1, <1>7, <1>8, <1>9, <2>1, <2>2, <2>3 DEF InOrder, EnvelopesInOrder
  <2>7. Signalled'
    BY <1>1, <1>7, <2>1 DEF InOrder, Signalled
  <2>8. NothingLost'
    BY <1>1, <1>6, <1>7, <1>8, <2>1, <2>2, <2>3 DEF InOrder, NothingLost
  <2>9. InOrder'
    BY <2>4, <2>5, <2>6, <2>7, <2>8 DEF InOrder
  <2>10. LossOnlyOfFallbacks'
    BY <2>1 DEF LossOnlyOfFallbacks
  <2> QED  BY <2>2, <2>9, <2>10
<1> QED  BY <1>10, <1>11

-----------------------------------------------------------------------------
(* Every step.                                                             *)

LEMMA SendSteps ==
  ASSUME RingInv, Send \/ SendDone
  PROVE  /\ worker = "ready" /\ last = 0 /\ next \in FrameIds
         /\ SendFrame(next, FALSE) \/ SendFrame(next, TRUE)
         /\ (BeginWrite(next) /\ used < Slots) \/ FallBack(next)
         /\ next' = next + 1 /\ (last' = last \/ last' = next)
         /\ UNCHANGED <<reader, used>>
<1>1. PICK large \in BOOLEAN : SendFrame(next, large)
  BY DEF Send, SendDone
<1>2. next \in FrameIds
  <2>1. CASE Send
    BY <2>1 DEF Send, RingInv, TypeOK, FrameIds
  <2>2. CASE SendDone
    BY <2>2 DEF SendDone, SendFrame, RingInv, TypeOK, FramesNumbered, FrameIds
  <2> QED  BY <2>1, <2>2
<1>3. last' = last \/ last' = next
  BY DEF Send, SendDone
<1> QED  BY <1>1, <1>2, <1>3 DEF SendFrame, Publishable

LEMMA ClosedStep ==
  ASSUME RingInv, ClosedIsEmpty, [Next]_vars PROVE ClosedIsEmpty'
<1> USE DEF ClosedIsEmpty
<1>1. ASSUME Send \/ SendDone PROVE ClosedIsEmpty'
  <2>1. /\ last = 0 /\ UNCHANGED <<batch, views, stream>>
        /\ stream # "open" => queue' = queue
        /\ next' = next + 1 /\ next \in FrameIds
        /\ (Send /\ last' = last) \/ last' = next
    BY <1>1, SendSteps DEF BeginWrite, FallBack, Post, reader, Send, SendDone
  <2>2. next' - 1 = next
    BY <2>1 DEF FrameIds
  <2> QED  BY <2>1, <2>2
<1>2. ASSUME Publish \/ PostSignal PROVE ClosedIsEmpty'
  BY <1>2 DEF Publish, PostSignal, Post, reader
<1>3. ASSUME OnEnvelope \/ ParseView PROVE ClosedIsEmpty'
  <2>1. PICK n : Handle(n)
    BY <1>3 DEF OnEnvelope, ParseView
  <2>2. /\ stream = "open" /\ batch' = 0 /\ UNCHANGED <<next, last>>
        /\ stream' # "open" => queue' = << >> /\ views' = << >>
    BY <1>3 DEF OnEnvelope, ParseView, Idle, sender
  <2>3. stream' = "open" \/ (stream' = "done" /\ last # 0)
    BY <2>1, <2>2 DEF Handle, Garbled
  <2> QED  BY <2>2, <2>3
<1>4. ASSUME OnSignal \/ ReadSlot \/ ParseFails \/ CancelStream PROVE ClosedIsEmpty'
  BY <1>4 DEF OnSignal, ReadSlot, ParseFails, CancelStream, Idle, sender, RingInv, TypeOK
<1>5. ASSUME UNCHANGED vars PROVE ClosedIsEmpty'
  BY <1>5 DEF vars, sender, reader
<1> QED  BY <1>1, <1>2, <1>3, <1>4, <1>5 DEF Next, Worker, Page

Delivery == OnlyFallbacksOvertaken /\ LossOnlyOfFallbacks

LEMMA OrderStep ==
  ASSUME IInv, [Next]_vars, ~overlapped'
  PROVE  InOrder' /\ Delivery'
<1>1. RingInv /\ ClosedIsEmpty /\ Delivery /\ (~overlapped => InOrder)
  BY DEF IInv, Delivery
<1>2. ~overlapped
  <2>1. overlapped' = overlapped \/ \E n : BeginWrite(n)
    BY DEF Next, Worker, Page, Send, SendDone, SendFrame, FallBack, Publish, PostSignal,
           OnEnvelope, OnSignal, ReadSlot, ParseView, ParseFails, CancelStream, vars
  <2> QED  BY <2>1 DEF BeginWrite
<1>3. InOrder /\ OnlyFallbacksOvertaken
  BY <1>1, <1>2 DEF Delivery
<1>4. ASSUME delivered' = delivered, inRing' = inRing, last' = last,
             stream' = stream \/ stream' # "done"
      PROVE  Delivery'
  BY <1>1, <1>2, <1>4 DEF Delivery, OnlyFallbacksOvertaken, LossOnlyOfFallbacks
<1>5. ASSUME Send \/ SendDone PROVE InOrder' /\ Delivery'
  <2>1. /\ worker = "ready" /\ last = 0 /\ next \in FrameIds
        /\ SendFrame(next, FALSE) \/ SendFrame(next, TRUE)
        /\ (BeginWrite(next) /\ used < Slots) \/ FallBack(next)
        /\ UNCHANGED <<delivered, stream>>
    BY <1>1, <1>5, SendSteps DEF reader
  <2>2. InOrder'
    BY <1>1, <1>3, <2>1, WriteOrder, FallBackOrder
  <2>3. stream # "done"
    BY <1>1, <2>1 DEF ClosedIsEmpty
  <2>4. inRing' = inRing \/ inRing' = inRing \cup {next}
    BY <2>1 DEF BeginWrite, FallBack
  <2>5. next \notin ToSet(delivered)
    <3>1. Fresh = next
      BY <2>1 DEF Fresh
    <3>2. \A d \in ToSet(delivered) : d < next
      BY <1>3, <3>1 DEF InOrder, EnvelopesInOrder
    <3> QED  BY <2>1, <3>2, OrderFacts, <1>1
  <2>6. \A i \in DOMAIN delivered : delivered[i] # next
    BY <2>5 DEF ToSet
  <2>7. OnlyFallbacksOvertaken'
    BY <1>2, <1>3, <2>1, <2>4, <2>6 DEF OnlyFallbacksOvertaken
  <2> QED  BY <2>1, <2>2, <2>3, <2>7 DEF Delivery, LossOnlyOfFallbacks
<1>6. ASSUME Publish PROVE InOrder' /\ Delivery'
  BY <1>1, <1>3, <1>4, <1>6, PublishOrder DEF Publish, reader
<1>7. ASSUME PostSignal PROVE InOrder' /\ Delivery'
  BY <1>1, <1>3, <1>4, <1>7, SignalOrder DEF PostSignal, reader
<1>8. ASSUME OnEnvelope PROVE InOrder' /\ Delivery'
  BY <1>1, <1>2, <1>3, <1>8, EnvelopeOrder DEF Delivery
<1>9. ASSUME OnSignal PROVE InOrder' /\ Delivery'
  BY <1>1, <1>3, <1>4, <1>9, DrainOrder DEF OnSignal, sender
<1>10. ASSUME ReadSlot PROVE InOrder' /\ Delivery'
  BY <1>1, <1>3, <1>4, <1>10, ReadOrder DEF ReadSlot, sender
<1>11. ASSUME ParseView PROVE InOrder' /\ Delivery'
  BY <1>1, <1>2, <1>3, <1>11, ParseOrder DEF Delivery
<1>12. ASSUME ParseFails PROVE FALSE
  <2>1. views \in Seq(View) /\ views # << >>
    BY <1>1, <1>12, OrderFacts DEF ParseFails
  <2>2. Head(views) = views[1] /\ 1 \in 1 .. Len(views)
    BY <2>1
  <2> QED  BY <1>3, <1>12, <2>2 DEF ParseFails, InOrder
<1>13. ASSUME CancelStream PROVE InOrder' /\ Delivery'
  <2>1. /\ stream' = "cancelled" /\ queue' = << >>
        /\ UNCHANGED <<slot, used, worker, next, last, inRing, readCursor, batch, views,
                       delivered, overlapped>>
    BY <1>13 DEF CancelStream, ring, sender
  <2>2. ToSet(queue') = {} /\ EnvelopesAscend(queue')
    BY <2>1, NoElements DEF EnvelopesAscend
  <2>3. /\ \A k \in 0 .. used - 1 : Frame(k)' = Frame(k)
        /\ Unread(0)' = Unread(0) /\ Shown(views)' = Shown(views) /\ Fresh' = Fresh
    BY <1>1, <2>1, UnreadKept DEF Shown, Fresh
  <2>4. \A i \in 1 .. Len(views)' : Intact(views[i])'
    BY <1>3, <2>1 DEF InOrder, Intact
  <2>5. RingInOrder'
    BY <1>3, <2>1, <2>3 DEF InOrder, RingInOrder
  <2>6. EnvelopesInOrder'
    BY <1>3, <2>1, <2>2, <2>3 DEF InOrder, EnvelopesInOrder
  <2>7. Signalled' /\ NothingLost'
    BY <2>1 DEF Signalled, NothingLost
  <2>8. Delivery'
    BY <1>4, <2>1
  <2> QED  BY <2>4, <2>5, <2>6, <2>7, <2>8 DEF InOrder
<1>14. ASSUME UNCHANGED vars PROVE InOrder' /\ Delivery'
  BY <1>3, <1>4, <1>14
     DEF vars, ring, sender, reader, InOrder, Intact, RingInOrder, EnvelopesInOrder, Signalled,
         NothingLost, Frame, Unread, UnreadSlot, Shown, Fresh
<1> QED
  BY <1>5, <1>6, <1>7, <1>8, <1>9, <1>10, <1>11, <1>12, <1>13, <1>14 DEF Next, Worker, Page

LEMMA OrderInit == Init => IInv
<1> SUFFICES ASSUME Init PROVE IInv
  OBVIOUS
<1>1. RingInv
  BY InitInv
<1>2. /\ used = 0 /\ queue = << >> /\ views = << >> /\ delivered = << >> /\ stream = "open"
      /\ next = 1 /\ last = 0 /\ inRing = {} /\ batch = 0 /\ worker = "ready"
  BY DEF Init
<1>3. ClosedIsEmpty
  BY <1>2 DEF ClosedIsEmpty
<1>4. /\ ToSet(queue) = {} /\ ToSet(delivered) = {} /\ Shown(views) = {} /\ Unread(0) = {}
      /\ Unread(batch) = {}
  BY <1>2, NoElements DEF Unread
<1>5. EnvelopesAscend(queue) /\ ViewsAscend(views)
  BY <1>2 DEF EnvelopesAscend, ViewsAscend
<1>6. InOrder
  BY <1>2, <1>4, <1>5 DEF InOrder, RingInOrder, EnvelopesInOrder, Signalled, NothingLost, Fresh
<1>7. OnlyFallbacksOvertaken /\ LossOnlyOfFallbacks
  BY <1>2 DEF OnlyFallbacksOvertaken, LossOnlyOfFallbacks
<1> QED  BY <1>1, <1>3, <1>6, <1>7 DEF IInv

\* The inductive invariant of the ring and the port together holds in every
\* reachable state.
THEOREM Invariance == Spec => []IInv
<1>1. IInv /\ [Next]_vars => IInv'
  <2> SUFFICES ASSUME IInv, [Next]_vars PROVE IInv'
    OBVIOUS
  <2>1. RingInv'
    BY TypeStep, UnreadStep, NumberedStep DEF IInv, RingInv
  <2>2. ClosedIsEmpty'
    BY ClosedStep DEF IInv
  <2>3. ~overlapped' => InOrder' /\ Delivery'
    BY OrderStep
  <2>4. overlapped' => Delivery'
    BY DEF Delivery, OnlyFallbacksOvertaken, LossOnlyOfFallbacks
  <2>5. Delivery'
    BY <2>3, <2>4
  <2>6. QED
    BY <2>1, <2>2, <2>3, <2>5 DEF IInv, Delivery
<1>2. QED
  BY <1>1, OrderInit, PTL DEF Spec

\* As long as no slot is overwritten under a view, the listener gets every frame
\* at most once, and out of order only a frame that fell back to the envelope.
THEOREM OnlyFallbacksOvertakenHolds == Spec => []OnlyFallbacksOvertaken
<1>1. IInv => OnlyFallbacksOvertaken
  BY DEF IInv
<1>2. QED
  BY <1>1, Invariance, PTL

\* As long as no slot is overwritten under a view, a stream that ended with Done
\* has delivered every frame of the ring, and every frame when Done travelled
\* as an envelope.
THEOREM LossOnlyOfFallbacksHolds == Spec => []LossOnlyOfFallbacks
<1>1. IInv => LossOnlyOfFallbacks
  BY DEF IInv
<1>2. QED
  BY <1>1, Invariance, PTL
=============================================================================
