-------------------------- MODULE BlockStreamProofs --------------------------
(***************************************************************************)
(* The invariant of BlockStream and what follows from it, for every        *)
(* window, batch size and length of the stream.                            *)
(*                                                                         *)
(* The proof looks at the line: what the application has got, followed by  *)
(* everything between it and the handler.  A step appends to the line, cuts *)
(* its end off (the worker dies), moves the borders between its parts, or  *)
(* is one of the two exceptions, the strategies that drop and the Error    *)
(* that overtakes.  For each of these one lemma says what becomes of the   *)
(* line; order, ends and numbers follow from that alone.  The credits are  *)
(* counted with the totals of Sums.                                        *)
(***************************************************************************)
EXTENDS BlockStream, Sums, SequenceTheorems, TLAPS

USE BlockStreamAssumption, BackpressureAssumption

-----------------------------------------------------------------------------
(* Sequences of events.                                                    *)

Ahead(s, t) == \A e \in ToSet(s), f \in ToSet(t) : Precedes(e, f)

LEMMA Join ==
  ASSUME NEW s \in Seq(Events), NEW t \in Seq(Events)
  PROVE  /\ s \o t \in Seq(Events)
         /\ Len(s \o t) = Len(s) + Len(t)
         /\ ToSet(s \o t) = ToSet(s) \cup ToSet(t)
         /\ InOrder(s \o t) <=> InOrder(s) /\ InOrder(t) /\ Ahead(s, t)
<1> DEFINE u == s \o t
<1>1. /\ u \in Seq(Events) /\ Len(u) = Len(s) + Len(t)
      /\ \A i \in 1 .. Len(s) : u[i] = s[i]
      /\ \A i \in 1 .. Len(t) : u[Len(s) + i] = t[i]
      /\ Len(s) \in Nat /\ Len(t) \in Nat
      /\ DOMAIN s = 1 .. Len(s) /\ DOMAIN t = 1 .. Len(t) /\ DOMAIN u = 1 .. Len(u)
  OBVIOUS
<1> HIDE DEF u
<1>2. /\ \A i \in 1 .. Len(u) : i \in 1 .. Len(s)
           \/ (i - Len(s) \in 1 .. Len(t) /\ Len(s) + (i - Len(s)) = i)
      /\ \A i \in 1 .. Len(s) : i \in 1 .. Len(u)
      /\ \A i \in 1 .. Len(t) : Len(s) + i \in 1 .. Len(u)
  BY <1>1
<1>3. ToSet(u) = ToSet(s) \cup ToSet(t)
  <2>1. /\ ToSet(u) = {u[i] : i \in 1 .. Len(u)}
        /\ ToSet(s) = {s[i] : i \in 1 .. Len(s)}
        /\ ToSet(t) = {t[i] : i \in 1 .. Len(t)}
    BY <1>1 DEF ToSet
  <2>2. ASSUME NEW i \in 1 .. Len(u) PROVE u[i] \in ToSet(s) \cup ToSet(t)
    <3>1. CASE i \in 1 .. Len(s)
      BY <1>1, <2>1, <3>1
    <3>2. CASE i - Len(s) \in 1 .. Len(t) /\ Len(s) + (i - Len(s)) = i
      <4>1. u[i] = t[i - Len(s)]
        BY <1>1, <3>2
      <4> QED  BY <2>1, <3>2, <4>1
    <3> QED  BY <1>2, <3>1, <3>2
  <2>3. \A i \in 1 .. Len(s) : s[i] \in ToSet(u)
    BY <1>1, <1>2, <2>1
  <2>4. \A i \in 1 .. Len(t) : t[i] \in ToSet(u)
    BY <1>1, <1>2, <2>1
  <2> QED  BY <2>1, <2>2, <2>3, <2>4
<1>4. ASSUME InOrder(u) PROVE InOrder(s) /\ InOrder(t) /\ Ahead(s, t)
  <2>1. InOrder(s)
    BY <1>1, <1>2, <1>4 DEF InOrder
  <2>2. InOrder(t)
    <3> SUFFICES ASSUME NEW i \in 1 .. Len(t), NEW j \in 1 .. Len(t), i < j
                 PROVE  Precedes(t[i], t[j])
      BY DEF InOrder
    <3>1. Len(s) + i < Len(s) + j
      BY <1>1
    <3> QED  BY <1>1, <1>2, <1>4, <3>1 DEF InOrder
  <2>3. ASSUME NEW i \in 1 .. Len(s), NEW j \in 1 .. Len(t) PROVE Precedes(s[i], t[j])
    <3>1. i < Len(s) + j
      BY <1>1
    <3> QED  BY <1>1, <1>2, <1>4, <3>1 DEF InOrder
  <2> QED  BY <1>1, <2>1, <2>2, <2>3 DEF Ahead, ToSet
<1>5. ASSUME InOrder(s), InOrder(t), Ahead(s, t) PROVE InOrder(u)
  <2> SUFFICES ASSUME NEW i \in 1 .. Len(u), NEW j \in 1 .. Len(u), i < j
               PROVE  Precedes(u[i], u[j])
    BY DEF InOrder
  <2>1. CASE j \in 1 .. Len(s)
    <3>1. i \in 1 .. Len(s)
      BY <1>1, <2>1
    <3> QED  BY <1>1, <1>5, <2>1, <3>1 DEF InOrder
  <2>2. CASE j - Len(s) \in 1 .. Len(t) /\ Len(s) + (j - Len(s)) = j
    <3>1. u[j] = t[j - Len(s)]
      BY <1>1, <2>2
    <3>2. CASE i \in 1 .. Len(s)
      <4>1. u[i] = s[i] /\ s[i] \in ToSet(s) /\ t[j - Len(s)] \in ToSet(t)
        BY <1>1, <2>2, <3>2 DEF ToSet
      <4> QED  BY <1>5, <3>1, <4>1 DEF Ahead
    <3>3. CASE i - Len(s) \in 1 .. Len(t) /\ Len(s) + (i - Len(s)) = i
      <4>1. u[i] = t[i - Len(s)]
        BY <1>1, <3>3
      <4>2. i - Len(s) < j - Len(s)
        BY <1>1
      <4> QED  BY <1>5, <2>2, <3>1, <3>3, <4>1, <4>2 DEF InOrder
    <3> QED  BY <1>2, <3>2, <3>3
  <2> QED  BY <1>2, <2>1, <2>2
<1> QED  BY <1>1, <1>3, <1>4, <1>5 DEF u

LEMMA Single ==
  ASSUME NEW e \in Events
  PROVE  /\ <<e>> \in Seq(Events) /\ ToSet(<<e>>) = {e} /\ Len(<<e>>) = 1
         /\ InOrder(<<e>>)
<1>1. <<e>> \in Seq(Events) /\ Len(<<e>>) = 1 /\ <<e>>[1] = e /\ DOMAIN <<e>> = 1 .. 1
  OBVIOUS
<1>2. ToSet(<<e>>) = {e}
  BY <1>1 DEF ToSet
<1>3. InOrder(<<e>>)
  BY <1>1 DEF InOrder
<1> QED  BY <1>1, <1>2, <1>3

LEMMA Nothing ==
  << >> \in Seq(Events) /\ ToSet(<< >>) = {} /\ Len(<< >>) = 0 /\ InOrder(<< >>)
BY DEF ToSet, InOrder

LEMMA Assoc ==
  ASSUME NEW s \in Seq(Events), NEW t \in Seq(Events), NEW u \in Seq(Events)
  PROVE  (s \o t) \o u = s \o (t \o u)
BY ConcatAssociative

LEMMA Neutral ==
  ASSUME NEW s \in Seq(Events) PROVE << >> \o s = s /\ s \o << >> = s
BY ConcatEmptySeq

LEMMA FirstOf ==
  ASSUME NEW s \in Seq(Events), s # << >>
  PROVE  /\ Head(s) \in Events /\ Tail(s) \in Seq(Events) /\ <<Head(s)>> \in Seq(Events)
         /\ s = <<Head(s)>> \o Tail(s)
<1>1. Head(s) \in Events /\ Tail(s) \in Seq(Events) /\ Len(s) \in Nat \ {0}
  OBVIOUS
<1> DEFINE t == <<Head(s)>> \o Tail(s)
<1>2. <<Head(s)>> \in Seq(Events)
  BY <1>1
<1>3. t \in Seq(Events) /\ Len(t) = Len(s) /\ \A i \in 1 .. Len(s) : t[i] = s[i]
  BY <1>1, <1>2
<1>4. s = t
  <2> HIDE DEF t
  <2> QED  BY <1>3, SeqEqual
<1> QED  BY <1>1, <1>2, <1>4

LEMMA AppendJoins ==
  ASSUME NEW s \in Seq(Events), NEW e \in Events PROVE Append(s, e) = s \o <<e>>
BY AppendIsConcat

LEMMA Split ==
  ASSUME NEW s \in Seq(Events), NEW n \in 1 .. Len(s)
  PROVE  /\ SubSeq(s, 1, n) \in Seq(Events) /\ SubSeq(s, n + 1, Len(s)) \in Seq(Events)
         /\ s = SubSeq(s, 1, n) \o SubSeq(s, n + 1, Len(s))
<1>1. Len(s) \in Nat
  OBVIOUS
<1>2. 1 \in 1 .. Len(s) + 1 /\ n \in 1 - 1 .. Len(s) /\ Len(s) \in n .. Len(s)
  BY <1>1
<1>3. SubSeq(s, 1, n) \o SubSeq(s, n + 1, Len(s)) = SubSeq(s, 1, Len(s))
  BY <1>2, ConcatAdjacentSubSeq
<1>4. SubSeq(s, 1, Len(s)) = s
  BY SubSeqFull
<1>5. SubSeq(s, 1, n) \in Seq(Events) /\ SubSeq(s, n + 1, Len(s)) \in Seq(Events)
  <2>1. /\ \A i \in 1 .. n : s[i] \in Events
        /\ \A i \in n + 1 .. Len(s) : s[i] \in Events
    BY <1>1
  <2> QED  BY <1>1, <2>1, SubSeqProperties
<1> QED  BY <1>3, <1>4, <1>5

-----------------------------------------------------------------------------
(* The line.                                                               *)

Wide(s) == s \in Seq(Events)

LEMMA Parts ==
  ASSUME TypeOK
  PROVE  /\ Wide(consumed) /\ Wide(out) /\ Wide(pending) /\ Wide(source) /\ Wide(wire)
         /\ ToSet(consumed) \subseteq 1 .. MaxItems /\ ToSet(pending) \subseteq 1 .. MaxItems
         /\ 1 .. MaxItems \subseteq Events
<1>1. 1 .. MaxItems \subseteq Events
  BY DEF Events
<1>2. consumed \in Seq(1 .. MaxItems) /\ pending \in Seq(1 .. MaxItems)
  BY DEF TypeOK
<1>3. Wide(consumed) /\ Wide(pending)
  BY <1>1, <1>2, SeqMonotonic DEF Wide
<1>4. ToSet(consumed) \subseteq 1 .. MaxItems /\ ToSet(pending) \subseteq 1 .. MaxItems
  BY <1>2 DEF ToSet
<1> QED  BY <1>1, <1>3, <1>4 DEF TypeOK, Wide

\* Concatenation, kept closed for the provers: only the law of grouping counts.
Cat(s, t) == s \o t

LEMMA Grouped ==
  \A s, t, u : Wide(s) /\ Wide(t) /\ Wide(u) =>
    Wide(Cat(s, t)) /\ Cat(Cat(s, t), u) = Cat(s, Cat(t, u))
<1> SUFFICES ASSUME NEW s, NEW t, NEW u, Wide(s), Wide(t), Wide(u)
             PROVE  Wide(Cat(s, t)) /\ Cat(Cat(s, t), u) = Cat(s, Cat(t, u))
  OBVIOUS
<1>1. Wide(s \o t)
  BY Join DEF Wide
<1>2. (s \o t) \o u = s \o (t \o u)
  BY Assoc DEF Wide
<1> QED  BY <1>1, <1>2 DEF Cat

LEMMA Laws ==
  ASSUME NEW s, Wide(s), NEW t, Wide(t)
  PROVE  /\ Wide(Cat(s, t)) /\ ToSet(Cat(s, t)) = ToSet(s) \cup ToSet(t)
         /\ InOrder(Cat(s, t)) <=> InOrder(s) /\ InOrder(t) /\ Ahead(s, t)
BY Join DEF Wide, Cat

LEMMA Empty ==
  /\ Wide(<< >>) /\ ToSet(<< >>) = {} /\ InOrder(<< >>)
  /\ \A s : Wide(s) => Cat(<< >>, s) = s /\ Cat(s, << >>) = s
BY Nothing, Neutral DEF Wide, Cat

LEMMA One ==
  ASSUME NEW e \in Events
  PROVE  /\ Wide(<<e>>) /\ ToSet(<<e>>) = {e} /\ InOrder(<<e>>)
         /\ \A s : Wide(s) => Append(s, e) = Cat(s, <<e>>)
BY Single, AppendJoins DEF Wide, Cat

\* What the loop and the pump do to the line of a paused or running controller.
LEMMA PumpMoves ==
  ASSUME NEW held, Wide(held), NEW paused, NEW atSource, NEW queue, Wide(queue),
         Pump(held, paused, atSource, queue)
  PROVE  out' \o pending' = queue \o held /\ Wide(out') /\ Wide(pending')
<1>1. /\ pending' = IF paused THEN held ELSE << >>
      /\ out' = IF paused THEN queue ELSE queue \o held
  BY DEF Pump
<1>2. Wide(queue \o held) /\ Wide(<< >>) /\ (queue \o held) \o << >> = queue \o held
  BY Join, Nothing, Neutral DEF Wide
<1> QED  BY <1>1, <1>2

LEMMA OutMoves ==
  ASSUME TypeOK, NEW paused, NEW left, Wide(left), OutBecomes(paused, left)
  PROVE  out' \o pending' = left \o pending /\ Wide(out') /\ Wide(pending')
<1>1. CASE inputPaused /\ ~inputPaused'
  BY <1>1, Parts, PumpMoves DEF OutBecomes
<1>2. CASE ~(inputPaused /\ ~inputPaused')
  BY <1>2, Parts DEF OutBecomes
<1> QED  BY <1>1, <1>2

\* The moves of the transformer.  Each leaves the line as it is, or drops items
\* in front of the newest one held, or lets Error overtake what is held.
LEMMA ConsumeMoves ==
  ASSUME TypeOK, Consume, UNCHANGED wire
  PROVE  /\ Line' = Line /\ Flight = <<Head(out)>> \o Flight'
         /\ consumed' = Append(consumed, Head(out)) /\ Head(out) \in 1 .. MaxItems
         /\ Wide(out') /\ Wide(pending') /\ Wide(Flight')
<1> DEFINE h == Head(out)
<1>1. /\ out # << >> /\ h > 0 /\ consumed' = Append(consumed, h)
      /\ \E paused \in BOOLEAN : OutBecomes(paused, Tail(out))
      /\ UNCHANGED <<source, wire>>
  BY DEF Consume, OutDue
<1>2. /\ h \in Events /\ Wide(Tail(out)) /\ Wide(<<h>>) /\ out = Cat(<<h>>, Tail(out))
  BY <1>1, Parts, FirstOf DEF Wide, Cat
<1>3. Cat(out', pending') = Cat(Tail(out), pending) /\ Wide(out') /\ Wide(pending')
  BY <1>1, <1>2, OutMoves DEF Cat
<1>4. h \in 1 .. MaxItems
  BY <1>1, <1>2 DEF Events, Error, Done
<1>5. consumed' = Cat(consumed, <<h>>)
  BY <1>1, <1>2, Parts, AppendJoins DEF Wide, Cat
<1> HIDE DEF h
<1>6. /\ Flight' = Cat(Cat(Cat(out', pending'), source), wire)
      /\ Flight = Cat(Cat(Cat(out, pending), source), wire)
      /\ Line' = Cat(consumed', Flight') /\ Line = Cat(consumed, Flight)
  BY <1>1 DEF Flight, Line, Cat
<1>7. Flight = Cat(<<h>>, Flight') /\ Wide(Flight')
  BY <1>2, <1>3, <1>6, Parts, Grouped
<1>8. Line' = Line
  BY <1>2, <1>5, <1>6, <1>7, Parts, Grouped
<1> QED  BY <1>1, <1>3, <1>4, <1>7, <1>8 DEF h, Cat

LEMMA ResumeMoves ==
  ASSUME TypeOK, Resume, UNCHANGED wire
  PROVE  Line' = Line /\ Flight' = Flight /\ Wide(out') /\ Wide(pending')
<1>1. OutBecomes(FALSE, out) /\ UNCHANGED <<source, wire, consumed>>
  BY DEF Resume
<1>2. out' \o pending' = out \o pending /\ Wide(out') /\ Wide(pending')
  BY <1>1, Parts, OutMoves
<1> QED  BY <1>1, <1>2 DEF Line, Flight

LEMMA TimerMoves ==
  ASSUME TypeOK, TimerFires, UNCHANGED wire
  PROVE  Line' = Line /\ Flight' = Flight /\ Wide(out') /\ Wide(pending')
<1>1. Pump(pending, inputPaused, sourcePaused, out) /\ UNCHANGED <<source, wire, consumed>>
  BY DEF TimerFires
<1>2. out' \o pending' = out \o pending /\ Wide(out') /\ Wide(pending')
  BY <1>1, Parts, PumpMoves
<1> QED  BY <1>1, <1>2 DEF Line, Flight

LEMMA ArriveMoves ==
  ASSUME TypeOK, Arrive
  PROVE  Line' = Line /\ Flight' = Flight /\ Wide(source') /\ Wide(wire')
<1>1. PICK n \in 1 .. Len(wire) :
        /\ wire' = SubSeq(wire, n + 1, Len(wire))
        /\ source' = source \o SubSeq(wire, 1, n)
  BY DEF Arrive
<1> DEFINE a == SubSeq(wire, 1, n)
<1>2. Wide(a) /\ Wide(wire') /\ wire = Cat(a, wire')
  BY <1>1, Parts, Split DEF Wide, Cat
<1>3. source' = Cat(source, a) /\ UNCHANGED <<consumed, out, pending>>
  BY <1>1 DEF Arrive, Cat
<1> HIDE DEF a
<1>4. /\ Flight' = Cat(Cat(Cat(out, pending), source'), wire')
      /\ Flight = Cat(Cat(Cat(out, pending), source), wire)
  BY <1>3 DEF Flight, Cat
<1>5. Flight' = Flight /\ Wide(source')
  BY <1>2, <1>3, <1>4, Parts, Grouped
<1> QED  BY <1>2, <1>3, <1>5 DEF Line

\* What _onData holds: the items held and the new one, without a first part that
\* only the dropping strategies drop.
LEMMA Holds ==
  ASSUME TypeOK, NEW x \in 1 .. MaxItems
  PROVE  /\ Hold(x) \in Seq(1 .. MaxItems) /\ Wide(Hold(x)) /\ x \in ToSet(Hold(x))
         /\ \E d \in Seq(Events) : Cat(pending, <<x>>) = Cat(d, Hold(x))
         /\ strategy \in {"block", "batch"} =>
              Hold(x) = Append(pending, x) /\ Hold(x) = Cat(pending, <<x>>)
<1>1. /\ pending \in Seq(1 .. MaxItems) /\ x \in Events /\ strategy \in Strategies
      /\ << >> \in Seq(Events)
  BY DEF TypeOK, Events
<1>2. /\ Append(pending, x) \in Seq(1 .. MaxItems) /\ Wide(Append(pending, x))
      /\ Append(pending, x) = Cat(pending, <<x>>) /\ x \in ToSet(Append(pending, x))
      /\ Wide(<<x>>) /\ Wide(pending)
  <2>1. Append(pending, x) = Cat(pending, <<x>>)
    BY <1>1, Parts, One
  <2>2. Wide(<<x>>) /\ ToSet(<<x>>) = {x}
    BY <1>1, One
  <2>3. Wide(Cat(pending, <<x>>)) /\ x \in ToSet(Cat(pending, <<x>>))
    BY <2>2, Parts, Laws
  <2>4. Append(pending, x) \in Seq(1 .. MaxItems)
    BY <1>1
  <2> QED  BY <2>1, <2>2, <2>3, <2>4, Parts, Zenon
<1>3. CASE strategy = "dropLatest"
  <2>1. Hold(x) = <<x>> /\ <<x>> \in Seq(1 .. MaxItems)
    BY <1>3 DEF Hold
  <2> QED  BY <1>1, <1>2, <1>3, <2>1, One DEF Wide
<1>4. CASE strategy = "bufferDrop" /\ Len(pending) >= BufferSize
  <2>1. /\ Hold(x) = Append(Tail(pending), x) /\ pending # << >>
        /\ Tail(pending) \in Seq(1 .. MaxItems)
    BY <1>1, <1>4 DEF Hold
  <2>2. /\ Wide(<<Head(pending)>>) /\ Wide(Tail(pending))
        /\ pending = Cat(<<Head(pending)>>, Tail(pending))
    BY <1>2, <2>1, FirstOf DEF Wide, Cat
  <2>3. /\ Append(Tail(pending), x) = Cat(Tail(pending), <<x>>)
        /\ ToSet(<<x>>) = {x}
    BY <1>1, <2>2, One
  <2> DEFINE first == <<Head(pending)>>
             rest == Tail(pending)
             new == <<x>>
  <2> HIDE DEF first, rest, new
  <2>4. /\ Wide(first) /\ Wide(rest) /\ Wide(new) /\ pending = Cat(first, rest)
        /\ Hold(x) = Cat(rest, new) /\ ToSet(new) = {x}
    BY <1>2, <2>1, <2>2, <2>3, Zenon DEF first, rest, new
  <2>5. Cat(Cat(first, rest), new) = Cat(first, Cat(rest, new))
    BY <2>4, Grouped
  <2>6. Cat(pending, new) = Cat(first, Hold(x))
    BY <2>4, <2>5
  <2>7. Wide(Hold(x)) /\ x \in ToSet(Hold(x))
    <3>1. Wide(Cat(rest, new)) /\ ToSet(Cat(rest, new)) = ToSet(rest) \cup ToSet(new)
      BY <2>4, Laws
    <3> QED  BY <2>4, <3>1
  <2>8. Hold(x) \in Seq(1 .. MaxItems)
    BY <2>1
  <2> QED  BY <1>4, <2>6, <2>7, <2>8, <2>4 DEF Wide, new
<1>5. CASE strategy \notin {"dropLatest", "bufferDrop"} \/
           (strategy = "bufferDrop" /\ ~(Len(pending) >= BufferSize))
  <2>1. Hold(x) = Append(pending, x)
    BY <1>5 DEF Hold
  <2>2. Cat(<< >>, Hold(x)) = Cat(pending, <<x>>)
    BY <1>2, <2>1, Empty
  <2> QED  BY <1>1, <1>2, <2>1, <2>2
<1> QED  BY <1>3, <1>4, <1>5

\* Dropping a part of the line keeps its order.
LEMMA Dropping ==
  ASSUME NEW a, Wide(a), NEW d, Wide(d), NEW h, Wide(h), NEW b, Wide(b),
         InOrder(Cat(Cat(a, Cat(d, h)), b))
  PROVE  /\ InOrder(Cat(Cat(a, h), b)) /\ Ahead(d, h)
         /\ ToSet(Cat(Cat(a, Cat(d, h)), b)) = ToSet(Cat(Cat(a, h), b)) \cup ToSet(d)
<1>1. Wide(Cat(d, h)) /\ ToSet(Cat(d, h)) = ToSet(d) \cup ToSet(h)
  BY Laws
<1>2. /\ Wide(Cat(a, Cat(d, h)))
      /\ ToSet(Cat(a, Cat(d, h))) = ToSet(a) \cup ToSet(d) \cup ToSet(h)
  BY <1>1, Laws
<1>3. /\ InOrder(Cat(a, Cat(d, h))) /\ InOrder(b) /\ Ahead(Cat(a, Cat(d, h)), b)
      /\ ToSet(Cat(Cat(a, Cat(d, h)), b)) = ToSet(a) \cup ToSet(d) \cup ToSet(h) \cup ToSet(b)
  BY <1>2, Laws
<1>4. InOrder(a) /\ InOrder(Cat(d, h)) /\ Ahead(a, Cat(d, h))
  BY <1>1, <1>3, Laws
<1>5. InOrder(h) /\ Ahead(d, h)
  BY <1>4, Laws
<1>6. Ahead(a, h) /\ Ahead(a, b) /\ Ahead(h, b)
  BY <1>1, <1>2, <1>3, <1>4 DEF Ahead
<1>7. Wide(Cat(a, h)) /\ InOrder(Cat(a, h)) /\ ToSet(Cat(a, h)) = ToSet(a) \cup ToSet(h)
  BY <1>4, <1>5, <1>6, Laws
<1>8. Ahead(Cat(a, h), b)
  BY <1>6, <1>7 DEF Ahead
<1>9. /\ InOrder(Cat(Cat(a, h), b))
      /\ ToSet(Cat(Cat(a, h), b)) = ToSet(a) \cup ToSet(h) \cup ToSet(b)
  BY <1>3, <1>7, <1>8, Laws
<1> QED  BY <1>3, <1>5, <1>9

LEMMA DataMoves ==
  ASSUME TypeOK, InOrder(Line), source # << >>, NEW x \in 1 .. MaxItems,
         x = Head(source), OnData(x), source' = Tail(source), UNCHANGED <<wire, consumed>>
  PROVE  /\ Wide(source') /\ Wide(out') /\ Wide(pending')
         /\ InOrder(Line') /\ ToSet(Line') \subseteq ToSet(Line) /\ x \in ToSet(Line)
         /\ \A e \in ToSet(Line) \ ToSet(Line') : e \in 1 .. MaxItems /\ e < x
         /\ strategy \in {"block", "batch"} => Flight' = Flight
<1> DEFINE h == Hold(x)
<1>1. Wide(h) /\ x \in ToSet(h)
  BY Holds
<1>2. PICK d \in Seq(Events) : Cat(pending, <<x>>) = Cat(d, h)
  BY Holds
<1>3. strategy \in {"block", "batch"} => h = Cat(pending, <<x>>)
  BY Holds
<1>4. \/ out' = out /\ pending' = h
      \/ \E atSource : Pump(h, inputPaused, atSource, out)
  BY DEF OnData
<1> HIDE DEF h
<1>5. /\ Wide(source') /\ Wide(<<x>>) /\ ToSet(<<x>>) = {x}
      /\ source = Cat(<<x>>, source') /\ Wide(d) /\ x \in Events
  BY Parts, FirstOf, One DEF Wide, Cat
<1>6. Cat(out', pending') = Cat(out, h) /\ Wide(out') /\ Wide(pending')
  BY <1>1, <1>4, Parts, PumpMoves DEF Cat
<1> DEFINE b == Cat(source', wire)
           a == Cat(consumed, out)
<1>7. Wide(b) /\ Wide(a) /\ Wide(Cat(out, pending)) /\ Wide(Cat(d, h)) /\ Wide(Cat(out, h))
  BY <1>1, <1>5, Parts, Laws
<1>8. /\ Flight = Cat(Cat(Cat(out, pending), source), wire)
      /\ Flight' = Cat(Cat(Cat(out', pending'), source'), wire)
      /\ Line = Cat(consumed, Flight) /\ Line' = Cat(consumed, Flight')
  BY DEF Flight, Line, Cat
<1>9. Flight' = Cat(Cat(out, h), b)
  <2>1. Cat(Cat(Cat(out, h), source'), wire) = Cat(Cat(out, h), b)
    BY <1>5, <1>7, Parts, Grouped
  <2> QED  BY <1>6, <1>8, <2>1
<1>10. Flight = Cat(Cat(out, Cat(d, h)), b)
  <2>1. Cat(Cat(out, pending), Cat(<<x>>, source')) = Cat(Cat(Cat(out, pending), <<x>>), source')
    BY <1>5, <1>7, Grouped
  <2>2. Cat(Cat(out, pending), <<x>>) = Cat(out, Cat(d, h))
    BY <1>2, <1>5, Parts, Grouped
  <2>3. Wide(Cat(out, Cat(d, h)))
    BY <1>7, Parts, Laws
  <2>4. Cat(Cat(Cat(out, Cat(d, h)), source'), wire) = Cat(Cat(out, Cat(d, h)), b)
    BY <1>5, <2>3, Parts, Grouped
  <2> QED  BY <1>5, <1>8, <2>1, <2>2, <2>4
<1>11. Line = Cat(Cat(a, Cat(d, h)), b)
  <2>1. Wide(Cat(out, Cat(d, h)))
    BY <1>7, Parts, Laws
  <2> QED  BY <1>7, <1>8, <1>10, <2>1, Parts, Grouped
<1>12. Line' = Cat(Cat(a, h), b)
  BY <1>1, <1>7, <1>8, <1>9, Parts, Grouped
<1>13. strategy \in {"block", "batch"} => Flight' = Flight
  BY <1>2, <1>3, <1>9, <1>10
<1> HIDE DEF a, b
<1>14. /\ InOrder(Line') /\ Ahead(d, h) /\ ToSet(Line) = ToSet(Line') \cup ToSet(d)
  BY <1>1, <1>5, <1>7, <1>11, <1>12, Dropping
<1>15. x \in ToSet(Line')
  BY <1>1, <1>7, <1>12, Laws
<1>16. ToSet(d) \subseteq 1 .. MaxItems
  <2>1. ToSet(Cat(pending, <<x>>)) = ToSet(pending) \cup {x}
    BY <1>5, Parts, Laws
  <2>2. ToSet(Cat(d, h)) = ToSet(d) \cup ToSet(h)
    BY <1>1, <1>5, Laws
  <2> QED  BY <1>2, <2>1, <2>2, Parts
<1>17. \A e \in ToSet(d) : e < x
  BY <1>1, <1>14, <1>16 DEF Ahead, Precedes, IsItem
<1> QED  BY <1>5, <1>6, <1>13, <1>14, <1>15, <1>16, <1>17

LEMMA DoneMoves ==
  ASSUME TypeOK, source # << >>, Head(source) = Done, OnDone, source' = Tail(source),
         UNCHANGED <<wire, consumed>>
  PROVE  Wide(source') /\ Wide(out') /\ Line' = Line /\ Flight' = Flight
<1>1. Done \in Events
  BY DEF Events
<1>2. Wide(source') /\ Wide(<<Done>>) /\ source = Cat(<<Done>>, source')
  BY <1>1, Parts, FirstOf, One DEF Wide, Cat
<1>3. out' = Cat(Cat(out, pending), <<Done>>) /\ pending' = << >>
  BY DEF OnDone, Cat
<1>4. Wide(Cat(out, pending))
  BY Parts, Laws
<1>5. Wide(out')
  BY <1>2, <1>3, <1>4, Laws
<1>6. Cat(out', pending') = out'
  BY <1>3, <1>5, Empty
<1>7. Cat(Cat(out', pending'), source') = Cat(Cat(out, pending), source)
  BY <1>2, <1>3, <1>4, <1>6, Grouped
<1>8. Flight' = Flight
  BY <1>7 DEF Flight, Cat
<1> QED  BY <1>2, <1>5, <1>8 DEF Line

\* The Error that overtakes.
LEMMA ErrorMoves ==
  ASSUME TypeOK, InOrder(Line), source # << >>, Head(source) = Error, OnError,
         source' = Tail(source), UNCHANGED <<wire, consumed>>
  PROVE  /\ Wide(source') /\ Wide(out') /\ InOrder(Line')
         /\ ToSet(Line') = ToSet(Line) /\ ToSet(Flight') = ToSet(Flight)
<1> DEFINE e == <<Error>>
<1>1. Error \in Events
  BY DEF Events
<1>2. Wide(source') /\ Wide(e) /\ source = Cat(e, source') /\ InOrder(e) /\ ToSet(e) = {Error}
  BY <1>1, Parts, FirstOf, One DEF Wide, Cat
<1>3. out' = Cat(out, e) /\ pending' = pending
  BY <1>1, Parts, One DEF OnError
<1>4. Wide(out')
  BY <1>2, <1>3, Parts, Laws
<1> HIDE DEF e
<1> DEFINE a == Cat(consumed, out)
           b == Cat(source', wire)
<1>5. Wide(a) /\ Wide(b) /\ Wide(Cat(out, pending)) /\ Wide(Cat(e, pending)) /\ Wide(Cat(pending, e))
  BY <1>2, Parts, Laws
<1>6. /\ Flight = Cat(Cat(Cat(out, pending), source), wire)
      /\ Flight' = Cat(Cat(Cat(out', pending), source'), wire)
      /\ Line = Cat(consumed, Flight) /\ Line' = Cat(consumed, Flight')
  BY <1>3 DEF Flight, Line, Cat
<1>7. Flight = Cat(Cat(out, Cat(pending, e)), b)
  <2>1. Cat(Cat(out, pending), Cat(e, source')) = Cat(Cat(Cat(out, pending), e), source')
    BY <1>2, <1>5, Grouped
  <2>2. Cat(Cat(out, pending), e) = Cat(out, Cat(pending, e))
    BY <1>2, Parts, Grouped
  <2>3. Wide(Cat(out, Cat(pending, e)))
    BY <1>5, Parts, Laws
  <2>4. Cat(Cat(Cat(out, Cat(pending, e)), source'), wire) = Cat(Cat(out, Cat(pending, e)), b)
    BY <1>2, <2>3, Parts, Grouped
  <2> QED  BY <1>2, <1>6, <2>1, <2>2, <2>4
<1>8. Flight' = Cat(Cat(out, Cat(e, pending)), b)
  <2>1. Cat(Cat(out, e), pending) = Cat(out, Cat(e, pending))
    BY <1>2, Parts, Grouped
  <2>3. Wide(Cat(out, Cat(e, pending)))
    BY <1>5, Parts, Laws
  <2>4. Cat(Cat(Cat(out, Cat(e, pending)), source'), wire) = Cat(Cat(out, Cat(e, pending)), b)
    BY <1>2, <2>3, Parts, Grouped
  <2> QED  BY <1>3, <1>6, <2>1, <2>4
<1>9. Wide(Cat(out, Cat(pending, e))) /\ Wide(Cat(out, Cat(e, pending)))
  BY <1>5, Parts, Laws
<1>10. /\ Line = Cat(Cat(a, Cat(pending, e)), b)
       /\ Line' = Cat(Cat(a, Cat(e, pending)), b)
  <2>1. /\ Cat(consumed, Cat(Cat(out, Cat(pending, e)), b))
             = Cat(Cat(consumed, Cat(out, Cat(pending, e))), b)
        /\ Cat(consumed, Cat(Cat(out, Cat(e, pending)), b))
             = Cat(Cat(consumed, Cat(out, Cat(e, pending))), b)
    BY <1>5, <1>9, Parts, Grouped
  <2>2. /\ Cat(consumed, Cat(out, Cat(pending, e))) = Cat(a, Cat(pending, e))
        /\ Cat(consumed, Cat(out, Cat(e, pending))) = Cat(a, Cat(e, pending))
    BY <1>5, Parts, Grouped
  <2> QED  BY <1>6, <1>7, <1>8, <2>1, <2>2
<1>11. ToSet(Cat(pending, e)) = ToSet(Cat(e, pending))
  <2>1. /\ ToSet(Cat(pending, e)) = ToSet(pending) \cup ToSet(e)
        /\ ToSet(Cat(e, pending)) = ToSet(e) \cup ToSet(pending)
    BY <1>2, Parts, Laws
  <2> QED  BY <2>1
<1>12. ToSet(Flight') = ToSet(Flight)
  <2>1. ToSet(Cat(out, Cat(pending, e))) = ToSet(Cat(out, Cat(e, pending)))
    <3>1. /\ ToSet(Cat(out, Cat(pending, e))) = ToSet(out) \cup ToSet(Cat(pending, e))
          /\ ToSet(Cat(out, Cat(e, pending))) = ToSet(out) \cup ToSet(Cat(e, pending))
      BY <1>5, Parts, Laws
    <3> QED  BY <1>11, <3>1
  <2>2. /\ ToSet(Flight) = ToSet(Cat(out, Cat(pending, e))) \cup ToSet(b)
        /\ ToSet(Flight') = ToSet(Cat(out, Cat(e, pending))) \cup ToSet(b)
    BY <1>5, <1>7, <1>8, <1>9, Laws
  <2> QED  BY <2>1, <2>2
<1>13. ToSet(Line') = ToSet(Line)
  <2>1. Wide(Flight) /\ Wide(Flight')
    BY <1>5, <1>7, <1>8, <1>9, Laws
  <2>2. /\ ToSet(Line) = ToSet(consumed) \cup ToSet(Flight)
        /\ ToSet(Line') = ToSet(consumed) \cup ToSet(Flight')
    BY <1>6, <2>1, Parts, Laws
  <2> QED  BY <1>12, <2>2
<1> HIDE DEF a, b
<1>14. InOrder(Line')
  <2>1. Wide(Cat(a, Cat(pending, e))) /\ Wide(Cat(a, Cat(e, pending)))
    BY <1>5, Laws
  <2>2. /\ InOrder(Cat(a, Cat(pending, e))) /\ InOrder(b)
        /\ Ahead(Cat(a, Cat(pending, e)), b)
    BY <1>5, <1>10, <2>1, Laws
  <2>3. InOrder(a) /\ InOrder(Cat(pending, e)) /\ Ahead(a, Cat(pending, e))
    BY <1>5, <2>2, Laws
  <2>4. InOrder(pending)
    BY <1>2, <2>3, Parts, Laws
  <2>5. Ahead(e, pending)
    BY <1>2 DEF Ahead, Precedes, IsItem, Error, Done
  <2>6. InOrder(Cat(e, pending))
    BY <1>2, <2>4, <2>5, Parts, Laws
  <2>7. Ahead(a, Cat(e, pending))
    BY <1>11, <2>3 DEF Ahead
  <2>8. InOrder(Cat(a, Cat(e, pending)))
    BY <1>5, <2>3, <2>6, <2>7, Laws
  <2>9. ToSet(Cat(a, Cat(e, pending))) = ToSet(Cat(a, Cat(pending, e)))
    <3>1. /\ ToSet(Cat(a, Cat(pending, e))) = ToSet(a) \cup ToSet(Cat(pending, e))
          /\ ToSet(Cat(a, Cat(e, pending))) = ToSet(a) \cup ToSet(Cat(e, pending))
      BY <1>5, Laws
    <3> QED  BY <1>11, <3>1
  <2>10. Ahead(Cat(a, Cat(e, pending)), b)
    BY <2>2, <2>9 DEF Ahead
  <2> QED  BY <1>5, <1>10, <2>1, <2>2, <2>8, <2>10, Laws
<1> QED  BY <1>2, <1>4, <1>12, <1>13, <1>14

LEMMA LineIs ==
  ASSUME TypeOK
  PROVE  /\ Wide(Flight) /\ Wide(Line) /\ Line = Cat(consumed, Flight)
         /\ ToSet(Line) = ToSet(consumed) \cup ToSet(Flight)
<1>1. Flight = Cat(Cat(Cat(out, pending), source), wire) /\ Line = Cat(consumed, Flight)
  BY DEF Flight, Line, Cat
<1>2. Wide(Cat(Cat(out, pending), source))
  BY Parts, Laws
<1>3. Wide(Flight)
  BY <1>1, <1>2, Parts, Laws
<1> QED  BY <1>1, <1>3, Parts, Laws

LEMMA AppendMoves ==
  ASSUME TypeOK, NEW e \in Events, wire' = Append(wire, e),
         UNCHANGED <<consumed, out, pending, source>>
  PROVE  /\ Wide(wire') /\ Flight' = Cat(Flight, <<e>>) /\ Line' = Cat(Line, <<e>>)
<1>1. Wide(<<e>>) /\ wire' = Cat(wire, <<e>>)
  BY Parts, One
<1> DEFINE a == Cat(Cat(out, pending), source)
<1>2. Wide(a) /\ Wide(wire')
  BY <1>1, Parts, Laws
<1>3. Flight = Cat(a, wire) /\ Flight' = Cat(a, wire') /\ Line' = Cat(consumed, Flight')
  BY DEF Flight, Line, Cat
<1> HIDE DEF a
<1>4. Cat(a, Cat(wire, <<e>>)) = Cat(Cat(a, wire), <<e>>)
  BY <1>1, <1>2, Parts, Grouped
<1>5. Flight' = Cat(Flight, <<e>>)
  BY <1>1, <1>3, <1>4
<1>6. Cat(consumed, Cat(Flight, <<e>>)) = Cat(Cat(consumed, Flight), <<e>>)
  BY <1>1, Parts, LineIs, Grouped
<1> QED  BY <1>2, <1>3, <1>5, <1>6, LineIs

\* What has left the port when the worker dies.
Landed == Cat(Cat(out, pending), source)
Ending == << Error, Done >>

LEMMA EndingIs ==
  Wide(Ending) /\ ToSet(Ending) = {Error, Done} /\ InOrder(Ending)
<1>1. /\ Error \in Events /\ Done \in Events
      /\ Ending = Cat(<<Error>>, <<Done>>)
  <2>1. ASSUME NEW e \in Events, NEW f \in Events PROVE <<e, f>> = <<e>> \o <<f>>
    <3> DEFINE s == <<e, f>>
               u == <<e>> \o <<f>>
    <3>1. s \in Seq(Events) /\ Len(s) = 2 /\ s[1] = e /\ s[2] = f
      OBVIOUS
    <3>2. u \in Seq(Events) /\ Len(u) = 2 /\ u[1] = e /\ u[2] = f
      OBVIOUS
    <3> HIDE DEF s, u
    <3>3. \A i \in 1 .. Len(s) : s[i] = u[i]
      BY <3>1, <3>2
    <3>4. s = u
      BY <3>1, <3>2, <3>3, SeqEqual
    <3> QED  BY <3>4 DEF s, u
  <2>2. Error \in Events /\ Done \in Events
    BY DEF Events
  <2> QED  BY <2>1, <2>2 DEF Ending, Cat
<1>2. /\ Wide(<<Error>>) /\ ToSet(<<Error>>) = {Error} /\ InOrder(<<Error>>)
      /\ Wide(<<Done>>) /\ ToSet(<<Done>>) = {Done} /\ InOrder(<<Done>>)
  BY <1>1, One
<1>3. Ahead(<<Error>>, <<Done>>)
  BY <1>2 DEF Ahead, Precedes, IsItem, Error, Done
<1>4. ToSet(Ending) = ToSet(<<Error>>) \cup ToSet(<<Done>>)
  BY <1>1, <1>2, Laws
<1> QED  BY <1>1, <1>2, <1>3, <1>4, Laws

LEMMA DeathMoves ==
  ASSUME TypeOK, WorkerDies
  PROVE  /\ Wide(source') /\ Wide(wire') /\ Wide(Landed) /\ Wide(Cat(consumed, Landed))
         /\ Flight = Cat(Landed, wire) /\ Flight' = Cat(Landed, Ending)
         /\ Line = Cat(Cat(consumed, Landed), wire)
         /\ Line' = Cat(Cat(consumed, Landed), Ending)
         /\ ToSet(Cat(consumed, Landed)) = ToSet(consumed) \cup ToSet(Landed)
<1>1. /\ wire' = << >> /\ source' = Cat(source, Ending)
      /\ UNCHANGED <<consumed, out, pending>>
  BY DEF WorkerDies, Ending, Cat
<1>2. Wide(Ending) /\ Wide(source') /\ Wide(wire')
  BY <1>1, EndingIs, Empty, Parts, Laws
<1>3. Wide(Landed) /\ Wide(Cat(out, pending))
  BY Parts, Laws DEF Landed
<1>4. /\ Flight = Cat(Landed, wire) /\ Line = Cat(consumed, Flight)
      /\ Flight' = Cat(Cat(Cat(out, pending), source'), wire')
      /\ Line' = Cat(consumed, Flight')
  BY <1>1 DEF Flight, Line, Landed, Cat
<1>5. Flight' = Cat(Landed, Ending)
  <2>1. Cat(Cat(out, pending), Cat(source, Ending)) = Cat(Landed, Ending)
    BY <1>2, <1>3, Parts, Grouped DEF Landed
  <2>2. Wide(Cat(Landed, Ending))
    BY <1>2, <1>3, Laws
  <2> QED  BY <1>1, <1>4, <2>1, <2>2, Empty
<1>6. /\ Cat(consumed, Cat(Landed, Ending)) = Cat(Cat(consumed, Landed), Ending)
      /\ Cat(consumed, Cat(Landed, wire)) = Cat(Cat(consumed, Landed), wire)
  BY <1>2, <1>3, Parts, Grouped
<1> QED  BY <1>2, <1>3, <1>4, <1>5, <1>6, Parts, Laws

-----------------------------------------------------------------------------
(* The steps of the model, told apart by what they do to the line.         *)

Others == UNCHANGED <<produced, handler, gate, wire>>
Takes(e) ==
  /\ source # << >> /\ e = Head(source) /\ source' = Tail(source)
  /\ Live /\ ~sourcePaused /\ (OutDue => turn = "source") /\ turn' = "out"
  /\ UNCHANGED <<strategy, outPaused, inputPaused, consumed, finished>> /\ Others
Rests(n) ==
  \/ GrantArrives(n)
  \/ EndOfStream /\ Others
  \/ Cancel /\ Others
  \/ UNCHANGED vars

LEMMA Steps ==
  ASSUME TypeOK, [Next]_vars
  PROVE  \/ Produce \/ Return \/ Arrive \/ WorkerDies
         \/ \E x \in 1 .. MaxItems : Takes(x) /\ OnData(x)
         \/ Takes(Done) /\ OnDone
         \/ Takes(Error) /\ OnError
         \/ Consume /\ Others
         \/ TimerFires /\ Others
         \/ Resume /\ Others
         \/ \E n \in 1 .. BufferSize : Rests(n)
<1>1. CASE FromSource /\ Others
  <2>1. Head(source) \in Events
    BY <1>1, Parts, FirstOf DEF FromSource, SourceDue, Wide
  <2>2. CASE Head(source) = Done
    BY <1>1, <2>2, Zenon DEF FromSource, SourceDue, Takes
  <2>3. CASE Head(source) = Error
    BY <1>1, <2>3 DEF FromSource, SourceDue, Takes, Error, Done
  <2>4. CASE Head(source) \in 1 .. MaxItems
    BY <1>1, <2>4 DEF FromSource, SourceDue, Takes, Error, Done
  <2> QED  BY <2>1, <2>2, <2>3, <2>4 DEF Events
<1>2. CASE EndOfStream /\ Others
  BY <1>2 DEF Rests
<1>3. CASE Cancel /\ Others
  BY <1>3 DEF Rests
<1>4. CASE UNCHANGED vars
  BY <1>4 DEF Rests
<1>5. CASE Next
  BY <1>1, <1>2, <1>3, <1>5 DEF Next, Deliver, TakeMore, Microtask, Rests, Others
<1> QED  BY <1>4, <1>5

LEMMA RestMoves ==
  ASSUME NEW n \in 1 .. BufferSize, Rests(n)
  PROVE  /\ UNCHANGED <<strategy, source, sourcePaused, pending, out, outPaused, inputPaused,
                        turn, consumed, produced, handler, wire>>
         /\ Line' = Line /\ Flight' = Flight
<1>1. UNCHANGED <<strategy, source, sourcePaused, pending, out, outPaused, inputPaused,
                  turn, consumed, produced, handler, wire>>
  BY DEF Rests, GrantArrives, EndOfStream, Cancel, End, Others, vars, buffers
<1> QED  BY <1>1 DEF Line, Flight

-----------------------------------------------------------------------------
(* Order, marks and numbers.                                               *)

Marked ==
  /\ handler = "running" <=> Done \notin ToSet(Line)
  /\ handler = "died" <=> Error \in ToSet(Line)

\* What a step does to the line when it keeps the handler and the numbers.
LEMMA KeepsIntact ==
  ASSUME StreamIntact, Marked, UNCHANGED <<produced, handler, strategy>>,
         produced \in Int,
         InOrder(Line'), ToSet(Line') \subseteq ToSet(Line),
         NEW x \in 0 .. produced,
         \A e \in ToSet(Line) \ ToSet(Line') : e \in 1 .. MaxItems /\ e < x,
         strategy \in {"block", "batch"} => ToSet(Line') = ToSet(Line)
  PROVE  StreamIntact' /\ Marked'
<1>1. Done \in ToSet(Line) <=> Done \in ToSet(Line')
  BY DEF Done
<1>2. Error \in ToSet(Line) <=> Error \in ToSet(Line')
  BY DEF Error
<1>3. produced \in ToSet(Line) => produced \in ToSet(Line')
  OBVIOUS
<1>4. Marked'
  BY <1>1, <1>2 DEF Marked
<1>5. StreamIntact'
  <2>1. \A e \in ToSet(Line') : e <= produced
    BY DEF StreamIntact
  <2>2. handler # "died" /\ produced > 0 => produced \in ToSet(Line')
    BY <1>3 DEF StreamIntact
  <2>3. handler # "died" /\ strategy \in {"block", "batch"} => Items(Line') = 1 .. produced
    BY DEF StreamIntact, Items
  <2> QED  BY <2>1, <2>2, <2>3 DEF StreamIntact, Items
<1> QED  BY <1>4, <1>5

LEMMA Numbers ==
  ASSUME TypeOK PROVE \A e \in ToSet(Line) \cup ToSet(Flight) : e \in Events /\ e \in Int
<1>1. Line \in Seq(Events) /\ Flight \in Seq(Events)
  BY LineIs DEF Wide
<1>2. /\ \A i \in DOMAIN Line : Line[i] \in Events
      /\ \A i \in DOMAIN Flight : Flight[i] \in Events
  BY <1>1
<1> QED  BY <1>2 DEF ToSet, Events, Error, Done

LEMMA IntactStep ==
  ASSUME TypeOK, StreamIntact, Marked, [Next]_vars
  PROVE  StreamIntact' /\ Marked'
<1>0. /\ produced \in 0 .. MaxItems /\ MaxItems \in Nat /\ 0 \in 0 .. produced
      /\ InOrder(Line) /\ \A e \in ToSet(Line) : e <= produced
  BY DEF TypeOK, StreamIntact
<1>1. ASSUME Line' = Line, UNCHANGED <<produced, handler, strategy>>
      PROVE  StreamIntact' /\ Marked'
  BY <1>1 DEF StreamIntact, Marked, Items
<1>2. CASE Produce
  <2>1. /\ wire' = Append(wire, produced + 1) /\ produced' = produced + 1
        /\ produced + 1 \in 1 .. MaxItems /\ handler = "running"
        /\ UNCHANGED <<consumed, out, pending, source, strategy, handler>>
    BY <1>0, <1>2 DEF Produce, buffers
  <2> DEFINE e == produced + 1
  <2>2. e \in Events /\ e # Done /\ e # Error
    BY <2>1 DEF Events, Done, Error
  <2> HIDE DEF e
  <2>3. Line' = Cat(Line, <<e>>)
    BY <2>1, <2>2, AppendMoves DEF e
  <2>4. Wide(<<e>>) /\ ToSet(<<e>>) = {e} /\ InOrder(<<e>>)
    BY <2>2, One
  <2>5. Done \notin ToSet(Line) /\ Error \notin ToSet(Line)
    BY <2>1 DEF Marked
  <2>6. Ahead(Line, <<e>>)
    <3>1. \A f \in ToSet(Line) : f < e /\ f # Done
      BY <1>0, <2>5, Numbers DEF e
    <3> QED  BY <2>4, <3>1 DEF Ahead, Precedes
  <2>7. InOrder(Line') /\ ToSet(Line') = ToSet(Line) \cup {e}
    BY <1>0, <2>3, <2>4, <2>6, LineIs, Laws
  <2>8. Marked'
    BY <2>1, <2>2, <2>5, <2>7 DEF Marked
  <2>9. \A f \in ToSet(Line') : f <= produced'
    <3> QED  BY <1>0, <2>1, <2>7, Numbers DEF e
  <2>10. strategy \in {"block", "batch"} => Items(Line') = 1 .. produced'
    <3>1. Items(Line') = Items(Line) \cup {e}
      BY <2>1, <2>7 DEF Items, IsItem, e
    <3>2. strategy \in {"block", "batch"} => Items(Line) = 1 .. produced
      BY <2>1 DEF StreamIntact
    <3> QED  BY <1>0, <2>1, <3>1, <3>2 DEF e
  <2> QED  BY <2>1, <2>7, <2>8, <2>9, <2>10 DEF StreamIntact, e
<1>3. CASE Return
  <2>1. /\ wire' = Append(wire, Done) /\ handler = "running" /\ handler' = "returned"
        /\ UNCHANGED <<consumed, out, pending, source, strategy, produced>>
    BY <1>3 DEF Return, buffers
  <2>2. Done \in Events /\ Error # Done
    BY DEF Events, Done, Error
  <2>3. Line' = Cat(Line, <<Done>>)
    BY <2>1, <2>2, AppendMoves
  <2>4. Wide(<<Done>>) /\ ToSet(<<Done>>) = {Done} /\ InOrder(<<Done>>)
    BY <2>2, One
  <2>5. Done \notin ToSet(Line) /\ Error \notin ToSet(Line)
    BY <2>1 DEF Marked
  <2>6. Ahead(Line, <<Done>>)
    BY <2>4, <2>5 DEF Ahead, Precedes, IsItem, Done
  <2>7. InOrder(Line') /\ ToSet(Line') = ToSet(Line) \cup {Done}
    BY <1>0, <2>3, <2>4, <2>6, LineIs, Laws
  <2>8. Marked'
    BY <2>1, <2>2, <2>5, <2>7 DEF Marked
  <2>9. Items(Line') = Items(Line)
    BY <2>7 DEF Items, IsItem, Done
  <2>10. \A f \in ToSet(Line') : f <= produced
    BY <1>0, <2>7 DEF Done
  <2> QED  BY <2>1, <2>7, <2>8, <2>9, <2>10 DEF StreamIntact
<1>4. CASE WorkerDies
  <2>1. /\ handler # "died" /\ handler' = "died" /\ (handler = "returned" => wire # << >>)
        /\ handler \in {"running", "returned", "died"}
        /\ UNCHANGED <<strategy, produced>>
    BY <1>4 DEF WorkerDies, TypeOK
  <2> DEFINE a == Cat(consumed, Landed)
  <2>2. /\ Wide(a) /\ Line = Cat(a, wire) /\ Line' = Cat(a, Ending) /\ Wide(wire)
    BY <1>4, DeathMoves, Parts
  <2> HIDE DEF a
  <2>3. /\ InOrder(a) /\ Ahead(a, wire) /\ ToSet(Line) = ToSet(a) \cup ToSet(wire)
    BY <1>0, <2>2, Laws
  <2>4. Done \notin ToSet(a)
    <3>1. CASE handler = "running"
      BY <2>3, <3>1 DEF Marked
    <3>2. CASE wire # << >>
      <4>1. wire[1] \in ToSet(wire)
        <5>1. 1 \in DOMAIN wire
          BY <2>2, <3>2 DEF Wide
        <5> QED  BY <5>1 DEF ToSet
      <4> QED  BY <2>3, <4>1 DEF Ahead, Precedes
    <3> QED  BY <2>1, <3>1, <3>2
  <2>5. Ahead(a, Ending)
    BY <2>4, EndingIs DEF Ahead, Precedes, IsItem, Error, Done
  <2>6. InOrder(Line') /\ ToSet(Line') = ToSet(a) \cup {Error, Done}
    BY <2>2, <2>3, <2>5, EndingIs, Laws
  <2>7. Marked'
    BY <2>1, <2>6 DEF Marked
  <2>8. \A f \in ToSet(Line') : f <= produced
    BY <1>0, <2>3, <2>6 DEF Done, Error
  <2> QED  BY <2>1, <2>6, <2>7, <2>8 DEF StreamIntact
<1>5. ASSUME NEW x \in 1 .. MaxItems, Takes(x), OnData(x) PROVE StreamIntact' /\ Marked'
  <2>1. /\ source # << >> /\ x = Head(source) /\ source' = Tail(source)
        /\ UNCHANGED <<wire, consumed, produced, handler, strategy>>
    BY <1>5 DEF Takes, Others
  <2>2. /\ InOrder(Line') /\ ToSet(Line') \subseteq ToSet(Line) /\ x \in ToSet(Line)
        /\ \A e \in ToSet(Line) \ ToSet(Line') : e \in 1 .. MaxItems /\ e < x
        /\ strategy \in {"block", "batch"} => Flight' = Flight
    BY <1>0, <1>5, <2>1, DataMoves
  <2>3. strategy \in {"block", "batch"} => ToSet(Line') = ToSet(Line)
    BY <2>1, <2>2 DEF Line
  <2>4. x \in 0 .. produced
    BY <1>0, <2>2
  <2>5. produced \in Int
    BY <1>0
  <2> QED  BY <2>1, <2>2, <2>3, <2>4, <2>5, KeepsIntact
<1>6. CASE Takes(Done) /\ OnDone
  <2>1. UNCHANGED <<produced, handler, strategy>> /\ Line' = Line
    BY <1>6, DoneMoves DEF Takes, Others
  <2> QED  BY <1>1, <2>1
<1>7. CASE Takes(Error) /\ OnError
  <2>1. /\ source # << >> /\ Head(source) = Error /\ source' = Tail(source) /\ OnError
        /\ UNCHANGED <<wire, consumed, produced, handler, strategy>>
    BY <1>7 DEF Takes, Others
  <2>2. InOrder(Line') /\ ToSet(Line') = ToSet(Line)
    BY <1>0, <2>1, ErrorMoves
  <2>3. produced \in Int
    BY <1>0
  <2> QED  BY <1>0, <2>1, <2>2, <2>3, KeepsIntact
<1>8. CASE Arrive
  BY <1>1, <1>8, ArriveMoves DEF Arrive
<1>9. CASE Consume /\ Others
  BY <1>1, <1>9, ConsumeMoves DEF Consume, Others
<1>10. CASE TimerFires /\ Others
  BY <1>1, <1>10, TimerMoves DEF TimerFires, Others
<1>11. CASE Resume /\ Others
  BY <1>1, <1>11, ResumeMoves DEF Resume, Others
<1>12. ASSUME NEW n \in 1 .. BufferSize, Rests(n) PROVE StreamIntact' /\ Marked'
  BY <1>1, <1>12, RestMoves
<1> QED
  BY <1>2, <1>3, <1>4, <1>5, <1>6, <1>7, <1>8, <1>9, <1>10, <1>11, <1>12, Steps

\* The items on their way are those after the ones handed out, to the last, or
\* to the last that had left the port when the worker died.
LEMMA CutItems ==
  ASSUME NEW a, Wide(a), NEW w, Wide(w), InOrder(Cat(a, w)), Error \notin ToSet(w),
         NEW c \in Nat, NEW m \in Nat, c <= m,
         Items(a) \cup Items(w) = c + 1 .. m
  PROVE  \E k \in c .. m : Items(a) = c + 1 .. k
<1>1. InOrder(a) /\ InOrder(w) /\ Ahead(a, w)
  BY Laws
<1>2. CASE Items(w) = {}
  BY <1>2
<1>3. CASE Items(w) # {}
  <2>1. PICK f \in ToSet(w) : IsItem(f)
    BY <1>3 DEF Items
  <2>2. w \in Seq(Events) /\ Len(w) \in Nat /\ DOMAIN w = 1 .. Len(w)
    BY DEF Wide
  <2>3. PICK i \in 1 .. Len(w) : w[i] = f
    BY <2>1, <2>2 DEF ToSet
  <2> DEFINE h == w[1]
  <2>4. h \in ToSet(w) /\ 1 \in 1 .. Len(w)
    BY <2>2, <2>3 DEF ToSet
  <2>5. h # Done
    <3>1. CASE i = 1
      BY <2>1, <2>3, <3>1 DEF IsItem, Done
    <3>2. CASE 1 < i
      BY <1>1, <2>3, <2>4, <3>2 DEF InOrder, Precedes
    <3> QED  BY <2>3, <3>1, <3>2
  <2>6. h \in Events
    BY <2>2, <2>4
  <2>7. h \in 1 .. MaxItems
    BY <2>4, <2>5, <2>6 DEF Events
  <2>8. \A e \in Items(w) : e = h \/ h < e
    <3> SUFFICES ASSUME NEW e \in Items(w) PROVE e = h \/ h < e
      OBVIOUS
    <3>1. PICK j \in 1 .. Len(w) : w[j] = e
      BY <2>2 DEF Items, ToSet
    <3>2. IsItem(e) /\ IsItem(h)
      BY <2>7 DEF Items, IsItem
    <3>3. CASE 1 < j
      BY <1>1, <2>4, <3>1, <3>2, <3>3 DEF InOrder, Precedes
    <3> QED  BY <3>1, <3>3
  <2>9. h \in Items(w)
    BY <2>4, <2>7 DEF Items, IsItem
  <2>10. h \in c + 1 .. m
    BY <2>9
  <2>11. \A e \in Items(a) : e < h
    BY <1>1, <2>4, <2>7 DEF Ahead, Precedes, Items, IsItem
  <2> HIDE DEF h
  <2>12. Items(a) = c + 1 .. h - 1
    <3>1. ASSUME NEW e \in Items(a) PROVE e \in c + 1 .. h - 1
      BY <2>7, <2>11, <3>1
    <3>2. ASSUME NEW e \in c + 1 .. h - 1 PROVE e \in Items(a)
      <4>1. e \in c + 1 .. m /\ e < h
        BY <2>7, <2>10, <3>2
      <4>2. e \notin Items(w)
        BY <2>7, <2>8, <4>1
      <4> QED  BY <4>1, <4>2
    <3> QED  BY <3>1, <3>2
  <2>13. h - 1 \in c .. m
    BY <2>7, <2>10
  <2> QED  BY <2>12, <2>13
<1> QED  BY <1>2, <1>3

LEMMA ItemsJoin ==
  ASSUME NEW s, Wide(s), NEW t, Wide(t) PROVE Items(Cat(s, t)) = Items(s) \cup Items(t)
<1>1. ToSet(Cat(s, t)) = ToSet(s) \cup ToSet(t)
  BY Laws
<1> QED  BY <1>1 DEF Items

LEMMA NoGapStep ==
  ASSUME TypeOK, StreamIntact, Marked, NoGap, [Next]_vars PROVE NoGap'
<1>0. /\ produced \in Nat /\ InOrder(Line)
      /\ consumed \in Seq(1 .. MaxItems) /\ Len(consumed) \in Nat
  BY DEF TypeOK, StreamIntact
<1>1. ASSUME (strategy \in {"block", "batch"} => Items(Flight') = Items(Flight)),
             UNCHANGED <<strategy, consumed, produced, handler>>
      PROVE  NoGap'
  BY <1>1 DEF NoGap
<1> SUFFICES ASSUME strategy' \in {"block", "batch"} PROVE NoGap'
  BY DEF NoGap
<1>2. ASSUME strategy \in {"block", "batch"}
      PROVE  /\ \A i \in 1 .. Len(consumed) : consumed[i] = i
             /\ \E m \in Len(consumed) .. produced :
                  /\ Items(Flight) = Len(consumed) + 1 .. m
                  /\ handler # "died" => m = produced
  BY <1>2 DEF NoGap
<1>3. CASE Produce
  <2>1. /\ wire' = Append(wire, produced + 1) /\ produced' = produced + 1
        /\ produced + 1 \in 1 .. MaxItems /\ handler = "running"
        /\ UNCHANGED <<consumed, out, pending, source, strategy, handler>>
    BY <1>0, <1>3 DEF Produce, buffers
  <2>2. produced + 1 \in Events
    BY <2>1 DEF Events
  <2>3. /\ Flight' = Cat(Flight, <<produced + 1>>) /\ Wide(<<produced + 1>>)
        /\ ToSet(<<produced + 1>>) = {produced + 1}
    BY <2>1, <2>2, AppendMoves, One
  <2>4. Items(<<produced + 1>>) = {produced + 1}
    BY <1>0, <2>3 DEF Items, IsItem
  <2>5. Items(Flight') = Items(Flight) \cup {produced + 1}
    BY <2>3, <2>4, LineIs, ItemsJoin
  <2>6. /\ Items(Flight) = Len(consumed) + 1 .. produced /\ Len(consumed) <= produced
        /\ \A i \in 1 .. Len(consumed) : consumed[i] = i
    BY <1>0, <1>2, <2>1
  <2>7. Items(Flight') = Len(consumed) + 1 .. produced + 1
    BY <1>0, <2>5, <2>6
  <2>8. produced + 1 \in Len(consumed) .. produced + 1
    BY <1>0, <2>6
  <2> QED  BY <2>1, <2>6, <2>7, <2>8 DEF NoGap
<1>4. CASE Return
  <2>1. /\ wire' = Append(wire, Done) /\ handler # "died" /\ handler' # "died"
        /\ UNCHANGED <<consumed, out, pending, source, strategy, produced>>
    BY <1>4 DEF Return, buffers
  <2>2. Done \in Events
    BY DEF Events
  <2>3. Flight' = Cat(Flight, <<Done>>) /\ Wide(<<Done>>) /\ ToSet(<<Done>>) = {Done}
    BY <2>1, <2>2, AppendMoves, One
  <2>4. Items(<<Done>>) = {}
    BY <2>3 DEF Items, IsItem, Done
  <2>5. Items(Flight') = Items(Flight)
    BY <2>3, <2>4, LineIs, ItemsJoin
  <2> QED  BY <1>2, <2>1, <2>5 DEF NoGap
<1>5. CASE WorkerDies
  <2>1. handler # "died" /\ handler' = "died" /\ UNCHANGED <<strategy, produced, consumed>>
    BY <1>5 DEF WorkerDies
  <2>2. /\ Wide(Landed) /\ Wide(wire) /\ Wide(Cat(consumed, Landed)) /\ Wide(Flight)
        /\ Flight = Cat(Landed, wire) /\ Flight' = Cat(Landed, Ending)
        /\ Line = Cat(consumed, Flight) /\ Wide(consumed)
    BY <1>5, DeathMoves, Parts, LineIs
  <2>3. InOrder(Flight)
    BY <1>0, <2>2, Laws
  <2>4. Error \notin ToSet(wire)
    <3>1. ToSet(Flight) = ToSet(Landed) \cup ToSet(wire)
      BY <2>2, Laws
    <3> QED  BY <2>1, <3>1, LineIs DEF Marked
  <2>5. Items(Ending) = {}
    BY EndingIs DEF Items, IsItem, Error, Done
  <2>6. Items(Flight') = Items(Landed)
    BY <2>2, <2>5, EndingIs, ItemsJoin
  <2>7. /\ Items(Flight) = Len(consumed) + 1 .. produced /\ Len(consumed) <= produced
        /\ \A i \in 1 .. Len(consumed) : consumed[i] = i
    BY <1>0, <1>2, <2>1
  <2>8. Items(Landed) \cup Items(wire) = Len(consumed) + 1 .. produced
    BY <2>2, <2>7, ItemsJoin
  <2>9. \E k \in Len(consumed) .. produced : Items(Landed) = Len(consumed) + 1 .. k
    BY <1>0, <2>2, <2>3, <2>4, <2>7, <2>8, CutItems
  <2> QED  BY <2>1, <2>6, <2>7, <2>9 DEF NoGap
<1>6. CASE Consume /\ Others
  <2> DEFINE h == Head(out)
             c == Len(consumed)
  <2>1. /\ Line' = Line /\ Flight = Cat(<<h>>, Flight') /\ consumed' = Append(consumed, h)
        /\ h \in 1 .. MaxItems /\ Wide(Flight') /\ UNCHANGED <<strategy, produced, handler>>
    BY <1>6, ConsumeMoves DEF Cat, Others, Consume
  <2>2. h \in Events
    BY <2>1 DEF Events
  <2> HIDE DEF h
  <2>3. Wide(<<h>>) /\ ToSet(<<h>>) = {h}
    BY <2>2, One
  <2>4. InOrder(Flight)
    BY <1>0, Parts, LineIs, Laws
  <2>5. Ahead(<<h>>, Flight')
    BY <2>1, <2>3, <2>4, Laws
  <2>6. Items(Flight) = {h} \cup Items(Flight')
    <3>1. Items(<<h>>) = {h}
      BY <2>1, <2>3 DEF Items, IsItem
    <3> QED  BY <2>1, <2>3, <3>1, ItemsJoin
  <2>7. \A e \in Items(Flight') : h < e
    BY <2>1, <2>3, <2>5 DEF Ahead, Precedes, Items, IsItem
  <2>8. PICK m \in c .. produced : /\ Items(Flight) = c + 1 .. m
                                   /\ handler # "died" => m = produced
    BY <1>2, <2>1
  <2>9. /\ c \in Nat /\ Len(consumed') = c + 1 /\ consumed'[c + 1] = h
        /\ \A i \in 1 .. c : consumed'[i] = consumed[i]
    BY <1>0, <2>1
  <2>10. \A i \in 1 .. c : consumed[i] = i
    BY <1>2, <2>1
  <2> HIDE DEF c
  <2>11. h = c + 1 /\ c + 1 <= m
    <3>1. h \in c + 1 .. m
      BY <2>6, <2>8
    <3>2. c + 1 \in c + 1 .. m
      BY <2>8, <2>9, <3>1
    <3>3. c + 1 = h \/ h < c + 1
      BY <2>6, <2>7, <2>8, <3>2
    <3> QED  BY <2>8, <2>9, <3>1, <3>3
  <2>12. Items(Flight') = (c + 1) + 1 .. m
    <3>1. Items(Flight') = (c + 1 .. m) \ {h}
      <4>1. h \notin Items(Flight')
        BY <2>1, <2>7
      <4> QED  BY <2>6, <2>8, <4>1
    <3> QED  BY <2>8, <2>9, <2>11, <3>1
  <2>13. m \in c + 1 .. produced
    BY <1>0, <2>8, <2>9, <2>11
  <2>14. \A i \in 1 .. c + 1 : consumed'[i] = i
    <3>1. \A i \in 1 .. c + 1 : i \in 1 .. c \/ i = c + 1
      BY <2>9
    <3> QED  BY <2>9, <2>10, <2>11, <3>1
  <2> QED  BY <2>1, <2>8, <2>9, <2>12, <2>13, <2>14 DEF NoGap
<1>7. ASSUME NEW x \in 1 .. MaxItems, Takes(x), OnData(x) PROVE NoGap'
  <2>1. /\ source # << >> /\ x = Head(source) /\ source' = Tail(source)
        /\ UNCHANGED <<wire, consumed, produced, handler, strategy>>
    BY <1>7 DEF Takes, Others
  <2>2. strategy \in {"block", "batch"} => Flight' = Flight
    BY <1>0, <1>7, <2>1, DataMoves
  <2> QED  BY <1>1, <2>1, <2>2
<1>8. CASE Takes(Done) /\ OnDone
  <2>1. UNCHANGED <<produced, handler, strategy, consumed>> /\ Flight' = Flight
    BY <1>8, DoneMoves DEF Takes, Others
  <2> QED  BY <1>1, <2>1
<1>9. CASE Takes(Error) /\ OnError
  <2>1. /\ source # << >> /\ Head(source) = Error /\ source' = Tail(source) /\ OnError
        /\ UNCHANGED <<wire, consumed, produced, handler, strategy>>
    BY <1>9 DEF Takes, Others
  <2>2. ToSet(Flight') = ToSet(Flight)
    BY <1>0, <2>1, ErrorMoves
  <2>3. Items(Flight') = Items(Flight)
    BY <2>2 DEF Items
  <2> QED  BY <1>1, <2>1, <2>3
<1>10. CASE Arrive
  <2>1. Flight' = Flight /\ UNCHANGED <<strategy, consumed, produced, handler>>
    BY <1>10, ArriveMoves DEF Arrive
  <2> QED  BY <1>1, <2>1
<1>11. CASE TimerFires /\ Others
  <2>1. Flight' = Flight /\ UNCHANGED <<strategy, consumed, produced, handler>>
    BY <1>11, TimerMoves DEF TimerFires, Others
  <2> QED  BY <1>1, <2>1
<1>12. CASE Resume /\ Others
  <2>1. Flight' = Flight /\ UNCHANGED <<strategy, consumed, produced, handler>>
    BY <1>12, ResumeMoves DEF Resume, Others
  <2> QED  BY <1>1, <2>1
<1>13. ASSUME NEW n \in 1 .. BufferSize, Rests(n) PROVE NoGap'
  BY <1>1, <1>13, RestMoves
<1> QED
  BY <1>3, <1>4, <1>5, <1>6, <1>7, <1>8, <1>9, <1>10, <1>11, <1>12, <1>13, Steps

-----------------------------------------------------------------------------
(* Pauses and bounds.                                                      *)

LEMMA Lengths ==
  ASSUME TypeOK
  PROVE  /\ Len(out) \in Nat /\ Len(pending) \in Nat /\ Len(consumed) \in Nat
         /\ (out = << >> <=> Len(out) = 0) /\ (pending = << >> <=> Len(pending) = 0)
<1>1. out \in Seq(Events) /\ pending \in Seq(1 .. MaxItems) /\ consumed \in Seq(1 .. MaxItems)
  BY DEF TypeOK
<1> QED  BY <1>1, EmptySeq

\* While the handler runs, neither Done nor Error is anywhere on the line.
LEMMA RunningHasNoEnd ==
  ASSUME TypeOK, Marked, handler = "running", source # << >>
  PROVE  Head(source) # Done /\ Head(source) # Error
<1>1. Done \notin ToSet(Line) /\ Error \notin ToSet(Line)
  BY DEF Marked, Done, Error
<1>2. /\ Flight = Cat(Cat(Cat(out, pending), source), wire)
      /\ Wide(Cat(out, pending)) /\ Wide(Cat(Cat(out, pending), source))
  BY Parts, Laws DEF Flight, Cat
<1>3. /\ ToSet(Flight) = ToSet(Cat(Cat(out, pending), source)) \cup ToSet(wire)
      /\ ToSet(Cat(Cat(out, pending), source)) = ToSet(Cat(out, pending)) \cup ToSet(source)
  BY <1>2, Parts, Laws
<1>4. Head(source) \in ToSet(source)
  <2>1. source \in Seq(Events)
    BY DEF TypeOK
  <2>2. 1 \in DOMAIN source /\ source[1] = Head(source)
    BY <2>1
  <2> QED  BY <2>2 DEF ToSet
<1> QED  BY <1>1, <1>3, <1>4, LineIs

\* OutBecomes under block, when the invariant holds: the pump runs only when the
\* subscription has nothing left.
LEMMA OutSettles ==
  ASSUME TypeOK, HeldWhilePaused, NEW paused \in BOOLEAN, NEW left \in Seq(Events),
         OutBecomes(paused, left)
  PROVE  /\ outPaused' = paused /\ inputPaused' = (paused \/ (inputPaused /\ left # << >>))
         /\ turn' = IF SourceDue THEN "source" ELSE "out"
         /\ \/ /\ out' = left /\ UNCHANGED <<pending, grants, sourcePaused>>
               /\ ~(inputPaused /\ ~inputPaused')
            \/ /\ ~paused /\ left = << >> /\ inputPaused
               /\ out' = pending /\ pending' = << >> /\ inputPaused' = FALSE
               /\ strategy = "block" => sourcePaused' = FALSE
               /\ strategy # "block" => sourcePaused' = sourcePaused
               /\ Grant(IF strategy = "block" THEN Len(pending) ELSE 0)
<1>1. /\ outPaused' = paused /\ inputPaused' = (paused \/ (inputPaused /\ left # << >>))
      /\ turn' = IF SourceDue THEN "source" ELSE "out"
      /\ inputPaused \in BOOLEAN /\ sourcePaused \in BOOLEAN
  BY DEF OutBecomes, TypeOK
<1>2. CASE ~(inputPaused /\ ~inputPaused')
  BY <1>1, <1>2 DEF OutBecomes
<1>3. CASE inputPaused /\ ~inputPaused'
  <2>1. ~paused /\ left = << >>
    BY <1>1, <1>3
  <2>2. Pump(pending, FALSE, sourcePaused, left)
    BY <1>3 DEF OutBecomes
  <2>3. left \o pending = pending
    BY <2>1, Parts, Neutral DEF Wide
  <2>4. /\ pending' = << >> /\ out' = pending
        /\ Grant(IF strategy = "block" THEN Len(pending) ELSE 0)
        /\ sourcePaused' = (sourcePaused /\ ~(strategy = "block" /\ Len(pending') < BufferSize))
    BY <2>2, <2>3 DEF Pump
  <2>5. Len(pending') < BufferSize
    <3>1. Len(<< >>) = 0
      OBVIOUS
    <3> QED  BY <2>4, <3>1
  <2> QED  BY <1>1, <1>3, <2>1, <2>4, <2>5
<1> QED  BY <1>2, <1>3

\* An item of the source under block: held while out is paused, handed out and
\* granted again otherwise.
LEMMA DataSettles ==
  ASSUME TypeOK, HeldWhilePaused, strategy = "block", NEW x \in 1 .. MaxItems,
         ~sourcePaused, OnData(x)
  PROVE  \/ /\ inputPaused /\ out' = out /\ grants' = grants
            /\ Len(pending') = Len(pending) + 1 /\ Len(pending') <= BufferSize
            /\ sourcePaused' <=> Len(pending') = BufferSize
         \/ /\ ~inputPaused /\ pending = << >> /\ pending' = << >> /\ sourcePaused' = FALSE
            /\ Len(out') = Len(out) + 1 /\ Grant(1)
<1> DEFINE held == Hold(x)
<1>1. held = Append(pending, x) /\ pending \in Seq(1 .. MaxItems) /\ out \in Seq(Events)
  BY Holds DEF TypeOK
<1>2. Len(held) = Len(pending) + 1 /\ held \in Seq(Events)
  <2>1. Len(held) = Len(pending) + 1
    BY <1>1
  <2> QED  BY <2>1, Holds DEF Wide
<1>3. Len(pending) < BufferSize /\ (~inputPaused => pending = << >>)
  BY Lengths DEF HeldWhilePaused
<1>4. Pump(held, inputPaused, strategy = "block" /\ Len(held) >= BufferSize, out)
  BY DEF OnData
<1> HIDE DEF held
<1>5. /\ pending' = IF inputPaused THEN held ELSE << >>
      /\ out' = IF inputPaused THEN out ELSE out \o held
      /\ Grant(IF ~inputPaused THEN Len(held) ELSE 0)
      /\ sourcePaused' = (Len(held) >= BufferSize /\ ~(Len(pending') < BufferSize))
  BY <1>4 DEF Pump
<1>6. CASE inputPaused
  <2>1. pending' = held /\ out' = out /\ grants' = grants
    BY <1>5, <1>6 DEF Grant
  <2>2. Len(pending) \in Nat /\ Len(held) = Len(pending) + 1 /\ Len(pending) < BufferSize
    BY <1>2, <1>3, Lengths
  <2>3. Len(held) <= BufferSize /\ (sourcePaused' <=> Len(held) = BufferSize)
    <3>1. sourcePaused' = (Len(held) >= BufferSize /\ ~(Len(held) < BufferSize))
      BY <1>5, <2>1
    <3>2. /\ Len(held) <= BufferSize
          /\ Len(held) >= BufferSize /\ ~(Len(held) < BufferSize) <=> Len(held) = BufferSize
      BY <2>2
    <3> QED  BY <3>1, <3>2, Zenon
  <2> QED  BY <1>6, <2>1, <2>2, <2>3, Zenon
<1>7. CASE ~inputPaused
  <2>1. Len(held) = 1 /\ Len(<< >>) = 0
    BY <1>2, <1>3, <1>7
  <2>2. pending' = << >> /\ out' = out \o held /\ Grant(1)
    BY <1>5, <1>7, <2>1
  <2>3. Len(out \o held) = Len(out) + 1
    BY <1>1, <1>2, <2>1
  <2> QED  BY <1>3, <1>5, <1>7, <2>1, <2>2, <2>3
<1> QED  BY <1>6, <1>7 DEF TypeOK

LEMMA TimerSettles ==
  ASSUME TypeOK, HeldWhilePaused, strategy = "block", TimerFires
  PROVE  UNCHANGED <<pending, out, grants, sourcePaused>>
<1>1. Pump(pending, inputPaused, sourcePaused, out)
  BY DEF TimerFires
<1>2. /\ inputPaused \in BOOLEAN /\ sourcePaused \in BOOLEAN
      /\ (~inputPaused => pending = << >>)
      /\ (sourcePaused <=> Len(pending) = BufferSize) /\ Len(pending) <= BufferSize
  BY DEF TypeOK, HeldWhilePaused
<1>3. /\ pending' = IF inputPaused THEN pending ELSE << >>
      /\ out' = IF inputPaused THEN out ELSE out \o pending
      /\ Grant(IF ~inputPaused THEN Len(pending) ELSE 0)
      /\ sourcePaused' = (sourcePaused /\ ~(Len(pending') < BufferSize))
  BY <1>1 DEF Pump
<1>4. pending' = pending
  BY <1>2, <1>3
<1>5. out' = out
  <2>1. out \o << >> = out
    BY Parts, Neutral DEF Wide
  <2> QED  BY <1>2, <1>3, <2>1
<1>6. grants' = grants
  <2>1. ~inputPaused => Len(pending) = 0
    BY <1>2, Lengths
  <2> QED  BY <1>3, <2>1 DEF Grant
<1>7. sourcePaused' = sourcePaused
  BY <1>2, <1>3, <1>4, Lengths
<1> QED  BY <1>4, <1>5, <1>6, <1>7

LEMMA TailShorter ==
  ASSUME TypeOK, out # << >>
  PROVE  Tail(out) \in Seq(Events) /\ Len(Tail(out)) = Len(out) - 1 /\ Len(out) > 0
<1>1. out \in Seq(Events)
  BY DEF TypeOK
<1> QED  BY <1>1

LEMMA HeldStep ==
  ASSUME TypeOK, HeldWhilePaused, [Next]_vars PROVE HeldWhilePaused'
<1>0. /\ outPaused => inputPaused
      /\ {sourcePaused, outPaused, inputPaused} \subseteq BOOLEAN
      /\ Len(pending) \in Nat
      /\ strategy = "block" =>
           /\ Len(pending) <= BufferSize
           /\ sourcePaused <=> Len(pending) = BufferSize
           /\ ~inputPaused => pending = << >>
  BY Lengths DEF HeldWhilePaused, TypeOK
<1>1. ASSUME UNCHANGED <<strategy, sourcePaused, pending, outPaused, inputPaused>>
      PROVE  HeldWhilePaused'
  BY <1>1 DEF HeldWhilePaused
<1>2. CASE Produce \/ Return \/ Arrive \/ WorkerDies
  BY <1>1, <1>2 DEF Produce, Return, Arrive, WorkerDies, buffers
<1>3. ASSUME NEW x \in 1 .. MaxItems, Takes(x), OnData(x) PROVE HeldWhilePaused'
  <2>1. ~sourcePaused /\ UNCHANGED <<strategy, outPaused, inputPaused>>
    BY <1>3 DEF Takes
  <2>2. CASE strategy # "block"
    BY <1>0, <2>1, <2>2 DEF HeldWhilePaused
  <2>3. CASE strategy = "block"
    <3>1. Len(<< >>) = 0 /\ BufferSize # 0
      OBVIOUS
    <3> QED  BY <1>0, <1>3, <2>1, <2>3, <3>1, DataSettles DEF HeldWhilePaused
  <2> QED  BY <2>2, <2>3
<1>4. CASE Takes(Done) /\ OnDone
  <2>1. /\ pending' = << >> /\ ~sourcePaused /\ UNCHANGED sourcePaused
        /\ UNCHANGED <<strategy, outPaused, inputPaused>>
    BY <1>4 DEF Takes, OnDone
  <2>2. Len(<< >>) = 0 /\ BufferSize # 0
    OBVIOUS
  <2> QED  BY <1>0, <2>1, <2>2 DEF HeldWhilePaused
<1>5. CASE Takes(Error) /\ OnError
  BY <1>1, <1>5 DEF Takes, OnError
<1>6. ASSUME NEW paused \in BOOLEAN, NEW left \in Seq(Events), OutBecomes(paused, left),
             UNCHANGED strategy
      PROVE  HeldWhilePaused'
  <2>1. outPaused' => inputPaused'
    BY <1>6, OutSettles
  <2>2. CASE out' = left /\ UNCHANGED <<pending, grants, sourcePaused>>
               /\ ~(inputPaused /\ ~inputPaused')
    BY <1>0, <1>6, <2>1, <2>2 DEF HeldWhilePaused
  <2>3. CASE pending' = << >> /\ inputPaused' = FALSE
               /\ (strategy = "block" => sourcePaused' = FALSE)
    <3>1. Len(<< >>) = 0 /\ BufferSize # 0
      OBVIOUS
    <3> QED  BY <1>0, <1>6, <2>1, <2>3, <3>1 DEF HeldWhilePaused
  <2> QED  BY <1>6, <2>2, <2>3, OutSettles
<1>7. CASE Consume /\ Others
  <2>1. /\ out # << >> /\ \E paused \in BOOLEAN : OutBecomes(paused, Tail(out))
        /\ UNCHANGED strategy
    BY <1>7 DEF Consume, OutDue
  <2> QED  BY <1>6, <2>1, TailShorter
<1>8. CASE Resume /\ Others
  <2>1. OutBecomes(FALSE, out) /\ UNCHANGED strategy /\ out \in Seq(Events)
    BY <1>8 DEF Resume, TypeOK
  <2> QED  BY <1>6, <2>1
<1>9. CASE TimerFires /\ Others
  <2>1. UNCHANGED <<strategy, outPaused, inputPaused>>
    BY <1>9 DEF TimerFires
  <2>2. CASE strategy # "block"
    BY <1>0, <2>1, <2>2 DEF HeldWhilePaused
  <2>3. CASE strategy = "block"
    BY <1>1, <1>9, <2>1, <2>3, TimerSettles
  <2> QED  BY <2>2, <2>3
<1>10. ASSUME NEW n \in 1 .. BufferSize, Rests(n) PROVE HeldWhilePaused'
  BY <1>1, <1>10, RestMoves
<1> QED
  BY <1>2, <1>3, <1>4, <1>5, <1>7, <1>8, <1>9, <1>10, Steps

LEMMA OutBoundedStep ==
  ASSUME TypeOK, Marked, HeldWhilePaused, OutBounded, [Next]_vars
  PROVE  OutBounded'
<1> SUFFICES ASSUME strategy' = "block", handler' = "running"
             PROVE  /\ Len(out') <= BufferSize
                    /\ turn' = "source" /\ ~inputPaused' => Len(out') < BufferSize
  BY DEF OutBounded
<1>0. /\ outPaused => inputPaused
      /\ strategy = "block" => /\ Len(pending) <= BufferSize
                               /\ sourcePaused <=> Len(pending) = BufferSize
      /\ strategy = "block" /\ handler = "running" =>
           /\ Len(out) <= BufferSize
           /\ turn = "source" /\ ~inputPaused => Len(out) < BufferSize
      /\ {sourcePaused, outPaused, inputPaused} \subseteq BOOLEAN
      /\ Len(out) \in Nat /\ Len(pending) \in Nat
  BY Lengths DEF HeldWhilePaused, OutBounded, TypeOK
<1>1. CASE UNCHANGED <<strategy, out, turn, inputPaused, handler>>
  BY <1>0, <1>1
<1>2. CASE Produce \/ Arrive
  BY <1>1, <1>2 DEF Produce, Arrive, buffers
<1>3. CASE Return \/ WorkerDies
  BY <1>3 DEF Return, WorkerDies
<1>4. ASSUME NEW x \in 1 .. MaxItems, Takes(x), OnData(x)
      PROVE  Len(out') <= BufferSize /\ turn' # "source"
  <2>1. /\ ~sourcePaused /\ UNCHANGED <<strategy, handler, inputPaused>> /\ turn' = "out"
        /\ (OutDue => turn = "source")
    BY <1>4 DEF Takes, Others
  <2>2. CASE inputPaused
    BY <1>0, <1>4, <2>1, <2>2, DataSettles
  <2>3. CASE ~inputPaused
    <3>1. Len(out') = Len(out) + 1
      BY <1>4, <2>1, <2>3, DataSettles
    <3>2. Len(out) < BufferSize
      <4>1. CASE out = << >>
        BY <4>1, Lengths
      <4>2. CASE out # << >>
        <5>1. turn = "source"
          BY <1>0, <2>1, <2>3, <4>2 DEF OutDue
        <5> QED  BY <1>0, <2>1, <2>3, <5>1
      <4> QED  BY <4>1, <4>2
    <3> QED  BY <1>0, <2>1, <3>1, <3>2
  <2> QED  BY <2>2, <2>3
<1>5. CASE (Takes(Done) /\ OnDone) \/ (Takes(Error) /\ OnError)
  <2>1. /\ handler = "running" /\ source # << >>
        /\ Head(source) = Done \/ Head(source) = Error
    BY <1>5 DEF Takes, Others
  <2> QED  BY <2>1, RunningHasNoEnd
<1>6. ASSUME NEW paused \in BOOLEAN, NEW left \in Seq(Events), OutBecomes(paused, left),
             Len(left) <= Len(out), (~inputPaused => paused \/ Len(left) < Len(out)),
             UNCHANGED <<strategy, handler>>
      PROVE  /\ Len(out') <= BufferSize
             /\ turn' = "source" /\ ~inputPaused' => Len(out') < BufferSize
  <2>0. strategy = "block" /\ handler = "running" /\ Len(left) \in Nat
    BY <1>6
  <2>1. CASE out' = left /\ ~(inputPaused /\ ~inputPaused')
    <3>1. inputPaused' = (paused \/ (inputPaused /\ left # << >>))
      BY <1>6, OutSettles
    <3>2. ~inputPaused' => Len(left) < Len(out)
      BY <1>6, <2>1, <3>1
    <3> QED  BY <1>0, <1>6, <2>0, <2>1, <3>2
  <2>2. CASE out' = pending
    <3>1. turn' = "source" => ~sourcePaused
      BY <1>6, OutSettles DEF SourceDue
    <3> QED  BY <1>0, <2>0, <2>2, <3>1
  <2> QED  BY <1>6, <2>1, <2>2, OutSettles
<1>7. CASE Consume /\ Others
  <2>1. PICK paused \in BOOLEAN : OutBecomes(paused, Tail(out))
    BY <1>7 DEF Consume
  <2>2. out # << >> /\ UNCHANGED <<strategy, handler>>
    BY <1>7 DEF Consume, OutDue, Others
  <2>3. Tail(out) \in Seq(Events) /\ Len(Tail(out)) < Len(out) /\ Len(Tail(out)) <= Len(out)
    BY <1>0, <2>2, TailShorter
  <2> QED  BY <1>6, <2>1, <2>2, <2>3
<1>8. CASE Resume /\ Others
  <2>1. /\ OutBecomes(FALSE, out) /\ UNCHANGED <<strategy, handler>> /\ out \in Seq(Events)
        /\ outPaused /\ inputPaused
    BY <1>0, <1>8 DEF Resume, TypeOK, Others
  <2>2. FALSE \in BOOLEAN /\ Len(out) <= Len(out) /\ (~inputPaused => FALSE \/ Len(out) < Len(out))
    BY <1>0, <2>1
  <2> QED  BY <1>6, <2>1, <2>2, Zenon
<1>9. CASE TimerFires /\ Others
  BY <1>1, <1>9, TimerSettles DEF TimerFires, Others
<1>10. ASSUME NEW n \in 1 .. BufferSize, Rests(n)
       PROVE  UNCHANGED <<strategy, out, turn, inputPaused, handler>>
  BY <1>10, RestMoves
<1> QED
  BY <1>1, <1>2, <1>3, <1>4, <1>5, <1>7, <1>8, <1>9, <1>10, Steps

-----------------------------------------------------------------------------
(* Credits.                                                                *)

Sizes == 1 .. BufferSize
Weighted(g) == [n \in Sizes |-> n * g[n]]

LEMMA UnderWayIs ==
  UnderWay = Total(Weighted(grants), Sizes) /\ UnderWay' = Total(Weighted(grants'), Sizes)
BY DEF UnderWay, Weights, Weighted, Sizes, Total, MapThenSumSet, MapThenFoldSet

LEMMA WeightedIs ==
  ASSUME NEW g \in [Sizes -> Nat]
  PROVE  /\ Weighted(g) \in [Sizes -> Nat] /\ Total(Weighted(g), Sizes) \in Nat
         /\ IsFiniteSet(Sizes)
<1>1. IsFiniteSet(Sizes)
  BY FS_Interval DEF Sizes
<1>2. Weighted(g) \in [Sizes -> Nat]
  <2>1. \A n \in Sizes : n * g[n] \in Nat
    <3>1. \A a, b \in Nat : a * b \in Nat
      OBVIOUS
    <3>2. \A n \in Sizes : n \in Nat /\ g[n] \in Nat
      BY DEF Sizes
    <3> QED  BY <3>1, <3>2
  <2> QED  BY <2>1 DEF Weighted
<1> QED  BY <1>1, <1>2, TotalType

\* One grant more or less of k credits.
LEMMA GrantCounts ==
  ASSUME NEW g \in [Sizes -> Nat], NEW h \in [Sizes -> Nat], NEW k \in Sizes,
         h[k] = g[k] + 1, \A n \in Sizes \ {k} : h[n] = g[n]
  PROVE  Total(Weighted(h), Sizes) = Total(Weighted(g), Sizes) + k
<1> SUFFICES ASSUME NEW f, f = Weighted(g), NEW e, e = Weighted(h)
             PROVE  Total(e, Sizes) = Total(f, Sizes) + k
  OBVIOUS
<1>1. /\ f \in [Sizes -> Nat] /\ e \in [Sizes -> Nat] /\ IsFiniteSet(Sizes)
      /\ Total(f, Sizes) \in Nat
  BY WeightedIs
<1>2. \A n \in Sizes \ {k} : e[n] = f[n]
  BY DEF Weighted
<1>3. f[k] = k * g[k] /\ e[k] = k * (g[k] + 1)
  BY DEF Weighted
<1>4. e[k] - f[k] = k
  <2>1. \A a, b \in Nat : a * (b + 1) - a * b = a
    OBVIOUS
  <2>2. k \in Nat /\ g[k] \in Nat
    BY DEF Sizes
  <2> QED  BY <1>3, <2>1, <2>2
<1>5. Total(e, Sizes) = Total(f, Sizes) + (e[k] - f[k])
  BY <1>1, <1>2, TotalChanges
<1> QED  BY <1>1, <1>4, <1>5

LEMMA GrantSent ==
  ASSUME TypeOK, NEW k \in 0 .. BufferSize, Grant(k)
  PROVE  UnderWay \in Nat /\ UnderWay' = UnderWay + k
<1>1. grants \in [Sizes -> Nat] /\ UnderWay \in Nat
  <2>1. grants \in [Sizes -> Nat]
    BY DEF TypeOK, Sizes
  <2> QED  BY <2>1, WeightedIs, UnderWayIs
<1>2. CASE k = 0
  <2>1. grants' = grants
    BY <1>2 DEF Grant
  <2> QED  BY <1>1, <1>2, <2>1, UnderWayIs
<1>3. CASE k # 0
  <2>1. grants' = [grants EXCEPT ![k] = grants[k] + 1] /\ k \in Sizes
    BY <1>3 DEF Grant, Sizes
  <2>2. /\ grants' \in [Sizes -> Nat] /\ grants'[k] = grants[k] + 1
        /\ \A n \in Sizes \ {k} : grants'[n] = grants[n]
    BY <1>1, <2>1
  <2> QED  BY <1>1, <2>1, <2>2, GrantCounts, UnderWayIs
<1> QED  BY <1>2, <1>3

LEMMA GrantTaken ==
  ASSUME TypeOK, NEW n \in 1 .. BufferSize, GrantArrives(n)
  PROVE  UnderWay \in Nat /\ UnderWay' = UnderWay - n /\ UnderWay' \in Nat
<1>1. grants \in [Sizes -> Nat] /\ UnderWay \in Nat /\ n \in Sizes
  <2>1. grants \in [Sizes -> Nat]
    BY DEF TypeOK, Sizes
  <2> QED  BY <2>1, WeightedIs, UnderWayIs DEF Sizes
<1>2. grants[n] > 0 /\ grants' = [grants EXCEPT ![n] = grants[n] - 1]
  BY DEF GrantArrives
<1>3. grants' \in [Sizes -> Nat]
  BY <1>1, <1>2
<1>4. grants[n] = grants'[n] + 1 /\ \A m \in Sizes \ {n} : grants[m] = grants'[m]
  BY <1>1, <1>2
<1>5. Total(Weighted(grants), Sizes) = Total(Weighted(grants'), Sizes) + n
  BY <1>1, <1>3, <1>4, GrantCounts
<1>6. UnderWay = UnderWay' + n /\ UnderWay' \in Nat
  BY <1>3, <1>5, WeightedIs, UnderWayIs
<1>7. n \in Nat
  BY DEF Sizes
<1>8. \A a, b, m \in Nat : a = b + m => b = a - m
  OBVIOUS
<1> QED  BY <1>1, <1>6, <1>7, <1>8, Zenon

Account == received + UnderWay = BufferSize + Len(consumed) + Len(out)

LEMMA AccountStep ==
  ASSUME TypeOK, Marked, HeldWhilePaused, CreditAccount, [Next]_vars,
         strategy = "block", handler = "running", handler' = "running"
  PROVE  Account'
<1>0. /\ received + UnderWay = BufferSize + Len(consumed) + Len(out)
      /\ received \in Nat /\ Len(out) \in Nat /\ Len(consumed) \in Nat /\ UnderWay \in Nat
      /\ Len(pending) \in 0 .. BufferSize
  <2>1. grants \in [Sizes -> Nat]
    BY DEF TypeOK, Sizes
  <2>2. UnderWay \in Nat
    BY <2>1, WeightedIs, UnderWayIs
  <2> QED  BY <2>2, Lengths DEF CreditAccount, TypeOK, HeldWhilePaused
<1> SUFFICES ASSUME NEW l, l = Len(out'), NEW c, c = Len(consumed')
             PROVE  received' + UnderWay' = BufferSize + c + l
  BY DEF Account
<1>1. ASSUME UNCHANGED <<received, grants, consumed, out>>
      PROVE  received' + UnderWay' = BufferSize + c + l
  BY <1>0, <1>1, UnderWayIs
<1>2. CASE Produce
  <2>1. UNCHANGED <<received, grants, consumed, out>>
    BY <1>2 DEF Produce, buffers, Window!Pass, Window!Use
  <2> QED  BY <1>1, <2>1
<1>3. CASE Return \/ WorkerDies
  BY <1>3 DEF Return, WorkerDies
<1>4. CASE Arrive
  BY <1>1, <1>4 DEF Arrive, gate
<1>5. ASSUME NEW x \in 1 .. MaxItems, Takes(x), OnData(x)
      PROVE  received' + UnderWay' = BufferSize + c + l
  <2>1. ~sourcePaused /\ UNCHANGED <<received, consumed>>
    BY <1>5 DEF Takes, Others, gate
  <2>2. CASE out' = out /\ grants' = grants
    BY <1>1, <2>1, <2>2
  <2>3. CASE Len(out') = Len(out) + 1 /\ Grant(1)
    <3>1. 1 \in 0 .. BufferSize
      OBVIOUS
    <3>2. UnderWay' = UnderWay + 1
      BY <2>3, <3>1, GrantSent
    <3> QED  BY <1>0, <2>1, <2>3, <3>2
  <2> QED  BY <1>5, <2>1, <2>2, <2>3, DataSettles
<1>6. CASE (Takes(Done) /\ OnDone) \/ (Takes(Error) /\ OnError)
  <2>1. /\ source # << >>
        /\ Head(source) = Done \/ Head(source) = Error
    BY <1>6 DEF Takes
  <2> QED  BY <2>1, RunningHasNoEnd
<1>7. ASSUME NEW paused \in BOOLEAN, NEW left \in Seq(Events), OutBecomes(paused, left),
             UNCHANGED received, c + Len(left) = Len(consumed) + Len(out), c \in Nat
      PROVE  received' + UnderWay' = BufferSize + c + l
  <2>0. Len(left) \in Nat
    BY <1>7
  <2>1. CASE out' = left /\ UNCHANGED grants
    <3>1. UnderWay' = UnderWay /\ received' = received /\ l = Len(left)
      BY <1>7, <2>1, UnderWayIs
    <3> QED  BY <1>0, <1>7, <2>0, <3>1
  <2>2. CASE out' = pending /\ left = << >> /\ Grant(Len(pending))
    <3>1. UnderWay' = UnderWay + Len(pending)
      BY <1>0, <2>2, GrantSent
    <3>2. Len(left) = 0
      BY <2>2
    <3> QED  BY <1>0, <1>7, <2>2, <3>1, <3>2
  <2> QED  BY <1>7, <2>1, <2>2, OutSettles
<1>8. CASE Consume /\ Others
  <2>1. PICK paused \in BOOLEAN : OutBecomes(paused, Tail(out))
    BY <1>8 DEF Consume
  <2>2. out # << >> /\ consumed' = Append(consumed, Head(out)) /\ UNCHANGED received
    BY <1>8 DEF Consume, OutDue, Others, gate
  <2>3. Tail(out) \in Seq(Events) /\ Len(Tail(out)) = Len(out) - 1
    BY <2>2, TailShorter
  <2>4. c = Len(consumed) + 1
    <3>1. consumed \in Seq(1 .. MaxItems)
      BY DEF TypeOK
    <3> QED  BY <2>2, <3>1
  <2>5. c + Len(Tail(out)) = Len(consumed) + Len(out) /\ c \in Nat
    BY <1>0, <2>3, <2>4
  <2> QED  BY <1>7, <2>1, <2>2, <2>3, <2>5
<1>9. CASE Resume /\ Others
  <2>1. /\ OutBecomes(FALSE, out) /\ UNCHANGED <<received, consumed>> /\ out \in Seq(Events)
        /\ FALSE \in BOOLEAN
    BY <1>9 DEF Resume, TypeOK, Others, gate
  <2>2. c + Len(out) = Len(consumed) + Len(out) /\ c \in Nat
    BY <1>0, <2>1
  <2> QED  BY <1>7, <2>1, <2>2, Zenon
<1>10. CASE TimerFires /\ Others
  <2>1. UNCHANGED <<received, consumed>>
    BY <1>10 DEF TimerFires, Others, gate
  <2> QED  BY <1>1, <1>10, <2>1, TimerSettles
<1>11. ASSUME NEW n \in 1 .. BufferSize, Rests(n)
       PROVE  received' + UnderWay' = BufferSize + c + l
  <2>1. CASE GrantArrives(n)
    <3>1. received' = received + n /\ UNCHANGED <<consumed, out>>
      BY <2>1 DEF GrantArrives
    <3>2. UnderWay' = UnderWay - n
      BY <2>1, GrantTaken
    <3> QED  BY <1>0, <3>1, <3>2
  <2>2. CASE ~GrantArrives(n)
    <3>1. UNCHANGED <<received, grants, consumed, out>>
      BY <1>11, <2>2 DEF Rests, EndOfStream, Cancel, End, Others, gate, vars, buffers
    <3> QED  BY <1>1, <3>1
  <2> QED  BY <2>1, <2>2
<1> QED
  BY <1>2, <1>3, <1>4, <1>5, <1>6, <1>8, <1>9, <1>10, <1>11, Steps

LEMMA GateNumbers ==
  ASSUME TypeOK, CreditAccount, [Next]_vars
  PROVE  /\ produced' = free' + used' /\ produced' \in Nat /\ free' \in Nat
         /\ used' \in 0 .. received' /\ received' \in Nat /\ produced' \in 0 .. MaxItems
         /\ free' \in 0 .. MaxItems
         /\ \/ UNCHANGED <<produced, free>>
            \/ handler = "running" /\ handler' = "running"
<1>0. /\ produced = free + used /\ produced \in 0 .. MaxItems /\ free \in 0 .. MaxItems
      /\ used \in 0 .. received /\ received \in Nat /\ used \in Nat /\ MaxItems \in Nat
  BY DEF TypeOK, CreditAccount
<1>1. CASE Produce
  <2>1. /\ produced' = produced + 1 /\ produced < MaxItems /\ handler = "running"
        /\ handler' = "running"
    BY <1>1 DEF Produce
  <2>2. CASE Window!Pass
    BY <1>0, <2>1, <2>2 DEF Window!Pass
  <2>3. CASE Window!Use
    BY <1>0, <2>1, <2>3 DEF Window!Use
  <2> QED  BY <1>1, <2>2, <2>3 DEF Produce
<1>2. CASE UNCHANGED <<produced, used, free, received>>
  BY <1>0, <1>2
<1>3. CASE Return \/ Arrive \/ WorkerDies
  BY <1>2, <1>3 DEF Return, Arrive, WorkerDies, gate
<1>4. CASE Others
  BY <1>2, <1>4 DEF Others, gate
<1>5. ASSUME NEW n \in 1 .. BufferSize, GrantArrives(n)
      PROVE  /\ UNCHANGED <<produced, free, used>> /\ received' = received + n
             /\ received' \in Nat /\ used' \in 0 .. received'
  BY <1>0, <1>5 DEF GrantArrives, Window!Grant
<1>6. CASE UNCHANGED vars
  BY <1>2, <1>6 DEF vars, gate
<1>7. ASSUME NEW n \in 1 .. BufferSize, Rests(n), ~GrantArrives(n) PROVE Others
  BY <1>7 DEF Rests, Others, vars
<1>8. (\E x \in 1 .. MaxItems : Takes(x)) \/ Takes(Done) \/ Takes(Error) => Others
  BY DEF Takes
<1> QED
  <2>1. CASE \E n \in 1 .. BufferSize : GrantArrives(n)
    BY <1>0, <1>5, <2>1
  <2> QED  BY <1>1, <1>3, <1>4, <1>7, <1>8, <2>1, Steps

\* Where a step can change what the application has had.
LEMMA ConsumedGrows ==
  ASSUME TypeOK, [Next]_vars
  PROVE  /\ consumed' \in Seq(1 .. MaxItems) /\ Len(consumed') \in Nat
         /\ Len(consumed') >= Len(consumed) /\ Len(consumed) \in Nat
<1>1. consumed \in Seq(1 .. MaxItems) /\ Len(consumed) \in Nat
  BY DEF TypeOK
<1>2. CASE UNCHANGED consumed
  BY <1>1, <1>2
<1>3. CASE Consume /\ Others
  <2>1. consumed' = Append(consumed, Head(out)) /\ Head(out) \in 1 .. MaxItems
    BY <1>3, ConsumeMoves DEF Others
  <2> QED  BY <1>1, <2>1
<1>4. CASE Produce \/ Return \/ Arrive \/ WorkerDies
  BY <1>2, <1>4 DEF Produce, Return, Arrive, WorkerDies, buffers
<1>5. (\E x \in 1 .. MaxItems : Takes(x)) \/ Takes(Done) \/ Takes(Error) => UNCHANGED consumed
  BY DEF Takes
<1>6. CASE (TimerFires /\ Others) \/ (Resume /\ Others)
  BY <1>2, <1>6 DEF TimerFires, Resume
<1>7. ASSUME NEW n \in 1 .. BufferSize, Rests(n) PROVE UNCHANGED consumed
  BY <1>7, RestMoves
<1> QED  BY <1>2, <1>3, <1>4, <1>5, <1>6, <1>7, Steps

LEMMA CreditStep ==
  ASSUME TypeOK, Marked, HeldWhilePaused, OutBounded, OutBounded', CreditAccount, [Next]_vars,
         TypeOK'
  PROVE  CreditAccount'
<1>1. handler' = "running" => handler = "running"
  <2>1. CASE Return \/ WorkerDies
    BY <2>1 DEF Return, WorkerDies
  <2>2. CASE ~(Return \/ WorkerDies)
    <3>1. CASE Produce \/ Arrive
      BY <3>1 DEF Produce, Arrive
    <3>2. (\E x \in 1 .. MaxItems : Takes(x)) \/ Takes(Done) \/ Takes(Error) => Others
      BY DEF Takes
    <3>3. Others => UNCHANGED handler
      BY DEF Others
    <3>4. \A n \in 1 .. BufferSize : Rests(n) => UNCHANGED handler
      BY RestMoves
    <3> QED  BY <2>2, <3>1, <3>2, <3>3, <3>4, Steps
  <2> QED  BY <2>1, <2>2
<1>2. strategy' = strategy
  <2>1. CASE Produce \/ Return \/ Arrive \/ WorkerDies
    BY <2>1 DEF Produce, Return, Arrive, WorkerDies, buffers
  <2>2. (\E x \in 1 .. MaxItems : Takes(x)) \/ Takes(Done) \/ Takes(Error) => UNCHANGED strategy
    BY DEF Takes
  <2>3. Consume \/ TimerFires \/ Resume => UNCHANGED strategy
    BY DEF Consume, TimerFires, Resume
  <2>4. \A n \in 1 .. BufferSize : Rests(n) => UNCHANGED strategy
    BY RestMoves
  <2> QED  BY <2>1, <2>2, <2>3, <2>4, Steps
<1>3. strategy' = "block" /\ handler' = "running" => Account'
  BY <1>1, <1>2, AccountStep
<1>4. strategy' = "block" => produced' <= Len(consumed') + free' + 2 * BufferSize
  <2> SUFFICES ASSUME strategy' = "block"
               PROVE  produced' <= Len(consumed') + free' + 2 * BufferSize
    OBVIOUS
  <2>1. CASE UNCHANGED <<produced, free>>
    <3>1. produced <= Len(consumed) + free + 2 * BufferSize /\ produced \in Nat /\ free \in Nat
      BY <1>2 DEF CreditAccount, TypeOK
    <3> QED  BY <2>1, <3>1, ConsumedGrows
  <2>2. CASE handler' = "running"
    <3>1. received' + UnderWay' = BufferSize + Len(consumed') + Len(out')
      BY <1>3, <2>2 DEF Account
    <3>2. Len(out') <= BufferSize
      BY <2>2 DEF OutBounded
    <3>3. UnderWay' \in Nat
      <4>1. grants' \in [Sizes -> Nat]
        BY DEF TypeOK, Sizes
      <4> QED  BY <4>1, WeightedIs, UnderWayIs
    <3>4. Len(out') \in Nat
      <4>1. out' \in Seq(Events)
        BY DEF TypeOK
      <4> QED  BY <4>1
    <3>5. /\ produced' = free' + used' /\ used' <= received' /\ Len(consumed') \in Nat
          /\ {produced', free', used', received'} \subseteq Nat
      BY GateNumbers, ConsumedGrows
    <3> QED  BY <3>1, <3>2, <3>3, <3>4, <3>5, BlockStreamAssumption, BackpressureAssumption
  <2> QED  BY <2>1, <2>2, GateNumbers
<1> QED  BY <1>3, <1>4, GateNumbers DEF CreditAccount, Account

-----------------------------------------------------------------------------
(* Types.                                                                  *)

LEMMA GrantTyped ==
  ASSUME TypeOK, NEW k \in Nat, Grant(k) PROVE grants' \in [1 .. BufferSize -> Nat]
<1>1. grants \in [1 .. BufferSize -> Nat]
  BY DEF TypeOK
<1>2. CASE k = 0
  BY <1>1, <1>2 DEF Grant
<1>3. CASE k # 0
  <2>1. grants' = [grants EXCEPT ![k] = grants[k] + 1]
    BY <1>3 DEF Grant
  <2>2. CASE k \in 1 .. BufferSize
    <3>1. grants[k] + 1 \in Nat
      BY <1>1, <2>2
    <3> QED  BY <1>1, <2>1, <3>1
  <2>3. CASE k \notin 1 .. BufferSize
    BY <1>1, <2>1, <2>3
  <2> QED  BY <2>2, <2>3
<1> QED  BY <1>2, <1>3

LEMMA PumpTyped ==
  ASSUME TypeOK, NEW held \in Seq(1 .. MaxItems), NEW paused, NEW atSource, NEW queue,
         Pump(held, paused, atSource, queue)
  PROVE  /\ pending' \in Seq(1 .. MaxItems) /\ sourcePaused' \in BOOLEAN
         /\ grants' \in [1 .. BufferSize -> Nat]
<1>1. pending' \in Seq(1 .. MaxItems)
  <2>1. << >> \in Seq(1 .. MaxItems)
    OBVIOUS
  <2>2. pending' = held \/ pending' = << >>
    BY DEF Pump
  <2> QED  BY <2>1, <2>2
<1>2. sourcePaused' \in BOOLEAN
  BY DEF Pump
<1>3. grants' \in [1 .. BufferSize -> Nat]
  <2> DEFINE k == IF strategy = "block" /\ ~paused THEN Len(held) ELSE 0
  <2>1. k \in Nat
    OBVIOUS
  <2>2. Grant(k)
    BY DEF Pump
  <2> HIDE DEF k
  <2> QED  BY <2>1, <2>2, GrantTyped
<1> QED  BY <1>1, <1>2, <1>3

LEMMA OutTyped ==
  ASSUME TypeOK, NEW paused \in BOOLEAN, NEW left \in Seq(Events), OutBecomes(paused, left)
  PROVE  /\ pending' \in Seq(1 .. MaxItems)
         /\ {sourcePaused', outPaused', inputPaused'} \subseteq BOOLEAN
         /\ grants' \in [1 .. BufferSize -> Nat] /\ turn' \in {"source", "out"}
         /\ out' \in Seq(Events)
<1>1. /\ outPaused' \in BOOLEAN /\ inputPaused' \in BOOLEAN /\ turn' \in {"source", "out"}
  BY DEF OutBecomes
<1>2. out' \in Seq(Events)
  BY OutMoves DEF Wide
<1>3. /\ pending \in Seq(1 .. MaxItems) /\ sourcePaused \in BOOLEAN
      /\ grants \in [1 .. BufferSize -> Nat]
  BY DEF TypeOK
<1>4. CASE Pump(pending, FALSE, sourcePaused, left)
  BY <1>1, <1>2, <1>3, <1>4, PumpTyped
<1>5. CASE UNCHANGED <<pending, grants, sourcePaused>>
  BY <1>1, <1>2, <1>3, <1>5
<1> QED  BY <1>4, <1>5 DEF OutBecomes

LEMMA TypeStep ==
  ASSUME TypeOK, InOrder(Line), CreditAccount, [Next]_vars PROVE TypeOK'
<1>0. /\ strategy \in Strategies
      /\ source \in Seq(Events) /\ out \in Seq(Events) /\ wire \in Seq(Events)
      /\ pending \in Seq(1 .. MaxItems) /\ consumed \in Seq(1 .. MaxItems)
      /\ grants \in [1 .. BufferSize -> Nat]
      /\ sourcePaused \in BOOLEAN /\ timer \in BOOLEAN /\ outPaused \in BOOLEAN
      /\ inputPaused \in BOOLEAN /\ limited \in BOOLEAN
      /\ turn \in {"source", "out"} /\ finished \in {"no", "done", "error", "cancelled"}
      /\ handler \in {"running", "returned", "died"}
  BY DEF TypeOK
<1>1. /\ produced' \in 0 .. MaxItems /\ received' \in Nat /\ used' \in 0 .. received'
      /\ free' \in 0 .. MaxItems /\ consumed' \in Seq(1 .. MaxItems)
  BY GateNumbers, ConsumedGrows
<1> SUFFICES /\ strategy' \in Strategies
             /\ source' \in Seq(Events) /\ out' \in Seq(Events) /\ wire' \in Seq(Events)
             /\ pending' \in Seq(1 .. MaxItems)
             /\ grants' \in [1 .. BufferSize -> Nat]
             /\ sourcePaused' \in BOOLEAN /\ timer' \in BOOLEAN /\ outPaused' \in BOOLEAN
             /\ inputPaused' \in BOOLEAN /\ limited' \in BOOLEAN
             /\ turn' \in {"source", "out"}
             /\ finished' \in {"no", "done", "error", "cancelled"}
             /\ handler' \in {"running", "returned", "died"}
  BY <1>1 DEF TypeOK
<1>2. CASE Produce
  <2>1. produced + 1 \in Events
    BY <1>2 DEF Produce, Events, TypeOK
  <2>2. wire' \in Seq(Events)
    BY <1>0, <1>2, <2>1 DEF Produce
  <2>3. UNCHANGED <<buffers, handler, limited>>
    BY <1>2 DEF Produce, Window!Pass, Window!Use
  <2> QED  BY <1>0, <2>2, <2>3 DEF buffers
<1>3. CASE Return
  <2>1. Done \in Events
    BY DEF Events
  <2>2. wire' \in Seq(Events)
    BY <1>0, <1>3, <2>1 DEF Return
  <2> QED  BY <1>0, <1>3, <2>2 DEF Return, buffers, gate
<1>4. CASE Arrive
  <2>1. source' \in Seq(Events) /\ wire' \in Seq(Events)
    BY <1>4, ArriveMoves DEF Wide
  <2> QED  BY <1>0, <1>4, <2>1 DEF Arrive, gate
<1>5. CASE WorkerDies
  <2>1. source' \in Seq(Events) /\ wire' \in Seq(Events)
    BY <1>5, DeathMoves DEF Wide
  <2>2. grants' \in [1 .. BufferSize -> Nat] /\ handler' = "died"
    BY <1>5 DEF WorkerDies
  <2> QED  BY <1>0, <1>5, <2>1, <2>2 DEF WorkerDies, gate
<1>6. ASSUME NEW x \in 1 .. MaxItems, Takes(x), OnData(x)
      PROVE  /\ strategy' \in Strategies
             /\ source' \in Seq(Events) /\ out' \in Seq(Events) /\ wire' \in Seq(Events)
             /\ pending' \in Seq(1 .. MaxItems)
             /\ grants' \in [1 .. BufferSize -> Nat]
             /\ sourcePaused' \in BOOLEAN /\ timer' \in BOOLEAN /\ outPaused' \in BOOLEAN
             /\ inputPaused' \in BOOLEAN /\ limited' \in BOOLEAN
             /\ turn' \in {"source", "out"}
             /\ finished' \in {"no", "done", "error", "cancelled"}
             /\ handler' \in {"running", "returned", "died"}
  <2>1. /\ source # << >> /\ x = Head(source) /\ source' = Tail(source) /\ turn' = "out"
        /\ UNCHANGED <<strategy, outPaused, inputPaused, consumed, finished, wire, limited,
                       handler>>
    BY <1>6 DEF Takes, Others, gate
  <2>2. source' \in Seq(Events) /\ out' \in Seq(Events)
    BY <1>6, <2>1, DataMoves DEF Wide
  <2> DEFINE held == Hold(x)
  <2>3. held \in Seq(1 .. MaxItems)
    BY Holds
  <2>4. /\ timer' \in BOOLEAN
        /\ \/ pending' = held /\ UNCHANGED <<grants, sourcePaused>>
           \/ \E atSource : Pump(held, inputPaused, atSource, out)
    BY <1>6 DEF OnData
  <2> HIDE DEF held
  <2>5. /\ pending' \in Seq(1 .. MaxItems) /\ sourcePaused' \in BOOLEAN
        /\ grants' \in [1 .. BufferSize -> Nat]
    BY <1>0, <2>3, <2>4, PumpTyped
  <2> QED  BY <1>0, <2>1, <2>2, <2>4, <2>5
<1>7. CASE Takes(Done) /\ OnDone
  <2>1. /\ source # << >> /\ Head(source) = Done /\ source' = Tail(source) /\ turn' = "out"
        /\ UNCHANGED <<strategy, outPaused, inputPaused, consumed, finished, wire, limited,
                       handler>>
    BY <1>7 DEF Takes, Others, gate
  <2>2. source' \in Seq(Events) /\ out' \in Seq(Events)
    BY <1>7, <2>1, DoneMoves DEF Wide
  <2>3. << >> \in Seq(1 .. MaxItems)
    OBVIOUS
  <2>4. pending' = << >> /\ timer' = FALSE /\ UNCHANGED <<grants, sourcePaused>>
    BY <1>7 DEF OnDone
  <2> QED  BY <1>0, <2>1, <2>2, <2>3, <2>4
<1>8. CASE Takes(Error) /\ OnError
  <2>1. /\ source # << >> /\ Head(source) = Error /\ source' = Tail(source) /\ turn' = "out"
        /\ UNCHANGED <<strategy, outPaused, inputPaused, consumed, finished, wire, limited,
                       handler>>
    BY <1>8 DEF Takes, Others, gate
  <2>2. source' \in Seq(Events) /\ out' \in Seq(Events)
    BY <1>8, <2>1, ErrorMoves DEF Wide
  <2> QED  BY <1>0, <1>8, <2>1, <2>2 DEF OnError
<1>9. CASE Consume /\ Others
  <2>1. PICK paused \in BOOLEAN : OutBecomes(paused, Tail(out))
    BY <1>9 DEF Consume
  <2>2. /\ UNCHANGED <<strategy, source, timer, finished, wire, limited, handler>>
        /\ Tail(out) \in Seq(Events)
    BY <1>9, TailShorter DEF Consume, Others, gate, OutDue
  <2> QED  BY <1>0, <2>1, <2>2, OutTyped
<1>10. CASE Resume /\ Others
  <2>1. OutBecomes(FALSE, out) /\ FALSE \in BOOLEAN
    BY <1>10 DEF Resume
  <2>2. /\ pending' \in Seq(1 .. MaxItems)
        /\ {sourcePaused', outPaused', inputPaused'} \subseteq BOOLEAN
        /\ grants' \in [1 .. BufferSize -> Nat] /\ turn' \in {"source", "out"}
        /\ out' \in Seq(Events)
    BY <1>0, <2>1, OutTyped, Zenon
  <2>3. UNCHANGED <<strategy, source, timer, consumed, finished, wire, limited, handler>>
    BY <1>10 DEF Resume, Others, gate
  <2> QED  BY <1>0, <2>2, <2>3
<1>11. CASE TimerFires /\ Others
  <2>1. Pump(pending, inputPaused, sourcePaused, out) /\ timer' = FALSE
    BY <1>11 DEF TimerFires
  <2>2. /\ pending' \in Seq(1 .. MaxItems) /\ sourcePaused' \in BOOLEAN
        /\ grants' \in [1 .. BufferSize -> Nat]
    BY <1>0, <2>1, PumpTyped
  <2>3. out' \in Seq(Events)
    BY <1>11, TimerMoves DEF Wide, Others
  <2>4. UNCHANGED <<strategy, source, outPaused, inputPaused, turn, finished, wire, limited,
                    handler>>
    BY <1>11 DEF TimerFires, Others, gate
  <2> QED  BY <1>0, <2>1, <2>2, <2>3, <2>4
<1>12. ASSUME NEW n \in 1 .. BufferSize, Rests(n)
       PROVE  /\ strategy' \in Strategies
              /\ source' \in Seq(Events) /\ out' \in Seq(Events) /\ wire' \in Seq(Events)
              /\ pending' \in Seq(1 .. MaxItems)
              /\ grants' \in [1 .. BufferSize -> Nat]
              /\ sourcePaused' \in BOOLEAN /\ timer' \in BOOLEAN /\ outPaused' \in BOOLEAN
              /\ inputPaused' \in BOOLEAN /\ limited' \in BOOLEAN
              /\ turn' \in {"source", "out"}
              /\ finished' \in {"no", "done", "error", "cancelled"}
              /\ handler' \in {"running", "returned", "died"}
  <2>1. /\ UNCHANGED <<strategy, source, sourcePaused, pending, out, outPaused, inputPaused,
                       turn, handler, wire>>
    BY <1>12, RestMoves
  <2>2. CASE GrantArrives(n)
    <3>1. /\ grants[n] - 1 \in Nat /\ grants' = [grants EXCEPT ![n] = grants[n] - 1]
          /\ limited' = TRUE /\ UNCHANGED <<timer, finished>>
      BY <1>0, <2>2 DEF GrantArrives, Window!Grant
    <3>2. grants' \in [1 .. BufferSize -> Nat]
      BY <1>0, <3>1
    <3> QED  BY <1>0, <2>1, <3>1, <3>2
  <2>3. CASE EndOfStream /\ Others
    <3>1. UNCHANGED <<grants, limited>> /\ timer' = FALSE /\ finished' \in {"done", "error"}
      BY <2>3 DEF EndOfStream, End, Others, gate
    <3> QED  BY <1>0, <2>1, <3>1
  <2>4. CASE Cancel /\ Others
    <3>1. UNCHANGED <<grants, limited>> /\ timer' = FALSE /\ finished' = "cancelled"
      BY <2>4 DEF Cancel, End, Others, gate
    <3> QED  BY <1>0, <2>1, <3>1
  <2>5. CASE UNCHANGED vars
    BY <1>0, <2>5 DEF vars, gate, buffers
  <2> QED  BY <1>12, <2>2, <2>3, <2>4, <2>5 DEF Rests
<1> QED
  BY <1>2, <1>3, <1>4, <1>5, <1>6, <1>7, <1>8, <1>9, <1>10, <1>11, <1>12, Steps

-----------------------------------------------------------------------------
(* The invariant.                                                          *)

DoneAhead == finished = "done" => out # << >> /\ Head(out) = Done

LEMMA DoneAheadStep ==
  ASSUME TypeOK, DoneAhead, [Next]_vars PROVE DoneAhead'
<1>1. CASE UNCHANGED <<out, finished>>
  BY <1>1 DEF DoneAhead
<1>2. CASE Produce \/ Return \/ Arrive \/ WorkerDies
  BY <1>1, <1>2 DEF Produce, Return, Arrive, WorkerDies, buffers
<1>3. ASSUME Live, UNCHANGED finished PROVE DoneAhead'
  BY <1>3 DEF DoneAhead, Live
<1>4. (\E x \in 1 .. MaxItems : Takes(x)) \/ Takes(Done) \/ Takes(Error) =>
        Live /\ UNCHANGED finished
  BY DEF Takes
<1>5. Consume \/ TimerFires \/ Resume => Live /\ UNCHANGED finished
  BY DEF Consume, TimerFires, Resume
<1>6. ASSUME NEW n \in 1 .. BufferSize, Rests(n) PROVE DoneAhead'
  <2>1. CASE GrantArrives(n) \/ UNCHANGED vars
    BY <1>1, <2>1 DEF GrantArrives, vars, buffers
  <2>2. CASE EndOfStream
    <3>1. /\ out # << >> /\ out' = out /\ Head(out) \in {Done, Error}
          /\ finished' = IF Head(out) = Done THEN "done" ELSE "error"
      BY <2>2 DEF EndOfStream, End, OutDue
    <3> QED  BY <3>1 DEF DoneAhead
  <2>3. CASE Cancel
    BY <2>3 DEF Cancel, End, DoneAhead
  <2> QED  BY <1>6, <2>1, <2>2, <2>3 DEF Rests
<1> QED  BY <1>2, <1>3, <1>4, <1>5, <1>6, Steps

LEMMA FirstGrant ==
  ASSUME Init, strategy = "block" PROVE UnderWay = BufferSize
<1> DEFINE z == [n \in Sizes |-> 0]
<1>1. BufferSize \in Sizes
  BY DEF Sizes
<1>2. /\ grants \in [Sizes -> Nat] /\ grants[BufferSize] = 1
      /\ \A n \in Sizes \ {BufferSize} : grants[n] = 0
  <2>1. grants = [n \in Sizes |-> IF n = BufferSize THEN 1 ELSE 0]
    BY DEF Init, BuffersInit, Sizes
  <2> QED  BY <1>1, <2>1
<1>3. z \in [Sizes -> Nat] /\ \A n \in Sizes : z[n] = 0
  OBVIOUS
<1> HIDE DEF z
<1>4. grants[BufferSize] = z[BufferSize] + 1 /\ \A n \in Sizes \ {BufferSize} : grants[n] = z[n]
  BY <1>1, <1>2, <1>3
<1>5. Total(Weighted(grants), Sizes) = Total(Weighted(z), Sizes) + BufferSize
  BY <1>1, <1>2, <1>3, <1>4, GrantCounts
<1>6. Total(Weighted(z), Sizes) = 0
  <2>1. \A n \in Sizes : Weighted(z)[n] = 0
    <3>1. \A n \in Sizes : n * z[n] = 0
      BY <1>3 DEF Sizes
    <3> QED  BY <3>1 DEF Weighted
  <2>2. IsFiniteSet(Sizes)
    BY <1>3, WeightedIs
  <2> QED  BY <2>1, <2>2, TotalOfZeros
<1> QED  BY <1>5, <1>6, UnderWayIs

LEMMA Initially == Init => IInv
<1> SUFFICES ASSUME Init PROVE IInv
  OBVIOUS
<1>1. /\ consumed = << >> /\ out = << >> /\ pending = << >> /\ source = << >> /\ wire = << >>
      /\ produced = 0 /\ handler = "running" /\ finished = "no" /\ strategy \in Strategies
      /\ sourcePaused = FALSE /\ timer = FALSE /\ outPaused = FALSE /\ inputPaused = FALSE
      /\ limited = FALSE /\ turn = "source" /\ received = 0 /\ used = 0 /\ free = 0
  BY DEF Init, BuffersInit
<1>2. /\ << >> \in Seq(Events) /\ << >> \in Seq(1 .. MaxItems) /\ Len(<< >>) = 0
      /\ 0 \in 0 .. MaxItems /\ 0 \in 0 .. 0
  OBVIOUS
<1>3. grants \in [1 .. BufferSize -> Nat]
  BY DEF Init, BuffersInit
<1>4. TypeOK
  BY <1>1, <1>2, <1>3 DEF TypeOK
<1>5. Flight = << >> /\ Line = << >>
  <2>1. << >> \o << >> = << >>
    OBVIOUS
  <2> QED  BY <1>1, <2>1 DEF Flight, Line
<1>6. ToSet(<< >>) = {} /\ InOrder(<< >>)
  BY Empty
<1>7. Items(<< >>) = {}
  BY <1>6 DEF Items
<1>8. StreamIntact
  <2>1. 1 .. 0 = {}
    OBVIOUS
  <2> QED  BY <1>1, <1>5, <1>6, <1>7, <2>1 DEF StreamIntact
<1>9. EndsMarked
  BY <1>1, <1>5, <1>6 DEF EndsMarked
<1>10. NoGap
  <2>1. Len(consumed) = 0 /\ 1 .. 0 = {} /\ 0 + 1 .. 0 = {} /\ 0 \in 0 .. 0
    BY <1>1, <1>2
  <2> QED  BY <1>1, <1>5, <1>7, <2>1 DEF NoGap
<1>11. HeldWhilePaused /\ OutBounded
  BY <1>1, <1>2 DEF HeldWhilePaused, OutBounded
<1>12. CreditAccount
  BY <1>1, <1>2, FirstGrant DEF CreditAccount
<1> QED  BY <1>4, <1>8, <1>9, <1>10, <1>11, <1>12 DEF IInv

LEMMA Step == IInv /\ [Next]_vars => IInv'
<1> SUFFICES ASSUME IInv, [Next]_vars PROVE IInv'
  OBVIOUS
<1>1. /\ TypeOK /\ StreamIntact /\ NoGap /\ HeldWhilePaused /\ OutBounded /\ CreditAccount
      /\ Marked /\ DoneAhead /\ InOrder(Line)
  BY DEF IInv, EndsMarked, Marked, DoneAhead, StreamIntact
<1>2. TypeOK'
  BY <1>1, TypeStep
<1>3. StreamIntact' /\ Marked'
  BY <1>1, IntactStep
<1>4. EndsMarked'
  BY <1>1, <1>3, DoneAheadStep DEF EndsMarked, Marked, DoneAhead
<1>5. NoGap' /\ HeldWhilePaused' /\ OutBounded'
  BY <1>1, NoGapStep, HeldStep, OutBoundedStep
<1>6. CreditAccount'
  BY <1>1, <1>2, <1>5, CreditStep
<1> QED  BY <1>2, <1>3, <1>4, <1>5, <1>6 DEF IInv

\* The invariant of the whole path, for every window, batch and length of the
\* stream: items keep their order and none is lost that the strategy keeps, the
\* ends are marked, and every credit stands for an item handed out.
THEOREM Invariance == Spec => []IInv
BY Initially, Step, PTL DEF Spec

-----------------------------------------------------------------------------
(* What it means for the application.                                      *)

\* Neither pauses, batches, late grants nor an Error that overtakes reorder,
\* repeat or lose items: the transformer of backpressure.dart and rpcStream.
THEOREM StreamIntactHolds == Spec => []StreamIntact
<1>1. IInv => StreamIntact
  BY DEF IInv
<1> QED  BY <1>1, Invariance, PTL

LEMMA DoneLast ==
  ASSUME IInv, finished = "done"
  PROVE  ToSet(Line) = ToSet(consumed) \cup {Done} /\ Items(Flight) = {}
<1>0. TypeOK /\ InOrder(Line) /\ out # << >> /\ Head(out) = Done
  BY DEF IInv, StreamIntact, EndsMarked
<1>1. /\ Wide(Tail(out)) /\ Wide(<<Done>>) /\ out = Cat(<<Done>>, Tail(out))
      /\ ToSet(<<Done>>) = {Done}
  <2>1. Done \in Events
    BY DEF Events
  <2> QED  BY <1>0, <2>1, Parts, FirstOf, One DEF Wide, Cat
<1> DEFINE rest == Cat(Cat(Tail(out), pending), Cat(source, wire))
<1>2. Wide(Cat(Tail(out), pending)) /\ Wide(Cat(source, wire)) /\ Wide(rest)
  BY <1>0, <1>1, Parts, Laws
<1>3. Flight = Cat(<<Done>>, rest)
  <2>1. Flight = Cat(Cat(Cat(Cat(<<Done>>, Tail(out)), pending), source), wire)
    BY <1>1 DEF Flight, Cat
  <2>2. Cat(Cat(<<Done>>, Tail(out)), pending) = Cat(<<Done>>, Cat(Tail(out), pending))
    BY <1>0, <1>1, Parts, Grouped
  <2>3. Wide(Cat(<<Done>>, Cat(Tail(out), pending)))
    BY <1>1, <1>2, Laws
  <2>4. Flight = Cat(Cat(<<Done>>, Cat(Tail(out), pending)), Cat(source, wire))
    BY <1>0, <2>1, <2>2, <2>3, Parts, Grouped
  <2> QED  BY <1>1, <1>2, <2>4, Grouped
<1> HIDE DEF rest
<1>4. InOrder(Flight)
  BY <1>0, Parts, LineIs, Laws
<1>5. Ahead(<<Done>>, rest) /\ ToSet(Flight) = {Done} \cup ToSet(rest)
  BY <1>1, <1>2, <1>3, <1>4, Laws
<1>6. ToSet(rest) = {}
  BY <1>1, <1>5 DEF Ahead, Precedes
<1>7. ToSet(Flight) = {Done}
  BY <1>5, <1>6
<1> QED  BY <1>0, <1>7, LineIs DEF Items, IsItem, Done

LEMMA DoneMeansAll == IInv => DoneAfterItems
<1> SUFFICES ASSUME IInv, finished = "done", produced = MaxItems, MaxItems > 0
             PROVE  /\ consumed[Len(consumed)] = MaxItems
                    /\ strategy \in {"block", "batch"} => Len(consumed) = MaxItems
  BY DEF DoneAfterItems
<1>0. /\ TypeOK /\ InOrder(Line) /\ consumed \in Seq(1 .. MaxItems)
      /\ Len(consumed) \in Nat /\ DOMAIN consumed = 1 .. Len(consumed) /\ MaxItems \in Nat
  BY DEF IInv, StreamIntact, TypeOK
<1>1. ToSet(Line) = ToSet(consumed) \cup {Done} /\ Items(Flight) = {}
  BY DoneLast
<1>2. handler # "died"
  <2>1. Error \notin ToSet(consumed) /\ Error # Done
    BY <1>0, Parts DEF Error, Done
  <2> QED  BY <1>1, <2>1 DEF IInv, EndsMarked
<1>3. MaxItems \in ToSet(consumed)
  <2>1. MaxItems \in ToSet(Line)
    BY <1>2 DEF IInv, StreamIntact
  <2> QED  BY <1>1, <2>1 DEF Done
<1>4. PICK i \in 1 .. Len(consumed) : consumed[i] = MaxItems
  BY <1>0, <1>3 DEF ToSet
<1>5. i = Len(consumed)
  <2> DEFINE n == Len(consumed)
  <2>1. n \in Nat /\ i \in 1 .. n /\ n \in 1 .. n
    BY <1>0, <1>4
  <2>2. InOrder(consumed)
    BY <1>0, Parts, LineIs, Laws
  <2>3. consumed[n] \in 1 .. MaxItems
    BY <1>0, <2>1
  <2>4. i < n => consumed[i] < consumed[n]
    BY <1>0, <1>4, <2>1, <2>2, <2>3 DEF InOrder, Precedes, IsItem
  <2> HIDE DEF n
  <2>5. ~(i < n)
    BY <1>0, <1>4, <2>3, <2>4
  <2>6. i = n
    BY <2>1, <2>5
  <2> QED  BY <2>6 DEF n
<1>6. ASSUME strategy \in {"block", "batch"} PROVE Len(consumed) = MaxItems
  BY <1>0, <1>4, <1>5, <1>6 DEF IInv, NoGap
<1> QED  BY <1>4, <1>5, <1>6

\* Done reaches the application behind every item that was not dropped, and
\* behind the latest in any case: _onDone delivers what is pending first.
THEOREM DoneAfterItemsHolds == Spec => []DoneAfterItems
BY Invariance, DoneMeansAll, PTL

LEMMA BoundedItems == IInv => ClientBounded
<1> SUFFICES ASSUME IInv, strategy = "block"
             PROVE  Cardinality(Items(Flight)) <= free + 2 * BufferSize
  BY DEF ClientBounded
<1> DEFINE c == Len(consumed)
<1>0. /\ c \in Nat /\ produced \in Nat /\ free \in Nat
      /\ produced <= c + free + 2 * BufferSize
  BY Lengths DEF IInv, TypeOK, CreditAccount
<1>1. PICK m \in c .. produced : Items(Flight) = c + 1 .. m
  BY DEF IInv, NoGap
<1> HIDE DEF c
<1>2. Cardinality(c + 1 .. m) = IF c + 1 > m THEN 0 ELSE m - (c + 1) + 1
  BY <1>0, FS_Interval
<1>3. Cardinality(c + 1 .. m) = m - c
  BY <1>0, <1>2
<1> QED  BY <1>0, <1>1, <1>3

\* Under block the client never holds more than two windows beyond the items
\* that passed before the first grant, wherever they are.
THEOREM ClientBoundedHolds == Spec => []ClientBounded
BY Invariance, BoundedItems, PTL
=============================================================================
