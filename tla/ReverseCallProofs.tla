-------------------------- MODULE ReverseCallProofs --------------------------
(***************************************************************************)
(* The safety of reverse calls and pushes for any number of calls,         *)
(* handlers and notes.                                                     *)
(***************************************************************************)
EXTENDS ReverseCall, FiniteSetTheorems, TLAPS

-----------------------------------------------------------------------------
(* Queues.                                                                 *)

LEMMA TailFacts ==
  ASSUME NEW S, NEW q \in Seq(S), q # << >>
  PROVE  /\ Tail(q) \in Seq(S) /\ Len(Tail(q)) = Len(q) - 1 /\ Len(q) \in Nat \ {0}
         /\ Head(q) = q[1] /\ Head(q) \in S
         /\ \A i \in 1 .. Len(Tail(q)) : i + 1 \in 2 .. Len(q) /\ Tail(q)[i] = q[i + 1]
OBVIOUS

LEMMA AppendFacts ==
  ASSUME NEW S, NEW q \in Seq(S), NEW e \in S
  PROVE  /\ Append(q, e) \in Seq(S) /\ Len(Append(q, e)) = Len(q) + 1 /\ Len(q) \in Nat
         /\ Append(q, e)[Len(q) + 1] = e
         /\ \A i \in 1 .. Len(q) : Append(q, e)[i] = q[i]
OBVIOUS

-----------------------------------------------------------------------------
(* Constants.                                                              *)

LEMMA Constants ==
  /\ EntryCalls \subseteq Callers
  /\ None \notin Callers /\ None \notin Handlers
  /\ Web \in BOOLEAN /\ MaxNotes \in Nat /\ Cardinality(Callers) \in Nat
BY ReverseCallAssumption, FS_CardinalityType

USE Constants

\* What every proof about a step opens: the groups of variables.
USE DEF Goes, Works, TakeEvent, goState, bootState, dartState, jobState

-----------------------------------------------------------------------------

LEMMA NoteIn ==
  ASSUME NEW q, NEW i \in 1 .. Len(q), IsNote(q[i])
  PROVE  q[i].of \in NoteOf(q)
BY DEF NoteOf

LEMMA InitInv == Init => IInv
<1> SUFFICES ASSUME Init PROVE IInv
  OBVIOUS
<1> USE DEF Init
<1>1. TypeOK
  <2>1. NoReply \in Reply
    BY DEF NoReply, Reply
  <2>2. /\ reply \in [Handlers -> [Callers -> Reply]]
        /\ job \in [Handlers -> [Callers -> Progress]]
    BY <2>1 DEF Progress
  <2>3. /\ pending \in [Ports -> Callers \cup {None}]
        /\ port \in [Callers -> Ports \cup {0}]
        /\ channel \in [Callers -> Seq(Callers \cup {"empty"})]
        /\ \A c \in Callers : Len(channel[c]) <= 1
        /\ mailbox \in [Listeners -> Seq(Push)]
    OBVIOUS
  <2>4. /\ pc \in [Callers -> {"idle", "pushing", "waiting", "leaving", "returned"}]
        /\ result \in [Callers -> Callers \cup {"none", "default", "context", "unpushed"}]
    OBVIOUS
  <2>5. /\ initialized \in {"no", "entry", "answered"} /\ current \in Handlers \cup {None}
        /\ reverseID \in 0 .. Cardinality(Callers) /\ notes \in 0 .. MaxNotes
    OBVIOUS
  <2>6. pusher \in BOOLEAN /\ pushPort \in BOOLEAN /\ alive \in BOOLEAN /\ ready \in BOOLEAN
    BY Zenon
  <2>7. QED
    BY <2>2, <2>3, <2>4, <2>5, <2>6 DEF TypeOK
<1>2. PendingExact
  BY DEF PendingExact
<1>3. PortsGivenOut
  <2>1. {c \in Callers : pc[c] # "idle"} = {}
    OBVIOUS
  <2>2. Cardinality({c \in Callers : pc[c] # "idle"}) = 0
    BY <2>1, FS_EmptySet, Zenon
  <2>3. QED
    BY <2>2 DEF PortsGivenOut
<1>4. PushesNameCalls /\ CurrentListens /\ OneCopy
  BY DEF PushesNameCalls, CurrentListens, OneCopy, Once, Listeners
<1>5. AnswersOwnCall /\ ReadyAfterEntry
  BY DEF AnswersOwnCall, ReadyAfterEntry
<1>6. NotesFollow /\ NotesInOrder
  BY DEF NotesFollow, NotesInOrder, Ascends, Before, Noted, NoteOf, Listeners
<1>7. QED
  BY <1>1, <1>2, <1>3, <1>4, <1>5, <1>6 DEF IInv

-----------------------------------------------------------------------------

\* Calls that have begun have taken one port each, so a call that has not
\* leaves one.
LEMMA PortLeft ==
  ASSUME IInv, NEW c \in Callers, pc[c] = "idle"
  PROVE  /\ reverseID + 1 \in Ports /\ reverseID \in Nat
         /\ \A d \in Callers : port[d] # reverseID + 1
         /\ Cardinality({d \in Callers : pc[d] # "idle"} \cup {c}) = reverseID + 1
<1> DEFINE Begun == {d \in Callers : pc[d] # "idle"}
<1>1. reverseID = Cardinality(Begun)
  BY DEF IInv, PortsGivenOut
<1>2. IsFiniteSet(Callers) /\ IsFiniteSet(Callers \ {c})
  BY ReverseCallAssumption, FS_RemoveElement, Zenon
<1>3. Cardinality(Callers \ {c}) = Cardinality(Callers) - 1
  BY <1>2, FS_RemoveElement
<1>4. Begun \subseteq Callers \ {c} /\ c \notin Begun
  OBVIOUS
<1>5. IsFiniteSet(Begun) /\ Cardinality(Begun) <= Cardinality(Callers \ {c})
  BY <1>2, <1>4, FS_Subset, Zenon
<1>6. Cardinality(Begun \cup {c}) = Cardinality(Begun) + 1
  BY <1>4, <1>5, FS_AddElement
<1>7. Cardinality(Begun) \in Nat
  BY <1>5, FS_CardinalityType, Zenon
<1> HIDE DEF Begun
<1>8. reverseID + 1 \in Ports /\ reverseID \in Nat
  BY <1>1, <1>3, <1>5, <1>7 DEF Ports
<1>9. \A d \in Callers : port[d] # reverseID + 1
  BY <1>8 DEF IInv, PortsGivenOut
<1>10. QED
  BY <1>1, <1>6, <1>8, <1>9, Zenon DEF Begun

LEMMA JobMoves ==
  ASSUME job \in [Handlers -> [Callers -> Progress]],
         NEW h \in Handlers, NEW c \in Callers, NEW from, NEW to \in Progress,
         Works(h, c, from, to)
  PROVE  job' \in [Handlers -> [Callers -> Progress]]
OBVIOUS

\* A future only ever changes fields of its own reply.
LEMMA ReplyMoves ==
  ASSUME reply \in [Handlers -> [Callers -> Reply]],
         NEW h \in Handlers, NEW c \in Callers, NEW r \in Reply,
         reply' = [reply EXCEPT ![h][c] = r]
  PROVE  reply' \in [Handlers -> [Callers -> Reply]]
OBVIOUS

\* The types of the futures and of their replies.
LEMMA FutureTypes ==
  ASSUME IInv, NEW h \in Handlers, NEW c \in Callers,
         Serve(h, c) \/ WaitReadyTimesOut(h, c)
  PROVE  /\ job' \in [Handlers -> [Callers -> Progress]]
         /\ reply' \in [Handlers -> [Callers -> Reply]]
<1> DEFINE r == reply[h][c]
<1>1. /\ job \in [Handlers -> [Callers -> Progress]]
      /\ reply \in [Handlers -> [Callers -> Reply]]
      /\ r \in Reply
  BY DEF IInv, TypeOK
<1>2. {"running", "replying", "retrying", "sent", "sending", "over"} \subseteq Progress
  BY DEF Progress
<1>3. \A v \in {c, "empty"} : [r EXCEPT !.payload = v] \in Reply
  BY <1>1 DEF Reply
<1>4. CASE HandlerSucceeds(h, c) \/ HandlerFails(h, c)
  <2>1. PICK v \in {c, "empty"} : Complete(h, c, v)
    BY <1>4 DEF HandlerSucceeds, HandlerFails
  <2>2. job' \in [Handlers -> [Callers -> Progress]]
    BY <1>1, <1>2, <2>1 DEF Complete
  <2>3. reply' = [reply EXCEPT ![h][c] = [r EXCEPT !.payload = v]]
    BY <1>1, <2>1 DEF Complete
  <2>4. QED
    BY <1>1, <1>3, <2>2, <2>3
<1>5. CASE SendReverseResponse(h, c)
  BY <1>1, <1>2, <1>5 DEF SendReverseResponse
<1>6. CASE WaitReadyTimesOut(h, c)
  <2>1. CASE Works(h, c, "replying", "retrying") /\ reply' = [reply EXCEPT ![h][c].payload = "empty"]
    <3>1. reply' = [reply EXCEPT ![h][c] = [r EXCEPT !.payload = "empty"]]
      BY <1>1, <2>1
    <3>2. QED
      BY <1>1, <1>2, <1>3, <2>1, <3>1
  <2>2. CASE Works(h, c, "retrying", "over") /\ UNCHANGED reply
    BY <1>1, <1>2, <2>2
  <2>3. QED
    BY <1>6, <2>1, <2>2 DEF WaitReadyTimesOut
<1>7. CASE Receive(h, c)
  <2>1. r.port = port[c] /\ port[c] \in Ports /\ pending[port[c]] \in Callers \cup {None}
    BY <1>7 DEF Receive, IInv, TypeOK, AnswersOwnCall, PortsGivenOut
  <2>2. [r EXCEPT !.channel = pending[port[c]]] \in Reply
    BY <1>1, <2>1 DEF Reply
  <2>3. QED
    BY <1>1, <1>2, <1>7, <2>1, <2>2 DEF Receive
<1>8. CASE SendAnswer(h, c)
  BY <1>1, <1>2, <1>8 DEF SendAnswer
<1>9. QED
  BY <1>4, <1>5, <1>6, <1>7, <1>8 DEF Serve

\* The event a listener takes names its call.
LEMMA HeadNames ==
  ASSUME IInv, NEW l \in Listeners, mailbox[l] # << >>
  PROVE  Head(mailbox[l]) \in Push /\ NamesItsCall(Head(mailbox[l]))
<1>1. mailbox[l] \in Seq(Push)
  BY DEF IInv, TypeOK
<1>2. Head(mailbox[l]) = mailbox[l][1] /\ 1 \in 1 .. Len(mailbox[l]) /\ Head(mailbox[l]) \in Push
  BY <1>1
<1>3. QED
  BY <1>2 DEF IInv, PushesNameCalls

\* A step of a future changes no other future.
LEMMA FutureMoves ==
  ASSUME NEW h \in Handlers, NEW c \in Callers,
         job \in [Handlers -> [Callers -> Progress]],
         reply \in [Handlers -> [Callers -> Reply]],
         Serve(h, c) \/ WaitReadyTimesOut(h, c)
  PROVE  \A k \in Handlers, d \in Callers : k # h \/ d # c =>
           job'[k][d] = job[k][d] /\ reply'[k][d] = reply[k][d]
<1>1. CASE HandlerSucceeds(h, c) \/ HandlerFails(h, c)
  BY <1>1 DEF HandlerSucceeds, HandlerFails, Complete
<1>2. CASE SendReverseResponse(h, c) \/ SendAnswer(h, c)
  BY <1>2 DEF SendReverseResponse, SendAnswer
<1>3. CASE WaitReadyTimesOut(h, c)
  BY <1>3 DEF WaitReadyTimesOut
<1>4. CASE Receive(h, c)
  BY <1>4 DEF Receive
<1>5. QED
  BY <1>1, <1>2, <1>3, <1>4 DEF Serve

\* Every step keeps the types.  A port fits because a call takes one only; a
\* channel is filled with the answer of its own call; what the PushHandler
\* sees is a note.
LEMMA TypeStep == IInv /\ [Next]_vars => TypeOK'
<1> SUFFICES ASSUME IInv, [Next]_vars PROVE TypeOK'
  OBVIOUS
<1> USE DEF IInv, TypeOK
<1>1. CASE SetPusher \/ ReceiveInit \/ AnswerInit \/ BecomeReady \/ IsolateEnds
  BY <1>1 DEF SetPusher, ReceiveInit, AnswerInit, BecomeReady, IsolateEnds
<1>2. CASE Notify
  <2>1. [port |-> 0, of |-> notes + 1] \in Push
    BY <1>2 DEF Notify, Push
  <2>2. QED
    BY <1>2, <2>1, AppendFacts DEF Notify, PostPush
<1>3. CASE NewPushHandler
  BY <1>3 DEF NewPushHandler, Listeners
<1>4. CASE OnPush
  <2>1. Head(wire) \in Push /\ Tail(wire) \in Seq(Push)
    BY <1>4 DEF OnPush
  <2>2. mailbox' \in [Listeners -> Seq(Push)]
    BY <1>4, <2>1 DEF OnPush
  <2>3. QED
    BY <1>4, <2>1, <2>2 DEF OnPush
<1>5. CASE DispatchNote
  <2>1. Head(mailbox[None]) \in Push /\ Tail(mailbox[None]) \in Seq(Push)
    BY <1>5 DEF DispatchNote, Listeners
  <2>2. Head(mailbox[None]).port = 0 => Head(mailbox[None]).of \in 1 .. MaxNotes
    <3>1. Head(mailbox[None]) = mailbox[None][1] /\ 1 \in 1 .. Len(mailbox[None])
      BY <1>5 DEF DispatchNote, Listeners
    <3>2. Head(mailbox[None]).port = 0 => Head(mailbox[None]).of \in Noted
      BY <3>1, NoteIn DEF Noted, IsNote
    <3>3. \A n \in Noted : n \in 1 .. MaxNotes
      BY DEF NotesFollow
    <3>4. QED
      BY <3>2, <3>3
  <2>3. seen' \in Seq(1 .. MaxNotes)
    BY <1>5, <2>2, AppendFacts DEF DispatchNote
  <2>4. mailbox' \in [Listeners -> Seq(Push)]
    BY <1>5, <2>1 DEF DispatchNote
  <2>5. QED
    BY <1>5, <2>3, <2>4 DEF DispatchNote
<1>6. ASSUME NEW c \in Callers, Call(c) PROVE TypeOK'
  <2>1. CASE Register(c)
    <3>1. reverseID + 1 \in Ports
      BY <2>1, PortLeft DEF Register
    <3>2. QED
      BY <2>1, <3>1 DEF Register, Ports
  <2>2. CASE PushFails(c)
    BY <2>2 DEF PushFails
  <2>3. CASE PushSucceeds(c)
    <3>1. [port |-> port[c], of |-> c] \in Push
      BY DEF Push
    <3>2. QED
      BY <2>3, <3>1, AppendFacts DEF PushSucceeds, PostPush
  <2>4. QED
    BY <1>6, <2>1, <2>2, <2>3 DEF Call
<1>7. ASSUME NEW c \in Callers, Return(c) \/ EndContext(c) PROVE TypeOK'
  <2>1. CASE TakeAnswer(c)
    BY <2>1, TailFacts DEF TakeAnswer, Decoded
  <2>2. CASE ChooseContext(c) \/ EndContext(c)
    <3>1. CASE ChooseContext(c)
      BY <3>1 DEF ChooseContext
    <3>2. CASE EndContext(c)
      BY <3>2 DEF EndContext
    <3>3. QED
      BY <2>2, <3>1, <3>2
  <2>3. CASE Leave(c)
    <3>1. /\ pending' \in [Ports -> Callers \cup {None}]
          /\ result' \in [Callers -> Callers \cup {"none", "default", "context", "unpushed"}]
      BY <2>3 DEF Leave
    <3>2. QED
      BY <2>3, <3>1 DEF Leave
  <2>4. QED
    BY <1>7, <2>1, <2>2, <2>3 DEF Return
<1>8. ASSUME NEW h \in Handlers, NewHandler(h) PROVE TypeOK'
  BY <1>8 DEF NewHandler, Listeners
<1>9. ASSUME NEW h \in Handlers, Dispatch(h) PROVE TypeOK'
  <2>1. Head(mailbox[h]) \in Push /\ Tail(mailbox[h]) \in Seq(Push)
    BY <1>9 DEF Dispatch, Listeners
  <2>3. NamesItsCall(Head(mailbox[h]))
    BY <1>9, HeadNames DEF Dispatch, Listeners
  <2>4. /\ job' \in [Handlers -> [Callers -> Progress]]
        /\ reply' \in [Handlers -> [Callers -> Reply]]
    <3> DEFINE push == Head(mailbox[h])
               r == reply[h][push.of]
    <3>1. CASE push.port = 0
      BY <1>9, <3>1 DEF Dispatch
    <3>2. CASE push.port # 0
      <4>1. push.of \in Callers /\ push.port \in Ports /\ r \in Reply
        BY <2>1, <2>3, <3>2 DEF NamesItsCall, Push
      <4>2. [r EXCEPT !.port = push.port] \in Reply
        BY <4>1 DEF Reply
      <4>3. CASE UNCHANGED jobState
        BY <4>3
      <4>4. CASE /\ Works(h, push.of, "none", "running")
                 /\ reply' = [reply EXCEPT ![h][push.of].port = push.port]
        <5>1. reply' = [reply EXCEPT ![h][push.of] = [r EXCEPT !.port = push.port]]
          BY <4>1, <4>4
        <5>2. job' \in [Handlers -> [Callers -> Progress]]
          BY <4>1, <4>4 DEF Progress
        <5>3. QED
          BY <4>1, <4>2, <5>1, <5>2
      <4>5. QED
        BY <1>9, <4>3, <4>4 DEF Dispatch
    <3>3. QED
      BY <3>1, <3>2
  <2>5. QED
    BY <1>9, <2>1, <2>4 DEF Dispatch
<1>10. ASSUME NEW l \in Listeners, Dispose(l) PROVE TypeOK'
  BY <1>10 DEF Dispose
<1>11. ASSUME NEW h \in Handlers, NEW c \in Callers, Serve(h, c) \/ WaitReadyTimesOut(h, c)
       PROVE  TypeOK'
  <2>1. /\ job' \in [Handlers -> [Callers -> Progress]]
        /\ reply' \in [Handlers -> [Callers -> Reply]]
    BY <1>11, FutureTypes
  <2>2. CASE HandlerSucceeds(h, c) \/ HandlerFails(h, c)
    BY <2>1, <2>2 DEF HandlerSucceeds, HandlerFails, Complete
  <2>3. CASE SendReverseResponse(h, c) \/ WaitReadyTimesOut(h, c)
    BY <2>1, <2>3 DEF SendReverseResponse, WaitReadyTimesOut
  <2>4. CASE Receive(h, c)
    BY <2>1, <2>4 DEF Receive
  <2>5. CASE SendAnswer(h, c)
    <3>1. reply[h][c].channel = c /\ reply[h][c].payload \in {c, "empty"}
      BY <2>5 DEF SendAnswer, AnswersOwnCall
    <3>2. QED
      BY <2>1, <2>5, <3>1, AppendFacts DEF SendAnswer
  <2>6. QED
    BY <1>11, <2>2, <2>3, <2>4, <2>5 DEF Serve
<1>12. CASE UNCHANGED vars
  BY <1>12 DEF vars
<1>13. QED
  BY <1>1, <1>2, <1>3, <1>4, <1>5, <1>6, <1>7, <1>8, <1>9, <1>10, <1>11, <1>12 DEF Next

-----------------------------------------------------------------------------

\* What Register writes, and only that, is taken back: by the answer, by a
\* failed push, or by a context that ends.
LEMMA PendingStep == IInv /\ [Next]_vars => PendingExact'
<1> SUFFICES ASSUME IInv, [Next]_vars PROVE PendingExact'
  OBVIOUS
<1> USE DEF PendingExact
<1>0. /\ PendingExact /\ AnswersOwnCall
      /\ pending \in [Ports -> Callers \cup {None}]
      /\ pc \in [Callers -> {"idle", "pushing", "waiting", "leaving", "returned"}]
      /\ port \in [Callers -> Ports \cup {0}]
  BY DEF IInv, TypeOK
<1>1. CASE SetPusher \/ ReceiveInit \/ AnswerInit \/ BecomeReady \/ IsolateEnds
  BY <1>0, <1>1 DEF SetPusher, ReceiveInit, AnswerInit, BecomeReady, IsolateEnds
<1>2. CASE Notify \/ NewPushHandler \/ OnPush \/ DispatchNote
  BY <1>0, <1>2 DEF Notify, NewPushHandler, OnPush, DispatchNote
<1>3. ASSUME NEW c \in Callers, Call(c) PROVE PendingExact'
  <2>1. CASE Register(c)
    <3>1. reverseID + 1 \in Ports
      BY <2>1, PortLeft DEF Register
    <3>2. QED
      BY <1>0, <2>1, <3>1 DEF Register
  <2>2. CASE PushFails(c)
    BY <1>0, <2>2 DEF PushFails
  <2>3. CASE PushSucceeds(c)
    BY <1>0, <2>3 DEF PushSucceeds
  <2>4. QED
    BY <1>3, <2>1, <2>2, <2>3 DEF Call
<1>4. ASSUME NEW c \in Callers, Return(c) \/ EndContext(c) PROVE PendingExact'
  <2>1. CASE TakeAnswer(c)
    <3>1. pending[port[c]] = None
      BY <1>0, <2>1 DEF TakeAnswer, AnswersOwnCall
    <3>2. QED
      BY <1>0, <2>1, <3>1 DEF TakeAnswer
  <2>2. CASE ChooseContext(c) \/ EndContext(c)
    BY <1>0, <2>2 DEF ChooseContext, EndContext
  <2>3. CASE Leave(c)
    BY <1>0, <2>3 DEF Leave
  <2>4. QED
    BY <1>4, <2>1, <2>2, <2>3 DEF Return
<1>5. ASSUME NEW h \in Handlers, NewHandler(h) \/ Dispatch(h) PROVE PendingExact'
  BY <1>0, <1>5 DEF NewHandler, Dispatch
<1>6. ASSUME NEW l \in Listeners, Dispose(l) PROVE PendingExact'
  BY <1>0, <1>6 DEF Dispose
<1>7. ASSUME NEW h \in Handlers, NEW c \in Callers, Serve(h, c) \/ WaitReadyTimesOut(h, c)
      PROVE  PendingExact'
  <2>1. CASE Receive(h, c)
    BY <1>0, <2>1 DEF Receive
  <2>2. CASE HandlerSucceeds(h, c) \/ HandlerFails(h, c) \/ SendReverseResponse(h, c)
             \/ SendAnswer(h, c) \/ WaitReadyTimesOut(h, c)
    BY <1>0, <2>2 DEF HandlerSucceeds, HandlerFails, Complete, SendReverseResponse,
                      SendAnswer, WaitReadyTimesOut
  <2>3. QED
    BY <1>7, <2>1, <2>2 DEF Serve
<1>8. CASE UNCHANGED vars
  BY <1>0, <1>8 DEF vars
<1>9. QED
  BY <1>1, <1>2, <1>3, <1>4, <1>5, <1>6, <1>7, <1>8 DEF Next

\* reverseID counts the calls that have registered.
LEMMA PortsStep == IInv /\ [Next]_vars => PortsGivenOut'
<1> SUFFICES ASSUME IInv, [Next]_vars PROVE PortsGivenOut'
  OBVIOUS
<1> DEFINE Begun == {d \in Callers : pc[d] # "idle"}
<1>0. /\ PortsGivenOut
      /\ pc \in [Callers -> {"idle", "pushing", "waiting", "leaving", "returned"}]
      /\ port \in [Callers -> Ports \cup {0}]
      /\ reverseID \in Nat
  BY DEF IInv, TypeOK
<1>1. ASSUME UNCHANGED <<reverseID, port>>, Begun' = Begun PROVE PortsGivenOut'
  BY <1>0, <1>1 DEF PortsGivenOut
<1>2. CASE SetPusher \/ ReceiveInit \/ AnswerInit \/ BecomeReady \/ IsolateEnds
  BY <1>1, <1>2 DEF SetPusher, ReceiveInit, AnswerInit, BecomeReady, IsolateEnds
<1>3. CASE Notify \/ NewPushHandler \/ OnPush \/ DispatchNote
  BY <1>1, <1>3 DEF Notify, NewPushHandler, OnPush, DispatchNote
<1>4. ASSUME NEW c \in Callers, Register(c) PROVE PortsGivenOut'
  <2>1. /\ reverseID' = reverseID + 1 /\ reverseID + 1 \in Ports
        /\ pc[c] = "idle" /\ pc' = [pc EXCEPT ![c] = "pushing"]
        /\ port' = [port EXCEPT ![c] = reverseID + 1]
        /\ \A d \in Callers : port[d] # reverseID + 1
        /\ Cardinality(Begun \cup {c}) = reverseID + 1
    BY <1>4, PortLeft DEF Register
  <2>2. Begun' = Begun \cup {c}
    BY <1>0, <2>1
  <2>3. reverseID' = Cardinality(Begun')
    BY <2>1, <2>2
  <2>4. \A d \in Callers : port'[d] \in 0 .. reverseID' /\ (pc'[d] = "idle" <=> port'[d] = 0)
    BY <1>0, <2>1 DEF PortsGivenOut
  <2>5. \A d, e \in Callers : port'[d] = port'[e] /\ port'[d] # 0 => d = e
    BY <1>0, <2>1 DEF PortsGivenOut
  <2>6. QED
    BY <2>3, <2>4, <2>5 DEF PortsGivenOut
<1>5. ASSUME NEW c \in Callers,
             PushFails(c) \/ PushSucceeds(c) \/ Return(c) \/ EndContext(c)
      PROVE  PortsGivenOut'
  <2>1. UNCHANGED <<reverseID, port>>
    BY <1>5 DEF PushFails, PushSucceeds, Return, TakeAnswer, ChooseContext, Leave, EndContext
  <2>2. \/ UNCHANGED pc
        \/ /\ pc[c] # "idle"
           /\ \E to \in {"waiting", "leaving", "returned"} : pc' = [pc EXCEPT ![c] = to]
    BY <1>5 DEF PushFails, PushSucceeds, Return, TakeAnswer, ChooseContext, Leave, EndContext
  <2>3. Begun' = Begun
    BY <1>0, <2>2
  <2>4. QED
    BY <1>1, <2>1, <2>3
<1>6. ASSUME NEW h \in Handlers, NewHandler(h) \/ Dispatch(h) PROVE PortsGivenOut'
  BY <1>1, <1>6 DEF NewHandler, Dispatch
<1>7. ASSUME NEW l \in Listeners, Dispose(l) PROVE PortsGivenOut'
  BY <1>1, <1>7 DEF Dispose
<1>8. ASSUME NEW h \in Handlers, NEW c \in Callers, Serve(h, c) \/ WaitReadyTimesOut(h, c)
      PROVE  PortsGivenOut'
  BY <1>1, <1>8 DEF Serve, HandlerSucceeds, HandlerFails, Complete, SendReverseResponse,
                    Receive, SendAnswer, WaitReadyTimesOut
<1>9. CASE UNCHANGED vars
  BY <1>1, <1>9 DEF vars
<1>10. QED
  BY <1>2, <1>3, <1>4, <1>5, <1>6, <1>7, <1>8, <1>9 DEF Next, Call

\* The start goes one way, and a future waits for it before it sends.
LEMMA ReadyStep == IInv /\ [Next]_vars => ReadyAfterEntry'
<1> SUFFICES ASSUME IInv, [Next]_vars PROVE ReadyAfterEntry'
  OBVIOUS
<1> USE DEF ReadyAfterEntry
<1>0. /\ ReadyAfterEntry /\ AnswersOwnCall
      /\ pc \in [Callers -> {"idle", "pushing", "waiting", "leaving", "returned"}]
      /\ job \in [Handlers -> [Callers -> Progress]]
      /\ channel \in [Callers -> Seq(Callers \cup {"empty"})]
  BY DEF IInv, TypeOK
<1>a. ASSUME NEW h \in Handlers, NEW d \in Callers, NEW to \in Progress,
             UNCHANGED job \/ job' = [job EXCEPT ![h][d] = to],
             to \in {"sent", "sending"} => ready,
             UNCHANGED <<ready, initialized, pc, channel>>
      PROVE  ReadyAfterEntry'
  <2>1. \A k \in Handlers, e \in Callers :
          job'[k][e] \in {"sent", "sending"} => job[k][e] = job'[k][e] \/ ready
    BY <1>0, <1>a
  <2>2. QED
    BY <1>0, <1>a, <2>1
<1>1. CASE SetPusher \/ ReceiveInit \/ AnswerInit \/ BecomeReady \/ IsolateEnds
  BY <1>0, <1>1 DEF SetPusher, ReceiveInit, AnswerInit, BecomeReady, IsolateEnds
<1>2. CASE Notify \/ NewPushHandler \/ OnPush \/ DispatchNote
  BY <1>0, <1>2 DEF Notify, NewPushHandler, OnPush, DispatchNote
<1>3. ASSUME NEW c \in Callers, Call(c) PROVE ReadyAfterEntry'
  BY <1>0, <1>3 DEF Call, Register, PushFails, PushSucceeds
<1>4. ASSUME NEW c \in Callers, Return(c) \/ EndContext(c) PROVE ReadyAfterEntry'
  BY <1>0, <1>4 DEF Return, TakeAnswer, ChooseContext, Leave, EndContext
<1>5. ASSUME NEW h \in Handlers, NewHandler(h) \/ Dispatch(h) PROVE ReadyAfterEntry'
  <2>1. CASE NewHandler(h)
    BY <1>0, <2>1 DEF NewHandler
  <2>2. CASE Dispatch(h)
    <3>1. UNCHANGED <<ready, initialized, pc, channel>>
      BY <2>2 DEF Dispatch
    <3>2. CASE UNCHANGED job
      BY <1>0, <3>1, <3>2
    <3>3. CASE \E d \in Callers : job' = [job EXCEPT ![h][d] = "running"]
      BY <1>a, <3>1, <3>3 DEF Progress
    <3>4. QED
      BY <2>2, <3>2, <3>3, HeadNames DEF Dispatch, NamesItsCall, Listeners
  <2>3. QED
    BY <1>5, <2>1, <2>2
<1>6. ASSUME NEW l \in Listeners, Dispose(l) PROVE ReadyAfterEntry'
  BY <1>0, <1>6 DEF Dispose
<1>7. ASSUME NEW h \in Handlers, NEW c \in Callers, Serve(h, c) \/ WaitReadyTimesOut(h, c)
      PROVE  ReadyAfterEntry'
  <2>1. CASE HandlerSucceeds(h, c) \/ HandlerFails(h, c) \/ WaitReadyTimesOut(h, c)
             \/ SendReverseResponse(h, c)
    <3>1. \E to \in Progress : /\ job' = [job EXCEPT ![h][c] = to]
                               /\ to \in {"sent", "sending"} => ready
      BY <2>1 DEF HandlerSucceeds, HandlerFails, Complete, WaitReadyTimesOut,
                  SendReverseResponse, Progress
    <3>2. UNCHANGED <<ready, initialized, pc, channel>>
      BY <2>1 DEF HandlerSucceeds, HandlerFails, Complete, WaitReadyTimesOut,
                  SendReverseResponse
    <3>3. QED
      BY <1>a, <3>1, <3>2
  <2>2. CASE Receive(h, c)
    BY <1>0, <2>2 DEF Receive
  <2>3. CASE SendAnswer(h, c)
    BY <1>0, <2>3 DEF SendAnswer
  <2>4. QED
    BY <1>7, <2>1, <2>2, <2>3 DEF Serve
<1>8. CASE UNCHANGED vars
  BY <1>0, <1>8 DEF vars
<1>9. QED
  BY <1>1, <1>2, <1>3, <1>4, <1>5, <1>6, <1>7, <1>8 DEF Next

\* The port of a push is that of its call, so Receive finds that call or none,
\* and finds it once.
LEMMA AnswersStep == IInv /\ [Next]_vars => AnswersOwnCall'
<1> SUFFICES ASSUME IInv, [Next]_vars PROVE AnswersOwnCall'
  OBVIOUS
<1> USE DEF AnswersOwnCall
<1>0. /\ AnswersOwnCall /\ PortsGivenOut /\ PendingExact
      /\ pending \in [Ports -> Callers \cup {None}]
      /\ pc \in [Callers -> {"idle", "pushing", "waiting", "leaving", "returned"}]
      /\ port \in [Callers -> Ports \cup {0}]
  BY DEF IInv, TypeOK
<1>a. /\ job \in [Handlers -> [Callers -> Progress]]
      /\ reply \in [Handlers -> [Callers -> Reply]]
  BY DEF IInv, TypeOK
<1>b. /\ channel \in [Callers -> Seq(Callers \cup {"empty"})]
      /\ \A c \in Callers : Len(channel[c]) <= 1
  BY DEF IInv, TypeOK
<1>c. ASSUME UNCHANGED <<job, reply, channel, port>>,
             \A d \in Callers : pc[d] \notin {"idle", "pushing"} => pc'[d] \notin {"idle", "pushing"},
             \A p \in Ports : pending[p] = None => pending'[p] = None
      PROVE  AnswersOwnCall'
  <2>1. \A d \in Callers : pc[d] \notin {"idle", "pushing"} => port[d] \in Ports
    BY <1>0 DEF PortsGivenOut
  <2>2. QED
    BY <1>0, <1>c, <2>1
<1>1. CASE SetPusher \/ ReceiveInit \/ AnswerInit \/ BecomeReady \/ IsolateEnds
  BY <1>0, <1>1 DEF SetPusher, ReceiveInit, AnswerInit, BecomeReady, IsolateEnds
<1>2. CASE Notify \/ NewPushHandler \/ OnPush \/ DispatchNote
  BY <1>0, <1>2 DEF Notify, NewPushHandler, OnPush, DispatchNote
<1>3. ASSUME NEW c \in Callers, Call(c) PROVE AnswersOwnCall'
  <2>1. CASE Register(c)
    <3>1. reverseID + 1 \in Ports /\ \A d \in Callers : port[d] # reverseID + 1
      BY <2>1, PortLeft DEF Register
    <3>2. \A h \in Handlers : job[h][c] = "none"
      BY <1>0, <2>1 DEF Register
    <3>3. channel[c] = << >>
      BY <3>2, <1>0
    <3>4. \A d \in Callers \ {c} : port'[d] = port[d] /\ pc'[d] = pc[d]
                                  /\ pending'[port[d]] = pending[port[d]]
      BY <1>0, <2>1, <3>1 DEF Register
    <3>5. QED
      BY <1>0, <2>1, <3>2, <3>3, <3>4 DEF Register
  <2>2. CASE PushFails(c) \/ PushSucceeds(c)
    <3>1. UNCHANGED <<job, reply, channel, port>>
      BY <2>2 DEF PushFails, PushSucceeds
    <3>2. \A d \in Callers : pc[d] \notin {"idle", "pushing"} => pc'[d] \notin {"idle", "pushing"}
      BY <1>0, <2>2 DEF PushFails, PushSucceeds
    <3>3. \A p \in Ports : pending[p] = None => pending'[p] = None
      BY <1>0, <2>2 DEF PushFails, PushSucceeds
    <3>4. QED
      BY <1>c, <3>1, <3>2, <3>3
  <2>3. QED
    BY <1>3, <2>1, <2>2 DEF Call
<1>4. ASSUME NEW c \in Callers, Return(c) \/ EndContext(c) PROVE AnswersOwnCall'
  <2>1. CASE TakeAnswer(c)
    <3>1. channel'[c] = << >>
      BY <1>b, <2>1 DEF TakeAnswer
    <3>2. QED
      BY <1>0, <1>b, <2>1, <3>1 DEF TakeAnswer
  <2>2. CASE ChooseContext(c) \/ EndContext(c) \/ Leave(c)
    <3>1. UNCHANGED <<job, reply, channel, port>>
      BY <2>2 DEF ChooseContext, EndContext, Leave
    <3>2. \A d \in Callers : pc[d] \notin {"idle", "pushing"} => pc'[d] \notin {"idle", "pushing"}
      BY <1>0, <2>2 DEF ChooseContext, EndContext, Leave
    <3>3. \A p \in Ports : pending[p] = None => pending'[p] = None
      BY <1>0, <2>2 DEF ChooseContext, EndContext, Leave
    <3>4. QED
      BY <1>c, <3>1, <3>2, <3>3
  <2>3. QED
    BY <1>4, <2>1, <2>2 DEF Return
<1>5. ASSUME NEW h \in Handlers, NewHandler(h) PROVE AnswersOwnCall'
  BY <1>0, <1>5 DEF NewHandler
<1>6. ASSUME NEW h \in Handlers, Dispatch(h) PROVE AnswersOwnCall'
  <2> DEFINE push == Head(mailbox[h])
  <2>1. CASE UNCHANGED jobState
    BY <1>0, <1>6, <2>1 DEF Dispatch
  <2>2. CASE /\ push.port # 0
             /\ Works(h, push.of, "none", "running")
             /\ reply' = [reply EXCEPT ![h][push.of].port = push.port]
    <3>1. push.of \in Callers /\ push.port = port[push.of] /\ pc[push.of] \notin {"idle", "pushing"}
      BY <1>6, <2>2, HeadNames DEF Dispatch, NamesItsCall, Listeners
    <3>2. /\ job'[h][push.of] = "running" /\ reply'[h][push.of].port = port[push.of]
          /\ job[h][push.of] = "none"
      BY <1>a, <2>2, <3>1 DEF Reply
    <3>3. \A k \in Handlers, d \in Callers : k # h \/ d # push.of =>
            job'[k][d] = job[k][d] /\ reply'[k][d] = reply[k][d]
      BY <1>a, <2>2, <3>1
    <3>4. UNCHANGED <<pc, port, pending, channel>>
      BY <1>6 DEF Dispatch
    <3>5. \A k \in Handlers, d \in Callers : job[k][d] = "over" => job'[k][d] = "over"
      BY <3>2, <3>3
    <3> HIDE DEF push
    <3>6. \A k \in Handlers, d \in Callers :
            /\ job'[k][d] # "none" => /\ reply'[k][d].port = port[d]
                                     /\ pc[d] \notin {"idle", "pushing"}
            /\ job'[k][d] \in {"replying", "retrying", "sent", "sending"} =>
                 reply'[k][d].payload \in {d, "empty"}
            /\ job'[k][d] = "sending" => /\ reply'[k][d].channel = d
                                        /\ pending[port[d]] = None
      BY <1>0, <3>1, <3>2, <3>3
    <3>7. QED
      BY <1>0, <3>4, <3>5, <3>6
  <2>3. QED
    BY <1>6, <2>1, <2>2 DEF Dispatch
<1>7. ASSUME NEW l \in Listeners, Dispose(l) PROVE AnswersOwnCall'
  BY <1>0, <1>7 DEF Dispose
<1>8. ASSUME NEW h \in Handlers, NEW c \in Callers, Serve(h, c) \/ WaitReadyTimesOut(h, c)
      PROVE  AnswersOwnCall'
  <2>0. \A k \in Handlers, d \in Callers : k # h \/ d # c =>
          job'[k][d] = job[k][d] /\ reply'[k][d] = reply[k][d]
    BY <1>a, <1>8, FutureMoves
  <2>1. CASE HandlerSucceeds(h, c) \/ HandlerFails(h, c)
    <3>1. PICK v \in {c, "empty"} : Complete(h, c, v)
      BY <2>1 DEF HandlerSucceeds, HandlerFails
    <3>2. /\ job[h][c] = "running" /\ job'[h][c] \in {"replying", "retrying"}
          /\ reply'[h][c].payload = v /\ reply'[h][c].port = reply[h][c].port
      BY <1>a, <3>1 DEF Complete, Reply
    <3>3. UNCHANGED <<pc, port, channel, pending>>
      BY <3>1 DEF Complete
    <3>4. QED
      BY <1>0, <2>0, <3>2, <3>3
  <2>2. CASE SendReverseResponse(h, c)
    <3>1. /\ job[h][c] \in {"replying", "retrying"} /\ job'[h][c] = "sent"
          /\ UNCHANGED <<reply, pc, port, channel, pending>>
      BY <1>a, <2>2 DEF SendReverseResponse
    <3>2. QED
      BY <1>0, <2>0, <3>1
  <2>3. CASE WaitReadyTimesOut(h, c)
    <3>1. /\ job[h][c] \in {"replying", "retrying"}
          /\ job'[h][c] \in {"retrying", "over"}
          /\ reply'[h][c].port = reply[h][c].port
          /\ job'[h][c] = "retrying" => reply'[h][c].payload = "empty"
      BY <1>a, <2>3 DEF WaitReadyTimesOut, Reply
    <3>2. UNCHANGED <<pc, port, channel, pending>>
      BY <2>3 DEF WaitReadyTimesOut
    <3>3. QED
      BY <1>0, <2>0, <3>1, <3>2
  <2>4. CASE Receive(h, c)
    <3>1. reply[h][c].port = port[c] /\ port[c] \in Ports
      BY <1>0, <2>4 DEF Receive, PortsGivenOut
    <3>2. pending[port[c]] # None => pending[port[c]] = c
      BY <1>0, <3>1 DEF PendingExact, PortsGivenOut
    <3>3. QED
      BY <1>0, <1>a, <2>0, <2>4, <3>1, <3>2 DEF Receive, Reply
  <2>5. CASE SendAnswer(h, c)
    <3>1. reply[h][c].channel = c /\ pending[port[c]] = None /\ reply[h][c].payload \in {c, "empty"}
      BY <1>0, <2>5 DEF SendAnswer
    <3>2. channel[c] = << >> /\ channel' = [channel EXCEPT ![c] = Append(@, reply[h][c].payload)]
      BY <1>b, <2>5, <3>1 DEF SendAnswer
    <3>3. channel'[c][1] = reply[h][c].payload /\ \A d \in Callers \ {c} : channel'[d] = channel[d]
      BY <1>b, <3>1, <3>2
    <3>4. QED
      BY <1>0, <1>a, <2>0, <2>5, <3>1, <3>3 DEF SendAnswer
  <2>6. QED
    BY <1>8, <2>1, <2>2, <2>3, <2>4, <2>5 DEF Serve
<1>9. CASE UNCHANGED vars
  BY <1>0, <1>9 DEF vars
<1>10. QED
  BY <1>1, <1>2, <1>3, <1>4, <1>5, <1>6, <1>7, <1>8, <1>9 DEF Next

-----------------------------------------------------------------------------
(* Pushes on their way.                                                    *)

\* The steps that neither push nor touch the stream and its listeners; none of
\* them starts a future.
NoStart == \A h \in Handlers, c \in Callers : job'[h][c] # "none" => job[h][c] # "none"

Quiet ==
  /\ UNCHANGED <<wire, mailbox, seen, notes, current, subscribed, created>>
  /\ alive' => alive
  /\ NoStart

LEMMA QuietSteps ==
  ASSUME IInv, [Next]_vars
  PROVE  \/ Quiet \/ Notify \/ NewPushHandler \/ OnPush \/ DispatchNote
         \/ \E c \in Callers : PushSucceeds(c)
         \/ \E h \in Handlers : NewHandler(h) \/ Dispatch(h)
         \/ \E l \in Listeners : Dispose(l)
<1>0. job \in [Handlers -> [Callers -> Progress]] /\ reply \in [Handlers -> [Callers -> Reply]]
  BY DEF IInv, TypeOK
<1>a. UNCHANGED job => NoStart
  BY DEF NoStart
<1>1. CASE SetPusher \/ ReceiveInit \/ AnswerInit \/ BecomeReady \/ IsolateEnds
  BY <1>1, <1>a DEF SetPusher, ReceiveInit, AnswerInit, BecomeReady, IsolateEnds, Quiet
<1>2. ASSUME NEW c \in Callers, Register(c) \/ PushFails(c) \/ Return(c) \/ EndContext(c)
      PROVE  Quiet
  BY <1>2, <1>a DEF Register, PushFails, Return, TakeAnswer, ChooseContext, Leave, EndContext, Quiet
<1>3. ASSUME NEW h \in Handlers, NEW c \in Callers, Serve(h, c) \/ WaitReadyTimesOut(h, c)
      PROVE  Quiet
  <2>1. \A k \in Handlers, d \in Callers : k # h \/ d # c => job'[k][d] = job[k][d]
    BY <1>0, <1>3, FutureMoves
  <2>2. job[h][c] # "none"
    BY <1>3 DEF Serve, HandlerSucceeds, HandlerFails, Complete, SendReverseResponse,
                Receive, SendAnswer, WaitReadyTimesOut
  <2>3. NoStart
    BY <2>1, <2>2 DEF NoStart
  <2>4. UNCHANGED <<wire, mailbox, seen, notes, current, subscribed, created, alive>>
    BY <1>3 DEF Serve, HandlerSucceeds, HandlerFails, Complete, SendReverseResponse,
                Receive, SendAnswer, WaitReadyTimesOut
  <2>5. QED
    BY <2>3, <2>4 DEF Quiet
<1>4. CASE UNCHANGED vars
  BY <1>4, <1>a DEF vars, Quiet
<1>5. QED
  BY <1>1, <1>2, <1>3, <1>4 DEF Next, Call

LEMMA ListensStep == IInv /\ [Next]_vars => CurrentListens'
<1> SUFFICES ASSUME IInv, [Next]_vars PROVE CurrentListens'
  OBVIOUS
<1> USE DEF CurrentListens
<1>0. /\ CurrentListens
      /\ subscribed \subseteq Listeners /\ created \subseteq Listeners
      /\ current \in Handlers \cup {None}
      /\ mailbox \in [Listeners -> Seq(Push)]
  BY DEF IInv, TypeOK
<1>1. CASE Quiet
  BY <1>0, <1>1 DEF Quiet
<1>2. CASE Notify
  BY <1>0, <1>2 DEF Notify
<1>3. CASE NewPushHandler
  BY <1>0, <1>3 DEF NewPushHandler
<1>4. CASE OnPush
  BY <1>0, <1>4 DEF OnPush
<1>5. CASE DispatchNote
  BY <1>0, <1>5 DEF DispatchNote, Listeners
<1>6. ASSUME NEW c \in Callers, PushSucceeds(c) PROVE CurrentListens'
  BY <1>0, <1>6 DEF PushSucceeds
<1>7. ASSUME NEW h \in Handlers, NewHandler(h) PROVE CurrentListens'
  BY <1>0, <1>7 DEF NewHandler, Listeners
<1>8. ASSUME NEW h \in Handlers, Dispatch(h) PROVE CurrentListens'
  BY <1>0, <1>8 DEF Dispatch, Listeners
<1>9. ASSUME NEW l \in Listeners, Dispose(l) PROVE CurrentListens'
  BY <1>0, <1>9 DEF Dispose
<1>10. QED
  BY QuietSteps, <1>1, <1>2, <1>3, <1>4, <1>5, <1>6, <1>7, <1>8, <1>9

\* A call keeps its port, and once past its push it stays past it.
LEMMA CallsGoOn ==
  ASSUME IInv, [Next]_vars
  PROVE  \A c \in Callers :
           /\ pc[c] # "idle" => port'[c] = port[c]
           /\ pc[c] \notin {"idle", "pushing"} => pc'[c] \notin {"idle", "pushing"}
<1>0. /\ pc \in [Callers -> {"idle", "pushing", "waiting", "leaving", "returned"}]
      /\ port \in [Callers -> Ports \cup {0}]
  BY DEF IInv, TypeOK
<1>1. ASSUME NEW c \in Callers, Call(c) \/ Return(c) \/ EndContext(c)
      PROVE  \A d \in Callers :
               /\ pc[d] # "idle" => port'[d] = port[d]
               /\ pc[d] \notin {"idle", "pushing"} => pc'[d] \notin {"idle", "pushing"}
  <2>1. CASE Register(c)
    BY <1>0, <2>1 DEF Register
  <2>2. CASE PushFails(c) \/ PushSucceeds(c)
    BY <1>0, <2>2 DEF PushFails, PushSucceeds
  <2>3. CASE Return(c) \/ EndContext(c)
    BY <1>0, <2>3 DEF Return, TakeAnswer, ChooseContext, Leave, EndContext
  <2>4. QED
    BY <1>1, <2>1, <2>2, <2>3 DEF Call
<1>2. ASSUME UNCHANGED <<pc, port>>
      PROVE  \A d \in Callers :
               /\ pc[d] # "idle" => port'[d] = port[d]
               /\ pc[d] \notin {"idle", "pushing"} => pc'[d] \notin {"idle", "pushing"}
  BY <1>2
<1>3. CASE SetPusher \/ ReceiveInit \/ AnswerInit \/ BecomeReady \/ IsolateEnds
  BY <1>2, <1>3 DEF SetPusher, ReceiveInit, AnswerInit, BecomeReady, IsolateEnds
<1>4. CASE Notify \/ NewPushHandler \/ OnPush \/ DispatchNote
  BY <1>2, <1>4 DEF Notify, NewPushHandler, OnPush, DispatchNote
<1>5. ASSUME NEW h \in Handlers, NewHandler(h) \/ Dispatch(h) PROVE UNCHANGED <<pc, port>>
  BY <1>5 DEF NewHandler, Dispatch
<1>6. ASSUME NEW l \in Listeners, Dispose(l) PROVE UNCHANGED <<pc, port>>
  BY <1>6 DEF Dispose
<1>7. ASSUME NEW h \in Handlers, NEW c \in Callers, Serve(h, c) \/ WaitReadyTimesOut(h, c)
      PROVE  UNCHANGED <<pc, port>>
  BY <1>7 DEF Serve, HandlerSucceeds, HandlerFails, Complete, SendReverseResponse,
              Receive, SendAnswer, WaitReadyTimesOut
<1>8. CASE UNCHANGED vars
  BY <1>2, <1>8 DEF vars
<1>9. QED
  BY <1>1, <1>2, <1>3, <1>4, <1>5, <1>6, <1>7, <1>8 DEF Next

\* The pushes that name their call; a queue of such pushes is typed by them.
Named == {push \in Push : NamesItsCall(push)}

LEMMA NamedQueues ==
  TypeOK => (PushesNameCalls <=> /\ wire \in Seq(Named)
                                 /\ \A l \in Listeners : mailbox[l] \in Seq(Named))
<1> SUFFICES ASSUME TypeOK
             PROVE  PushesNameCalls <=> /\ wire \in Seq(Named)
                                        /\ \A l \in Listeners : mailbox[l] \in Seq(Named)
  OBVIOUS
<1>1. wire \in Seq(Push) /\ \A l \in Listeners : mailbox[l] \in Seq(Push)
  BY DEF TypeOK
<1>2. ASSUME NEW q \in Seq(Push)
      PROVE  (\A i \in 1 .. Len(q) : NamesItsCall(q[i])) <=> q \in Seq(Named)
  BY DEF Named
<1>3. QED
  BY <1>1, <1>2 DEF PushesNameCalls

LEMMA NamedKept ==
  ASSUME IInv, [Next]_vars
  PROVE  \A q : q \in Seq(Named) => q \in Seq(Named')
<1>1. \A push \in Named : push \in Named'
  BY CallsGoOn DEF Named, NamesItsCall
<1>2. QED
  BY <1>1

LEMMA NamesStep == IInv /\ [Next]_vars => PushesNameCalls'
<1> SUFFICES ASSUME IInv, [Next]_vars PROVE PushesNameCalls'
  OBVIOUS
<1>0. wire \in Seq(Named) /\ \A l \in Listeners : mailbox[l] \in Seq(Named)
  BY NamedQueues DEF IInv
<1>a. wire \in Seq(Named') /\ \A l \in Listeners : mailbox[l] \in Seq(Named')
  BY <1>0, NamedKept
<1>b. (TypeOK => (PushesNameCalls <=> /\ wire \in Seq(Named)
                                      /\ \A l \in Listeners : mailbox[l] \in Seq(Named)))'
  BY NamedQueues, PTL
<1>c. SUFFICES wire' \in Seq(Named') /\ \A l \in Listeners : mailbox'[l] \in Seq(Named')
  BY <1>b, TypeStep
<1>d. mailbox = [l \in Listeners |-> mailbox[l]]
  BY DEF IInv, TypeOK
<1> DEFINE NN == Named'
<1>e. wire \in Seq(NN) /\ mailbox \in [Listeners -> Seq(NN)]
  BY <1>a, <1>d
<1>f. ASSUME wire' \in Seq(NN), mailbox' \in [Listeners -> Seq(NN)]
      PROVE  wire' \in Seq(Named') /\ \A l \in Listeners : mailbox'[l] \in Seq(Named')
  BY <1>f
<1>g. ASSUME NEW c \in Callers, PushSucceeds(c)
      PROVE [port |-> port[c], of |-> c] \in NN
  <2>1. port'[c] = port[c] /\ pc'[c] = "waiting" /\ port[c] \in Ports \cup {0}
    BY <1>g DEF PushSucceeds, IInv, TypeOK
  <2>2. [port |-> port[c], of |-> c] \in Push
    BY <2>1 DEF Push
  <2>3. QED
    BY <2>1, <2>2 DEF Named, NamesItsCall
<1>h. CASE Notify
  <2>1. [port |-> 0, of |-> notes + 1] \in NN
    BY <1>h DEF Named, Push, NamesItsCall, Notify, IInv, TypeOK
  <2> HIDE DEF NN
  <2>2. QED
    BY <1>e, <1>f, <1>h, <2>1 DEF Notify, PostPush
<1> HIDE DEF NN
<1>1. CASE Quiet
  BY <1>e, <1>f, <1>1 DEF Quiet
<1>2. CASE NewPushHandler
  BY <1>e, <1>f, <1>2 DEF NewPushHandler
<1>3. CASE OnPush
  BY <1>e, <1>f, <1>3 DEF OnPush
<1>4. CASE DispatchNote
  BY <1>e, <1>f, <1>4 DEF DispatchNote, Listeners
<1>5. ASSUME NEW c \in Callers, PushSucceeds(c)
      PROVE  wire' \in Seq(Named') /\ \A l \in Listeners : mailbox'[l] \in Seq(Named')
  <2> DEFINE push == [port |-> port[c], of |-> c]
  <2>1. wire' \in {wire, Append(wire, push)} /\ mailbox' = mailbox
    BY <1>5 DEF PushSucceeds, PostPush
  <2>2. push \in NN
    BY <1>g, <1>5
  <2> HIDE DEF push
  <2>3. Append(wire, push) \in Seq(NN)
    BY <1>e, <2>2
  <2>4. QED
    BY <1>e, <1>f, <2>1, <2>3
<1>6. ASSUME NEW h \in Handlers, NewHandler(h) \/ Dispatch(h)
      PROVE  wire' \in Seq(Named') /\ \A l \in Listeners : mailbox'[l] \in Seq(Named')
  <2>1. CASE NewHandler(h)
    BY <1>e, <1>f, <2>1 DEF NewHandler
  <2>2. CASE Dispatch(h)
    BY <1>e, <1>f, <2>2 DEF Dispatch, Listeners
  <2>3. QED
    BY <1>6, <2>1, <2>2
<1>7. ASSUME NEW l \in Listeners, Dispose(l)
      PROVE  wire' \in Seq(Named') /\ \A k \in Listeners : mailbox'[k] \in Seq(Named')
  BY <1>e, <1>f, <1>7 DEF Dispose
<1>8. QED
  BY QuietSteps, <1>h, <1>1, <1>2, <1>3, <1>4, <1>5, <1>6, <1>7

\* The reverse ports in a queue.
PortsIn(q) == {q[i].port : i \in 1 .. Len(q)}

LEMMA EmptyPorts == PortsIn(<< >>) = {} /\ Once(<< >>)
BY DEF PortsIn, Once

LEMMA TailPorts ==
  ASSUME NEW q \in Seq(Push), q # << >>
  PROVE  /\ PortsIn(Tail(q)) \subseteq PortsIn(q) /\ Head(q).port \in PortsIn(q)
         /\ Once(q) => /\ Once(Tail(q))
                       /\ Head(q).port # 0 => Head(q).port \notin PortsIn(Tail(q))
<1>1. PortsIn(Tail(q)) \subseteq PortsIn(q) /\ Head(q).port \in PortsIn(q)
  BY TailFacts DEF PortsIn
<1>2. ASSUME Once(q) PROVE Once(Tail(q))
  <2> SUFFICES ASSUME NEW i \in 1 .. Len(Tail(q)), NEW j \in 1 .. Len(Tail(q)),
                      Tail(q)[i].port # 0, Tail(q)[i].port = Tail(q)[j].port
               PROVE  i = j
    BY DEF Once
  <2>1. i + 1 \in 1 .. Len(q) /\ j + 1 \in 1 .. Len(q)
        /\ Tail(q)[i] = q[i + 1] /\ Tail(q)[j] = q[j + 1]
    BY TailFacts
  <2>2. i + 1 = j + 1
    BY <1>2, <2>1 DEF Once
  <2>3. QED
    BY <2>2
<1>3. ASSUME Once(q), Head(q).port # 0, NEW i \in 1 .. Len(Tail(q)), Tail(q)[i].port = Head(q).port
      PROVE  FALSE
  <2>1. i + 1 \in 2 .. Len(q) /\ Tail(q)[i] = q[i + 1] /\ Head(q) = q[1] /\ 1 \in 1 .. Len(q)
    BY TailFacts
  <2>2. 1 = i + 1
    BY <1>3, <2>1 DEF Once
  <2>3. QED
    BY <2>2
<1>4. QED
  BY <1>1, <1>2, <1>3 DEF PortsIn

LEMMA AppendPorts ==
  ASSUME NEW q \in Seq(Push), NEW e \in Push
  PROVE  /\ PortsIn(Append(q, e)) = PortsIn(q) \cup {e.port}
         /\ Once(q) /\ (e.port = 0 \/ e.port \notin PortsIn(q)) => Once(Append(q, e))
<1>1. PortsIn(Append(q, e)) = PortsIn(q) \cup {e.port}
  <2>1. Len(q) \in Nat /\ Len(Append(q, e)) = Len(q) + 1
        /\ \A i \in 1 .. Len(q) : Append(q, e)[i] = q[i]
        /\ Append(q, e)[Len(q) + 1] = e
    BY AppendFacts
  <2>2. ASSUME NEW p \in PortsIn(Append(q, e)) PROVE p \in PortsIn(q) \cup {e.port}
    BY <2>1, <2>2 DEF PortsIn
  <2>3. ASSUME NEW i \in 1 .. Len(q) PROVE q[i].port \in PortsIn(Append(q, e))
    BY <2>1 DEF PortsIn
  <2>4. e.port \in PortsIn(Append(q, e))
    BY <2>1 DEF PortsIn
  <2>5. PortsIn(q) \subseteq PortsIn(Append(q, e))
    BY <2>3 DEF PortsIn
  <2>6. QED
    BY <2>2, <2>4, <2>5
<1>2. ASSUME Once(q), e.port = 0 \/ e.port \notin PortsIn(q) PROVE Once(Append(q, e))
  <2> SUFFICES ASSUME NEW i \in 1 .. Len(Append(q, e)), NEW j \in 1 .. Len(Append(q, e)),
                      Append(q, e)[i].port # 0, Append(q, e)[i].port = Append(q, e)[j].port
               PROVE  i = j
    BY DEF Once
  <2>1. Len(q) \in Nat /\ Len(Append(q, e)) = Len(q) + 1
        /\ \A k \in 1 .. Len(q) : Append(q, e)[k] = q[k] /\ q[k].port \in PortsIn(q)
        /\ Append(q, e)[Len(q) + 1] = e
    BY AppendFacts DEF PortsIn
  <2>2. CASE i \in 1 .. Len(q) /\ j \in 1 .. Len(q)
    BY <1>2, <2>1, <2>2 DEF Once
  <2>3. CASE i = Len(q) + 1 \/ j = Len(q) + 1
    BY <1>2, <2>1, <2>3
  <2>4. QED
    BY <2>1, <2>2, <2>3
<1>3. QED
  BY <1>1, <1>2

\* OneCopy in terms of the ports in queues.
Copies ==
  /\ Once(wire)
  /\ \A h \in Handlers :
       /\ Once(mailbox[h])
       /\ \A p \in PortsIn(wire) : p # 0 => p \notin PortsIn(mailbox[h])
  /\ \A h \in Handlers, c \in Callers : job[h][c] # "none" =>
       /\ port[c] \notin PortsIn(wire)
       /\ \A k \in Handlers : port[c] \notin PortsIn(mailbox[k])
       /\ \A k \in Handlers : job[k][c] # "none" => k = h

LEMMA CopiesIff == OneCopy <=> Copies
<1>1. \A q, p : p \notin PortsIn(q) <=> \A i \in 1 .. Len(q) : q[i].port # p
  BY DEF PortsIn
<1>2. \A q, r : (\A p \in PortsIn(q) : p # 0 => p \notin PortsIn(r))
                 <=> (\A i \in 1 .. Len(q), j \in 1 .. Len(r) :
                       q[i].port # 0 => q[i].port # r[j].port)
  BY DEF PortsIn
<1>3. (\A h \in Handlers : Once(mailbox[h])
         /\ \A i \in 1 .. Len(wire), j \in 1 .. Len(mailbox[h]) :
              wire[i].port # 0 => wire[i].port # mailbox[h][j].port)
      <=> (\A h \in Handlers : Once(mailbox[h])
             /\ \A p \in PortsIn(wire) : p # 0 => p \notin PortsIn(mailbox[h]))
  BY <1>2, Zenon
<1>4. \A c : (\A i \in 1 .. Len(wire) : wire[i].port # port[c]) <=> port[c] \notin PortsIn(wire)
  BY <1>1
<1>5. \A c : (\A k \in Handlers : \A i \in 1 .. Len(mailbox[k]) : mailbox[k][i].port # port[c])
              <=> (\A k \in Handlers : port[c] \notin PortsIn(mailbox[k]))
  BY <1>1
<1>6. OneCopy => Copies
  BY <1>3, <1>4, <1>5 DEF OneCopy, Copies
<1>7. Copies => OneCopy
  BY <1>3, <1>4, <1>5 DEF OneCopy, Copies
<1>8. QED
  BY <1>6, <1>7

LEMMA CopyStep == IInv /\ [Next]_vars => OneCopy'
<1> SUFFICES ASSUME IInv, [Next]_vars PROVE OneCopy'
  OBVIOUS
<1>0. Copies /\ CurrentListens
  BY CopiesIff DEF IInv
<1>a. wire \in Seq(Push) /\ mailbox \in [Listeners -> Seq(Push)]
  BY DEF IInv, TypeOK
<1>b. /\ job \in [Handlers -> [Callers -> Progress]]
      /\ port \in [Callers -> Ports \cup {0}]
      /\ \A h \in Handlers, c \in Callers :
           job[h][c] # "none" => /\ port[c] # 0 /\ port'[c] = port[c]
                                 /\ pc[c] \notin {"idle", "pushing"}
  BY CallsGoOn DEF IInv, TypeOK, AnswersOwnCall, PortsGivenOut
<1>c. SUFFICES Copies'
  <2>1. (OneCopy <=> Copies)'
    BY CopiesIff, PTL
  <2>2. QED
    BY <2>1
<1>d. Handlers \subseteq Listeners
  BY DEF Listeners
\* What is left when no future starts.
<1>e. ASSUME NoStart, Once(wire'), \A h \in Handlers : Once(mailbox'[h]),
             \A h \in Handlers : \A p \in PortsIn(wire') : p # 0 => p \notin PortsIn(mailbox'[h]),
             \A h \in Handlers, c \in Callers : job[h][c] # "none" =>
               port[c] \notin PortsIn(wire') /\ \A k \in Handlers : port[c] \notin PortsIn(mailbox'[k])
      PROVE  Copies'
  <2>1. \A h \in Handlers, c \in Callers : job'[h][c] # "none" =>
          /\ port'[c] \notin PortsIn(wire')
          /\ \A k \in Handlers : port'[c] \notin PortsIn(mailbox'[k])
          /\ \A k \in Handlers : job'[k][c] # "none" => k = h
    BY <1>0, <1>b, <1>e DEF Copies, NoStart
  <2>2. QED
    BY <1>e, <2>1 DEF Copies, PortsIn, Once
<1>f. UNCHANGED job => NoStart
  BY DEF NoStart
<1>1. CASE Quiet
  BY <1>0, <1>e, <1>1 DEF Quiet, Copies
<1>2. CASE Notify
  <2>1. [port |-> 0, of |-> notes + 1] \in Push
    BY <1>2 DEF Notify, Push, IInv, TypeOK
  <2>2. UNCHANGED <<job, mailbox>> /\ wire' \in {wire, Append(wire, [port |-> 0, of |-> notes + 1])}
    BY <1>2 DEF Notify, PostPush
  <2>3. Once(wire') /\ PortsIn(wire') \subseteq PortsIn(wire) \cup {0}
    BY <1>0, <1>a, <2>1, <2>2, AppendPorts DEF Copies
  <2>4. QED
    BY <1>0, <1>b, <1>e, <1>f, <2>2, <2>3 DEF Copies
<1>3. CASE NewPushHandler
  BY <1>0, <1>e, <1>f, <1>3 DEF NewPushHandler, Copies
<1>4. CASE OnPush
  <2>1. Head(wire) \in Push /\ wire # << >> /\ wire' = Tail(wire) /\ UNCHANGED job
    BY <1>a, <1>4 DEF OnPush
  <2>2. /\ Once(wire') /\ PortsIn(wire') \subseteq PortsIn(wire)
        /\ Head(wire).port \in PortsIn(wire)
        /\ Head(wire).port # 0 => Head(wire).port \notin PortsIn(wire')
    BY <1>0, <1>a, <2>1, TailPorts DEF Copies
  <2>3. ASSUME NEW h \in Handlers
        PROVE  Once(mailbox'[h]) /\ PortsIn(mailbox'[h]) \subseteq PortsIn(mailbox[h]) \cup {Head(wire).port}
    <3>1. mailbox[h] \in Seq(Push) /\ mailbox'[h] \in {mailbox[h], Append(mailbox[h], Head(wire))}
      BY <1>a, <1>d, <1>4 DEF OnPush
    <3>2. Once(mailbox[h]) /\ (Head(wire).port = 0 \/ Head(wire).port \notin PortsIn(mailbox[h]))
      BY <1>0, <2>2 DEF Copies
    <3>3. QED
      BY <2>1, <3>1, <3>2, AppendPorts
  <2>4. \A h \in Handlers : \A p \in PortsIn(wire') : p # 0 => p \notin PortsIn(mailbox'[h])
    BY <1>0, <2>2, <2>3 DEF Copies
  <2>5. \A h \in Handlers, c \in Callers : job[h][c] # "none" =>
          port[c] \notin PortsIn(wire') /\ \A k \in Handlers : port[c] \notin PortsIn(mailbox'[k])
    BY <1>0, <2>2, <2>3 DEF Copies
  <2>6. QED
    BY <1>e, <1>f, <2>1, <2>2, <2>3, <2>4, <2>5
<1>5. CASE DispatchNote
  <2>1. UNCHANGED <<job, wire>> /\ \A h \in Handlers : mailbox'[h] = mailbox[h]
    BY <1>a, <1>5 DEF DispatchNote, Listeners
  <2>2. QED
    BY <1>0, <1>e, <1>f, <2>1 DEF Copies
<1>6. ASSUME NEW c \in Callers, PushSucceeds(c) PROVE Copies'
  <2> DEFINE push == [port |-> port[c], of |-> c]
  <2>1. pc[c] = "pushing" /\ push \in Push /\ push.port = port[c]
    BY <1>b, <1>6 DEF PushSucceeds, Push
  <2>2. UNCHANGED <<job, mailbox>> /\ wire' \in {wire, Append(wire, push)}
    BY <1>6 DEF PushSucceeds, PostPush
  <2>3. port[c] \notin PortsIn(wire) /\ \A l \in Listeners : port[c] \notin PortsIn(mailbox[l])
    <3>1. ASSUME NEW x, NamesItsCall(x), x.port = port[c] PROVE FALSE
      BY <2>1, <3>1 DEF NamesItsCall, IInv, PortsGivenOut
    <3>2. QED
      BY <3>1 DEF IInv, PushesNameCalls, PortsIn
  <2>4. \A h \in Handlers : job[h][c] = "none"
    BY <1>b, <2>1
  <2>5. \A d \in Callers : d # c /\ port[d] = port[c] => port[d] = 0
    BY DEF IInv, PortsGivenOut
  <2> HIDE DEF push
  <2>6. Once(wire') /\ PortsIn(wire') \subseteq PortsIn(wire) \cup {port[c]}
    <3>1. Once(wire)
      BY <1>0 DEF Copies
    <3>2. Once(Append(wire, push)) /\ PortsIn(Append(wire, push)) = PortsIn(wire) \cup {port[c]}
      BY <1>a, <2>1, <2>3, <3>1, AppendPorts
    <3>3. QED
      BY <2>2, <3>1, <3>2
  <2>7. QED
    BY <1>0, <1>b, <1>d, <1>e, <1>f, <2>2, <2>3, <2>4, <2>5, <2>6 DEF Copies
<1>7. ASSUME NEW h \in Handlers, NewHandler(h) PROVE Copies'
  <2>1. UNCHANGED <<job, wire>> /\ \A k \in Handlers : mailbox'[k] \in {<< >>, mailbox[k]}
    BY <1>d, <1>7 DEF NewHandler
  <2>2. QED
    BY <1>0, <1>e, <1>f, <2>1, EmptyPorts DEF Copies
<1>8. ASSUME NEW l \in Listeners, Dispose(l) PROVE Copies'
  <2>1. UNCHANGED <<job, wire>> /\ \A k \in Handlers : mailbox'[k] \in {<< >>, mailbox[k]}
    BY <1>a, <1>d, <1>8 DEF Dispose
  <2>2. QED
    BY <1>0, <1>e, <1>f, <2>1, EmptyPorts DEF Copies
<1>9. ASSUME NEW h \in Handlers, Dispatch(h) PROVE Copies'
  <2> DEFINE push == Head(mailbox[h])
  <2>1. /\ mailbox[h] \in Seq(Push) /\ mailbox[h] # << >> /\ push \in Push /\ NamesItsCall(push)
        /\ UNCHANGED <<wire, pc, port>> /\ mailbox' = [mailbox EXCEPT ![h] = Tail(@)]
    BY <1>a, <1>d, <1>9, HeadNames DEF Dispatch
  <2>2. \A k \in Handlers : k # h => mailbox'[k] = mailbox[k] /\ mailbox[k] = << >>
    <3>1. h \in subscribed /\ h = current
      BY <1>0, <1>d, <2>1 DEF CurrentListens
    <3>2. QED
      BY <1>0, <1>a, <1>d, <2>1, <3>1 DEF CurrentListens
  <2>3. /\ Once(mailbox'[h]) /\ PortsIn(mailbox'[h]) \subseteq PortsIn(mailbox[h])
        /\ push.port \in PortsIn(mailbox[h])
        /\ push.port # 0 => push.port \notin PortsIn(mailbox'[h])
    <3>1. mailbox'[h] = Tail(mailbox[h]) /\ Once(mailbox[h])
      BY <1>0, <1>a, <1>d, <2>1 DEF Copies
    <3>2. QED
      BY <2>1, <3>1, TailPorts
  <2>4. CASE UNCHANGED jobState
    BY <1>0, <1>e, <1>f, <2>1, <2>2, <2>3, <2>4 DEF Copies
  <2>5. CASE push.port # 0 /\ Works(h, push.of, "none", "running")
    <3>1. push.of \in Callers /\ push.port = port[push.of]
      BY <2>1, <2>5 DEF NamesItsCall
    <3>2. \A k \in Handlers : job[k][push.of] = "none"
      BY <1>0, <2>3, <3>1 DEF Copies
    <3>3. \A k \in Handlers, d \in Callers :
            job'[k][d] # "none" => job[k][d] # "none" \/ (k = h /\ d = push.of)
      BY <1>b, <2>5, <3>1
    <3>4. port[push.of] \notin PortsIn(wire) /\ \A k \in Handlers : port[push.of] \notin PortsIn(mailbox'[k])
      BY <1>0, <2>2, <2>3, <2>5, <3>1, EmptyPorts DEF Copies
    <3> HIDE DEF push
    <3>5. \A k \in Handlers, d \in Callers : job'[k][d] # "none" =>
            /\ port'[d] \notin PortsIn(wire')
            /\ \A j \in Handlers : port'[d] \notin PortsIn(mailbox'[j])
            /\ \A j \in Handlers : job'[j][d] # "none" => j = k
      BY <1>0, <2>1, <2>2, <2>3, <3>2, <3>3, <3>4 DEF Copies
    <3>6. /\ Once(wire')
          /\ \A k \in Handlers :
               /\ Once(mailbox'[k])
               /\ \A p \in PortsIn(wire') : p # 0 => p \notin PortsIn(mailbox'[k])
      BY <1>0, <2>1, <2>2, <2>3 DEF Copies
    <3>7. QED
      BY <3>5, <3>6 DEF Copies, PortsIn, Once
  <2>6. QED
    BY <1>9, <2>4, <2>5 DEF Dispatch
<1>10. QED
  BY QuietSteps, <1>1, <1>2, <1>3, <1>4, <1>5, <1>6, <1>7, <1>8, <1>9

-----------------------------------------------------------------------------
(* Notes.                                                                  *)

\* A push is a note or not: what it adds to the notes of a queue.
Adds(push) == IF IsNote(push) THEN {push.of} ELSE {}

LEMMA EmptyNotes == NoteOf(<< >>) = {} /\ Ascends(<< >>)
BY DEF NoteOf, Ascends

LEMMA TailNotes ==
  ASSUME NEW q \in Seq(Push), q # << >>
  PROVE  /\ NoteOf(q) = NoteOf(Tail(q)) \cup Adds(Head(q))
         /\ Ascends(q) => /\ Ascends(Tail(q))
                          /\ \A m \in Adds(Head(q)), n \in NoteOf(Tail(q)) : m < n
<1>0. /\ Len(q) \in Nat \ {0} /\ Head(q) = q[1] /\ Len(Tail(q)) = Len(q) - 1
      /\ \A i \in 1 .. Len(Tail(q)) : i + 1 \in 2 .. Len(q) /\ Tail(q)[i] = q[i + 1]
  BY TailFacts
<1>1. ASSUME NEW i \in 1 .. Len(q), IsNote(q[i]) PROVE q[i].of \in NoteOf(Tail(q)) \cup Adds(Head(q))
  <2>1. CASE i = 1
    BY <1>0, <1>1, <2>1 DEF Adds
  <2>2. CASE i # 1
    <3>1. i - 1 \in 1 .. Len(Tail(q)) /\ Tail(q)[i - 1] = q[i]
      BY <1>0, <2>2
    <3>2. QED
      BY <1>1, <3>1, NoteIn
  <2>3. QED
    BY <2>1, <2>2
<1>2. ASSUME NEW i \in 1 .. Len(Tail(q)), IsNote(Tail(q)[i]) PROVE Tail(q)[i].of \in NoteOf(q)
  BY <1>0, <1>2, NoteIn
<1>3. Adds(Head(q)) \subseteq NoteOf(q)
  BY <1>0, NoteIn DEF Adds
<1>4. NoteOf(q) = NoteOf(Tail(q)) \cup Adds(Head(q))
  <2>1. NoteOf(q) \subseteq NoteOf(Tail(q)) \cup Adds(Head(q))
    BY <1>1 DEF NoteOf
  <2>2. NoteOf(Tail(q)) \subseteq NoteOf(q)
    BY <1>2 DEF NoteOf
  <2>3. QED
    BY <1>3, <2>1, <2>2
<1>5. ASSUME Ascends(q) PROVE Ascends(Tail(q))
  BY <1>0, <1>5 DEF Ascends
<1>6. ASSUME Ascends(q), NEW i \in 1 .. Len(Tail(q)), IsNote(Tail(q)[i]), IsNote(Head(q))
      PROVE  Head(q).of < Tail(q)[i].of
  BY <1>0, <1>6 DEF Ascends
<1>7. QED
  BY <1>4, <1>5, <1>6 DEF Adds, NoteOf

LEMMA AppendNotes ==
  ASSUME NEW q \in Seq(Push), NEW e \in Push
  PROVE  /\ NoteOf(Append(q, e)) = NoteOf(q) \cup Adds(e)
         /\ Ascends(q) /\ (\A m \in NoteOf(q), n \in Adds(e) : m < n) => Ascends(Append(q, e))
<1>0. /\ Len(q) \in Nat /\ Len(Append(q, e)) = Len(q) + 1
      /\ \A i \in 1 .. Len(q) : Append(q, e)[i] = q[i]
      /\ Append(q, e)[Len(q) + 1] = e
  BY AppendFacts
<1>1. NoteOf(Append(q, e)) \subseteq NoteOf(q) \cup Adds(e)
  <2>1. ASSUME NEW i \in 1 .. Len(Append(q, e)), IsNote(Append(q, e)[i])
        PROVE  Append(q, e)[i].of \in NoteOf(q) \cup Adds(e)
    <3>1. CASE i = Len(q) + 1
      BY <1>0, <2>1, <3>1 DEF Adds
    <3>2. CASE i \in 1 .. Len(q)
      BY <1>0, <2>1, <3>2, NoteIn
    <3>3. QED
      BY <1>0, <3>1, <3>2
  <2>2. QED
    BY <2>1 DEF NoteOf
<1>2. NoteOf(q) \subseteq NoteOf(Append(q, e))
  <2>1. ASSUME NEW i \in 1 .. Len(q), IsNote(q[i]) PROVE q[i].of \in NoteOf(Append(q, e))
    <3>1. i \in 1 .. Len(Append(q, e)) /\ Append(q, e)[i] = q[i]
      BY <1>0
    <3>2. QED
      BY <2>1, <3>1, NoteIn
  <2>2. QED
    BY <2>1 DEF NoteOf
<1>3. Adds(e) \subseteq NoteOf(Append(q, e))
  <2>1. Len(q) + 1 \in 1 .. Len(Append(q, e))
    BY <1>0
  <2>2. QED
    BY <1>0, <2>1, NoteIn DEF Adds
<1>4. ASSUME Ascends(q), \A m \in NoteOf(q), n \in Adds(e) : m < n
      PROVE  Ascends(Append(q, e))
  <2> SUFFICES ASSUME NEW i \in 1 .. Len(Append(q, e)), NEW j \in 1 .. Len(Append(q, e)), i < j,
                      IsNote(Append(q, e)[i]), IsNote(Append(q, e)[j])
               PROVE  Append(q, e)[i].of < Append(q, e)[j].of
    BY DEF Ascends
  <2>1. i \in 1 .. Len(q) /\ Append(q, e)[i] = q[i] /\ q[i].of \in NoteOf(q)
    BY <1>0, NoteIn
  <2>2. CASE j \in 1 .. Len(q)
    BY <1>0, <1>4, <2>1, <2>2 DEF Ascends
  <2>3. CASE j = Len(q) + 1
    BY <1>0, <1>4, <2>1, <2>3 DEF Adds
  <2>4. QED
    BY <1>0, <2>2, <2>3
<1>5. QED
  BY <1>1, <1>2, <1>3, <1>4

\* NotesFollow in terms of the notes on the wire, in the PushHandler's mail and
\* seen by it.
Follow(W, M, S, n) ==
  /\ \A a \in M, b \in W : a < b
  /\ \A a \in W \cup M \cup S : a \in 1 .. n
  /\ \A a \in S, b \in M \cup W : a < b

NoGap(W, M, S, n) == \A a \in W \cup M \cup S : \A b \in a .. n : b \in W \cup M \cup S

Seen(q) == {q[i] : i \in 1 .. Len(q)}

FollowSets ==
  /\ Ascends(wire) /\ Ascends(mailbox[None])
  /\ Follow(NoteOf(wire), NoteOf(mailbox[None]), Seen(seen), notes)
  /\ \A i, j \in 1 .. Len(seen) : i < j => seen[i] < seen[j]
  /\ None \notin created => seen = << >>
  /\ alive /\ (None \in created => None \in subscribed) =>
       NoGap(NoteOf(wire), NoteOf(mailbox[None]), Seen(seen), notes)

LEMMA FollowIff == NotesFollow <=> FollowSets
<1>1. \A p, q : Before(p, q) <=> \A a \in NoteOf(p), b \in NoteOf(q) : a < b
  BY DEF Before, NoteOf
<1>2. \A A : (\A n \in A : \A i \in 1 .. Len(seen) : seen[i] < n) <=> \A a \in Seen(seen), b \in A : a < b
  BY DEF Seen
<1>3. Noted = NoteOf(wire) \cup NoteOf(mailbox[None]) \cup Seen(seen)
  BY DEF Noted, Seen
<1>4. QED
  BY <1>1, <1>2, <1>3 DEF NotesFollow, FollowSets, Follow, NoGap

LEMMA SeenMore ==
  ASSUME NEW q \in Seq(1 .. MaxNotes), NEW n \in 1 .. MaxNotes
  PROVE  Seen(Append(q, n)) = Seen(q) \cup {n}
<1>0. /\ Len(q) \in Nat /\ Len(Append(q, n)) = Len(q) + 1 /\ Append(q, n)[Len(q) + 1] = n
      /\ \A i \in 1 .. Len(q) : Append(q, n)[i] = q[i]
  BY AppendFacts
<1>1. Seen(Append(q, n)) \subseteq Seen(q) \cup {n}
  BY <1>0 DEF Seen
<1>2. n \in Seen(Append(q, n))
  BY <1>0 DEF Seen
<1>3. ASSUME NEW i \in 1 .. Len(q) PROVE q[i] \in Seen(Append(q, n))
  BY <1>0 DEF Seen
<1>4. Seen(q) \subseteq Seen(Append(q, n))
  BY <1>3 DEF Seen
<1>5. QED
  BY <1>1, <1>2, <1>4

\* The next note the PushHandler sees is the one behind its last: a note it
\* missed would be on its way still, and cannot be.
LEMMA NextNote ==
  ASSUME IInv, DispatchNote, IsNote(Head(mailbox[None])), seen # << >>
  PROVE  Head(mailbox[None]).of = seen[Len(seen)] + 1
<1> DEFINE W == NoteOf(wire)
           M == NoteOf(mailbox[None])
           S == Seen(seen)
           last == seen[Len(seen)]
           n == Head(mailbox[None]).of
<1>1. FollowSets /\ CurrentListens /\ seen \in Seq(1 .. MaxNotes) /\ notes \in Nat
      /\ mailbox[None] \in Seq(Push) /\ mailbox[None] # << >> /\ alive
  BY FollowIff DEF IInv, TypeOK, Listeners, DispatchNote
<1>2. n \in M /\ \A a \in M : n <= a
  <2>1. M = NoteOf(Tail(mailbox[None])) \cup {n}
    BY <1>1, TailNotes DEF Adds
  <2>2. \A a \in NoteOf(Tail(mailbox[None])) : n < a
    BY <1>1, TailNotes DEF FollowSets, Adds
  <2>3. \A a \in M : a \in 1 .. notes
    BY <1>1 DEF FollowSets, Follow
  <2> HIDE DEF M, n
  <2>4. n \in M
    BY <2>1
  <2>5. ASSUME NEW a \in M PROVE n <= a
    <3>1. n \in Int /\ a \in Int
      BY <2>3, <2>4
    <3>2. a = n \/ n < a
      BY <2>1, <2>2
    <3>3. QED
      BY <3>1, <3>2
  <2>6. QED
    BY <2>4, <2>5
<1>3. last \in S /\ last \in Nat /\ \A a \in S : a <= last
  <2>1. Len(seen) \in 1 .. Len(seen) /\ last \in Nat
    BY <1>1
  <2>2. \A i \in 1 .. Len(seen) : seen[i] <= last
    BY <1>1, <2>1 DEF FollowSets
  <2>3. QED
    BY <2>1, <2>2 DEF Seen
<1>4. last < n /\ n \in 1 .. notes /\ \A b \in W : n < b
  BY <1>1, <1>2, <1>3 DEF FollowSets, Follow
<1>5. NoGap(W, M, S, notes)
  BY <1>1 DEF FollowSets, CurrentListens, Listeners
<1> HIDE DEF W, M, S, last, n
<1>6. last + 1 \in W \cup M \cup S
  <2>1. last + 1 \in last .. notes
    BY <1>1, <1>3, <1>4
  <2>2. QED
    BY <1>3, <1>5, <2>1, Zenon DEF NoGap
<1>7. last + 1 = n
  BY <1>2, <1>3, <1>4, <1>6
<1>8. QED
  BY <1>7 DEF last, n

LEMMA FollowSetsNext ==
  ASSUME Ascends(wire'), Ascends(mailbox'[None]),
         Follow(NoteOf(wire'), NoteOf(mailbox'[None]), Seen(seen'), notes'),
         \A i, j \in 1 .. Len(seen') : i < j => seen'[i] < seen'[j],
         None \notin created' => seen' = << >>,
         alive' /\ (None \in created' => None \in subscribed') =>
           NoGap(NoteOf(wire'), NoteOf(mailbox'[None]), Seen(seen'), notes')
  PROVE  FollowSets'
BY DEF FollowSets, Ascends, NoteOf, Follow, NoGap, Seen, IsNote

LEMMA NotesStep == IInv /\ [Next]_vars => NotesFollow' /\ NotesInOrder'
<1> SUFFICES ASSUME IInv, [Next]_vars PROVE NotesFollow' /\ NotesInOrder'
  OBVIOUS
<1> DEFINE W == NoteOf(wire)
           M == NoteOf(mailbox[None])
           S == Seen(seen)
<1>0. /\ Ascends(wire) /\ Ascends(mailbox[None]) /\ Follow(W, M, S, notes)
      /\ \A i, j \in 1 .. Len(seen) : i < j => seen[i] < seen[j]
      /\ None \notin created => seen = << >>
      /\ alive /\ (None \in created => None \in subscribed) => NoGap(W, M, S, notes)
      /\ NotesInOrder /\ CurrentListens
  BY FollowIff DEF IInv, FollowSets
<1>a. /\ wire \in Seq(Push) /\ mailbox \in [Listeners -> Seq(Push)] /\ None \in Listeners
      /\ seen \in Seq(1 .. MaxNotes) /\ notes \in Nat /\ alive \in BOOLEAN
  BY DEF IInv, TypeOK, Listeners
<1>b. (NotesFollow <=> FollowSets)'
  BY FollowIff, PTL
\* What is left of a step at which the PushHandler sees nothing.
<1>c. ASSUME UNCHANGED seen, Ascends(wire'), Ascends(mailbox'[None]),
             Follow(NoteOf(wire'), NoteOf(mailbox'[None]), S, notes'),
             None \notin created' => None \notin created,
             alive' /\ (None \in created' => None \in subscribed') =>
               NoGap(NoteOf(wire'), NoteOf(mailbox'[None]), S, notes')
      PROVE  NotesFollow' /\ NotesInOrder'
  <2>1. FollowSets'
    BY <1>0, <1>c, FollowSetsNext
  <2>2. NotesInOrder'
    BY <1>0, <1>c DEF NotesInOrder
  <2>3. QED
    BY <1>b, <2>1, <2>2
<1>1. CASE Quiet
  BY <1>0, <1>c, <1>1 DEF Quiet
<1>2. CASE Notify
  <2> DEFINE push == [port |-> 0, of |-> notes + 1]
  <2>1. push \in Push /\ Adds(push) = {notes + 1}
    BY <1>2 DEF Notify, Push, Adds, IsNote, IInv, TypeOK
  <2> HIDE DEF push
  <2>2. /\ UNCHANGED <<seen, mailbox, created, subscribed, alive>> /\ notes' = notes + 1
        /\ wire' = IF alive THEN Append(wire, push) ELSE wire
    BY <1>2 DEF Notify, PostPush, push
  <2>3. CASE alive
    <3>1. Ascends(wire') /\ NoteOf(wire') = W \cup {notes + 1}
      BY <1>0, <1>a, <2>1, <2>2, <2>3, AppendNotes DEF Follow
    <3> HIDE DEF W, M, S
    <3>2. Follow(NoteOf(wire'), M, S, notes')
      BY <1>0, <1>a, <2>2, <3>1 DEF Follow
    <3>3. NoGap(W, M, S, notes) => NoGap(NoteOf(wire'), M, S, notes')
      <4> SUFFICES ASSUME NoGap(W, M, S, notes), NEW a \in NoteOf(wire') \cup M \cup S,
                          NEW b \in a .. notes'
                   PROVE  b \in NoteOf(wire') \cup M \cup S
        BY DEF NoGap
      <4>1. CASE b = notes + 1
        BY <3>1, <4>1
      <4>2. CASE b # notes + 1
        <5>0. a \in 1 .. notes' /\ notes' = notes + 1 /\ notes \in Nat
          BY <1>a, <2>2, <3>2 DEF Follow
        <5>1. a \in 1 .. notes + 1 /\ b \in a .. notes
          BY <4>2, <5>0
        <5>2. a \in W \cup M \cup S
          BY <1>a, <3>1, <5>1
        <5>3. QED
          BY <3>1, <5>1, <5>2 DEF NoGap
      <4>3. QED
        BY <4>1, <4>2
    <3>4. QED
      BY <1>0, <1>c, <2>2, <3>1, <3>2, <3>3 DEF M
  <2>4. CASE ~alive
    <3>1. wire' = wire
      BY <2>2, <2>4
    <3>2. Follow(W, M, S, notes')
      BY <1>0, <1>a, <2>2 DEF Follow
    <3>3. QED
      BY <1>0, <1>c, <2>2, <2>4, <3>1, <3>2
  <2>5. QED
    BY <2>3, <2>4
<1>3. CASE NewPushHandler
  <2>1. /\ UNCHANGED <<seen, wire, mailbox, notes, alive>>
        /\ None \notin created /\ None \in created'
    BY <1>3 DEF NewPushHandler
  <2>2. QED
    BY <1>0, <1>c, <2>1
<1>4. CASE OnPush
  <2> DEFINE push == Head(wire)
             A == Adds(push)
             W2 == NoteOf(Tail(wire))
  <2>1. /\ wire # << >> /\ wire' = Tail(wire) /\ push \in Push
        /\ UNCHANGED <<seen, created, subscribed, alive, notes>>
    BY <1>a, <1>4 DEF OnPush
  <2>2. W = W2 \cup A /\ Ascends(wire') /\ \A m \in A, n \in W2 : m < n
    BY <1>0, <1>a, <2>1, TailNotes
  <2>3. CASE None \in subscribed
    <3>1. mailbox'[None] = Append(mailbox[None], push)
      BY <1>a, <1>4, <2>3 DEF OnPush
    <3>2. NoteOf(mailbox'[None]) = M \cup A /\ Ascends(mailbox'[None])
      BY <1>0, <1>a, <2>1, <2>2, <3>1, AppendNotes DEF Follow
    <3> HIDE DEF W, M, S, A, W2
    <3>3. Follow(W2, M \cup A, S, notes)
      BY <1>0, <2>2 DEF Follow
    <3>4. NoGap(W, M, S, notes) => NoGap(W2, M \cup A, S, notes)
      BY <2>2 DEF NoGap
    <3>5. NoteOf(wire') = W2
      BY <2>1 DEF W2
    <3>6. QED
      BY <1>0, <1>c, <2>1, <2>2, <3>2, <3>3, <3>4, <3>5
  <2>4. CASE None \notin subscribed
    <3>1. mailbox'[None] = mailbox[None] /\ mailbox[None] = << >> /\ M = {}
      BY <1>0, <1>a, <1>4, <2>4, EmptyNotes DEF OnPush, CurrentListens
    <3>2. None \notin created => S = {}
      BY <1>0 DEF Seen
    <3> HIDE DEF W, M, S, A, W2
    <3>3. Follow(W2, M, S, notes)
      BY <1>0, <2>2 DEF Follow
    <3>4. None \notin created /\ NoGap(W, M, S, notes) => NoGap(W2, M, S, notes)
      BY <1>0, <2>2, <3>1, <3>2 DEF NoGap, Follow
    <3>5. NoteOf(wire') = W2 /\ NoteOf(mailbox'[None]) = M
      BY <2>1, <3>1 DEF W2, M
    <3>6. QED
      BY <1>0, <1>c, <2>1, <2>2, <2>4, <3>1, <3>3, <3>4, <3>5
  <2>5. QED
    BY <2>3, <2>4
<1>5. CASE DispatchNote
  <2> DEFINE push == Head(mailbox[None])
             A == Adds(push)
             M2 == NoteOf(Tail(mailbox[None]))
  <2>1. /\ mailbox[None] \in Seq(Push) /\ mailbox[None] # << >>
        /\ mailbox'[None] = Tail(mailbox[None]) /\ push \in Push
        /\ seen' = IF IsNote(push) THEN Append(seen, push.of) ELSE seen
        /\ UNCHANGED <<wire, created, subscribed, alive, notes>>
    BY <1>a, <1>5 DEF DispatchNote, IsNote
  <2>2. M = M2 \cup A /\ Ascends(mailbox'[None]) /\ \A m \in A, n \in M2 : m < n
    BY <1>0, <1>a, <2>1, TailNotes
  <2>3. CASE ~IsNote(push)
    <3>1. A = {} /\ UNCHANGED seen
      BY <2>1, <2>3 DEF Adds
    <3> HIDE DEF A
    <3>2. NoteOf(mailbox'[None]) = M
      BY <2>1, <2>2, <3>1
    <3>3. QED
      BY <1>0, <1>c, <2>1, <2>2, <3>1, <3>2
  <2>4. CASE IsNote(push)
    <3> DEFINE S2 == Seen(Append(seen, push.of))
    <3>1. A = {push.of} /\ seen' = Append(seen, push.of) /\ push.of \in 1 .. MaxNotes
      <4>1. A = {push.of} /\ push.of \in 1 .. notes
        BY <1>0, <2>2, <2>4 DEF Adds, Follow
      <4>2. QED
        BY <2>1, <2>4, <4>1 DEF IInv, TypeOK
    <3>2. S2 = S \cup {push.of}
      BY <1>a, <3>1, SeenMore
    <3>3. \A i, j \in 1 .. Len(seen') : i < j => seen'[i] < seen'[j]
      <4>1. \A i \in 1 .. Len(seen) : seen[i] < push.of
        BY <1>0, <2>2, <3>1 DEF Follow, Seen
      <4>2. QED
        <5>1. /\ Len(seen) \in Nat /\ Len(seen') = Len(seen) + 1 /\ seen'[Len(seen) + 1] = push.of
              /\ \A i \in 1 .. Len(seen) : seen'[i] = seen[i]
          BY <1>a, <3>1, AppendFacts
        <5> HIDE DEF push
        <5>2. QED
          BY <1>0, <4>1, <5>1
    <3>4. NotesInOrder'
      <4>1. CASE seen = << >>
        BY <3>1, <4>1 DEF NotesInOrder
      <4>2. CASE seen # << >>
        <5>1. push.of = seen[Len(seen)] + 1
          BY <1>5, <2>4, <4>2, NextNote
        <5>2. QED
          BY <1>0, <1>a, <3>1, <4>2, <5>1 DEF NotesInOrder
      <4>3. QED
        BY <4>1, <4>2
    <3>5. None \in created
      BY <1>0, <1>a, <2>1 DEF CurrentListens
    <3>6. NoteOf(mailbox'[None]) = M2 /\ NoteOf(wire') = W /\ Seen(seen') = S2
      BY <2>1, <3>1
    <3> HIDE DEF W, M, S, A, M2, S2
    <3>7. Follow(W, M2, S2, notes)
      BY <1>0, <2>2, <3>1, <3>2 DEF Follow
    <3>8. NoGap(W, M, S, notes) => NoGap(W, M2, S2, notes)
      BY <2>2, <3>1, <3>2 DEF NoGap
    <3>9. FollowSets'
      BY <1>0, <2>1, <2>2, <3>3, <3>5, <3>6, <3>7, <3>8, FollowSetsNext
    <3>10. QED
      BY <1>b, <3>4, <3>9
  <2>5. QED
    BY <2>3, <2>4
<1>6. ASSUME NEW c \in Callers, PushSucceeds(c) PROVE NotesFollow' /\ NotesInOrder'
  <2> DEFINE push == [port |-> port[c], of |-> c]
  <2>1. push \in Push /\ Adds(push) = {}
    BY <1>6 DEF PushSucceeds, Push, Adds, IsNote, IInv, TypeOK, PortsGivenOut
  <2> HIDE DEF push
  <2>2. wire' \in {wire, Append(wire, push)} /\ UNCHANGED <<seen, mailbox, created, subscribed, alive, notes>>
    BY <1>6 DEF PushSucceeds, PostPush, push
  <2>3. Ascends(wire') /\ NoteOf(wire') = W
    <3>1. Ascends(Append(wire, push)) /\ NoteOf(Append(wire, push)) = W
      BY <1>0, <1>a, <2>1, AppendNotes
    <3>2. QED
      BY <1>0, <2>2, <3>1
  <2>4. QED
    BY <1>0, <1>c, <2>2, <2>3
<1>7. ASSUME NEW h \in Handlers, NewHandler(h) \/ Dispatch(h) PROVE NotesFollow' /\ NotesInOrder'
  <2>1. /\ UNCHANGED <<seen, wire, alive, notes>> /\ mailbox'[None] = mailbox[None]
        /\ None \in created' <=> None \in created
        /\ None \in subscribed' <=> None \in subscribed
    BY <1>a, <1>7 DEF NewHandler, Dispatch
  <2>2. QED
    BY <1>0, <1>c, <2>1
<1>8. ASSUME NEW l \in Listeners, Dispose(l) PROVE NotesFollow' /\ NotesInOrder'
  <2>1. UNCHANGED <<seen, wire, alive, notes, created>>
    BY <1>8 DEF Dispose
  <2>2. CASE l = None
    <3>1. mailbox'[None] = << >> /\ None \in created /\ None \notin subscribed'
      BY <1>0, <1>a, <1>8, <2>2 DEF Dispose, CurrentListens
    <3>2. NoteOf(mailbox'[None]) = {} /\ Ascends(mailbox'[None])
      BY <3>1, EmptyNotes
    <3>3. Follow(W, {}, S, notes)
      BY <1>0 DEF Follow
    <3>4. QED
      BY <1>0, <1>c, <2>1, <3>1, <3>2, <3>3
  <2>3. CASE l # None
    <3>1. mailbox'[None] = mailbox[None] /\ (None \in subscribed' <=> None \in subscribed)
      BY <1>a, <1>8, <2>3 DEF Dispose
    <3>2. QED
      BY <1>0, <1>c, <2>1, <3>1
  <2>4. QED
    BY <2>2, <2>3
<1>9. QED
  BY QuietSteps, <1>1, <1>2, <1>3, <1>4, <1>5, <1>6, <1>7, <1>8

-----------------------------------------------------------------------------

\* The inductive invariant holds in every reachable state, for any calls,
\* handlers and notes.
THEOREM Invariance == Spec => []IInv
<1>1. IInv /\ [Next]_vars => IInv'
  <2> SUFFICES ASSUME IInv, [Next]_vars PROVE IInv'
    OBVIOUS
  <2>1. TypeOK' /\ PendingExact' /\ PortsGivenOut'
    BY TypeStep, PendingStep, PortsStep
  <2>2. PushesNameCalls' /\ CurrentListens' /\ OneCopy'
    BY NamesStep, ListensStep, CopyStep
  <2>3. AnswersOwnCall' /\ ReadyAfterEntry' /\ NotesFollow' /\ NotesInOrder'
    BY AnswersStep, ReadyStep, NotesStep
  <2>4. QED
    BY <2>1, <2>2, <2>3 DEF IInv
<1>2. QED
  BY InitInv, <1>1, PTL DEF Spec

\* The registry of pending calls is exact, whatever answers, failures and
\* contexts end them.
THEOREM PendingExactHolds == Spec => []PendingExact
<1>1. IInv => PendingExact
  BY DEF IInv
<1>2. QED
  BY Invariance, <1>1, PTL

\* The PushHandler sees every note from its first to its last, in order.
THEOREM NotesInOrderHolds == Spec => []NotesInOrder
<1>1. IInv => NotesInOrder
  BY DEF IInv
<1>2. QED
  BY Invariance, <1>1, PTL

\* One future answers a call, and the channel it fills is empty.
THEOREM OneAnswerHolds == Spec => []OneAnswer
<1>1. IInv => OneAnswer
  <2> SUFFICES ASSUME IInv, NEW c \in Callers
               PROVE  /\ Cardinality({h \in Handlers : job[h][c] # "none"}) <= 1
                      /\ \A h \in Handlers : job[h][c] = "sending" => channel[reply[h][c].channel] = << >>
    BY DEF OneAnswer
  <2> DEFINE Serving == {h \in Handlers : job[h][c] # "none"}
  <2>1. \A h, k \in Serving : h = k
    BY DEF IInv, OneCopy
  <2>2. Cardinality(Serving) <= 1
    <3>1. CASE Serving = {}
      <4>1. Cardinality(Serving) = 0
        BY <3>1, FS_EmptySet, Zenon
      <4>2. QED
        BY <4>1
    <3>2. CASE Serving # {}
      <4>1. PICK h \in Serving : TRUE
        BY <3>2
      <4>2. Serving = {h}
        BY <2>1, <4>1
      <4>3. Cardinality(Serving) = 1
        BY <4>2, FS_Singleton, Zenon
      <4>4. QED
        BY <4>3
    <3>3. QED
      BY <3>1, <3>2
  <2>3. ASSUME NEW h \in Handlers, job[h][c] = "sending"
        PROVE  channel[reply[h][c].channel] = << >>
    <3>1. reply[h][c].channel = c
      BY <2>3 DEF IInv, AnswersOwnCall
    <3>2. ASSUME channel[c] # << >> PROVE FALSE
      <4>1. PICK k \in Handlers : job[k][c] = "over"
        BY <3>2 DEF IInv, AnswersOwnCall
      <4>2. k = h
        BY <2>1, <2>3, <4>1
      <4>3. QED
        BY <2>3, <4>1, <4>2
    <3>3. QED
      BY <3>1, <3>2
  <2>4. QED
    BY <2>2, <2>3
<1>2. QED
  BY Invariance, <1>1, PTL

\* What a call returns is what was in its channel, an answer to it; nothing is
\* in the channel of a call of the entry point that still waits.
LEMMA ResultStep ==
  ASSUME IInv, [Next]_vars, OwnAnswer, EntryCallUnanswered
  PROVE  OwnAnswer' /\ EntryCallUnanswered'
<1> USE DEF OwnAnswer, EntryCallUnanswered
<1>0. result \in [Callers -> Callers \cup {"none", "default", "context", "unpushed"}]
  BY DEF IInv, TypeOK
<1>a. \A c \in Callers : c \notin {"none", "default", "context", "unpushed", "empty"}
  BY ReverseCallAssumption
<1>1. ASSUME UNCHANGED result PROVE OwnAnswer' /\ EntryCallUnanswered'
  BY <1>1
<1>2. ASSUME NEW c \in Callers, TakeAnswer(c) PROVE OwnAnswer' /\ EntryCallUnanswered'
  <2>1. channel[c] # << >> /\ pc[c] = "waiting"
    BY <1>2 DEF TakeAnswer
  <2>2. channel[c][1] \in {c, "empty"} /\ channel[c] \in Seq(Callers \cup {"empty"})
    BY <2>1 DEF IInv, TypeOK, AnswersOwnCall
  <2>3. Decoded(Head(channel[c])) \in {c, "default"}
    BY <2>1, <2>2 DEF Decoded
  <2>4. c \notin EntryCalls
    BY <2>1 DEF IInv, ReadyAfterEntry
  <2>5. result' = [result EXCEPT ![c] = Decoded(Head(channel[c]))]
    BY <1>2 DEF TakeAnswer
  <2>6. QED
    BY <1>0, <1>a, <2>3, <2>4, <2>5
<1>3. ASSUME NEW c \in Callers, PushFails(c) \/ Leave(c) PROVE OwnAnswer' /\ EntryCallUnanswered'
  <2>1. PICK r \in {"unpushed", "context"} : result' = [result EXCEPT ![c] = r]
    BY <1>3 DEF PushFails, Leave
  <2>2. QED
    BY <1>0, <1>a, <2>1
<1>4. ASSUME NEW c \in Callers, Register(c) \/ PushSucceeds(c) \/ ChooseContext(c) \/ EndContext(c)
      PROVE  UNCHANGED result
  BY <1>4 DEF Register, PushSucceeds, ChooseContext, EndContext
<1>5. CASE SetPusher \/ ReceiveInit \/ AnswerInit \/ BecomeReady \/ IsolateEnds
  BY <1>1, <1>5 DEF SetPusher, ReceiveInit, AnswerInit, BecomeReady, IsolateEnds
<1>6. CASE Notify \/ NewPushHandler \/ OnPush \/ DispatchNote
  BY <1>1, <1>6 DEF Notify, NewPushHandler, OnPush, DispatchNote
<1>7. ASSUME NEW h \in Handlers, NewHandler(h) \/ Dispatch(h) PROVE UNCHANGED result
  BY <1>7 DEF NewHandler, Dispatch
<1>8. ASSUME NEW l \in Listeners, Dispose(l) PROVE UNCHANGED result
  BY <1>8 DEF Dispose
<1>9. ASSUME NEW h \in Handlers, NEW c \in Callers, Serve(h, c) \/ WaitReadyTimesOut(h, c)
      PROVE  UNCHANGED result
  BY <1>9 DEF Serve, HandlerSucceeds, HandlerFails, Complete, SendReverseResponse,
              Receive, SendAnswer, WaitReadyTimesOut
<1>10. CASE UNCHANGED vars
  BY <1>1, <1>10 DEF vars
<1>11. QED
  BY <1>1, <1>2, <1>3, <1>4, <1>5, <1>6, <1>7, <1>8, <1>9, <1>10 DEF Next, Call, Return

LEMMA ResultInit == Init => OwnAnswer /\ EntryCallUnanswered
BY ReverseCallAssumption DEF Init, OwnAnswer, EntryCallUnanswered

\* No call ever returns the answer to another.
THEOREM OwnAnswerHolds == Spec => []OwnAnswer
BY Invariance, ResultInit, ResultStep, PTL DEF Spec

\* A call that the entry point waits for is not answered before it gives up,
\* for any number of calls and handlers.
THEOREM EntryCallUnansweredHolds == Spec => []EntryCallUnanswered
BY Invariance, ResultInit, ResultStep, PTL DEF Spec
=============================================================================
