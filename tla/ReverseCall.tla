---------------------------- MODULE ReverseCall ----------------------------
(***************************************************************************)
(* Calls from Go to Dart.  ReverseCall (rpc/rpc.go) registers a channel,   *)
(* pushes the request and waits for the channel or its context.  On the    *)
(* Dart side the push reaches a broadcast stream; the generated handler    *)
(* (protoc-gen-dart-godash) that is subscribed to it starts a future whose *)
(* result sendReverseResponse brings back in a request of its own.  Pushes *)
(* without a reverse port travel the same way to the generated             *)
(* PushHandler.                                                            *)
(*                                                                         *)
(* Everything on the Dart side runs on one event loop, so a Dart action is *)
(* one callback.  The isolate may end at any time; Go never notices.       *)
(***************************************************************************)
EXTENDS Integers, Sequences, FiniteSets

CONSTANTS
  Callers,     \* goroutines, one ReverseCall each
  EntryCalls,  \* those whose call is made by the entry point, inside Init
  Handlers,    \* instances of one generated handler class
  None,        \* no handler, no call
  Web,         \* the web worker, whose pushes need no port
  MaxNotes     \* bound: pushes without a reverse port

ASSUME ReverseCallAssumption ==
  /\ IsFiniteSet(Callers) /\ EntryCalls \subseteq Callers
  /\ None \notin Callers \cup Handlers
  /\ Callers \cap {"none", "empty", "default", "context", "unpushed"} = {}
  /\ Web \in BOOLEAN /\ MaxNotes \in Nat

Ports == 1 .. Cardinality(Callers)
Listeners == Handlers \cup {None}   \* None stands for the PushHandler

VARIABLES
  pusher,      \* SetPusher was called
  pushPort,    \* the port of pushes is known
  initialized, \* progress of the Init request
  reverseID,   \* rpc.reverseID
  pending,     \* rpc.reversePending: the call whose channel is registered
  pc,          \* progress of ReverseCall
  port,        \* its reversePort
  channel,     \* its channel, of capacity 1
  result,      \* what it returned
  ended,       \* calls whose context is done
  notes,       \* pushes without a reverse port made so far
  alive,       \* the isolate runs
  ready,       \* Bridge.ready
  wire,        \* messages on the push port
  current,     \* the global handler variable
  subscribed,  \* listeners of the broadcast stream
  created,     \* handlers and PushHandlers that were constructed
  mailbox,     \* events the stream has queued for each listener
  seen,        \* history: notes the PushHandler dispatched
  job,         \* progress of the future of each handler for each call
  reply        \* its reverse port, its payload and the channel it found

goState   == <<reverseID, pending, pc, port, channel, result, ended>>
bootState == <<pusher, pushPort, initialized, ready>>
dartState == <<current, subscribed, created, mailbox, seen>>
jobState  == <<job, reply>>
vars == <<goState, bootState, dartState, jobState, notes, alive, wire>>

Push == [port : Ports \cup {0}, of : Callers \cup (1 .. MaxNotes)]

Progress == {"none", "running", "replying", "retrying", "sent", "sending", "over"}

Reply == [port : Ports \cup {0}, payload : Callers \cup {"none", "empty"},
          channel : Callers \cup {None}]

NoReply == [port |-> 0, payload |-> "none", channel |-> None]

TypeOK ==
  /\ pusher \in BOOLEAN /\ pushPort \in BOOLEAN
  /\ initialized \in {"no", "entry", "answered"}
  /\ reverseID \in 0 .. Cardinality(Callers)
  /\ pending \in [Ports -> Callers \cup {None}]
  /\ pc \in [Callers -> {"idle", "pushing", "waiting", "leaving", "returned"}]
  /\ port \in [Callers -> Ports \cup {0}]
  /\ channel \in [Callers -> Seq(Callers \cup {"empty"})]
  /\ \A c \in Callers : Len(channel[c]) <= 1
  /\ result \in [Callers -> Callers \cup {"none", "default", "context", "unpushed"}]
  /\ ended \in SUBSET Callers
  /\ notes \in 0 .. MaxNotes
  /\ alive \in BOOLEAN /\ ready \in BOOLEAN
  /\ wire \in Seq(Push)
  /\ current \in Handlers \cup {None}
  /\ subscribed \in SUBSET Listeners /\ created \in SUBSET Listeners
  /\ mailbox \in [Listeners -> Seq(Push)]
  /\ seen \in Seq(1 .. MaxNotes)
  /\ job \in [Handlers -> [Callers -> Progress]]
  /\ reply \in [Handlers -> [Callers -> Reply]]

Init ==
  /\ pusher = FALSE /\ pushPort = Web /\ initialized = "no"
  /\ reverseID = 0
  /\ pending = [p \in Ports |-> None]
  /\ pc = [c \in Callers |-> "idle"]
  /\ port = [c \in Callers |-> 0]
  /\ channel = [c \in Callers |-> << >>]
  /\ result = [c \in Callers |-> "none"]
  /\ ended = {} /\ notes = 0
  /\ alive = TRUE /\ ready = FALSE /\ wire = << >>
  /\ current = None /\ subscribed = {} /\ created = {}
  /\ mailbox = [h \in Listeners |-> << >>]
  /\ seen = << >>
  /\ job = [h \in Handlers |-> [c \in Callers |-> "none"]]
  /\ reply = [h \in Handlers |-> [c \in Callers |-> NoReply]]

Goes(c, from, to) == pc[c] = from /\ pc' = [pc EXCEPT ![c] = to]
Works(h, c, from, to) == job[h][c] = from /\ job' = [job EXCEPT ![h][c] = to]

-----------------------------------------------------------------------------
(* Start of the engine.                                                    *)

\* InitializeDartAPI on native, RunWebWorker on the web.
SetPusher ==
  /\ ~pusher /\ pusher' = TRUE
  /\ UNCHANGED <<goState, pushPort, initialized, ready, dartState, jobState,
                 notes, alive, wire>>

\* case Request_Init, up to the call of entryPoint.
ReceiveInit ==
  /\ pusher /\ initialized = "no" /\ alive
  /\ initialized' = "entry" /\ pushPort' = TRUE
  /\ UNCHANGED <<goState, pusher, ready, dartState, jobState, notes, alive, wire>>

\* entryPoint returns when the calls it made have.
AnswerInit ==
  /\ initialized = "entry"
  /\ \A c \in EntryCalls : pc[c] \in {"idle", "returned"}
  /\ initialized' = "answered"
  /\ UNCHANGED <<goState, pusher, pushPort, ready, dartState, jobState, notes,
                 alive, wire>>

BecomeReady ==
  /\ alive /\ initialized = "answered" /\ ~ready
  /\ ready' = TRUE
  /\ UNCHANGED <<goState, pusher, pushPort, initialized, dartState, jobState,
                 notes, alive, wire>>

IsolateEnds ==
  /\ alive /\ alive' = FALSE
  /\ UNCHANGED <<goState, bootState, dartState, jobState, notes, wire>>

-----------------------------------------------------------------------------
(* Go: the call.                                                           *)

\* Variant: the port is the number of calls that wait, not a fresh one.
RegisterReusesPorts(c) ==
  LET p == Cardinality({q \in Ports : pending[q] # None}) + 1 IN
  /\ c \in EntryCalls => initialized = "entry"
  /\ Goes(c, "idle", "pushing")
  /\ reverseID' = reverseID + 1
  /\ port' = [port EXCEPT ![c] = p]
  /\ pending' = [pending EXCEPT ![p] = c]
  /\ UNCHANGED <<channel, result, ended, bootState, dartState, jobState, notes,
                 alive, wire>>

Register(c) ==
  /\ c \in EntryCalls => initialized = "entry"
  /\ Goes(c, "idle", "pushing")
  /\ reverseID' = reverseID + 1
  /\ port' = [port EXCEPT ![c] = reverseID + 1]
  /\ pending' = [pending EXCEPT ![reverseID + 1] = c]
  /\ UNCHANGED <<channel, result, ended, bootState, dartState, jobState, notes,
                 alive, wire>>

\* No pusher yet, or (native) no push port yet.
PushFails(c) ==
  /\ ~(pusher /\ pushPort)
  /\ Goes(c, "pushing", "returned")
  /\ pending' = [pending EXCEPT ![port[c]] = None]
  /\ result' = [result EXCEPT ![c] = "unpushed"]
  /\ UNCHANGED <<reverseID, port, channel, ended, bootState, dartState, jobState,
                 notes, alive, wire>>

\* The pusher reports success whether or not the port took the message.
PostPush(message) == wire' = IF alive THEN Append(wire, message) ELSE wire

PushSucceeds(c) ==
  /\ pusher /\ pushPort
  /\ Goes(c, "pushing", "waiting")
  /\ PostPush([port |-> port[c], of |-> c])
  /\ UNCHANGED <<reverseID, pending, port, channel, result, ended, bootState,
                 dartState, jobState, notes, alive>>

\* A push of the application that expects no answer.
Notify ==
  /\ notes < MaxNotes /\ pusher /\ pushPort
  /\ notes' = notes + 1
  /\ PostPush([port |-> 0, of |-> notes + 1])
  /\ UNCHANGED <<goState, bootState, dartState, jobState, alive>>

\* The generated caller decodes the payload; no bytes decode as the default
\* message, without an error.
Decoded(payload) == IF payload = "empty" THEN "default" ELSE payload

TakeAnswer(c) ==
  /\ channel[c] # << >>
  /\ Goes(c, "waiting", "returned")
  /\ result' = [result EXCEPT ![c] = Decoded(Head(channel[c]))]
  /\ channel' = [channel EXCEPT ![c] = Tail(@)]
  /\ UNCHANGED <<reverseID, pending, port, ended, bootState, dartState, jobState,
                 notes, alive, wire>>

\* Only the select looks at the context: it does not matter how much earlier
\* it ended.
EndContext(c) ==
  /\ pc[c] = "waiting" /\ c \notin ended
  /\ ended' = ended \cup {c}
  /\ UNCHANGED <<reverseID, pending, pc, port, channel, result, bootState,
                 dartState, jobState, notes, alive, wire>>

\* The select may take this branch although the answer is there too.
ChooseContext(c) ==
  /\ c \in ended
  /\ Goes(c, "waiting", "leaving")
  /\ UNCHANGED <<reverseID, pending, port, channel, result, ended, bootState,
                 dartState, jobState, notes, alive, wire>>

\* Variant: the entry of an abandoned call stays in the map.
LeaveRegistered(c) ==
  /\ Goes(c, "leaving", "returned")
  /\ result' = [result EXCEPT ![c] = "context"]
  /\ UNCHANGED <<reverseID, pending, port, channel, ended, bootState, dartState,
                 jobState, notes, alive, wire>>

Leave(c) ==
  /\ Goes(c, "leaving", "returned")
  /\ pending' = [pending EXCEPT ![port[c]] = None]
  /\ result' = [result EXCEPT ![c] = "context"]
  /\ UNCHANGED <<reverseID, port, channel, ended, bootState, dartState, jobState,
                 notes, alive, wire>>

-----------------------------------------------------------------------------
(* Go: the answer.                                                         *)

Receive(h, c) ==
  LET p == reply[h][c].port IN
  /\ Works(h, c, "sent", IF pending[p] = None THEN "over" ELSE "sending")
  /\ reply' = [reply EXCEPT ![h][c].channel = pending[p]]
  /\ pending' = [pending EXCEPT ![p] = None]
  /\ UNCHANGED <<reverseID, pc, port, channel, result, ended, bootState,
                 dartState, notes, alive, wire>>

\* ch <- payload, outside the lock.
SendAnswer(h, c) ==
  LET d == reply[h][c].channel IN
  /\ Works(h, c, "sending", "over")
  /\ Len(channel[d]) < 1
  /\ channel' = [channel EXCEPT ![d] = Append(@, reply[h][c].payload)]
  /\ UNCHANGED <<reverseID, pending, pc, port, result, ended, bootState,
                 dartState, reply, notes, alive, wire>>

-----------------------------------------------------------------------------
(* Dart: the push stream and its listeners.                                *)

\* Variant: the constructor leaves the previous handler subscribed.
NewHandlerBesideOld(h) ==
  /\ alive /\ h \notin created
  /\ created' = created \cup {h}
  /\ subscribed' = subscribed \cup {h}
  /\ current' = h
  /\ UNCHANGED <<goState, bootState, mailbox, seen, jobState, notes, alive, wire>>

\* The constructor disposes the previous handler, which drops the events the
\* stream still held for it.
NewHandler(h) ==
  /\ alive /\ h \notin created
  /\ created' = created \cup {h}
  /\ subscribed' = (subscribed \ ({current} \cap Handlers)) \cup {h}
  /\ mailbox' = [l \in Listeners |-> IF l = current /\ l \in Handlers
                                     THEN << >> ELSE mailbox[l]]
  /\ current' = h
  /\ UNCHANGED <<goState, bootState, seen, jobState, notes, alive, wire>>

NewPushHandler ==
  /\ alive /\ None \notin created
  /\ created' = created \cup {None}
  /\ subscribed' = subscribed \cup {None}
  /\ UNCHANGED <<goState, bootState, current, mailbox, seen, jobState, notes,
                 alive, wire>>

\* dispose() of the current handler or of the PushHandler.
Dispose(l) ==
  /\ alive /\ l \in subscribed
  /\ subscribed' = subscribed \ {l}
  /\ mailbox' = [mailbox EXCEPT ![l] = << >>]
  /\ UNCHANGED <<goState, bootState, current, created, seen, jobState, notes,
                 alive, wire>>

\* Variant: _pushListener awaits something before it adds the push.
OnPushAnyOrder ==
  /\ alive /\ wire # << >>
  /\ \E i \in 1 .. Len(wire) :
       /\ wire' = SubSeq(wire, 1, i - 1) \o SubSeq(wire, i + 1, Len(wire))
       /\ mailbox' = [l \in Listeners |-> IF l \in subscribed
                                          THEN Append(mailbox[l], wire[i])
                                          ELSE mailbox[l]]
  /\ UNCHANGED <<goState, bootState, current, subscribed, created, seen,
                 jobState, notes, alive>>

\* _pushListener: the broadcast stream keeps nothing for nobody.
OnPush ==
  /\ alive /\ wire # << >>
  /\ wire' = Tail(wire)
  /\ mailbox' = [l \in Listeners |-> IF l \in subscribed
                                     THEN Append(mailbox[l], Head(wire))
                                     ELSE mailbox[l]]
  /\ UNCHANGED <<goState, bootState, current, subscribed, created, seen,
                 jobState, notes, alive>>

TakeEvent(l) ==
  /\ alive /\ mailbox[l] # << >>
  /\ mailbox' = [mailbox EXCEPT ![l] = Tail(@)]

\* The handler's _dispatch: it starts the future of the method, unless the
\* push has no reverse port, names no method of its, or does not decode.
Dispatch(h) ==
  LET push == Head(mailbox[h]) IN
  /\ TakeEvent(h)
  /\ \/ UNCHANGED jobState
     \/ /\ push.port # 0
        /\ Works(h, push.of, "none", "running")
        /\ reply' = [reply EXCEPT ![h][push.of].port = push.port]
  /\ UNCHANGED <<goState, bootState, current, subscribed, created, seen, notes,
                 alive, wire>>

\* The PushHandler's _dispatch.
DispatchNote ==
  LET push == Head(mailbox[None]) IN
  /\ TakeEvent(None)
  /\ seen' = IF push.port = 0 THEN Append(seen, push.of) ELSE seen
  /\ UNCHANGED <<goState, bootState, current, subscribed, created, jobState,
                 notes, alive, wire>>

-----------------------------------------------------------------------------
(* Dart: the future of a handler and its answer.                           *)

\* Variant: a failure is not caught.
CompleteWithoutCatch(h, c, payload) ==
  /\ alive
  /\ Works(h, c, "running", IF payload = "empty" THEN "over" ELSE "replying")
  /\ reply' = [reply EXCEPT ![h][c].payload = payload]
  /\ UNCHANGED <<goState, bootState, dartState, notes, alive, wire>>

\* The method (external) computes its response, or fails: then the answer is
\* the empty payload.
Complete(h, c, payload) ==
  /\ alive
  /\ Works(h, c, "running", IF payload = "empty" THEN "retrying" ELSE "replying")
  /\ reply' = [reply EXCEPT ![h][c].payload = payload]
  /\ UNCHANGED <<goState, bootState, dartState, notes, alive, wire>>

HandlerSucceeds(h, c) == Complete(h, c, c)
HandlerFails(h, c) == Complete(h, c, "empty")

\* Variant: sendReverseResponse does not wait.
SendReverseResponseAtOnce(h, c) ==
  /\ alive
  /\ job[h][c] \in {"replying", "retrying"}
  /\ job' = [job EXCEPT ![h][c] = "sent"]
  /\ UNCHANGED <<goState, bootState, dartState, reply, notes, alive, wire>>

\* sendReverseResponse waits for readiness, then sends a request.
SendReverseResponse(h, c) ==
  /\ alive /\ ready
  /\ job[h][c] \in {"replying", "retrying"}
  /\ job' = [job EXCEPT ![h][c] = "sent"]
  /\ UNCHANGED <<goState, bootState, dartState, reply, notes, alive, wire>>

\* _waitReady gives up.  catchError turns the first failure into an empty
\* answer, which waits again; nothing follows the second.
WaitReadyTimesOut(h, c) ==
  /\ alive /\ ~ready
  /\ \/ /\ Works(h, c, "replying", "retrying")
        /\ reply' = [reply EXCEPT ![h][c].payload = "empty"]
     \/ /\ Works(h, c, "retrying", "over")
        /\ UNCHANGED reply
  /\ UNCHANGED <<goState, bootState, dartState, notes, alive, wire>>

-----------------------------------------------------------------------------
Call(c) == Register(c) \/ PushFails(c) \/ PushSucceeds(c)

Return(c) == TakeAnswer(c) \/ ChooseContext(c) \/ Leave(c)

Serve(h, c) == HandlerSucceeds(h, c) \/ HandlerFails(h, c)
                 \/ SendReverseResponse(h, c)
                 \/ Receive(h, c) \/ SendAnswer(h, c)

Next ==
  \/ SetPusher \/ ReceiveInit \/ AnswerInit \/ BecomeReady \/ IsolateEnds
  \/ Notify \/ NewPushHandler \/ OnPush \/ DispatchNote
  \/ \E c \in Callers : Call(c) \/ Return(c) \/ EndContext(c)
  \/ \E h \in Handlers : NewHandler(h) \/ Dispatch(h)
  \/ \E l \in Listeners : Dispose(l)
  \/ \E h \in Handlers, c \in Callers : Serve(h, c) \/ WaitReadyTimesOut(h, c)

Spec == Init /\ [][Next]_vars

\* The engine starts, goroutines that can run do, and the futures of handlers
\* complete.  Nothing forces a context to end or a handler to be created.
Fairness ==
  /\ WF_vars(AnswerInit) /\ WF_vars(BecomeReady)
  /\ \A c \in Callers : WF_vars(Return(c))
  /\ \A h \in Handlers, c \in Callers : WF_vars(Serve(h, c))

FairSpec == Spec /\ Fairness

-----------------------------------------------------------------------------
(* Properties.                                                             *)

\* A call never returns the answer to another call, whatever order pushes and
\* responses take and whichever handler is current.
OwnAnswer ==
  \A c \in Callers : result[c] \in Callers => result[c] = c

\* reversePending holds the calls that still wait and no others: a call that
\* returned leaves no entry behind, so a late answer is dropped.
PendingExact ==
  \A p \in Ports : pending[p] # None =>
    /\ port[pending[p]] = p
    /\ pc[pending[p]] \in {"pushing", "waiting", "leaving"}

\* Reverse ports are given out once: a call has one from the moment it
\* registers, and no two calls have the same.
PortsGivenOut ==
  /\ reverseID = Cardinality({c \in Callers : pc[c] # "idle"})
  /\ \A c \in Callers :
       /\ port[c] \in 0 .. reverseID
       /\ pc[c] = "idle" <=> port[c] = 0
  /\ \A c, d \in Callers : port[c] = port[d] /\ port[c] # 0 => c = d

\* A push with a reverse port is of the call that has it, and that call is past
\* its push.
NamesItsCall(push) ==
  push.port # 0 => /\ push.of \in Callers /\ push.port = port[push.of]
                   /\ pc[push.of] \notin {"idle", "pushing"}

PushesNameCalls ==
  /\ \A i \in 1 .. Len(wire) : NamesItsCall(wire[i])
  /\ \A l \in Listeners : \A i \in 1 .. Len(mailbox[l]) : NamesItsCall(mailbox[l][i])

\* One handler at most listens, the current one, and only a listener has mail.
CurrentListens ==
  /\ subscribed \cap Handlers \subseteq {current}
  /\ subscribed \subseteq created
  /\ \A l \in Listeners : mailbox[l] # << >> => l \in subscribed

\* The push of a call is at one place: on the wire, in a handler's mail, or in
\* the future of one handler.
Once(q) == \A i, j \in 1 .. Len(q) : q[i].port # 0 /\ q[i].port = q[j].port => i = j

OneCopy ==
  /\ Once(wire)
  /\ \A h \in Handlers :
       /\ Once(mailbox[h])
       /\ \A i \in 1 .. Len(wire), j \in 1 .. Len(mailbox[h]) :
            wire[i].port # 0 => wire[i].port # mailbox[h][j].port
  /\ \A h \in Handlers, c \in Callers : job[h][c] # "none" =>
       /\ \A i \in 1 .. Len(wire) : wire[i].port # port[c]
       /\ \A k \in Handlers : \A i \in 1 .. Len(mailbox[k]) : mailbox[k][i].port # port[c]
       /\ \A k \in Handlers : job[k][c] # "none" => k = h

\* A future answers the call it was started for, with that call's answer or
\* with nothing, and fills its channel once, when the call has left the map.
AnswersOwnCall ==
  \A c \in Callers :
    /\ \A h \in Handlers :
         /\ job[h][c] # "none" => /\ reply[h][c].port = port[c]
                                  /\ pc[c] \notin {"idle", "pushing"}
         /\ job[h][c] \in {"replying", "retrying", "sent", "sending"} =>
              reply[h][c].payload \in {c, "empty"}
         /\ job[h][c] = "sending" => /\ reply[h][c].channel = c
                                     /\ pending[port[c]] = None
    /\ channel[c] # << >> => /\ channel[c][1] \in {c, "empty"}
                             /\ pending[port[c]] = None
                             /\ \E h \in Handlers : job[h][c] = "over"

\* Nothing is answered before the engine is ready, and the engine is not ready
\* while the entry point waits for a call.
ReadyAfterEntry ==
  /\ ready => initialized = "answered"
  /\ initialized = "answered" => \A c \in EntryCalls : pc[c] \in {"idle", "returned"}
  /\ \A h \in Handlers, c \in Callers : job[h][c] \in {"sent", "sending"} => ready
  /\ \A c \in Callers : channel[c] # << >> => ready

\* The notes under way to the PushHandler, or still to come to it, are those
\* behind the ones it has seen, without a gap.
IsNote(push) == push.port = 0
Ascends(q) ==
  \A i, j \in 1 .. Len(q) : i < j /\ IsNote(q[i]) /\ IsNote(q[j]) => q[i].of < q[j].of
Before(p, q) ==
  \A i \in 1 .. Len(p), j \in 1 .. Len(q) : IsNote(p[i]) /\ IsNote(q[j]) => p[i].of < q[j].of
NoteOf(q) == {q[i].of : i \in {k \in 1 .. Len(q) : IsNote(q[k])}}
Noted == NoteOf(wire) \cup NoteOf(mailbox[None]) \cup {seen[i] : i \in 1 .. Len(seen)}

NotesFollow ==
  /\ Ascends(wire) /\ Ascends(mailbox[None]) /\ Before(mailbox[None], wire)
  /\ \A n \in Noted : n \in 1 .. notes
  /\ \A i, j \in 1 .. Len(seen) : i < j => seen[i] < seen[j]
  /\ \A n \in NoteOf(mailbox[None]) \cup NoteOf(wire) : \A i \in 1 .. Len(seen) : seen[i] < n
  /\ None \notin created => seen = << >>
  /\ alive /\ (None \in created => None \in subscribed) =>
       \A n \in Noted : \A m \in n .. notes : m \in Noted

\* The PushHandler sees every note from its first to its last, in the order
\* in which Go pushed them.
NotesInOrder ==
  \A i \in 1 .. Len(seen) - 1 : seen[i + 1] = seen[i] + 1

\* The inductive invariant: types, a registry that matches the calls (what
\* rpc.go writes in Register it takes back on every way out of ReverseCall),
\* ports and pushes that name their calls, one copy of every push, answers of
\* their own, the order of the start, and the notes without a gap.
IInv ==
  /\ TypeOK /\ PendingExact
  /\ PortsGivenOut /\ PushesNameCalls /\ CurrentListens /\ OneCopy
  /\ AnswersOwnCall /\ ReadyAfterEntry
  /\ NotesFollow /\ NotesInOrder

\* One handler serves a call, although handlers replace each other while
\* pushes are under way; so a channel of capacity one never blocks the
\* goroutine that brings the answer.
OneAnswer ==
  \A c \in Callers :
    /\ Cardinality({h \in Handlers : job[h][c] # "none"}) <= 1
    /\ \A h \in Handlers : job[h][c] = "sending" => channel[reply[h][c].channel] = << >>

\* A call that the entry point makes, and waits for, is never answered: Init
\* waits for the entry point, readiness for Init, and the answer for
\* readiness.  Only its context gets it back.
EntryCallUnanswered ==
  \A c \in EntryCalls : result[c] \in {"none", "context", "unpushed"}

\* Once the bridge is ready, the future of a handler brings its call back,
\* whether it succeeds or fails, unless the isolate ends.
ServedCallReturns ==
  \A c \in Callers :
    (ready /\ \E h \in Handlers : job[h][c] = "running")
      ~> (pc[c] = "returned" \/ ~alive)
=============================================================================
