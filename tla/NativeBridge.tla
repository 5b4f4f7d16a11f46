---------------------------- MODULE NativeBridge ----------------------------
(***************************************************************************)
(* The native client (lib/bridge/bridge_native.dart, native_bytes.dart)    *)
(* and the C heap it shares with the generated RPC export.  Go allocates a *)
(* container for every message it posts; Dart parses it in the listener of *)
(* the port and frees it through FreeBytesContainer.  A port that is       *)
(* closed drops what is queued on it and refuses what is posted later; the *)
(* exporter does not take such a container back.                           *)
(***************************************************************************)
EXTENDS BridgeCalls, Sequences

VARIABLES
  engine,     \* loading, initializing, ready or failed
  fatal,      \* Bridge.fatal
  call,       \* progress of each request, then its outcome
  port,       \* its ReceivePort
  exporter,   \* progress of the goroutine that posts its responses
  posted,     \* history: kinds of the messages Go allocated, in order
  container   \* where the container of each message is

vars == <<engine, fatal, call, port, exporter, posted, container>>

Kinds == {"value", "error", "done"}

TypeOK ==
  /\ engine \in {"loading", "initializing", "ready", "failed"}
  /\ fatal \in BOOLEAN
  /\ call \in [Requests -> {"idle", "waiting", "posted", "garbage"} \cup Over]
  /\ port \in [Requests -> {"none", "open", "closed"}]
  /\ exporter \in [Requests -> {"idle", "running", "finishing", "ended"}]
  /\ posted \in [Requests -> Seq(Kinds)]
  /\ container \in [Requests -> Seq({"queued", "freed", "lost"})]
  /\ \A r \in Requests : Len(container[r]) = Len(posted[r])

Init ==
  /\ engine = "loading" /\ fatal = FALSE
  /\ call = [r \in Requests |-> "idle"]
  /\ port = [r \in Requests |-> "none"]
  /\ exporter = [r \in Requests |-> "idle"]
  /\ posted = [r \in Requests |-> << >>]
  /\ container = [r \in Requests |-> << >>]

\* rpc and rpcStream: a new port, and the export, which parses the request
\* before Dart frees it.
Send(r, calls) ==
  /\ call' = [calls EXCEPT ![r] = "posted"]
  /\ port' = [port EXCEPT ![r] = "open"]
  /\ exporter' = [exporter EXCEPT ![r] = "running"]
  /\ UNCHANGED <<posted, container>>

-----------------------------------------------------------------------------
(* Start.                                                                  *)

\* InitializeDartAPI refuses another major version; otherwise Init is sent.
InitializeDartAPI ==
  /\ engine = "loading"
  /\ \/ engine' = "failed" /\ UNCHANGED <<call, port, exporter, posted, container>>
     \/ engine' = "initializing" /\ Send(Boot, call)
  /\ UNCHANGED fatal

\* _init after its rpc.  An error response completes rpc with an error, so
\* the branch that sets fatal sees only values.
InitReturns ==
  /\ engine = "initializing" /\ call[Boot] \in {"value", "done", "error"}
  /\ engine' = IF call[Boot] = "error" THEN "failed" ELSE "ready"
  /\ fatal' = (call[Boot] # "error" /\ Head(posted[Boot]) = "error")
  /\ UNCHANGED <<call, port, exporter, posted, container>>

\* Every call starts with _waitReady.
Begin(r) ==
  /\ r \in Unary \cup Streams /\ call[r] = "idle"
  /\ call' = [call EXCEPT ![r] = "waiting"]
  /\ UNCHANGED <<engine, fatal, port, exporter, posted, container>>

Proceed(r) ==
  /\ call[r] = "waiting" /\ engine = "ready"
  /\ Send(r, call)
  /\ UNCHANGED <<engine, fatal>>

\* The onCancel of rpcStream, called by the application or behind the last
\* event: a Cancel request.  The port of the stream stays open.
CancelStream(r) ==
  /\ r \in Streams /\ call[r] \in {"posted", "done"} /\ call[Stop[r]] = "idle"
  /\ Send(Stop[r], [call EXCEPT ![r] = IF @ = "posted" THEN "cancelled" ELSE @])
  /\ UNCHANGED <<engine, fatal>>

\* It polls for 100 seconds.
WaitReadyTimesOut(r) ==
  /\ call[r] = "waiting" /\ engine # "ready"
  /\ call' = [call EXCEPT ![r] = "timeout"]
  /\ UNCHANGED <<engine, fatal, port, exporter, posted, container>>

-----------------------------------------------------------------------------
(* Go.                                                                     *)

\* BytesToPointerAddress, SendPointerAddress.
Post(r, kind) ==
  /\ posted' = [posted EXCEPT ![r] = Append(@, kind)]
  /\ container' = [container EXCEPT ![r] =
                     Append(@, IF port[r] = "open" THEN "queued" ELSE "lost")]

\* A response; a failed post leaves the loop.  Init succeeds without one, a
\* Cancel has none, a unary call has one, a stream any number.
PostResponse(r, kind) ==
  /\ exporter[r] = "running" /\ r \notin Cancels
  /\ Len(posted[r]) < (IF r \in Streams THEN MaxItems ELSE 1)
  /\ r = Boot => kind = "error"
  /\ Post(r, kind)
  /\ exporter' = [exporter EXCEPT ![r] = IF port[r] = "open" THEN @ ELSE "finishing"]
  /\ UNCHANGED <<engine, fatal, call, port>>

PostDone(r) ==
  /\ exporter[r] \in {"running", "finishing"}
  /\ r \in Unary => posted[r] # << >>
  /\ exporter' = [exporter EXCEPT ![r] = "ended"]
  /\ Post(r, "done")
  /\ UNCHANGED <<engine, fatal, call, port>>

-----------------------------------------------------------------------------
(* The listener of a port.                                                 *)

Queued(r) == {i \in 1 .. Len(container[r]) : container[r][i] = "queued"}
Front(r) == CHOOSE i \in Queued(r) : \A j \in Queued(r) : i <= j

\* Variant: the container is freed before its bytes are parsed.
ContentAfterFree(r, i) == "garbage"

\* responseFromPointerAddress parses the bytes in place, then frees them.
Content(r, i) == posted[r][i]

\* port.close() drops what is queued.
Closed(r, states) == [i \in DOMAIN states |-> IF states[i] = "queued" THEN "lost"
                                              ELSE states[i]]

\* A unary call is completed by its first message, which closes the port.
OnUnary(r) ==
  /\ r \notin Streams /\ port[r] = "open" /\ Queued(r) # {}
  /\ call' = [call EXCEPT ![r] = Content(r, Front(r))]
  /\ container' = [container EXCEPT ![r] = Closed(r, [@ EXCEPT ![Front(r)] = "freed"])]
  /\ port' = [port EXCEPT ![r] = "closed"]
  /\ UNCHANGED <<engine, fatal, exporter, posted>>

\* Variant: an error closes the port as well.
OnStreamClosesOnError(r) ==
  LET i == Front(r)
      last == Content(r, i) \in {"done", "error"}
      freed == [container[r] EXCEPT ![i] = "freed"]
  IN
  /\ r \in Streams /\ port[r] = "open" /\ Queued(r) # {}
  /\ container' = [container EXCEPT ![r] = IF last THEN Closed(r, freed) ELSE freed]
  /\ call' = [call EXCEPT ![r] = IF last /\ @ = "posted" THEN "done" ELSE @]
  /\ port' = [port EXCEPT ![r] = IF last THEN "closed" ELSE @]
  /\ UNCHANGED <<engine, fatal, exporter, posted>>

\* A stream adds values, logs errors, and closes its port at Done, cancelled or
\* not.
OnStream(r) ==
  LET i == Front(r)
      last == Content(r, i) = "done"
      freed == [container[r] EXCEPT ![i] = "freed"]
  IN
  /\ r \in Streams /\ port[r] = "open" /\ Queued(r) # {}
  /\ container' = [container EXCEPT ![r] = IF last THEN Closed(r, freed) ELSE freed]
  /\ call' = [call EXCEPT ![r] = IF last /\ @ = "posted" THEN "done" ELSE @]
  /\ port' = [port EXCEPT ![r] = IF last THEN "closed" ELSE @]
  /\ UNCHANGED <<engine, fatal, exporter, posted>>

-----------------------------------------------------------------------------
Answer(r) == PostDone(r) \/ \E kind \in {"value", "error"} : PostResponse(r, kind)

Client(r) == Proceed(r) \/ WaitReadyTimesOut(r) \/ OnUnary(r) \/ OnStream(r)

Next ==
  \/ InitializeDartAPI \/ InitReturns
  \/ \E r \in Requests : Begin(r) \/ CancelStream(r) \/ Client(r) \/ Answer(r)

Spec == Init /\ [][Next]_vars

\* The event loop turns and its timers fire.  Go answers unary calls and
\* Cancels; a stream may stay open, and Init waits for the application's entry
\* point, which need not return.
Fairness ==
  /\ WF_vars(InitializeDartAPI) /\ WF_vars(InitReturns)
  /\ \A r \in Requests : WF_vars(Client(r))
  /\ \A r \in Unary \cup Cancels : WF_vars(PostDone(r)) /\ WF_vars(Answer(r))

-----------------------------------------------------------------------------
(* Properties.                                                             *)

\* A call ends with the first message Go posted for it and with nothing that
\* was read from freed memory; in particular a unary call never ends with the
\* Done that follows its response.
OutcomeIsFirst ==
  \A r \in Requests \ Streams :
    port[r] = "closed" => call[r] = Head(posted[r]) /\ (r \in Unary => call[r] # "done")

\* What Dart does not free is the Done of a call that its response had
\* completed: one container per unary call and none of a stream.
OnlyLateDoneLost ==
  \A r \in Requests : \A i \in 1 .. Len(container[r]) :
    container[r][i] = "lost" => r \notin Streams /\ i = 2 /\ posted[r][i] = "done"

\* A port exists once the request is sent, and from then on Go works on it; a
\* call that is not a stream has its outcome once its port is closed.
Phases ==
  /\ engine = "loading" => \A r \in Requests : port[r] = "none"
  /\ \A r \in Requests :
       /\ port[r] = "none" <=> call[r] \in {"idle", "waiting", "timeout"}
       /\ port[r] = "none" <=> exporter[r] = "idle"
       /\ port[r] = "none" => posted[r] = << >>
       /\ call[r] \in {"waiting", "timeout"} => r \in Unary \cup Streams
       /\ r \notin Streams => (port[r] = "open" <=> call[r] = "posted")

\* Done is the last message; of a unary call it is never the first, and where
\* there is one response at most it is the second at the latest.
DoneIsLast ==
  \A r \in Requests :
    /\ \A i \in 1 .. Len(posted[r]) :
         posted[r][i] = "done" => exporter[r] = "ended" /\ i = Len(posted[r])
    /\ r \in Unary /\ posted[r] # << >> => Head(posted[r]) # "done"
    /\ r \notin Streams => Len(posted[r]) \in 0 .. 2
    /\ r \notin Streams /\ Len(posted[r]) = 2 => posted[r][2] = "done"

FreedInOrder(states) ==
  \E k \in 0 .. Len(states) : \A i \in 1 .. Len(states) :
    IF i <= k THEN states[i] = "freed" ELSE states[i] = "queued"

\* The listener of a stream has freed the first containers and has the others
\* before it; that of any other call takes one message and leaves the port.
Listened ==
  /\ \A r \in Streams : FreedInOrder(container[r])
                        /\ (port[r] = "closed" => exporter[r] = "ended")
  /\ \A r \in Requests \ Streams :
       /\ port[r] = "open" =>
            \A i \in 1 .. Len(container[r]) : container[r][i] = "queued"
       /\ port[r] = "closed" =>
            /\ posted[r] # << >>
            /\ \A i \in 1 .. Len(container[r]) : container[r][i] = "lost" => i = 2

\* The branch of _init that makes the bridge fatal is never taken: an error
\* response of Init completes rpc with an error.
NeverFatal == ~fatal

IInv ==
  TypeOK /\ Phases /\ DoneIsLast /\ Listened /\ OutcomeIsFirst /\ OnlyLateDoneLost
  /\ NeverFatal

\* No caller is left behind: whoever waits for readiness proceeds or gives up,
\* also when Init fails, which does not make the bridge fatal, or never answers;
\* and a unary call or Cancel that was sent ends.
CallsEnd ==
  /\ \A r \in Unary \cup Streams : call[r] = "waiting" ~> call[r] # "waiting"
  /\ \A r \in Unary \cup Cancels : call[r] = "posted" ~> call[r] \in Over
=============================================================================
