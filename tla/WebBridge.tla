----------------------------- MODULE WebBridge -----------------------------
(***************************************************************************)
(* The web client (lib/bridge/bridge_web.dart) and the life of its worker  *)
(* (worker.js, web/web.go): start, Init, readiness, the fatal state, and   *)
(* the requests it must fail when the worker dies.  The page runs on one   *)
(* event loop; messages of the worker come through one global port and one *)
(* port per request, in order on each.                                     *)
(***************************************************************************)
EXTENDS BridgeCalls, Sequences

VARIABLES
  worker,          \* loading, running, or dead
  incomplete,      \* worker.js reported a script that failed to load
  errorEvent,      \* the page got an error event and fetches the script
  reports,         \* messages on the global port
  starting,        \* progress of the start: none, key, init, over
  ready, fatal,    \* Bridge.ready, Bridge.fatal
  lastError,       \* Bridge.lastError is set
  call,            \* progress of each request, then its outcome
  pendingUnary,    \* _pendingUnary
  pendingStreams,  \* _pendingStreams
  messages,        \* messages on the port of each request
  answered         \* how many the worker has sent on it, Done included

bootState == <<worker, incomplete, errorEvent, reports, starting, ready, fatal,
               lastError>>
callState == <<call, pendingUnary, pendingStreams, messages, answered>>
vars == <<bootState, callState>>

TypeOK ==
  /\ worker \in {"loading", "running", "dead"}
  /\ {incomplete, errorEvent, ready, fatal, lastError} \subseteq BOOLEAN
  /\ reports \in Seq({"done", "fatal", "undefined"})
  /\ starting \in {"none", "key", "init", "over"}
  /\ call \in [Requests -> {"idle", "waiting", "posted"} \cup Over]
  /\ pendingUnary \subseteq Requests \ Streams /\ pendingStreams \subseteq Streams
  /\ messages \in [Requests -> Seq({"value", "error", "done"})]
  /\ answered \in [Requests -> 0 .. MaxItems + 1]

Init ==
  /\ worker = "loading" /\ incomplete = FALSE /\ errorEvent = FALSE
  /\ reports = << >> /\ starting = "none"
  /\ ready = FALSE /\ fatal = FALSE /\ lastError = FALSE
  /\ call = [r \in Requests |-> "idle"]
  /\ pendingUnary = {} /\ pendingStreams = {}
  /\ messages = [r \in Requests |-> << >>]
  /\ answered = [r \in Requests |-> 0]

-----------------------------------------------------------------------------
(* The worker.                                                             *)

\* sqlite3.js does not load: worker.js reports it twice and goes on.
ScriptMissing ==
  /\ worker = "loading" /\ ~incomplete
  /\ incomplete' = TRUE
  /\ reports' = reports \o << "fatal", "undefined" >>
  /\ UNCHANGED <<worker, errorEvent, starting, ready, fatal, lastError, callState>>

\* RunWebWorker: the handler is in place, and Done says so.
RunWebWorker ==
  /\ worker = "loading"
  /\ worker' = "running"
  /\ reports' = Append(reports, "done")
  /\ UNCHANGED <<incomplete, errorEvent, starting, ready, fatal, lastError, callState>>

\* The program does not start, traps, or its main goroutine returns.
Die ==
  /\ worker # "dead"
  /\ worker' = "dead"
  /\ reports' \in {reports \o << "fatal", "undefined" >>, Append(reports, "fatal")}
  /\ UNCHANGED <<incomplete, errorEvent, starting, ready, fatal, lastError, callState>>

\* worker.js itself does not load: only an error event says so.
DieUnreported ==
  /\ worker = "loading"
  /\ worker' = "dead" /\ errorEvent' = TRUE
  /\ UNCHANGED <<incomplete, reports, starting, ready, fatal, lastError, callState>>

\* onMessage: responses, then Done.  Init and unary calls have one response,
\* Init only when it fails, and a Cancel has none.
Reply(r, kind) ==
  /\ worker = "running" /\ call[r] = "posted"
  /\ answered[r] <= MaxItems
  /\ messages' = [messages EXCEPT ![r] = Append(@, kind)]

WorkerResponds(r, kind) ==
  /\ r \notin Cancels
  /\ answered[r] < (IF r \in Streams THEN MaxItems ELSE 1)
  /\ r = Boot => kind = "error"
  /\ Reply(r, kind)
  /\ answered' = [answered EXCEPT ![r] = @ + 1]
  /\ UNCHANGED <<bootState, call, pendingUnary, pendingStreams>>

WorkerDone(r) ==
  /\ r \in Unary => answered[r] > 0
  /\ Reply(r, "done")
  /\ answered' = [answered EXCEPT ![r] = MaxItems + 1]
  /\ UNCHANGED <<bootState, call, pendingUnary, pendingStreams>>

-----------------------------------------------------------------------------
(* The fatal state.                                                        *)

\* Variants: a second reason runs _markFatal again; streams are left alone.
MarkFatalSparesStreams ==
  /\ fatal' = TRUE
  /\ call' = [r \in Requests |-> IF ~fatal /\ r \in pendingUnary THEN "error"
                                 ELSE call[r]]
  /\ pendingUnary' = IF fatal THEN pendingUnary ELSE {}
  /\ UNCHANGED pendingStreams

\* _markFatal: the first reason fails everything that is pending.
MarkFatal ==
  /\ fatal' = TRUE
  /\ call' = [r \in Requests |-> IF ~fatal /\ r \in pendingUnary \cup pendingStreams
                                 THEN "error" ELSE call[r]]
  /\ pendingUnary' = IF fatal THEN pendingUnary ELSE {}
  /\ pendingStreams' = IF fatal THEN pendingStreams ELSE {}

\* The fetch after an error event settles, either way.
FetchSettles ==
  /\ errorEvent
  /\ errorEvent' = FALSE
  /\ MarkFatal
  /\ UNCHANGED <<worker, incomplete, reports, starting, ready, lastError, messages,
                 answered>>

OnReport ==
  /\ reports # << >> /\ Head(reports) \in {"fatal", "undefined"}
  /\ reports' = Tail(reports)
  /\ MarkFatal
  /\ UNCHANGED <<worker, incomplete, errorEvent, starting, ready, lastError,
                 messages, answered>>

-----------------------------------------------------------------------------
(* Start.                                                                  *)

\* The Done of the worker asks for the application's key.
OnWorkerDone ==
  /\ reports # << >> /\ Head(reports) = "done"
  /\ reports' = Tail(reports)
  /\ starting' = "key"
  /\ UNCHANGED <<worker, incomplete, errorEvent, ready, fatal, lastError, callState>>

\* The first lines of rpcUnsafe for a unary request.  Variant: a dead worker
\* is not noticed.
PostUnaryUnchecked(r, calls) ==
  /\ pendingUnary' = pendingUnary \cup {r}
  /\ call' = [calls EXCEPT ![r] = "posted"]

PostUnary(r, calls) ==
  /\ pendingUnary' = IF fatal THEN pendingUnary ELSE pendingUnary \cup {r}
  /\ call' = [calls EXCEPT ![r] = IF fatal THEN "error" ELSE "posted"]

\* The key is there, and Init is sent.
SendInit ==
  /\ starting = "key"
  /\ starting' = "init"
  /\ PostUnary(Boot, call)
  /\ UNCHANGED <<worker, incomplete, errorEvent, reports, ready, fatal, lastError,
                 pendingStreams, messages, answered>>

\* The application has no key: catchError keeps the error and nothing else.
NoKey ==
  /\ starting = "key"
  /\ starting' = "over" /\ lastError' = TRUE
  /\ UNCHANGED <<worker, incomplete, errorEvent, reports, ready, fatal, callState>>

\* What waits for a completed future runs before the next event.
MicrotaskQueued == starting = "init" /\ call[Boot] \in {"done", "error"}

\* An error response, like the death of the worker, completes rpcUnsafe with
\* an error: it ends in catchError, and only Done makes the bridge ready.
InitReturns ==
  /\ MicrotaskQueued
  /\ starting' = "over"
  /\ IF call[Boot] = "done" THEN ready' = TRUE /\ UNCHANGED lastError
                            ELSE lastError' = TRUE /\ UNCHANGED ready
  /\ UNCHANGED <<worker, incomplete, errorEvent, reports, fatal, callState>>

-----------------------------------------------------------------------------
(* Requests.                                                               *)

Begin(r) ==
  /\ r \in Unary \cup Streams /\ call[r] = "idle"
  /\ call' = [call EXCEPT ![r] = "waiting"]
  /\ UNCHANGED <<bootState, pendingUnary, pendingStreams, messages, answered>>

\* _waitReady throws once the bridge is fatal, and after ten seconds.
WaitReadyThrows(r) ==
  /\ call[r] = "waiting" /\ (fatal \/ ~ready)
  /\ call' = [call EXCEPT ![r] = IF fatal THEN "error" ELSE "timeout"]
  /\ UNCHANGED <<bootState, pendingUnary, pendingStreams, messages, answered>>

\* Or it returns, and the request is posted in the same turn.
Proceed(r) ==
  /\ call[r] = "waiting" /\ ready /\ ~fatal
  /\ IF r \in Streams
     THEN /\ pendingStreams' = pendingStreams \cup {r}
          /\ call' = [call EXCEPT ![r] = "posted"]
          /\ UNCHANGED pendingUnary
     ELSE PostUnary(r, call) /\ UNCHANGED pendingStreams
  /\ UNCHANGED <<bootState, messages, answered>>

\* The onCancel of rpcStream, called by the application or behind the last
\* event: the ports are closed, and a Cancel goes to whatever worker there is.
CancelStream(r) ==
  /\ r \in Streams /\ call[r] \in {"posted", "done", "error"}
  /\ call[Stop[r]] = "idle"
  /\ pendingStreams' = pendingStreams \ {r}
  /\ messages' = [messages EXCEPT ![r] = << >>]
  /\ PostUnary(Stop[r], [call EXCEPT ![r] = IF @ = "posted" THEN "cancelled" ELSE @])
  /\ UNCHANGED <<bootState, answered>>

TakeMessage(r) ==
  /\ messages[r] # << >>
  /\ messages' = [messages EXCEPT ![r] = Tail(@)]

\* The first message completes a unary call, unless it has failed already.
OnUnary(r) ==
  /\ r \notin Streams
  /\ TakeMessage(r)
  /\ pendingUnary' = pendingUnary \ {r}
  /\ call' = [call EXCEPT ![r] = IF @ = "posted" THEN Head(messages[r]) ELSE @]
  /\ UNCHANGED <<bootState, pendingStreams, answered>>

\* Done ends a stream; values reach it and errors are logged.
OnStream(r) ==
  /\ r \in Streams
  /\ TakeMessage(r)
  /\ LET last == Head(messages[r]) = "done" /\ call[r] = "posted" IN
     /\ pendingStreams' = IF last THEN pendingStreams \ {r} ELSE pendingStreams
     /\ call' = [call EXCEPT ![r] = IF last THEN "done" ELSE @]
  /\ UNCHANGED <<bootState, pendingUnary, answered>>

-----------------------------------------------------------------------------
Event == FetchSettles \/ OnReport \/ OnWorkerDone \/ SendInit \/ NoKey

Client(r) == WaitReadyThrows(r) \/ Proceed(r) \/ OnUnary(r) \/ OnStream(r)

Answer(r) == WorkerDone(r) \/ \E kind \in {"value", "error"} : WorkerResponds(r, kind)

Next ==
  \/ ScriptMissing \/ RunWebWorker \/ Die \/ DieUnreported
  \/ InitReturns
  \/ ~MicrotaskQueued /\ (Event \/ \E r \in Requests : Begin(r) \/ CancelStream(r) \/ Client(r))
  \/ \E r \in Requests : Answer(r)

Spec == Init /\ [][Next]_vars

\* The page handles its events, and a worker that runs answers unary calls and
\* Cancels.  It need not start nor stop, end a stream, or return from the
\* application's entry point, which Init waits for.
Fairness ==
  /\ WF_vars(InitReturns) /\ WF_vars(~MicrotaskQueued /\ Event)
  /\ \A r \in Requests : WF_vars(~MicrotaskQueued /\ Client(r))
  /\ \A r \in Unary \cup Cancels : WF_vars(Answer(r))

-----------------------------------------------------------------------------
(* Properties.                                                             *)

\* Whoever waits for the worker is in the set that _markFatal fails, and
\* nobody waits for a worker that is known to be dead.
PendingExact ==
  /\ pendingUnary = {r \in Requests \ Streams : call[r] = "posted"}
  /\ pendingStreams = {r \in Streams : call[r] = "posted"}
  /\ fatal => pendingUnary \cup pendingStreams = {}

\* The Done of the worker is reported once: it is still to come, or on its way,
\* or it has started the page, which then sends Init once.
StartedOnce ==
  /\ worker = "loading" => starting = "none"
  /\ worker = "loading" \/ starting # "none" =>
       \A i \in 1 .. Len(reports) : reports[i] # "done"
  /\ \A i, j \in 1 .. Len(reports) : reports[i] = "done" /\ reports[j] = "done" => i = j
  /\ starting \in {"none", "key"} => call[Boot] = "idle"

\* Requests go out only from a page that was ready; what waits has no port yet.
Phases ==
  /\ ready => starting = "over" /\ call[Boot] = "done"
  /\ \A r \in Requests : call[r] = "waiting" => r \in Unary \cup Streams

IInv == TypeOK /\ StartedOnce /\ Phases /\ PendingExact

\* A call that is over keeps its outcome: _markFatal finds in the pending sets
\* only requests that wait, so the death of the worker, which fails all of them,
\* does not fail again what an answer or a cancellation had ended.
OutcomesFinal == [][\A r \in Requests : call[r] \in Over => call'[r] = call[r]]_vars

\* No caller is left behind, whatever happens to the worker and whenever: the
\* death of the worker ends every request that was posted to it, the streams
\* and Init among them; whoever waits for readiness proceeds or gives up, and a
\* unary call or Cancel that was posted ends.
CallsEnd ==
  /\ \A r \in Requests : worker = "dead" /\ call[r] = "posted" ~> call[r] \in Over
  /\ \A r \in Unary \cup Streams : call[r] = "waiting" ~> call[r] # "waiting"
  /\ \A r \in Unary \cup Cancels : call[r] = "posted" ~> call[r] \in Over
=============================================================================
