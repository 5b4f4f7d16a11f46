---------------------------- MODULE RpcDispatch ----------------------------
(***************************************************************************)
(* The life of the requests of the bridge (rpc.Call in rpc/rpc.go) between *)
(* the export that carries their responses to the client (the RPC export   *)
(* of the native main, onMessage of web/web.go) and the application        *)
(* handler.  Each request has three goroutines, connected by unbuffered    *)
(* channels:                                                               *)
(*                                                                         *)
(*    handler --rpcCh--> Call --ch--> exporter --post--> client port       *)
(*                                                                         *)
(* They share the maps cancels, inflight and warnedSlow with the           *)
(* goroutines of all other requests, Cancel requests among them, and with  *)
(* the watchdog.  A critical section under mu is one action, and so is a   *)
(* rendezvous on a channel.  The flow gate of a stream is in FlowGate.     *)
(***************************************************************************)
EXTENDS Integers, FiniteSets

CONSTANTS
  Unary,     \* RpcRequests on a path that was not registered as streaming
  Stream,    \* RpcRequests on a path of RegisterStreamingPath
  Inits,     \* Init requests
  Control,   \* flow credit, ReverseResponse and unsupported requests
  Cancels,   \* Cancel requests
  Target,    \* the request each Cancel names
  MaxItems   \* bound: responses a handler sends

ASSUME RpcDispatchAssumption ==
  /\ Unary \cap Stream = {}
  /\ Inits \cap (Unary \cup Stream) = {}
  /\ Control \cap (Unary \cup Stream \cup Inits) = {}
  /\ Cancels \cap (Unary \cup Stream \cup Inits \cup Control) = {}
  /\ Target \in [Cancels -> Unary \cup Stream]
  /\ MaxItems \in Nat

Calls == Unary \cup Stream
Requests == Calls \cup Inits \cup Control \cup Cancels

VARIABLES
  exporter,   \* progress of the goroutine that ranges over Call's channel
  call,       \* progress of the goroutine of Call
  handler,    \* progress of the goroutine of handleRPC
  cancels,    \* ports in rpc.cancels
  inflight,   \* ports in rpc.inflight
  warned,     \* ports in rpc.warnedSlow
  cancelled,  \* requests whose CancelFunc was called
  expired,    \* requests whose caller context is done
  port,       \* the client port is open
  sent,       \* history: responses handed to Call's channel
  posted,     \* history: responses posted to the client port
  done,       \* history: fate of the Done message
  warnings    \* history: how often the watchdog reported the request

registry == <<cancels, inflight, warned, warnings>>
contexts == <<cancelled, expired>>
output   == <<port, sent, posted, done>>
vars == <<exporter, call, handler, registry, contexts, output>>

\* States of Call between its two critical sections.
Registered == {"registered", "entry", "forwarding", "sending", "cleanup"}

TypeOK ==
  /\ exporter \in [Requests -> {"idle", "calling", "ranging", "posting",
                                "finishing", "ended"}]
  /\ call \in [Requests -> {"none", "started", "closing", "closed"}
                             \cup Registered]
  /\ handler \in [Requests -> {"none", "running", "sending", "returned"}]
  /\ cancels \in SUBSET Requests
  /\ inflight \in SUBSET Requests
  /\ warned \in SUBSET Requests
  /\ cancelled \in SUBSET Requests
  /\ expired \in SUBSET Requests
  /\ port \in [Requests -> BOOLEAN]
  /\ sent \in [Requests -> 0 .. MaxItems + 1]
  /\ posted \in [Requests -> 0 .. MaxItems + 1]
  /\ done \in [Requests -> {"none", "posted", "lost"}]
  /\ warnings \in [Requests -> Nat]

Init ==
  /\ exporter = [r \in Requests |-> "idle"]
  /\ call = [r \in Requests |-> "none"]
  /\ handler = [r \in Requests |-> "none"]
  /\ cancels = {} /\ inflight = {} /\ warned = {}
  /\ cancelled = {} /\ expired = {}
  /\ port = [r \in Requests |-> TRUE]
  /\ sent = [r \in Requests |-> 0]
  /\ posted = [r \in Requests |-> 0]
  /\ done = [r \in Requests |-> "none"]
  /\ warnings = [r \in Requests |-> 0]

Goes(pc, r, from, to) == pc[r] = from /\ pc' = [pc EXCEPT ![r] = to]

\* Variants that a check of this model must reject are defined next to the
\* operator they vary.  Here: the stream keeps the deadline, and every call
\* drops it.
ContextKeepsDeadline(r) == r \in cancelled \/ r \in expired

ContextDropsDeadline(r) == r \in cancelled

\* The context of the handler: a stream drops the caller's deadline.
ContextDone(r) == r \in cancelled \/ (r \notin Stream /\ r \in expired)

-----------------------------------------------------------------------------
(* The client and the clock.                                               *)

\* The client cancels only what it has sent; each export starts a goroutine.
Arrive(r) ==
  /\ r \in Cancels => exporter[Target[r]] # "idle"
  /\ Goes(exporter, r, "idle", "calling")
  /\ UNCHANGED <<call, handler, registry, contexts, output>>

\* A unary client closes its port after the first message, a stream client
\* after Done; any port closes with the isolate that owns it.
ClosePort(r) ==
  /\ exporter[r] # "idle"
  /\ port[r]
  /\ port' = [port EXCEPT ![r] = FALSE]
  /\ UNCHANGED <<exporter, call, handler, registry, contexts, sent, posted,
                 done>>

\* The ten seconds of context.WithTimeout are over.
Deadline(r) ==
  /\ exporter[r] \notin {"idle", "ended"}
  /\ r \notin expired
  /\ expired' = expired \cup {r}
  /\ UNCHANGED <<exporter, call, handler, registry, cancelled, output>>

-----------------------------------------------------------------------------
(* The exporter: for ret := range Call(ctx, req) { post }; post Done.      *)

\* Call returns a closed channel at once when the context is already done.
CallExpired(r) ==
  /\ r \in expired
  /\ Goes(exporter, r, "calling", "finishing")
  /\ UNCHANGED <<call, handler, registry, contexts, output>>

CallStart(r) ==
  /\ r \notin expired
  /\ Goes(exporter, r, "calling", "ranging")
  /\ Goes(call, r, "none", "started")
  /\ UNCHANGED <<handler, registry, contexts, output>>

\* A failed post leaves the loop.
PostResponse(r) ==
  /\ exporter[r] = "posting"
  /\ IF port[r]
     THEN /\ exporter' = [exporter EXCEPT ![r] = "ranging"]
          /\ posted' = [posted EXCEPT ![r] = @ + 1]
     ELSE /\ exporter' = [exporter EXCEPT ![r] = "finishing"]
          /\ UNCHANGED posted
  /\ UNCHANGED <<call, handler, registry, contexts, port, sent, done>>

\* Variant: the exporter leaves its loop at the deadline.
RangeEndsAtDeadline(r) ==
  /\ call[r] = "closed" \/ r \in expired
  /\ Goes(exporter, r, "ranging", "finishing")
  /\ UNCHANGED <<call, handler, registry, contexts, output>>

RangeEnds(r) ==
  /\ call[r] = "closed"
  /\ Goes(exporter, r, "ranging", "finishing")
  /\ UNCHANGED <<call, handler, registry, contexts, output>>

\* Done is posted whatever ended the loop; the deferred cancel() follows.
PostDone(r) ==
  /\ Goes(exporter, r, "finishing", "ended")
  /\ done' = [done EXCEPT ![r] = IF port[r] THEN "posted" ELSE "lost"]
  /\ expired' = expired \cup {r}
  /\ UNCHANGED <<call, handler, registry, cancelled, port, sent, posted>>

-----------------------------------------------------------------------------
(* The goroutine of Call.                                                  *)

Register(r) ==
  /\ Goes(call, r, "started", "registered")
  /\ cancels' = cancels \cup {r}
  /\ inflight' = inflight \cup {r}
  /\ UNCHANGED <<exporter, handler, warned, warnings, contexts, output>>

\* case Request_Cancel: a port that is not registered is ignored.
HandleCancel(c) ==
  /\ Goes(call, c, "registered", "cleanup")
  /\ IF Target[c] \in cancels
     THEN /\ cancels' = cancels \ {Target[c]}
          /\ cancelled' = cancelled \cup {Target[c]}
     ELSE UNCHANGED <<cancels, cancelled>>
  /\ UNCHANGED <<exporter, handler, inflight, warned, warnings, expired, output>>

\* sendError: no handler set, no entry point set, unsupported request.
ReplyError(r) ==
  /\ r \notin Cancels
  /\ Goes(call, r, "registered", "sending")
  /\ sent' = [sent EXCEPT ![r] = @ + 1]
  /\ UNCHANGED <<exporter, handler, registry, contexts, port, posted, done>>

\* A flow credit or a ReverseResponse has no response.
ReplyNothing(r) ==
  /\ r \in Control
  /\ Goes(call, r, "registered", "cleanup")
  /\ UNCHANGED <<exporter, handler, registry, contexts, output>>

\* Init calls the entry point of the application, which is given no context.
RunEntryPoint(r) ==
  /\ r \in Inits
  /\ Goes(call, r, "registered", "entry")
  /\ UNCHANGED <<exporter, handler, registry, contexts, output>>

\* When the entry point returns nil, Init has no response; an error is sent.
EntryPointReturns(r) ==
  /\ call[r] = "entry"
  /\ \/ call' = [call EXCEPT ![r] = "cleanup"] /\ UNCHANGED sent
     \/ call' = [call EXCEPT ![r] = "sending"] /\ sent' = [sent EXCEPT ![r] = @ + 1]
  /\ UNCHANGED <<exporter, handler, registry, contexts, port, posted, done>>

StartHandler(r) ==
  /\ r \in Calls
  /\ Goes(call, r, "registered", "forwarding")
  /\ Goes(handler, r, "none", "running")
  /\ UNCHANGED <<exporter, registry, contexts, output>>

\* resp := <-rpcCh
Forward(r) ==
  /\ Goes(handler, r, "sending", "running")
  /\ Goes(call, r, "forwarding", "sending")
  /\ sent' = [sent EXCEPT ![r] = @ + 1]
  /\ UNCHANGED <<exporter, registry, contexts, port, posted, done>>

\* ch <- e: it needs the exporter, which may have left its loop.
Deliver(r) ==
  /\ Goes(exporter, r, "ranging", "posting")
  /\ Goes(call, r, "sending",
          IF handler[r] = "none" THEN "cleanup" ELSE "forwarding")
  /\ UNCHANGED <<handler, registry, contexts, output>>

HandlerClosed(r) ==
  /\ handler[r] = "returned"
  /\ Goes(call, r, "forwarding", "cleanup")
  /\ UNCHANGED <<exporter, handler, registry, contexts, output>>

\* Variants: the watchdog's mark is forgotten, and a request that a Cancel
\* already removed from cancels is not cleaned up.
CleanupKeepsMark(r) ==
  /\ Goes(call, r, "cleanup", "closing")
  /\ cancelled' = cancelled \cup (cancels \cap {r})
  /\ cancels' = cancels \ {r}
  /\ inflight' = inflight \ {r}
  /\ UNCHANGED <<exporter, handler, warned, warnings, expired, output>>

CleanupIfRegistered(r) ==
  /\ r \in cancels
  /\ Goes(call, r, "cleanup", "closing")
  /\ cancelled' = cancelled \cup {r}
  /\ cancels' = cancels \ {r}
  /\ inflight' = inflight \ {r}
  /\ warned' = warned \ {r}
  /\ UNCHANGED <<exporter, handler, warnings, expired, output>>

\* The deferred critical section.
Cleanup(r) ==
  /\ Goes(call, r, "cleanup", "closing")
  /\ cancelled' = cancelled \cup (cancels \cap {r})
  /\ cancels' = cancels \ {r}
  /\ inflight' = inflight \ {r}
  /\ warned' = warned \ {r}
  /\ UNCHANGED <<exporter, handler, warnings, expired, output>>

CloseChannel(r) ==
  /\ Goes(call, r, "closing", "closed")
  /\ UNCHANGED <<exporter, handler, registry, contexts, output>>

-----------------------------------------------------------------------------
(* The application handler (external) and the watchdog.                    *)

HandlerSends(r) ==
  /\ sent[r] < MaxItems
  /\ Goes(handler, r, "running", "sending")
  /\ UNCHANGED <<exporter, call, registry, contexts, output>>

HandlerReturns(r) ==
  /\ Goes(handler, r, "running", "returned")
  /\ UNCHANGED <<exporter, call, registry, contexts, output>>

\* Variant: the watchdog does not mark what it reported.
WatchWithoutMark ==
  \E slow \in SUBSET {r \in inflight : r \notin warned /\ r \notin Stream} :
    /\ slow # {}
    /\ warnings' = [r \in Requests |-> warnings[r] + IF r \in slow THEN 1 ELSE 0]
    /\ UNCHANGED <<exporter, call, handler, cancels, inflight, warned,
                   contexts, output>>

\* One tick of watchSlowRPCs, which finds the requests of some set slow.
Watch ==
  \E slow \in SUBSET {r \in inflight : r \notin warned /\ r \notin Stream} :
    /\ slow # {}
    /\ warned' = warned \cup slow
    /\ warnings' = [r \in Requests |-> warnings[r] + IF r \in slow THEN 1 ELSE 0]
    /\ UNCHANGED <<exporter, call, handler, cancels, inflight, contexts, output>>

Export(r) == CallExpired(r) \/ CallStart(r) \/ PostResponse(r) \/ RangeEnds(r)
               \/ PostDone(r)

Serve(r) == Register(r) \/ ReplyError(r) \/ ReplyNothing(r) \/ RunEntryPoint(r)
              \/ StartHandler(r) \/ Forward(r) \/ Deliver(r) \/ HandlerClosed(r)
              \/ Cleanup(r) \/ CloseChannel(r) \/ (r \in Cancels /\ HandleCancel(r))

Next ==
  \/ \E r \in Requests :
       \/ Arrive(r) \/ ClosePort(r) \/ Deadline(r)
       \/ Export(r) \/ Serve(r)
       \/ HandlerSends(r) \/ HandlerReturns(r) \/ EntryPointReturns(r)
  \/ Watch

Spec == Init /\ [][Next]_vars

\* Runnable goroutines run and the timer fires.  A handler need not return
\* on its own, but it returns when its context is done; the entry point, which
\* has none, need not return at all.
Fairness ==
  \A r \in Requests :
    /\ WF_vars(Export(r)) /\ WF_vars(Serve(r)) /\ WF_vars(Deadline(r))
    /\ WF_vars(ContextDone(r) /\ HandlerReturns(r))

FairSpec == Spec /\ Fairness

-----------------------------------------------------------------------------
(* Safety.                                                                 *)

\* The maps hold the running requests and nothing else: a request leaves
\* cancels early only by being cancelled, and the watchdog's marks never
\* outlive the request nor name a stream.
RegistryExact ==
  /\ inflight = {r \in Requests : call[r] \in Registered}
  /\ cancels \subseteq inflight
  /\ inflight \ cancels \subseteq cancelled
  /\ warned \subseteq inflight \ Stream

\* How the three goroutines of a request stand to each other: who is there
\* before whom, and that Call outlives its handler.
GoroutinesAligned ==
  \A r \in Requests :
    /\ exporter[r] \in {"idle", "calling"} => call[r] = "none"
    /\ exporter[r] \in {"ranging", "posting"} => call[r] # "none"
    /\ call[r] \in {"none", "started", "registered", "entry"} => handler[r] = "none"
    /\ call[r] = "forwarding" => handler[r] # "none"
    /\ call[r] \in {"cleanup", "closing", "closed"} => handler[r] \in {"none", "returned"}

\* Responses that have left the handler and are not posted: one that waits for
\* the exporter, one that the exporter holds.
InCall(r) == IF call[r] = "sending" THEN 1 ELSE 0
InExporter(r) == IF exporter[r] = "posting" THEN 1 ELSE 0

\* Every response is accounted for until a post fails.
ResponsesAccounted ==
  \A r \in Requests :
    /\ call[r] \in {"none", "started", "registered", "entry"} => sent[r] = 0
    /\ handler[r] = "sending" => sent[r] < MaxItems
    /\ exporter[r] \in {"idle", "calling", "ranging", "posting"} =>
         sent[r] = posted[r] + InExporter(r) + InCall(r)
    /\ exporter[r] \in {"finishing", "ended"} =>
         \/ call[r] \in {"none", "closed"} /\ sent[r] = posted[r]
         \/ ~port[r] /\ sent[r] > posted[r]
    /\ done[r] # "none" => exporter[r] = "ended"
    /\ done[r] = "posted" => call[r] \in {"none", "closed"} /\ sent[r] = posted[r]

\* A context is cancelled by a Cancel that names the request, or by Call's own
\* cleanup.
CancelledBy ==
  \A r \in cancelled :
    \/ call[r] \in {"closing", "closed"}
    \/ \E c \in Cancels : Target[c] = r /\ call[c] \in {"cleanup", "closing", "closed"}

\* A report is remembered by the mark, and a mark that is gone by the end of
\* the request.
ReportsMarked ==
  \A r \in Requests :
    \/ warnings[r] = 0
    \/ warnings[r] = 1 /\ r \notin Stream
       /\ (r \in warned \/ call[r] \in {"closing", "closed"})

\* The inductive invariant: types, a registry that matches the requests,
\* goroutines that match each other, and the accounts of responses,
\* cancellations and reports.
IInv ==
  /\ TypeOK /\ RegistryExact
  /\ GoroutinesAligned /\ ResponsesAccounted
  /\ CancelledBy /\ ReportsMarked

\* Done closes the books: when the client has got Done, every response was
\* posted before it, and the request has left the registry with its handler.
DoneIsComplete ==
  \A r \in Requests :
    done[r] = "posted" =>
      /\ posted[r] = sent[r]
      /\ call[r] \in {"none", "closed"}
      /\ r \notin inflight \cup cancels
      /\ handler[r] \in {"none", "returned"}

\* Call stays behind its exporter, blocked on a channel nobody reads and with
\* its entries in the registry, only where the client's port closed before a
\* response that is lost: neither a deadline nor a Cancel nor the watchdog
\* strands a request.
StrandedByLostResponse ==
  \A r \in Requests :
    exporter[r] \in {"finishing", "ended"} /\ r \in inflight =>
      ~port[r] /\ sent[r] > posted[r]

\* A stream outlives the caller's deadline: while its handler runs, only a
\* Cancel request that named it ends its context.
StreamKeepsContext ==
  \A r \in Stream :
    handler[r] \in {"running", "sending"} /\ ContextDone(r) =>
      \E c \in Cancels : Target[c] = r /\ call[c] \in {"cleanup", "closing", "closed"}

\* The watchdog reports a stalled request once rather than every tick, and a
\* subscription never.
ReportedOnce ==
  \A r \in Requests : warnings[r] <= IF r \in Stream THEN 0 ELSE 1

-----------------------------------------------------------------------------
(* Liveness.                                                               *)

\* Every request but a stream is answered in full: the exporter reaches Done,
\* at the latest when the deadline ends the handler's context.  An Init may
\* wait for its entry point for ever; when that returns, Init is answered too.
RequestsAnswered ==
  \A r \in Requests \ Stream :
    exporter[r] # "idle" ~> exporter[r] = "ended" \/ call[r] = "entry"

\* A Cancel that found its target stops it: the handler returns, Call cleans
\* up and closes its channel, as long as the client port takes the responses.
CancelStops ==
  \A r \in Calls : r \in cancelled ~> call[r] = "closed" \/ ~port[r]

\* What Call says of streams, whose deadline it drops: "Cancellation still
\* works through Cancel/ctx".  A Cancel request that completed has ended the
\* context of its target, or the target ends by itself.
CancelReachesTarget ==
  \A c \in Cancels :
    call[c] = "closed" ~> ContextDone(Target[c]) \/ exporter[Target[c]] = "ended"
=============================================================================
