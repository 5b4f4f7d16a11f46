----------------------------- MODULE MCBridges -----------------------------
\* Both clients of the engine, one per behaviour, on the same requests.
EXTENDS NativeBridge, TLC

CONSTANTS unary, stream, boot, stop

VARIABLES platform,
  worker, incomplete, errorEvent, reports, starting, ready, wFatal, lastError,
  wCall, pendingUnary, pendingStreams, messages, answered

Web == INSTANCE WebBridge WITH fatal <- wFatal, call <- wCall

MCStop == [s \in {stream} |-> stop]

page == <<worker, incomplete, errorEvent, reports, starting, ready, wFatal, lastError,
          wCall, pendingUnary, pendingStreams, messages, answered>>

MCInit == platform \in {"native", "web"} /\ Init /\ Web!Init

MCNext ==
  \/ platform = "native" /\ Next /\ UNCHANGED <<platform, page>>
  \/ platform = "web" /\ Web!Next /\ UNCHANGED <<platform, vars>>

MCSpec ==
  /\ MCInit /\ [][MCNext]_<<platform, vars, page>>
  /\ platform = "native" => Fairness
  /\ platform = "web" => Web!Fairness

\* The web bridge's pending sets hold the posted requests, and none once it is
\* fatal: part of its inductive invariant, checked here with the native one.
PendingExact == IInv /\ Web!IInv

\* No caller is left behind on either bridge: whoever waits for readiness gets
\* on or gives up, a unary call or Cancel that was sent ends, and on the web
\* whatever was posted to a worker that died.
CallersReturn == CallsEnd /\ Web!CallsEnd
=============================================================================
