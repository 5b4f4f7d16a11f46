---------------------------- MODULE BridgeCalls ----------------------------
(***************************************************************************)
(* The requests that pass through a bridge, native or web: the calls of    *)
(* Transport, the Init of the start and the Cancel of a stream.  Every     *)
(* request has a reply port of its own.                                    *)
(***************************************************************************)
EXTENDS Integers

CONSTANTS
  Unary,    \* calls of Transport.unary
  Streams,  \* calls of Transport.stream
  Boot,     \* the Init request
  Stop,     \* the Cancel request of each stream
  MaxItems  \* bound: responses of a stream

Cancels == {Stop[r] : r \in Streams}
Requests == Unary \cup Streams \cup {Boot} \cup Cancels
Over == {"value", "error", "done", "timeout", "cancelled"}

\* Each call of rpc or rpcUnsafe opens a port for its own request.
ASSUME RequestsDistinct ==
  /\ Unary \cap Streams = {} /\ Boot \notin Unary \cup Streams
  /\ Cancels \cap (Unary \cup Streams \cup {Boot}) = {}
  /\ \A r, s \in Streams : Stop[r] = Stop[s] => r = s

ASSUME MaxItemsAssumption == MaxItems \in Nat
=============================================================================
