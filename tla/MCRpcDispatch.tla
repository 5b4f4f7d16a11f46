--------------------------- MODULE MCRpcDispatch ---------------------------
\* A behaviour is of one mix of requests: a stream and the Cancel that names
\* it, a unary call beside a control request, or Init.
EXTENDS RpcDispatch, TLC

CONSTANTS unary, stream, boot, control, cancel

StreamTarget == [c \in {cancel} |-> stream]

VARIABLE mix

MCInit == Init /\ mix \in {{stream, cancel}, {unary, control}, {boot}}

MCNext ==
  /\ Next /\ UNCHANGED mix
  /\ \A r \in Requests \ mix : exporter'[r] = "idle"

MCSpec == MCInit /\ [][MCNext]_<<vars, mix>> /\ Fairness
=============================================================================
