------------------------------ MODULE Envelope ------------------------------
(***************************************************************************)
(* One message of the envelope, from its writer to its reader.  A request  *)
(* goes from Dart to Go and a response from Go to Dart; Go is the native   *)
(* build (pb/core.pb.go and the proto runtime) or the web build            *)
(* (pb/core_lite.go).                                                      *)
(***************************************************************************)
EXTENDS CoreLite, CoreTables

CONSTANTS
  Requests,    \* the requests Dart sends
  Responses    \* the responses Go sends

VARIABLES
  side,        \* [kind : "request" or "response", go : "native" or "web"]
  msg,         \* the message
  step,        \* "new", "written" or "read"
  wire,        \* its bytes
  received     \* what its reader made of them, Nil before

envelopeVars == << side, msg, step, wire, received >>

\* The native MarshalVT and UnmarshalVT (pb/marshal_std_gen.go).
Native_MarshalVT(kind, m) == Encode(IF kind = "request" THEN GoRequest ELSE GoResponse, m)
Native_UnmarshalVT(kind, b) == Decode(IF kind = "request" THEN GoRequest ELSE GoResponse, b)

WriteToBuffer(kind, m) == Encode(IF kind = "request" THEN DartRequest ELSE DartResponse, m)
FromBuffer(kind, b) == Decode(IF kind = "request" THEN DartRequest ELSE DartResponse, b)

GoMarshal(go, kind, m) ==
  CASE go = "native" -> Native_MarshalVT(kind, m)
    [] go = "web" /\ kind = "request" -> Request_MarshalVT(m)
    [] go = "web" /\ kind = "response" -> Response_MarshalVT(m)

GoUnmarshal(go, kind, b) ==
  CASE go = "native" -> Native_UnmarshalVT(kind, b)
    [] go = "web" /\ kind = "request" -> Request_UnmarshalVT(b)
    [] go = "web" /\ kind = "response" -> Response_UnmarshalVT(b)

EnvelopeInit ==
  /\ side \in [kind : {"request", "response"}, go : {"native", "web"}]
  /\ msg \in IF side.kind = "request" THEN Requests ELSE Responses
  /\ step = "new" /\ wire = << >> /\ received = Nil

Write ==
  /\ step = "new"
  /\ step' = "written"
  /\ wire' = IF side.kind = "request" THEN WriteToBuffer("request", msg)
             ELSE GoMarshal(side.go, "response", msg)
  /\ UNCHANGED << side, msg, received >>

Read ==
  /\ step = "written" /\ wire # Panic
  /\ step' = "read"
  /\ received' = IF side.kind = "request" THEN GoUnmarshal(side.go, "request", wire)
                 ELSE FromBuffer("response", wire)
  /\ UNCHANGED << side, msg, wire >>

EnvelopeNext == Write \/ Read

-----------------------------------------------------------------------------
EqualVT(kind, a, b) == IF kind = "request" THEN Request_EqualVT(a, b) ELSE Response_EqualVT(a, b)

\* What one side writes the other reads: writing never panics (SizeVT is never
\* short of what MarshalToSizedBufferVT writes) and the message arrives equal
\* to the one sent, unknown fields included (EqualVT takes a missing oneof
\* message for an empty one).  Three generators have to agree on every field.
Interoperates ==
  /\ wire # Panic /\ received # Failed
  /\ received # Nil => EqualVT(side.kind, received, msg)

\* The web build refuses what was cut: a proper prefix of a wire is an error,
\* or it ends between two records and says all that it holds and no more - it
\* writes back in as many bytes.  The native build decides the same.
CutRefused ==
  step = "written" =>
    \A n \in 0 .. (Len(wire) - 1) :
      LET cut == SubSeq(wire, 1, n)
          m == GoUnmarshal("web", side.kind, cut)
      IN /\ m = GoUnmarshal("native", side.kind, cut)
         /\ m # Failed => Len(GoMarshal("web", side.kind, m)) = n
=============================================================================
