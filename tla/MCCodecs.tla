------------------------------ MODULE MCCodecs ------------------------------
(***************************************************************************)
(* Messages between Dart and Go: an envelope written by one side and read  *)
(* by the other, on the web or natively, or a hot call.                    *)
(***************************************************************************)
EXTENDS Envelope, HotCall

MCNumbers == 1 .. 3
Field(n, kind, shape) == [num |-> n, kind |-> kind, shape |-> shape]

\* Every order of one to three numbers, over a narrow, a middle and a wide
\* kind; each other kind and each shape alone.
MCMessages ==
  {<< >>} \cup
  {<< Field(1, s[1], "plain") >> : s \in (Scalars \cup {<<"string", "", 0>>})}
  \cup {<< Field(2, "bool", "plain"), Field(1, "int32", shape) >> : shape \in Shapes}
  \cup {[i \in 1 .. 3 |-> Field(order[i], kinds[i], "plain")] :
          order \in {p \in [1 .. 3 -> MCNumbers] : IsInjective(p)},
          kinds \in [1 .. 3 -> {"bool", "fixed32", "double"}]}

MCMethods ==
  {[hot |-> TRUE, streaming |-> FALSE, input |-> m, output |-> << Field(1, "bool", "plain") >>] :
     m \in MCMessages}
  \cup {[hot |-> TRUE, streaming |-> FALSE, input |-> << >>, output |-> m] : m \in MCMessages}
  \cup {[hot |-> h, streaming |-> s, input |-> << >>, output |-> << >>] :
          h \in BOOLEAN, s \in BOOLEAN}

MCInts == {0, 1, 300, -1}
MCTexts == {<< >>, << 8, 1 >>}
MCUnknowns == {<< >>, << 120, 5 >>}

\* Lengths and integers where a varint grows.
MCLong == [i \in 1 .. 128 |-> 65]
MCLarge == {127, 128, 16383, 16384, 2147483647, -2147483647}

\* Dart has no missing message.
MCRequests ==
  {r \in Request : r.requests = None \/ r.requests.value # Nil}
  \cup {[ZeroRequest EXCEPT !.requests = Is("rpcRequest", [ZeroRpcRequest EXCEPT !.payload = t])] :
          t \in {MCLong, Tail(MCLong), MCLong \o MCLong}}
  \cup {[ZeroRequest EXCEPT !.port = v,
                            !.requests = Is("init", [ZeroInit EXCEPT !.pushPort = v])] :
          v \in MCLarge}

MCResponses ==
  Response
  \cup {[ZeroResponse EXCEPT !.responses = Is("error", [ZeroError EXCEPT !.code = v,
                                                                       !.message = t])] :
          v \in MCLarge, t \in {MCLong, Tail(MCLong)}}

envelope == << side, msg, step, wire, received >>

MCInit ==
  \/ /\ EnvelopeInit
     /\ method = Nothing /\ phase = "none" /\ args = Nothing /\ reqBuf = Nothing
     /\ req = Nothing /\ answer = Nothing /\ respBuf = Nothing /\ output = Nothing
  \/ /\ HotInit
     /\ side = [kind |-> "none"] /\ msg = None /\ step = "none" /\ wire = << >> /\ received = Nil

MCNext ==
  \/ EnvelopeNext /\ UNCHANGED hotVars
  \/ HotNext /\ UNCHANGED envelope

MCSpec == MCInit /\ [][MCNext]_<< hotVars, envelope >>
=============================================================================
