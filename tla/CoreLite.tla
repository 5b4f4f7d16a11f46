------------------------------ MODULE CoreLite ------------------------------
(***************************************************************************)
(* The generated codec of the envelope that the web build uses             *)
(* (pb/core_lite.go): for every message its fields, EqualVT, MarshalVT,    *)
(* SizeVT and UnmarshalVT, each unrolled by the generator.  MarshalVT      *)
(* writes backwards from the end of a buffer of SizeVT bytes.  The native  *)
(* build and Dart use table-driven runtimes instead (CoreTables).          *)
(***************************************************************************)
EXTENDS Wire

CONSTANTS
  Ints,      \* values of the integer fields
  Texts,     \* values of the string and bytes fields
  Unknowns   \* records of fields that nobody knows

-----------------------------------------------------------------------------
(* The messages.                                                           *)

Error == [code : Ints, message : Texts, unknownFields : Unknowns]
Cancel == [port : Ints, code : Ints, message : Texts, unknownFields : Unknowns]
Done == [code : Ints, message : Texts, unknownFields : Unknowns]
Init == [pushPort : Ints, tempDir : Texts, supportDir : Texts, documentsDir : Texts,
         appEncryptionKey : Texts, unknownFields : Unknowns]
ReverseResponse == [reversePort : Ints, payload : Texts, unknownFields : Unknowns]
RpcRequest == [path : Texts, payload : Texts, unknownFields : Unknowns]
RpcResponse == [payload : Texts, unknownFields : Unknowns]
Push == [type : Texts, payload : Texts, reversePort : Ints, unknownFields : Unknowns]

OneOf(field, messages) == {Is(field, m) : m \in messages \cup {Nil}}

Request ==
  [port : Ints, unknownFields : Unknowns,
   requests : {None} \cup OneOf("init", Init) \cup OneOf("cancel", Cancel)
              \cup OneOf("rpcRequest", RpcRequest)
              \cup OneOf("reverseResponse", ReverseResponse)]

Response ==
  [unknownFields : Unknowns,
   responses : {None} \cup OneOf("error", Error) \cup OneOf("done", Done)
               \cup OneOf("push", Push) \cup OneOf("rpcResponse", RpcResponse)]

\* What new(T) is.
ZeroError == [code |-> 0, message |-> << >>, unknownFields |-> << >>]
ZeroCancel == [port |-> 0, code |-> 0, message |-> << >>, unknownFields |-> << >>]
ZeroDone == [code |-> 0, message |-> << >>, unknownFields |-> << >>]
ZeroInit == [pushPort |-> 0, tempDir |-> << >>, supportDir |-> << >>,
             documentsDir |-> << >>, appEncryptionKey |-> << >>, unknownFields |-> << >>]
ZeroReverseResponse == [reversePort |-> 0, payload |-> << >>, unknownFields |-> << >>]
ZeroRpcRequest == [path |-> << >>, payload |-> << >>, unknownFields |-> << >>]
ZeroRpcResponse == [payload |-> << >>, unknownFields |-> << >>]
ZeroPush == [type |-> << >>, payload |-> << >>, reversePort |-> 0, unknownFields |-> << >>]
ZeroRequest == [port |-> 0, unknownFields |-> << >>, requests |-> None]
ZeroResponse == [unknownFields |-> << >>, responses |-> None]

-----------------------------------------------------------------------------
(* EqualVT.                                                                *)

Error_EqualVT(a, b) ==
  a.code = b.code /\ a.message = b.message /\ a.unknownFields = b.unknownFields
Cancel_EqualVT(a, b) ==
  /\ a.code = b.code /\ a.message = b.message /\ a.port = b.port
  /\ a.unknownFields = b.unknownFields
Done_EqualVT(a, b) ==
  a.code = b.code /\ a.message = b.message /\ a.unknownFields = b.unknownFields
Init_EqualVT(a, b) ==
  /\ a.pushPort = b.pushPort /\ a.tempDir = b.tempDir /\ a.supportDir = b.supportDir
  /\ a.documentsDir = b.documentsDir /\ a.appEncryptionKey = b.appEncryptionKey
  /\ a.unknownFields = b.unknownFields
ReverseResponse_EqualVT(a, b) ==
  /\ a.reversePort = b.reversePort /\ a.payload = b.payload
  /\ a.unknownFields = b.unknownFields
RpcRequest_EqualVT(a, b) ==
  a.path = b.path /\ a.payload = b.payload /\ a.unknownFields = b.unknownFields
RpcResponse_EqualVT(a, b) ==
  a.payload = b.payload /\ a.unknownFields = b.unknownFields
Push_EqualVT(a, b) ==
  /\ a.type = b.type /\ a.payload = b.payload /\ a.reversePort = b.reversePort
  /\ a.unknownFields = b.unknownFields

\* The oneof wrappers: a missing message equals an empty one.
EqualOneOf(x, y, field, zero, Equal(_, _)) ==
  LET full(z) == IF z.value = Nil THEN zero ELSE z.value IN
  x.field = field /\ y.field = field /\ Equal(full(x), full(y))

Request_requests_EqualVT(x, y) ==
  \/ EqualOneOf(x, y, "init", ZeroInit, Init_EqualVT)
  \/ EqualOneOf(x, y, "cancel", ZeroCancel, Cancel_EqualVT)
  \/ EqualOneOf(x, y, "rpcRequest", ZeroRpcRequest, RpcRequest_EqualVT)
  \/ EqualOneOf(x, y, "reverseResponse", ZeroReverseResponse, ReverseResponse_EqualVT)

Response_responses_EqualVT(x, y) ==
  \/ EqualOneOf(x, y, "error", ZeroError, Error_EqualVT)
  \/ EqualOneOf(x, y, "done", ZeroDone, Done_EqualVT)
  \/ EqualOneOf(x, y, "push", ZeroPush, Push_EqualVT)
  \/ EqualOneOf(x, y, "rpcResponse", ZeroRpcResponse, RpcResponse_EqualVT)

Request_EqualVT(a, b) ==
  /\ \/ a.requests = None /\ b.requests = None
     \/ Request_requests_EqualVT(a.requests, b.requests)
  /\ a.port = b.port /\ a.unknownFields = b.unknownFields

Response_EqualVT(a, b) ==
  /\ \/ a.responses = None /\ b.responses = None
     \/ Response_responses_EqualVT(a.responses, b.responses)
  /\ a.unknownFields = b.unknownFields
-----------------------------------------------------------------------------
(* MarshalToSizedBufferVT, read forwards.                                  *)

PutInt(tag, v) == IF v = 0 THEN << >> ELSE << tag >> \o EncodeVarint(v)
PutText(tag, b) == IF b = << >> THEN << >> ELSE << tag >> \o EncodeVarint(Len(b)) \o b

Error_Marshal(m) == PutInt(\h8, m.code) \o PutText(\h12, m.message) \o m.unknownFields
Cancel_Marshal(m) ==
  PutInt(\h8, m.code) \o PutText(\h12, m.message) \o PutInt(\h18, m.port)
  \o m.unknownFields
Done_Marshal(m) == PutInt(\h8, m.code) \o PutText(\h12, m.message) \o m.unknownFields
Init_Marshal(m) ==
  PutInt(\h8, m.pushPort) \o PutText(\h12, m.tempDir) \o PutText(\h1a, m.supportDir)
  \o PutText(\h22, m.documentsDir) \o PutText(\h2a, m.appEncryptionKey)
  \o m.unknownFields
ReverseResponse_Marshal(m) ==
  PutInt(\h8, m.reversePort) \o PutText(\h12, m.payload) \o m.unknownFields
RpcRequest_Marshal(m) == PutText(\ha, m.path) \o PutText(\h12, m.payload) \o m.unknownFields
RpcResponse_Marshal(m) == PutText(\ha, m.payload) \o m.unknownFields
Push_Marshal(m) ==
  PutText(\ha, m.type) \o PutText(\h12, m.payload) \o PutInt(\h18, m.reversePort)
  \o m.unknownFields

\* The oneof wrappers write a message even when it is empty or missing.
PutMessage(tag, value, Marshal(_)) ==
  LET b == IF value = Nil THEN << >> ELSE Marshal(value) IN
  << tag >> \o EncodeVarint(Len(b)) \o b

Request_requests_Marshal(x) ==
  CASE x.field = "init" -> PutMessage(\ha, x.value, Init_Marshal)
    [] x.field = "cancel" -> PutMessage(\h22, x.value, Cancel_Marshal)
    [] x.field = "rpcRequest" -> PutMessage(\h52, x.value, RpcRequest_Marshal)
    [] x.field = "reverseResponse" -> PutMessage(\h5a, x.value, ReverseResponse_Marshal)
    [] OTHER -> << >>

Response_responses_Marshal(x) ==
  CASE x.field = "error" -> PutMessage(\ha, x.value, Error_Marshal)
    [] x.field = "done" -> PutMessage(\h32, x.value, Done_Marshal)
    [] x.field = "push" -> PutMessage(\h3a, x.value, Push_Marshal)
    [] x.field = "rpcResponse" -> PutMessage(\h52, x.value, RpcResponse_Marshal)
    [] OTHER -> << >>

Request_Marshal(m) ==
  PutInt(\h28, m.port) \o Request_requests_Marshal(m.requests) \o m.unknownFields
Response_Marshal(m) == Response_responses_Marshal(m.responses) \o m.unknownFields

-----------------------------------------------------------------------------
(* SizeVT.                                                                 *)

IntSize(v) == IF v = 0 THEN 0 ELSE 1 + SizeOfVarint(v)
TextSize(b) == IF b = << >> THEN 0 ELSE 1 + Len(b) + SizeOfVarint(Len(b))

Error_SizeVT(m) == IntSize(m.code) + TextSize(m.message) + Len(m.unknownFields)
Cancel_SizeVT(m) ==
  IntSize(m.code) + TextSize(m.message) + IntSize(m.port) + Len(m.unknownFields)
Done_SizeVT(m) == IntSize(m.code) + TextSize(m.message) + Len(m.unknownFields)
Init_SizeVT(m) ==
  IntSize(m.pushPort) + TextSize(m.tempDir) + TextSize(m.supportDir)
  + TextSize(m.documentsDir) + TextSize(m.appEncryptionKey) + Len(m.unknownFields)
ReverseResponse_SizeVT(m) ==
  IntSize(m.reversePort) + TextSize(m.payload) + Len(m.unknownFields)
RpcRequest_SizeVT(m) == TextSize(m.path) + TextSize(m.payload) + Len(m.unknownFields)
RpcResponse_SizeVT(m) == TextSize(m.payload) + Len(m.unknownFields)
Push_SizeVT(m) ==
  TextSize(m.type) + TextSize(m.payload) + IntSize(m.reversePort) + Len(m.unknownFields)

MessageSize(value, SizeVT(_)) ==
  IF value = Nil THEN 2 ELSE 1 + SizeVT(value) + SizeOfVarint(SizeVT(value))

Request_requests_SizeVT(x) ==
  CASE x.field = "init" -> MessageSize(x.value, Init_SizeVT)
    [] x.field = "cancel" -> MessageSize(x.value, Cancel_SizeVT)
    [] x.field = "rpcRequest" -> MessageSize(x.value, RpcRequest_SizeVT)
    [] x.field = "reverseResponse" -> MessageSize(x.value, ReverseResponse_SizeVT)
    [] OTHER -> 0

Response_responses_SizeVT(x) ==
  CASE x.field = "error" -> MessageSize(x.value, Error_SizeVT)
    [] x.field = "done" -> MessageSize(x.value, Done_SizeVT)
    [] x.field = "push" -> MessageSize(x.value, Push_SizeVT)
    [] x.field = "rpcResponse" -> MessageSize(x.value, RpcResponse_SizeVT)
    [] OTHER -> 0

Request_SizeVT(m) ==
  Request_requests_SizeVT(m.requests) + IntSize(m.port) + Len(m.unknownFields)
Response_SizeVT(m) == Response_responses_SizeVT(m.responses) + Len(m.unknownFields)

-----------------------------------------------------------------------------
(* MarshalVT: text, written from the end of a zeroed buffer, of which the  *)
(* first Len(text) bytes are returned.  A buffer too short is a panic.     *)

Panic == << -1 >>

InBuffer(size, text) ==
  IF size < Len(text) THEN Panic
  ELSE SubSeq([i \in 1 .. size - Len(text) |-> 0] \o text, 1, Len(text))

Request_MarshalVT(m) == InBuffer(Request_SizeVT(m), Request_Marshal(m))
Response_MarshalVT(m) == InBuffer(Response_SizeVT(m), Response_Marshal(m))

-----------------------------------------------------------------------------
(* UnmarshalVT: the cases of the switch, and the loop around it.           *)

Case(num, type, name) == [num |-> num, type |-> type, name |-> name]
OneOfCase(num, oneof, field, cases, zero) ==
  [num |-> num, type |-> BytesType, name |-> oneof, field |-> field, cases |-> cases,
   zero |-> zero]

Error_Cases == { Case(1, VarintType, "code"), Case(2, BytesType, "message") }
Cancel_Cases == { Case(1, VarintType, "code"), Case(2, BytesType, "message"),
                  Case(3, VarintType, "port") }
Done_Cases == { Case(1, VarintType, "code"), Case(2, BytesType, "message") }
Init_Cases == { Case(1, VarintType, "pushPort"), Case(2, BytesType, "tempDir"),
                Case(3, BytesType, "supportDir"), Case(4, BytesType, "documentsDir"),
                Case(5, BytesType, "appEncryptionKey") }
ReverseResponse_Cases == { Case(1, VarintType, "reversePort"), Case(2, BytesType, "payload") }
RpcRequest_Cases == { Case(1, BytesType, "path"), Case(2, BytesType, "payload") }
RpcResponse_Cases == { Case(1, BytesType, "payload") }
Push_Cases == { Case(1, BytesType, "type"), Case(2, BytesType, "payload"),
                Case(3, VarintType, "reversePort") }

Request_Cases == {
  OneOfCase(1, "requests", "init", Init_Cases, ZeroInit),
  OneOfCase(4, "requests", "cancel", Cancel_Cases, ZeroCancel),
  Case(5, VarintType, "port"),
  OneOfCase(10, "requests", "rpcRequest", RpcRequest_Cases, ZeroRpcRequest),
  OneOfCase(11, "requests", "reverseResponse", ReverseResponse_Cases,
            ZeroReverseResponse) }

Response_Cases == {
  OneOfCase(1, "responses", "error", Error_Cases, ZeroError),
  OneOfCase(6, "responses", "done", Done_Cases, ZeroDone),
  OneOfCase(7, "responses", "push", Push_Cases, ZeroPush),
  OneOfCase(10, "responses", "rpcResponse", RpcResponse_Cases, ZeroRpcResponse) }

\* From offset i of b into m.  A oneof that already holds this member is
\* merged into, any other is replaced.
RECURSIVE Unmarshal(_, _, _, _)
Unmarshal(cases, m, b, i) ==
  LET r == ReadRecord(b, i)
      known == {c \in cases : c.num = r.num}
      c == CHOOSE k \in known : TRUE
      x == m[c.name]
      inner == Unmarshal(c.cases, IF x.field = c.field THEN x.value ELSE c.zero, r.value, 0)
  IN CASE i = Len(b) -> m
       [] i < Len(b) /\ r = Failed -> Failed
       [] OTHER ->
            IF known = {}
            THEN Unmarshal(cases, [m EXCEPT !.unknownFields = @ \o r.raw], b, r.next)
            ELSE IF r.type # c.type THEN Failed
            ELSE IF "cases" \notin DOMAIN c
            THEN Unmarshal(cases, [m EXCEPT ![c.name] = r.value], b, r.next)
            ELSE IF inner = Failed THEN Failed
            ELSE Unmarshal(cases, [m EXCEPT ![c.name] = Is(c.field, inner)], b, r.next)

Request_UnmarshalVT(b) == Unmarshal(Request_Cases, ZeroRequest, b, 0)
Response_UnmarshalVT(b) == Unmarshal(Response_Cases, ZeroResponse, b, 0)
=============================================================================
