----------------------------- MODULE CoreTables -----------------------------
(***************************************************************************)
(* The messages of the envelope as the table-driven runtimes know them:    *)
(* the struct tags of native Go (pb/core.pb.go) and the BuilderInfo of     *)
(* Dart (lib/pb/core.pb.dart).  Both write the fields by number.           *)
(***************************************************************************)
EXTENDS Wire

\* pb/core.pb.go
GoError == << Varint(1, "code"), Bytes(2, "message") >>
GoCancel == << Varint(1, "code"), Bytes(2, "message"), Varint(3, "port") >>
GoDone == << Varint(1, "code"), Bytes(2, "message") >>
GoInit == << Varint(1, "pushPort"), Bytes(2, "tempDir"), Bytes(3, "supportDir"),
             Bytes(4, "documentsDir"), Bytes(5, "appEncryptionKey") >>
GoReverseResponse == << Varint(1, "reversePort"), Bytes(2, "payload") >>
GoRpcRequest == << Bytes(1, "path"), Bytes(2, "payload") >>
GoRpcResponse == << Bytes(1, "payload") >>
GoPush == << Bytes(1, "type"), Bytes(2, "payload"), Varint(3, "reversePort") >>

GoRequest == <<
  Member(1, "requests", "init", GoInit), Member(4, "requests", "cancel", GoCancel),
  Varint(5, "port"), Member(10, "requests", "rpcRequest", GoRpcRequest),
  Member(11, "requests", "reverseResponse", GoReverseResponse) >>

GoResponse == <<
  Member(1, "responses", "error", GoError), Member(6, "responses", "done", GoDone),
  Member(7, "responses", "push", GoPush),
  Member(10, "responses", "rpcResponse", GoRpcResponse) >>

-----------------------------------------------------------------------------
\* lib/pb/core.pb.dart
DartError == << Varint(1, "code"), Bytes(2, "message") >>
DartCancel == << Varint(1, "code"), Bytes(2, "message"), Varint(3, "port") >>
DartDone == << Varint(1, "code"), Bytes(2, "message") >>
DartInit == << Varint(1, "pushPort"), Bytes(2, "tempDir"), Bytes(3, "supportDir"),
               Bytes(4, "documentsDir"), Bytes(5, "appEncryptionKey") >>
DartReverseResponse == << Varint(1, "reversePort"), Bytes(2, "payload") >>
DartRpcRequest == << Bytes(1, "path"), Bytes(2, "payload") >>
DartRpcResponse == << Bytes(1, "payload") >>

\* Variant: the Dart side was not generated again after a field moved.
DartPushStale == << Bytes(1, "type"), Bytes(2, "payload"), Varint(4, "reversePort") >>

DartPush == << Bytes(1, "type"), Bytes(2, "payload"), Varint(3, "reversePort") >>

DartRequest == <<
  Member(1, "requests", "init", DartInit), Member(4, "requests", "cancel", DartCancel),
  Varint(5, "port"), Member(10, "requests", "rpcRequest", DartRpcRequest),
  Member(11, "requests", "reverseResponse", DartReverseResponse) >>

DartResponse == <<
  Member(1, "responses", "error", DartError), Member(6, "responses", "done", DartDone),
  Member(7, "responses", "push", DartPush),
  Member(10, "responses", "rpcResponse", DartRpcResponse) >>
=============================================================================
