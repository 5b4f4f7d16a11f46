------------------------------- MODULE HotCall -------------------------------
(***************************************************************************)
(* One call of a method, from the generated Dart client to the generated   *)
(* Go handler and back: on the packed buffers when both generators take    *)
(* the method for hot, as an envelope otherwise.  A buffer is a function   *)
(* from offsets to bytes; the k-th byte of value v of field n is           *)
(* <<n, v, k>>, that of a bool is << 0, v, 0 >>, whatever its number.      *)
(***************************************************************************)
EXTENDS HotLayout

CONSTANT Methods   \* [hot, streaming : BOOLEAN, input, output : descriptors]

\* protoc accepts no two fields of one number.
ASSUME MethodsAssumption ==
  \A m \in Methods : \A d \in {m.input, m.output} :
    /\ d \in Seq([num : Nat, kind : STRING, shape : Shapes])
    /\ \A i, j \in DOMAIN d : d[i].num = d[j].num => i = j

VARIABLES
  method,     \* the method called
  phase,      \* "dart", "envelope", "go", "handler", "returned", "failed", "done"
  args,       \* the request of the Dart caller: its fields' values, by number
  reqBuf,     \* the packed request
  req,        \* the request the handler sees
  answer,     \* the response of the handler
  respBuf,    \* the packed response
  output      \* what the Dart caller gets

hotVars == << method, phase, args, reqBuf, req, answer, respBuf, output >>

Nothing == [nothing |-> TRUE]

\* collectHotMethods: GodashHot_ functions, and so the exports, exist for these.
CollectHotMethods ==
  {m \in Methods : /\ ~m.streaming /\ m.hot
                   /\ Compute(m.input) # Unsupported /\ Compute(m.output) # Unsupported}

\* hotMethodsFor: the Dart clients of these use the packed path.
HotMethodsFor ==
  {m \in Methods : /\ ~m.streaming /\ m.hot
                   /\ Compute(m.input) # Unsupported /\ Compute(m.output) # Unsupported}

-----------------------------------------------------------------------------
(* Dart's types.                                                           *)

\* dartAccessor: what the ByteData method takes and returns.
ByteDataType(goType) ==
  CASE goType = "bool" -> "bool"
    [] goType \in {"float32", "float64"} -> "double"
    [] OTHER -> "int"

\* The type of the field in the class that protoc-gen-dart makes.
DartType(goType) == IF goType \in {"int64", "uint64"} THEN "Int64" ELSE ByteDataType(goType)

\* emitHotClientMethod hands the one to the other without a conversion: the
\* Dart client of a hot method with a 64-bit integer does not compile.
ClientCompiles(m) ==
  m \in HotMethodsFor =>
    \A d \in {m.input, m.output} : \A f \in Range(Compute(d).fields) :
      DartType(f.goType) = ByteDataType(f.goType)

-----------------------------------------------------------------------------
Value(m) == [{m[i].num : i \in DOMAIN m} -> BOOLEAN]

\* setUint8(v ? 1 : 0), or the setter that dartAccessor names; of the fields of
\* a client that compiles.
BytesOf(f, v) == IF f.goType = "bool" THEN << << 0, v, 0 >> >>
                 ELSE [k \in 1 .. f.size |-> << f.desc.num, v, k >>]

\* The value whose bytes are at f's place, in the other language's accessor.
ReadField(buf, f) ==
  LET bytes == [k \in 1 .. f.size |-> buf[f.offset + k - 1]] IN
  IF \E v \in BOOLEAN : BytesOf(f, v) = bytes
  THEN CHOOSE v \in BOOLEAN : BytesOf(f, v) = bytes
  ELSE Nothing

\* The fields that have a byte at o.
At(layout, o) ==
  {i \in DOMAIN layout.fields :
     LET f == layout.fields[i] IN o \in f.offset .. (f.offset + f.size - 1)}

\* The fields of the layout written over old, one after the other: of those that
\* have a byte at o the last one stays.
Pack(layout, value, old) ==
  [o \in DOMAIN old |->
     IF At(layout, o) = {} THEN old[o]
     ELSE LET f == layout.fields[Max(At(layout, o))] IN
          BytesOf(f, value[f.desc.num])[o - f.offset + 1]]

Unpack(layout, buf) ==
  [n \in {layout.fields[i].desc.num : i \in DOMAIN layout.fields} |->
     ReadField(buf, CHOOSE f \in Range(layout.fields) : f.desc.num = n)]

Zeroed(layout) == [o \in 0 .. (layout.size - 1) |-> << 0, FALSE, 0 >>]

-----------------------------------------------------------------------------
\* An application calls what its client was compiled with.
HotInit ==
  /\ method \in Methods /\ ClientCompiles(method)
  /\ args \in Value(method.input)
  /\ phase = "dart"
  /\ reqBuf = Nothing /\ req = Nothing /\ answer = Nothing
  /\ respBuf = Nothing /\ output = Nothing

\* The generated client method: the packed request on native; on the web
\* (supportsHotPath is false) and for every other method the envelope.
CallEnvelope ==
  /\ phase = "dart"
  /\ phase' = "envelope"
  /\ UNCHANGED << method, args, reqBuf, req, answer, respBuf, output >>

CallHot ==
  /\ phase = "dart" /\ method \in HotMethodsFor
  /\ LET layout == Compute(method.input) IN
     reqBuf' = Pack(layout, args, Zeroed(layout))
  /\ phase' = "go"
  /\ UNCHANGED << method, args, req, answer, respBuf, output >>

\* hotRaw: both buffers are the caller's for the time of the call; a symbol
\* the library does not export makes the lookup throw.
HotRaw ==
  /\ phase = "go"
  /\ IF method \in CollectHotMethods
     THEN /\ respBuf' = Zeroed(Compute(method.output))
          /\ phase' = "handler"
          /\ req' = Unpack(Compute(method.input), reqBuf)
     ELSE /\ phase' = "failed"
          /\ UNCHANGED << respBuf, req >>
  /\ UNCHANGED << method, args, reqBuf, answer, output >>

\* GodashHot_Service_Method: the handler errs or returns nil (status 1), ...
HandlerFails ==
  /\ phase = "handler"
  /\ phase' = "failed"
  /\ UNCHANGED << method, args, reqBuf, req, answer, respBuf, output >>

\* ... or answers and its answer is packed.
HandlerAnswers ==
  /\ phase = "handler"
  /\ \E v \in Value(method.output) :
       /\ answer' = v
       /\ respBuf' = Pack(Compute(method.output), v, respBuf)
  /\ phase' = "returned"
  /\ UNCHANGED << method, args, reqBuf, req, output >>

ReadOutput ==
  /\ phase = "returned"
  /\ output' = Unpack(Compute(method.output), respBuf)
  /\ phase' = "done"
  /\ UNCHANGED << method, args, reqBuf, req, answer, respBuf >>

HotNext ==
  \/ CallEnvelope \/ CallHot \/ HotRaw \/ HandlerFails \/ HandlerAnswers \/ ReadOutput

HotSpec == HotInit /\ [][HotNext]_hotVars

-----------------------------------------------------------------------------
\* Rules of the layout (the comment of package hotlayout: a C struct with
\* natural alignment): fields by number, each at the first multiple of its
\* size behind the previous one, the total padded to the largest and no more.
CStruct(m, layout) ==
  LET fs == layout.fields
      end(i) == IF i = 0 THEN 0 ELSE fs[i].offset + fs[i].size
      widest == Max({1} \cup {fs[i].size : i \in DOMAIN fs})
  IN /\ Len(fs) = Len(m) /\ {fs[i].desc : i \in DOMAIN fs} = Range(m)
     /\ \A i, j \in DOMAIN fs : i < j => fs[i].desc.num < fs[j].desc.num
     /\ \A i \in DOMAIN fs : /\ fs[i].offset % fs[i].size = 0
                             /\ fs[i].offset - end(i - 1) \in 0 .. (fs[i].size - 1)
     /\ layout.size % widest = 0
     /\ layout.size - end(Len(fs)) \in 0 .. (widest - 1)

\* A hot call of a client that compiles, which leaves out the 64-bit integers
\* that package hotlayout admits, keeps what it carries: both generators take
\* the same methods for hot (a client never looks up a symbol that is not
\* exported), every message of a hot call has the layout of a C struct, the
\* handler sees the caller's request, the caller gets the handler's response.
HotCallExact ==
  /\ phase = "go" => method \in CollectHotMethods
  /\ phase \in {"go", "handler"} => CStruct(method.input, Compute(method.input))
  /\ phase \in {"handler", "returned", "done"} => req = args
  /\ phase = "done" => /\ CStruct(method.output, Compute(method.output))
                       /\ output = answer
=============================================================================
