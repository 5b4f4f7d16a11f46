------------------------------ MODULE HotLayout ------------------------------
(***************************************************************************)
(* The packed layout of a hot method's messages                            *)
(* (internal/hotlayout/hotlayout.go).  A message descriptor is the         *)
(* sequence of its fields as declared; a field has a number, a kind and a  *)
(* shape.                                                                  *)
(***************************************************************************)
EXTENDS Integers, Sequences, FiniteSetsExt, Functions

Unsupported == [unsupported |-> TRUE]

\* "map", "list", "oneof" and "presence" are the shapes scalarType refuses.
Shapes == {"plain", "map", "list", "oneof", "presence"}

Scalars ==
  { <<"bool", "bool", 1>>,
    <<"int32", "int32", 4>>, <<"sint32", "int32", 4>>, <<"sfixed32", "int32", 4>>,
    <<"uint32", "uint32", 4>>, <<"fixed32", "uint32", 4>>,
    <<"int64", "int64", 8>>, <<"sint64", "int64", 8>>, <<"sfixed64", "int64", 8>>,
    <<"uint64", "uint64", 8>>, <<"fixed64", "uint64", 8>>,
    <<"float", "float32", 4>>, <<"double", "float64", 8>> }

ScalarType(f) ==
  IF f.shape = "plain" /\ \E s \in Scalars : s[1] = f.kind
  THEN LET s == CHOOSE t \in Scalars : t[1] = f.kind IN [goType |-> s[2], size |-> s[3]]
  ELSE Unsupported

\* Variant: to the multiple below.
AlignDown(x, a) == (x \div a) * a

AlignUp(x, a) == ((x + a - 1) \div a) * a

\* sort.Slice: the fields in the order of their numbers.
ByNumber(m) ==
  CHOOSE fs \in [DOMAIN m -> Range(m)] :
    \A i, j \in DOMAIN m : i < j => fs[i].num < fs[j].num

\* The offset behind the i-th field (off in the loop of Compute).
Ends(fs) ==
  LET end[i \in 0 .. Len(fs)] ==
        IF i = 0 THEN 0
        ELSE AlignUp(end[i - 1], ScalarType(fs[i]).size) + ScalarType(fs[i]).size
  IN end

Compute(m) ==
  LET fs == ByNumber(m)
      size(i) == ScalarType(fs[i]).size
  IN IF \E i \in DOMAIN m : ScalarType(m[i]) = Unsupported THEN Unsupported
     ELSE [fields |-> [i \in DOMAIN m |->
                         [desc |-> fs[i], offset |-> AlignUp(Ends(fs)[i - 1], size(i)),
                          size |-> size(i), goType |-> ScalarType(fs[i]).goType]],
           size |-> AlignUp(Ends(fs)[Len(m)], Max({1} \cup {size(i) : i \in DOMAIN m}))]
=============================================================================
