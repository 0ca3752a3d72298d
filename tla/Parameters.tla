----------------------------- MODULE Parameters -----------------------------
(***************************************************************************)
(* The value of a core::Parameters object and the functions on it: four    *)
(* maps with the parameters of each element type, and the maps between     *)
(* names, types and indices that must agree with them.                     *)
(***************************************************************************)
EXTENDS Integers, Sequences, FiniteSets

Shapes == {"PLAIN", "CELL", "STRUCT", "STRUCT_CELL"}
Elems  == {"INT", "BOOL", "DOUBLE", "STRING"}

DynamicSize == -1

\* ParameterMetadata; ParameterType is a shape and an element type.
Metadata(name, index, rows, cols, shape, elem) ==
  [name |-> name, index |-> index, rows |-> rows, cols |-> cols, shape |-> shape, elem |-> elem]

Put(f, x, v) == [y \in DOMAIN f \cup {x} |-> IF y = x THEN v ELSE f[y]]

NoEntries == [x \in {} |-> x]

NoParameters == [
  maps        |-> [e \in Elems |-> NoEntries],
  nameToType  |-> NoEntries,
  nameToIndex |-> NoEntries,
  indexToName |-> NoEntries]

\* Mutant of Cast: numbers are stored as they are.
MutantCast(e, v) == v

\* A number is kept as twice its value, so that 1 is one half, and a text of a number
\* as that number.  A negative value stands for a text that is not a number.
Cast(e, v) ==
  CASE e = "INT"  -> 2 * (v \div 2)
    [] e = "BOOL" -> IF v = 0 THEN 0 ELSE 2
    [] OTHER      -> v

ExistName(ps, name) == \E e \in Elems : name \in DOMAIN ps.maps[e]

\* The parameter the getters reach: in the map of the type the name has.
Lookup(ps, name) == ps.maps[ps.nameToType[name].elem][name]

GetParameterMetadata(ps, name) ==
  IF ExistName(ps, name) THEN Lookup(ps, name).md
  ELSE Metadata("dummy", 0, 0, 0, "PLAIN", "INT")

GetParamIndex(ps, name) ==
  IF name \in DOMAIN ps.nameToIndex THEN ps.nameToIndex[name] ELSE -1

GetParamName(ps, index) ==
  IF index \in DOMAIN ps.indexToName THEN ps.indexToName[index] ELSE ""

\* getIntParameters, getBoolParameters, getDoubleParameters, getStringParameters
ParametersOf(ps, e) == {ps.maps[e][name] : name \in DOMAIN ps.maps[e]}

NumberOfParameters(ps) == Cardinality(UNION {{e} \X DOMAIN ps.maps[e] : e \in Elems})

\* The only check of the sizes: a vector with rows = 1 has any length.
TwoDimensional(p) ==
  p.md.rows # 1 /\ p.md.cols # (IF p.isScalar THEN 1 ELSE Len(p.data))

\* Mutant of Storable: only the map of the parameter's own type is looked at.
MutantStorable(ps, p) ==
  p.md.name \notin DOMAIN ps.maps[p.md.elem] /\ ~TwoDimensional(p)

Storable(ps, p) == ~ExistName(ps, p.md.name) /\ ~TwoDimensional(p)

\* storeParameter, scalar or vector; p = [isScalar, data, md].
StoreParameter(ps, p) ==
  IF ~Storable(ps, p) THEN ps
  ELSE LET md == p.md
           converted == [i \in DOMAIN p.data |-> Cast(md.elem, p.data[i])]
       IN [maps |-> [ps.maps EXCEPT ![md.elem] = Put(@, md.name, [p EXCEPT !.data = converted])],
           nameToType  |-> Put(ps.nameToType, md.name, [shape |-> md.shape, elem |-> md.elem]),
           nameToIndex |-> Put(ps.nameToIndex, md.name, md.index),
           indexToName |-> Put(ps.indexToName, md.index, md.name)]

\* A sequence of calls of storeParameter, whatever they return.
StoreAll(ps, s) ==
  LET stored[i \in 0..Len(s)] == IF i = 0 THEN ps ELSE StoreParameter(stored[i - 1], s[i])
  IN stored[Len(s)]

Refused == [outcome |-> "refused", value |-> <<>>]

\* A stored value of type `from' that is asked for as type `to'.  A vector of texts is
\* read with stoi also as a bool, a scalar text with stod.
Convert(from, to, v, scalar) ==
  IF from = "STRING" /\ to = "BOOL" /\ ~scalar THEN Cast(to, Cast("INT", v)) ELSE Cast(to, v)

\* getParameter, for one value or for a vector.  The conversion of a text that is not
\* a number throws.
GetParameter(ps, name, to, scalar) ==
  IF ~ExistName(ps, name) THEN Refused
  ELSE LET p    == Lookup(ps, name)
           from == p.md.elem
       IN IF p.isScalar # scalar THEN Refused
          ELSE IF from = "STRING" /\ to # "STRING" /\ \E i \in DOMAIN p.data : p.data[i] < 0
          THEN [outcome |-> "throws", value |-> <<>>]
          ELSE [outcome |-> "value",
                value   |-> [i \in DOMAIN p.data |-> Convert(from, to, p.data[i], scalar)]]

\* The values are in the map of a type they belong to.
WellTyped(ps) ==
  /\ DOMAIN ps.maps = Elems
  /\ \A e \in Elems : \A name \in DOMAIN ps.maps[e] :
       LET p == ps.maps[e][name] IN
       /\ p.md.elem = e /\ p.md.shape \in Shapes
       /\ \A i \in DOMAIN p.data :
            (e = "INT" => p.data[i] % 2 = 0) /\ (e = "BOOL" => p.data[i] \in {0, 2})

\* Every name is in one map, the one its type says, and the index maps lead from
\* it and back to a parameter with the same index.
Coherent(ps) ==
  /\ DOMAIN ps.nameToIndex = DOMAIN ps.nameToType
  /\ \A e \in Elems : \A name \in DOMAIN ps.maps[e] :
       /\ name \in DOMAIN ps.nameToType
       /\ ps.nameToType[name].elem = e
       /\ ps.nameToIndex[name] = ps.maps[e][name].md.index
       /\ ps.nameToIndex[name] \in DOMAIN ps.indexToName
  /\ \A name \in DOMAIN ps.nameToType : name \in DOMAIN ps.maps[ps.nameToType[name].elem]
  /\ \A i \in DOMAIN ps.indexToName : GetParamIndex(ps, GetParamName(ps, i)) = i
=============================================================================
