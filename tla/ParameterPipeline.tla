------------------------- MODULE ParameterPipeline -------------------------
(***************************************************************************)
(* The way of the parameters of one block from the mask in Simulink to the *)
(* generated program:                                                      *)
(*                                                                         *)
(*   mask --parse--> block --mdlRTW--> rtw file --tlc--> storeParameter    *)
(*     calls --> CoderBlockInformation --parse--> block                    *)
(*                                                                         *)
(* The block runs the same code, the calls of its initialize(), on both    *)
(* ends: `calls' records them in Simulink and they are replayed in the     *)
(* generated program.                                                      *)
(***************************************************************************)
EXTENDS Parameters, FiniteSets, SequencesExt

CONSTANTS
  Declarable,  \* metadata that the block may declare
  MaskValues,  \* what the mask may hold for a parameter: [kind, data]
  Fragile,     \* texts with a quote or a backslash, numbers that no literal is exact for
  Misread,     \* what the literal of a fragile value may be read as
  MaxCalls     \* bound: calls of addParameterMetadata and parseParameters

Names == {md.name : md \in Declarable} \cup {"className", "libName"}

Metadatas ==
  [name : Names, index : Nat, rows : Int, cols : Int, shape : Shapes, elem : Elems]

ASSUME ParameterAssumption ==
  /\ Declarable \subseteq Metadatas
  /\ MaskValues \subseteq [kind : STRING, data : Seq(Int)]
  /\ Misread \subseteq Int
  /\ MaxCalls \in Nat

VARIABLES
  mask,      \* the value of each parameter of the mask
  phase,     \* how far the parameters have come
  calls,     \* the calls the block made in Simulink
  pending,   \* SimulinkBlockInformationImpl::paramsMetadata
  params,    \* Block::m_parameters in Simulink
  rtw,       \* the SFcnParamSettings records of the rtw file
  program,   \* the parameters that the generated Start stores
  coder,     \* CoderBlockInformation: parametersFromRTW and paramsMetadata
  at,        \* the next call of the generated block
  deployed   \* Block::m_parameters in the generated program

vars == <<mask, phase, calls, pending, params, rtw, program, coder, at, deployed>>

-----------------------------------------------------------------------------
Phases == {"simulink", "ready", "written", "generated", "starting", "running",
           "failed",    \* reported in Simulink, by the code generator or by the compiler
           "rejected"}  \* reported by the generated program

BaseMetadata == <<Metadata("className", 0, 1, 1, "PLAIN", "STRING"),
                  Metadata("libName", 1, 1, 1, "PLAIN", "STRING")>>

\* A field of a struct is found by name, another parameter by its index only.
Place(md) == <<md.index, IF md.shape \in {"STRUCT", "STRUCT_CELL"} THEN md.name ELSE "">>

Places    == {Place(md) : md \in Declarable}
BaseMask  == [place \in {Place(BaseMetadata[1]), Place(BaseMetadata[2])} |->
                [kind |-> "string", data |-> <<-1 - place[1]>>]]

Add(md) == [call |-> "add", md |-> <<md>>]
Parse   == [call |-> "parse", md |-> <<>>]
Base    == [call |-> "base", md |-> BaseMetadata]

Declared(mds, md) == \E i \in DOMAIN mds : mds[i].name = md.name

\* A metadata with cols = DynamicSize gets the length of the vector.
Sized(md, n) == IF md.cols = DynamicSize THEN [md EXCEPT !.cols = n] ELSE md

Fails(how) ==
  /\ phase' = how
  /\ UNCHANGED <<mask, calls, pending, params, rtw, program, coder, at, deployed>>

-----------------------------------------------------------------------------
(* In Simulink *)

IsCell(md)   == md.shape \in {"CELL", "STRUCT_CELL"}
IsScalar(md) == md.rows = 1 /\ md.cols = 1

\* The conversions of mxpp.  The kind of a value is its class and shape: "double" is a
\* real vector and "matrix" one with two dimensions, "logical" a truth value, "string" a
\* text, and "doubles" and "strings" are cells of scalars and of texts.
AsDouble(v)       == v.kind = "double" /\ Len(v.data) = 1
AsVectorDouble(v) == v.kind = "double"
AsString(v)       == v.kind = "string"
AsMxCell(v, elem) == v.kind = IF elem = "STRING" THEN "strings" ELSE "doubles"

\* A truth value is not read, not even for a BOOL.
Readable(md, v) ==
  \/ IsCell(md) /\ AsMxCell(v, md.elem)
  \/ ~IsCell(md) /\ md.elem = "STRING" /\ IsScalar(md) /\ AsString(v)
  \/ ~IsCell(md) /\ md.elem # "STRING" /\ IF IsScalar(md) THEN AsDouble(v) ELSE AsVectorDouble(v)

ReadParameter(md, v) ==
  [isScalar |-> ~IsCell(md) /\ IsScalar(md), data |-> v.data, md |-> Sized(md, Len(v.data))]

\* One round of the loop in parseParameters; the first error ends it.
ParseOne(acc, md) ==
  LET v == mask[Place(md)]
      p == ReadParameter(md, v)
  IN IF acc.ok /\ md.rows # DynamicSize /\ Readable(md, v)
     THEN [ok |-> Storable(acc.ps, p), ps |-> StoreParameter(acc.ps, p)]
     ELSE [acc EXCEPT !.ok = FALSE]

ParseAll(mds, ps) ==
  LET parsed[i \in 0..Len(mds)] ==
        IF i = 0 THEN [ok |-> TRUE, ps |-> ps] ELSE ParseOne(parsed[i - 1], mds[i])
  IN parsed[Len(mds)]

\* The metadata are removed when all of them were parsed.  A parse that fails leaves
\* what it stored before the error.
ParseParameters(mds, call) ==
  LET result == ParseAll(mds, params) IN
  /\ params' = result.ps
  /\ \/ result.ok /\ pending' = <<>> /\ calls' = Append(calls, call) /\ UNCHANGED phase
     \/ ~result.ok /\ phase' = "failed" /\ UNCHANGED <<calls, pending>>
  /\ UNCHANGED <<mask, rtw, program, coder, at, deployed>>

Calling == phase = "simulink" /\ Len(calls) < MaxCalls

\* Block::initialize comes first in every block.
InitializeBlock == Calling /\ calls = <<>> /\ ParseParameters(BaseMetadata, Base)

AddParameterMetadata(md) ==
  /\ Calling /\ calls # <<>>
  /\ IF Declared(pending, md) THEN Fails("failed")
     ELSE /\ pending' = Append(pending, md)
          /\ calls' = Append(calls, Add(md))
          /\ UNCHANGED <<mask, phase, params, rtw, program, coder, at, deployed>>

ParsePending == Calling /\ calls # <<>> /\ ParseParameters(pending, Parse)

\* The initialize() of the block returns true, whether or not it parsed all that it added.
BlockInitialized ==
  /\ phase = "simulink" /\ calls # <<>>
  /\ phase' = "ready"
  /\ UNCHANGED <<mask, calls, pending, params, rtw, program, coder, at, deployed>>

-----------------------------------------------------------------------------
(* Code generation *)

Rank(e) == CASE e = "INT" -> 1 [] e = "BOOL" -> 2 [] e = "DOUBLE" -> 3 [] e = "STRING" -> 4

\* writeRTW goes through the maps type by type, and through each unordered map in
\* any order.
Orders(ps) ==
  {o \in SetToSeqs(DOMAIN ps.nameToType) :
     \A i, j \in DOMAIN o : i < j => Rank(ps.nameToType[o[i]].elem) <= Rank(ps.nameToType[o[j]].elem)}

Dynamic(p) == p.md.rows = DynamicSize \/ p.md.cols = DynamicSize

\* The block gives its parameters, and the engine may fail to write them.
MdlRTW ==
  /\ phase = "ready"
  /\ \/ Fails("failed")
     \/ /\ \A name \in DOMAIN params.nameToType : ~Dynamic(Lookup(params, name))
        /\ \E o \in Orders(params) : rtw' = [i \in DOMAIN o |-> Lookup(params, o[i])]
        /\ phase' = "written"
        /\ UNCHANGED <<mask, calls, pending, params, program, coder, at, deployed>>

\* Mutant of Generated: the loop runs over the rows.
MutantGenerated(p) ==
  IF p.isScalar THEN p ELSE [p EXCEPT !.data = SubSeq(@, 1, p.md.rows)]

\* The tlc file writes cols elements of a vector, whatever its length is.
Generated(p) ==
  IF p.isScalar THEN p ELSE [p EXCEPT !.data = SubSeq(@, 1, p.md.cols)]

\* Nothing is escaped on the way into the program.
Printable(p) == \A i \in DOMAIN p.data : p.data[i] \notin Fragile

\* What the program may have for a parameter that is not printable: as many elements,
\* but a quote may move them.
Misprints(p) ==
  {[Generated(p) EXCEPT !.data = d] : d \in [DOMAIN Generated(p).data -> Misread]}

TooShort(p) == ~p.isScalar /\ p.md.cols > Len(p.data)

\* The code generator stops at an element that the record does not have; it or the
\* compiler may stop at a value that is not printable.
Generate ==
  LET fragile == {i \in DOMAIN rtw : ~Printable(rtw[i])} IN
  /\ phase = "written"
  /\ \/ (fragile # {} \/ \E i \in DOMAIN rtw : TooShort(rtw[i])) /\ Fails("failed")
     \/ /\ \A i \in DOMAIN rtw : ~TooShort(rtw[i])
        /\ \E misprint \in [fragile -> UNION {Misprints(rtw[i]) : i \in fragile}] :
             /\ \A i \in fragile : misprint[i] \in Misprints(rtw[i])
             /\ program' = [i \in DOMAIN rtw |-> IF i \in fragile THEN misprint[i]
                                                 ELSE Generated(rtw[i])]
        /\ phase' = "generated"
        /\ UNCHANGED <<mask, calls, pending, params, rtw, coder, at, deployed>>

-----------------------------------------------------------------------------
(* In the generated program *)

\* Start stores the parameters and looks at none of the returned values.
StartGenerated ==
  /\ phase = "generated"
  /\ coder' = [ps |-> StoreAll(NoParameters, program), mds |-> <<>>]
  /\ phase' = "starting"
  /\ UNCHANGED <<mask, calls, pending, params, rtw, program, at, deployed>>

\* Mutant of CoderSized: the size of a dynamic parameter is not looked up.
MutantCoderSized(md) == md

CoderSized(md) == Sized(md, GetParameterMetadata(coder.ps, md.name).cols)

Known(md) ==
  /\ ExistName(coder.ps, md.name)
  /\ CoderSized(md).cols # DynamicSize
  /\ CoderSized(md) = GetParameterMetadata(coder.ps, md.name)

\* addParameterMetadata for each of mds, then parseParameters if `parses'.  All
\* the metadata added so far are checked, and all the stored parameters returned.
CoderCall(mds, parses) ==
  LET all == coder.mds \o mds IN
  IF \/ \E i \in DOMAIN mds : Declared(coder.mds, mds[i])
     \/ parses /\ NumberOfParameters(coder.ps) = 0
     \/ parses /\ \E i \in DOMAIN all : ~Known(all[i])
  THEN Fails("rejected")
  ELSE /\ coder' = [coder EXCEPT !.mds = IF parses THEN [i \in DOMAIN all |-> CoderSized(all[i])]
                                          ELSE all]
       /\ deployed' = IF parses THEN coder.ps ELSE deployed
       /\ at' = at + 1
       /\ UNCHANGED <<mask, phase, calls, pending, params, rtw, program>>

Replay ==
  /\ phase = "starting" /\ at <= Len(calls)
  /\ CoderCall(calls[at].md, calls[at].call # "add")

\* The block's initialize() returns.
GeneratedInitialized ==
  /\ phase = "starting" /\ at > Len(calls)
  /\ phase' = "running"
  /\ UNCHANGED <<mask, calls, pending, params, rtw, program, coder, at, deployed>>

-----------------------------------------------------------------------------
Init ==
  /\ \E m \in [Places -> MaskValues] :
       mask = [place \in Places \cup DOMAIN BaseMask |->
                 IF place \in DOMAIN BaseMask THEN BaseMask[place] ELSE m[place]]
  /\ phase = "simulink"
  /\ calls = <<>> /\ pending = <<>>
  /\ params = NoParameters /\ deployed = NoParameters
  /\ rtw = <<>> /\ program = <<>>
  /\ coder = [ps |-> NoParameters, mds |-> <<>>]
  /\ at = 1

Next ==
  \/ InitializeBlock
  \/ \E md \in Declarable : AddParameterMetadata(md)
  \/ ParsePending
  \/ BlockInitialized
  \/ MdlRTW
  \/ Generate
  \/ StartGenerated
  \/ Replay
  \/ GeneratedInitialized

Spec == Init /\ [][Next]_vars

-----------------------------------------------------------------------------
(* Properties *)

\* Every variable has its type, and so has every stored parameter: the numbers that
\* mxpp reads as doubles are cast to the type of the metadata.
TypeOK ==
  /\ phase \in Phases
  /\ at \in 1..(Len(calls) + 1)
  /\ \A i \in DOMAIN pending : pending[i] \in Declarable
  /\ WellTyped(params) /\ WellTyped(coder.ps) /\ WellTyped(deployed)

\* In every Parameters object the maps agree, whatever failed or was declared
\* twice: no getter looks a name up in a map that does not have it.
StoresCoherent == Coherent(params) /\ Coherent(coder.ps) /\ Coherent(deployed)

\* A parse adds parameters and never changes or hides one that is stored.
ParseOnlyAdds ==
  [][\A name \in DOMAIN params.nameToType :
       /\ name \in DOMAIN params'.nameToType
       /\ Lookup(params', name) = Lookup(params, name)]_vars

\* The generated program refuses a call that succeeded in Simulink for one reason only:
\* it adds again, and the block never parses again, a parameter that was parsed before.
\* Simulink forgets the metadata that it has parsed, and the program does not.
GeneratedAccepts ==
  phase = "rejected" =>
    \E i \in DOMAIN calls[at].md :
      /\ ExistName(params, calls[at].md[i].name)
      /\ Declared(pending, calls[at].md[i])

\* The vector has the length that was declared, and every value has a literal.
Expressible(ps, name) ==
  ExistName(ps, name) =>
    LET p == Lookup(ps, name) IN Printable(p) /\ (p.isScalar \/ Len(p.data) = p.md.cols)

\* The generated block finds the parameters, metadata and indices of the Simulink block,
\* and every getter gives it, as every type, the same values, refusals and exceptions
\* for each parameter that the program can express.
RoundTrip ==
  phase = "running" =>
    /\ NumberOfParameters(deployed) = NumberOfParameters(params)
    /\ \A name \in Names :
         /\ GetParameterMetadata(deployed, name) = GetParameterMetadata(params, name)
         /\ GetParamIndex(deployed, name) = GetParamIndex(params, name)
         /\ Expressible(params, name) =>
              \A e \in Elems, scalar \in BOOLEAN :
                GetParameter(deployed, name, e, scalar) = GetParameter(params, name, e, scalar)

-----------------------------------------------------------------------------
(* Statements of the repository that the code does not keep *)

\* BlockInformation.h: the implementations are "a transparent translation" between
\* frameworks.  The generated block reads what the Simulink block reads.
TransparentTranslation ==
  phase = "running" => \A e \in Elems : ParametersOf(deployed, e) = ParametersOf(params, e)
=============================================================================
