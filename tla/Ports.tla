------------------------------- MODULE Ports -------------------------------
(***************************************************************************)
(* The ports of one block, from its configureSizeAndPorts() to the program *)
(* that is generated from the model:                                       *)
(*                                                                         *)
(*   setPortsInfo --> SimStruct --dimension propagation--> sizes --tlc-->  *)
(*     setInputPort, setOutputPort calls --> CoderBlockInformation         *)
(*                                                                         *)
(* A port is <<side, index>>.  The engine, Simulink or the generated       *)
(* program, has one buffer per port.                                       *)
(***************************************************************************)
EXTENDS Integers, Sequences

CONSTANTS
  Layouts,    \* what the block may declare: the ports of each side
  Proposals,  \* dimensions the engine may propose for a port
  None        \* no answer, no address

Sides == {"in", "out"}

DynamicSize == -1

\* mapPortTypeToSimulink
SimulinkType ==
  [DOUBLE |-> "SS_DOUBLE", SINGLE |-> "SS_SINGLE", BOOLEAN |-> "SS_BOOLEAN",
   INT8 |-> "SS_INT8", INT16 |-> "SS_INT16", INT32 |-> "SS_INT32",
   UINT8 |-> "SS_UINT8", UINT16 |-> "SS_UINT16", UINT32 |-> "SS_UINT32"]

DataTypes == DOMAIN SimulinkType

\* Port::Info.  Simulink has no port of width 0.
Extents  == {DynamicSize} \cup (Nat \ {0})
PortInfo == [dims : Seq(Extents), type : DataTypes]

\* The formats of a signal in the answers of the block information.
Signals ==
  [format : {"CONTIGUOUS_ZEROCOPY", "NONCONTIGUOUS"}, type : DataTypes,
   width : Int, buffer : Sides \X Nat]

\* The engine knows vectors and matrices.
ASSUME PortsAssumption ==
  /\ Layouts \subseteq [Sides -> Seq(PortInfo)]
  /\ Proposals \subseteq {dims \in Seq(Extents) : Len(dims) \in {1, 2}}
  /\ None \notin Signals /\ None \notin Sides \X Nat
  /\ None \notin [dims : Seq(Int), type : DataTypes, width : Int \cup {None},
               matrix : Seq(Int) \cup {None}, elements : Int]

VARIABLES
  phase,     \* what the engine does with the model
  declared,  \* the layout of the last configureSizeAndPorts
  ss,        \* the ports in the SimStruct
  program,   \* the calls in the generated Start
  coder      \* the ports that CoderBlockInformation stored

vars == <<phase, declared, ss, program, coder>>

-----------------------------------------------------------------------------
Phases == {"edit", "sizes", "simulation", "codegen", "generated", "running", "failed"}

Dynamic(dims) == \E i \in DOMAIN dims : dims[i] = DynamicSize

NoPorts == [p \in {} |-> p]
Put(f, x, v) == [y \in DOMAIN f \cup {x} |-> IF y = x THEN v ELSE f[y]]

PortsOf(layout) == UNION {{side} \X (0..(Len(layout[side]) - 1)) : side \in Sides}

\* The index in a Port::Info is taken to be the place in the list.
InfoOf(layout, p) == layout[p[1]][p[2] + 1]

\* The inputs come before the outputs.
InOrder(layout) ==
  LET Side(side) == [i \in 1..Len(layout[side]) |-> <<side, i - 1>>]
  IN Side("in") \o Side("out")

\* mapSimulinkToPortType: a type that is not in the table becomes DOUBLE.
PortType(id) ==
  IF \E t \in DataTypes : SimulinkType[t] = id
  THEN CHOOSE t \in DataTypes : SimulinkType[t] = id
  ELSE "DOUBLE"

Product(dims) ==
  LET product[i \in 0..Len(dims)] == IF i = 0 THEN 1 ELSE product[i - 1] * dims[i]
  IN product[Len(dims)]

\* The width the engine computes.
EngineWidth(dims) == IF Dynamic(dims) THEN DynamicSize ELSE Product(dims)

-----------------------------------------------------------------------------
(* SimulinkBlockInformation: the setters *)

FreshPort == [dims |-> <<DynamicSize>>, type |-> "SS_DOUBLE", contiguous |-> FALSE]

AllDynamic(dims) == [i \in DOMAIN dims |-> DynamicSize]

\* What the SimStruct holds after the vector or matrix size of a port was set, and
\* whether the engine took it.  An output with one dynamic dimension is passed as
\* dynamic in both.  For an input the code does this too, then passes the original
\* dimensions: it is up to the engine to accept them.
SetSize(side, dims, lenient) ==
  LET partial == Dynamic(dims) /\ dims # AllDynamic(dims) IN
  CASE ~partial                  -> [ok |-> TRUE, dims |-> dims]
    [] partial /\ side = "out"   -> [ok |-> TRUE, dims |-> AllDynamic(dims)]
    [] partial /\ side = "in"    -> [ok |-> lenient, dims |-> IF lenient THEN dims ELSE AllDynamic(dims)]

\* Mutant of UpdatePortInfo: the number of dimensions is not looked at.
MutantUpdatePortInfo(acc, p, info, lenient) ==
  [acc EXCEPT !.ss[p].dims = SetSize(p[1], info.dims, lenient).dims,
              !.ss[p].type = SimulinkType[info.type]]

\* updateInputPortInfo, updateOutputPortInfo
UpdatePortInfo(acc, p, info, lenient) ==
  IF ~acc.ok \/ Len(info.dims) \notin {1, 2} THEN [acc EXCEPT !.ok = FALSE]
  ELSE LET set == SetSize(p[1], info.dims, lenient) IN
       [ok |-> set.ok,
        ss |-> [acc.ss EXCEPT ![p].dims = set.dims,
                              ![p].type = IF set.ok THEN SimulinkType[info.type] ELSE @]]

\* The ports before the first that fails stay configured.
SetPortsInfo(layout, lenient) ==
  LET order == InOrder(layout)
      set[i \in 0..Len(order)] ==
        IF i = 0 THEN [ok |-> TRUE, ss |-> [p \in PortsOf(layout) |-> FreshPort]]
        ELSE UpdatePortInfo(set[i - 1], order[i], InfoOf(layout, order[i]), lenient)
  IN set[Len(order)]

\* Mutant of RequireContiguous: the engine may pass an array of pointers.
MutantRequireContiguous(ports) == ports

RequireContiguous(ports) ==
  [p \in DOMAIN ports |-> [ports[p] EXCEPT !.contiguous = (p[1] = "in")]]

-----------------------------------------------------------------------------
(* SimulinkBlockInformation: the getters *)

NrOfElements(dims) ==
  Product([i \in DOMAIN dims |-> IF dims[i] = DynamicSize THEN 0 ELSE dims[i]])

\* getInputPortInfo, getOutputPortInfo
SimulinkInfo(p) == [dims |-> ss[p].dims, type |-> PortType(ss[p].type)]

\* None is an error message and a zero.
SimulinkWidth(p) ==
  LET info == SimulinkInfo(p) IN IF Len(info.dims) = 1 THEN info.dims[1] ELSE None

SimulinkMatrixSize(p) ==
  LET info == SimulinkInfo(p) IN
  IF Len(info.dims) = 2 THEN <<info.dims[1], info.dims[2]>> ELSE None

\* The buffers exist once all sizes are known.
Allocated == phase \in {"simulation", "codegen"}

\* getInputPortSignal, getOutputPortSignal; outputs are always contiguous.
SimulinkSignal(p) ==
  LET info  == SimulinkInfo(p)
      width == NrOfElements(info.dims)
  IN IF Dynamic(info.dims) \/ ~Allocated \/ width = 0 THEN None
     ELSE [format |-> IF p[1] = "out" \/ ss[p].contiguous THEN "CONTIGUOUS_ZEROCOPY" ELSE "NONCONTIGUOUS",
           type |-> info.type, width |-> width, buffer |-> p]

-----------------------------------------------------------------------------
(* CoderBlockInformation *)

\* storePortInfo for a setInputPort or setOutputPort call.
StorePortInfo(ports, call) ==
  IF \/ call.port \in DOMAIN ports
     \/ call.address = None
     \/ Len(call.dims) > 2
     \/ call.type # "DOUBLE"
     \/ \E i \in DOMAIN call.dims : call.dims[i] <= 0
  THEN ports
  ELSE Put(ports, call.port,
           [dims   |-> call.dims,
            signal |-> [format |-> "CONTIGUOUS_ZEROCOPY", type |-> call.type,
                        width |-> Product(call.dims), buffer |-> call.address]])

StoreAll(called) ==
  LET stored[i \in 0..Len(called)] ==
        IF i = 0 THEN NoPorts ELSE StorePortInfo(stored[i - 1], called[i])
  IN stored[Len(called)]

CoderInfo(p) ==
  IF p \in DOMAIN coder THEN [dims |-> coder[p].dims, type |-> coder[p].signal.type] ELSE None

\* Mutant of CoderWidth: the first entry of {rows, cols}.
MutantCoderWidth(p) == IF p \in DOMAIN coder THEN coder[p].dims[1] ELSE 0

\* Vectors are row vectors here.
CoderWidth(p) == IF p \in DOMAIN coder THEN coder[p].dims[2] ELSE 0

CoderMatrixSize(p) ==
  IF p \in DOMAIN coder THEN <<coder[p].dims[1], coder[p].dims[2]>> ELSE <<0, 0>>

CoderSignal(p) ==
  IF p \in DOMAIN coder /\ ~Dynamic(coder[p].dims) THEN coder[p].signal ELSE None

-----------------------------------------------------------------------------
(* In Simulink *)

\* The ports in mdlInitializeSizes.  The block may declare another layout each
\* time, since its parameters may have changed.
MdlInitializeSizes(layout) ==
  /\ phase = "edit"
  /\ declared' = layout
  /\ \E lenient \in BOOLEAN :
       LET set == SetPortsInfo(layout, lenient) IN
       IF set.ok
       THEN phase' = "sizes" /\ ss' = RequireContiguous(set.ss)
       ELSE phase' = "failed" /\ ss' = set.ss
  /\ UNCHANGED <<program, coder>>

\* Mutant of Accepts: a size that is set is replaced.
MutantAccepts(p, dims) == EngineWidth(dims) # DynamicSize

Accepts(p, dims) ==
  EngineWidth(ss[p].dims) = DynamicSize /\ EngineWidth(dims) # DynamicSize

\* mdlSetInputPortDimensionInfo, mdlSetOutputPortDimensionInfo: the engine may
\* refuse what it proposed itself.
MdlSetPortDimensionInfo(p, dims) ==
  /\ phase = "sizes" /\ p \in DOMAIN ss
  /\ Accepts(p, dims)
  /\ \/ ss' = [ss EXCEPT ![p].dims = dims] /\ UNCHANGED phase
     \/ phase' = "failed" /\ UNCHANGED ss
  /\ UNCHANGED <<declared, program, coder>>

\* The engine goes on when it knows all the sizes.
Compiled ==
  /\ phase = "sizes"
  /\ \A p \in DOMAIN ss : ~Dynamic(ss[p].dims)
  /\ phase' \in {"simulation", "codegen"}
  /\ UNCHANGED <<declared, ss, program, coder>>

Empty == [side \in Sides |-> <<>>]

\* The model is closed, with its SimStruct and the program.
Reset ==
  /\ phase' = "edit"
  /\ declared' = Empty /\ ss' = NoPorts
  /\ program' = <<>> /\ coder' = NoPorts

\* The user stops, the engine finds that the sizes do not fit, an error was shown,
\* or the program ends.
Stop == phase \notin {"edit", "generated"} /\ Reset

-----------------------------------------------------------------------------
(* The generated program *)

\* Mutant of PortCall: the number of dimensions is not looked at.
MutantPortCall(p) ==
  LET dims == ss[p].dims IN
  [port |-> p, type |-> "DOUBLE", address |-> p, dims |-> <<dims[1], dims[Len(dims)]>>]

\* A port is always written as a matrix of doubles.
PortCall(p) ==
  LET dims == ss[p].dims IN
  [port |-> p, type |-> "DOUBLE", address |-> p,
   dims |-> IF Len(dims) = 1 THEN <<1, dims[1]>> ELSE <<dims[1], dims[2]>>]

GenerateCode ==
  /\ phase = "codegen"
  /\ program' = [i \in DOMAIN InOrder(declared) |-> PortCall(InOrder(declared)[i])]
  /\ phase' = "generated"
  /\ UNCHANGED <<declared, ss, coder>>

\* The block information is new, and what the calls return is ignored.
StartProgram ==
  /\ phase = "generated"
  /\ coder' = StoreAll(program)
  /\ phase' = "running"
  /\ UNCHANGED <<declared, ss, program>>

-----------------------------------------------------------------------------
Init ==
  /\ phase = "edit"
  /\ declared = Empty
  /\ ss = NoPorts
  /\ program = <<>>
  /\ coder = NoPorts

Next ==
  \/ \E layout \in Layouts : MdlInitializeSizes(layout)
  \/ \E p \in DOMAIN ss, dims \in Proposals : MdlSetPortDimensionInfo(p, dims)
  \/ Compiled
  \/ Stop
  \/ GenerateCode
  \/ StartProgram

Spec == Init /\ [][Next]_vars

-----------------------------------------------------------------------------
(* Properties *)

IsOpen == phase \notin {"edit", "failed"}

\* Every variable has its type; the dimensions in the SimStruct are one or two,
\* and the ports are those of the last layout.
TypeOK ==
  /\ phase \in Phases
  /\ declared \in Layouts \cup {Empty}
  /\ DOMAIN ss = PortsOf(declared)
  /\ \A p \in DOMAIN ss :
       /\ Len(ss[p].dims) \in {1, 2}
       /\ \E t \in DataTypes : ss[p].type = SimulinkType[t]
  /\ DOMAIN coder \subseteq PortsOf(declared)

\* A size and a type that the block fixed are what the getters of Simulink answer,
\* whatever the engine proposes during the propagation of sizes.
FixedPortsKept ==
  IsOpen => \A p \in PortsOf(declared) :
    /\ SimulinkInfo(p).type = InfoOf(declared, p).type
    /\ ~Dynamic(InfoOf(declared, p).dims) => SimulinkInfo(p).dims = InfoOf(declared, p).dims

\* In a simulation every port has a signal as long as the buffer of the engine, and
\* none is NONCONTIGUOUS, the format that Signal reads wrongly.
SimulationReachesSignals ==
  phase = "simulation" => \A p \in PortsOf(declared) :
    SimulinkSignal(p) = [format |-> "CONTIGUOUS_ZEROCOPY", type |-> InfoOf(declared, p).type,
                         width |-> EngineWidth(ss[p].dims), buffer |-> p]

\* In the generated program every port of the block has its signal, although nobody
\* looks at what setInputPort and setOutputPort return: it is on the port's own
\* buffer, and as long as it.
ProgramReachesSignals ==
  phase = "running" => \A p \in PortsOf(declared) :
    /\ CoderSignal(p) # None
    /\ CoderSignal(p).buffer = p
    /\ CoderSignal(p).width = EngineWidth(ss[p].dims)

\* What a block is told about port p by every getter, once the size is known.
Told(p) ==
  IF ~IsOpen \/ p \notin DOMAIN ss THEN None
  ELSE IF Dynamic(ss[p].dims) THEN None
  ELSE IF phase = "running"
  THEN [dims     |-> CoderInfo(p).dims,
        type     |-> CoderInfo(p).type,
        width    |-> CoderWidth(p),
        matrix   |-> CoderMatrixSize(p),
        elements |-> CoderSignal(p).width]
  ELSE [dims     |-> SimulinkInfo(p).dims,
        type     |-> SimulinkInfo(p).type,
        width    |-> SimulinkWidth(p),
        matrix   |-> SimulinkMatrixSize(p),
        elements |-> NrOfElements(ss[p].dims)]

AllPorts == UNION {PortsOf(layout) : layout \in Layouts}

AllDims ==
  Proposals \cup UNION {{InfoOf(layout, p).dims : p \in PortsOf(layout)} : layout \in Layouts}

KnownInfos ==
  [dims : {dims \in AllDims : Len(dims) \in {1, 2} /\ ~Dynamic(dims)}, type : DataTypes]

\* No answer about a port changes once it is known, while the model is in Simulink or
\* while the program runs.  From the one to the other the answers change as the contract
\* says: a block that reads the width of a vector, the size of a matrix or the number of
\* elements is told the same, one that reads the dimensions or the type may not be.
Contract == INSTANCE PortContract WITH
  Ports   <- AllPorts,
  Infos   <- KnownInfos,
  Nothing <- None,
  place   <- IF ~IsOpen THEN "closed" ELSE IF phase = "running" THEN "program" ELSE "simulink",
  seen    <- [p \in AllPorts |-> Told(p)]

ImplementsContract == Contract!Spec
=============================================================================
