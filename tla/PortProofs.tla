------------------------------ MODULE PortProofs ------------------------------
(***************************************************************************)
(* Proofs about Ports, for any layouts that a block may declare and any    *)
(* sizes the engine may propose.                                           *)
(***************************************************************************)
EXTENDS Ports, SequenceTheorems, IntervalInduction

-----------------------------------------------------------------------------
(* The types *)

LEMMA TypeNames ==
  DataTypes = {"DOUBLE", "SINGLE", "BOOLEAN", "INT8", "INT16", "INT32", "UINT8", "UINT16", "UINT32"}
BY DEF DataTypes, SimulinkType

LEMMA TypesDiffer ==
  ASSUME NEW t \in DataTypes, NEW u \in DataTypes, SimulinkType[t] = SimulinkType[u]
  PROVE  t = u
BY TypeNames DEF SimulinkType

\* A type of the table survives the way to the engine and back.
LEMMA TypeComesBack ==
  ASSUME NEW t \in DataTypes
  PROVE  PortType(SimulinkType[t]) = t
<1>1. \E u \in DataTypes : SimulinkType[u] = SimulinkType[t]
  OBVIOUS
<1> DEFINE v == CHOOSE u \in DataTypes : SimulinkType[u] = SimulinkType[t]
<1>2. v \in DataTypes /\ SimulinkType[v] = SimulinkType[t]
  BY <1>1
<1>3. PortType(SimulinkType[t]) = v
  BY <1>1 DEF PortType
<1>4. v = t
  BY <1>2, TypesDiffer
<1>5. QED  BY <1>3, <1>4

-----------------------------------------------------------------------------
(* The number of elements *)

Sizes == {dims \in Seq(Extents) : Len(dims) \in {1, 2}}

LEMMA ProductRun ==
  ASSUME NEW dims, Len(dims) \in Nat
  PROVE  \E run : /\ DOMAIN run = 0..Len(dims) /\ run[0] = 1
                  /\ \A i \in 1..Len(dims) : run[i] = run[i - 1] * dims[i]
                  /\ Product(dims) = run[Len(dims)]
<1> DEFINE N == Len(dims)
           IsRun(n, r) == /\ DOMAIN r = 0..n /\ r[0] = 1
                          /\ \A i \in 1..n : r[i] = r[i - 1] * dims[i]
           P == {n \in 0..N : \E r : IsRun(n, r)}
           Def(g) == g = [i \in 0..N |-> IF i = 0 THEN 1 ELSE g[i - 1] * dims[i]]
<1> HIDE DEF N
<1>1. N \in Nat
  BY DEF N
<1>2. 0 \in P
  <2>1. IsRun(0, [i \in 0..0 |-> 1])
    OBVIOUS
  <2>2. 0 \in 0..N
    BY <1>1
  <2> HIDE DEF IsRun
  <2>3. QED  BY <2>1, <2>2
<1>3. ASSUME NEW n \in 1..N, n - 1 \in P PROVE n \in P
  <2>1. PICK r : IsRun(n - 1, r)
    BY <1>3
  <2> DEFINE q == [i \in 0..n |-> IF i = n THEN r[n - 1] * dims[n] ELSE r[i]]
  <2>2. DOMAIN q = 0..n /\ q[0] = 1
    BY <1>1, <2>1
  <2>3. ASSUME NEW i \in 1..n PROVE q[i] = q[i - 1] * dims[i]
    <3>1. i \in 0..n /\ i - 1 \in 0..n /\ i - 1 # n /\ q[i - 1] = r[i - 1]
      BY <1>1
    <3>2. CASE i = n  BY <3>1, <3>2
    <3>3. CASE i # n
      <4>1. i \in 1..(n - 1)
        BY <1>1, <3>3
      <4>2. QED  BY <2>1, <3>1, <3>3, <4>1
    <3>4. QED  BY <3>2, <3>3
  <2> HIDE DEF q
  <2>4. IsRun(n, q)
    BY <2>2, <2>3
  <2>5. QED  BY <1>1, <2>4
<1>4. N \in P
  <2> HIDE DEF P
  <2>1. \A i \in 0..N : i \in P
    BY <1>1, <1>2, <1>3, UpTo
  <2>2. QED  BY <1>1, <2>1
<1>5. PICK r : IsRun(N, r)
  BY <1>4
<1> DEFINE q == [i \in 0..N |-> r[i]]
<1>6. Def(q)
  BY <1>1, <1>5
<1>7. Def(CHOOSE g : Def(g))
  <2> HIDE DEF q, Def
  <2>1. QED  BY <1>6
<1> DEFINE h == CHOOSE g : Def(g)
<1>8. Product(dims) = h[N]
  BY DEF Product, N
<1>9. h = [i \in 0..N |-> IF i = 0 THEN 1 ELSE h[i - 1] * dims[i]]
  BY <1>7
<1> HIDE DEF h
<1>10. /\ DOMAIN h = 0..N /\ h[0] = 1
       /\ \A i \in 1..N : h[i] = h[i - 1] * dims[i]
  BY <1>1, <1>9
<1>11. QED  BY <1>8, <1>10 DEF N

LEMMA ProductOfSizes ==
  ASSUME NEW dims \in Seq(Int), Len(dims) \in {1, 2}
  PROVE  /\ Len(dims) = 1 => Product(dims) = dims[1]
         /\ Len(dims) = 2 => Product(dims) = dims[1] * dims[2]
<1>1. PICK run : /\ run[0] = 1
                 /\ \A i \in 1..Len(dims) : run[i] = run[i - 1] * dims[i]
                 /\ Product(dims) = run[Len(dims)]
  BY ProductRun
<1>2. 1 \in 1..Len(dims) /\ dims[1] \in Int
  BY ElementOfSeq
<1>3. run[1] = dims[1]
  <2>1. run[1] = run[1 - 1] * dims[1]
    BY <1>1, <1>2
  <2>2. run[1 - 1] = 1
    BY <1>1
  <2>3. QED  BY <1>2, <2>1, <2>2
<1>4. CASE Len(dims) = 1
  BY <1>1, <1>3, <1>4
<1>5. CASE Len(dims) = 2
  <2>1. 2 \in 1..Len(dims) /\ 2 - 1 = 1
    BY <1>5
  <2>2. run[2] = run[1] * dims[2]
    BY <1>1, <2>1
  <2>3. QED  BY <1>1, <1>3, <1>5, <2>2
<1>6. QED  BY <1>4, <1>5

LEMMA SizeFacts ==
  ASSUME NEW dims \in Sizes
  PROVE  /\ dims \in Seq(Extents) /\ dims \in Seq(Int)
         /\ Len(dims) \in {1, 2} /\ DOMAIN dims = 1..Len(dims)
         /\ \A i \in 1..Len(dims) : dims[i] \in Int /\ (dims[i] = DynamicSize \/ dims[i] > 0)
         /\ Len(dims) = 1 => dims = <<dims[1]>>
         /\ Len(dims) = 2 => dims = <<dims[1], dims[2]>>
<1>1. dims \in Seq(Extents) /\ Len(dims) \in {1, 2} /\ DOMAIN dims = 1..Len(dims)
  BY LenProperties DEF Sizes
<1>2. \A x \in Extents : x \in Int /\ (x = DynamicSize \/ x > 0)
  BY DEF Extents, DynamicSize
<1>3. \A i \in 1..Len(dims) : dims[i] \in Extents
  BY <1>1, ElementOfSeq
<1>4. Extents \subseteq Int
  BY <1>2
<1>5. dims \in Seq(Int)
  BY <1>1, <1>4, SeqMonotonic
<1>6. Len(dims) = 1 => dims = <<dims[1]>>
  BY <1>1
<1>7. Len(dims) = 2 => dims = <<dims[1], dims[2]>>
  BY <1>1
<1>8. QED  BY <1>1, <1>2, <1>3, <1>5, <1>6, <1>7

\* The dimensions that are written into the program.
AsMatrix(dims) == IF Len(dims) = 1 THEN <<1, dims[1]>> ELSE <<dims[1], dims[2]>>

\* A size that is known has at least one element, and every block information
\* counts them alike.
LEMMA KnownSize ==
  ASSUME NEW dims \in Sizes, ~Dynamic(dims)
  PROVE  /\ Product(dims) \in Nat \ {0}
         /\ NrOfElements(dims) = Product(dims) /\ EngineWidth(dims) = Product(dims)
         /\ Len(AsMatrix(dims)) = 2 /\ AsMatrix(dims)[1] \in Nat \ {0} /\ AsMatrix(dims)[2] \in Nat \ {0}
         /\ Product(AsMatrix(dims)) = Product(dims)
<1>1. /\ Len(dims) \in {1, 2} /\ DOMAIN dims = 1..Len(dims)
      /\ \A i \in 1..Len(dims) : dims[i] \in Nat \ {0} /\ dims[i] # DynamicSize
  BY SizeFacts DEF Dynamic
<1>2. /\ Len(dims) = 1 => Product(dims) = dims[1]
      /\ Len(dims) = 2 => Product(dims) = dims[1] * dims[2]
  <2>1. dims \in Seq(Int)
    BY SizeFacts
  <2>2. QED  BY <1>1, <2>1, ProductOfSizes
<1>3. ASSUME NEW a \in Nat \ {0}, NEW b \in Nat \ {0} PROVE a * b \in Nat \ {0}
  BY <1>3
<1>4. Product(dims) \in Nat \ {0}
  <2>1. CASE Len(dims) = 1
    BY <1>1, <1>2, <2>1
  <2>2. CASE Len(dims) = 2
    <3>1. dims[1] \in Nat \ {0} /\ dims[2] \in Nat \ {0}
      BY <1>1, <2>2
    <3>2. QED  BY <1>2, <1>3, <2>2, <3>1
  <2>3. QED  BY <1>1, <2>1, <2>2
<1>5. NrOfElements(dims) = Product(dims)
  <2>1. [i \in DOMAIN dims |-> IF dims[i] = DynamicSize THEN 0 ELSE dims[i]] = [i \in DOMAIN dims |-> dims[i]]
    BY <1>1
  <2>2. [i \in DOMAIN dims |-> dims[i]] = dims
    BY SizeFacts
  <2>3. QED  BY <2>1, <2>2, Zenon DEF NrOfElements
<1>6. EngineWidth(dims) = Product(dims)
  BY DEF EngineWidth
<1>7. /\ Len(AsMatrix(dims)) = 2 /\ AsMatrix(dims)[1] \in Nat \ {0} /\ AsMatrix(dims)[2] \in Nat \ {0}
      /\ Product(AsMatrix(dims)) = Product(dims)
  <2>1. CASE Len(dims) = 1
    <3>1. dims[1] \in Nat \ {0} /\ AsMatrix(dims) = <<1, dims[1]>>
      BY <1>1, <2>1 DEF AsMatrix
    <3> DEFINE m == <<1, dims[1]>>
    <3>2. Len(m) = 2 /\ m[1] = 1 /\ m[2] = dims[1]
      OBVIOUS
    <3>3. m \in Seq(Int)
      BY <3>1
    <3> HIDE DEF m
    <3>4. Product(m) = m[1] * m[2]
      BY <3>2, <3>3, ProductOfSizes
    <3>5. m[1] * m[2] = dims[1]
      BY <3>1, <3>2
    <3>6. QED  BY <1>2, <2>1, <3>1, <3>2, <3>4, <3>5 DEF m
  <2>2. CASE Len(dims) = 2
    <3>1. dims[1] \in Nat \ {0} /\ dims[2] \in Nat \ {0} /\ AsMatrix(dims) = dims
      BY <1>1, <2>2, SizeFacts DEF AsMatrix
    <3>2. QED  BY <2>2, <3>1
  <2>3. QED  BY <1>1, <2>1, <2>2
<1>8. QED  BY <1>4, <1>5, <1>6, <1>7

-----------------------------------------------------------------------------
(* The ports of a layout *)

LayoutType == [Sides -> Seq(PortInfo)]

LEMMA DeclaredIsLayout ==
  ASSUME NEW layout \in Layouts \cup {Empty}
  PROVE  layout \in LayoutType
<1>1. Empty \in LayoutType
  BY EmptySeq DEF Empty, LayoutType
<1>2. QED  BY <1>1, PortsAssumption DEF LayoutType

LEMMA NoPortsOfEmpty == PortsOf(Empty) = {}
<1>1. \A side \in Sides : Empty[side] = <<>> /\ Len(Empty[side]) = 0
  BY DEF Empty
<1>2. \A side \in Sides : 0..(Len(Empty[side]) - 1) = {}
  BY <1>1
<1>3. QED  BY <1>2 DEF PortsOf

LEMMA PortFacts ==
  ASSUME NEW layout \in LayoutType, NEW p \in PortsOf(layout)
  PROVE  /\ p[1] \in Sides /\ p[2] \in Nat /\ p = <<p[1], p[2]>> /\ p[2] < Len(layout[p[1]])
         /\ p \in Sides \X Nat /\ p # None
         /\ InfoOf(layout, p) \in PortInfo
         /\ InfoOf(layout, p).dims \in Seq(Extents) /\ InfoOf(layout, p).type \in DataTypes
<1>1. PICK side \in Sides : p \in {side} \X (0..(Len(layout[side]) - 1))
  BY DEF PortsOf
<1>2. layout[side] \in Seq(PortInfo) /\ Len(layout[side]) \in Nat
  BY LenProperties DEF LayoutType
<1>3. /\ p[1] = side /\ p[2] \in Nat /\ p = <<p[1], p[2]>> /\ p[2] < Len(layout[side])
      /\ p[2] + 1 \in 1..Len(layout[side])
  BY <1>1, <1>2
<1>4. InfoOf(layout, p) \in PortInfo
  BY <1>2, <1>3, ElementOfSeq DEF InfoOf
<1>5. p \in Sides \X Nat
  BY <1>3
<1>6. QED  BY <1>3, <1>4, <1>5, PortsAssumption DEF PortInfo

\* Every port has one place in the order.
LEMMA OrderOfPorts ==
  ASSUME NEW layout \in LayoutType
  PROVE  /\ Len(InOrder(layout)) \in Nat /\ DOMAIN InOrder(layout) = 1..Len(InOrder(layout))
         /\ \A i \in DOMAIN InOrder(layout) : InOrder(layout)[i] \in PortsOf(layout)
         /\ \A p \in PortsOf(layout) : \E i \in DOMAIN InOrder(layout) : InOrder(layout)[i] = p
         /\ \A i, j \in DOMAIN InOrder(layout) : i # j => InOrder(layout)[i] # InOrder(layout)[j]
<1> DEFINE m == Len(layout["in"])
           n == Len(layout["out"])
           ins  == [i \in 1..m |-> <<"in", i - 1>>]
           outs == [i \in 1..n |-> <<"out", i - 1>>]
           o == InOrder(layout)
<1>1. m \in Nat /\ n \in Nat
  BY LenProperties DEF LayoutType, Sides
<1>2. o = ins \o outs
  BY DEF InOrder
<1> HIDE DEF m, n, o
<1>3. /\ ins \in Seq(Sides \X Nat) /\ Len(ins) = m
      /\ outs \in Seq(Sides \X Nat) /\ Len(outs) = n
  BY <1>1 DEF Sides
<1>4. /\ o \in Seq(Sides \X Nat) /\ Len(o) = m + n
      /\ \A i \in 1..(m + n) : o[i] = IF i <= m THEN <<"in", i - 1>> ELSE <<"out", i - m - 1>>
  <2>1. /\ o \in Seq(Sides \X Nat) /\ Len(o) = m + n
        /\ \A i \in 1..(m + n) : o[i] = IF i <= m THEN ins[i] ELSE outs[i - m]
    <3> HIDE DEF ins, outs
    <3>1. QED  BY <1>2, <1>3, ConcatProperties
  <2>2. ASSUME NEW i \in 1..(m + n)
        PROVE  o[i] = IF i <= m THEN <<"in", i - 1>> ELSE <<"out", i - m - 1>>
    <3>1. CASE i <= m
      <4>1. i \in 1..m
        BY <1>1, <3>1
      <4>2. o[i] = ins[i]
        BY <2>1, <3>1
      <4>3. ins[i] = <<"in", i - 1>>
        BY <4>1
      <4>4. QED  BY <3>1, <4>2, <4>3
    <3>2. CASE ~(i <= m)
      <4>1. i - m \in 1..n
        BY <1>1, <3>2
      <4>2. o[i] = outs[i - m]
        BY <2>1, <3>2
      <4>3. outs[i - m] = <<"out", i - m - 1>>
        BY <4>1
      <4>4. QED  BY <3>2, <4>2, <4>3
    <3>3. QED  BY <3>1, <3>2
  <2>3. QED  BY <2>1, <2>2
<1>5. DOMAIN o = 1..(m + n)
  BY <1>4, LenProperties
<1>6. PortsOf(layout) = ({"in"} \X (0..(m - 1))) \cup ({"out"} \X (0..(n - 1)))
  BY DEF PortsOf, Sides, m, n
<1>7. ASSUME NEW i \in DOMAIN o PROVE o[i] \in PortsOf(layout)
  <2>1. CASE i <= m
    <3>1. i - 1 \in 0..(m - 1)
      BY <1>1, <1>5, <2>1
    <3>2. QED  BY <1>4, <1>5, <1>6, <2>1, <3>1
  <2>2. CASE ~(i <= m)
    <3>1. i - m - 1 \in 0..(n - 1)
      BY <1>1, <1>5, <2>2
    <3>2. QED  BY <1>4, <1>5, <1>6, <2>2, <3>1
  <2>3. QED  BY <2>1, <2>2
<1>8. ASSUME NEW p \in PortsOf(layout) PROVE \E i \in DOMAIN o : o[i] = p
  <2>1. ASSUME NEW k \in 0..(m - 1), p = <<"in", k>> PROVE \E i \in DOMAIN o : o[i] = p
    <3>1. k + 1 \in 1..(m + n) /\ k + 1 <= m /\ k + 1 - 1 = k
      BY <1>1
    <3>2. o[k + 1] = <<"in", k>>
      BY <1>4, <3>1
    <3>3. QED  BY <1>5, <2>1, <3>1, <3>2
  <2>2. ASSUME NEW k \in 0..(n - 1), p = <<"out", k>> PROVE \E i \in DOMAIN o : o[i] = p
    <3>1. PICK i \in 1..(m + n) : ~(i <= m) /\ i - m - 1 = k
      <4>1. k + m + 1 \in 1..(m + n) /\ ~(k + m + 1 <= m) /\ (k + m + 1) - m - 1 = k
        BY <1>1
      <4>2. QED  BY <4>1
    <3>2. o[i] = <<"out", k>>
      BY <1>4, <3>1
    <3>3. QED  BY <1>5, <2>2, <3>1, <3>2
  <2>3. QED  BY <1>6, <2>1, <2>2
<1>9. ASSUME NEW i \in DOMAIN o, NEW j \in DOMAIN o, i # j PROVE o[i] # o[j]
  <2>1. i \in Int /\ j \in Int /\ i \in 1..(m + n) /\ j \in 1..(m + n)
    BY <1>1, <1>5
  <2>2. CASE i <= m /\ j <= m
    <3>1. o[i] = <<"in", i - 1>> /\ o[j] = <<"in", j - 1>> /\ i - 1 # j - 1
      BY <1>4, <1>9, <2>1, <2>2
    <3>2. QED  BY <3>1
  <2>3. CASE ~(i <= m) /\ ~(j <= m)
    <3>1. o[i] = <<"out", i - m - 1>> /\ o[j] = <<"out", j - m - 1>>
      BY <1>4, <2>1, <2>3
    <3>2. i - m - 1 # j - m - 1
      BY <1>1, <1>9, <2>1
    <3>3. QED  BY <3>1, <3>2
  <2>4. CASE (i <= m /\ ~(j <= m)) \/ (~(i <= m) /\ j <= m)
    BY <1>4, <2>1, <2>4
  <2>5. QED  BY <2>2, <2>3, <2>4
<1>10. QED  BY <1>1, <1>4, <1>5, <1>7, <1>8, <1>9 DEF o

-----------------------------------------------------------------------------
(* setPortsInfo *)

EngineTypes == {SimulinkType[t] : t \in DataTypes}
EnginePort  == [dims : Sizes, type : EngineTypes, contiguous : BOOLEAN]

\* Port p has the type that was declared, and the size if that is fixed; no other
\* size is made up.
Configured(layout, ports, p) ==
  LET info == InfoOf(layout, p) IN
  /\ info.dims \in Sizes
  /\ ports[p].type = SimulinkType[info.type]
  /\ ~Dynamic(info.dims) => ports[p].dims = info.dims
  /\ ~Dynamic(ports[p].dims) => ports[p].dims = info.dims

LEMMA FreshIsPort == FreshPort \in EnginePort
<1>1. <<DynamicSize>> \in Sizes
  BY DEF Sizes, Extents
<1>2. "SS_DOUBLE" \in EngineTypes
  <2>1. "DOUBLE" \in DataTypes /\ SimulinkType["DOUBLE"] = "SS_DOUBLE"
    BY TypeNames DEF SimulinkType
  <2>2. QED  BY <2>1 DEF EngineTypes
<1>3. QED  BY <1>1, <1>2 DEF FreshPort, EnginePort

LEMMA AllDynamicSize ==
  ASSUME NEW dims \in Sizes
  PROVE  AllDynamic(dims) \in Sizes /\ Dynamic(AllDynamic(dims))
<1>1. Len(dims) \in {1, 2} /\ DOMAIN dims = 1..Len(dims)
  BY SizeFacts
<1>2. DynamicSize \in Extents
  BY DEF Extents
<1>3. AllDynamic(dims) \in Seq(Extents) /\ Len(AllDynamic(dims)) = Len(dims)
  BY <1>1, <1>2 DEF AllDynamic
<1>4. 1 \in DOMAIN AllDynamic(dims) /\ AllDynamic(dims)[1] = DynamicSize
  BY <1>1 DEF AllDynamic
<1>5. QED  BY <1>1, <1>3, <1>4 DEF Sizes, Dynamic

LEMMA SetSizeFacts ==
  ASSUME NEW side \in Sides, NEW dims \in Sizes, NEW lenient \in BOOLEAN
  PROVE  LET set == SetSize(side, dims, lenient) IN
         /\ set.ok \in BOOLEAN /\ set.dims \in Sizes
         /\ ~Dynamic(dims) => set.dims = dims
         /\ ~Dynamic(set.dims) => set.dims = dims
<1>1. CASE ~(Dynamic(dims) /\ dims # AllDynamic(dims))
  BY <1>1 DEF SetSize
<1>2. CASE Dynamic(dims) /\ dims # AllDynamic(dims) /\ side = "out"
  BY <1>2, AllDynamicSize DEF SetSize
<1>3. CASE Dynamic(dims) /\ dims # AllDynamic(dims) /\ side = "in"
  <2>1. SetSize(side, dims, lenient) = [ok |-> lenient, dims |-> IF lenient THEN dims ELSE AllDynamic(dims)]
    BY <1>3 DEF SetSize
  <2>2. QED  BY <1>3, <2>1, AllDynamicSize
<1>4. QED  BY <1>1, <1>2, <1>3 DEF Sides

LEMMA AnswerReplaced ==
  ASSUME NEW S, NEW acc \in [ok : BOOLEAN, ss : S], NEW answer
  PROVE  [acc EXCEPT !.ok = answer] = [ok |-> answer, ss |-> acc.ss]
OBVIOUS

LEMMA UpdateOnePort ==
  ASSUME NEW layout \in LayoutType, NEW p \in PortsOf(layout), NEW lenient \in BOOLEAN,
         NEW ok \in BOOLEAN, NEW ports \in [PortsOf(layout) -> EnginePort],
         NEW acc, acc = [ok |-> ok, ss |-> ports]
  PROVE  LET new == UpdatePortInfo(acc, p, InfoOf(layout, p), lenient) IN
         /\ new = [ok |-> new.ok, ss |-> new.ss] /\ new.ok \in BOOLEAN
         /\ new.ss \in [PortsOf(layout) -> EnginePort]
         /\ \A q \in PortsOf(layout) : q # p => new.ss[q] = ports[q]
         /\ new.ok => ok /\ Configured(layout, new.ss, p)
<1> DEFINE info == InfoOf(layout, p)
           new  == UpdatePortInfo(acc, p, info, lenient)
           set  == SetSize(p[1], info.dims, lenient)
<1>1. p[1] \in Sides /\ info.dims \in Seq(Extents) /\ info.type \in DataTypes
  BY PortFacts
<1>2. CASE ~ok \/ Len(info.dims) \notin {1, 2}
  <2>1. ~acc.ok \/ Len(info.dims) \notin {1, 2}
    BY <1>2
  <2>2. new = [acc EXCEPT !.ok = FALSE]
    <3> HIDE DEF info
    <3>1. QED  BY <2>1 DEF UpdatePortInfo
  <2>3. [acc EXCEPT !.ok = FALSE] = [ok |-> FALSE, ss |-> ports]
    <3>1. acc \in [ok : BOOLEAN, ss : {ports}] /\ acc.ss = ports
      OBVIOUS
    <3>2. QED  BY <3>1, AnswerReplaced, Zenon
  <2> HIDE DEF new
  <2>4. new = [ok |-> FALSE, ss |-> ports]
    BY <2>2, <2>3, Zenon
  <2>5. new.ok = FALSE /\ new.ss = ports
    BY <2>4
  <2>6. new = [ok |-> new.ok, ss |-> new.ss]
    BY <2>4
  <2>7. QED  BY <2>5, <2>6 DEF new, info
<1>3. CASE ok /\ Len(info.dims) \in {1, 2}
  <2>1. info.dims \in Sizes
    BY <1>1, <1>3 DEF Sizes
  <2>2. /\ set.ok \in BOOLEAN /\ set.dims \in Sizes
        /\ ~Dynamic(info.dims) => set.dims = info.dims
        /\ ~Dynamic(set.dims) => set.dims = info.dims
    BY <1>1, <2>1, SetSizeFacts
  <2> DEFINE one == [dims |-> set.dims, type |-> IF set.ok THEN SimulinkType[info.type] ELSE ports[p].type,
                     contiguous |-> ports[p].contiguous]
  <2>3. ports[p] = [dims |-> ports[p].dims, type |-> ports[p].type, contiguous |-> ports[p].contiguous]
        /\ ports[p].type \in EngineTypes /\ ports[p].contiguous \in BOOLEAN
    BY DEF EnginePort
  <2>4. one \in EnginePort
    BY <1>1, <2>2, <2>3 DEF EnginePort, EngineTypes
  <2>5. new = [ok |-> set.ok,
               ss |-> [ports EXCEPT ![p].dims = set.dims,
                                    ![p].type = IF set.ok THEN SimulinkType[info.type] ELSE @]]
    BY <1>3 DEF UpdatePortInfo
  <2> HIDE DEF set, info
  <2>6. [ports EXCEPT ![p].dims = set.dims,
                      ![p].type = IF set.ok THEN SimulinkType[info.type] ELSE @]
          = [ports EXCEPT ![p] = one]
    <3>1. [ports EXCEPT ![p].dims = set.dims] = [ports EXCEPT ![p] = [ports[p] EXCEPT !.dims = set.dims]]
      OBVIOUS
    <3>2. [ports[p] EXCEPT !.dims = set.dims] = [dims |-> set.dims, type |-> ports[p].type, contiguous |-> ports[p].contiguous]
      BY <2>3
    <3> DEFINE f == [ports EXCEPT ![p] = [dims |-> set.dims, type |-> ports[p].type, contiguous |-> ports[p].contiguous]]
    <3>3. f[p] = [dims |-> set.dims, type |-> ports[p].type, contiguous |-> ports[p].contiguous]
      OBVIOUS
    <3>4. [f EXCEPT ![p].type = IF set.ok THEN SimulinkType[info.type] ELSE @] = [ports EXCEPT ![p] = one]
      <4>1. [f EXCEPT ![p].type = IF set.ok THEN SimulinkType[info.type] ELSE @]
              = [f EXCEPT ![p] = [f[p] EXCEPT !.type = IF set.ok THEN SimulinkType[info.type] ELSE f[p].type]]
        OBVIOUS
      <4>2. [f[p] EXCEPT !.type = IF set.ok THEN SimulinkType[info.type] ELSE f[p].type] = one
        BY <3>3
      <4>3. [f EXCEPT ![p] = one] = [ports EXCEPT ![p] = one]
        OBVIOUS
      <4>4. QED  BY <4>1, <4>2, <4>3
    <3>5. QED  BY <3>1, <3>2, <3>4
  <2>7. new.ok = set.ok /\ new.ss = [ports EXCEPT ![p] = one] /\ new = [ok |-> new.ok, ss |-> new.ss]
    <3> HIDE DEF new, one
    <3>1. new = [ok |-> set.ok, ss |-> [ports EXCEPT ![p] = one]]
      BY <2>5, <2>6, Zenon
    <3>2. QED  BY <3>1
  <2> HIDE DEF new
  <2>8. new.ss[p] = one /\ new.ss \in [PortsOf(layout) -> EnginePort]
    BY <2>4, <2>7
  <2>9. new.ok => Configured(layout, new.ss, p)
    BY <2>1, <2>2, <2>7, <2>8 DEF Configured, info
  <2>10. QED  BY <1>3, <2>2, <2>7, <2>8, <2>9 DEF new, info
<1>4. QED  BY <1>2, <1>3

\* The ports are configured one after the other.
LEMMA SetRun ==
  ASSUME NEW layout, NEW lenient, Len(InOrder(layout)) \in Nat
  PROVE  \E run : /\ DOMAIN run = 0..Len(InOrder(layout))
                  /\ run[0] = [ok |-> TRUE, ss |-> [p \in PortsOf(layout) |-> FreshPort]]
                  /\ \A i \in 1..Len(InOrder(layout)) : run[i] = 
                       UpdatePortInfo(run[i - 1], InOrder(layout)[i], InfoOf(layout, InOrder(layout)[i]), lenient)
                  /\ SetPortsInfo(layout, lenient) = run[Len(InOrder(layout))]
<1> DEFINE N == Len(InOrder(layout))
           First == [ok |-> TRUE, ss |-> [p \in PortsOf(layout) |-> FreshPort]]
           Step(i, x) == UpdatePortInfo(x, InOrder(layout)[i], InfoOf(layout, InOrder(layout)[i]), lenient)
           IsRun(n, r) == /\ DOMAIN r = 0..n /\ r[0] = First
                          /\ \A i \in 1..n : r[i] = Step(i, r[i - 1])
           P == {n \in 0..N : \E r : IsRun(n, r)}
           Def(g) == g = [i \in 0..N |-> IF i = 0 THEN First ELSE Step(i, g[i - 1])]
<1>1. N \in Nat
  OBVIOUS
<1> DEFINE h == CHOOSE g : Def(g)
<1>2. SetPortsInfo(layout, lenient) = h[N]
  BY Zenon DEF SetPortsInfo
<1> HIDE DEF N, First, Step, h
<1>3. 0 \in P
  <2>1. IsRun(0, [i \in 0..0 |-> First])
    OBVIOUS
  <2>2. 0 \in 0..N
    BY <1>1
  <2> HIDE DEF IsRun
  <2>3. QED  BY <2>1, <2>2
<1>4. ASSUME NEW n \in 1..N, n - 1 \in P PROVE n \in P
  <2>1. PICK r : IsRun(n - 1, r)
    BY <1>4
  <2> DEFINE q == [i \in 0..n |-> IF i = n THEN Step(n, r[n - 1]) ELSE r[i]]
  <2>2. DOMAIN q = 0..n /\ q[0] = First
    BY <1>1, <2>1
  <2>3. ASSUME NEW i \in 1..n PROVE q[i] = Step(i, q[i - 1])
    <3>1. i \in 0..n /\ i - 1 \in 0..n /\ i - 1 # n /\ q[i - 1] = r[i - 1]
      BY <1>1
    <3>2. CASE i = n
      BY <3>1, <3>2
    <3>3. CASE i # n
      <4>1. i \in 1..(n - 1)
        BY <1>1, <3>3
      <4>2. q[i] = r[i] /\ r[i] = Step(i, r[i - 1])
        BY <2>1, <3>1, <3>3, <4>1
      <4>3. QED  BY <3>1, <4>2
    <3>4. QED  BY <3>2, <3>3
  <2> HIDE DEF q
  <2>4. IsRun(n, q)
    BY <2>2, <2>3
  <2>5. QED  BY <1>1, <2>4
<1>5. N \in P
  <2> HIDE DEF P
  <2>1. \A i \in 0..N : i \in P
    BY <1>1, <1>3, <1>4, UpTo
  <2>2. QED  BY <1>1, <2>1
<1>6. PICK r : IsRun(N, r)
  BY <1>5
<1> DEFINE q == [i \in 0..N |-> r[i]]
<1>7. Def(q)
  <2>1. \A i \in 1..N : i - 1 \in 0..N /\ q[i - 1] = r[i - 1]
    BY <1>1
  <2>2. QED  BY <1>1, <1>6, <2>1
<1>8. Def(h)
  <2> HIDE DEF q, Def
  <2>1. QED  BY <1>7 DEF h
<1>9. h = [i \in 0..N |-> IF i = 0 THEN First ELSE Step(i, h[i - 1])]
  BY <1>8
<1>10. IsRun(N, h)
  BY <1>1, <1>9
<1>11. QED  BY <1>2, <1>10 DEF N, First, Step

\* The ports of a block that could be configured all have what it declared.
LEMMA PortsAreSet ==
  ASSUME NEW layout \in LayoutType, NEW lenient \in BOOLEAN
  PROVE  LET set == SetPortsInfo(layout, lenient) IN
         /\ set.ok \in BOOLEAN
         /\ set.ss \in [PortsOf(layout) -> EnginePort]
         /\ set.ok => \A p \in PortsOf(layout) : Configured(layout, set.ss, p)
<1> DEFINE o == InOrder(layout)
           N == Len(o)
<1>1. /\ N \in Nat /\ DOMAIN o = 1..N
      /\ \A i \in 1..N : o[i] \in PortsOf(layout)
      /\ \A p \in PortsOf(layout) : \E i \in 1..N : o[i] = p
      /\ \A i, j \in 1..N : i # j => o[i] # o[j]
  <2>1. /\ N \in Nat /\ DOMAIN o = 1..N
        /\ \A i \in DOMAIN o : o[i] \in PortsOf(layout)
        /\ \A p \in PortsOf(layout) : \E i \in DOMAIN o : o[i] = p
        /\ \A i, j \in DOMAIN o : i # j => o[i] # o[j]
    BY OrderOfPorts
  <2> HIDE DEF o
  <2>2. QED  BY <2>1
<1>2. PICK run : /\ run[0] = [ok |-> TRUE, ss |-> [p \in PortsOf(layout) |-> FreshPort]]
                 /\ \A i \in 1..N : run[i] = UpdatePortInfo(run[i - 1], o[i], InfoOf(layout, o[i]), lenient)
                 /\ SetPortsInfo(layout, lenient) = run[N]
  BY <1>1, SetRun
<1> HIDE DEF o, N
<1> DEFINE Good(i) == /\ run[i] = [ok |-> run[i].ok, ss |-> run[i].ss]
                      /\ run[i].ok \in BOOLEAN
                      /\ run[i].ss \in [PortsOf(layout) -> EnginePort]
                      /\ run[i].ok => \A j \in 1..i : Configured(layout, run[i].ss, o[j])
           P == {i \in 0..N : Good(i)}
<1>3. 0 \in P
  <2>1. [p \in PortsOf(layout) |-> FreshPort] \in [PortsOf(layout) -> EnginePort]
    BY FreshIsPort
  <2>2. run[0].ok = TRUE /\ run[0].ss = [p \in PortsOf(layout) |-> FreshPort]
    BY <1>2
  <2>3. run[0] = [ok |-> run[0].ok, ss |-> run[0].ss]
    BY <1>2
  <2>4. \A j \in 1..0 : Configured(layout, run[0].ss, o[j])
    OBVIOUS
  <2>5. 0 \in 0..N
    BY <1>1
  <2>6. QED  BY <2>1, <2>2, <2>3, <2>4, <2>5
<1>4. ASSUME NEW i \in 1..N, i - 1 \in P PROVE i \in P
  <2> DEFINE old == run[i - 1]
             new == run[i]
             p == o[i]
  <2>1. /\ old = [ok |-> old.ok, ss |-> old.ss] /\ old.ok \in BOOLEAN
        /\ old.ss \in [PortsOf(layout) -> EnginePort]
        /\ old.ok => \A j \in 1..(i - 1) : Configured(layout, old.ss, o[j])
    BY <1>4
  <2>2. p \in PortsOf(layout) /\ new = UpdatePortInfo(old, p, InfoOf(layout, p), lenient)
    BY <1>1, <1>2
  <2> HIDE DEF old, new, p
  <2>3. /\ new = [ok |-> new.ok, ss |-> new.ss] /\ new.ok \in BOOLEAN
        /\ new.ss \in [PortsOf(layout) -> EnginePort]
        /\ \A q \in PortsOf(layout) : q # p => new.ss[q] = old.ss[q]
        /\ new.ok => old.ok /\ Configured(layout, new.ss, p)
    BY <2>1, <2>2, UpdateOnePort
  <2>4. ASSUME new.ok, NEW j \in 1..i PROVE Configured(layout, new.ss, o[j])
    <3>1. CASE j = i
      BY <2>3, <2>4, <3>1 DEF p
    <3>2. CASE j # i
      <4>1. j \in 1..(i - 1) /\ j \in 1..N
        BY <1>1, <3>2
      <4>2. Configured(layout, old.ss, o[j])
        BY <2>1, <2>3, <2>4, <4>1
      <4>3. o[j] \in PortsOf(layout) /\ o[j] # p
        BY <1>1, <3>2, <4>1 DEF p
      <4>4. new.ss[o[j]] = old.ss[o[j]]
        BY <2>3, <4>3
      <4>5. QED  BY <4>2, <4>4, Zenon DEF Configured
    <3>3. QED  BY <3>1, <3>2
  <2>5. i \in 0..N
    BY <1>1
  <2>6. QED  BY <2>3, <2>4, <2>5 DEF new
<1>5. N \in P
  <2> HIDE DEF P
  <2>1. \A i \in 0..N : i \in P
    BY <1>1, <1>3, <1>4, UpTo
  <2>2. QED  BY <1>1, <2>1
<1>6. ASSUME run[N].ok, NEW p \in PortsOf(layout) PROVE Configured(layout, run[N].ss, p)
  <2>1. PICK i \in 1..N : o[i] = p
    BY <1>1
  <2>2. QED  BY <1>5, <1>6, <2>1
<1>7. QED  BY <1>2, <1>5, <1>6

-----------------------------------------------------------------------------
(* The ports that the program stores *)

LEMMA StoreRun ==
  ASSUME NEW called, Len(called) \in Nat
  PROVE  \E run : /\ DOMAIN run = 0..Len(called)
                  /\ run[0] = NoPorts
                  /\ \A i \in 1..Len(called) : run[i] = StorePortInfo(run[i - 1], called[i])
                  /\ StoreAll(called) = run[Len(called)]
<1> DEFINE N == Len(called)
           First == NoPorts
           Step(i, x) == StorePortInfo(x, called[i])
           IsRun(n, r) == /\ DOMAIN r = 0..n /\ r[0] = First
                          /\ \A i \in 1..n : r[i] = Step(i, r[i - 1])
           P == {n \in 0..N : \E r : IsRun(n, r)}
           Def(g) == g = [i \in 0..N |-> IF i = 0 THEN First ELSE Step(i, g[i - 1])]
<1>1. N \in Nat
  OBVIOUS
<1> DEFINE h == CHOOSE g : Def(g)
<1>2. StoreAll(called) = h[N]
  BY Zenon DEF StoreAll
<1> HIDE DEF N, First, Step, h
<1>3. 0 \in P
  <2>1. IsRun(0, [i \in 0..0 |-> First])
    OBVIOUS
  <2>2. 0 \in 0..N
    BY <1>1
  <2> HIDE DEF IsRun
  <2>3. QED  BY <2>1, <2>2
<1>4. ASSUME NEW n \in 1..N, n - 1 \in P PROVE n \in P
  <2>1. PICK r : IsRun(n - 1, r)
    BY <1>4
  <2> DEFINE q == [i \in 0..n |-> IF i = n THEN Step(n, r[n - 1]) ELSE r[i]]
  <2>2. DOMAIN q = 0..n /\ q[0] = First
    BY <1>1, <2>1
  <2>3. ASSUME NEW i \in 1..n PROVE q[i] = Step(i, q[i - 1])
    <3>1. i \in 0..n /\ i - 1 \in 0..n /\ i - 1 # n /\ q[i - 1] = r[i - 1]
      BY <1>1
    <3>2. CASE i = n
      BY <3>1, <3>2
    <3>3. CASE i # n
      <4>1. i \in 1..(n - 1)
        BY <1>1, <3>3
      <4>2. q[i] = r[i] /\ r[i] = Step(i, r[i - 1])
        BY <2>1, <3>1, <3>3, <4>1
      <4>3. QED  BY <3>1, <4>2
    <3>4. QED  BY <3>2, <3>3
  <2> HIDE DEF q
  <2>4. IsRun(n, q)
    BY <2>2, <2>3
  <2>5. QED  BY <1>1, <2>4
<1>5. N \in P
  <2> HIDE DEF P
  <2>1. \A i \in 0..N : i \in P
    BY <1>1, <1>3, <1>4, UpTo
  <2>2. QED  BY <1>1, <2>1
<1>6. PICK r : IsRun(N, r)
  BY <1>5
<1> DEFINE q == [i \in 0..N |-> r[i]]
<1>7. Def(q)
  <2>1. \A i \in 1..N : i - 1 \in 0..N /\ q[i - 1] = r[i - 1]
    BY <1>1
  <2>2. QED  BY <1>1, <1>6, <2>1
<1>8. Def(h)
  <2> HIDE DEF q, Def
  <2>1. QED  BY <1>7 DEF h
<1>9. h = [i \in 0..N |-> IF i = 0 THEN First ELSE Step(i, h[i - 1])]
  BY <1>8
<1>10. IsRun(N, h)
  BY <1>1, <1>9
<1>11. QED  BY <1>2, <1>10 DEF N, First, Step

\* What Start asks for port p, and what is stored for it.
CallFor(ports, p) ==
  [port |-> p, type |-> "DOUBLE", address |-> p, dims |-> AsMatrix(ports[p].dims)]

StoredFor(ports, p) ==
  [dims   |-> AsMatrix(ports[p].dims),
   signal |-> [format |-> "CONTIGUOUS_ZEROCOPY", type |-> "DOUBLE",
               width |-> Product(ports[p].dims), buffer |-> p]]

LEMMA OneCallStores ==
  ASSUME NEW layout \in LayoutType, NEW p \in PortsOf(layout),
         NEW ports \in [PortsOf(layout) -> EnginePort], ~Dynamic(ports[p].dims),
         NEW stored, p \notin DOMAIN stored
  PROVE  StorePortInfo(stored, CallFor(ports, p)) = Put(stored, p, StoredFor(ports, p))
<1> DEFINE dims == ports[p].dims
           m == AsMatrix(dims)
           call == CallFor(ports, p)
<1>1. dims \in Sizes
  BY DEF EnginePort
<1>2. Len(m) = 2 /\ m[1] \in Nat \ {0} /\ m[2] \in Nat \ {0} /\ Product(m) = Product(dims)
  BY <1>1, KnownSize
<1>3. DOMAIN m = {1, 2}
  BY DEF AsMatrix
<1>4. p # None
  BY PortFacts
<1>5. call.port = p /\ call.address = p /\ call.type = "DOUBLE" /\ call.dims = m
  BY DEF CallFor
<1> HIDE DEF dims, m, call
<1>6. /\ ~(call.port \in DOMAIN stored) /\ ~(call.address = None) /\ ~(Len(call.dims) > 2)
      /\ ~(call.type # "DOUBLE") /\ ~(\E i \in DOMAIN call.dims : call.dims[i] <= 0)
  BY <1>2, <1>3, <1>4, <1>5
<1>7. StorePortInfo(stored, call)
        = Put(stored, call.port,
              [dims   |-> call.dims,
               signal |-> [format |-> "CONTIGUOUS_ZEROCOPY", type |-> call.type,
                           width |-> Product(call.dims), buffer |-> call.address]])
  BY <1>6, Zenon DEF StorePortInfo
<1>8. QED  BY <1>2, <1>5, <1>7, Zenon DEF StoredFor, call, m, dims

\* Start stores every port, although it looks at no answer.
LEMMA ProgramStores ==
  ASSUME NEW layout \in LayoutType, NEW ports \in [PortsOf(layout) -> EnginePort],
         \A p \in PortsOf(layout) : ~Dynamic(ports[p].dims),
         NEW called, called = [i \in DOMAIN InOrder(layout) |-> CallFor(ports, InOrder(layout)[i])]
  PROVE  /\ DOMAIN StoreAll(called) = PortsOf(layout)
         /\ \A p \in PortsOf(layout) : StoreAll(called)[p] = StoredFor(ports, p)
<1> DEFINE o == InOrder(layout)
           N == Len(o)
<1>1. /\ N \in Nat /\ DOMAIN o = 1..N
      /\ \A i \in 1..N : o[i] \in PortsOf(layout)
      /\ \A p \in PortsOf(layout) : \E i \in 1..N : o[i] = p
      /\ \A i, j \in 1..N : i # j => o[i] # o[j]
  <2>1. /\ N \in Nat /\ DOMAIN o = 1..N
        /\ \A i \in DOMAIN o : o[i] \in PortsOf(layout)
        /\ \A p \in PortsOf(layout) : \E i \in DOMAIN o : o[i] = p
        /\ \A i, j \in DOMAIN o : i # j => o[i] # o[j]
    BY OrderOfPorts
  <2> HIDE DEF o
  <2>2. QED  BY <2>1
<1> HIDE DEF o, N
<1>2. Len(called) = N /\ \A i \in 1..N : called[i] = CallFor(ports, o[i])
  BY <1>1 DEF o
<1>3. PICK run : /\ run[0] = NoPorts
                 /\ \A i \in 1..N : run[i] = StorePortInfo(run[i - 1], called[i])
                 /\ StoreAll(called) = run[N]
  BY <1>1, <1>2, StoreRun
<1> DEFINE Good(i) == /\ DOMAIN run[i] = {o[j] : j \in 1..i}
                      /\ \A j \in 1..i : run[i][o[j]] = StoredFor(ports, o[j])
           P == {i \in 0..N : Good(i)}
<1>4. 0 \in P
  <2>1. DOMAIN run[0] = {}
    BY <1>3 DEF NoPorts
  <2>2. QED  BY <1>1, <2>1
<1>5. ASSUME NEW i \in 1..N, i - 1 \in P PROVE i \in P
  <2> DEFINE old == run[i - 1]
             new == run[i]
             p == o[i]
  <2>1. DOMAIN old = {o[j] : j \in 1..(i - 1)} /\ \A j \in 1..(i - 1) : old[o[j]] = StoredFor(ports, o[j])
    BY <1>5
  <2>2. p \in PortsOf(layout) /\ new = StorePortInfo(old, CallFor(ports, p))
    BY <1>1, <1>2, <1>3
  <2> HIDE DEF old, new, p
  <2>3. \A j \in 1..(i - 1) : o[j] # p
    BY <1>1 DEF p
  <2>4. new = Put(old, p, StoredFor(ports, p))
    BY <2>1, <2>2, <2>3, OneCallStores
  <2>5. DOMAIN new = DOMAIN old \cup {p}
    BY <2>4 DEF Put
  <2>6. \A y \in DOMAIN new : new[y] = IF y = p THEN StoredFor(ports, p) ELSE old[y]
    BY <2>4 DEF Put
  <2>7. DOMAIN new = {o[j] : j \in 1..i}
    <3>1. \A j \in 1..i : j = i \/ j \in 1..(i - 1)
      BY <1>1
    <3>2. i \in 1..i /\ \A j \in 1..(i - 1) : j \in 1..i
      BY <1>1
    <3>3. QED  BY <2>1, <2>5, <3>1, <3>2 DEF p
  <2>8. ASSUME NEW j \in 1..i PROVE new[o[j]] = StoredFor(ports, o[j])
    <3>1. o[j] \in DOMAIN new
      BY <2>7
    <3>2. CASE j = i
      BY <2>6, <3>1, <3>2 DEF p
    <3>3. CASE j # i
      <4>1. j \in 1..(i - 1)
        BY <1>1, <3>3
      <4>2. QED  BY <2>1, <2>3, <2>6, <3>1, <4>1
    <3>4. QED  BY <3>2, <3>3
  <2>9. i \in 0..N
    BY <1>1
  <2>10. QED  BY <2>7, <2>8, <2>9 DEF new
<1>6. N \in P
  <2> HIDE DEF P
  <2>1. \A i \in 0..N : i \in P
    BY <1>1, <1>4, <1>5, UpTo
  <2>2. QED  BY <1>1, <2>1
<1>7. DOMAIN run[N] = {o[j] : j \in 1..N} /\ \A j \in 1..N : run[N][o[j]] = StoredFor(ports, o[j])
  BY <1>6
<1>8. {o[j] : j \in 1..N} = PortsOf(layout)
  BY <1>1
<1>9. ASSUME NEW p \in PortsOf(layout) PROVE run[N][p] = StoredFor(ports, p)
  <2>1. PICK j \in 1..N : o[j] = p
    BY <1>1
  <2>2. QED  BY <1>7, <2>1
<1>10. QED  BY <1>3, <1>7, <1>8, <1>9

-----------------------------------------------------------------------------
(* The inductive invariant *)

TypeInv ==
  /\ phase \in Phases
  /\ declared \in Layouts \cup {Empty}
  /\ ss \in [PortsOf(declared) -> EnginePort]

\* Of an open model every port was configured, and what it got later is a size the
\* engine proposed.
OpenInv ==
  IsOpen => \A p \in PortsOf(declared) :
    LET info == InfoOf(declared, p) IN
    /\ info.dims \in Sizes
    /\ ss[p].type = SimulinkType[info.type]
    /\ ss[p].contiguous = (p[1] = "in")
    /\ ~Dynamic(info.dims) => ss[p].dims = info.dims
    /\ ~Dynamic(ss[p].dims) => ss[p].dims \in AllDims

\* After the compilation all sizes are known.
KnownInv ==
  phase \in {"simulation", "codegen", "generated", "running"} =>
    \A p \in PortsOf(declared) : ~Dynamic(ss[p].dims)

\* The program asks for every port as it is in the SimStruct,
ProgramInv ==
  phase \in {"generated", "running"} =>
    program = [i \in DOMAIN InOrder(declared) |-> CallFor(ss, InOrder(declared)[i])]

\* and when it runs all of them are stored.
CoderInv ==
  IF phase = "running"
  THEN /\ DOMAIN coder = PortsOf(declared)
       /\ \A p \in PortsOf(declared) : coder[p] = StoredFor(ss, p)
  ELSE coder = NoPorts

IInv == TypeInv /\ OpenInv /\ KnownInv /\ ProgramInv /\ CoderInv

LEMMA InitInv == Init => IInv
<1> SUFFICES ASSUME Init PROVE IInv
  OBVIOUS
<1>1. PortsOf(declared) = {} /\ DOMAIN ss = {}
  BY NoPortsOfEmpty DEF Init, NoPorts
<1>2. ss \in [PortsOf(declared) -> EnginePort]
  BY <1>1 DEF Init, NoPorts
<1>3. QED  BY <1>1, <1>2 DEF Init, IInv, TypeInv, OpenInv, KnownInv, ProgramInv, CoderInv, Phases, IsOpen

LEMMA FlagReplaced ==
  ASSUME NEW port \in EnginePort, NEW flag
  PROVE  [port EXCEPT !.contiguous = flag] = [dims |-> port.dims, type |-> port.type, contiguous |-> flag]
BY DEF EnginePort

\* The ports differ in what is required of the inputs, and in nothing else.
OnlyContiguous(S, ports, new) ==
  /\ new \in [S -> EnginePort]
  /\ \A p \in S : /\ new[p].dims = ports[p].dims
                  /\ new[p].type = ports[p].type
                  /\ new[p].contiguous = (p[1] = "in")

LEMMA ContiguousInputs ==
  ASSUME NEW S, NEW ports \in [S -> EnginePort]
  PROVE  OnlyContiguous(S, ports, RequireContiguous(ports))
<1> DEFINE new == RequireContiguous(ports)
<1>1. ASSUME NEW p \in S
      PROVE  new[p] = [dims |-> ports[p].dims, type |-> ports[p].type, contiguous |-> (p[1] = "in")]
  <2>1. new[p] = [ports[p] EXCEPT !.contiguous = (p[1] = "in")]
    BY Zenon DEF RequireContiguous
  <2>2. ports[p] \in EnginePort
    OBVIOUS
  <2> HIDE DEF new
  <2>3. QED  BY <2>1, <2>2, FlagReplaced, Zenon
<1>2. DOMAIN new = S /\ new = [p \in S |-> new[p]]
  BY DEF RequireContiguous
<1> HIDE DEF new
<1>3. ASSUME NEW p \in S
      PROVE  /\ new[p].dims = ports[p].dims /\ new[p].type = ports[p].type
             /\ new[p].contiguous = (p[1] = "in") /\ new[p] \in EnginePort
  <2>1. ports[p].dims \in Sizes /\ ports[p].type \in EngineTypes /\ (p[1] = "in") \in BOOLEAN
    BY DEF EnginePort
  <2>2. PICK flag \in BOOLEAN : flag = (p[1] = "in")
    BY <2>1
  <2>3. new[p] = [dims |-> ports[p].dims, type |-> ports[p].type, contiguous |-> flag]
    BY <1>1, <2>2, Zenon
  <2>4. new[p].dims = ports[p].dims /\ new[p].type = ports[p].type /\ new[p].contiguous = flag
    BY <2>3
  <2>5. new[p] \in EnginePort
    BY <2>1, <2>3 DEF EnginePort
  <2>6. QED  BY <2>2, <2>4, <2>5, Zenon
<1>4. new \in [S -> EnginePort]
  BY <1>2, <1>3
<1>5. QED  BY <1>3, <1>4, Zenon DEF new, OnlyContiguous

LEMMA MdlInitializeSizesKeeps ==
  ASSUME IInv, NEW layout \in Layouts, MdlInitializeSizes(layout)
  PROVE  IInv'
<1>1. layout \in LayoutType /\ layout \in Layouts \cup {Empty}
  BY DeclaredIsLayout
<1>2. phase = "edit" /\ declared' = layout /\ program' = program /\ coder' = coder
  BY DEF MdlInitializeSizes
<1>3. PICK lenient \in BOOLEAN :
        IF SetPortsInfo(layout, lenient).ok
        THEN phase' = "sizes" /\ ss' = RequireContiguous(SetPortsInfo(layout, lenient).ss)
        ELSE phase' = "failed" /\ ss' = SetPortsInfo(layout, lenient).ss
  BY DEF MdlInitializeSizes
<1> DEFINE set == SetPortsInfo(layout, lenient)
<1>4. /\ set.ok \in BOOLEAN /\ set.ss \in [PortsOf(layout) -> EnginePort]
      /\ set.ok => \A p \in PortsOf(layout) : Configured(layout, set.ss, p)
  BY <1>1, PortsAreSet
<1>5. coder' = NoPorts
  BY <1>2 DEF IInv, CoderInv
<1> HIDE DEF set
<1>6. CASE ~set.ok
  <2>1. phase' = "failed" /\ ss' = set.ss
    BY <1>3, <1>6 DEF set
  <2>2. QED  BY <1>1, <1>2, <1>4, <1>5, <2>1 DEF IInv, TypeInv, OpenInv, KnownInv, ProgramInv, CoderInv, Phases, IsOpen
<1>7. CASE set.ok
  <2>1. phase' = "sizes" /\ ss' = RequireContiguous(set.ss)
    BY <1>3, <1>7 DEF set
  <2>2. /\ ss' \in [PortsOf(layout) -> EnginePort]
        /\ \A p \in PortsOf(layout) : /\ ss'[p].dims = set.ss[p].dims
                                      /\ ss'[p].type = set.ss[p].type
                                      /\ ss'[p].contiguous = (p[1] = "in")
    <3>1. set.ss \in [PortsOf(layout) -> EnginePort]
      BY <1>4
    <3>2. OnlyContiguous(PortsOf(layout), set.ss, ss')
      BY <2>1, <3>1, ContiguousInputs, Zenon
    <3>3. QED  BY <3>2, Zenon DEF OnlyContiguous
  <2>3. TypeInv'
    BY <1>1, <1>2, <2>1, <2>2 DEF TypeInv, Phases
  <2>4. ASSUME NEW p \in PortsOf(layout)
        PROVE  LET info == InfoOf(layout, p) IN
               /\ info.dims \in Sizes
               /\ ss'[p].type = SimulinkType[info.type]
               /\ ss'[p].contiguous = (p[1] = "in")
               /\ ~Dynamic(info.dims) => ss'[p].dims = info.dims
               /\ ~Dynamic(ss'[p].dims) => ss'[p].dims \in AllDims
    <3>1. Configured(layout, set.ss, p)
      BY <1>4, <1>7
    <3>2. InfoOf(layout, p).dims \in AllDims
      BY DEF AllDims
    <3>3. QED  BY <2>2, <3>1, <3>2, Zenon DEF Configured
  <2>5. OpenInv'
    BY <1>2, <2>4, Zenon DEF OpenInv
  <2>6. KnownInv' /\ ProgramInv' /\ CoderInv'
    BY <1>5, <2>1 DEF KnownInv, ProgramInv, CoderInv
  <2>7. QED  BY <2>3, <2>5, <2>6 DEF IInv
<1>8. QED  BY <1>4, <1>6, <1>7

\* A size that is proposed replaces one that is not known.
LEMMA ProposalFacts ==
  ASSUME IInv, NEW p \in DOMAIN ss, NEW dims \in Proposals, Accepts(p, dims)
  PROVE  /\ p \in PortsOf(declared) /\ ss[p].dims \in Sizes /\ Dynamic(ss[p].dims)
         /\ dims \in Sizes /\ ~Dynamic(dims) /\ dims \in AllDims
<1>1. p \in PortsOf(declared) /\ ss[p].dims \in Sizes
  BY DEF IInv, TypeInv, EnginePort
<1>2. dims \in Sizes /\ dims \in AllDims
  BY PortsAssumption DEF Sizes, AllDims
<1>3. ~Dynamic(dims)
  BY DEF Accepts, EngineWidth
<1>4. ASSUME ~Dynamic(ss[p].dims) PROVE FALSE
  <2>1. EngineWidth(ss[p].dims) \in Nat
    BY <1>1, <1>4, KnownSize
  <2>2. EngineWidth(ss[p].dims) = -1
    BY DEF Accepts, DynamicSize
  <2>3. QED  BY <2>1, <2>2
<1>5. QED  BY <1>1, <1>2, <1>3, <1>4

LEMMA SizeReplaced ==
  ASSUME NEW S, NEW ports \in [S -> EnginePort], NEW p \in S, NEW dims \in Sizes
  PROVE  LET new == [ports EXCEPT ![p].dims = dims] IN
         /\ new \in [S -> EnginePort]
         /\ new[p].dims = dims /\ new[p].type = ports[p].type /\ new[p].contiguous = ports[p].contiguous
         /\ \A q \in S : q # p => new[q] = ports[q]
<1> DEFINE one == [dims |-> dims, type |-> ports[p].type, contiguous |-> ports[p].contiguous]
<1>1. [ports EXCEPT ![p].dims = dims] = [ports EXCEPT ![p] = [ports[p] EXCEPT !.dims = dims]]
  OBVIOUS
<1>2. ports[p] = [dims |-> ports[p].dims, type |-> ports[p].type, contiguous |-> ports[p].contiguous]
      /\ ports[p].type \in EngineTypes /\ ports[p].contiguous \in BOOLEAN
  BY DEF EnginePort
<1>3. [ports[p] EXCEPT !.dims = dims] = one
  BY <1>2
<1>4. one \in EnginePort
  BY <1>2 DEF EnginePort
<1>5. one.dims = dims /\ one.type = ports[p].type /\ one.contiguous = ports[p].contiguous
  BY <1>2
<1> HIDE DEF one
<1>6. [ports EXCEPT ![p].dims = dims] = [ports EXCEPT ![p] = one]
  BY <1>1, <1>3, Zenon
<1>7. QED  BY <1>4, <1>5, <1>6

LEMMA MdlSetPortDimensionInfoKeeps ==
  ASSUME IInv, NEW p \in DOMAIN ss, NEW dims \in Proposals, MdlSetPortDimensionInfo(p, dims)
  PROVE  IInv'
<1>1. /\ phase = "sizes" /\ Accepts(p, dims)
      /\ declared' = declared /\ program' = program /\ coder' = coder
  BY DEF MdlSetPortDimensionInfo
<1>2. /\ p \in PortsOf(declared) /\ Dynamic(ss[p].dims)
      /\ dims \in Sizes /\ ~Dynamic(dims) /\ dims \in AllDims
  BY <1>1, ProposalFacts
<1>3. ss \in [PortsOf(declared) -> EnginePort]
  BY DEF IInv, TypeInv
<1>4. coder' = NoPorts
  BY <1>1 DEF IInv, CoderInv
<1>5. CASE ss' = [ss EXCEPT ![p].dims = dims] /\ UNCHANGED phase
  <2>1. /\ ss' \in [PortsOf(declared) -> EnginePort]
        /\ ss'[p].dims = dims /\ ss'[p].type = ss[p].type /\ ss'[p].contiguous = ss[p].contiguous
        /\ \A q \in PortsOf(declared) : q # p => ss'[q] = ss[q]
    <3> DEFINE new == [ss EXCEPT ![p].dims = dims]
    <3>1. /\ new \in [PortsOf(declared) -> EnginePort]
          /\ new[p].dims = dims /\ new[p].type = ss[p].type /\ new[p].contiguous = ss[p].contiguous
          /\ \A q \in PortsOf(declared) : q # p => new[q] = ss[q]
      BY <1>2, <1>3, SizeReplaced, Zenon
    <3>2. ss' = new
      BY <1>5
    <3> HIDE DEF new
    <3>3. QED  BY <3>1, <3>2, Zenon
  <2>2. TypeInv'
    BY <1>1, <1>5, <2>1 DEF IInv, TypeInv
  <2>3. OpenInv'
    <3>1. \A q \in PortsOf(declared) :
            LET info == InfoOf(declared, q) IN
            /\ info.dims \in Sizes
            /\ ss[q].type = SimulinkType[info.type]
            /\ ss[q].contiguous = (q[1] = "in")
            /\ ~Dynamic(info.dims) => ss[q].dims = info.dims
            /\ ~Dynamic(ss[q].dims) => ss[q].dims \in AllDims
      BY <1>1 DEF IInv, OpenInv, IsOpen
    <3>2. ASSUME NEW q \in PortsOf(declared)
          PROVE  LET info == InfoOf(declared, q) IN
                 /\ info.dims \in Sizes
                 /\ ss'[q].type = SimulinkType[info.type]
                 /\ ss'[q].contiguous = (q[1] = "in")
                 /\ ~Dynamic(info.dims) => ss'[q].dims = info.dims
                 /\ ~Dynamic(ss'[q].dims) => ss'[q].dims \in AllDims
      <4>1. CASE q = p
        <5>1. Dynamic(InfoOf(declared, p).dims)
          BY <1>2, <3>1, Zenon
        <5>2. QED  BY <1>2, <2>1, <3>1, <4>1, <5>1, Zenon
      <4>2. CASE q # p
        BY <2>1, <3>1, <4>2, Zenon
      <4>3. QED  BY <4>1, <4>2
    <3>3. QED  BY <1>1, <3>2, Zenon DEF OpenInv
  <2>4. QED  BY <1>1, <1>4, <1>5, <2>2, <2>3 DEF IInv, KnownInv, ProgramInv, CoderInv
<1>6. CASE phase' = "failed" /\ UNCHANGED ss
  BY <1>1, <1>3, <1>4, <1>6 DEF IInv, TypeInv, OpenInv, KnownInv, ProgramInv, CoderInv, Phases, IsOpen
<1>7. QED  BY <1>5, <1>6 DEF MdlSetPortDimensionInfo

LEMMA CompiledKeeps ==
  ASSUME IInv, Compiled
  PROVE  IInv'
<1>1. /\ phase = "sizes" /\ phase' \in {"simulation", "codegen"}
      /\ declared' = declared /\ ss' = ss /\ program' = program /\ coder' = coder
      /\ \A p \in DOMAIN ss : ~Dynamic(ss[p].dims)
  BY DEF Compiled
<1>2. DOMAIN ss = PortsOf(declared)
  BY DEF IInv, TypeInv
<1>3. TypeInv'
  BY <1>1 DEF IInv, TypeInv, Phases
<1>4. OpenInv'
  BY <1>1, Zenon DEF IInv, OpenInv, IsOpen
<1>5. KnownInv'
  BY <1>1, <1>2 DEF KnownInv
<1>6. ProgramInv' /\ CoderInv'
  BY <1>1 DEF IInv, ProgramInv, CoderInv
<1>7. QED  BY <1>3, <1>4, <1>5, <1>6 DEF IInv

LEMMA StopKeeps ==
  ASSUME IInv, Stop
  PROVE  IInv'
<1>1. PortsOf(Empty) = {} /\ NoPorts \in [{} -> EnginePort]
  BY NoPortsOfEmpty DEF NoPorts
<1>2. QED
  BY <1>1 DEF Stop, Reset, IInv, TypeInv, OpenInv, KnownInv, ProgramInv, CoderInv, Phases, IsOpen

LEMMA GenerateCodeKeeps ==
  ASSUME IInv, GenerateCode
  PROVE  IInv'
<1>1. /\ phase = "codegen" /\ phase' = "generated"
      /\ declared' = declared /\ ss' = ss /\ coder' = coder
      /\ program' = [i \in DOMAIN InOrder(declared) |-> PortCall(InOrder(declared)[i])]
  BY DEF GenerateCode
<1>2. TypeInv'
  BY <1>1 DEF IInv, TypeInv, Phases
<1>3. OpenInv'
  BY <1>1, Zenon DEF IInv, OpenInv, IsOpen
<1>4. KnownInv'
  BY <1>1 DEF IInv, KnownInv
<1>5. ProgramInv'
  <2>1. \A p : PortCall(p) = CallFor(ss, p)
    BY DEF PortCall, CallFor, AsMatrix
  <2>2. program' = [i \in DOMAIN InOrder(declared) |-> CallFor(ss, InOrder(declared)[i])]
    BY <1>1, <2>1
  <2>3. QED  BY <1>1, <2>2 DEF ProgramInv
<1>6. CoderInv'
  BY <1>1 DEF IInv, CoderInv
<1>7. QED  BY <1>2, <1>3, <1>4, <1>5, <1>6 DEF IInv

LEMMA StartProgramKeeps ==
  ASSUME IInv, StartProgram
  PROVE  IInv'
<1>1. /\ phase = "generated" /\ phase' = "running" /\ coder' = StoreAll(program)
      /\ declared' = declared /\ ss' = ss /\ program' = program
  BY DEF StartProgram
<1>2. TypeInv'
  BY <1>1 DEF IInv, TypeInv, Phases
<1>3. OpenInv'
  BY <1>1, Zenon DEF IInv, OpenInv, IsOpen
<1>4. KnownInv' /\ \A p \in PortsOf(declared) : ~Dynamic(ss[p].dims)
  BY <1>1 DEF IInv, KnownInv
<1>5. ProgramInv' /\ program = [i \in DOMAIN InOrder(declared) |-> CallFor(ss, InOrder(declared)[i])]
  BY <1>1 DEF IInv, ProgramInv
<1>6. CoderInv'
  <2>1. declared \in LayoutType /\ ss \in [PortsOf(declared) -> EnginePort]
    BY DeclaredIsLayout DEF IInv, TypeInv
  <2>2. /\ DOMAIN StoreAll(program) = PortsOf(declared)
        /\ \A p \in PortsOf(declared) : StoreAll(program)[p] = StoredFor(ss, p)
    BY <1>4, <1>5, <2>1, ProgramStores
  <2>3. QED  BY <1>1, <2>2 DEF CoderInv
<1>7. QED  BY <1>2, <1>3, <1>4, <1>5, <1>6 DEF IInv

LEMMA NextInv == IInv /\ [Next]_vars => IInv'
<1> SUFFICES ASSUME IInv, [Next]_vars PROVE IInv'
  OBVIOUS
<1>1. CASE UNCHANGED vars
  BY <1>1 DEF vars, IInv, TypeInv, OpenInv, KnownInv, ProgramInv, CoderInv, IsOpen
<1>2. ASSUME NEW layout \in Layouts, MdlInitializeSizes(layout) PROVE IInv'
  BY <1>2, MdlInitializeSizesKeeps
<1>3. ASSUME NEW p \in DOMAIN ss, NEW dims \in Proposals, MdlSetPortDimensionInfo(p, dims) PROVE IInv'
  BY <1>3, MdlSetPortDimensionInfoKeeps
<1>4. CASE Compiled
  BY <1>4, CompiledKeeps
<1>5. CASE Stop
  BY <1>5, StopKeeps
<1>6. CASE GenerateCode
  BY <1>6, GenerateCodeKeeps
<1>7. CASE StartProgram
  BY <1>7, StartProgramKeeps
<1>8. QED  BY <1>1, <1>2, <1>3, <1>4, <1>5, <1>6, <1>7 DEF Next

\* Whatever a block declares and the engine proposes, the ports in the SimStruct are
\* those of the last layout with their declared types, the sizes are known when they
\* must be, and the running program stored each port as Simulink had it.
THEOREM Inductive == Spec => []IInv
BY InitInv, NextInv, PTL DEF Spec

\* Every variable has its type, for any layouts and proposals.
THEOREM TypeCorrect == Spec => []TypeOK
<1>1. ASSUME IInv PROVE TypeOK
  <2>1. phase \in Phases /\ declared \in Layouts \cup {Empty} /\ DOMAIN ss = PortsOf(declared)
    BY <1>1 DEF IInv, TypeInv
  <2>2. ASSUME NEW p \in DOMAIN ss
        PROVE  Len(ss[p].dims) \in {1, 2} /\ \E t \in DataTypes : ss[p].type = SimulinkType[t]
    BY <1>1 DEF IInv, TypeInv, EnginePort, EngineTypes, Sizes
  <2>3. DOMAIN coder \subseteq PortsOf(declared)
    <3>1. CASE phase = "running"
      BY <1>1, <3>1 DEF IInv, CoderInv
    <3>2. CASE phase # "running"
      BY <1>1, <3>2 DEF IInv, CoderInv, NoPorts
    <3>3. QED  BY <3>1, <3>2
  <2>4. QED  BY <2>1, <2>2, <2>3 DEF TypeOK
<1>2. QED  BY <1>1, Inductive, PTL

\* No proposal of the engine changes a size that the block fixed, and the type of a
\* port is what the block declared, whichever of the nine it is.
THEOREM FixedPorts == Spec => []FixedPortsKept
<1>1. ASSUME IInv PROVE FixedPortsKept
  <2> SUFFICES ASSUME IsOpen, NEW p \in PortsOf(declared)
               PROVE  /\ SimulinkInfo(p).type = InfoOf(declared, p).type
                      /\ ~Dynamic(InfoOf(declared, p).dims) => SimulinkInfo(p).dims = InfoOf(declared, p).dims
    BY DEF FixedPortsKept
  <2>1. /\ ss[p].type = SimulinkType[InfoOf(declared, p).type]
        /\ ~Dynamic(InfoOf(declared, p).dims) => ss[p].dims = InfoOf(declared, p).dims
    BY <1>1, Zenon DEF IInv, OpenInv
  <2>2. declared \in LayoutType
    BY <1>1, DeclaredIsLayout DEF IInv, TypeInv
  <2>3. InfoOf(declared, p).type \in DataTypes
    BY <2>2, PortFacts
  <2>4. PortType(ss[p].type) = InfoOf(declared, p).type
    BY <2>1, <2>3, TypeComesBack
  <2>5. SimulinkInfo(p).dims = ss[p].dims /\ SimulinkInfo(p).type = PortType(ss[p].type)
    BY DEF SimulinkInfo
  <2>6. QED  BY <2>1, <2>4, <2>5
<1>2. QED  BY <1>1, Inductive, PTL

\* A block in a simulation has a signal for each of its ports, of the width of the
\* engine's buffer, and never of the format that Signal cannot read.
THEOREM SimulationSignals == Spec => []SimulationReachesSignals
<1>1. ASSUME IInv, FixedPortsKept PROVE SimulationReachesSignals
  <2> SUFFICES ASSUME phase = "simulation", NEW p \in PortsOf(declared)
               PROVE  SimulinkSignal(p) =
                        [format |-> "CONTIGUOUS_ZEROCOPY", type |-> InfoOf(declared, p).type,
                         width |-> EngineWidth(ss[p].dims), buffer |-> p]
    BY DEF SimulationReachesSignals
  <2>1. IsOpen /\ Allocated
    BY DEF IsOpen, Allocated
  <2>2. ~Dynamic(ss[p].dims) /\ ss[p].dims \in Sizes
    BY <1>1 DEF IInv, KnownInv, TypeInv, EnginePort
  <2>3. NrOfElements(ss[p].dims) = EngineWidth(ss[p].dims) /\ NrOfElements(ss[p].dims) # 0
    BY <2>2, KnownSize
  <2>4. ss[p].contiguous = (p[1] = "in")
    BY <1>1, <2>1, Zenon DEF IInv, OpenInv
  <2>5. p[1] \in {"in", "out"}
    <3>1. declared \in LayoutType
      BY <1>1, DeclaredIsLayout DEF IInv, TypeInv
    <3>2. QED  BY <3>1, PortFacts DEF Sides
  <2>6. p[1] = "out" \/ ss[p].contiguous
    BY <2>4, <2>5, Zenon
  <2>7. SimulinkInfo(p).type = InfoOf(declared, p).type
    BY <1>1, <2>1 DEF FixedPortsKept
  <2>8. SimulinkInfo(p).dims = ss[p].dims
    BY DEF SimulinkInfo
  <2>9. SimulinkSignal(p) = [format |-> "CONTIGUOUS_ZEROCOPY", type |-> SimulinkInfo(p).type,
                             width |-> NrOfElements(ss[p].dims), buffer |-> p]
    BY <2>1, <2>2, <2>3, <2>6, <2>8, Zenon DEF SimulinkSignal
  <2>10. QED  BY <2>3, <2>7, <2>9, Zenon
<1>2. QED  BY <1>1, Inductive, FixedPorts, PTL

\* What a stored port answers.
LEMMA StoredPort ==
  ASSUME IInv, phase = "running", NEW p \in PortsOf(declared)
  PROVE  LET m == AsMatrix(ss[p].dims) IN
         /\ ss[p].dims \in Sizes /\ ~Dynamic(ss[p].dims)
         /\ p \in DOMAIN coder /\ coder[p].dims = m /\ coder[p].signal.type = "DOUBLE"
         /\ CoderSignal(p) # None
         /\ CoderSignal(p).buffer = p
         /\ CoderSignal(p).width = Product(ss[p].dims)
<1> DEFINE dims == ss[p].dims
           m == AsMatrix(dims)
<1>1. dims \in Sizes /\ ~Dynamic(dims)
  BY DEF IInv, KnownInv, TypeInv, EnginePort
<1>2. p \in DOMAIN coder /\ coder[p] = StoredFor(ss, p)
  BY DEF IInv, CoderInv
<1>3. coder[p].dims = m
  BY <1>2 DEF StoredFor
<1> DEFINE signal == [format |-> "CONTIGUOUS_ZEROCOPY", type |-> "DOUBLE", width |-> Product(dims), buffer |-> p]
<1>4. coder[p].signal = signal
  BY <1>2 DEF StoredFor
<1>5. ~Dynamic(m)
  <2>1. m[1] \in Nat \ {0} /\ m[2] \in Nat \ {0}
    BY <1>1, KnownSize
  <2>2. DOMAIN m = {1, 2}
    BY DEF AsMatrix
  <2>3. QED  BY <2>1, <2>2 DEF Dynamic, DynamicSize
<1>6. CoderSignal(p) = signal
  BY <1>2, <1>3, <1>4, <1>5, Zenon DEF CoderSignal
<1>7. signal # None
  <2>1. Product(dims) \in Int
    BY <1>1, KnownSize
  <2>2. p \in Sides \X Nat
    BY DeclaredIsLayout, PortFacts DEF IInv, TypeInv
  <2>3. signal \in Signals
    BY <2>1, <2>2, TypeNames DEF Signals
  <2>4. QED  BY <2>3, PortsAssumption
<1>8. signal.buffer = p /\ signal.width = Product(dims) /\ signal.type = "DOUBLE"
  OBVIOUS
<1> HIDE DEF signal
<1>9. QED  BY <1>1, <1>2, <1>3, <1>4, <1>6, <1>7, <1>8

\* The calls at the start of the generated program store all the ports of the block,
\* each with its own buffer and the width that Simulink had: none of the returns of
\* false that nobody looks at is ever reached.
THEOREM ProgramSignals == Spec => []ProgramReachesSignals
<1>1. ASSUME IInv PROVE ProgramReachesSignals
  <2> SUFFICES ASSUME phase = "running", NEW p \in PortsOf(declared)
               PROVE  /\ CoderSignal(p) # None
                      /\ CoderSignal(p).buffer = p
                      /\ CoderSignal(p).width = EngineWidth(ss[p].dims)
    BY DEF ProgramReachesSignals
  <2>1. /\ ss[p].dims \in Sizes /\ ~Dynamic(ss[p].dims)
        /\ CoderSignal(p) # None /\ CoderSignal(p).buffer = p
        /\ CoderSignal(p).width = Product(ss[p].dims)
    BY <1>1, StoredPort
  <2>2. QED  BY <2>1, KnownSize
<1>2. QED  BY <1>1, Inductive, PTL

-----------------------------------------------------------------------------
(* The contract *)

\* The answers about a port whose size is known, in Simulink and in the program.
Known(p) == IsOpen /\ p \in DOMAIN ss /\ ~Dynamic(ss[p].dims)

KnownInfo(p) == [dims |-> ss[p].dims, type |-> PortType(ss[p].type)]

ToldAnswers ==
  \A p : Told(p) = IF ~Known(p) THEN None
                   ELSE IF phase = "running" THEN Contract!InProgram(ss[p].dims)
                   ELSE Contract!InSimulink(KnownInfo(p))

SimulinkAnswers == {Contract!InSimulink(info) : info \in KnownInfos}

\* What is told in Simulink is about a size that somebody asked for.
AskedFor == phase # "running" => \A p : Told(p) \in SimulinkAnswers \cup {None}

LEMMA TypeIsKnown == \A id : PortType(id) \in DataTypes
<1> SUFFICES ASSUME NEW id PROVE PortType(id) \in DataTypes
  OBVIOUS
<1>1. "DOUBLE" \in DataTypes
  BY TypeNames
<1>2. QED  BY <1>1 DEF PortType

\* The program's matrix and the number of elements, as the contract states them.
LEMMA SizesOfContract ==
  ASSUME NEW dims \in Sizes, ~Dynamic(dims)
  PROVE  /\ Contract!AsMatrix(dims) = AsMatrix(dims)
         /\ AsMatrix(dims) = <<AsMatrix(dims)[1], AsMatrix(dims)[2]>>
         /\ Contract!Elements(dims) = Product(dims)
<1>1. /\ Len(dims) \in {1, 2}
      /\ Len(dims) = 2 => dims = <<dims[1], dims[2]>>
  BY SizeFacts
<1>2. Contract!AsMatrix(dims) = AsMatrix(dims)
  BY <1>1 DEF Contract!AsMatrix, AsMatrix
<1>3. AsMatrix(dims) = <<AsMatrix(dims)[1], AsMatrix(dims)[2]>>
  BY DEF AsMatrix
<1>4. Contract!Elements(dims) = Product(dims)
  <2>1. dims \in Seq(Int)
    BY SizeFacts
  <2>2. QED  BY <1>1, <2>1, ProductOfSizes DEF Contract!Elements
<1>5. QED  BY <1>2, <1>3, <1>4

LEMMA ToldInv == IInv => ToldAnswers
<1> SUFFICES ASSUME IInv, NEW p
             PROVE  Told(p) = IF ~Known(p) THEN None
                              ELSE IF phase = "running" THEN Contract!InProgram(ss[p].dims)
                              ELSE Contract!InSimulink(KnownInfo(p))
  BY DEF ToldAnswers
<1>1. CASE ~Known(p)
  BY <1>1 DEF Told, Known
<1>2. CASE Known(p)
  <2> DEFINE dims == ss[p].dims
  <2>1. p \in PortsOf(declared) /\ dims \in Sizes /\ ~Dynamic(dims)
    BY <1>2 DEF IInv, TypeInv, EnginePort, Known
  <2>2. /\ Contract!AsMatrix(dims) = AsMatrix(dims)
        /\ AsMatrix(dims) = <<AsMatrix(dims)[1], AsMatrix(dims)[2]>>
        /\ Contract!Elements(dims) = Product(dims)
    BY <2>1, SizesOfContract
  <2>3. NrOfElements(dims) = Product(dims)
    BY <2>1, KnownSize
  <2>4. CASE phase # "running"
    <3>1. SimulinkInfo(p) = KnownInfo(p) /\ KnownInfo(p).dims = dims
      BY DEF SimulinkInfo, KnownInfo
    <3>2. /\ SimulinkWidth(p) = IF Len(dims) = 1 THEN dims[1] ELSE None
          /\ SimulinkMatrixSize(p) = IF Len(dims) = 2 THEN <<dims[1], dims[2]>> ELSE None
      BY <3>1 DEF SimulinkWidth, SimulinkMatrixSize
    <3>3. Len(dims) = 2 => <<dims[1], dims[2]>> = dims
      BY <2>1, SizeFacts
    <3>4. Told(p) = [dims     |-> SimulinkInfo(p).dims,
                     type     |-> SimulinkInfo(p).type,
                     width    |-> SimulinkWidth(p),
                     matrix   |-> SimulinkMatrixSize(p),
                     elements |-> NrOfElements(dims)]
      BY <1>2, <2>4, Zenon DEF Told, Known
    <3>5. (IF Len(dims) = 2 THEN <<dims[1], dims[2]>> ELSE None) = (IF Len(dims) = 2 THEN dims ELSE None)
      BY <3>3
    <3>6. Contract!InSimulink(KnownInfo(p))
            = [dims     |-> KnownInfo(p).dims,
               type     |-> KnownInfo(p).type,
               width    |-> IF Len(dims) = 1 THEN dims[1] ELSE None,
               matrix   |-> IF Len(dims) = 2 THEN dims ELSE None,
               elements |-> Contract!Elements(dims)]
      BY <3>1, Zenon DEF Contract!InSimulink
    <3>7. Told(p) = Contract!InSimulink(KnownInfo(p))
      BY <2>2, <2>3, <3>1, <3>2, <3>4, <3>5, <3>6, Zenon
    <3>8. QED  BY <1>2, <2>4, <3>7, Zenon
  <2>5. CASE phase = "running"
    <3> DEFINE m == AsMatrix(dims)
    <3>1. /\ p \in DOMAIN coder /\ coder[p].dims = m /\ coder[p].signal.type = "DOUBLE"
          /\ CoderSignal(p).width = Product(dims)
      BY <2>1, <2>5, StoredPort
    <3> HIDE DEF m
    <3>2. CoderWidth(p) = m[2] /\ CoderMatrixSize(p) = <<m[1], m[2]>>
      BY <3>1 DEF CoderWidth, CoderMatrixSize
    <3>3. CoderInfo(p).dims = m /\ CoderInfo(p).type = "DOUBLE"
      BY <3>1 DEF CoderInfo
    <3>4. Told(p) = [dims     |-> CoderInfo(p).dims,
                     type     |-> CoderInfo(p).type,
                     width    |-> CoderWidth(p),
                     matrix   |-> CoderMatrixSize(p),
                     elements |-> CoderSignal(p).width]
      BY <1>2, <2>5, Zenon DEF Told, Known
    <3>5. Contract!InProgram(dims)
            = [dims |-> m, type |-> "DOUBLE", width |-> m[2], matrix |-> m, elements |-> Product(dims)]
      BY <2>2, Zenon DEF Contract!InProgram, m
    <3>6. <<m[1], m[2]>> = m
      BY <2>2 DEF m
    <3>7. Told(p) = Contract!InProgram(dims)
      BY <3>1, <3>2, <3>3, <3>4, <3>5, <3>6, Zenon
    <3>8. QED  BY <1>2, <2>5, <3>7, Zenon
  <2>6. QED  BY <2>4, <2>5
<1>3. QED  BY <1>1, <1>2

LEMMA ToldIsAsked == IInv => AskedFor
<1> SUFFICES ASSUME IInv, phase # "running", NEW p PROVE Told(p) \in SimulinkAnswers \cup {None}
  BY DEF AskedFor
<1>1. Told(p) = IF ~Known(p) THEN None
                ELSE IF phase = "running" THEN Contract!InProgram(ss[p].dims)
                ELSE Contract!InSimulink(KnownInfo(p))
  BY ToldInv DEF ToldAnswers
<1>2. CASE Known(p)
  <2>1. Told(p) = Contract!InSimulink(KnownInfo(p))
    BY <1>1, <1>2, Zenon
  <2>2. p \in PortsOf(declared) /\ ss[p].dims \in Sizes
    BY <1>2 DEF IInv, TypeInv, EnginePort, Known
  <2>3. ss[p].dims \in AllDims
    BY <1>2, <2>2, Zenon DEF IInv, OpenInv, Known
  <2>4. Len(ss[p].dims) \in {1, 2} /\ ~Dynamic(ss[p].dims)
    BY <1>2, <2>2 DEF Sizes, Known
  <2>5. KnownInfo(p) \in KnownInfos
    BY <2>3, <2>4, TypeIsKnown DEF KnownInfos, KnownInfo
  <2>6. QED  BY <2>1, <2>5, Zenon DEF SimulinkAnswers
<1>3. CASE ~Known(p)
  BY <1>1, <1>3
<1>4. QED  BY <1>2, <1>3

\* An answer is not the refusal of one.
LEMMA KnownIsTold ==
  ASSUME NEW info, info.dims \in Sizes, ~Dynamic(info.dims), info.type \in DataTypes
  PROVE  Contract!InSimulink(info) # None /\ Contract!InSimulink(info).dims = info.dims
<1> DEFINE dims == info.dims
           w == IF Len(dims) = 1 THEN dims[1] ELSE None
           s == IF Len(dims) = 2 THEN dims ELSE None
           e == Contract!Elements(dims)
<1>1. Contract!InSimulink(info) = [dims |-> dims, type |-> info.type, width |-> w, matrix |-> s, elements |-> e]
  BY DEF Contract!InSimulink
<1>2. dims \in Seq(Int) /\ w \in Int \cup {None} /\ s \in Seq(Int) \cup {None}
  BY SizeFacts
<1>3. e \in Int
  <2>1. e = Product(dims)
    BY SizesOfContract
  <2>2. QED  BY <2>1, KnownSize
<1> HIDE DEF dims, w, s, e
<1>4. Contract!InSimulink(info) \in [dims : Seq(Int), type : DataTypes, width : Int \cup {None},
                                     matrix : Seq(Int) \cup {None}, elements : Int]
  BY <1>1, <1>2, <1>3
<1>5. Contract!InSimulink(info).dims = dims
  BY <1>1
<1>6. QED  BY <1>4, <1>5, PortsAssumption, Zenon DEF dims

LEMMA ContractInit == Init => Contract!Init
<1> SUFFICES ASSUME Init PROVE Contract!Init
  OBVIOUS
<1>1. ~IsOpen
  BY DEF Init, IsOpen
<1>2. \A p : Told(p) = None
  BY <1>1 DEF Told
<1>3. QED  BY <1>1, <1>2 DEF Contract!Init, Contract!Closed

ContractStep == [Contract!Next]_Contract!vars

\* A step that changes nothing a block is told.
LEMMA NothingNew ==
  ASSUME ToldAnswers, ToldAnswers', IsOpen' = IsOpen,
         (phase = "running") = (phase' = "running"),
         IsOpen => UNCHANGED ss
  PROVE  ContractStep
<1>1. \A p : Told(p)' = Told(p)
  BY DEF ToldAnswers, Known, KnownInfo
<1>2. [p \in AllPorts |-> Told(p)]' = [p \in AllPorts |-> Told(p)]
  BY <1>1 DEF AllPorts
<1>3. QED  BY <1>2 DEF ContractStep, Contract!vars

LEMMA ClosingStep ==
  ASSUME ToldAnswers', IsOpen, ~IsOpen'
  PROVE  ContractStep
<1>1. \A p : Told(p)' = None
  BY DEF ToldAnswers, Known
<1>2. [p \in AllPorts |-> Told(p)]' = [p \in AllPorts |-> None]
  BY <1>1
<1>3. Contract!Close
  BY <1>2 DEF Contract!Close, Contract!Closed
<1>4. QED  BY <1>3 DEF ContractStep, Contract!Next

LEMMA OpeningStep ==
  ASSUME AskedFor', ~IsOpen, IsOpen', phase' # "running"
  PROVE  ContractStep
<1>1. SimulinkAnswers' = SimulinkAnswers
  OBVIOUS
<1>2. \A p : Told(p)' \in SimulinkAnswers \cup {None}
  BY <1>1 DEF AskedFor
<1>3. [p \in AllPorts |-> Told(p)]' \in [AllPorts -> SimulinkAnswers \cup {None}]
  BY <1>2
<1>4. Contract!Open
  BY <1>3 DEF Contract!Open, SimulinkAnswers
<1>5. QED  BY <1>4 DEF ContractStep, Contract!Next

\* The program: every answer that was known is replaced by the program's.
LEMMA DeployingStep ==
  ASSUME IInv, ToldAnswers, ToldAnswers', phase = "generated", phase' = "running", ss' = ss
  PROVE  ContractStep
<1>1. IsOpen /\ IsOpen'
  BY DEF IsOpen
<1>2. ASSUME NEW p
      PROVE  Told(p)' = IF Told(p) = None THEN None ELSE Contract!InProgram(Told(p).dims)
  <2>1. CASE Known(p)
    <3>1. Told(p) = Contract!InSimulink(KnownInfo(p))
      BY <2>1 DEF ToldAnswers
    <3>2. /\ KnownInfo(p).dims = ss[p].dims /\ KnownInfo(p).type \in DataTypes
          /\ ss[p].dims \in Sizes /\ ~Dynamic(ss[p].dims)
      BY <2>1, TypeIsKnown DEF KnownInfo, Known, IInv, TypeInv, EnginePort
    <3>3. Told(p) # None /\ Told(p).dims = ss[p].dims
      BY <3>1, <3>2, KnownIsTold
    <3>4. Told(p)' = Contract!InProgram(ss[p].dims)
      BY <1>1, <2>1 DEF ToldAnswers, Known
    <3>5. QED  BY <3>3, <3>4
  <2>2. CASE ~Known(p)
    <3>1. Told(p) = None
      BY <2>2 DEF ToldAnswers
    <3>2. Told(p)' = None
      BY <1>1, <2>2 DEF ToldAnswers, Known
    <3>3. QED  BY <3>1, <3>2
  <2>3. QED  BY <2>1, <2>2
<1> DEFINE seen == [p \in AllPorts |-> Told(p)]
<1>3. seen' = [p \in AllPorts |-> IF seen[p] = None THEN None ELSE Contract!InProgram(seen[p].dims)]
  BY <1>2
<1>4. Contract!Deploy
  BY <1>1, <1>3 DEF Contract!Deploy
<1>5. QED  BY <1>4 DEF ContractStep, Contract!Next

LEMMA LearningStep ==
  ASSUME IInv, ToldAnswers, ToldAnswers', NEW p \in DOMAIN ss, NEW dims \in Proposals,
         phase = "sizes", phase' = "sizes", Accepts(p, dims), ss' = [ss EXCEPT ![p].dims = dims]
  PROVE  ContractStep
<1>1. IsOpen /\ IsOpen'
  BY DEF IsOpen
<1>2. /\ p \in PortsOf(declared) /\ Dynamic(ss[p].dims)
      /\ dims \in Sizes /\ ~Dynamic(dims) /\ dims \in AllDims
  BY ProposalFacts
<1>3. /\ DOMAIN ss' = DOMAIN ss /\ ss'[p].dims = dims /\ ss'[p].type = ss[p].type
      /\ \A q \in DOMAIN ss : q # p => ss'[q] = ss[q]
  <2>1. ss \in [PortsOf(declared) -> EnginePort]
    BY DEF IInv, TypeInv
  <2> DEFINE new == [ss EXCEPT ![p].dims = dims]
  <2>2. /\ new \in [PortsOf(declared) -> EnginePort]
        /\ new[p].dims = dims /\ new[p].type = ss[p].type /\ new[p].contiguous = ss[p].contiguous
        /\ \A q \in PortsOf(declared) : q # p => new[q] = ss[q]
    BY <1>2, <2>1, SizeReplaced, Zenon
  <2>3. ss' = new
    OBVIOUS
  <2> HIDE DEF new
  <2>4. QED  BY <2>1, <2>2, <2>3
<1> DEFINE info == [dims |-> dims, type |-> PortType(ss[p].type)]
<1>4. Told(p) = None /\ Told(p)' = Contract!InSimulink(info)
  BY <1>1, <1>2, <1>3 DEF ToldAnswers, Known, KnownInfo
<1>5. ASSUME NEW q, q # p PROVE Told(q)' = Told(q)
  <2>1. q \in DOMAIN ss => ss'[q].dims = ss[q].dims /\ ss'[q].type = ss[q].type
    BY <1>3, <1>5
  <2>2. Known(q)' = Known(q)
    BY <1>1, <1>3, <2>1 DEF Known
  <2>3. Known(q) => KnownInfo(q)' = KnownInfo(q)
    BY <2>1 DEF Known, KnownInfo
  <2>4. /\ Told(q) = IF Known(q) THEN Contract!InSimulink(KnownInfo(q)) ELSE None
        /\ Told(q)' = IF Known(q)' THEN Contract!InSimulink(KnownInfo(q)') ELSE None
    BY DEF ToldAnswers
  <2>5. QED  BY <2>2, <2>3, <2>4
<1>6. p \in AllPorts
  <2>1. declared \in Layouts \/ declared = Empty
    BY DEF IInv, TypeInv
  <2>2. declared \in Layouts
    BY <1>2, <2>1, NoPortsOfEmpty
  <2>3. QED  BY <1>2, <2>2 DEF AllPorts
<1>7. info \in KnownInfos
  BY <1>2, TypeIsKnown DEF KnownInfos, Sizes
<1> HIDE DEF info
<1> DEFINE seen == [q \in AllPorts |-> Told(q)]
<1>8. seen' = [seen EXCEPT ![p] = Contract!InSimulink(info)] /\ seen[p] = None
  BY <1>4, <1>5, <1>6
<1>9. Contract!Learn(p)
  BY <1>1, <1>7, <1>8 DEF Contract!Learn
<1>10. QED  BY <1>6, <1>9 DEF ContractStep, Contract!Next

LEMMA ContractNext ==
  ASSUME IInv, IInv', ToldAnswers, ToldAnswers', AskedFor', [Next]_vars
  PROVE  ContractStep
<1>1. CASE UNCHANGED vars
  BY <1>1, NothingNew DEF vars, IsOpen
<1>2. ASSUME NEW layout \in Layouts, MdlInitializeSizes(layout) PROVE ContractStep
  <2>1. phase = "edit" /\ phase' \in {"sizes", "failed"}
    BY <1>2 DEF MdlInitializeSizes
  <2>2. CASE phase' = "sizes"
    BY <2>1, <2>2, OpeningStep DEF IsOpen
  <2>3. CASE phase' = "failed"
    BY <2>1, <2>3, NothingNew DEF IsOpen
  <2>4. QED  BY <2>1, <2>2, <2>3
<1>3. ASSUME NEW p \in DOMAIN ss, NEW dims \in Proposals, MdlSetPortDimensionInfo(p, dims) PROVE ContractStep
  <2>1. CASE ss' = [ss EXCEPT ![p].dims = dims] /\ UNCHANGED phase
    BY <1>3, <2>1, LearningStep DEF MdlSetPortDimensionInfo
  <2>2. CASE phase' = "failed"
    BY <1>3, <2>2, ClosingStep DEF MdlSetPortDimensionInfo, IsOpen
  <2>3. QED  BY <1>3, <2>1, <2>2 DEF MdlSetPortDimensionInfo
<1>4. CASE Compiled \/ GenerateCode
  <2>1. ss' = ss /\ IsOpen /\ IsOpen' /\ phase # "running" /\ phase' # "running"
    BY <1>4 DEF Compiled, GenerateCode, IsOpen
  <2>2. QED  BY <2>1, NothingNew
<1>5. CASE StartProgram
  BY <1>5, DeployingStep DEF StartProgram
<1>6. CASE Stop
  <2>1. ~IsOpen' /\ phase' # "running"
    BY <1>6 DEF Stop, Reset, IsOpen
  <2>2. CASE IsOpen
    BY <2>1, <2>2, ClosingStep
  <2>3. CASE ~IsOpen
    BY <2>1, <2>3, NothingNew DEF IsOpen
  <2>4. QED  BY <2>2, <2>3
<1>7. QED  BY <1>1, <1>2, <1>3, <1>4, <1>5, <1>6 DEF Next

\* No answer of any getter about a port changes once its size is known, from the sizes to
\* the end of the simulation, nor while the program runs; and the program answers what
\* the contract says for the size that Simulink had.
THEOREM KeepsContract == Spec => ImplementsContract
<1>1. IInv => ToldAnswers /\ AskedFor
  BY ToldInv, ToldIsAsked
<1>2. IInv /\ IInv' /\ ToldAnswers /\ ToldAnswers' /\ AskedFor' /\ [Next]_vars
        => [Contract!Next]_Contract!vars
  BY ContractNext DEF ContractStep
<1>3. QED  BY <1>1, <1>2, ContractInit, Inductive, PTL DEF Spec, ImplementsContract, Contract!Spec

\* What the contract leaves a block that runs at both ends: the width, the matrix size
\* and the number of elements that Simulink answered are the program's answers too.
LEMMA AnswersThatStay ==
  ASSUME NEW info \in KnownInfos, info.dims \in Sizes
  PROVE  LET before == Contract!InSimulink(info)
             after  == Contract!InProgram(info.dims)
         IN /\ before.width # None => after.width = before.width
            /\ before.matrix # None => after.matrix = before.matrix
            /\ after.elements = before.elements
<1> DEFINE dims == info.dims
<1>1. Contract!AsMatrix(dims) = IF Len(dims) = 1 THEN <<1, dims[1]>> ELSE dims
  BY DEF Contract!AsMatrix
<1>2. Len(dims) = 1 => Contract!AsMatrix(dims)[2] = dims[1]
  BY <1>1
<1>3. Len(dims) = 2 => Contract!AsMatrix(dims) = dims
  BY <1>1
<1>4. QED  BY <1>2, <1>3 DEF Contract!InSimulink, Contract!InProgram
=============================================================================
