--------------------------- MODULE ParameterProofs ---------------------------
(***************************************************************************)
(* Proofs about Parameters and ParameterPipeline, for any parameters that  *)
(* a block may declare, any mask and any number of calls.                  *)
(*                                                                         *)
(* The first part is about one core::Parameters object: what a store does  *)
(* to the map from names to parameters that its maps stand for.  The       *)
(* second part follows that map from the mask to the generated program.    *)
(***************************************************************************)
EXTENDS ParameterPipeline, SequenceTheorems, IntervalInduction

Parameter == [isScalar : BOOLEAN, data : Seq(Int), md : Metadatas]

NamesIn(ps) == DOMAIN ps.nameToType

\* The parameter that is stored for p.
Converted(p) == [p EXCEPT !.data = [i \in DOMAIN p.data |-> Cast(p.md.elem, p.data[i])]]

\* The numbers of p are of its element type.
Settled(p) ==
  \A i \in DOMAIN p.data :
    (p.md.elem = "INT" => p.data[i] % 2 = 0) /\ (p.md.elem = "BOOL" => p.data[i] \in {0, 2})

\* What the code relies on in a Parameters object.
StoreInv(ps) ==
  /\ DOMAIN ps.maps = Elems
  /\ IsFiniteSet(NamesIn(ps))
  /\ DOMAIN ps.nameToIndex = NamesIn(ps)
  /\ \A name \in NamesIn(ps) : ps.nameToType[name].elem \in Elems
  /\ \A e \in Elems : DOMAIN ps.maps[e] = {name \in NamesIn(ps) : ps.nameToType[name].elem = e}
  /\ \A e \in Elems : \A name \in DOMAIN ps.maps[e] :
       LET p == ps.maps[e][name] IN
       /\ p \in Parameter /\ p.md.name = name /\ p.md.elem = e
       /\ Settled(p) /\ ~TwoDimensional(p)
       /\ ps.nameToIndex[name] = p.md.index /\ p.md.index \in DOMAIN ps.indexToName
  /\ \A i \in DOMAIN ps.indexToName :
       ps.indexToName[i] \in DOMAIN ps.nameToIndex /\ ps.nameToIndex[ps.indexToName[i]] = i

-----------------------------------------------------------------------------
(* One Parameters object *)

\* The map of a name's type has it, and no other map.
LEMMA LookupStored ==
  ASSUME NEW ps, StoreInv(ps), NEW name
  PROVE  /\ ExistName(ps, name) <=> name \in NamesIn(ps)
         /\ name \in NamesIn(ps) =>
              LET p == Lookup(ps, name) IN
              /\ p \in Parameter /\ p.md.name = name /\ p.md.elem = ps.nameToType[name].elem
              /\ Settled(p) /\ ~TwoDimensional(p)
              /\ ps.nameToIndex[name] = p.md.index
<1>1. ExistName(ps, name) <=> name \in NamesIn(ps)
  BY DEF StoreInv, ExistName
<1>2. ASSUME name \in NamesIn(ps)
      PROVE  /\ ps.nameToType[name].elem \in Elems
             /\ name \in DOMAIN ps.maps[ps.nameToType[name].elem]
  BY <1>2 DEF StoreInv
<1>3. QED  BY <1>1, <1>2 DEF StoreInv, Lookup

\* What is cast once is not changed by another cast.
LEMMA CastSettles ==
  ASSUME NEW e \in Elems, NEW v \in Int
  PROVE  /\ Cast(e, v) \in Int
         /\ e = "INT" => Cast(e, v) % 2 = 0
         /\ e = "BOOL" => Cast(e, v) \in {0, 2}
         /\ (e = "INT" => v % 2 = 0) /\ (e = "BOOL" => v \in {0, 2}) => Cast(e, v) = v
<1>1. v \div 2 \in Int /\ (2 * (v \div 2)) % 2 = 0 /\ (v % 2 = 0 => 2 * (v \div 2) = v)
  OBVIOUS
<1>2. QED  BY <1>1 DEF Cast, Elems

LEMMA ConvertedIsSettled ==
  ASSUME NEW p \in Parameter
  PROVE  /\ Converted(p) \in Parameter /\ Settled(Converted(p))
         /\ Converted(p).md = p.md /\ Converted(p).isScalar = p.isScalar
         /\ Len(Converted(p).data) = Len(p.data)
         /\ Settled(p) => Converted(p) = p
<1> DEFINE d == [i \in DOMAIN p.data |-> Cast(p.md.elem, p.data[i])]
<1>1. /\ p.data \in Seq(Int) /\ p.md \in Metadatas /\ p.md.elem \in Elems /\ p.isScalar \in BOOLEAN
      /\ p = [isScalar |-> p.isScalar, data |-> p.data, md |-> p.md]
  BY DEF Parameter, Metadatas
<1>2. \A i \in DOMAIN p.data : p.data[i] \in Int
  BY <1>1, ElementOfSeq, LenProperties
<1>3. \A i \in DOMAIN p.data : Cast(p.md.elem, p.data[i]) \in Int
  BY <1>1, <1>2, CastSettles
<1>4. d \in Seq(Int) /\ Len(d) = Len(p.data) /\ DOMAIN d = DOMAIN p.data
  BY <1>1, <1>3, LenProperties, IsASeq
<1>5. Converted(p) = [isScalar |-> p.isScalar, data |-> d, md |-> p.md]
  BY <1>1 DEF Converted
<1>6. Settled(Converted(p))
  BY <1>1, <1>2, <1>4, <1>5, CastSettles DEF Settled
<1>7. ASSUME Settled(p) PROVE Converted(p) = p
  <2>1. \A i \in DOMAIN p.data : Cast(p.md.elem, p.data[i]) = p.data[i]
    BY <1>1, <1>2, <1>7, CastSettles DEF Settled
  <2>2. d = p.data
    BY <2>1, <1>1
  <2>3. QED  BY <1>1, <1>5, <2>2
<1>8. QED  BY <1>1, <1>4, <1>5, <1>6, <1>7 DEF Parameter

LEMMA EmptyStore == StoreInv(NoParameters) /\ NamesIn(NoParameters) = {}
<1>1. DOMAIN NoEntries = {}
  BY DEF NoEntries
<1>2. QED  BY <1>1, FS_EmptySet DEF NoParameters, StoreInv, NamesIn

\* A store adds its parameter under its name, or nothing.
LEMMA StoreAdds ==
  ASSUME NEW ps, StoreInv(ps), NEW p \in Parameter, Storable(ps, p)
  PROVE  LET qs == StoreParameter(ps, p) IN
         /\ StoreInv(qs)
         /\ p.md.name \notin NamesIn(ps)
         /\ NamesIn(qs) = NamesIn(ps) \cup {p.md.name}
         /\ Lookup(qs, p.md.name) = Converted(p)
         /\ \A name \in NamesIn(ps) : Lookup(qs, name) = Lookup(ps, name)
<1> DEFINE qs == StoreParameter(ps, p)
           n  == p.md.name
           el == p.md.elem
           c  == Converted(p)
           ty == [shape |-> p.md.shape, elem |-> el]
<1>1. p.md \in Metadatas /\ el \in Elems /\ ty.elem = el
  BY DEF Parameter, Metadatas
<1>2. n \notin NamesIn(ps) /\ ~TwoDimensional(p)
  BY LookupStored DEF Storable
<1>3. /\ c \in Parameter /\ Settled(c) /\ c.md = p.md /\ c.isScalar = p.isScalar
      /\ Len(c.data) = Len(p.data) /\ ~TwoDimensional(c)
  BY <1>2, ConvertedIsSettled DEF TwoDimensional
<1>4. /\ qs.maps = [ps.maps EXCEPT ![el] = Put(ps.maps[el], n, c)]
      /\ qs.nameToType = Put(ps.nameToType, n, ty)
      /\ qs.nameToIndex = Put(ps.nameToIndex, n, p.md.index)
      /\ qs.indexToName = Put(ps.indexToName, p.md.index, n)
  BY DEF StoreParameter, Converted
<1> HIDE DEF qs, c, ty, n, el
<1>5. /\ NamesIn(qs) = NamesIn(ps) \cup {n}
      /\ qs.nameToType[n].elem = el
      /\ \A m \in NamesIn(ps) : qs.nameToType[m] = ps.nameToType[m]
  BY <1>1, <1>2, <1>4 DEF Put, NamesIn
<1>6. /\ DOMAIN qs.maps = Elems
      /\ DOMAIN qs.maps[el] = DOMAIN ps.maps[el] \cup {n}
      /\ qs.maps[el][n] = c
      /\ \A m \in DOMAIN ps.maps[el] : qs.maps[el][m] = ps.maps[el][m]
      /\ \A e \in Elems : e # el => qs.maps[e] = ps.maps[e]
  <2>1. DOMAIN ps.maps = Elems /\ n \notin DOMAIN ps.maps[el]
    BY <1>1, <1>2 DEF StoreInv
  <2>2. qs.maps[el] = Put(ps.maps[el], n, c)
    BY <1>1, <1>4, <2>1
  <2>3. /\ DOMAIN qs.maps[el] = DOMAIN ps.maps[el] \cup {n} /\ qs.maps[el][n] = c
        /\ \A m \in DOMAIN ps.maps[el] : qs.maps[el][m] = ps.maps[el][m]
    BY <2>1, <2>2 DEF Put
  <2>4. QED  BY <1>4, <2>1, <2>3
<1>7. /\ DOMAIN qs.nameToIndex = NamesIn(qs)
      /\ qs.nameToIndex[n] = p.md.index
      /\ \A m \in NamesIn(ps) : qs.nameToIndex[m] = ps.nameToIndex[m]
  <2>1. DOMAIN ps.nameToIndex = NamesIn(ps)
    BY DEF StoreInv
  <2>2. QED  BY <1>2, <1>4, <1>5, <2>1 DEF Put
<1>8. /\ DOMAIN qs.indexToName = DOMAIN ps.indexToName \cup {p.md.index}
      /\ qs.indexToName[p.md.index] = n
      /\ \A i \in DOMAIN ps.indexToName : i # p.md.index => qs.indexToName[i] = ps.indexToName[i]
  BY <1>4 DEF Put
<1>9. \A m \in NamesIn(ps) : ps.nameToType[m].elem \in Elems /\ m \in DOMAIN ps.maps[ps.nameToType[m].elem]
  BY DEF StoreInv
<1>10. Lookup(qs, n) = c
  BY <1>5, <1>6 DEF Lookup
<1>11. ASSUME NEW m \in NamesIn(ps) PROVE Lookup(qs, m) = Lookup(ps, m)
  BY <1>5, <1>6, <1>9 DEF Lookup
<1>12. StoreInv(qs)
  <2>1. DOMAIN qs.maps = Elems /\ DOMAIN qs.nameToIndex = NamesIn(qs)
    BY <1>6, <1>7
  <2>2. IsFiniteSet(NamesIn(qs))
    BY <1>5, FS_AddElement DEF StoreInv
  <2>3. \A m \in NamesIn(qs) : qs.nameToType[m].elem \in Elems
    BY <1>1, <1>5, <1>9
  <2>4. ASSUME NEW e \in Elems
        PROVE  DOMAIN qs.maps[e] = {m \in NamesIn(qs) : qs.nameToType[m].elem = e}
    <3>1. DOMAIN ps.maps[e] = {m \in NamesIn(ps) : ps.nameToType[m].elem = e}
      BY DEF StoreInv
    <3>2. CASE e = el  BY <1>2, <1>5, <1>6, <3>1, <3>2
    <3>3. CASE e # el  BY <1>2, <1>5, <1>6, <3>1, <3>3
    <3>4. QED  BY <3>2, <3>3
  <2>5. ASSUME NEW e \in Elems, NEW m \in DOMAIN qs.maps[e]
        PROVE  LET q == qs.maps[e][m] IN
               /\ q \in Parameter /\ q.md.name = m /\ q.md.elem = e
               /\ Settled(q) /\ ~TwoDimensional(q)
               /\ qs.nameToIndex[m] = q.md.index /\ q.md.index \in DOMAIN qs.indexToName
    <3>1. CASE e = el /\ m = n
      BY <1>3, <1>6, <1>7, <1>8, <3>1 DEF n, el
    <3>2. CASE ~(e = el /\ m = n)
      <4>1. m \in DOMAIN ps.maps[e] /\ qs.maps[e][m] = ps.maps[e][m] /\ m \in NamesIn(ps)
        BY <1>6, <3>2 DEF StoreInv
      <4>2. qs.nameToIndex[m] = ps.nameToIndex[m] /\ DOMAIN ps.indexToName \subseteq DOMAIN qs.indexToName
        BY <1>7, <1>8, <4>1
      <4>3. QED  BY <4>1, <4>2 DEF StoreInv
    <3>3. QED  BY <3>1, <3>2
  <2>6. ASSUME NEW i \in DOMAIN qs.indexToName
        PROVE  /\ qs.indexToName[i] \in DOMAIN qs.nameToIndex
               /\ qs.nameToIndex[qs.indexToName[i]] = i
    <3>1. CASE i = p.md.index
      BY <1>5, <1>7, <1>8, <3>1
    <3>2. CASE i # p.md.index
      <4>1. i \in DOMAIN ps.indexToName /\ qs.indexToName[i] = ps.indexToName[i]
        BY <1>8, <3>2
      <4>2. ps.indexToName[i] \in NamesIn(ps) /\ ps.nameToIndex[ps.indexToName[i]] = i
        BY <4>1 DEF StoreInv
      <4>3. QED  BY <1>5, <1>7, <4>1, <4>2
    <3>3. QED  BY <3>1, <3>2
  <2>7. QED  BY <2>1, <2>2, <2>3, <2>4, <2>5, <2>6 DEF StoreInv
<1>13. QED  BY <1>2, <1>5, <1>10, <1>11, <1>12 DEF qs, n, c

LEMMA StoreRefuses ==
  ASSUME NEW ps, NEW p, ~Storable(ps, p)
  PROVE  StoreParameter(ps, p) = ps
BY DEF StoreParameter

\* StoreAll is the last of a run of stores.
LEMMA StoreRun ==
  ASSUME NEW ps, NEW s, Len(s) \in Nat
  PROVE  \E run : /\ DOMAIN run = 0..Len(s) /\ run[0] = ps
                  /\ \A i \in 1..Len(s) : run[i] = StoreParameter(run[i - 1], s[i])
                  /\ StoreAll(ps, s) = run[Len(s)]
<1> DEFINE N == Len(s)
           IsRun(n, r) == /\ DOMAIN r = 0..n /\ r[0] = ps
                          /\ \A i \in 1..n : r[i] = StoreParameter(r[i - 1], s[i])
           P == {n \in 0..N : \E r : IsRun(n, r)}
           Def(g) == g = [i \in 0..N |-> IF i = 0 THEN ps ELSE StoreParameter(g[i - 1], s[i])]
<1> HIDE DEF N
<1>1. N \in Nat
  BY DEF N
<1>2. 0 \in P
  <2>1. IsRun(0, [i \in 0..0 |-> ps])
    OBVIOUS
  <2>2. 0 \in 0..N
    BY <1>1
  <2> HIDE DEF IsRun
  <2>3. QED  BY <2>1, <2>2
<1>3. ASSUME NEW n \in 1..N, n - 1 \in P PROVE n \in P
  <2>1. PICK r : IsRun(n - 1, r)
    BY <1>3
  <2> DEFINE q == [i \in 0..n |-> IF i = n THEN StoreParameter(r[n - 1], s[n]) ELSE r[i]]
  <2>2. DOMAIN q = 0..n /\ q[0] = ps
    BY <1>1, <2>1
  <2>3. ASSUME NEW i \in 1..n PROVE q[i] = StoreParameter(q[i - 1], s[i])
    <3>1. i \in 0..n /\ i - 1 \in 0..n /\ i - 1 # n /\ q[i - 1] = r[i - 1]
      BY <1>1
    <3>2. CASE i = n  BY <3>1, <3>2
    <3>3. CASE i # n
      <4>1. i \in 1..(n - 1)
        BY <1>1, <3>3
      <4>2. QED  BY <2>1, <3>1, <3>3, <4>1
    <3>4. QED  BY <3>2, <3>3
  <2> HIDE DEF q
  <2>4. IsRun(n, q)
    BY <2>2, <2>3
  <2>5. QED  BY <1>1, <2>4
<1>4. N \in P
  <2> HIDE DEF P
  <2>1. \A i \in 0..N : i \in P
    BY <1>1, <1>2, <1>3, UpTo
  <2>2. QED  BY <1>1, <2>1
<1>5. PICK r : IsRun(N, r)
  BY <1>4
<1> DEFINE q == [i \in 0..N |-> r[i]]
<1>6. Def(q)
  BY <1>1, <1>5
<1>7. Def(CHOOSE g : Def(g))
  <2> HIDE DEF q, Def
  <2>1. QED  BY <1>6
<1> DEFINE h == CHOOSE g : Def(g)
<1>8. StoreAll(ps, s) = h[N]
  BY DEF StoreAll, N
<1>9. h = [i \in 0..N |-> IF i = 0 THEN ps ELSE StoreParameter(h[i - 1], s[i])]
  BY <1>7
<1> HIDE DEF h
<1>10. /\ DOMAIN h = 0..N /\ h[0] = ps
       /\ \A i \in 1..N : h[i] = StoreParameter(h[i - 1], s[i])
  BY <1>1, <1>9
<1>11. QED  BY <1>8, <1>10 DEF N

\* qs has the parameters of ps and, under new and different names, the first n of s.
Extends(ps, qs, s, n) ==
  /\ StoreInv(qs)
  /\ NamesIn(qs) = NamesIn(ps) \cup {s[j].md.name : j \in 1..n}
  /\ \A j \in 1..n : s[j].md.name \notin NamesIn(ps) /\ Lookup(qs, s[j].md.name) = Converted(s[j])
  /\ \A j, k \in 1..n : j # k => s[j].md.name # s[k].md.name
  /\ \A name \in NamesIn(ps) : Lookup(qs, name) = Lookup(ps, name)

LEMMA ExtendsNothing ==
  ASSUME NEW ps, StoreInv(ps), NEW s
  PROVE  Extends(ps, ps, s, 0)
<1>1. 1..0 = {}
  OBVIOUS
<1>2. QED  BY <1>1 DEF Extends

LEMMA ExtendsByOne ==
  ASSUME NEW ps, NEW qs, NEW s \in Seq(Parameter), NEW n \in 1..Len(s),
         Extends(ps, qs, s, n - 1), Storable(qs, s[n])
  PROVE  Extends(ps, StoreParameter(qs, s[n]), s, n)
<1> DEFINE rs == StoreParameter(qs, s[n])
           nm == s[n].md.name
<1>1. n \in Nat /\ n \notin 1..(n - 1) /\ 1..n = (1..(n - 1)) \cup {n}
  BY LenProperties
<1>2. s[n] \in Parameter /\ StoreInv(qs)
  BY ElementOfSeq DEF Extends
<1>3. /\ StoreInv(rs) /\ nm \notin NamesIn(qs)
      /\ NamesIn(rs) = NamesIn(qs) \cup {nm}
      /\ Lookup(rs, nm) = Converted(s[n])
      /\ \A name \in NamesIn(qs) : Lookup(rs, name) = Lookup(qs, name)
  BY <1>2, StoreAdds
<1> HIDE DEF rs, nm
<1>4. /\ NamesIn(qs) = NamesIn(ps) \cup {s[j].md.name : j \in 1..(n - 1)}
      /\ \A j \in 1..(n - 1) : s[j].md.name \notin NamesIn(ps) /\ s[j].md.name \in NamesIn(qs)
      /\ \A j \in 1..(n - 1) : Lookup(qs, s[j].md.name) = Converted(s[j])
      /\ \A j, k \in 1..(n - 1) : j # k => s[j].md.name # s[k].md.name
      /\ \A name \in NamesIn(ps) : Lookup(qs, name) = Lookup(ps, name) /\ name \in NamesIn(qs)
  BY DEF Extends
<1>5. NamesIn(rs) = NamesIn(ps) \cup {s[j].md.name : j \in 1..n}
  BY <1>1, <1>3, <1>4 DEF nm
<1>6. ASSUME NEW j \in 1..n
      PROVE  s[j].md.name \notin NamesIn(ps) /\ Lookup(rs, s[j].md.name) = Converted(s[j])
  <2>1. CASE j = n  BY <1>3, <1>4, <2>1 DEF nm
  <2>2. CASE j # n  BY <1>1, <1>3, <1>4, <2>2
  <2>3. QED  BY <2>1, <2>2
<1>7. ASSUME NEW j \in 1..n, NEW k \in 1..n, j # k PROVE s[j].md.name # s[k].md.name
  BY <1>1, <1>3, <1>4, <1>7 DEF nm
<1>8. QED  BY <1>3, <1>4, <1>5, <1>6, <1>7 DEF Extends, rs

\* Stored one after the other, parameters are all stored when no two have one name.
LEMMA StoreAllOfDifferent ==
  ASSUME NEW s \in Seq(Parameter),
         \A i \in 1..Len(s) : ~TwoDimensional(s[i]),
         \A i, j \in 1..Len(s) : i # j => s[i].md.name # s[j].md.name
  PROVE  Extends(NoParameters, StoreAll(NoParameters, s), s, Len(s))
<1>1. Len(s) \in Nat
  BY LenProperties
<1>2. PICK run : /\ DOMAIN run = 0..Len(s) /\ run[0] = NoParameters
                 /\ \A i \in 1..Len(s) : run[i] = StoreParameter(run[i - 1], s[i])
                 /\ StoreAll(NoParameters, s) = run[Len(s)]
  BY <1>1, StoreRun
<1> DEFINE P == {i \in 0..Len(s) : Extends(NoParameters, run[i], s, i)}
<1>3. 0 \in P
  <2>1. Extends(NoParameters, run[0], s, 0)
    BY <1>2, EmptyStore, ExtendsNothing
  <2>2. QED  BY <1>1, <2>1
<1>4. ASSUME NEW i \in 1..Len(s), i - 1 \in P PROVE i \in P
  <2>1. Extends(NoParameters, run[i - 1], s, i - 1)
    BY <1>4
  <2>2. s[i].md.name \notin NamesIn(run[i - 1])
    <3>1. \A j \in 1..(i - 1) : j \in 1..Len(s) /\ j # i
      BY <1>1
    <3>2. QED  BY <2>1, <3>1, EmptyStore DEF Extends
  <2>3. Storable(run[i - 1], s[i])
    <3>1. StoreInv(run[i - 1])
      BY <2>1 DEF Extends
    <3>2. QED  BY <2>2, <3>1, LookupStored DEF Storable
  <2>4. Extends(NoParameters, run[i], s, i)
    BY <1>2, <2>1, <2>3, ExtendsByOne
  <2>5. QED  BY <1>1, <2>4
<1> HIDE DEF P
<1>5. Len(s) \in P
  <2>1. \A i \in 0..Len(s) : i \in P
    BY <1>1, <1>3, <1>4, UpTo
  <2>2. QED  BY <1>1, <2>1
<1>6. QED  BY <1>2, <1>5 DEF P

-----------------------------------------------------------------------------
(* The inductive invariant of ParameterPipeline *)

CallType == {Base, Parse} \cup {Add(md) : md \in Declarable}

\* The metadata of all calls, those of className and libName included.
Asked == UNION {{i} \X DOMAIN calls[i].md : i \in DOMAIN calls}
Md(a) == calls[a[1]].md[a[2]]

IsPending(md) == \E j \in DOMAIN pending : pending[j] = md

\* The parameter was stored with the length that was read.
StoredAs(ps, md) ==
  /\ md.name \in NamesIn(ps)
  /\ Lookup(ps, md.name).md = Sized(md, Len(Lookup(ps, md.name).data))

TypeInv ==
  /\ phase \in Phases
  /\ calls \in Seq(CallType) /\ pending \in Seq(Declarable)
  /\ at \in 1..(Len(calls) + 1)
  /\ rtw \in Seq(Parameter) /\ program \in Seq(Parameter)
  /\ coder = [ps |-> coder.ps, mds |-> coder.mds] /\ coder.mds \in Seq(Metadatas)
  /\ StoreInv(params) /\ StoreInv(coder.ps) /\ StoreInv(deployed)
  /\ \A md \in Declarable \cup {BaseMetadata[1], BaseMetadata[2]} : mask[Place(md)].data \in Seq(Int)

\* What was asked for is pending or stored, and a name asked for twice is both: the
\* next parse fails.  What was asked for before a parse is stored.
CallsInv ==
  /\ calls # <<>> => calls[1] = Base
  /\ \A a \in Asked : IsPending(Md(a)) \/ StoredAs(params, Md(a))
  /\ \A a, b \in Asked : a # b /\ Md(a).name = Md(b).name =>
       Declared(pending, Md(a)) /\ Md(a).name \in NamesIn(params)
  /\ \A a \in Asked, i \in DOMAIN calls :
       a[1] <= i /\ calls[i].call # "add" => StoredAs(params, Md(a))

\* How far the parameters have come.
Initialized == phase \in {"ready", "written", "generated", "starting", "running"}
Written     == phase \in {"written", "generated", "starting", "running"}
Deploying   == phase \in {"starting", "running"}

PhaseInv ==
  /\ Initialized => calls # <<>>
  /\ phase \in {"simulink", "ready", "written", "generated"} => at = 1
  /\ phase = "running" => at > 1
  /\ GeneratedAccepts

\* The sequence has one parameter for each name, in some order.
Covers(s) ==
  /\ {s[i].md.name : i \in DOMAIN s} = NamesIn(params)
  /\ \A i, j \in DOMAIN s : i # j => s[i].md.name # s[j].md.name

\* What the program has for a parameter p.
Stands(q, p) == q.md = p.md /\ (Printable(p) => q = Generated(p) /\ Settled(q))

FileInv ==
  /\ Written => \A name \in NamesIn(params) : ~Dynamic(Lookup(params, name))
  /\ phase = "written" => /\ Covers(rtw)
                          /\ \A i \in DOMAIN rtw : rtw[i] = Lookup(params, rtw[i].md.name)
  /\ phase = "generated" =>
       /\ Covers(program)
       /\ \A i \in DOMAIN program :
            /\ ~TwoDimensional(program[i])
            /\ Stands(program[i], Lookup(params, program[i].md.name))

\* The generated program has the parameters of the file, and the block asks there for
\* nothing that it did not ask for in Simulink.
CoderInv ==
  Deploying =>
    /\ NamesIn(coder.ps) = NamesIn(params)
    /\ \A name \in NamesIn(params) : Stands(Lookup(coder.ps, name), Lookup(params, name))
    /\ \A k \in DOMAIN coder.mds : \E a \in Asked :
         a[1] < at /\ coder.mds[k] \in {Md(a), CoderSized(Md(a))}
    /\ at > 1 => deployed = coder.ps

IInv == TypeInv /\ CallsInv /\ PhaseInv /\ FileInv /\ CoderInv

-----------------------------------------------------------------------------
(* In Simulink *)

\* ParseAll is the last of a run of parses.
LEMMA ParseRun ==
  ASSUME NEW ps, NEW mds, Len(mds) \in Nat
  PROVE  \E run : /\ DOMAIN run = 0..Len(mds) /\ run[0] = [ok |-> TRUE, ps |-> ps]
                  /\ \A i \in 1..Len(mds) : run[i] = ParseOne(run[i - 1], mds[i])
                  /\ ParseAll(mds, ps) = run[Len(mds)]
<1> DEFINE N == Len(mds)
           start == [ok |-> TRUE, ps |-> ps]
           IsRun(n, r) == /\ DOMAIN r = 0..n /\ r[0] = start
                          /\ \A i \in 1..n : r[i] = ParseOne(r[i - 1], mds[i])
           P == {n \in 0..N : \E r : IsRun(n, r)}
           Def(g) == g = [i \in 0..N |-> IF i = 0 THEN start ELSE ParseOne(g[i - 1], mds[i])]
<1> HIDE DEF N, start
<1>1. N \in Nat
  BY DEF N
<1>2. 0 \in P
  <2>1. IsRun(0, [i \in 0..0 |-> start])
    OBVIOUS
  <2>2. 0 \in 0..N
    BY <1>1
  <2> HIDE DEF IsRun
  <2>3. QED  BY <2>1, <2>2
<1>3. ASSUME NEW n \in 1..N, n - 1 \in P PROVE n \in P
  <2>1. PICK r : IsRun(n - 1, r)
    BY <1>3
  <2> DEFINE q == [i \in 0..n |-> IF i = n THEN ParseOne(r[n - 1], mds[n]) ELSE r[i]]
  <2>2. DOMAIN q = 0..n /\ q[0] = start
    BY <1>1, <2>1
  <2>3. ASSUME NEW i \in 1..n PROVE q[i] = ParseOne(q[i - 1], mds[i])
    <3>1. i \in 0..n /\ i - 1 \in 0..n /\ i - 1 # n /\ q[i - 1] = r[i - 1]
      BY <1>1
    <3>2. CASE i = n  BY <3>1, <3>2
    <3>3. CASE i # n
      <4>1. i \in 1..(n - 1)
        BY <1>1, <3>3
      <4>2. QED  BY <2>1, <3>1, <3>3, <4>1
    <3>4. QED  BY <3>2, <3>3
  <2> HIDE DEF q
  <2>4. IsRun(n, q)
    BY <2>2, <2>3
  <2>5. QED  BY <1>1, <2>4
<1>4. N \in P
  <2> HIDE DEF P
  <2>1. \A i \in 0..N : i \in P
    BY <1>1, <1>2, <1>3, UpTo
  <2>2. QED  BY <1>1, <2>1
<1>5. PICK r : IsRun(N, r)
  BY <1>4
<1> DEFINE q == [i \in 0..N |-> r[i]]
<1>6. Def(q)
  BY <1>1, <1>5
<1>7. Def(CHOOSE g : Def(g))
  <2> HIDE DEF q, Def
  <2>1. QED  BY <1>6
<1> DEFINE h == CHOOSE g : Def(g)
<1>8. ParseAll(mds, ps) = h[N]
  BY DEF ParseAll, N, start
<1>9. h = [i \in 0..N |-> IF i = 0 THEN start ELSE ParseOne(h[i - 1], mds[i])]
  BY <1>7
<1> HIDE DEF h
<1>10. /\ DOMAIN h = 0..N /\ h[0] = start
       /\ \A i \in 1..N : h[i] = ParseOne(h[i - 1], mds[i])
  BY <1>1, <1>9
<1>11. QED  BY <1>8, <1>10 DEF N, start

\* The parameter that the mask has for md.
Read(md) == ReadParameter(md, mask[Place(md)])

LEMMA SizedMetadata ==
  ASSUME NEW md \in Metadatas, NEW n \in Int
  PROVE  /\ Sized(md, n) \in Metadatas
         /\ Sized(md, n).name = md.name
         /\ md.cols # DynamicSize => Sized(md, n) = md
         /\ md.cols = DynamicSize => Sized(md, n).cols = n
         /\ \A m \in Int : n # DynamicSize => Sized(Sized(md, n), m) = Sized(md, n)
BY DEF Sized, Metadatas, DynamicSize

LEMMA ReadIsParameter ==
  ASSUME NEW md \in Metadatas, mask[Place(md)].data \in Seq(Int)
  PROVE  /\ Read(md) \in Parameter
         /\ Read(md).md = Sized(md, Len(Read(md).data))
         /\ Read(md).md.name = md.name
<1> DEFINE d == mask[Place(md)].data
<1>1. Len(d) \in Int
  BY LenProperties
<1>2. Read(md) = [isScalar |-> ~IsCell(md) /\ IsScalar(md), data |-> d, md |-> Sized(md, Len(d))]
  BY DEF Read, ReadParameter
<1>3. Sized(md, Len(d)) \in Metadatas /\ Sized(md, Len(d)).name = md.name
  BY <1>1, SizedMetadata
<1>4. (~IsCell(md) /\ IsScalar(md)) \in BOOLEAN
  OBVIOUS
<1> HIDE DEF d
<1>5. d \in Seq(Int)
  BY DEF d
<1>6. QED  BY <1>2, <1>3, <1>4, <1>5 DEF Parameter

LEMMA SizedKeepsName ==
  ASSUME NEW md \in Metadatas, NEW n
  PROVE  Sized(md, n).name = md.name
BY DEF Sized, Metadatas

\* A parse keeps what is stored, whether or not it succeeds.
LEMMA ParseKeeps ==
  ASSUME NEW ps, StoreInv(ps), NEW mds \in Seq(Metadatas),
         \A i \in DOMAIN mds : mask[Place(mds[i])].data \in Seq(Int)
  PROVE  LET qs == ParseAll(mds, ps).ps IN
         /\ StoreInv(qs)
         /\ \A name \in NamesIn(ps) : name \in NamesIn(qs) /\ Lookup(qs, name) = Lookup(ps, name)
<1> DEFINE N == Len(mds)
           Kept(qs) == /\ StoreInv(qs)
                       /\ \A name \in NamesIn(ps) : /\ name \in NamesIn(qs)
                                                    /\ Lookup(qs, name) = Lookup(ps, name)
<1>1. N \in Nat /\ DOMAIN mds = 1..N
  BY LenProperties
<1>2. PICK run : /\ DOMAIN run = 0..N /\ run[0] = [ok |-> TRUE, ps |-> ps]
                 /\ \A i \in 1..N : run[i] = ParseOne(run[i - 1], mds[i])
                 /\ ParseAll(mds, ps) = run[N]
  BY <1>1, ParseRun
<1> DEFINE P == {i \in 0..N : Kept(run[i].ps)}
<1>3. 0 \in P
  BY <1>1, <1>2
<1>4. ASSUME NEW i \in 1..N, i - 1 \in P PROVE i \in P
  <2> DEFINE p == ReadParameter(mds[i], mask[Place(mds[i])])
  <2>1. run[i] = ParseOne(run[i - 1], mds[i])
    BY <1>2
  <2>2. run[i].ps = StoreParameter(run[i - 1].ps, p) \/ run[i].ps = run[i - 1].ps
    <3>1. CASE run[i - 1].ok /\ mds[i].rows # DynamicSize /\ Readable(mds[i], mask[Place(mds[i])])
      BY <2>1, <3>1 DEF ParseOne
    <3>2. CASE ~(run[i - 1].ok /\ mds[i].rows # DynamicSize /\ Readable(mds[i], mask[Place(mds[i])]))
      <4>1. run[i] = [run[i - 1] EXCEPT !.ok = FALSE]
        BY <2>1, <3>2 DEF ParseOne
      <4>2. QED  BY <4>1
    <3>3. QED  BY <3>1, <3>2
  <2>3. p \in Parameter
    <3>1. mds[i] \in Metadatas /\ mask[Place(mds[i])].data \in Seq(Int)
      BY <1>1, ElementOfSeq
    <3>2. Read(mds[i]) \in Parameter
      BY <3>1, ReadIsParameter
    <3>3. QED  BY <3>2 DEF Read
  <2> HIDE DEF p
  <2>4. Kept(run[i - 1].ps)
    BY <1>4
  <2>5. CASE Storable(run[i - 1].ps, p)
    <3>1. /\ StoreInv(StoreParameter(run[i - 1].ps, p))
          /\ \A name \in NamesIn(run[i - 1].ps) :
               /\ name \in NamesIn(StoreParameter(run[i - 1].ps, p))
               /\ Lookup(StoreParameter(run[i - 1].ps, p), name) = Lookup(run[i - 1].ps, name)
      BY <2>3, <2>4, <2>5, StoreAdds
    <3>2. Kept(run[i].ps)
      BY <2>2, <2>4, <3>1
    <3>3. QED  BY <1>1, <3>2
  <2>6. CASE ~Storable(run[i - 1].ps, p)
    <3>1. Kept(run[i].ps)
      BY <2>2, <2>4, <2>6, StoreRefuses
    <3>2. QED  BY <1>1, <3>1
  <2>7. QED  BY <2>5, <2>6
<1> HIDE DEF P, N
<1>5. N \in P
  <2>1. \A i \in 0..N : i \in P
    BY <1>1, <1>3, <1>4, UpTo
  <2>2. QED  BY <1>1, <2>1
<1>6. QED  BY <1>2, <1>5 DEF P

\* A parse that succeeds adds what the mask has for each of the metadata.
LEMMA ParseAdds ==
  ASSUME NEW ps, StoreInv(ps), NEW mds \in Seq(Metadatas),
         \A i \in DOMAIN mds : mask[Place(mds[i])].data \in Seq(Int),
         ParseAll(mds, ps).ok
  PROVE  Extends(ps, ParseAll(mds, ps).ps, [i \in DOMAIN mds |-> Read(mds[i])], Len(mds))
<1> DEFINE N == Len(mds)
           s == [i \in DOMAIN mds |-> Read(mds[i])]
<1>1. N \in Nat /\ DOMAIN mds = 1..N
  BY LenProperties
<1>2. \A i \in 1..N : mds[i] \in Metadatas /\ Read(mds[i]) \in Parameter
  BY <1>1, ElementOfSeq, ReadIsParameter
<1>3. s \in Seq(Parameter) /\ Len(s) = N /\ \A i \in 1..N : s[i] = Read(mds[i])
  BY <1>1, <1>2
<1>4. PICK run : /\ DOMAIN run = 0..N /\ run[0] = [ok |-> TRUE, ps |-> ps]
                 /\ \A i \in 1..N : run[i] = ParseOne(run[i - 1], mds[i])
                 /\ ParseAll(mds, ps) = run[N]
  BY <1>1, ParseRun
<1> DEFINE P == {i \in 0..N : run[i].ok => Extends(ps, run[i].ps, s, i)}
<1> HIDE DEF s, N
<1>5. 0 \in P
  <2>1. Extends(ps, run[0].ps, s, 0)
    BY <1>4, ExtendsNothing
  <2>2. QED  BY <1>1, <2>1
<1>6. ASSUME NEW i \in 1..N, i - 1 \in P PROVE i \in P
  <2> SUFFICES ASSUME run[i].ok PROVE Extends(ps, run[i].ps, s, i)
    BY <1>1
  <2>1. run[i] = ParseOne(run[i - 1], mds[i])
    BY <1>4
  <2>2. run[i - 1].ok /\ Storable(run[i - 1].ps, s[i]) /\ run[i].ps = StoreParameter(run[i - 1].ps, s[i])
    <3>1. s[i] = ReadParameter(mds[i], mask[Place(mds[i])])
      BY <1>3 DEF Read
    <3>2. CASE run[i - 1].ok /\ mds[i].rows # DynamicSize /\ Readable(mds[i], mask[Place(mds[i])])
      BY <2>1, <3>1, <3>2 DEF ParseOne
    <3>3. CASE ~(run[i - 1].ok /\ mds[i].rows # DynamicSize /\ Readable(mds[i], mask[Place(mds[i])]))
      <4>1. run[i] = [run[i - 1] EXCEPT !.ok = FALSE]
        BY <2>1, <3>3 DEF ParseOne
      <4>2. QED  BY <4>1
    <3>4. QED  BY <3>2, <3>3
  <2>3. Extends(ps, run[i - 1].ps, s, i - 1)
    BY <1>6, <2>2
  <2>4. QED  BY <1>3, <2>2, <2>3, ExtendsByOne
<1> HIDE DEF P
<1>7. N \in P
  <2>1. \A i \in 0..N : i \in P
    BY <1>1, <1>5, <1>6, UpTo
  <2>2. QED  BY <1>1, <2>1
<1>8. QED  BY <1>4, <1>7 DEF P, s, N

LEMMA BaseFacts ==
  /\ BaseMetadata \in Seq(Metadatas) /\ Len(BaseMetadata) = 2 /\ DOMAIN BaseMetadata = {1, 2}
  /\ BaseMetadata[1].name = "className" /\ BaseMetadata[2].name = "libName"
<1>1. BaseMetadata[1] \in Metadatas /\ BaseMetadata[2] \in Metadatas
  <2>1. /\ BaseMetadata[1] = [name |-> "className", index |-> 0, rows |-> 1, cols |-> 1,
                              shape |-> "PLAIN", elem |-> "STRING"]
        /\ BaseMetadata[2] = [name |-> "libName", index |-> 1, rows |-> 1, cols |-> 1,
                              shape |-> "PLAIN", elem |-> "STRING"]
    BY DEF BaseMetadata, Metadata
  <2>2. "PLAIN" \in Shapes /\ "STRING" \in Elems
    BY DEF Shapes, Elems
  <2>3. "className" \in Names /\ "libName" \in Names
    BY DEF Names
  <2>4. ASSUME NEW n \in Names, NEW i \in Nat
        PROVE  [name |-> n, index |-> i, rows |-> 1, cols |-> 1, shape |-> "PLAIN", elem |-> "STRING"]
                 \in Metadatas
    BY <2>2 DEF Metadatas
  <2>5. QED  BY <2>1, <2>3, <2>4
<1>2. BaseMetadata \in Seq(Metadatas) /\ Len(BaseMetadata) = 2
  BY <1>1 DEF BaseMetadata
<1>3. DOMAIN BaseMetadata = 1..2
  BY <1>2, LenProperties
<1>4. QED  BY <1>2, <1>3 DEF BaseMetadata, Metadata

\* Every call is one of three.
LEMMA CallCases ==
  ASSUME NEW call \in CallType
  PROVE  /\ call.md \in Seq(Metadatas)
         /\ \/ call = Base /\ call.md = BaseMetadata /\ call.call = "base"
            \/ call = Parse /\ call.md = <<>> /\ call.call = "parse"
            \/ \E md \in Declarable : call = Add(md) /\ call.md = <<md>> /\ call.call = "add"
<1>1. CASE call = Base
  BY <1>1, BaseFacts DEF Base
<1>2. CASE call = Parse
  BY <1>2 DEF Parse
<1>3. ASSUME NEW md \in Declarable, call = Add(md)
      PROVE  call.md \in Seq(Metadatas) /\ call.md = <<md>> /\ call.call = "add"
  BY <1>3, ParameterAssumption DEF Add
<1>4. QED  BY <1>1, <1>2, <1>3 DEF CallType, Base, Parse

LEMMA AskedByOneMore ==
  ASSUME calls \in Seq(CallType), NEW call \in CallType, calls' = Append(calls, call)
  PROVE  /\ calls' \in Seq(CallType) /\ Len(calls') = Len(calls) + 1 /\ calls' # <<>>
         /\ calls # <<>> => calls'[1] = calls[1]
         /\ calls = <<>> => calls'[1] = call
         /\ Asked' = Asked \cup ({Len(calls) + 1} \X DOMAIN call.md)
         /\ \A a \in Asked : Md(a)' = Md(a) /\ a[1] # Len(calls) + 1
         /\ \A a \in {Len(calls) + 1} \X DOMAIN call.md : Md(a)' = call.md[a[2]]
<1> DEFINE N == Len(calls)
<1>1. /\ N \in Nat /\ DOMAIN calls = 1..N /\ DOMAIN calls' = 1..(N + 1)
      /\ calls' \in Seq(CallType) /\ Len(calls') = N + 1 /\ calls' # <<>>
      /\ \A i \in 1..N : calls'[i] = calls[i]
      /\ calls'[N + 1] = call
  BY AppendProperties, LenProperties
<1>2. (calls # <<>> => 1 \in 1..N) /\ (calls = <<>> => N = 0)
  BY <1>1, EmptySeq
<1> HIDE DEF N
<1>3. Asked = UNION {{i} \X DOMAIN calls[i].md : i \in 1..N}
  BY <1>1 DEF Asked
<1>4. Asked' = UNION {{i} \X DOMAIN calls'[i].md : i \in 1..(N + 1)}
  BY <1>1 DEF Asked
<1>5. 1..(N + 1) = (1..N) \cup {N + 1} /\ N + 1 \notin 1..N
  BY <1>1
<1>6. Asked' = Asked \cup ({N + 1} \X DOMAIN call.md)
  BY <1>1, <1>3, <1>4, <1>5
<1>7. \A a \in Asked : a[1] \in 1..N
  BY <1>3
<1>8. \A a \in Asked : Md(a)' = Md(a) /\ a[1] # N + 1
  BY <1>1, <1>5, <1>7 DEF Md
<1>9. \A a \in {N + 1} \X DOMAIN call.md : Md(a)' = call.md[a[2]]
  BY <1>1 DEF Md
<1>10. QED  BY <1>1, <1>2, <1>6, <1>8, <1>9 DEF N

\* What was asked for is one of the metadata of a call.
LEMMA AskedIsMetadata ==
  ASSUME calls \in Seq(CallType), NEW a \in Asked
  PROVE  /\ a[1] \in 1..Len(calls) /\ a[2] \in DOMAIN calls[a[1]].md /\ a = <<a[1], a[2]>>
         /\ calls[a[1]] \in CallType /\ Md(a) \in Metadatas
         /\ Md(a) \in Declarable \cup {BaseMetadata[1], BaseMetadata[2]}
<1>1. /\ a[1] \in 1..Len(calls) /\ a[2] \in DOMAIN calls[a[1]].md /\ a = <<a[1], a[2]>>
      /\ calls[a[1]] \in CallType
  <2>1. DOMAIN calls = 1..Len(calls)
    BY LenProperties
  <2>2. PICK i \in 1..Len(calls) : a \in {i} \X DOMAIN calls[i].md
    BY <2>1 DEF Asked
  <2>3. QED  BY <2>2, ElementOfSeq
<1>2. Md(a) \in Metadatas
  <2>1. calls[a[1]].md \in Seq(Metadatas)
    BY <1>1, CallCases
  <2>2. DOMAIN calls[a[1]].md = 1..Len(calls[a[1]].md)
    BY <2>1, LenProperties
  <2>3. QED  BY <1>1, <2>1, <2>2, ElementOfSeq DEF Md
<1>3. Md(a) \in Declarable \cup {BaseMetadata[1], BaseMetadata[2]}
  <2>1. CASE calls[a[1]].md = BaseMetadata
    BY <1>1, <2>1, BaseFacts DEF Md
  <2>2. CASE calls[a[1]].md = <<>>
    BY <1>1, <2>2
  <2>3. ASSUME NEW md \in Declarable, calls[a[1]].md = <<md>> PROVE Md(a) = md
    BY <1>1, <2>3 DEF Md
  <2>4. QED  BY <1>1, <2>1, <2>2, <2>3, CallCases
<1>4. QED  BY <1>1, <1>2, <1>3

LEMMA FailsStep ==
  ASSUME IInv, Fails("failed")
  PROVE  IInv'
<1>1. /\ phase' = "failed" /\ phase' \in Phases
      /\ UNCHANGED <<mask, calls, pending, params, rtw, program, coder, at, deployed>>
  BY DEF Fails, Phases
<1>2. TypeInv'
  BY <1>1 DEF IInv, TypeInv
<1>3. CallsInv'
  <2>1. Asked' = Asked /\ \A a : Md(a)' = Md(a)
    BY <1>1 DEF Asked, Md
  <2>2. \A md : IsPending(md)' = IsPending(md) /\ StoredAs(params, md)' = StoredAs(params, md)
    BY <1>1 DEF IsPending, StoredAs
  <2>3. QED  BY <1>1, <2>1, <2>2 DEF IInv, CallsInv
<1>4. PhaseInv' /\ FileInv' /\ CoderInv'
  BY <1>1 DEF PhaseInv, FileInv, CoderInv, Initialized, Written, Deploying, GeneratedAccepts
<1>5. QED  BY <1>2, <1>3, <1>4 DEF IInv

LEMMA InitStep == Init => IInv
<1> SUFFICES ASSUME Init PROVE IInv
  OBVIOUS
<1>1. PICK m \in [Places -> MaskValues] :
        mask = [place \in Places \cup DOMAIN BaseMask |->
                  IF place \in DOMAIN BaseMask THEN BaseMask[place] ELSE m[place]]
  BY DEF Init
<1>2. ASSUME NEW md \in Declarable \cup {BaseMetadata[1], BaseMetadata[2]}
      PROVE  mask[Place(md)].data \in Seq(Int)
  <2>1. DOMAIN BaseMask = {Place(BaseMetadata[1]), Place(BaseMetadata[2])}
    BY DEF BaseMask
  <2>2. Place(md) \in Places \cup DOMAIN BaseMask
    BY <2>1 DEF Places
  <2>3. CASE Place(md) \in DOMAIN BaseMask
    <3>1. PICK base \in {BaseMetadata[1], BaseMetadata[2]} : Place(md) = Place(base)
      BY <2>1, <2>3
    <3>2. base \in Metadatas /\ Place(md)[1] = base.index
      <4>1. 1 \in 1..Len(BaseMetadata) /\ 2 \in 1..Len(BaseMetadata)
        BY BaseFacts
      <4>2. BaseMetadata[1] \in Metadatas /\ BaseMetadata[2] \in Metadatas
        BY <4>1, BaseFacts, ElementOfSeq
      <4>3. QED  BY <3>1, <4>2 DEF Place
    <3>3. -1 - Place(md)[1] \in Int
      BY <3>2 DEF Metadatas
    <3>4. mask[Place(md)] = [kind |-> "string", data |-> <<-1 - Place(md)[1]>>]
      BY <1>1, <2>2, <2>3 DEF BaseMask
    <3>5. QED  BY <3>3, <3>4
  <2>4. CASE Place(md) \notin DOMAIN BaseMask
    <3>1. Place(md) \in Places /\ mask[Place(md)] = m[Place(md)]
      BY <1>1, <2>2, <2>4
    <3>2. m[Place(md)] \in [kind : STRING, data : Seq(Int)]
      BY <1>1, <3>1, ParameterAssumption
    <3>3. QED  BY <3>1, <3>2
  <2>5. QED  BY <2>3, <2>4
<1>3. /\ phase = "simulink" /\ calls = <<>> /\ pending = <<>>
      /\ params = NoParameters /\ deployed = NoParameters
      /\ rtw = <<>> /\ program = <<>>
      /\ coder = [ps |-> NoParameters, mds |-> <<>>] /\ at = 1
  BY DEF Init
<1>4. TypeInv
  <2>1. phase \in Phases /\ at \in 1..(Len(calls) + 1)
    BY <1>3 DEF Phases
  <2>2. /\ calls \in Seq(CallType) /\ pending \in Seq(Declarable)
        /\ rtw \in Seq(Parameter) /\ program \in Seq(Parameter) /\ coder.mds \in Seq(Metadatas)
    BY <1>3, EmptySeq
  <2>3. QED  BY <1>2, <1>3, <2>1, <2>2, EmptyStore DEF TypeInv
<1>5. CallsInv
  <2>1. Asked = {}
    BY <1>3 DEF Asked
  <2>2. QED  BY <1>3, <2>1 DEF CallsInv
<1>6. PhaseInv /\ FileInv /\ CoderInv
  BY <1>3 DEF PhaseInv, FileInv, CoderInv, Initialized, Written, Deploying, GeneratedAccepts
<1>7. QED  BY <1>4, <1>5, <1>6 DEF IInv

LEMMA ParsedMetadata ==
  ASSUME IInv, NEW mds, mds = BaseMetadata \/ mds = pending
  PROVE  mds \in Seq(Metadatas) /\ \A i \in DOMAIN mds : mask[Place(mds[i])].data \in Seq(Int)
<1>1. CASE mds = BaseMetadata
  BY <1>1, BaseFacts DEF IInv, TypeInv
<1>2. CASE mds = pending
  <2>1. pending \in Seq(Declarable) /\ Declarable \subseteq Metadatas
    BY ParameterAssumption DEF IInv, TypeInv
  <2>2. pending \in Seq(Metadatas) /\ \A i \in DOMAIN pending : pending[i] \in Declarable
    BY <2>1, SeqMonotonic, ElementOfSeq, LenProperties
  <2>3. QED  BY <1>2, <2>2 DEF IInv, TypeInv
<1>3. QED  BY <1>1, <1>2

\* A parse that fails has stored some of what was pending.
LEMMA ParseFailsStep ==
  ASSUME IInv, NEW mds, NEW call, phase = "simulink", ~ParseAll(mds, params).ok,
         ParseParameters(mds, call), mds = BaseMetadata \/ mds = pending
  PROVE  /\ IInv'
         /\ \A name \in NamesIn(params) :
              name \in NamesIn(params') /\ Lookup(params', name) = Lookup(params, name)
<1>1. /\ params' = ParseAll(mds, params).ps /\ phase' = "failed"
      /\ UNCHANGED <<mask, calls, pending, rtw, program, coder, at, deployed>>
  BY DEF ParseParameters
<1>2. mds \in Seq(Metadatas) /\ \A i \in DOMAIN mds : mask[Place(mds[i])].data \in Seq(Int)
  BY ParsedMetadata
<1>3. /\ StoreInv(params')
      /\ \A name \in NamesIn(params) :
           name \in NamesIn(params') /\ Lookup(params', name) = Lookup(params, name)
  BY <1>1, <1>2, ParseKeeps DEF IInv, TypeInv
<1>4. TypeInv'
  <2>1. "failed" \in Phases
    BY DEF Phases
  <2>2. QED  BY <1>1, <1>3, <2>1 DEF IInv, TypeInv
<1>5. CallsInv'
  <2>1. Asked' = Asked /\ \A a : Md(a)' = Md(a)
    BY <1>1 DEF Asked, Md
  <2>2. \A md : /\ IsPending(md)' = IsPending(md)
                /\ StoredAs(params, md) => StoredAs(params', md)
    BY <1>1, <1>3 DEF IsPending, StoredAs
  <2>3. QED  BY <1>1, <1>3, <2>1, <2>2 DEF IInv, CallsInv
<1>6. PhaseInv' /\ FileInv' /\ CoderInv'
  BY <1>1 DEF PhaseInv, FileInv, CoderInv, Initialized, Written, Deploying, GeneratedAccepts
<1>7. QED  BY <1>3, <1>4, <1>5, <1>6 DEF IInv

\* A parse that succeeds stores all that was pending.
LEMMA ParseStep ==
  ASSUME IInv, NEW mds, NEW call, phase = "simulink", ParseAll(mds, params).ok,
         ParseParameters(mds, call),
         \/ calls = <<>> /\ mds = BaseMetadata /\ call = Base
         \/ calls # <<>> /\ mds = pending /\ call = Parse
  PROVE  /\ IInv'
         /\ \A name \in NamesIn(params) :
              name \in NamesIn(params') /\ Lookup(params', name) = Lookup(params, name)
<1> DEFINE s == [i \in DOMAIN mds |-> Read(mds[i])]
<1>1. /\ params' = ParseAll(mds, params).ps /\ pending' = <<>> /\ calls' = Append(calls, call)
      /\ UNCHANGED <<mask, phase, rtw, program, coder, at, deployed>>
  BY DEF ParseParameters
<1>2. calls \in Seq(CallType) /\ call \in CallType
  BY DEF IInv, TypeInv, CallType
<1>3. mds \in Seq(Metadatas) /\ \A i \in DOMAIN mds : mask[Place(mds[i])].data \in Seq(Int)
  BY ParsedMetadata
<1>4. Extends(params, params', s, Len(mds))
  BY <1>1, <1>3, ParseAdds DEF IInv, TypeInv
<1>5. /\ DOMAIN mds = 1..Len(mds)
      /\ \A i \in DOMAIN mds : /\ mds[i] \in Metadatas /\ s[i] \in Parameter /\ s[i].md.name = mds[i].name
                               /\ s[i].md = Sized(mds[i], Len(s[i].data))
  BY <1>3, LenProperties, ElementOfSeq, ReadIsParameter
<1> HIDE DEF s
<1>6. ASSUME NEW i \in DOMAIN mds
      PROVE  mds[i].name \notin NamesIn(params) /\ StoredAs(params', mds[i])
  <2>1. /\ mds[i].name \notin NamesIn(params) /\ mds[i].name \in NamesIn(params')
        /\ Lookup(params', mds[i].name) = Converted(s[i])
    BY <1>4, <1>5 DEF Extends
  <2>2. Converted(s[i]).md = s[i].md /\ Len(Converted(s[i]).data) = Len(s[i].data)
    BY <1>5, ConvertedIsSettled
  <2>3. QED  BY <1>5, <2>1, <2>2 DEF StoredAs
<1>7. ASSUME NEW name \in NamesIn(params)
      PROVE  name \in NamesIn(params') /\ Lookup(params', name) = Lookup(params, name)
  BY <1>4 DEF Extends
<1>8. \A md : StoredAs(params, md) => StoredAs(params', md)
  BY <1>7 DEF StoredAs
<1>9. /\ calls' \in Seq(CallType) /\ Len(calls') = Len(calls) + 1 /\ calls' # <<>>
      /\ calls # <<>> => calls'[1] = calls[1]
      /\ calls = <<>> => calls'[1] = call
      /\ Asked' = Asked \cup ({Len(calls) + 1} \X DOMAIN call.md)
      /\ \A a \in Asked : Md(a)' = Md(a) /\ a[1] # Len(calls) + 1
      /\ \A a \in {Len(calls) + 1} \X DOMAIN call.md : Md(a)' = call.md[a[2]]
  BY <1>1, <1>2, AskedByOneMore
<1>10. ASSUME calls = <<>>, mds = BaseMetadata, call = Base PROVE CallsInv'
  <2>1. Asked = {} /\ call.md = BaseMetadata
    BY <1>10 DEF Asked, Base
  <2>2. ASSUME NEW a \in Asked' PROVE a \in {Len(calls) + 1} \X {1, 2} /\ Md(a)' = BaseMetadata[a[2]]
    BY <1>9, <2>1, BaseFacts
  <2>3. CallsInv'
    <3>1. calls'[1] = Base
      BY <1>9, <1>10
    <3>2. ASSUME NEW a \in Asked' PROVE StoredAs(params', Md(a)')
      BY <1>6, <1>10, <2>2, BaseFacts
    <3>3. ASSUME NEW a \in Asked', NEW b \in Asked', a # b PROVE Md(a)'.name # Md(b)'.name
      <4>1. a[2] # b[2] /\ a[2] \in {1, 2} /\ b[2] \in {1, 2}
        BY <2>2, <3>3
      <4>2. QED  BY <2>2, <4>1, BaseFacts
    <3>4. QED  BY <3>1, <3>2, <3>3 DEF CallsInv
  <2>4. QED  BY <2>3
<1>11. ASSUME calls # <<>>, mds = pending, call = Parse PROVE CallsInv'
  <2>1. Asked' = Asked
    BY <1>9, <1>11 DEF Parse
  <2>2. CallsInv'
    <3>1. calls'[1] = Base
      BY <1>9, <1>11 DEF IInv, CallsInv
    <3>2. ASSUME NEW a \in Asked PROVE StoredAs(params', Md(a))
      BY <1>6, <1>8, <1>11 DEF IInv, CallsInv, IsPending
    <3>3. ASSUME NEW a \in Asked, NEW b \in Asked, a # b PROVE Md(a).name # Md(b).name
      BY <1>6, <1>11, <3>3 DEF IInv, CallsInv, Declared
    <3>4. QED  BY <1>9, <2>1, <3>1, <3>2, <3>3 DEF CallsInv
  <2>3. QED  BY <2>2
<1>12. TypeInv'
  <2>1. pending' \in Seq(Declarable)
    BY <1>1, EmptySeq
  <2>2. at \in 1..(Len(calls) + 1) /\ Len(calls) \in Nat
    BY <1>2, LenProperties DEF IInv, TypeInv
  <2>3. at' \in 1..(Len(calls') + 1)
    BY <1>1, <1>9, <2>2
  <2>4. StoreInv(params')
    BY <1>4 DEF Extends
  <2>5. QED  BY <1>1, <1>9, <2>1, <2>3, <2>4 DEF IInv, TypeInv
<1>13. PhaseInv' /\ FileInv' /\ CoderInv'
  BY <1>1 DEF IInv, PhaseInv, FileInv, CoderInv, Initialized, Written, Deploying, GeneratedAccepts
<1>14. QED  BY <1>7, <1>10, <1>11, <1>12, <1>13 DEF IInv

\* A name that is asked for again is declared again.
LEMMA AddStep ==
  ASSUME IInv, NEW md \in Declarable, phase = "simulink", calls # <<>>, ~Declared(pending, md),
         pending' = Append(pending, md), calls' = Append(calls, Add(md)),
         UNCHANGED <<mask, phase, params, rtw, program, coder, at, deployed>>
  PROVE  IInv'
<1>1. /\ calls \in Seq(CallType) /\ Add(md) \in CallType /\ pending \in Seq(Declarable)
      /\ Add(md).md = <<md>>
  BY DEF IInv, TypeInv, CallType, Add
<1> DEFINE new == <<Len(calls) + 1, 1>>
<1>2. /\ calls' \in Seq(CallType) /\ Len(calls') = Len(calls) + 1 /\ calls' # <<>>
      /\ calls'[1] = calls[1]
      /\ Asked' = Asked \cup ({Len(calls) + 1} \X DOMAIN Add(md).md)
      /\ \A a \in Asked : Md(a)' = Md(a) /\ a[1] # Len(calls) + 1
      /\ \A a \in {Len(calls) + 1} \X DOMAIN Add(md).md : Md(a)' = Add(md).md[a[2]]
  BY <1>1, AskedByOneMore
<1>3. ASSUME NEW a \in Asked' PROVE (a \in Asked /\ Md(a)' = Md(a)) \/ (a = new /\ Md(a)' = md)
  <2>1. DOMAIN Add(md).md = {1} /\ Add(md).md[1] = md
    BY <1>1
  <2>2. QED  BY <1>2, <2>1
<1> HIDE DEF new
<1>4. /\ pending' \in Seq(Declarable) /\ DOMAIN pending = 1..Len(pending) /\ Len(pending) \in Nat
      /\ DOMAIN pending' = 1..(Len(pending) + 1)
      /\ \A j \in DOMAIN pending : pending'[j] = pending[j]
      /\ pending'[Len(pending) + 1] = md
  BY <1>1, AppendProperties, LenProperties
<1>5. /\ \A m : IsPending(m) => IsPending(m)'
      /\ \A m : Declared(pending, m) => Declared(pending', m)
      /\ IsPending(md)' /\ \A m : m.name = md.name => Declared(pending', m)
  BY <1>4 DEF IsPending, Declared
<1>6. TypeInv'
  <2>1. at \in 1..(Len(calls) + 1) /\ Len(calls) \in Nat
    BY <1>1, LenProperties DEF IInv, TypeInv
  <2>2. at' \in 1..(Len(calls') + 1)
    BY <1>2, <2>1
  <2>3. QED  BY <1>2, <1>4, <2>2 DEF IInv, TypeInv
<1>7. CallsInv'
  <2>1. calls'[1] = Base
    BY <1>2 DEF IInv, CallsInv
  <2>2. ASSUME NEW a \in Asked' PROVE IsPending(Md(a))' \/ StoredAs(params', Md(a)')
    <3>1. CASE a \in Asked /\ Md(a)' = Md(a)
      <4>1. IsPending(Md(a)) \/ StoredAs(params, Md(a))
        BY <3>1 DEF IInv, CallsInv
      <4>2. params' = params
        OBVIOUS
      <4>3. CASE IsPending(Md(a))
        BY <1>4, <3>1, <4>3 DEF IsPending
      <4>4. CASE StoredAs(params, Md(a))
        BY <3>1, <4>2, <4>4
      <4>5. QED  BY <4>1, <4>3, <4>4
    <3>2. CASE a = new /\ Md(a)' = md
      BY <1>4, <3>2 DEF IsPending
    <3>3. QED  BY <1>3, <3>1, <3>2
  <2>3. ASSUME NEW a \in Asked', NEW b \in Asked', a # b, Md(a)'.name = Md(b)'.name
        PROVE  Declared(pending', Md(a)') /\ Md(a)'.name \in NamesIn(params')
    <3>1. params' = params
      OBVIOUS
    <3>2. ASSUME NEW c \in Asked, Md(c).name = md.name PROVE md.name \in NamesIn(params)
      <4>1. ~IsPending(Md(c))
        BY <3>2 DEF IsPending, Declared
      <4>2. StoredAs(params, Md(c))
        BY <4>1 DEF IInv, CallsInv
      <4>3. QED  BY <3>2, <4>2 DEF StoredAs
    <3>3. CASE a \in Asked /\ Md(a)' = Md(a) /\ b \in Asked /\ Md(b)' = Md(b)
      BY <1>5, <2>3, <3>1, <3>3 DEF IInv, CallsInv
    <3>4. CASE a = new /\ Md(a)' = md /\ b \in Asked /\ Md(b)' = Md(b)
      BY <1>5, <2>3, <3>1, <3>2, <3>4
    <3>5. CASE b = new /\ Md(b)' = md /\ a \in Asked /\ Md(a)' = Md(a)
      BY <1>5, <2>3, <3>1, <3>2, <3>5
    <3>6. QED  BY <1>3, <2>3, <3>3, <3>4, <3>5
  <2>4. ASSUME NEW a \in Asked', NEW i \in DOMAIN calls', a[1] <= i, calls'[i].call # "add"
        PROVE  StoredAs(params', Md(a)')
    <3>1. /\ Len(calls) \in Nat /\ DOMAIN calls = 1..Len(calls)
          /\ DOMAIN calls' = 1..(Len(calls) + 1) /\ calls'[Len(calls) + 1] = Add(md)
          /\ \A j \in 1..Len(calls) : calls'[j] = calls[j]
      BY <1>1, AppendProperties, LenProperties
    <3>2. i # Len(calls) + 1
      BY <2>4, <3>1 DEF Add
    <3>3. i \in DOMAIN calls /\ calls[i].call # "add" /\ i < Len(calls) + 1
      BY <2>4, <3>1, <3>2
    <3>4. a # new
      BY <2>4, <3>1, <3>3 DEF new
    <3>5. a \in Asked /\ Md(a)' = Md(a)
      BY <1>3, <3>4
    <3>6. StoredAs(params, Md(a))
      BY <2>4, <3>3, <3>5 DEF IInv, CallsInv
    <3>7. params' = params
      OBVIOUS
    <3>8. QED  BY <3>5, <3>6, <3>7
  <2>5. QED  BY <1>2, <2>1, <2>2, <2>3, <2>4 DEF CallsInv
<1>8. PhaseInv' /\ FileInv' /\ CoderInv'
  BY <1>2 DEF IInv, PhaseInv, FileInv, CoderInv, Initialized, Written, Deploying, GeneratedAccepts
<1>9. QED  BY <1>6, <1>7, <1>8 DEF IInv

\* A step of the engine, which leaves the calls and the parameters of the block.
LEMMA CallsKept ==
  ASSUME CallsInv, UNCHANGED <<calls, pending, params>>
  PROVE  /\ CallsInv'
         /\ Asked' = Asked /\ \A a : Md(a)' = Md(a)
<1>1. Asked' = Asked /\ \A a : Md(a)' = Md(a)
  BY DEF Asked, Md
<1>2. \A md : IsPending(md)' = IsPending(md) /\ StoredAs(params, md)' = StoredAs(params, md)
  BY DEF IsPending, StoredAs
<1>3. QED  BY <1>1, <1>2 DEF CallsInv

LEMMA BlockInitializedStep ==
  ASSUME IInv, BlockInitialized
  PROVE  IInv'
<1>1. /\ phase = "simulink" /\ phase' = "ready" /\ calls # <<>>
      /\ UNCHANGED <<mask, calls, pending, params, rtw, program, coder, at, deployed>>
  BY DEF BlockInitialized
<1>2. TypeInv'
  BY <1>1 DEF IInv, TypeInv, Phases
<1>3. CallsInv'
  BY <1>1, CallsKept DEF IInv
<1>4. PhaseInv' /\ FileInv' /\ CoderInv'
  BY <1>1 DEF IInv, PhaseInv, FileInv, CoderInv, Initialized, Written, Deploying, GeneratedAccepts
<1>5. QED  BY <1>2, <1>3, <1>4 DEF IInv

-----------------------------------------------------------------------------
(* Code generation *)

\* An order of the elements of a finite set has each of them once.
LEMMA OrderIsComplete ==
  ASSUME NEW S, IsFiniteSet(S), NEW o \in SetToSeqs(S)
  PROVE  /\ DOMAIN o = 1..Cardinality(S) /\ Cardinality(S) \in Nat
         /\ {o[i] : i \in DOMAIN o} = S
         /\ \A i, j \in DOMAIN o : i # j => o[i] # o[j]
<1> DEFINE D == 1..Cardinality(S)
<1>1. Cardinality(S) \in Nat
  BY FS_CardinalityType
<1>2. o \in [D -> S] /\ \A i, j \in D : i # j => o[i] # o[j]
  BY DEF SetToSeqs
<1>3. IsFiniteSet(D) /\ Cardinality(D) = Cardinality(S)
  BY <1>1, FS_Interval
<1> HIDE DEF D
<1>4. o \in Injection(D, S)
  BY <1>2 DEF Injection, IsInjective
<1>5. o \in Surjection(D, S)
  BY <1>3, <1>4, FS_Injection
<1>6. \A x \in S : \E i \in D : o[i] = x
  BY <1>5 DEF Surjection
<1>7. QED  BY <1>1, <1>2, <1>6 DEF D

LEMMA MdlRTWStep ==
  ASSUME IInv, MdlRTW
  PROVE  IInv'
<1>1. CASE Fails("failed")
  BY <1>1, FailsStep
<1>2. ASSUME \A name \in NamesIn(params) : ~Dynamic(Lookup(params, name)),
             NEW o \in Orders(params), rtw' = [i \in DOMAIN o |-> Lookup(params, o[i])],
             phase = "ready", phase' = "written",
             UNCHANGED <<mask, calls, pending, params, program, coder, at, deployed>>
      PROVE  IInv'
  <2>1. /\ DOMAIN o = 1..Cardinality(NamesIn(params)) /\ Cardinality(NamesIn(params)) \in Nat
        /\ {o[i] : i \in DOMAIN o} = NamesIn(params)
        /\ \A i, j \in DOMAIN o : i # j => o[i] # o[j]
    <3>1. o \in SetToSeqs(NamesIn(params)) /\ IsFiniteSet(NamesIn(params))
      BY <1>2 DEF Orders, NamesIn, IInv, TypeInv, StoreInv
    <3>2. QED  BY <3>1, OrderIsComplete
  <2>2. \A i \in DOMAIN o : o[i] \in NamesIn(params)
    BY <2>1
  <2>3. \A i \in DOMAIN o : Lookup(params, o[i]) \in Parameter /\ Lookup(params, o[i]).md.name = o[i]
    BY <2>2, LookupStored DEF IInv, TypeInv
  <2>4. DOMAIN rtw' = DOMAIN o /\ \A i \in DOMAIN o : rtw'[i] = Lookup(params, o[i])
    BY <1>2
  <2>5. rtw' \in Seq(Parameter)
    BY <1>2, <2>1, <2>3
  <2>6. TypeInv'
    BY <1>2, <2>5 DEF IInv, TypeInv, Phases
  <2>7. CallsInv'
    BY <1>2, CallsKept DEF IInv
  <2>8. FileInv'
    <3>1. Covers(rtw)'
      BY <1>2, <2>1, <2>3, <2>4 DEF Covers
    <3>2. \A i \in DOMAIN rtw' : rtw'[i] = Lookup(params, rtw'[i].md.name)
      BY <2>3, <2>4
    <3>3. QED  BY <1>2, <3>1, <3>2 DEF FileInv
  <2>9. PhaseInv' /\ CoderInv'
    BY <1>2 DEF IInv, PhaseInv, CoderInv, Initialized, Written, Deploying, GeneratedAccepts
  <2>10. QED  BY <2>6, <2>7, <2>8, <2>9 DEF IInv
<1>3. QED  BY <1>1, <1>2 DEF MdlRTW, NamesIn

\* A parameter that is written with cols elements can be stored again.
LEMMA GeneratedIsStorable ==
  ASSUME NEW p \in Parameter, Settled(p), ~TwoDimensional(p),
         p.isScalar \/ p.md.cols <= Len(p.data)
  PROVE  /\ Generated(p) \in Parameter /\ Generated(p).md = p.md
         /\ Settled(Generated(p)) /\ ~TwoDimensional(Generated(p))
         /\ Len(p.data) = p.md.cols => Generated(p) = p
<1>1. CASE p.isScalar
  BY <1>1 DEF Generated
<1>2. CASE ~p.isScalar
  <2> DEFINE d == SubSeq(p.data, 1, p.md.cols)
             c == p.md.cols
  <2>1. /\ p.data \in Seq(Int) /\ p.md \in Metadatas /\ c \in Int /\ p.isScalar = FALSE
        /\ p = [isScalar |-> FALSE, data |-> p.data, md |-> p.md]
    BY <1>2 DEF Parameter, Metadatas
  <2>2. Len(p.data) \in Nat /\ DOMAIN p.data = 1..Len(p.data) /\ c <= Len(p.data)
    BY <1>2, <2>1, LenProperties
  <2>3. \A i \in 1..c : i \in 1..Len(p.data) /\ p.data[i] \in Int
    BY <2>1, <2>2, ElementOfSeq
  <2>4. /\ d \in Seq(Int) /\ Len(d) = (IF 1 <= c THEN c - 1 + 1 ELSE 0)
        /\ \A i \in 1..(c - 1 + 1) : d[i] = p.data[1 + i - 1]
    <3>1. 1 \in Int
      OBVIOUS
    <3>2. QED  BY <2>1, <2>3, <3>1, SubSeqProperties
  <2> HIDE DEF d
  <2>5. /\ Len(d) = (IF 1 <= c THEN c ELSE 0) /\ DOMAIN d = 1..Len(d)
        /\ \A i \in DOMAIN d : i \in DOMAIN p.data /\ d[i] = p.data[i]
    <3>1. Len(d) = (IF 1 <= c THEN c ELSE 0) /\ DOMAIN d = 1..Len(d)
      BY <2>1, <2>4, LenProperties
    <3>2. ASSUME NEW i \in DOMAIN d PROVE i \in DOMAIN p.data /\ d[i] = p.data[i]
      <4>1. i \in Int /\ 1 <= c /\ i \in 1..c
        BY <2>1, <3>1
      <4>2. i \in 1..(c - 1 + 1) /\ 1 + i - 1 = i /\ i \in 1..Len(p.data)
        BY <2>1, <2>2, <4>1
      <4>3. QED  BY <2>2, <2>4, <4>2
    <3>3. QED  BY <3>1, <3>2
  <2>6. Generated(p) = [isScalar |-> FALSE, data |-> d, md |-> p.md]
    BY <1>2, <2>1 DEF Generated, d
  <2>7. Settled(Generated(p))
    BY <2>5, <2>6 DEF Settled
  <2>8. ~TwoDimensional(Generated(p))
    <3>1. p.md.rows = 1 \/ c = Len(p.data)
      BY <1>2 DEF TwoDimensional
    <3>2. c = Len(p.data) => c = Len(d)
      BY <2>1, <2>2, <2>5
    <3>3. QED  BY <2>6, <3>1, <3>2 DEF TwoDimensional
  <2>9. ASSUME Len(p.data) = c PROVE Generated(p) = p
    <3>1. d = p.data
      BY <2>1, <2>9, SubSeqFull DEF d
    <3>2. QED  BY <2>1, <2>6, <3>1
  <2>10. Generated(p) \in Parameter
    BY <2>1, <2>4, <2>6 DEF Parameter
  <2>11. QED  BY <2>6, <2>7, <2>8, <2>9, <2>10
<1>3. QED  BY <1>1, <1>2

\* A misprint has the length and the metadata of what it stands for.
LEMMA MisprintIsStorable ==
  ASSUME NEW p \in Parameter, Generated(p) \in Parameter, Generated(p).md = p.md,
         ~TwoDimensional(Generated(p)), NEW q \in Misprints(p)
  PROVE  q \in Parameter /\ q.md = p.md /\ ~TwoDimensional(q)
<1> DEFINE g == Generated(p)
<1>1. PICK d \in [DOMAIN g.data -> Misread] : q = [g EXCEPT !.data = d]
  BY DEF Misprints
<1> HIDE DEF g
<1>2. g = [isScalar |-> g.isScalar, data |-> g.data, md |-> g.md] /\ g.data \in Seq(Int)
      /\ g \in Parameter /\ g.md = p.md /\ ~TwoDimensional(g)
  BY DEF g, Parameter
<1>3. DOMAIN g.data = 1..Len(g.data) /\ Len(g.data) \in Nat
  BY <1>2, LenProperties
<1>4. d \in [1..Len(g.data) -> Int]
  BY <1>3, ParameterAssumption
<1>5. d \in Seq(Int) /\ Len(d) = Len(g.data)
  BY <1>3, <1>4, IsASeq, LenProperties
<1>6. q = [isScalar |-> g.isScalar, data |-> d, md |-> g.md]
  BY <1>1, <1>2
<1>7. QED  BY <1>2, <1>5, <1>6 DEF Parameter, TwoDimensional

LEMMA GenerateStep ==
  ASSUME IInv, Generate
  PROVE  IInv'
<1> DEFINE fragile == {i \in DOMAIN rtw : ~Printable(rtw[i])}
<1> HIDE DEF fragile
<1>1. CASE Fails("failed")
  BY <1>1, FailsStep
<1>2. ASSUME phase = "written", phase' = "generated",
             \A i \in DOMAIN rtw : ~TooShort(rtw[i]),
             NEW misprint, \A i \in fragile : misprint[i] \in Misprints(rtw[i]),
             program' = [i \in DOMAIN rtw |-> IF i \in fragile THEN misprint[i] ELSE Generated(rtw[i])],
             UNCHANGED <<mask, calls, pending, params, rtw, coder, at, deployed>>
      PROVE  IInv'
  <2>1. /\ Covers(rtw) /\ rtw \in Seq(Parameter) /\ StoreInv(params)
        /\ \A i \in DOMAIN rtw : rtw[i] = Lookup(params, rtw[i].md.name)
    BY <1>2 DEF IInv, FileInv, TypeInv
  <2>2. DOMAIN rtw = 1..Len(rtw) /\ Len(rtw) \in Nat /\ DOMAIN program' = DOMAIN rtw
    BY <1>2, <2>1, LenProperties
  <2>3. ASSUME NEW i \in DOMAIN rtw
        PROVE  program'[i] \in Parameter /\ ~TwoDimensional(program'[i]) /\ Stands(program'[i], rtw[i])
    <3>1. rtw[i].md.name \in NamesIn(params)
      BY <2>1 DEF Covers
    <3>2. rtw[i] \in Parameter /\ Settled(rtw[i]) /\ ~TwoDimensional(rtw[i])
      BY <2>1, <3>1, LookupStored
    <3>3. rtw[i].isScalar \/ rtw[i].md.cols <= Len(rtw[i].data)
      <4>1. rtw[i].md.cols \in Int /\ Len(rtw[i].data) \in Int
        BY <3>2, LenProperties DEF Parameter, Metadatas
      <4>2. rtw[i].isScalar \/ ~(rtw[i].md.cols > Len(rtw[i].data))
        BY <1>2 DEF TooShort
      <4>3. QED  BY <4>1, <4>2
    <3>4. /\ Generated(rtw[i]) \in Parameter /\ Generated(rtw[i]).md = rtw[i].md
          /\ ~TwoDimensional(Generated(rtw[i])) /\ Settled(Generated(rtw[i]))
      BY <3>2, <3>3, GeneratedIsStorable
    <3>5. CASE i \in fragile
      <4>1. program'[i] = misprint[i] /\ program'[i] \in Misprints(rtw[i]) /\ ~Printable(rtw[i])
        BY <1>2, <3>5 DEF fragile
      <4>2. program'[i] \in Parameter /\ program'[i].md = rtw[i].md /\ ~TwoDimensional(program'[i])
        BY <3>2, <3>4, <4>1, MisprintIsStorable
      <4>3. QED  BY <4>1, <4>2 DEF Stands
    <3>6. CASE i \notin fragile
      <4>1. program'[i] = Generated(rtw[i])
        BY <1>2, <3>6
      <4>2. QED  BY <3>4, <4>1 DEF Stands
    <3>7. QED  BY <3>5, <3>6
  <2>4. TypeInv'
    <3>1. program' \in Seq(Parameter)
      BY <1>2, <2>2, <2>3
    <3>2. QED  BY <1>2, <3>1 DEF IInv, TypeInv, Phases
  <2>5. CallsInv'
    BY <1>2, CallsKept DEF IInv
  <2>6. FileInv'
    <3>1. \A i \in DOMAIN rtw : program'[i].md = rtw[i].md
      BY <2>3 DEF Stands
    <3>2. Covers(program)'
      BY <1>2, <2>1, <2>2, <3>1 DEF Covers
    <3>3. ASSUME NEW i \in DOMAIN program'
          PROVE  /\ ~TwoDimensional(program'[i])
                 /\ Stands(program'[i], Lookup(params', program'[i].md.name))
      BY <1>2, <2>1, <2>2, <2>3, <3>1
    <3>4. \A name \in NamesIn(params') : ~Dynamic(Lookup(params', name))
      BY <1>2 DEF IInv, FileInv, Written
    <3>5. QED  BY <1>2, <3>2, <3>3, <3>4 DEF FileInv
  <2>7. PhaseInv' /\ CoderInv'
    BY <1>2 DEF IInv, PhaseInv, CoderInv, Initialized, Written, Deploying, GeneratedAccepts
  <2>8. QED  BY <2>4, <2>5, <2>6, <2>7 DEF IInv
<1>3. QED  BY <1>1, <1>2 DEF Generate, fragile

-----------------------------------------------------------------------------
(* In the generated program *)

LEMMA StartGeneratedStep ==
  ASSUME IInv, StartGenerated
  PROVE  IInv'
<1>1. /\ phase = "generated" /\ phase' = "starting"
      /\ coder' = [ps |-> StoreAll(NoParameters, program), mds |-> <<>>]
      /\ UNCHANGED <<mask, calls, pending, params, rtw, program, at, deployed>>
  BY DEF StartGenerated
<1>2. /\ program \in Seq(Parameter) /\ DOMAIN program = 1..Len(program) /\ Covers(program)
      /\ \A i \in DOMAIN program : /\ ~TwoDimensional(program[i])
                                   /\ Stands(program[i], Lookup(params, program[i].md.name))
                                   /\ program[i] \in Parameter
  BY <1>1, LenProperties, ElementOfSeq DEF IInv, TypeInv, FileInv
<1>3. Extends(NoParameters, coder'.ps, program, Len(program))
  BY <1>1, <1>2, StoreAllOfDifferent DEF Covers
<1>4. NamesIn(coder'.ps) = NamesIn(params)
  BY <1>2, <1>3, EmptyStore DEF Extends, Covers
<1>5. ASSUME NEW name \in NamesIn(params)
      PROVE  Stands(Lookup(coder'.ps, name), Lookup(params, name))
  <2>1. PICK i \in DOMAIN program : program[i].md.name = name
    BY <1>2 DEF Covers
  <2>2. Lookup(coder'.ps, name) = Converted(program[i])
    BY <1>2, <1>3, <2>1 DEF Extends
  <2> DEFINE p == Lookup(params, name)
  <2>3. /\ Stands(program[i], p) /\ program[i] \in Parameter
        /\ Converted(program[i]).md = program[i].md
        /\ Settled(program[i]) => Converted(program[i]) = program[i]
    BY <1>2, <2>1, ConvertedIsSettled
  <2> HIDE DEF p
  <2>4. Stands(Lookup(coder'.ps, name), p)
    BY <2>2, <2>3 DEF Stands
  <2>5. QED  BY <2>4 DEF p
<1>6. TypeInv'
  <2>1. StoreInv(coder'.ps) /\ coder' = [ps |-> coder'.ps, mds |-> coder'.mds]
    BY <1>1, <1>3 DEF Extends
  <2>2. coder'.mds \in Seq(Metadatas)
    BY <1>1, EmptySeq
  <2>3. QED  BY <1>1, <2>1, <2>2 DEF IInv, TypeInv, Phases
<1>7. CallsInv'
  BY <1>1, CallsKept DEF IInv
<1>8. CoderInv'
  <2>1. DOMAIN coder'.mds = {} /\ at' = 1
    BY <1>1 DEF IInv, PhaseInv
  <2>2. QED  BY <1>1, <1>4, <1>5, <2>1 DEF CoderInv
<1>9. PhaseInv' /\ FileInv'
  BY <1>1 DEF IInv, PhaseInv, FileInv, Initialized, Written, GeneratedAccepts
<1>10. QED  BY <1>6, <1>7, <1>8, <1>9 DEF IInv

\* What was stored for the block in Simulink is known in the generated program, with
\* the size it got in Simulink.
LEMMA KnownInProgram ==
  ASSUME IInv, Deploying, NEW a \in Asked, StoredAs(params, Md(a)),
         NEW m \in {Md(a), CoderSized(Md(a))}
  PROVE  /\ Known(m) /\ m.name = Md(a).name
         /\ m \in Metadatas
         /\ CoderSized(m) = CoderSized(Md(a)) /\ CoderSized(m) \in Metadatas
         /\ Md(a).name \in NamesIn(coder.ps)
<1> DEFINE md == Md(a)
           p  == Lookup(params, md.name)
           n  == Len(p.data)
<1>1. md \in Metadatas
  BY AskedIsMetadata DEF IInv, TypeInv
<1>2. md.name \in NamesIn(params) /\ p.md = Sized(md, n)
  BY DEF StoredAs
<1>3. p \in Parameter /\ n \in Int /\ n # DynamicSize
  <2>1. p \in Parameter
    BY <1>2, LookupStored DEF IInv, TypeInv
  <2>2. p.data \in Seq(Int)
    BY <2>1 DEF Parameter
  <2>3. n \in Nat
    BY <2>2, LenProperties
  <2>4. QED  BY <2>1, <2>3 DEF DynamicSize
<1>4. /\ md.name \in NamesIn(coder.ps) /\ ExistName(coder.ps, md.name)
      /\ Stands(Lookup(coder.ps, md.name), p)
  BY <1>2, LookupStored DEF IInv, TypeInv, CoderInv
<1>5. Lookup(coder.ps, md.name).md = p.md
  BY <1>4 DEF Stands
<1> HIDE DEF md, p, n
<1>6. GetParameterMetadata(coder.ps, md.name) = Sized(md, n)
  BY <1>2, <1>4, <1>5 DEF GetParameterMetadata
<1>7. /\ Sized(md, n) \in Metadatas /\ Sized(md, n).name = md.name
      /\ md.cols # DynamicSize => Sized(md, n) = md
      /\ md.cols = DynamicSize => Sized(md, n).cols = n
      /\ \A k \in Int : Sized(Sized(md, n), k) = Sized(md, n)
  BY <1>1, <1>3, SizedMetadata
<1>8. Sized(md, n).cols \in Int /\ Sized(md, n).cols # DynamicSize
  BY <1>3, <1>7 DEF Metadatas
<1>9. CoderSized(md) = Sized(md, n)
  <2>1. CoderSized(md) = Sized(md, Sized(md, n).cols)
    BY <1>6 DEF CoderSized
  <2>2. CASE md.cols = DynamicSize
    BY <1>7, <2>1, <2>2
  <2>3. CASE md.cols # DynamicSize
    BY <1>7, <2>1, <2>3 DEF Sized
  <2>4. QED  BY <2>2, <2>3
<1>10. CoderSized(Sized(md, n)) = Sized(md, n)
  BY <1>6, <1>7, <1>8 DEF CoderSized
<1>11. m = md \/ m = Sized(md, n)
  BY <1>9 DEF md
<1>12. m.name = md.name /\ m \in Metadatas /\ CoderSized(m) = Sized(md, n)
  BY <1>1, <1>7, <1>9, <1>10, <1>11
<1>13. Known(m)
  BY <1>4, <1>6, <1>8, <1>12 DEF Known
<1>14. QED  BY <1>4, <1>7, <1>9, <1>12, <1>13 DEF md

LEMMA SomeParameters ==
  ASSUME NEW ps, StoreInv(ps), NEW name \in NamesIn(ps)
  PROVE  NumberOfParameters(ps) # 0
<1> DEFINE U == UNION {{e} \X DOMAIN ps.maps[e] : e \in Elems}
<1>1. IsFiniteSet(Elems) /\ IsFiniteSet(NamesIn(ps))
  <2>1. Elems = {"INT"} \cup {"BOOL"} \cup {"DOUBLE"} \cup {"STRING"}
    BY DEF Elems
  <2>2. IsFiniteSet({"INT"} \cup {"BOOL"})
    BY FS_Singleton, FS_AddElement
  <2>3. IsFiniteSet({"INT"} \cup {"BOOL"} \cup {"DOUBLE"})
    BY <2>2, FS_AddElement
  <2>4. IsFiniteSet({"INT"} \cup {"BOOL"} \cup {"DOUBLE"} \cup {"STRING"})
    BY <2>3, FS_AddElement
  <2>5. QED  BY <2>1, <2>4 DEF StoreInv
<1>2. IsFiniteSet(Elems \X NamesIn(ps))
  BY <1>1, FS_Product
<1>3. U \in SUBSET (Elems \X NamesIn(ps))
  BY DEF StoreInv
<1>4. IsFiniteSet(U)
  BY <1>2, <1>3, FS_Subset
<1>5. <<ps.nameToType[name].elem, name>> \in U
  BY DEF StoreInv
<1>6. QED  BY <1>4, <1>5, FS_EmptySet DEF NumberOfParameters

\* A metadata that is added again was stored, and is pending once more.
LEMMA RejectedAgain ==
  ASSUME IInv, Replay, NEW i \in DOMAIN calls[at].md, Declared(coder.mds, calls[at].md[i])
  PROVE  ExistName(params, calls[at].md[i].name) /\ Declared(pending, calls[at].md[i])
<1>1. /\ Deploying /\ at \in Nat /\ at \in DOMAIN calls /\ calls \in Seq(CallType)
  <2>1. /\ calls \in Seq(CallType) /\ Len(calls) \in Nat /\ DOMAIN calls = 1..Len(calls)
        /\ at \in 1..(Len(calls) + 1)
    BY LenProperties DEF IInv, TypeInv
  <2>2. QED  BY <2>1 DEF Replay, Deploying
<1>2. <<at, i>> \in Asked /\ Md(<<at, i>>) = calls[at].md[i]
  BY <1>1 DEF Asked, Md
<1>3. PICK k \in DOMAIN coder.mds : coder.mds[k].name = Md(<<at, i>>).name
  BY <1>2 DEF Declared
<1>4. PICK a \in Asked : a[1] < at /\ coder.mds[k] \in {Md(a), CoderSized(Md(a))}
  BY <1>1 DEF IInv, CoderInv
<1>5. Md(a) \in Metadatas
  BY <1>1, AskedIsMetadata
<1>6. Md(a).name = Md(<<at, i>>).name
  BY <1>3, <1>4, <1>5, SizedKeepsName DEF CoderSized
<1>7. a # <<at, i>>
  BY <1>1, <1>4
<1>8. Declared(pending, Md(<<at, i>>)) /\ Md(<<at, i>>).name \in NamesIn(params)
  <2>1. Declared(pending, Md(a)) /\ Md(a).name \in NamesIn(params)
    BY <1>2, <1>6, <1>7 DEF IInv, CallsInv
  <2>2. QED  BY <1>6, <2>1 DEF Declared
<1>9. QED  BY <1>2, <1>8, LookupStored DEF IInv, TypeInv

LEMMA RejectStep ==
  ASSUME IInv, Replay, Fails("rejected"), NEW i \in DOMAIN calls[at].md,
         Declared(coder.mds, calls[at].md[i])
  PROVE  IInv'
<1>1. /\ phase' = "rejected" /\ phase' \in Phases
      /\ UNCHANGED <<mask, calls, pending, params, rtw, program, coder, at, deployed>>
  BY DEF Fails, Phases
<1>2. TypeInv'
  BY <1>1 DEF IInv, TypeInv
<1>3. CallsInv'
  BY <1>1, CallsKept DEF IInv
<1>4. GeneratedAccepts'
  <2>1. ExistName(params, calls[at].md[i].name) /\ Declared(pending, calls[at].md[i])
    BY RejectedAgain
  <2>2. QED  BY <1>1, <2>1 DEF GeneratedAccepts
<1>5. PhaseInv' /\ FileInv' /\ CoderInv'
  BY <1>1, <1>4 DEF PhaseInv, FileInv, CoderInv, Initialized, Written, Deploying
<1>6. QED  BY <1>2, <1>3, <1>5 DEF IInv

LEMMA ReplayStep ==
  ASSUME IInv, Replay
  PROVE  IInv'
<1> DEFINE call == calls[at]
           mds  == call.md
           all  == coder.mds \o mds
           parses == call.call # "add"
<1>1. /\ phase = "starting" /\ Deploying /\ at <= Len(calls) /\ at \in Nat /\ at >= 1
      /\ Len(calls) \in Nat /\ at \in DOMAIN calls
      /\ call \in CallType /\ mds \in Seq(Metadatas) /\ coder.mds \in Seq(Metadatas)
  <2>1. /\ calls \in Seq(CallType) /\ Len(calls) \in Nat /\ DOMAIN calls = 1..Len(calls)
        /\ at \in 1..(Len(calls) + 1)
    BY LenProperties DEF IInv, TypeInv
  <2>2. at \in 1..Len(calls) /\ phase = "starting" /\ coder.mds \in Seq(Metadatas)
    BY <2>1 DEF Replay, IInv, TypeInv
  <2>3. call \in CallType
    BY <2>1, <2>2, ElementOfSeq
  <2>4. mds \in Seq(Metadatas)
    BY <2>3, CallCases
  <2>5. QED  BY <2>1, <2>2, <2>3, <2>4 DEF Deploying
<1>2. \A i \in DOMAIN mds : <<at, i>> \in Asked /\ Md(<<at, i>>) = mds[i]
  BY <1>1 DEF Asked, Md
<1>3. \A k \in DOMAIN coder.mds : \E a \in Asked : a[1] < at /\ coder.mds[k] \in {Md(a), CoderSized(Md(a))}
  BY <1>1 DEF IInv, CoderInv
<1>4. ASSUME parses, NEW a \in Asked, a[1] < at + 1 PROVE StoredAs(params, Md(a))
  <2>1. a[1] \in Nat
    BY AskedIsMetadata DEF IInv, TypeInv
  <2>2. a[1] <= at
    BY <1>1, <1>4, <2>1
  <2>3. QED  BY <1>1, <1>4, <2>2 DEF IInv, CallsInv
<1>5. /\ Len(coder.mds) \in Nat /\ DOMAIN coder.mds = 1..Len(coder.mds)
      /\ Len(mds) \in Nat /\ DOMAIN mds = 1..Len(mds)
      /\ all \in Seq(Metadatas) /\ DOMAIN all = 1..(Len(coder.mds) + Len(mds))
      /\ \A i \in 1..(Len(coder.mds) + Len(mds)) :
           all[i] = IF i <= Len(coder.mds) THEN coder.mds[i] ELSE mds[i - Len(coder.mds)]
  <2> HIDE DEF mds
  <2>1. /\ Len(coder.mds) \in Nat /\ DOMAIN coder.mds = 1..Len(coder.mds)
        /\ Len(mds) \in Nat /\ DOMAIN mds = 1..Len(mds)
    BY <1>1, LenProperties
  <2>2. /\ all \in Seq(Metadatas) /\ Len(all) = Len(coder.mds) + Len(mds)
        /\ \A i \in 1..(Len(coder.mds) + Len(mds)) :
             all[i] = IF i <= Len(coder.mds) THEN coder.mds[i] ELSE mds[i - Len(coder.mds)]
    BY <1>1, ConcatProperties
  <2> HIDE DEF all
  <2>3. DOMAIN all = 1..Len(all)
    BY <2>2, LenProperties
  <2>4. QED  BY <2>1, <2>2, <2>3
<1> HIDE DEF mds, all
<1>6. ASSUME NEW k \in DOMAIN all
      PROVE  \E a \in Asked : a[1] < at + 1 /\ all[k] \in {Md(a), CoderSized(Md(a))}
  <2>1. CASE k <= Len(coder.mds)
    <3>1. k \in DOMAIN coder.mds /\ all[k] = coder.mds[k]
      BY <1>5, <2>1
    <3>2. PICK a \in Asked : a[1] < at /\ coder.mds[k] \in {Md(a), CoderSized(Md(a))}
      BY <1>3, <3>1
    <3>3. a[1] \in Nat
      BY AskedIsMetadata DEF IInv, TypeInv
    <3>4. a[1] < at + 1
      BY <1>1, <3>2, <3>3
    <3>5. QED  BY <3>1, <3>2, <3>4
  <2>2. CASE ~(k <= Len(coder.mds))
    <3>1. k - Len(coder.mds) \in DOMAIN mds /\ all[k] = mds[k - Len(coder.mds)]
      BY <1>5, <2>2
    <3>2. /\ <<at, k - Len(coder.mds)>> \in Asked
          /\ all[k] = Md(<<at, k - Len(coder.mds)>>)
      BY <1>2, <3>1
    <3>3. at < at + 1
      BY <1>1
    <3>4. QED  BY <3>2, <3>3
  <2>3. QED  BY <2>1, <2>2
<1>7. ASSUME \E i \in DOMAIN mds : Declared(coder.mds, mds[i]) PROVE IInv'
  <2>1. Fails("rejected")
    BY <1>7 DEF Replay, CoderCall, mds
  <2>2. QED  BY <1>7, <2>1, RejectStep DEF mds
<1>8. ASSUME parses, NEW k \in DOMAIN all
      PROVE  Known(all[k]) /\ CoderSized(all[k]) \in Metadatas
  <2>1. PICK a \in Asked : a[1] < at + 1 /\ all[k] \in {Md(a), CoderSized(Md(a))}
    BY <1>6
  <2>2. StoredAs(params, Md(a))
    BY <1>4, <1>8, <2>1
  <2>3. QED  BY <1>1, <2>1, <2>2, KnownInProgram
<1>9. NumberOfParameters(coder.ps) # 0
  <2>1. calls # <<>> /\ calls[1] = Base /\ 1 \in DOMAIN calls
    <3>1. calls # <<>>
      BY <1>1 DEF IInv, PhaseInv, Initialized
    <3>2. 1 \in 1..Len(calls) /\ DOMAIN calls = 1..Len(calls)
      BY <1>1, LenProperties DEF IInv, TypeInv
    <3>3. QED  BY <3>1, <3>2 DEF IInv, CallsInv
  <2>2. <<1, 1>> \in Asked /\ StoredAs(params, Md(<<1, 1>>))
    <3>1. <<1, 1>> \in Asked /\ calls[1].call # "add"
      BY <2>1, BaseFacts DEF Asked, Base
    <3>2. QED  BY <2>1, <3>1 DEF IInv, CallsInv
  <2>3. Md(<<1, 1>>).name \in NamesIn(coder.ps)
    BY <1>1, <2>2, KnownInProgram
  <2>4. QED  BY <2>3, SomeParameters DEF IInv, TypeInv
<1> SUFFICES ASSUME ~\E i \in DOMAIN mds : Declared(coder.mds, mds[i]) PROVE IInv'
  BY <1>7
<1>10. /\ coder' = [coder EXCEPT !.mds = IF parses THEN [i \in DOMAIN all |-> CoderSized(all[i])] ELSE all]
       /\ deployed' = IF parses THEN coder.ps ELSE deployed
       /\ at' = at + 1
       /\ UNCHANGED <<mask, phase, calls, pending, params, rtw, program>>
  BY <1>8, <1>9 DEF Replay, CoderCall, mds, all
<1>11. coder = [ps |-> coder.ps, mds |-> coder.mds]
  BY DEF IInv, TypeInv
<1>12. coder' = [ps |-> coder.ps, mds |-> coder'.mds] /\ coder'.ps = coder.ps
       /\ coder'.mds = IF parses THEN [i \in DOMAIN all |-> CoderSized(all[i])] ELSE all
  BY <1>10, <1>11
<1> HIDE DEF parses
<1>13. TypeInv'
  <2>1. coder'.mds \in Seq(Metadatas)
    <3>1. CASE parses
      BY <1>5, <1>8, <1>12, <3>1
    <3>2. CASE ~parses
      BY <1>5, <1>12, <3>2
    <3>3. QED  BY <3>1, <3>2
  <2>2. at' \in 1..(Len(calls') + 1)
    BY <1>1, <1>10
  <2>3. StoreInv(deployed') /\ StoreInv(coder'.ps)
    BY <1>10, <1>12 DEF IInv, TypeInv
  <2>4. coder' = [ps |-> coder'.ps, mds |-> coder'.mds]
    BY <1>12
  <2>5. QED  BY <1>10, <2>1, <2>2, <2>3, <2>4 DEF IInv, TypeInv
<1>14. CallsInv' /\ Asked' = Asked /\ \A a : Md(a)' = Md(a)
  BY <1>10, CallsKept DEF IInv
<1>15. CoderInv'
  <2>1. \A m : CoderSized(m)' = CoderSized(m)
    BY <1>12 DEF CoderSized
  <2>2. ASSUME NEW k \in DOMAIN coder'.mds
        PROVE  \E a \in Asked' : a[1] < at' /\ coder'.mds[k] \in {Md(a)', CoderSized(Md(a))'}
    <3>1. k \in DOMAIN all /\ (coder'.mds[k] = all[k] \/ coder'.mds[k] = CoderSized(all[k]))
      BY <1>12
    <3>2. PICK a \in Asked : a[1] < at + 1 /\ all[k] \in {Md(a), CoderSized(Md(a))}
      BY <1>6, <3>1
    <3>3. CASE parses
      <4>1. StoredAs(params, Md(a))
        BY <1>4, <3>2, <3>3
      <4>2. CoderSized(all[k]) = CoderSized(Md(a))
        BY <1>1, <3>2, <4>1, KnownInProgram
      <4>3. a[1] < at' /\ coder'.mds[k] \in {Md(a), CoderSized(Md(a))}
        BY <1>10, <3>1, <3>2, <4>2
      <4>4. QED  BY <1>14, <2>1, <4>3
    <3>4. CASE ~parses
      <4>1. a[1] < at' /\ coder'.mds[k] \in {Md(a), CoderSized(Md(a))}
        BY <1>5, <1>10, <1>12, <3>2, <3>4
      <4>2. QED  BY <1>14, <2>1, <4>1
    <3>5. QED  BY <3>3, <3>4
  <2>3. deployed' = coder'.ps
    <3>1. CASE parses
      BY <1>10, <1>12, <3>1
    <3>2. CASE ~parses
      <4>1. at > 1
        <5>1. calls[1] = Base
          BY <1>1 DEF IInv, PhaseInv, CallsInv, Initialized
        <5>2. at # 1
          BY <3>2, <5>1 DEF parses, Base
        <5>3. QED  BY <1>1, <5>2
      <4>2. deployed = coder.ps
        BY <1>1, <4>1 DEF IInv, CoderInv
      <4>3. QED  BY <1>10, <1>12, <3>2, <4>2
    <3>3. QED  BY <3>1, <3>2
  <2>4. /\ NamesIn(coder'.ps) = NamesIn(params')
        /\ \A name \in NamesIn(params') : Stands(Lookup(coder'.ps, name), Lookup(params', name))
    BY <1>1, <1>10, <1>12 DEF IInv, CoderInv
  <2>5. QED  BY <2>2, <2>3, <2>4 DEF CoderInv
<1>16. PhaseInv' /\ FileInv'
  BY <1>1, <1>10 DEF IInv, PhaseInv, FileInv, Initialized, Written, Deploying, GeneratedAccepts
<1>17. QED  BY <1>13, <1>14, <1>15, <1>16 DEF IInv

LEMMA GeneratedInitializedStep ==
  ASSUME IInv, GeneratedInitialized
  PROVE  IInv'
<1>1. /\ phase = "starting" /\ at > Len(calls) /\ phase' = "running"
      /\ UNCHANGED <<mask, calls, pending, params, rtw, program, coder, at, deployed>>
  BY DEF GeneratedInitialized
<1>2. at > 1
  <2>1. calls # <<>> /\ Len(calls) \in Nat /\ at \in Nat
    BY <1>1, LenProperties DEF IInv, TypeInv, PhaseInv, Initialized
  <2>2. Len(calls) # 0
    BY <2>1, EmptySeq DEF IInv, TypeInv
  <2>3. QED  BY <1>1, <2>1, <2>2
<1>3. TypeInv'
  BY <1>1 DEF IInv, TypeInv, Phases
<1>4. CallsInv' /\ Asked' = Asked /\ \A a : Md(a)' = Md(a)
  BY <1>1, CallsKept DEF IInv
<1>5. CoderInv'
  <2>1. \A m : CoderSized(m)' = CoderSized(m)
    BY <1>1 DEF CoderSized
  <2>2. QED  BY <1>1, <1>4, <2>1 DEF IInv, CoderInv, Deploying
<1>6. PhaseInv' /\ FileInv'
  BY <1>1, <1>2 DEF IInv, PhaseInv, FileInv, Initialized, Written, GeneratedAccepts
<1>7. QED  BY <1>3, <1>4, <1>5, <1>6 DEF IInv

-----------------------------------------------------------------------------
(* Every step *)

LEMMA ParametersGrow ==
  ASSUME IInv, [Next]_vars
  PROVE  /\ IInv'
         /\ \A name \in NamesIn(params) :
              name \in NamesIn(params') /\ Lookup(params', name) = Lookup(params, name)
<1> DEFINE Grows == \A name \in NamesIn(params) :
                      name \in NamesIn(params') /\ Lookup(params', name) = Lookup(params, name)
<1>1. params' = params => Grows
  OBVIOUS
<1>2. ASSUME Fails("failed") PROVE IInv' /\ Grows
  BY <1>1, <1>2, FailsStep DEF Fails
<1>3. ASSUME NEW mds, NEW call, phase = "simulink", ParseParameters(mds, call),
             \/ calls = <<>> /\ mds = BaseMetadata /\ call = Base
             \/ calls # <<>> /\ mds = pending /\ call = Parse
      PROVE  IInv' /\ Grows
  <2>1. CASE ~ParseAll(mds, params).ok
    BY <1>3, <2>1, ParseFailsStep
  <2>2. CASE ParseAll(mds, params).ok
    BY <1>3, <2>2, ParseStep
  <2>3. QED  BY <2>1, <2>2
<1>4. CASE InitializeBlock
  BY <1>3, <1>4 DEF InitializeBlock, Calling
<1>5. ASSUME NEW md \in Declarable, AddParameterMetadata(md) PROVE IInv' /\ Grows
  <2>1. CASE Declared(pending, md)
    BY <1>2, <1>5, <2>1 DEF AddParameterMetadata
  <2>2. CASE ~Declared(pending, md)
    <3>1. /\ phase = "simulink" /\ calls # <<>>
          /\ pending' = Append(pending, md) /\ calls' = Append(calls, Add(md))
          /\ UNCHANGED <<mask, phase, params, rtw, program, coder, at, deployed>>
      BY <1>5, <2>2 DEF AddParameterMetadata, Calling
    <3>2. QED  BY <1>1, <2>2, <3>1, AddStep
  <2>3. QED  BY <2>1, <2>2
<1>6. CASE ParsePending
  BY <1>3, <1>6 DEF ParsePending, Calling
<1>7. CASE BlockInitialized
  BY <1>1, <1>7, BlockInitializedStep DEF BlockInitialized
<1>8. CASE MdlRTW
  BY <1>1, <1>8, MdlRTWStep DEF MdlRTW, Fails
<1>9. CASE Generate
  BY <1>1, <1>9, GenerateStep DEF Generate, Fails
<1>10. CASE StartGenerated
  BY <1>1, <1>10, StartGeneratedStep DEF StartGenerated
<1>11. CASE Replay
  BY <1>1, <1>11, ReplayStep DEF Replay, CoderCall, Fails
<1>12. CASE GeneratedInitialized
  BY <1>1, <1>12, GeneratedInitializedStep DEF GeneratedInitialized
<1>13. CASE UNCHANGED vars
  <2>1. UNCHANGED <<mask, phase, calls, pending, params, rtw, program, coder, at, deployed>>
    BY <1>13 DEF vars
  <2>2. TypeInv' /\ PhaseInv' /\ FileInv'
    BY <2>1 DEF IInv, TypeInv, PhaseInv, FileInv, Initialized, Written, Covers, GeneratedAccepts
  <2>3. CallsInv' /\ Asked' = Asked /\ \A a : Md(a)' = Md(a)
    BY <2>1, CallsKept DEF IInv
  <2>4. CoderInv'
    <3>1. \A m : CoderSized(m)' = CoderSized(m)
      BY <2>1 DEF CoderSized
    <3>2. QED  BY <2>1, <2>3, <3>1 DEF IInv, CoderInv, Deploying
  <2>5. QED  BY <1>1, <2>1, <2>2, <2>3, <2>4 DEF IInv
<1>14. QED
  BY <1>4, <1>5, <1>6, <1>7, <1>8, <1>9, <1>10, <1>11, <1>12, <1>13 DEF Next

\* The inductive invariant holds in every state.
THEOREM Inductive == Spec => []IInv
<1>1. Init => IInv
  BY InitStep
<1>2. IInv /\ [Next]_vars => IInv'
  BY ParametersGrow
<1>3. QED  BY <1>1, <1>2, PTL DEF Spec

-----------------------------------------------------------------------------
(* What follows for one object, and for two with the same parameters *)

LEMMA StoreIsWellTyped ==
  ASSUME NEW ps, StoreInv(ps)
  PROVE  WellTyped(ps)
BY DEF StoreInv, WellTyped, Settled, Parameter, Metadatas

LEMMA StoreIsCoherent ==
  ASSUME NEW ps, StoreInv(ps)
  PROVE  Coherent(ps)
<1>1. \A e \in Elems : \A name \in DOMAIN ps.maps[e] :
        /\ name \in DOMAIN ps.nameToType
        /\ ps.nameToType[name].elem = e
        /\ ps.nameToIndex[name] = ps.maps[e][name].md.index
        /\ ps.nameToIndex[name] \in DOMAIN ps.indexToName
  BY DEF StoreInv, NamesIn
<1>2. \A name \in DOMAIN ps.nameToType : name \in DOMAIN ps.maps[ps.nameToType[name].elem]
  BY DEF StoreInv, NamesIn
<1>3. \A i \in DOMAIN ps.indexToName : GetParamIndex(ps, GetParamName(ps, i)) = i
  BY DEF StoreInv, GetParamIndex, GetParamName
<1>4. QED  BY <1>1, <1>2, <1>3 DEF Coherent, StoreInv, NamesIn

\* The getters see nothing but the map from names to parameters.
LEMMA SameMetadata ==
  ASSUME NEW ps, NEW qs, StoreInv(ps), StoreInv(qs), NEW name, NamesIn(ps) = NamesIn(qs),
         name \in NamesIn(ps) => Lookup(ps, name).md = Lookup(qs, name).md
  PROVE  /\ GetParameterMetadata(ps, name) = GetParameterMetadata(qs, name)
         /\ GetParamIndex(ps, name) = GetParamIndex(qs, name)
<1>1. /\ ExistName(ps, name) <=> name \in NamesIn(ps)
      /\ ExistName(qs, name) <=> name \in NamesIn(ps)
      /\ name \in NamesIn(ps) => /\ ps.nameToIndex[name] = Lookup(ps, name).md.index
                                 /\ qs.nameToIndex[name] = Lookup(qs, name).md.index
  BY LookupStored
<1>2. DOMAIN ps.nameToIndex = NamesIn(ps) /\ DOMAIN qs.nameToIndex = NamesIn(ps)
  BY DEF StoreInv
<1>3. CASE name \in NamesIn(ps)
  BY <1>1, <1>2, <1>3 DEF GetParameterMetadata, GetParamIndex
<1>4. CASE name \notin NamesIn(ps)
  BY <1>1, <1>2, <1>4 DEF GetParameterMetadata, GetParamIndex
<1>5. QED  BY <1>3, <1>4

LEMMA SameGetters ==
  ASSUME NEW ps, NEW qs, StoreInv(ps), StoreInv(qs), NEW name, NamesIn(ps) = NamesIn(qs),
         name \in NamesIn(ps) => Lookup(ps, name) = Lookup(qs, name)
  PROVE  \A e, scalar : GetParameter(ps, name, e, scalar) = GetParameter(qs, name, e, scalar)
<1>1. /\ ExistName(ps, name) <=> name \in NamesIn(ps)
      /\ ExistName(qs, name) <=> name \in NamesIn(ps)
  BY LookupStored
<1>2. QED  BY <1>1 DEF GetParameter

LEMMA SameNumber ==
  ASSUME NEW ps, NEW qs, StoreInv(ps), StoreInv(qs), NamesIn(ps) = NamesIn(qs),
         \A name \in NamesIn(ps) : Lookup(ps, name).md = Lookup(qs, name).md
  PROVE  NumberOfParameters(ps) = NumberOfParameters(qs)
<1>1. \A name \in NamesIn(ps) : ps.nameToType[name].elem = qs.nameToType[name].elem
  BY LookupStored
<1>2. ASSUME NEW e \in Elems PROVE DOMAIN ps.maps[e] = DOMAIN qs.maps[e]
  <2>1. /\ DOMAIN ps.maps[e] = {name \in NamesIn(ps) : ps.nameToType[name].elem = e}
        /\ DOMAIN qs.maps[e] = {name \in NamesIn(ps) : qs.nameToType[name].elem = e}
    BY DEF StoreInv
  <2>2. QED  BY <1>1, <2>1
<1>3. UNION {{e} \X DOMAIN ps.maps[e] : e \in Elems} = UNION {{e} \X DOMAIN qs.maps[e] : e \in Elems}
  BY <1>2
<1>4. QED  BY <1>3 DEF NumberOfParameters

-----------------------------------------------------------------------------
(* The properties *)

\* Every variable has its type, and every stored number that of its parameter.
THEOREM TypeCorrect == Spec => []TypeOK
<1>1. IInv => TypeOK
  <2> SUFFICES ASSUME IInv PROVE TypeOK
    OBVIOUS
  <2>1. \A i \in DOMAIN pending : pending[i] \in Declarable
    BY ElementOfSeq, LenProperties DEF IInv, TypeInv
  <2>2. WellTyped(params) /\ WellTyped(coder.ps) /\ WellTyped(deployed)
    BY StoreIsWellTyped DEF IInv, TypeInv
  <2>3. QED  BY <2>1, <2>2 DEF TypeOK, IInv, TypeInv
<1>2. QED  BY <1>1, Inductive, PTL

\* In every Parameters object the maps agree, for any parameters, declared in any
\* order and any number of times: no getter of storeParameter's maps can fail.
THEOREM MapsAgree == Spec => []StoresCoherent
<1>1. IInv => StoresCoherent
  BY StoreIsCoherent DEF StoresCoherent, IInv, TypeInv
<1>2. QED  BY <1>1, Inductive, PTL

\* parseParameters adds, and changes or hides nothing that is stored.
THEOREM ParsingAdds == Spec => ParseOnlyAdds
<1>1. IInv /\ [Next]_vars =>
        [\A name \in DOMAIN params.nameToType :
           /\ name \in DOMAIN params'.nameToType
           /\ Lookup(params', name) = Lookup(params, name)]_vars
  BY ParametersGrow DEF NamesIn
<1>2. QED  BY <1>1, Inductive, PTL DEF Spec, ParseOnlyAdds

\* Of the calls of addParameterMetadata and parseParameters that succeeded in Simulink the
\* generated program refuses only one that adds again what was parsed and is never parsed again.
THEOREM ProgramAccepts == Spec => []GeneratedAccepts
<1>1. IInv => GeneratedAccepts
  BY DEF IInv, PhaseInv, GeneratedAccepts
<1>2. QED  BY <1>1, Inductive, PTL

\* The block in the generated program has the parameters, metadata and indices it has in
\* Simulink, and reads the same value of each parameter that has its declared length and no
\* text or number that a literal changes.
THEOREM ProgramReadsTheSame == Spec => []RoundTrip
<1>1. IInv => RoundTrip
  <2> SUFFICES ASSUME IInv, phase = "running"
               PROVE  /\ NumberOfParameters(deployed) = NumberOfParameters(params)
                      /\ \A name \in Names :
                           /\ GetParameterMetadata(deployed, name) = GetParameterMetadata(params, name)
                           /\ GetParamIndex(deployed, name) = GetParamIndex(params, name)
                           /\ Expressible(params, name) =>
                                \A e \in Elems, scalar \in BOOLEAN :
                                  GetParameter(deployed, name, e, scalar) = GetParameter(params, name, e, scalar)
    BY DEF RoundTrip
  <2>1. /\ StoreInv(params) /\ StoreInv(deployed) /\ NamesIn(deployed) = NamesIn(params)
        /\ \A name \in NamesIn(params) : Stands(Lookup(deployed, name), Lookup(params, name))
    BY DEF IInv, TypeInv, CoderInv, PhaseInv, Deploying
  <2>2. \A name \in NamesIn(params) : Lookup(deployed, name).md = Lookup(params, name).md
    BY <2>1 DEF Stands
  <2>3. NumberOfParameters(deployed) = NumberOfParameters(params)
    BY <2>1, <2>2, SameNumber
  <2>4. ASSUME NEW name, Expressible(params, name)
        PROVE  name \in NamesIn(params) => Lookup(deployed, name) = Lookup(params, name)
    <3> SUFFICES ASSUME name \in NamesIn(params) PROVE Lookup(deployed, name) = Lookup(params, name)
      OBVIOUS
    <3> DEFINE p == Lookup(params, name)
    <3>1. /\ ExistName(params, name) /\ p \in Parameter /\ Settled(p) /\ ~TwoDimensional(p)
      BY <2>1, LookupStored
    <3>2. Printable(p) /\ (p.isScalar \/ Len(p.data) = p.md.cols)
      BY <2>4, <3>1 DEF Expressible
    <3>3. Lookup(deployed, name) = Generated(p)
      BY <2>1, <3>2 DEF Stands
    <3>4. CASE p.isScalar
      BY <3>3, <3>4 DEF Generated
    <3>5. CASE Len(p.data) = p.md.cols
      <4>1. p.md.cols \in Int /\ p.md.cols <= Len(p.data)
        BY <3>1, <3>5 DEF Parameter, Metadatas
      <4>2. Generated(p) = p
        BY <3>1, <3>5, <4>1, GeneratedIsStorable
      <4>3. QED  BY <3>3, <4>2
    <3>6. QED  BY <3>2, <3>4, <3>5
  <2>5. ASSUME NEW name
        PROVE  /\ GetParameterMetadata(deployed, name) = GetParameterMetadata(params, name)
               /\ GetParamIndex(deployed, name) = GetParamIndex(params, name)
    BY <2>1, <2>2, SameMetadata
  <2>6. ASSUME NEW name, Expressible(params, name)
        PROVE  \A e, scalar : GetParameter(deployed, name, e, scalar) = GetParameter(params, name, e, scalar)
    BY <2>1, <2>4, <2>6, SameGetters
  <2>7. QED  BY <2>3, <2>5, <2>6
<1>2. QED  BY <1>1, Inductive, PTL
=============================================================================
