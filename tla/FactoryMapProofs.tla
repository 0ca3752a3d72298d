------------------------- MODULE FactoryMapProofs ---------------------------
(***************************************************************************)
(* What the operations on the factory map return, for any map: the lemmas  *)
(* that the proofs about the S-function and about the generated code cite. *)
(***************************************************************************)
EXTENDS FactoryMap, TLAPS

\* getClassFactory on key k leaves the other keys alone, and the factory of k as
\* it is or freshly opened.
LEMMA GotFactory ==
  ASSUME NEW fm \in [Keys -> Factory], NEW k \in Keys, NEW loadable,
         NEW got, got = GetClassFactory(fm, k, loadable)
  PROVE  /\ got \in [Keys -> Factory]
         /\ \A j \in Keys : j # k => got[j] = fm[j]
         /\ fm[k].open => got = fm
         /\ ~fm[k].open =>
              \/ got[k] = fm[k]
              \/ got[k] = [open |-> TRUE, gen |-> fm[k].gen + 1, rct |-> 1]
         /\ Found(fm, k, loadable) => got[k].open
BY DEF GetClassFactory, Found, Opened, Factory

\* The pointer that getClassFactory returns leads to a factory of the map.
LEMMA FoundIsOpen ==
  ASSUME NEW fm \in [Keys -> Factory], NEW k \in Keys, NEW loadable,
         NEW got, got = GetClassFactory(fm, k, loadable), Found(fm, k, loadable)
  PROVE  got \in [Keys -> Factory] /\ got[k].open
BY GotFactory

\* A reference more.
LEMMA AddedRef ==
  ASSUME NEW fm \in [Keys -> Factory], NEW k \in Keys
  PROVE  /\ AddRef(fm, k) \in [Keys -> Factory]
         /\ AddRef(fm, k)[k] = [open |-> fm[k].open, gen |-> fm[k].gen, rct |-> fm[k].rct + 1]
         /\ \A j \in Keys : j # k => AddRef(fm, k)[j] = fm[j]
<1>1. fm[k].open \in BOOLEAN /\ fm[k].gen \in Nat /\ fm[k].rct \in Nat
  BY DEF Factory
<1>2. Counted(fm[k], fm[k].rct + 1) \in Factory
  BY <1>1 DEF Counted, Factory
<1>3. QED  BY <1>2 DEF AddRef, Counted

\* The reference of a temporary block is back when its scope ends.
LEMMA ScopedBlock ==
  ASSUME NEW fm \in [Keys -> Factory], NEW k \in Keys
  PROVE  WithScopedBlock(fm, k) = fm
<1>1. PICK o \in BOOLEAN, g \in Nat, r \in Nat : fm[k] = [open |-> o, gen |-> g, rct |-> r]
  BY DEF Factory
<1>2. AddRef(fm, k) = [fm EXCEPT ![k] = [open |-> o, gen |-> g, rct |-> r + 1]]
  BY <1>1 DEF AddRef, Counted
<1>3. WithScopedBlock(fm, k) = [fm EXCEPT ![k] = [open |-> o, gen |-> g, rct |-> r]]
  BY <1>2 DEF WithScopedBlock, RemoveRef, Counted
<1>4. QED  BY <1>1, <1>3

\* The end of one of the n objects of a factory: the factory counts the others, and
\* closes when there is none.
LEMMA Released ==
  ASSUME NEW fm \in [Keys -> Factory], NEW k \in Keys, NEW n \in Nat \ {0},
         fm[k].open, fm[k].rct = 1 + n,
         NEW new, new = ReleaseBlock(fm, k)
  PROVE  /\ new \in [Keys -> Factory]
         /\ new[k].open <=> n # 1
         /\ n # 1 => new[k].rct = n /\ new[k].gen = fm[k].gen
         /\ \A j \in Keys : j # k => new[j] = fm[j]
<1> DEFINE after == RemoveRef(fm, k)
<1>1. fm[k].gen \in Nat
  BY DEF Factory
<1>2. /\ after \in [Keys -> Factory]
      /\ after[k].open /\ after[k].gen = fm[k].gen /\ after[k].rct = n
      /\ \A j \in Keys : j # k => after[j] = fm[j]
  <2>1. Counted(fm[k], fm[k].rct - 1) \in Factory
    BY <1>1 DEF Counted, Factory
  <2>2. QED  BY <2>1 DEF RemoveRef, Counted
<1>3. new = IF after[k].rct = 1 THEN [after EXCEPT ![k] = Closed(@)] ELSE after
  BY <1>2 DEF ReleaseBlock, DestroyFactory, Destroyable
<1> HIDE DEF after
<1>4. Closed(after[k]) \in Factory /\ ~Closed(after[k]).open
  BY <1>1, <1>2 DEF Closed, Factory
<1>5. QED  BY <1>2, <1>3, <1>4
=============================================================================
