--------------------------- MODULE IntervalInduction ---------------------------
(***************************************************************************)
(* Induction on the naturals in the form the provers can use: the          *)
(* induction hypothesis is a set, not an operator.                         *)
(***************************************************************************)
EXTENDS Integers, FiniteSetTheorems, WellFoundedInduction, TLAPS

\* Every set of naturals has a least element.
LEMMA LeastNatural ==
  ASSUME NEW S, S \subseteq Nat, S # {}
  PROVE  \E h \in S : \A j \in S : h <= j
<1> DEFINE T == {0..h : h \in S}
<1>1. T \subseteq FiniteSubsetsOf(Nat) /\ T # {}
  <2> SUFFICES ASSUME NEW h \in S PROVE 0..h \subseteq Nat /\ IsFiniteSet(0..h)
    BY DEF FiniteSubsetsOf
  <2>1. QED  BY FS_Interval
<1>2. PICK x \in T : \A y \in T : ~(<<y, x>> \in StrictSubsetOrdering(Nat))
  BY <1>1, FS_StrictSubsetOrderingWellFounded, WFMin
<1>3. PICK h \in S : x = 0..h
  BY <1>2
<1>4. ASSUME NEW j \in S, j < h PROVE FALSE
  <2>1. j \in Nat /\ h \in Nat
    OBVIOUS
  <2>2. 0..j \subseteq 0..h /\ 0..j # 0..h /\ 0..j \subseteq Nat /\ 0..h \subseteq Nat
    BY <1>4, <2>1
  <2>3. <<0..j, 0..h>> \in StrictSubsetOrdering(Nat)
    BY <2>2 DEF StrictSubsetOrdering
  <2>4. QED  BY <1>2, <1>3, <2>3
<1>5. QED  BY <1>4

\* A set that has 0, and every number up to n when it has the one before, has
\* all the numbers up to n.
LEMMA UpTo ==
  ASSUME NEW n \in Nat, NEW P, 0 \in P, \A i \in 1..n : i - 1 \in P => i \in P
  PROVE  \A i \in 0..n : i \in P
<1> DEFINE S == {i \in 0..n : i \notin P}
<1>1. SUFFICES ASSUME S # {} PROVE FALSE
  OBVIOUS
<1>2. S \subseteq Nat
  OBVIOUS
<1>3. PICK h \in S : \A j \in S : h <= j
  BY <1>1, <1>2, LeastNatural
<1>4. h \in 1..n /\ h - 1 \in 0..n /\ ~(h <= h - 1)
  OBVIOUS
<1>5. h - 1 \in P
  BY <1>3, <1>4
<1>6. QED  BY <1>4, <1>5
=============================================================================
