---------------------------- MODULE MC_SFunction ----------------------------
(***************************************************************************)
(* Small instances of SFunction for TLC.                                   *)
(***************************************************************************)
EXTENDS SFunction, TLC

CONSTANTS m1, m2, b1, b2, b3, k1, k2

\* Two blocks of one class in a model, and a block of that class in another.
SharedModelOf == (b1 :> m1) @@ (b2 :> m1) @@ (b3 :> m2)
SharedKeyOf   == (b1 :> k1) @@ (b2 :> k1) @@ (b3 :> k1)

\* One model with two blocks of one class and one of a second class.
MixedModelOf == (b1 :> m1) @@ (b2 :> m1) @@ (b3 :> m1)
MixedKeyOf   == (b1 :> k1) @@ (b2 :> k1) @@ (b3 :> k2)
=============================================================================
