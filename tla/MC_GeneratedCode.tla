-------------------------- MODULE MC_GeneratedCode --------------------------
(***************************************************************************)
(* Small instances of GeneratedCode for TLC.                               *)
(***************************************************************************)
EXTENDS GeneratedCode, TLC

CONSTANTS w1, w2, b1, b2, b3, k1, k2

\* Two blocks of one class around a block of another class.
MixedOrder == <<b1, b2, b3>>
MixedKeyOf == (b1 :> k1) @@ (b2 :> k2) @@ (b3 :> k1)
=============================================================================
