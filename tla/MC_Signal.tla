------------------------------ MODULE MC_Signal ------------------------------
(***************************************************************************)
(* Small instances of Signal for TLC.                                      *)
(***************************************************************************)
EXTENDS Signal, TLC

CONSTANTS s1, s2

SlotSymmetry == Permutations(Slots)
=============================================================================
