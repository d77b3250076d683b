----------------------------- MODULE MCStacklet -----------------------------
(***************************************************************************)
(* An instance of Stacklet for TLC.                                        *)
(***************************************************************************)
EXTENDS Stacklet

StackletSymmetry == Permutations(Tasks) \cup Permutations(Vals)
=============================================================================
