----------------------------- MODULE MCUvSignal -----------------------------
(***************************************************************************)
(* An instance of UvSignal for TLC.                                        *)
(***************************************************************************)
EXTENDS UvSignal

CONSTANTS l1, l2, h1, h2, h3, s1, s2

SignalLoop == h1 :> l1 @@ h2 :> l1 @@ h3 :> l2

SignalSymmetry == Permutations({h1, h2}) \cup Permutations({s1, s2})
=============================================================================
