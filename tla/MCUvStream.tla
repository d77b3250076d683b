----------------------------- MODULE MCUvStream -----------------------------
(* Two streams, of which one is connected from the start.                  *)
EXTENDS UvStreamIo

CONSTANTS s1, s2

ConnectedFd == s1 :> 1
WriteSymmetry == Permutations(Writes)
=============================================================================
