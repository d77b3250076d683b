---------------------------- MODULE MCUvSockets ----------------------------
(* Two UDP handles and a poll handle for a descriptor of the program.      *)
EXTENDS UvSockets

CONSTANTS u1, u2, p1

SocketFd == p1 :> 1
UdpSymmetry == Permutations({u1, u2}) \cup Permutations(Sends)
=============================================================================
