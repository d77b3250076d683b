----------------------------- MODULE UvSockets -----------------------------
(***************************************************************************)
(* A program with UDP and poll handles in one loop.                        *)
(***************************************************************************)
EXTENDS UvUdp, UvPoll

ASSUME SocketsAssumption == Udps \cap Polls = {}

socketVars == <<loopVars, udpVars>>

SocketsInit == LoopInit /\ UdpInit

SocketsNext ==
  \/ (LoopStep \/ Return \/ PollCall \/ PollStep) /\ UNCHANGED udpVars
  \/ UdpCall \/ UdpStep

SocketsSpec == SocketsInit /\ [][SocketsNext]_socketVars

-----------------------------------------------------------------------------
(* Every request that keeps the loop alive is in a queue of one handle,    *)
(* and what is not sent waits for its socket or for the close callback.    *)
(* The handle keeps the loop alive exactly while it watches its socket.    *)
SendsAreWatched ==
  /\ reqs = UNION {Uncalled(h) : h \in Udps}
  /\ \A h \in Udps : UdpUsable(h) /\ write_queue[h] # <<>> =>
       IoActive(io, h, {"out"}) /\ IsActive(hs, h)
  /\ \A h \in Handles : user /\ hs.flags[h] # {} =>
       (IsActive(hs, h) <=> IoActive(io, h, {"in", "out"}))

(* Callbacks are made in the order of uv_udp_send(), the cancelled ones    *)
(* last.                                                                   *)
CalledInOrder ==
  [][\A h \in Udps :
       \/ \E new \in {<<>>} \cup {<<r>> : r \in Sends} :
            SendsOf(h)' = SendsOf(h) \o new
       \/ SendsOf(h) # <<>> /\ SendsOf(h)' = Tail(SendsOf(h))]_socketVars
=============================================================================
