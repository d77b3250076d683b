------------------------------- MODULE UvUdp -------------------------------
(***************************************************************************)
(* UDP handles of libuv on unix (udp.c).  uv_udp_send() only queues; the   *)
(* datagrams leave when the loop finds the socket writable, and the        *)
(* callbacks are made after that, or when the handle is closed.  Addresses *)
(* and contents are left out.  An error of the kernel is a choice.  The 32 *)
(* datagrams that are read in a row are as many as there are.              *)
(***************************************************************************)
EXTENDS UvIoLoop

CONSTANTS
  Udps,        \* the uv_udp_t of the program
  Sends        \* its uv_udp_send_t

ASSUME UdpAssumption == Udps \subseteq Handles

VARIABLES
  write_queue, \* the requests of each handle that are not sent
  completed,   \* write_completed_queue of each handle
  receiving    \* the handles with a recv_cb

udpVars == <<write_queue, completed, receiving>>

UdpInit ==
  /\ write_queue = [h \in Udps |-> <<>>] /\ completed = write_queue
  /\ receiving = {}

(* Not closed: finish_close() leaves flags of zero.                        *)
UdpUsable(h) == hs.flags[h] # {} /\ IsUsable(hs, h)

(* The requests of h, in the order of uv_udp_send().                      *)
SendsOf(h)  == completed[h] \o write_queue[h]
Uncalled(h) == ToSet(SendsOf(h))

-----------------------------------------------------------------------------
(* uv__udp_maybe_deferred_bind(): the socket of a bound handle stays.      *)
CanBind(h, f) == IF io.fd[h] = None THEN NewFd(f) ELSE f = io.fd[h]
BoundTo(h, f) == [Opened(io, f) EXCEPT !.fd[h] = f]

UdpInitialize(h) ==
  /\ Call /\ hs.flags[h] = {}
  /\ hs' = Initialized(hs, h)
  /\ io' = IoInit(io, h, None)
  /\ UNCHANGED <<reqs, udpVars>>

(* uv__bind() fails for a handle that is bound and closes its socket under *)
(* the watcher; only the habit "rebind" does that while it is watched.     *)
(* uv_udp_open() gives a handle the program's socket like Bind and refuses *)
(* one that has a socket, without any effect.                              *)
Bind(h, f) ==
  /\ Call /\ UdpUsable(h) /\ io.fd[h] = None /\ NewFd(f)
  /\ io' = BoundTo(h, f)
  /\ UNCHANGED <<hs, reqs, udpVars>>

BindFails(h) ==
  /\ Call /\ UdpUsable(h) /\ io.fd[h] # None
  /\ "rebind" \in Habits \/ io.pevents[h] = {}
  /\ io' = [CloseFd(io, io.fd[h]) EXCEPT !.fd[h] = None]
  /\ UNCHANGED <<hs, reqs, udpVars>>

(* A program without the habit "cross" leaves a handle able to take the    *)
(* events that it has in the batch.                                        *)
Careful(h) ==
  LET f == io.fd[h]
  IN \/ "cross" \in Habits \/ f = None \/ io'.watchers[f] = None
     \/ /\ "in" \in batch[f] => h \in receiving'
        /\ "out" \in batch[f] => SendsOf(h)' # <<>>

(* uv_udp_send() and uv_udp_send6()                                        *)
Send(h, r, f) ==
  /\ Call /\ UdpUsable(h) /\ r \notin reqs
  /\ CanBind(h, f) /\ io' = IoStart(BoundTo(h, f), h, {"out"})
  /\ hs' = Started(hs, h)
  /\ reqs' = reqs \cup {r}
  /\ write_queue' = [write_queue EXCEPT ![h] = Append(@, r)]
  /\ UNCHANGED <<completed, receiving>>
  /\ Careful(h)

RecvStart(h, f) ==
  /\ Call /\ UdpUsable(h) /\ ~IoActive(io, h, {"in"})
  /\ CanBind(h, f) /\ io' = IoStart(BoundTo(h, f), h, {"in"})
  /\ hs' = Started(hs, h)
  /\ receiving' = receiving \cup {h}
  /\ UNCHANGED <<reqs, write_queue, completed>>
  /\ Careful(h)

RecvStop(h) ==
  /\ Call /\ UdpUsable(h)
  /\ LET I == IoStop(io, h, {"in"})
     IN /\ io' = I
        /\ hs' = IF IoActive(I, h, {"out"}) THEN hs ELSE Stopped(hs, h)
  /\ receiving' = receiving \ {h}
  /\ UNCHANGED <<reqs, write_queue, completed>>
  /\ Careful(h)

(* uv_close() and uv__udp_close()                                          *)
UdpClose(h) ==
  /\ Call /\ UdpUsable(h)
  /\ hs' = MakeClosePending(Stopped(Closing(hs, h), h), h)
  /\ io' = CloseFd([IoClose(io, h) EXCEPT !.fd[h] = None], io.fd[h])
  /\ UNCHANGED <<reqs, udpVars>>

UdpCall ==
  \E h \in Udps :
    \/ UdpInitialize(h) \/ BindFails(h) \/ RecvStop(h) \/ UdpClose(h)
    \/ \E f \in Fds : Bind(h, f) \/ RecvStart(h, f)
    \/ \E f \in Fds, r \in Sends : Send(h, r, f)

-----------------------------------------------------------------------------
(* uv__udp_io() and the loop of uv__udp_recvmsg(): recv_cb is called for   *)
(* each datagram and once more when there is none, and it may stop         *)
(* receiving or close the handle.                                          *)
Recv(h) ==
  /\ frame.h = h
  /\ \/ At("io") /\ "in" \in frame.evs
     \/ At("again") /\ io.fd[h] # None /\ h \in receiving
  /\ IF h \notin receiving
     THEN /\ io' = Asserting(io, FALSE)
          /\ UNCHANGED <<user>> /\ frame' = [frame EXCEPT !.at = "send"]
     ELSE /\ user' = TRUE /\ UNCHANGED io
          /\ \E at \in {"again", "send"} : frame' = [frame EXCEPT !.at = at]
  /\ UNCHANGED <<hs, reqs, phase, batch, calls, udpVars>>

(* No (more) datagrams: uv__udp_sendmsg() if the socket is writable.       *)
RecvDone(h) ==
  /\ frame.h = h
  /\ \/ At("io") /\ "in" \notin frame.evs
     \/ At("again") /\ (io.fd[h] = None \/ h \notin receiving)
  /\ frame' = [frame EXCEPT !.at = "send"]
  /\ UNCHANGED <<hs, io, reqs, phase, batch, user, calls, udpVars>>

NoSend(h) ==
  /\ At("send") /\ frame.h = h /\ "out" \notin frame.evs
  /\ frame' = NoFrame
  /\ UNCHANGED <<hs, io, reqs, phase, batch, user, calls, udpVars>>

(* uv__udp_run_pending(): n datagrams are sent or refused, then the socket *)
(* is full; without a socket all of them fail.                             *)
RunPending_LastFirst(h, n) ==                      \* mutant
  /\ write_queue' = [write_queue EXCEPT ![h] = SubSeq(@, n + 1, Len(@))]
  /\ completed' =
       [completed EXCEPT ![h] = @ \o Reverse(SubSeq(write_queue[h], 1, n))]
RunPending(h, n) ==
  /\ write_queue' = [write_queue EXCEPT ![h] = SubSeq(@, n + 1, Len(@))]
  /\ completed' = [completed EXCEPT ![h] = @ \o SubSeq(write_queue[h], 1, n)]

SendQueued(h) ==
  /\ At("send") /\ frame.h = h /\ "out" \in frame.evs
  /\ io' = Asserting(io, Uncalled(h) # {})
  /\ LET all == Len(write_queue[h])
     IN \E n \in (IF io.fd[h] = None THEN {all} ELSE 0..all) : RunPending(h, n)
  /\ frame' = [frame EXCEPT !.at = "completed"]
  /\ UNCHANGED <<hs, reqs, phase, batch, user, calls, receiving>>

(* uv__udp_run_completed(), from uv__udp_sendmsg() and finish_close().     *)
CallSent(h) ==
  /\ At("completed") \/ At("finish")
  /\ frame.h = h /\ completed[h] # <<>>
  /\ completed' = [completed EXCEPT ![h] = Tail(@)]
  /\ reqs' = reqs \ {Head(completed[h])}
  /\ user' = TRUE
  /\ UNCHANGED <<hs, io, phase, batch, frame, calls, write_queue, receiving>>

(* The end of uv__udp_sendmsg(); write_completed_queue is always empty.    *)
SendDone_Forgets(h) ==                             \* mutant
  /\ At("completed") /\ frame.h = h /\ completed[h] = <<>>
  /\ io' = IoStop(io, h, {"out"}) /\ UNCHANGED hs
  /\ frame' = NoFrame
  /\ UNCHANGED <<reqs, phase, batch, user, calls, udpVars>>

SendDone(h) ==
  /\ At("completed") /\ frame.h = h /\ completed[h] = <<>>
  /\ LET I == IoStop(io, h, {"out"})
     IN IF write_queue[h] # <<>> THEN UNCHANGED <<hs, io>>
        ELSE /\ io' = I
             /\ hs' = IF IoActive(I, h, {"in"}) THEN hs ELSE Stopped(hs, h)
  /\ frame' = NoFrame
  /\ UNCHANGED <<reqs, phase, batch, user, calls, udpVars>>

-----------------------------------------------------------------------------
(* uv__udp_finish_close() cancels what was not sent ...                    *)
CancelSend(h) ==
  /\ At("finish") /\ frame.h = h /\ completed[h] = <<>> /\ write_queue[h] # <<>>
  /\ write_queue' = [write_queue EXCEPT ![h] = Tail(@)]
  /\ reqs' = reqs \ {Head(write_queue[h])}
  /\ user' = TRUE
  /\ UNCHANGED <<hs, io, phase, batch, frame, calls, completed, receiving>>

(* ... and clears the flags.                                               *)
UdpFinished(h) ==
  /\ At("finish") /\ frame.h = h /\ Uncalled(h) = {}
  /\ hs' = [hs EXCEPT !.flags[h] = {}]
  /\ receiving' = receiving \ {h}
  /\ frame' = [frame EXCEPT !.at = "closed"]
  /\ UNCHANGED <<io, reqs, phase, batch, user, calls, write_queue, completed>>

UdpStep ==
  \E h \in Udps :
    \/ Recv(h) \/ RecvDone(h) \/ NoSend(h) \/ SendQueued(h) \/ CallSent(h)
    \/ SendDone(h) \/ CancelSend(h) \/ UdpFinished(h)
=============================================================================
