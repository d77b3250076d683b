------------------------------ MODULE UvStream ------------------------------
(***************************************************************************)
(* Streams of libuv on unix (stream.c, tcp.c, pipe.c): connecting,         *)
(* writing, reading, shutting down and closing.  uv_write() tries at once  *)
(* when nothing is queued before it; what cannot be written waits for the  *)
(* socket.  A finished request moves to write_completed_queue and the      *)
(* watcher is fed, so that its callback is made by the loop.               *)
(*                                                                         *)
(* Addresses and contents are left out, and so are blocking streams, which *)
(* only TTYs are.  What the kernel answers is a choice.                    *)
(***************************************************************************)
EXTENDS UvIoLoop

CONSTANTS
  Streams,     \* the uv_stream_t of the program
  Writes       \* its uv_write_t

ASSUME StreamAssumption == Streams \subseteq Handles

VARIABLES
  kind,        \* "tcp", or "pipe" for named pipes with ipc
  st,          \* flags of a stream: "reading", "shutting", "shut", "writable"
               \*   and, of what the program knows, "eof" and "refused"
  wq, done,    \* write_queue and write_completed_queue
  connect,     \* the streams with a connect_req
  shutdown,    \* the streams with a shutdown_req
  delayed,     \* the streams with a delayed_error
  accepted,    \* accepted_fd
  listening    \* the streams that uv_listen() was called for

queueVars  == <<wq, done>>
streamVars == <<kind, st, queueVars, connect, shutdown, delayed, accepted,
                listening>>

ConnectReq(h)  == <<"connect", h>>
ShutdownReq(h) == <<"shutdown", h>>

(* A uv_connect_t and a uv_shutdown_t are not a uv_write_t.                *)
ASSUME RequestsAssumption ==
  \A h \in Streams : ConnectReq(h) \notin Writes /\ ShutdownReq(h) \notin Writes

StreamInit ==
  /\ kind \in {"tcp", "pipe"}
  /\ st = [h \in Streams |-> IF h \in DOMAIN FdOf THEN {"writable"} ELSE {}]
  /\ wq = [h \in Streams |-> <<>>] /\ done = wq
  /\ connect = {} /\ shutdown = {} /\ delayed = {} /\ listening = {}
  /\ accepted = [h \in Streams |-> None]

(* The requests of h, in the order of uv_write().                          *)
Outstanding(h) == done[h] \o wq[h]

Usable(h) == IsUsable(hs, h)
HasFd(h)  == Usable(h) /\ io.fd[h] # None

-----------------------------------------------------------------------------
(* Calls of the program.  uv_tcp_init() and uv_pipe_init():                *)
Initialize(h) ==
  /\ Call /\ IsClosed(hs, h) /\ frame.h # h
  /\ hs' = Initialized(hs, h) /\ io' = IoInit(io, h, None)
  /\ st' = [st EXCEPT ![h] = {}]
  /\ connect' = connect \ {h} /\ delayed' = delayed \ {h}
  /\ listening' = listening \ {h}
  /\ UNCHANGED <<reqs, kind, queueVars, shutdown, accepted>>

(* uv_tcp_open() and uv_pipe_open() with a socket that the program made.   *)
Open(h, f) ==
  /\ Call /\ Usable(h) /\ io.fd[h] = None /\ h \notin connect /\ NewFd(f)
  /\ io' = [Opened(io, f) EXCEPT !.fd[h] = f]
  /\ st' = [st EXCEPT ![h] = @ \cup {"writable"}]
  /\ UNCHANGED <<hs, reqs, kind, queueVars, connect, shutdown, delayed,
                 accepted, listening>>

(* uv_tcp_connect(): a refusal is kept for the loop to report.             *)
TcpConnect(h, f) ==
  /\ Call /\ Usable(h) /\ kind = "tcp" /\ io.fd[h] = None /\ NewFd(f)
  /\ LET I == IoStart([Opened(io, f) EXCEPT !.fd[h] = f], h, {"out"})
     IN \/ io' = I /\ delayed' = delayed
        \/ io' = IoFeed(I, h) /\ delayed' = delayed \cup {h}
  /\ st' = [st EXCEPT ![h] = @ \cup {"writable"}]
  /\ connect' = connect \cup {h} /\ reqs' = reqs \cup {ConnectReq(h)}
  /\ UNCHANGED <<hs, kind, queueVars, shutdown, accepted, listening>>

(* uv_pipe_connect(): always leaves the result to the loop; without a      *)
(* socket f is None.                                                       *)
PipeConnect(h, f) ==
  /\ Call /\ Usable(h) /\ kind = "pipe" /\ io.fd[h] = None
  /\ f # None => NewFd(f)
  /\ LET I == [io EXCEPT !.fd[h] = f, !.open = @ \cup ({f} \ {None})]
     IN \/ /\ f # None /\ io' = IoFeed(IoStart(I, h, {"in", "out"}), h)
           /\ st' = [st EXCEPT ![h] = @ \cup {"writable"}]
           /\ UNCHANGED delayed
        \/ io' = IoFeed(I, h) /\ delayed' = delayed \cup {h} /\ UNCHANGED st
  /\ connect' = connect \cup {h} /\ reqs' = reqs \cup {ConnectReq(h)}
  /\ UNCHANGED <<hs, kind, queueVars, shutdown, accepted, listening>>

(* uv__write() with the queue q: the head of it is written or fails, or    *)
(* the kernel does not take all of it.                                     *)
Finish_NoFeed(h, q, I) ==                           \* mutant
  /\ wq' = [wq EXCEPT ![h] = Tail(q)]
  /\ done' = [done EXCEPT ![h] = Append(@, Head(q))] /\ io' = I
Finish(h, q, I) ==
  /\ wq'   = [wq EXCEPT ![h] = Tail(q)]
  /\ done' = [done EXCEPT ![h] = Append(@, Head(q))]
  /\ io'   = IoFeed(I, h)

WriteHead(h, q, I) ==
  \/ q # <<>> /\ Finish(h, q, I)
  \/ /\ wq' = [wq EXCEPT ![h] = q] /\ UNCHANGED done
     /\ io' = IF q = <<>> THEN I ELSE IoStart(I, h, {"out"})

(* uv_write() and uv_write2()                                              *)
Write(h, r) ==
  /\ Call /\ HasFd(h) /\ r \notin reqs /\ h \notin listening
  /\ reqs' = reqs \cup {r}
  /\ LET q == Append(wq[h], r)
     IN IF h \notin connect /\ wq[h] = <<>> THEN WriteHead(h, q, io)
        ELSE /\ wq' = [wq EXCEPT ![h] = q] /\ UNCHANGED done
             /\ io' = IF h \in connect THEN io ELSE IoStart(io, h, {"out"})
  /\ UNCHANGED <<hs, kind, st, connect, shutdown, delayed, accepted, listening>>

(* uv_shutdown(), once                                                     *)
Shutdown(h) ==
  /\ Call /\ HasFd(h) /\ "writable" \in st[h] /\ "shutting" \notin st[h]
  /\ shutdown' = shutdown \cup {h} /\ reqs' = reqs \cup {ShutdownReq(h)}
  /\ st' = [st EXCEPT ![h] = @ \cup {"shutting"}]
  /\ io' = IoStart(io, h, {"out"})
  /\ UNCHANGED <<hs, kind, queueVars, connect, delayed, accepted, listening>>

ReadStart(h) ==
  /\ Call /\ HasFd(h) /\ h \notin listening
  /\ frame.at = "failed" => frame.h # h
  /\ st' = [st EXCEPT ![h] = (@ \cup {"reading"}) \ {"eof"}]
  /\ io' = IoStart(io, h, {"in"})
  /\ hs' = Started(hs, h)
  /\ UNCHANGED <<reqs, kind, queueVars, connect, shutdown, delayed, accepted,
                 listening>>

ReadStop(h) ==
  /\ Call /\ HasFd(h) /\ h \notin listening
  /\ st' = [st EXCEPT ![h] = @ \ {"reading"}]
  /\ io' = IoStop(io, h, {"in"})
  /\ hs' = Stopped(hs, h)
  /\ UNCHANGED <<reqs, kind, queueVars, connect, shutdown, delayed, accepted,
                 listening>>

(* uv_close() and uv__stream_close()                                       *)
CloseStream_LeavesAccepted(h) ==                    \* mutant
  /\ st' = [st EXCEPT ![h] = @ \ {"reading"}]
  /\ hs' = MakeClosePending(Stopped(Closing(hs, h), h), h)
  /\ io' = CloseFd([IoClose(io, h) EXCEPT !.fd[h] = None], io.fd[h])
  /\ accepted' = [accepted EXCEPT ![h] = None]

CloseStream(h) ==
  /\ st' = [st EXCEPT ![h] = @ \ {"reading"}]
  /\ hs' = MakeClosePending(Stopped(Closing(hs, h), h), h)
  /\ LET I == [IoClose(io, h) EXCEPT !.fd[h] = None]
     IN io' = CloseFd(CloseFd(I, io.fd[h]), accepted[h])
  /\ accepted' = [accepted EXCEPT ![h] = None]

StreamClose(h) ==
  /\ Call /\ Usable(h) /\ CloseStream(h)
  /\ UNCHANGED <<reqs, kind, queueVars, connect, shutdown, delayed, listening>>
=============================================================================
