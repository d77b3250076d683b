----------------------------- MODULE UvStreamIo -----------------------------
(***************************************************************************)
(* What the loop does with the streams of UvStream: uv__stream_io(),       *)
(* uv__server_io() and uv__pipe_accept(), and uv__stream_destroy().        *)
(***************************************************************************)
EXTENDS UvStream

vars == <<loopVars, streamVars>>

Init == LoopInit /\ StreamInit

(* The library is at one of the labels for the stream h, not a listener.   *)
In(h, labels) == ~user /\ frame.h = h /\ frame.at \in labels
GoTo(label)   == frame' = IF label = "none" THEN NoFrame
                          ELSE [frame EXCEPT !.at = label]

(* The program is called back, and the library goes on at the label.       *)
CallsBack(label) ==
  /\ user' = TRUE /\ GoTo(label)
  /\ UNCHANGED <<phase, batch, calls>>
Continues(label) ==
  /\ GoTo(label)
  /\ UNCHANGED <<phase, batch, user, calls>>

-----------------------------------------------------------------------------
(* uv__stream_connect(): asks the kernel, unless the error is known.       *)
StreamConnect(h) ==
  /\ In(h, {"io"}) /\ h \notin listening /\ h \in connect
  /\ \/ /\ connect' = connect \ {h} /\ reqs' = reqs \ {ConnectReq(h)}
        /\ delayed' = delayed \ {h}
        /\ \/ h \notin delayed /\ UNCHANGED st
           \/ st' = [st EXCEPT ![h] = @ \cup {"refused"}]
        /\ CallsBack("none")
     \/ /\ h \notin delayed /\ Continues("none")
        /\ UNCHANGED <<reqs, st, connect, delayed>>
  /\ UNCHANGED <<hs, io, kind, queueVars, shutdown, accepted, listening>>

(* uv__read() is called for an event and reads on while the buffer is      *)
(* filled and the program wants more.                                      *)
Reads(h) ==
  /\ h \notin listening \cup connect /\ "reading" \in st[h]
  /\ \/ In(h, {"io"}) /\ "in" \in frame.evs
     \/ In(h, {"read"})

ReadData(h) ==
  /\ Reads(h)
  /\ \E label \in {"read", "write"} : CallsBack(label)
  /\ UNCHANGED <<hs, io, reqs, streamVars>>

(* A message with a descriptor: the last one is kept for uv_accept().  A   *)
(* program without the habit "late" takes each before the next comes.      *)
ReadHandle(h, f) ==
  /\ Reads(h) /\ kind = "pipe" /\ NewFd(f)
  /\ accepted[h] = None \/ "late" \in Habits
  /\ accepted' = [accepted EXCEPT ![h] = f] /\ io' = Opened(io, f)
  /\ \E label \in {"read", "write"} : CallsBack(label)
  /\ UNCHANGED <<hs, reqs, kind, st, queueVars, connect, shutdown, delayed,
                 listening>>

ReadAgain(h) ==
  /\ Reads(h)
  /\ io' = IoStart(io, h, {"in"}) /\ CallsBack("write")
  /\ UNCHANGED <<hs, reqs, streamVars>>

ReadEof(h) ==
  /\ Reads(h)
  /\ io' = IoStop(io, h, {"in"})
  /\ hs' = IF IoActive(io, h, {"out"}) THEN hs ELSE Stopped(hs, h)
  /\ st' = [st EXCEPT ![h] = @ \cup {"eof"}]
  /\ CallsBack("write")
  /\ UNCHANGED <<reqs, kind, queueVars, connect, shutdown, delayed, accepted,
                 listening>>

(* On an error the program has to stop reading, as the assertion asks, and *)
(* it does so before anything else in its callback.                        *)
ReadError(h) ==
  /\ Reads(h)
  /\ io' = IoStop(io, h, {"in"}) /\ hs' = Stopped(hs, h)
  /\ st' = [st EXCEPT ![h] = @ \ {"reading"}]
  /\ CallsBack("failed")
  /\ UNCHANGED <<reqs, kind, queueVars, connect, shutdown, delayed, accepted,
                 listening>>

ReadDone(h) ==
  /\ ~Reads(h) /\ In(h, {"io", "read"}) /\ h \notin listening \cup connect
  /\ Continues("write")
  /\ UNCHANGED <<hs, io, reqs, streamVars>>

(* The rest of uv__stream_io(), unless the program closed the stream.      *)
WriteReady(h) ==
  /\ In(h, {"write", "failed"})
  /\ IF io.fd[h] = None \/ "out" \notin frame.evs
     THEN Continues("none") /\ UNCHANGED <<io, queueVars>>
     ELSE Continues("written") /\ WriteHead(h, wq[h], io)
  /\ UNCHANGED <<hs, reqs, kind, st, connect, shutdown, delayed, accepted,
                 listening>>

(* uv__write_callbacks() and the same loop of uv__stream_destroy().        *)
CallWritten_KeepsReq(h) ==                         \* mutant
  /\ In(h, {"written"}) /\ done[h] # <<>>
  /\ done' = [done EXCEPT ![h] = Tail(@)] /\ CallsBack(frame.at)
  /\ UNCHANGED <<hs, io, reqs, kind, st, wq, connect, shutdown, delayed,
                 accepted, listening>>

CallWritten(h) ==
  /\ \/ In(h, {"written"})
     \/ In(h, {"finish"}) /\ h \notin connect /\ wq[h] = <<>>
  /\ done[h] # <<>>
  /\ done' = [done EXCEPT ![h] = Tail(@)] /\ reqs' = reqs \ {Head(done[h])}
  /\ CallsBack(frame.at)
  /\ UNCHANGED <<hs, io, kind, st, wq, connect, shutdown, delayed,
                 accepted, listening>>

MoreToWrite(h) ==
  /\ In(h, {"written"}) /\ done[h] = <<>> /\ wq[h] # <<>>
  /\ Continues("none")
  /\ UNCHANGED <<hs, io, reqs, streamVars>>

(* uv__drain().  When shutdown() fails the program should close the stream *)
(* and does so at once in its callback, without the habit "lingers".       *)
Drains_Early(h) == In(h, {"written"}) /\ done[h] = <<>>          \* mutant
Drains(h) == In(h, {"written"}) /\ done[h] = <<>> /\ wq[h] = <<>>
ShutsDown(h) ==
  "shutting" \in st[h] /\ "shut" \notin st[h] /\ Usable(h)

Drain(h) ==
  /\ Drains(h) /\ ~ShutsDown(h)
  /\ io' = IoStop(io, h, {"out"}) /\ Continues("none")
  /\ UNCHANGED <<hs, reqs, streamVars>>

DrainAndShutdown(h) ==
  /\ Drains(h) /\ ShutsDown(h)
  /\ shutdown' = shutdown \ {h} /\ reqs' = reqs \ {ShutdownReq(h)}
  /\ CallsBack("none")
  /\ \/ /\ st' \in {[st EXCEPT ![h] = @ \cup {"shut"}]}
                    \cup (IF "lingers" \in Habits THEN {st} ELSE {})
        /\ io' = Asserting(IoStop(io, h, {"out"}), h \in shutdown)
        /\ UNCHANGED <<hs, accepted>>
     \/ CloseStream(h)
  /\ UNCHANGED <<kind, queueVars, connect, delayed, listening>>

-----------------------------------------------------------------------------
(* uv_tcp_listen(), or uv_pipe_bind() and uv_pipe_listen().                *)
Listen(h, f) ==
  /\ Call /\ Usable(h) /\ io.fd[h] = None /\ h \notin connect /\ NewFd(f)
  /\ io' = IoStart([Opened(io, f) EXCEPT !.fd[h] = f], h, {"in"})
  /\ hs' = Started(hs, h)
  /\ listening' = listening \cup {h}
  /\ UNCHANGED <<reqs, kind, st, queueVars, connect, shutdown, delayed, accepted>>

(* uv_accept() of what the listener or the pipe h has accepted.            *)
Accept(h, client) ==
  /\ Call /\ Usable(h) /\ accepted[h] # None
  /\ h # client /\ Usable(client) /\ io.fd[client] = None
  /\ client \notin connect
  /\ io' = IoStart([io EXCEPT !.fd[client] = accepted[h]], h, {"in"})
  /\ st' = [st EXCEPT ![client] = @ \cup {"writable"}]
  /\ accepted' = [accepted EXCEPT ![h] = None]
  /\ UNCHANGED <<hs, reqs, kind, queueVars, connect, shutdown, delayed, listening>>

(* uv__server_io() accepts until there is nothing to accept, and           *)
(* uv__pipe_accept() once.                                                 *)
Accepts(h) == h \in listening /\ In(h, {"io", "accept"}) /\ io.fd[h] # None

ServerAsserts(h) ==
  Asserting(io, kind = "tcp" => frame.evs = {"in"} /\ accepted[h] = None)

ServerAccept(h, f) ==
  /\ Accepts(h) /\ NewFd(f)
  /\ io' = Opened(ServerAsserts(h), f)
  /\ accepted' = [accepted EXCEPT ![h] = f]
  /\ CallsBack("accepted")
  /\ UNCHANGED <<hs, reqs, kind, st, queueVars, connect, shutdown, delayed,
                 listening>>

AcceptError(h) ==
  /\ Accepts(h)
  /\ CallsBack(IF kind = "tcp" THEN "accept" ELSE "none")
  /\ UNCHANGED <<hs, io, reqs, streamVars>>

NothingToAccept(h) ==
  /\ h \in listening /\ In(h, {"io", "accept"})
  /\ io' = ServerAsserts(h) /\ Continues("none")
  /\ UNCHANGED <<hs, reqs, streamVars>>

(* A connection that the program has not taken stops the listener until    *)
(* uv_accept() is called.                                                  *)
AfterAccept(h) ==
  /\ h \in listening /\ In(h, {"accepted"})
  /\ IF accepted[h] # None
     THEN io' = IoStop(io, h, {"in"}) /\ Continues("none")
     ELSE /\ UNCHANGED io
          /\ Continues(IF kind = "tcp" /\ io.fd[h] # None THEN "accept"
                       ELSE "none")
  /\ UNCHANGED <<hs, reqs, streamVars>>

-----------------------------------------------------------------------------
(* uv__stream_destroy() cancels the connect request, the queued writes and *)
(* the shutdown; CallWritten calls those that were finished.               *)
CancelConnect(h) ==
  /\ In(h, {"finish"}) /\ h \in connect
  /\ connect' = connect \ {h} /\ reqs' = reqs \ {ConnectReq(h)}
  /\ CallsBack("finish")
  /\ UNCHANGED <<hs, io, kind, st, queueVars, shutdown, delayed, accepted,
                 listening>>

CancelWrite(h) ==
  /\ In(h, {"finish"}) /\ h \notin connect /\ wq[h] # <<>>
  /\ wq' = [wq EXCEPT ![h] = Tail(@)] /\ reqs' = reqs \ {Head(wq[h])}
  /\ CallsBack("finish")
  /\ UNCHANGED <<hs, io, kind, st, done, connect, shutdown, delayed,
                 accepted, listening>>

CancelShutdown(h) ==
  /\ In(h, {"finish"}) /\ h \notin connect /\ Outstanding(h) = <<>>
  /\ h \in shutdown
  /\ shutdown' = shutdown \ {h} /\ reqs' = reqs \ {ShutdownReq(h)}
  /\ CallsBack("finish")
  /\ UNCHANGED <<hs, io, kind, st, queueVars, connect, delayed, accepted,
                 listening>>

Finished(h) ==
  /\ In(h, {"finish"}) /\ h \notin connect \cup shutdown
  /\ Outstanding(h) = <<>>
  /\ Continues("closed")
  /\ UNCHANGED <<hs, io, reqs, streamVars>>

-----------------------------------------------------------------------------
StreamCall(h) ==
  \/ Initialize(h) \/ Shutdown(h) \/ ReadStart(h) \/ ReadStop(h)
  \/ StreamClose(h)
  \/ \E r \in Writes : Write(h, r)
  \/ \E f \in Fds :
       Open(h, f) \/ TcpConnect(h, f) \/ PipeConnect(h, f) \/ Listen(h, f)
  \/ PipeConnect(h, None)
  \/ \E client \in Streams : Accept(h, client)

StreamStep(h) ==
  \/ StreamConnect(h) \/ ReadData(h) \/ ReadAgain(h) \/ ReadEof(h)
  \/ ReadError(h) \/ ReadDone(h) \/ WriteReady(h) \/ CallWritten(h)
  \/ MoreToWrite(h) \/ Drain(h) \/ DrainAndShutdown(h)
  \/ AcceptError(h) \/ NothingToAccept(h)
  \/ AfterAccept(h) \/ CancelConnect(h) \/ CancelWrite(h)
  \/ CancelShutdown(h) \/ Finished(h)
  \/ \E f \in Fds : ReadHandle(h, f) \/ ServerAccept(h, f)

Next ==
  \/ (LoopStep \/ Return) /\ UNCHANGED streamVars
  \/ \E h \in Streams : StreamCall(h) \/ StreamStep(h)

Spec == Init /\ [][Next]_vars

-----------------------------------------------------------------------------
(* The requests that keep the loop alive are those that a stream still     *)
(* has to call back: each is in one of its places, and only there.         *)
RequestsAreKept ==
  /\ reqs = (UNION {ToSet(Outstanding(h)) : h \in Streams})
              \cup {ConnectReq(h) : h \in connect}
              \cup {ShutdownReq(h) : h \in shutdown}
  /\ \A h \in Streams :
       /\ IsInjective(Outstanding(h))
       /\ \A g \in Streams \ {h} :
            ToSet(Outstanding(h)) \cap ToSet(Outstanding(g)) = {}

(* Nothing is forgotten between two events: what waits for the socket is   *)
(* watched, what is finished is fed, what waits for uv_accept() is not     *)
(* accepted again.  A pipe that was refused is not watched.                *)
Watched(h, e) == IoActive(io, h, {e})
Fed(h)        == h \in ToSet(io.pending)

NothingForgotten ==
  \A h \in Streams : Usable(h) /\ frame.h # h =>
    /\ h \in connect => Watched(h, "out") \/ Fed(h)
    /\ wq[h] # <<>> \/ h \in shutdown =>
         Watched(h, "out") \/ h \in connect \/ "refused" \in st[h]
    /\ done[h] # <<>> => Fed(h)
    /\ "reading" \in st[h] /\ "eof" \notin st[h] =>
         Watched(h, "in") /\ IsActive(hs, h)
    /\ h \in listening => (Watched(h, "in") <=> accepted[h] = None)

(* Every descriptor belongs to one handle: none leaks, none is shared.     *)
Held == [h \in Streams |-> {io.fd[h], accepted[h]} \ {None}]
DescriptorsAreOwned ==
  /\ io.open = UNION {Held[h] : h \in Streams}
  /\ \A h, g \in Streams : h # g => Held[h] \cap Held[g] = {}

(* Writes are called back in their order while the stream is open, and the *)
(* stream is shut down only after all of them.                             *)
AnsweredInOrder ==
  [][\A h \in Streams : Usable(h) =>
       /\ \/ \E new \in {<<>>} \cup {<<r>> : r \in Writes} :
               Outstanding(h)' = Outstanding(h) \o new
          \/ Outstanding(h) # <<>> /\ Outstanding(h)' = Tail(Outstanding(h))
       /\ "shut" \in st'[h] \ st[h] => Outstanding(h) = <<>>]_vars
=============================================================================
