------------------------------- MODULE UvPoll -------------------------------
(***************************************************************************)
(* Poll handles of libuv on unix (poll.c): the program's own descriptors.  *)
(* No two handles are for one descriptor, as uv.h asks, and the program    *)
(* keeps the descriptors open.                                             *)
(***************************************************************************)
EXTENDS UvIoLoop

CONSTANT Polls   \* the uv_poll_t of the program

ASSUME PollAssumption == Polls \subseteq DOMAIN FdOf

-----------------------------------------------------------------------------
(* uv_poll_start(): stops first, and stops only, without events.           *)
PollStart(h, evs) ==
  /\ Call /\ IsUsable(hs, h)
  /\ LET I == IoStop(io, h, {"in", "out"})
     IN IF evs = {} THEN io' = I /\ hs' = Stopped(hs, h)
        ELSE /\ io' = IoStart(I, h, evs)
             /\ hs' = Started(Stopped(hs, h), h)
  /\ UNCHANGED reqs

PollStop(h) ==
  /\ Call /\ IsUsable(hs, h)
  /\ io' = IoStop(io, h, {"in", "out"})
  /\ hs' = Stopped(hs, h)
  /\ UNCHANGED reqs

(* uv_close() and uv__poll_close()                                         *)
PollClose(h) ==
  /\ Call /\ IsUsable(hs, h)
  /\ io' = IoStop(io, h, {"in", "out"})
  /\ hs' = MakeClosePending(Stopped(Closing(hs, h), h), h)
  /\ UNCHANGED reqs

(* uv_poll_init()                                                          *)
PollInitialize(h) ==
  /\ Call /\ IsClosed(hs, h) /\ frame.h # h
  /\ hs' = Initialized(hs, h)
  /\ io' = IoInit(io, h, FdOf[h])
  /\ UNCHANGED reqs

PollCall ==
  \E h \in Polls :
    \/ PollStop(h) \/ PollClose(h) \/ PollInitialize(h)
    \/ \E evs \in SUBSET {"in", "out"} : PollStart(h, evs)

-----------------------------------------------------------------------------
(* uv__poll_io(): an error stops the handle before poll_cb is called.      *)
PollIo(h) ==
  /\ At("io") /\ frame.h = h
  /\ IF "err" \in frame.evs
     THEN io' = IoStop(io, h, {"in", "out"}) /\ hs' = Stopped(hs, h)
     ELSE UNCHANGED <<hs, io>>
  /\ frame' = NoFrame /\ user' = TRUE
  /\ UNCHANGED <<reqs, phase, batch, calls>>

PollFinished(h) ==
  /\ At("finish") /\ frame.h = h
  /\ frame' = [frame EXCEPT !.at = "closed"]
  /\ UNCHANGED <<hs, io, reqs, phase, batch, user, calls>>

PollStep == \E h \in Polls : PollIo(h) \/ PollFinished(h)
=============================================================================
