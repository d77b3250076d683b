------------------------------ MODULE UvIoLoop ------------------------------
(***************************************************************************)
(* One loop of libuv with I/O handles, from uv_run() down to the call of   *)
(* w->cb().  The callbacks of the handle types are actions of the modules  *)
(* that extend this one: a type takes over when frame names one of its     *)
(* handles, and gives control back by leaving NoFrame.  The library is not *)
(* reentrant: while it waits for a callback of the program, user is TRUE,  *)
(* and what the program calls then is done at once.                        *)
(*                                                                         *)
(* epoll_wait() reports several descriptors at a time.  Only when an event *)
(* is dispatched is its watcher looked up, so that it may have stopped or  *)
(* changed since, and the descriptor may belong to another handle.         *)
(***************************************************************************)
EXTENDS UvIo

CONSTANTS
  Handles,     \* the I/O handles of the program
  FdOf,        \* the descriptors that some of them have from the start
  Faulty,      \* the descriptors that errors are reported of
  MaxCalls,    \* bound on the library calls of the program
  Habits       \* what the program does that not every program does:
               \*   "reuse"  it opens a socket while a closed one with the
               \*            same descriptor has an event in the batch
               \*   "cross"  it stops or sends on a handle in a callback of
               \*            another one that is in the same batch
               \*   "rebind" it binds a handle that is bound
               \*   "late"   it takes a received descriptor after the next
               \*   "lingers" it does not close a stream at once when
               \*            shutting it down failed

ASSUME LoopAssumption ==
  /\ IsFiniteSet(Handles) /\ None \notin Handles /\ MaxCalls \in Nat
  /\ DOMAIN FdOf \subseteq Handles /\ \A h \in DOMAIN FdOf : FdOf[h] \in Fds
  /\ \A g, h \in DOMAIN FdOf : FdOf[g] = FdOf[h] => g = h
  /\ Faulty \subseteq Fds
  /\ Habits \subseteq {"reuse", "cross", "rebind", "late", "lingers"}

VARIABLES
  hs,      \* the flags of the handles and the closing list, see UvHandle
  io,      \* the watchers, see UvIo
  reqs,    \* loop->active_reqs
  phase,   \* where uv_run() is, "out" if it does not run
  batch,   \* the events of epoll_wait() that are not dispatched yet
  frame,   \* the library function that is under way, and its handle
  user,    \* whether the program runs
  calls    \* number of calls made

loopVars == <<hs, io, reqs, phase, batch, frame, user, calls>>

NoFrame == [at |-> "none", h |-> None, evs |-> {}]
NoBatch == [f \in Fds |-> {}]
Frame(at, h, evs) == [at |-> at, h |-> h, evs |-> evs]
At(label) == ~user /\ frame.at = label

LoopInit ==
  /\ hs = Fresh(Handles)
  /\ io = [NoWatchers(Handles) EXCEPT
             !.fd = [h \in Handles |-> IF h \in DOMAIN FdOf THEN FdOf[h] ELSE None],
             !.open = {FdOf[h] : h \in DOMAIN FdOf}]
  /\ reqs = {} /\ phase = "out" /\ batch = NoBatch
  /\ frame = NoFrame /\ user = TRUE /\ calls = 0

(* uv__loop_alive()                                                        *)
Alive == hs.count > 0 \/ reqs # {} \/ hs.closing # <<>>

(* The program calls the library.                                          *)
Call ==
  /\ user /\ calls < MaxCalls
  /\ calls' = calls + 1
  /\ UNCHANGED <<phase, batch, frame, user>>

(* The descriptor that socket() or accept() returns is the lowest one.     *)
(* The library does not look whether it has an event to come, of its use   *)
(* before it was closed.                                                   *)
NewFd(f) ==
  LET fds == {g \in Free(io) : batch[g] = {} \/ "reuse" \in Habits}
  IN fds # {} /\ f = Min(fds)

-----------------------------------------------------------------------------
RunLoop ==
  /\ phase = "out" /\ Alive
  /\ phase' = "pending" /\ user' = FALSE
  /\ UNCHANGED <<hs, io, reqs, batch, frame, calls>>

(* uv__run_pending() calls every watcher that was fed.                     *)
TakePending ==
  /\ phase = "pending" /\ At("none") /\ io.pending # <<>>
  /\ frame' = Frame("io", Head(io.pending), {"out"})
  /\ io' = [io EXCEPT !.pending = Tail(@)]
  /\ UNCHANGED <<hs, reqs, phase, batch, user, calls>>

(* uv__io_poll() up to the return of epoll_wait() with what is ready, or   *)
(* with nothing when a timer of the program is due.                        *)
Poll ==
  /\ phase = "pending" /\ At("none") /\ io.pending = <<>>
  /\ phase' = "batch"
  /\ IF \A f \in Fds : io.watchers[f] = None
     THEN /\ io' = Asserting(io, io.queue = {})
          /\ UNCHANGED batch
     ELSE /\ io' = Arm(io, Faulty)
          /\ batch' \in [Fds -> SUBSET Events]
          /\ \A f \in Fds : batch'[f] \subseteq io'.epoll[f]
  /\ UNCHANGED <<hs, reqs, frame, user, calls>>

Dispatch(f) ==
  /\ phase = "batch" /\ At("none") /\ batch[f] # {}
  /\ batch' = [batch EXCEPT ![f] = {}]
  /\ IF io.watchers[f] = None
     THEN io' = Disarm(io, f) /\ UNCHANGED frame
     ELSE frame' = Frame("io", io.watchers[f], batch[f]) /\ UNCHANGED io
  /\ UNCHANGED <<hs, reqs, phase, user, calls>>

(* The callbacks of check handles give the program a turn.                 *)
RunCheck ==
  /\ phase = "batch" /\ At("none") /\ batch = NoBatch
  /\ phase' = "check" /\ user' = TRUE
  /\ UNCHANGED <<hs, io, reqs, batch, frame, calls>>

Return ==
  /\ user /\ phase # "out" /\ user' = FALSE
  /\ UNCHANGED <<hs, io, reqs, phase, batch, frame, calls>>

RunClosing ==
  /\ phase = "check" /\ At("none")
  /\ phase' = "closing" /\ hs' = TakeClosing(hs)
  /\ UNCHANGED <<io, reqs, batch, frame, user, calls>>

(* uv__finish_close() up to the function of the handle's type.             *)
StartFinish ==
  /\ phase = "closing" /\ At("none") /\ hs.doomed # <<>>
  /\ hs' = FinishClose(hs)
  /\ frame' = Frame("finish", Head(hs.doomed), {})
  /\ UNCHANGED <<io, reqs, phase, batch, user, calls>>

(* The end of it: close_cb, after which the memory is the program's.       *)
CallClosed ==
  /\ At("closed")
  /\ frame' = NoFrame /\ user' = TRUE
  /\ UNCHANGED <<hs, io, reqs, phase, batch, calls>>

EndIteration ==
  /\ phase = "closing" /\ At("none") /\ hs.doomed = <<>>
  /\ IF Alive THEN phase' = "pending" /\ UNCHANGED user
              ELSE phase' = "out" /\ user' = TRUE
  /\ UNCHANGED <<hs, io, reqs, batch, frame, calls>>

LoopStep ==
  RunLoop \/ TakePending \/ Poll \/ (\E f \in Fds : Dispatch(f)) \/ RunCheck
    \/ RunClosing \/ StartFinish \/ CallClosed \/ EndIteration

-----------------------------------------------------------------------------
(* The loop calls exactly the handles that wait for an event of a          *)
(* descriptor that they own, none of them is closed, and what they wait    *)
(* for epoll knows or will be told before the next wait: the bookkeeping   *)
(* of uv__io_start() and uv__io_stop() agrees with the kernel's, and no    *)
(* assertion of core.c, stream.c and udp.c about watchers fails.           *)
WatchersAgree ==
  /\ io \in WatchersOf(Handles) /\ io.ok
  /\ \A f \in Fds : io.watchers[f] # None =>
       /\ io.fd[io.watchers[f]] = f
       /\ io.pevents[io.watchers[f]] # {}
       /\ IsUsable(hs, io.watchers[f])
  /\ \A h \in Handles : io.pevents[h] # {} =>
       /\ io.watchers[io.fd[h]] = h
       /\ h \in io.queue \/ io.epoll[io.fd[h]] \ {"err"} = io.pevents[h]
  /\ \A i \in DOMAIN io.pending : IsUsable(hs, io.pending[i])
=============================================================================
