------------------------------ MODULE UvSignal ------------------------------
(***************************************************************************)
(* Signal handles of libuv on unix (signal.c).  All loops of the process   *)
(* share a tree of the handles that watch a signal, protected by a byte in *)
(* a pipe.  uv__signal_handler() interrupts any thread, finds the handles  *)
(* of its signal in the tree and writes a message for each into the pipe   *)
(* of the handle's loop; uv__signal_event() reads the messages and calls   *)
(* back.  A message points to its handle, so a handle that is closed has   *)
(* to outlive its messages.                                                *)
(*                                                                         *)
(* Each loop has a thread that runs it with uv_run() and calls the library *)
(* from callbacks or outside uv_run().  What else there is in a loop shows *)
(* only as callbacks in which the program may call.  The pipes do not get  *)
(* full.                                                                   *)
(***************************************************************************)
EXTENDS UvHandle

CONSTANTS
  Loops,       \* the loops, each standing for its thread too
  Others,      \* threads without a loop
  Handles,     \* the uv_signal_t of the program
  LoopOf,      \* the loop of each
  Signums,     \* signal numbers
  None,        \* no signal, no handle, no thread
  MaxCalls,    \* bound on the library calls of the program
  MaxSignals   \* bound on the signals sent to the process

Threads == Loops \cup Others
On(l)   == {h \in Handles : LoopOf[h] = l}

ASSUME SignalAssumption ==
  /\ LoopOf \in [Handles -> Loops]
  /\ None \notin Threads \cup Signums \cup Handles
  /\ IsFiniteSet(Handles) /\ IsFiniteSet(Threads)
  /\ MaxCalls \in Nat /\ MaxSignals \in Nat

VARIABLES
  hs,          \* the handles of each loop, see UvHandle
  signum,      \* of a handle, None if it does not watch
  caught, dispatched,  \* caught_signals and dispatched_signals
  tree,        \* the handles in uv__signal_tree
  handled,     \* the signals whose action is uv__signal_handler()
  lock,        \* the thread that has read the byte of uv__signal_lock_pipefd
  frame,       \* what uv__signal_handler() is about to do in a thread
  pipe,        \* the messages in signal_pipefd of a loop
  buf,         \* the messages that uv__signal_event() has still to look at
  call,        \* what the library is about to do for the program of a loop
  phase,       \* where uv_run() of a loop is, "out" if it does not run
  user,        \* whether the program of a loop runs
  calls, signals  \* number of calls made and signals sent

handleVars == <<hs, signum, caught, dispatched>>
treeVars   == <<tree, handled, lock>>
loopVars   == <<phase, user>>
vars == <<handleVars, treeVars, frame, pipe, buf, call, loopVars, calls,
          signals>>

Messages == [h : Handles, s : Signums]
NoFrame  == [at |-> "none", s |-> None, h |-> None, seen |-> {}]
NoCall   == [at |-> "none", op |-> "none", h |-> None, s |-> None]

TypeOK ==
  /\ DOMAIN hs = Loops /\ \A l \in Loops : hs[l] \in HandlesOf(On(l))
  /\ signum \in [Handles -> Signums \cup {None}]
  /\ caught \in [Handles -> 0..MaxSignals]
  /\ dispatched \in [Handles -> 0..MaxSignals]
  /\ tree \subseteq Handles /\ handled \subseteq Signums
  /\ lock \in Threads \cup {None}
  /\ frame \in [Threads -> [at : {"none", "lock", "walk", "count"},
                            s : Signums \cup {None},
                            h : Handles \cup {None},
                            seen : SUBSET Handles]]
  /\ pipe \in [Loops -> Seq(Messages)] /\ buf \in [Loops -> Seq(Messages)]
  /\ call \in [Loops -> [at : {"none", "stop", "remove", "removed", "start",
                               "insert", "inserted"},
                         op : {"none", "start", "stop", "close", "delete"},
                         h : Handles \cup {None},
                         s : Signums \cup {None}]]
  /\ phase \in [Loops -> {"out", "poll", "event", "check", "closing", "gone"}]
  /\ user \in [Loops -> BOOLEAN]
  /\ calls \in 0..MaxCalls /\ signals \in 0..MaxSignals

Init ==
  /\ hs = [l \in Loops |-> Fresh(On(l))]
  /\ signum = [h \in Handles |-> None]
  /\ caught = [h \in Handles |-> 0] /\ dispatched = caught
  /\ tree = {} /\ handled = {} /\ lock = None
  /\ frame = [t \in Threads |-> NoFrame]
  /\ pipe = [l \in Loops |-> <<>>] /\ buf = pipe
  /\ call = [l \in Loops |-> NoCall]
  /\ phase = [l \in Loops |-> "out"] /\ user = [l \in Loops |-> TRUE]
  /\ calls = 0 /\ signals = 0

(* The handles that uv__signal_first_handle() and RB_NEXT() find.          *)
Watching(s) == {h \in tree : signum[h] = s}

-----------------------------------------------------------------------------
(* The signal handler.  It runs in a thread with all signals blocked, and  *)
(* a thread blocks them itself while it holds the lock.                    *)
Send(t, s) ==
  /\ signals < MaxSignals /\ s \in handled
  /\ frame[t] = NoFrame /\ lock # t
  /\ frame' = [frame EXCEPT ![t].at = "lock", ![t].s = s]
  /\ signals' = signals + 1
  /\ UNCHANGED <<handleVars, treeVars, pipe, buf, call, loopVars, calls>>

HandlerLocks(t) ==
  /\ frame[t].at = "lock" /\ lock = None
  /\ lock'  = t
  /\ frame' = [frame EXCEPT ![t].at = "walk"]
  /\ UNCHANGED <<handleVars, tree, handled, pipe, buf, call, loopVars, calls,
                 signals>>

Found(t) == Watching(frame[t].s) \ frame[t].seen

WriteMessage(t, h) ==
  /\ frame[t].at = "walk" /\ h \in Found(t)
  /\ pipe' = [pipe EXCEPT ![LoopOf[h]] =
                            Append(@, [h |-> h, s |-> frame[t].s])]
  /\ frame' = [frame EXCEPT ![t].at = "count", ![t].h = h]
  /\ UNCHANGED <<handleVars, treeVars, buf, call, loopVars, calls, signals>>

CountCaught(t) ==
  /\ frame[t].at = "count"
  /\ caught' = [caught EXCEPT ![frame[t].h] = @ + 1]
  /\ frame'  = [frame EXCEPT ![t].at = "walk", ![t].h = None,
                             ![t].seen = @ \cup {frame[t].h}]
  /\ UNCHANGED <<hs, signum, dispatched, treeVars, pipe, buf, call, loopVars,
                 calls, signals>>

HandlerReturns(t) ==
  /\ frame[t].at = "walk" /\ Found(t) = {}
  /\ lock'  = None
  /\ frame' = [frame EXCEPT ![t] = NoFrame]
  /\ UNCHANGED <<handleVars, tree, handled, pipe, buf, call, loopVars, calls,
                 signals>>

-----------------------------------------------------------------------------
(* A call by the program of loop l for the handle h.                       *)
Calls(l, h) ==
  /\ frame[l] = NoFrame /\ call[l] = NoCall
  /\ user[l] /\ phase[l] # "gone"
  /\ calls < MaxCalls
  /\ h \in On(l)
  /\ calls' = calls + 1
  /\ UNCHANGED <<treeVars, frame, pipe, buf, loopVars, signals>>

Continue(l, op, h, s, at) ==
  call' = [call EXCEPT ![l] = [at |-> at, op |-> op, h |-> h, s |-> s]]

(* uv_signal_start() for another signal than the one h watches, if any.    *)
SignalStart(l, h, s) ==
  /\ Calls(l, h)
  /\ IsUsable(hs[l], h) /\ s # signum[h]
  /\ Continue(l, "start", h, s, IF signum[h] = None THEN "start" ELSE "stop")
  /\ UNCHANGED handleVars

SignalStop(l, h) ==
  /\ Calls(l, h)
  /\ IsUsable(hs[l], h) /\ signum[h] # None
  /\ Continue(l, "stop", h, None, "stop")
  /\ UNCHANGED handleVars

(* The end of uv__signal_close().                                          *)
CloseIfDrained_Always(H, h) == MakeClosePending(H, h)    \* mutant
CloseIfDrained(H, h) ==
  IF caught[h] = dispatched[h] THEN MakeClosePending(H, h) ELSE H

(* uv_close(); a handle that does not watch needs no lock.                 *)
Close(l, h) ==
  /\ Calls(l, h)
  /\ IsUsable(hs[l], h)
  /\ LET H == Closing(hs[l], h)
     IN IF signum[h] = None
        THEN /\ hs' = [hs EXCEPT ![l] = CloseIfDrained(H, h)]
             /\ UNCHANGED call
        ELSE /\ hs' = [hs EXCEPT ![l] = H]
             /\ Continue(l, "close", h, None, "stop")
  /\ UNCHANGED <<signum, caught, dispatched>>

(* uv_signal_init() on the memory of a closed handle.                      *)
SignalInit(l, h) ==
  /\ Calls(l, h)
  /\ IsClosed(hs[l], h)
  /\ hs' = [hs EXCEPT ![l] = Initialized(@, h)]
  /\ signum'     = [signum EXCEPT ![h] = None]
  /\ caught'     = [caught EXCEPT ![h] = 0]
  /\ dispatched' = [dispatched EXCEPT ![h] = 0]
  /\ UNCHANGED call

(* uv_loop_delete() stops what still watches, one after the other, and     *)
(* closes the pipe: uv__signal_loop_cleanup().                             *)
DeleteLoop_NoStop(l) ==                           \* mutant
  /\ frame[l] = NoFrame /\ call[l] = NoCall
  /\ phase[l] = "out"
  /\ phase' = [phase EXCEPT ![l] = "gone"]
  /\ pipe'  = [pipe EXCEPT ![l] = <<>>]
  /\ UNCHANGED <<handleVars, treeVars, frame, buf, call, user, calls, signals>>
DeleteLoop(l) ==
  /\ frame[l] = NoFrame /\ call[l] = NoCall
  /\ phase[l] = "out"
  /\ IF \E h \in On(l) : signum[h] # None
     THEN /\ \E h \in On(l) :
               signum[h] # None /\ Continue(l, "delete", h, None, "stop")
          /\ UNCHANGED <<phase, pipe>>
     ELSE /\ phase' = [phase EXCEPT ![l] = "gone"]
          /\ pipe'  = [pipe EXCEPT ![l] = <<>>]
          /\ UNCHANGED call
  /\ UNCHANGED <<handleVars, treeVars, frame, buf, user, calls, signals>>

-----------------------------------------------------------------------------
(* What the calls do under the lock.                                       *)
InCall(l, at) == frame[l] = NoFrame /\ call[l].at = at

(* uv__signal_block_and_lock()                                             *)
BlockAndLock(l) ==
  /\ InCall(l, "stop") \/ InCall(l, "start")
  /\ lock = None
  /\ lock' = l
  /\ call' = [call EXCEPT ![l].at = IF @ = "stop" THEN "remove" ELSE "insert"]
  /\ UNCHANGED <<handleVars, tree, handled, frame, pipe, buf, loopVars, calls,
                 signals>>

(* RB_REMOVE() and uv__signal_unregister_handler() in uv__signal_stop().   *)
RemoveHandle_OwnLoop(l) ==                        \* mutant
  /\ InCall(l, "remove")
  /\ LET h == call[l].h
     IN /\ tree' = tree \ {h}
        /\ handled' = IF Watching(signum[h]) \cap On(l) = {h}
                      THEN handled \ {signum[h]} ELSE handled
  /\ call' = [call EXCEPT ![l].at = "removed"]
  /\ UNCHANGED <<handleVars, lock, frame, pipe, buf, loopVars, calls, signals>>
RemoveHandle(l) ==
  /\ InCall(l, "remove")
  /\ LET h == call[l].h
     IN /\ tree' = tree \ {h}
        /\ handled' = IF Watching(signum[h]) = {h}
                      THEN handled \ {signum[h]} ELSE handled
  /\ call' = [call EXCEPT ![l].at = "removed"]
  /\ UNCHANGED <<handleVars, lock, frame, pipe, buf, loopVars, calls, signals>>

(* The rest of uv__signal_stop() and of its callers.                       *)
UnlockStopped(l) ==
  /\ InCall(l, "removed")
  /\ lock' = None
  /\ LET c == call[l]
         H == Stopped(hs[l], c.h)
     IN /\ signum' = [signum EXCEPT ![c.h] = None]
        /\ hs' = [hs EXCEPT ![l] = IF c.op = "close"
                                   THEN CloseIfDrained(H, c.h) ELSE H]
        /\ IF c.op = "start" THEN Continue(l, "start", c.h, c.s, "start")
           ELSE call' = [call EXCEPT ![l] = NoCall]
  /\ UNCHANGED <<caught, dispatched, tree, handled, frame, pipe, buf, loopVars,
                 calls, signals>>

(* RB_INSERT() and uv__signal_register_handler() in uv_signal_start().     *)
InsertHandle(l) ==
  /\ InCall(l, "insert")
  /\ LET c == call[l]
     IN /\ handled' = handled \cup {c.s}
        /\ signum'  = [signum EXCEPT ![c.h] = c.s]
        /\ tree'    = tree \cup {c.h}
  /\ call' = [call EXCEPT ![l].at = "inserted"]
  /\ UNCHANGED <<hs, caught, dispatched, lock, frame, pipe, buf, loopVars,
                 calls, signals>>

(* sigaction() refuses the signal.                                         *)
RegisterFails(l) ==
  /\ InCall(l, "insert")
  /\ Watching(call[l].s) = {}
  /\ lock' = None
  /\ call' = [call EXCEPT ![l] = NoCall]
  /\ UNCHANGED <<handleVars, tree, handled, frame, pipe, buf, loopVars, calls,
                 signals>>

UnlockStarted(l) ==
  /\ InCall(l, "inserted")
  /\ lock' = None
  /\ hs'   = [hs EXCEPT ![l] = Started(@, call[l].h)]
  /\ call' = [call EXCEPT ![l] = NoCall]
  /\ UNCHANGED <<signum, caught, dispatched, tree, handled, frame, pipe, buf,
                 loopVars, calls, signals>>

-----------------------------------------------------------------------------
(* uv_run().                                                               *)
LoopAlive(l) == hs[l].count > 0 \/ hs[l].closing # <<>>

(* The loop l goes from one phase to another.                              *)
Goes(l, from, to, u) ==
  /\ frame[l] = NoFrame /\ call[l] = NoCall
  /\ phase[l] = from
  /\ phase' = [phase EXCEPT ![l] = to]
  /\ user'  = [user EXCEPT ![l] = u]
  /\ UNCHANGED <<signum, caught, treeVars, frame, call, calls, signals>>

RunLoop(l) ==
  /\ LoopAlive(l)
  /\ Goes(l, "out", "poll", FALSE)
  /\ UNCHANGED <<hs, dispatched, pipe, buf>>

(* uv__io_poll() calls uv__signal_event(), which reads the pipe, or it     *)
(* returns for some other reason; then check callbacks may run.            *)
PollSignal(l) ==
  /\ pipe[l] # <<>>
  /\ Goes(l, "poll", "event", FALSE)
  /\ buf'  = [buf EXCEPT ![l] = pipe[l]]
  /\ pipe' = [pipe EXCEPT ![l] = <<>>]
  /\ UNCHANGED <<hs, dispatched>>

PollReturns(l) ==
  /\ Goes(l, "poll", "check", TRUE)
  /\ UNCHANGED <<hs, dispatched, pipe, buf>>

Matches(m) == m.s = signum[m.h]

CallSignal(l) ==
  /\ buf[l] # <<>> /\ Matches(Head(buf[l])) /\ ~user[l]
  /\ Goes(l, "event", "event", TRUE)
  /\ UNCHANGED <<hs, dispatched, pipe, buf>>

(* The end of the loop's body in uv__signal_event(), after the callback if *)
(* there was one.                                                          *)
Dispatch(l) ==
  /\ buf[l] # <<>> /\ (user[l] \/ ~Matches(Head(buf[l])))
  /\ Goes(l, "event", "event", FALSE)
  /\ LET h == Head(buf[l]).h
     IN /\ dispatched' = [dispatched EXCEPT ![h] = @ + 1]
        /\ hs' = IF ~IsUsable(hs[l], h) /\ caught[h] = dispatched'[h]
                 THEN [hs EXCEPT ![l] = MakeClosePending(@, h)] ELSE hs
  /\ buf' = [buf EXCEPT ![l] = Tail(@)]
  /\ UNCHANGED pipe

EventDone(l) ==
  /\ buf[l] = <<>>
  /\ Goes(l, "event", "check", TRUE)
  /\ UNCHANGED <<hs, dispatched, pipe, buf>>

CheckDone(l) ==
  /\ Goes(l, "check", "closing", FALSE)
  /\ hs' = [hs EXCEPT ![l] = TakeClosing(@)]
  /\ UNCHANGED <<dispatched, pipe, buf>>

CallClosed(l) ==
  /\ hs[l].doomed # <<>> /\ ~user[l]
  /\ Goes(l, "closing", "closing", TRUE)
  /\ hs' = [hs EXCEPT ![l] = FinishClose(@)]
  /\ UNCHANGED <<dispatched, pipe, buf>>

ClosedReturns(l) ==
  /\ user[l]
  /\ Goes(l, "closing", "closing", FALSE)
  /\ UNCHANGED <<hs, dispatched, pipe, buf>>

EndIteration(l) ==
  /\ hs[l].doomed = <<>> /\ ~user[l]
  /\ IF LoopAlive(l) THEN Goes(l, "closing", "poll", FALSE)
     ELSE Goes(l, "closing", "out", TRUE)
  /\ UNCHANGED <<hs, dispatched, pipe, buf>>

-----------------------------------------------------------------------------
HandlerStep ==
  \E t \in Threads :
     \/ \E s \in Signums : Send(t, s)
     \/ HandlerLocks(t)
     \/ \E h \in Handles : WriteMessage(t, h)
     \/ CountCaught(t)
     \/ HandlerReturns(t)

CallStep ==
  \E l \in Loops :
     \/ \E h \in Handles, s \in Signums : SignalStart(l, h, s)
     \/ \E h \in Handles : SignalStop(l, h) \/ Close(l, h) \/ SignalInit(l, h)
     \/ DeleteLoop(l)
     \/ BlockAndLock(l) \/ RemoveHandle(l) \/ UnlockStopped(l)
     \/ InsertHandle(l) \/ RegisterFails(l) \/ UnlockStarted(l)

LoopStep ==
  \E l \in Loops :
     \/ RunLoop(l) \/ PollSignal(l) \/ PollReturns(l)
     \/ CallSignal(l) \/ Dispatch(l) \/ EventDone(l)
     \/ CheckDone(l) \/ CallClosed(l) \/ ClosedReturns(l) \/ EndIteration(l)

Next == HandlerStep \/ CallStep \/ LoopStep

Spec == Init /\ [][Next]_vars

-----------------------------------------------------------------------------
(* The messages that uv__signal_event() of l has still to look at.         *)
Waiting(l) == buf[l] \o pipe[l]

(* The close callback is due once, and only when no message is left: none  *)
(* points to a handle whose memory is the program's.                       *)
ClosedWhenDrained ==
  /\ TypeOK
  /\ \A l \in Loops :
       /\ \A i \in DOMAIN Waiting(l) : ~IsClosed(hs[l], Waiting(l)[i].h)
       /\ phase[l] # "gone" => \A h \in On(l) :
            LET drained == \A i \in DOMAIN Waiting(l) : Waiting(l)[i].h # h
                closing == IsClosing(hs[l], h) /\ call[l].h # h
            IN CloseCalls(hs[l], h) = IF closing /\ drained THEN 1 ELSE 0

(* A signal is handled as long as a handle of any loop watches it, and no  *)
(* longer: uv__signal_first_handle() decides that in uv_signal_start() and *)
(* uv__signal_stop(), for the whole process.                               *)
HandledIffWatched == handled = {signum[h] : h \in tree}

(* When uv_loop_delete() has returned no signal handler in any thread gets *)
(* at a handle of the loop or at its pipe.                                 *)
DeletedLoopIsLeftAlone ==
  \A l \in Loops : phase[l] = "gone" =>
     /\ tree \cap On(l) = {}
     /\ pipe[l] = <<>>
     /\ \A t \in Threads : frame[t].h \notin On(l)

-----------------------------------------------------------------------------
(* uv.h says of uv_close() that "close_cb will be called asynchronously    *)
(* after this call".  uv__loop_alive() does not count a handle that is to  *)
(* be closed when its last message has been read, and uv_run() returns.    *)
CloseIsAnswered ==
  [][\A l \in Loops : phase[l] = "closing" /\ phase'[l] = "out" =>
       \A h \in On(l) : ~IsClosing(hs[l], h)]_vars
=============================================================================
