------------------------------- MODULE UvLoop -------------------------------
(***************************************************************************)
(* The event loop of libuv on unix: uv_run2() (core.c) with its timers     *)
(* (timer.c), its idle, prepare and check watchers (loop-watcher.c), its   *)
(* async handles (async.c) and the closing of handles.  Requests, streams  *)
(* and the other users of uv__io_poll() are not here.                      *)
(*                                                                         *)
(* The program under study makes at most MaxCalls calls of these           *)
(* functions, from outside uv_run2() or from any callback.  A step is one  *)
(* call of the program or what the loop does between two callbacks; other  *)
(* threads only call uv_async_send().                                      *)
(***************************************************************************)
EXTENDS UvHandle

CONSTANTS
  Handles,     \* the handle structs of the program
  Kind,        \* the type of each handle
  Modes,       \* the modes it passes to uv_run2()
  MaxTimeout,  \* bound on timeouts, in milliseconds
  MaxCalls     \* bound on the calls of the program

Of(kinds) == {h \in Handles : Kind[h] \in kinds}

Timers    == Of({"timer"})
Asyncs    == Of({"async"})
WatcherKinds == {"idle", "prepare", "check"}
Watchers  == Of(WatcherKinds)

(* The queues loop->idle_handles ... async_handles; the name of a kind is  *)
(* the sentinel of its queue.                                              *)
Sentinels == WatcherKinds \cup {"async"}
Nodes     == Watchers \cup Asyncs \cup Sentinels

ASSUME LoopAssumption ==
  /\ Kind \in [Handles -> Sentinels \cup {"timer"}]
  /\ Handles \cap Sentinels = {}
  /\ Modes \subseteq {"default", "once", "nowait"}
  /\ IsFiniteSet(Handles)
  /\ MaxTimeout \in Nat /\ MaxCalls \in Nat

VARIABLES
  hs,         \* the handles of the loop, see UvHandle
  nxt, prv,   \* the links of the queues
  left,       \* timeout - loop->time of a timer, 0 when it is due
  repeat,     \* repeat of a timer
  virgin,     \* timers with timer_cb = NULL
  pending,    \* async handles with pending = 1
  pipe,       \* whether loop->async_pipefd has a byte to read
  sender,     \* the handle another thread is about to write a byte for
  phase,      \* where uv_run2() is, "out" if it does not run
  mode,       \* its mode, "default" if it does not run
  timeout,    \* of the current uv__io_poll(), 0 after events came
  cursor,     \* q of ngx_queue_foreach()
  user,       \* whether the program runs: in a callback or outside uv_run2()
  calls,      \* number of calls made
  ran, stayed, rejoined
              \* history of the current pass of a foreach: the handles that
              \* were called back, those active since it began, and whether
              \* one was started in the callback of a stopped one

queueVars == <<nxt, prv>>
timerVars == <<left, repeat, virgin>>
asyncVars == <<pending, pipe, sender>>
runVars   == <<phase, mode, timeout, cursor, user>>
passVars  == <<ran, stayed, rejoined>>
vars == <<hs, queueVars, timerVars, asyncVars, runVars, calls, passVars>>

Active(h) == IsActive(hs, h)
Closed(h) == IsClosed(hs, h)
Usable(h) == IsUsable(hs, h)

Phases == {"out", "timers", "idle", "prepare", "poll", "async", "check",
           "closing"}

TypeOK ==
  /\ hs \in HandlesOf(Handles)
  /\ nxt \in [Nodes -> Nodes] /\ prv \in [Nodes -> Nodes]
  /\ left   \in [Timers -> 0..MaxTimeout]
  /\ repeat \in [Timers -> 0..MaxTimeout]
  /\ virgin  \subseteq Timers
  /\ pending \subseteq Asyncs
  /\ pipe    \in BOOLEAN
  /\ sender  \in Asyncs \cup Sentinels
  /\ phase   \in Phases /\ mode \in Modes \cup {"default"}
  /\ timeout \in -1..MaxTimeout
  /\ cursor  \in Nodes
  /\ user    \in BOOLEAN
  /\ calls   \in 0..MaxCalls
  /\ ran \subseteq Handles /\ stayed \subseteq Handles
  /\ rejoined \in BOOLEAN

-----------------------------------------------------------------------------
(* ngx-queue.h: a queue q is a pair of nxt and prv.                        *)
InsertAfter(q, p, x) ==
  [n |-> [q.n EXCEPT ![x] = q.n[p], ![p] = x],
   p |-> [q.p EXCEPT ![q.n[p]] = x, ![x] = p]]
InsertHead(q, root, x) == InsertAfter(q, root, x)
InsertTail(q, root, x) == InsertAfter(q, q.p[root], x)

(* ngx_queue_remove() leaves the links of x itself as they are.            *)
Removed_Cleared(q, x) ==                          \* mutant
  [n |-> [q.n EXCEPT ![q.p[x]] = q.n[x], ![x] = Kind[x]],
   p |-> [q.p EXCEPT ![q.n[x]] = q.p[x]]]
Removed(q, x) ==
  [n |-> [q.n EXCEPT ![q.p[x]] = q.n[x]],
   p |-> [q.p EXCEPT ![q.n[x]] = q.p[x]]]

Queues == [n |-> nxt, p |-> prv]
SetQueues(q) == nxt' = q.n /\ prv' = q.p

(* A new loop and its handles: uv_async_init() has started the async       *)
(* handles, and the program some of the watchers; in[k] is the queue of k. *)
KindOf(x) == IF x \in Sentinels THEN x ELSE Kind[x]

Neighbour(r, x) ==
  IF x \in ToSet(r) THEN r[1 + (CHOOSE i \in 1..Len(r)-1 : r[i] = x)] ELSE x

Linked(in) ==
  LET Ring(x) == <<KindOf(x)>> \o in[KindOf(x)] \o <<KindOf(x)>>
  IN [n |-> [x \in Nodes |-> Neighbour(Ring(x), x)],
      p |-> [x \in Nodes |-> Neighbour(Reverse(Ring(x)), x)]]

AllActive(on) ==
  [Fresh(Handles) EXCEPT
     !.flags = [h \in Handles |-> IF h \in on THEN {"active", "ref"} ELSE {"ref"}],
     !.count = Cardinality(on)]

Init ==
  /\ \E i \in SetToAllKPermutations(Of({"idle"})),
        p \in SetToAllKPermutations(Of({"prepare"})),
        c \in SetToAllKPermutations(Of({"check"})), a \in SetToSeqs(Asyncs) :
        LET in == [idle |-> i, prepare |-> p, check |-> c, async |-> a]
        IN /\ nxt = Linked(in).n /\ prv = Linked(in).p
           /\ hs = AllActive(UNION {ToSet(in[k]) : k \in Sentinels})
  /\ left   = [t \in Timers |-> 0]
  /\ repeat = [t \in Timers |-> 0]
  /\ virgin = Timers
  /\ pending = {} /\ pipe = FALSE /\ sender = "async"
  /\ phase = "out" /\ mode = "default" /\ timeout = 0
  /\ cursor = "async" /\ user = TRUE
  /\ calls = 0
  /\ ran = {} /\ stayed = {} /\ rejoined = FALSE

-----------------------------------------------------------------------------
(* A call by the program.  Calls that return without an effect are left    *)
(* out: what makes them return is in the guards of the others.             *)
Calls ==
  /\ user /\ calls < MaxCalls
  /\ calls' = calls + 1
  /\ UNCHANGED <<sender, runVars, ran>>

(* uv_idle_start(), uv_prepare_start(), uv_check_start() and their stops.  *)
StartWatcher(w) ==
  /\ Calls
  /\ w \in Watchers /\ Usable(w) /\ ~Active(w)
  /\ SetQueues(InsertHead(Queues, Kind[w], w))
  /\ hs' = Started(hs, w)
  /\ rejoined' = (rejoined \/ (Kind[w] = phase /\ ~Active(cursor)))
  /\ UNCHANGED <<timerVars, pending, pipe, stayed>>

StopWatcher(w) ==
  /\ Calls
  /\ w \in Watchers /\ Active(w)
  /\ SetQueues(Removed(Queues, w))
  /\ hs' = Stopped(hs, w)
  /\ stayed' = stayed \ {w}
  /\ UNCHANGED <<timerVars, pending, pipe, rejoined>>

TimerStart(t, d, r) ==
  /\ Calls
  /\ Usable(t)
  /\ hs'     = Started(Stopped(hs, t), t)
  /\ left'   = [left EXCEPT ![t] = d]
  /\ repeat' = [repeat EXCEPT ![t] = r]
  /\ virgin' = virgin \ {t}
  /\ UNCHANGED <<queueVars, pending, pipe, stayed, rejoined>>

TimerStop(t) ==
  /\ Calls
  /\ Active(t)
  /\ hs'   = Stopped(hs, t)
  /\ left' = [left EXCEPT ![t] = 0]
  /\ UNCHANGED <<queueVars, repeat, virgin, pending, pipe, stayed,
                 rejoined>>

(* uv_timer_again() after the handle's state H.                            *)
Again(H, t) ==
  IF t \notin virgin /\ repeat[t] # 0
  THEN /\ hs'   = Started(Stopped(H, t), t)
       /\ left' = [left EXCEPT ![t] = repeat[t]]
  ELSE hs' = H /\ left' = left

TimerAgain(t) ==
  /\ Calls
  /\ Usable(t)
  /\ Again(hs, t)
  /\ UNCHANGED <<queueVars, repeat, virgin, pending, pipe, stayed,
                 rejoined>>

SetRepeat(t, r) ==
  /\ Calls
  /\ Usable(t)
  /\ repeat' = [repeat EXCEPT ![t] = r]
  /\ UNCHANGED <<hs, queueVars, left, virgin, pending, pipe, stayed,
                 rejoined>>

(* uv_close(); no other thread is sending to h.                            *)
Close_StaysQueued(h) ==                           \* mutant
  /\ Calls
  /\ Usable(h) /\ sender # h
  /\ IF h \in Watchers /\ Active(h)
     THEN SetQueues(Removed(Queues, h)) ELSE UNCHANGED queueVars
  /\ hs' = MakeClosePending(Stopped(Closing(hs, h), h), h)
  /\ left' = [t \in Timers |-> IF t = h THEN 0 ELSE left[t]]
  /\ stayed' = stayed \ {h}
  /\ UNCHANGED <<repeat, virgin, pending, pipe, rejoined>>
Close(h) ==
  /\ Calls
  /\ Usable(h) /\ sender # h
  /\ IF h \in Asyncs \/ (h \in Watchers /\ Active(h))
     THEN SetQueues(Removed(Queues, h)) ELSE UNCHANGED queueVars
  /\ hs' = MakeClosePending(Stopped(Closing(hs, h), h), h)
  /\ left' = [t \in Timers |-> IF t = h THEN 0 ELSE left[t]]
  /\ stayed' = stayed \ {h}
  /\ UNCHANGED <<repeat, virgin, pending, pipe, rejoined>>

(* The program uses the memory of a closed handle for a new one.           *)
Reinit(h) ==
  /\ Calls
  /\ Closed(h)
  /\ IF h \in Asyncs
     THEN /\ hs' = Started(Initialized(hs, h), h)
          /\ SetQueues(InsertTail(Queues, "async", h))
     ELSE hs' = Initialized(hs, h) /\ UNCHANGED queueVars
  /\ pending' = pending \ {h}
  /\ virgin'  = virgin \cup (Timers \cap {h})
  /\ UNCHANGED <<left, repeat, pipe, stayed, rejoined>>

(* uv_ref() and uv_unref()                                                 *)
ChangeRef(h) ==
  /\ Calls
  /\ ~Closed(h)
  /\ hs' \in {Reffed(hs, h), Unreffed(hs, h)} \ {hs}
  /\ UNCHANGED <<queueVars, timerVars, pending, pipe, stayed,
                 rejoined>>

(* uv_async_send() by the loop's thread and by another one, which may be   *)
(* interrupted between pending = 1 and write().                            *)
Send(a) ==
  /\ Calls
  /\ Usable(a) /\ a \notin pending
  /\ pending' = pending \cup {a}
  /\ pipe'    = TRUE
  /\ UNCHANGED <<hs, queueVars, timerVars, stayed, rejoined>>

ThreadSends(a) ==
  /\ sender = "async"
  /\ Usable(a) /\ a \notin pending
  /\ pending' = pending \cup {a}
  /\ sender'  = a
  /\ UNCHANGED <<hs, queueVars, timerVars, pipe, runVars, calls,
                 passVars>>

ThreadWrites ==
  /\ sender # "async"
  /\ sender' = "async"
  /\ pipe'   = TRUE
  /\ UNCHANGED <<hs, queueVars, timerVars, pending, runVars, calls,
                 passVars>>

-----------------------------------------------------------------------------
(* loop->time advances by d.                                               *)
Tick(d) ==
  left' = [t \in Timers |-> IF left[t] > d THEN left[t] - d ELSE 0]

(* uv_update_time(), called by the program.                                *)
UpdateTime(d) ==
  /\ Calls
  /\ Tick(d)
  /\ UNCHANGED <<hs, queueVars, repeat, virgin, pending, pipe, stayed,
                 rejoined>>

(* uv__loop_alive(), and uv_backend_timeout() with uv__next_timeout().     *)
LoopAlive_NotClosing == hs.count > 0              \* mutant
LoopAlive == hs.count > 0 \/ hs.closing # <<>>

NextTimeout ==
  LET on == {left[t] : t \in {u \in Timers : Active(u)}}
  IN IF on = {} THEN -1 ELSE Min(on)
BackendTimeout_NoIdle ==                          \* mutant
  IF hs.count = 0 \/ hs.closing # <<>> THEN 0 ELSE NextTimeout
BackendTimeout ==
  IF hs.count = 0 \/ nxt["idle"] # "idle" \/ hs.closing # <<>>
  THEN 0 ELSE NextTimeout

(* The top of an iteration of uv_run2(): uv_update_time(), after at least  *)
(* the time that uv__io_poll() waited in vain.                             *)
StartIteration ==
  /\ phase' = "timers" /\ user' = FALSE
  /\ \E d \in timeout..MaxTimeout : Tick(d)
  /\ timeout' = 0

(* ngx_queue_foreach() begins at the head of the queue of kind k.          *)
StartPass(k) ==
  /\ phase'    = k
  /\ cursor'   = nxt[k]
  /\ ran'      = {}
  /\ stayed'   = {w \in Watchers : Kind[w] = k /\ Active(w)}
  /\ rejoined' = FALSE

LoopVars == <<hs, queueVars, repeat, virgin, sender, calls>>

RunLoop(m) ==
  /\ phase = "out"
  /\ LoopAlive
  /\ mode' = m
  /\ StartIteration
  /\ UNCHANGED <<LoopVars, pending, pipe, cursor, passVars>>

(* uv__run_timers(): a timer that is due is stopped, started again if it   *)
(* repeats, and called back.                                               *)
FireTimer(t) ==
  /\ phase = "timers" /\ ~user
  /\ Active(t) /\ left[t] = 0
  /\ Again(Stopped(hs, t), t)
  /\ user' = TRUE
  /\ UNCHANGED <<queueVars, repeat, virgin, asyncVars, phase,
                 mode, timeout, cursor, calls, passVars>>

TimersDone ==
  /\ phase = "timers" /\ ~user
  /\ \A t \in Timers : Active(t) => left[t] > 0
  /\ StartPass("idle")
  /\ UNCHANGED <<LoopVars, left, pending, pipe, mode, timeout,
                 user>>

(* The body of uv__run_idle() ... uv__run_check() and of uv__async_io().   *)
More == prv[phase] # phase /\ cursor # phase

CallWatcher ==
  /\ phase \in WatcherKinds /\ ~user /\ More
  /\ user' = TRUE
  /\ ran'  = ran \cup {cursor}
  /\ UNCHANGED <<LoopVars, left, pending, pipe, phase, mode,
                 timeout, cursor, stayed, rejoined>>

CallAsync ==
  /\ phase = "async" /\ ~user /\ More
  /\ IF cursor \in pending
     THEN /\ pending' = pending \ {cursor}
          /\ user' = TRUE /\ cursor' = cursor
          /\ ran' = ran \cup {cursor}
     ELSE /\ cursor' = nxt[cursor]
          /\ UNCHANGED <<pending, user, ran>>
  /\ UNCHANGED <<LoopVars, left, pipe, phase, mode, timeout,
                 stayed, rejoined>>

(* A callback returns; the walk goes on from the links as they are now.    *)
CallbackReturns ==
  /\ phase # "out" /\ user
  /\ user'   = FALSE
  /\ cursor' = IF phase \in Sentinels THEN nxt[cursor] ELSE cursor
  /\ UNCHANGED <<LoopVars, left, pending, pipe, phase, mode,
                 timeout, passVars>>

EndPass(k) == phase = k /\ ~user /\ ~More

IdleDone ==
  /\ EndPass("idle")
  /\ StartPass("prepare")
  /\ UNCHANGED <<LoopVars, left, pending, pipe, mode, timeout,
                 user>>

(* uv__io_poll() is called; its timeout is found out before.               *)
PrepareDone ==
  /\ EndPass("prepare")
  /\ phase'   = "poll"
  /\ timeout' = IF mode = "nowait" THEN 0 ELSE BackendTimeout
  /\ UNCHANGED <<LoopVars, left, pending, pipe, mode, cursor,
                 user, passVars>>

(* uv__async_io() empties the pipe and walks over the async handles.       *)
PollEvent ==
  /\ phase = "poll" /\ pipe
  /\ pipe'    = FALSE
  /\ timeout' = 0
  /\ StartPass("async")
  /\ UNCHANGED <<LoopVars, left, pending, mode, user>>

PollTimesOut ==
  /\ phase = "poll" /\ ~pipe /\ timeout # -1
  /\ StartPass("check")
  /\ UNCHANGED <<LoopVars, left, pending, pipe, mode, timeout,
                 user>>

AsyncDone ==
  /\ EndPass("async")
  /\ StartPass("check")
  /\ UNCHANGED <<LoopVars, left, pending, pipe, mode, timeout,
                 user>>

CheckDone ==
  /\ EndPass("check")
  /\ phase' = "closing"
  /\ hs' = TakeClosing(hs)
  /\ UNCHANGED <<queueVars, timerVars, asyncVars, calls, mode, timeout, cursor,
                 user, passVars>>

(* uv__run_closing_handles() calls a close callback.                       *)
CallClosed ==
  /\ phase = "closing" /\ ~user /\ hs.doomed # <<>>
  /\ hs' = FinishClose(hs)
  /\ user' = TRUE
  /\ UNCHANGED <<queueVars, timerVars, asyncVars, phase, mode, timeout, cursor,
                 calls, passVars>>

EndIteration ==
  /\ phase = "closing" /\ ~user /\ hs.doomed = <<>>
  /\ IF LoopAlive /\ mode = "default"
     THEN StartIteration /\ mode' = mode
     ELSE /\ phase' = "out" /\ mode' = "default" /\ timeout' = 0
          /\ user' = TRUE
          /\ left' = left
  /\ UNCHANGED <<LoopVars, pending, pipe, cursor, passVars>>

-----------------------------------------------------------------------------
ProgramStep ==
  \/ \E h \in Handles : Close(h) \/ Reinit(h) \/ ChangeRef(h)
  \/ \E w \in Watchers : StartWatcher(w) \/ StopWatcher(w)
  \/ \E t \in Timers, d, r \in 0..MaxTimeout : TimerStart(t, d, r)
  \/ \E t \in Timers, r \in 0..MaxTimeout : SetRepeat(t, r)
  \/ \E t \in Timers : TimerStop(t) \/ TimerAgain(t)
  \/ \E d \in 1..MaxTimeout : UpdateTime(d)
  \/ \E a \in Asyncs : Send(a)

LoopStep ==
  \/ \E t \in Timers : FireTimer(t)
  \/ TimersDone \/ CallWatcher \/ CallAsync \/ IdleDone \/ PrepareDone
  \/ PollEvent \/ PollTimesOut \/ AsyncDone \/ CheckDone \/ CallClosed
  \/ EndIteration

ThreadStep == ThreadWrites \/ \E a \in Asyncs : ThreadSends(a)

Next ==
  \/ ProgramStep \/ CallbackReturns \/ \E m \in Modes : RunLoop(m)
  \/ LoopStep \/ ThreadStep

Spec == Init /\ [][Next]_vars

-----------------------------------------------------------------------------
(* loop->active_handles counts the handles that keep uv_run() going,       *)
(* however starts, stops, uv_unref()s and closes are mixed.                *)
CountIsRight ==
  /\ TypeOK
  /\ hs.count =
       Cardinality({h \in Handles : {"active", "ref"} \subseteq hs.flags[h]})

(* uv_run() returns only when nothing is left to wait for and every        *)
(* uv_close() has been answered.                                           *)
RunEndsClean ==
  [][phase # "out" /\ phase' = "out" /\ mode = "default" =>
       \A h \in Handles :
          /\ ~({"active", "ref"} \subseteq hs.flags[h])
          /\ ~IsClosing(hs, h)]_vars

(* A handle is waiting for its close callback exactly once from uv_close() *)
(* on, and never otherwise.  After it the loop has no way to the handle,   *)
(* neither along its queues nor with the q of a foreach, which follows the *)
(* links that stopped handles still have: the memory is the program's.     *)
ClosedOnce ==
  \A h \in Handles :
     /\ CloseCalls(hs, h) = IF IsClosing(hs, h) THEN 1 ELSE 0
     /\ Closed(h) => ~Active(h) /\ (phase \in Sentinels => h # cursor)
     /\ Closed(h) /\ h \in Nodes =>
          \A x \in Nodes \ {h} :
             x \in Sentinels \/ Active(x) => nxt[x] # h /\ prv[x] # h

(* A watcher that is active from the beginning of a pass to its end is     *)
(* called back in it, whatever the callbacks start, stop and close.  None  *)
(* is called back twice, unless a callback has stopped its own watcher, so *)
(* that the walk goes on from an old link, and started one.                *)
CalledOnce ==
  [][/\ phase \in WatcherKinds /\ phase' # phase => stayed \subseteq ran
     /\ phase \in WatcherKinds /\ ~user /\ user' /\ cursor \in ran => rejoined]_vars

(* uv__io_poll() waits no longer than until the next timer and not at all  *)
(* when an idle watcher is active or a handle is being closed.  A handle   *)
(* for which uv_async_send() was called is called back, or the byte in the *)
(* pipe that tells the loop to do so is there or on its way.               *)
NeverOversleeps ==
  /\ phase = "poll" /\ timeout # 0 =>
       /\ hs.closing = <<>>
       /\ \A h \in Handles : Active(h) =>
            /\ Kind[h] # "idle"
            /\ Kind[h] = "timer" => timeout \in 1..left[h]
  /\ \A a \in pending : Usable(a) => pipe \/ sender = a \/ phase = "async"
=============================================================================
