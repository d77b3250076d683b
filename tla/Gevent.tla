------------------------------- MODULE Gevent -------------------------------
(***************************************************************************)
(* The whole of gevent.c: cothreads and the hub (GeventHub), channels and  *)
(* semaphores (GeventChannel), and here sleeping, waiting, getaddrinfo,    *)
(* spawning, finishing and the hub's run of the libuv loop.                *)
(*                                                                         *)
(* libuv is present as far as gevent.c can see it: the started timers and  *)
(* which of them are due, the getaddrinfo requests on their way through    *)
(* the thread pool, when uv_run() finds the loop no longer alive, and the  *)
(* order of the phases of one iteration of uv_run2().                      *)
(*                                                                         *)
(* The program under study is any program that makes at most MaxCalls      *)
(* calls of the functions in Ops, from any cothread and in any order.      *)
(***************************************************************************)
EXTENDS GeventChannel

EaiError == -2   \* EAI_NONAME, the retcode of a failed lookup

VARIABLES
  timers,      \* cothreads whose op.timer is in loop->timer_handles
  due,         \* those of them with timeout <= loop->time
  refd,        \* cothreads whose op.timer has UV__HANDLE_REF
  queued,      \* <<id, owner>>: requests submitted to the thread pool
  done,        \* loop->wq: requests a worker has finished
  batch,       \* the local queue wq of uv__work_done()
  request,     \* op.getaddrinfo.req, as the id of the request
  answer       \* the request op.getaddrinfo.res answers, 0 if none

timerVars == <<timers, due, refd>>
reqVars   == <<queued, done, batch, request, answer>>
vars == <<hubVars, chanVars, histVars, call, ret, calls, timerVars, reqVars>>

Requests == (1..MaxCalls) \X Threads

LoopTypeOK ==
  /\ timers     \subseteq Threads
  /\ due        \subseteq timers
  /\ refd       \subseteq Threads
  /\ queued     \subseteq Requests
  /\ done       \in Seq(Requests)
  /\ batch      \in Seq(Requests)
  /\ request    \in [Threads -> 0..MaxCalls]
  /\ answer     \in [Threads -> 0..MaxCalls]

TypeOK == HubTypeOK /\ ChannelTypeOK /\ LoopTypeOK

Init ==
  /\ HubInit
  /\ ChannelInit
  /\ timers = {} /\ due = {} /\ refd = {}
  /\ queued = {} /\ done = <<>> /\ batch = <<>>
  /\ request = [t \in Threads |-> 0]
  /\ answer  = [t \in Threads |-> 0]

-----------------------------------------------------------------------------
(* uv__loop_alive(): a started and referenced timer, or a request that was *)
(* not unregistered yet.  gevent closes no handle.                         *)
LoopAlive_NoRequests == timers \cap refd # {}     \* mutant
LoopAlive ==
  \/ timers \cap refd # {}
  \/ queued # {} \/ done # <<>> \/ batch # <<>>

(* gevent_cothread_spawn()                                                 *)
Spawn(me, t) ==
  /\ Calls(me, "spawn")
  /\ state[t] = "NEW"                            \* assert
  /\ Handoff(me, t)
  /\ UNCHANGED <<chanVars, histVars, call, ret, timerVars, reqVars>>

(* gevent_cothread_init() of a struct whose cothread is over; run and args *)
(* overlay the word of op.channel.value.                                   *)
CothreadInit(me, t) ==
  /\ Calls(me, "init")
  /\ state[t] = "DEAD"
  /\ state' = [state EXCEPT ![t] = "NEW"]
  /\ value' = [value EXCEPT ![t] = 0]
  /\ UNCHANGED <<current, ready, stacklet, hubpc, receivers, senders,
                 counter, chan, histVars, call, ret, timerVars, reqVars>>

(* run(g) returns: cothread_starter_fn() goes to the next stacklet.        *)
Finish(me) ==
  /\ current = me /\ call[me] = "none"
  /\ Leave(me)
  /\ UNCHANGED <<chanVars, histVars, call, ret, calls, timerVars, reqVars>>

-----------------------------------------------------------------------------
(* _sleep_internal(): uv_timer_init() links op.timer in loop->handle_queue *)
(* (nobody unlinks it) and overwrites the word of op.channel.value;        *)
(* uv_timer_start() with timeout 0 makes it due at once, because loop->time*)
(* does not go back; uv_unref() when ref is 0.                             *)
StartTimer(me, zero, ref) ==
  /\ value'  = [value EXCEPT ![me] = 0]
  /\ timers' = timers \cup {me}
  /\ due'    = IF zero THEN due \cup {me} ELSE due
  /\ refd'   = IF ref THEN refd \cup {me} ELSE refd \ {me}

SleepInternal(me, zero, ref) ==
  /\ StartTimer(me, zero, ref)
  /\ call' = [call EXCEPT ![me] = "sleep"]
  /\ Yield(me, [state EXCEPT ![me] = "TIMER"])
  /\ UNCHANGED <<receivers, senders, counter, chan, histVars, ret, reqVars>>

(* gevent_sleep(), with a timeout of zero or more.                         *)
Sleep(me) ==
  /\ Calls(me, "sleep")
  /\ \E zero \in BOOLEAN : SleepInternal(me, zero, TRUE)

(* gevent_wait() with a positive timeout.                                  *)
WaitTimeout(me) ==
  /\ Calls(me, "wait")
  /\ SleepInternal(me, FALSE, FALSE)

(* The rest of _sleep_internal() after its yield: uv_timer_stop().         *)
SleepReturns_KeepsDue(me) ==                      \* mutant
  /\ Resumed(me, "sleep")
  /\ timers' = timers \ {me}
  /\ ret'    = 0
  /\ Returns(me)
  /\ UNCHANGED <<hubVars, receivers, senders, value, counter, histVars, due,
                 refd, reqVars>>
SleepReturns(me) ==
  /\ Resumed(me, "sleep")
  /\ timers' = timers \ {me}
  /\ due'    = due \ {me}
  /\ ret'    = 0
  /\ Returns(me)
  /\ UNCHANGED <<hubVars, receivers, senders, value, counter, histVars,
                 refd, reqVars>>

(* gevent_wait() with timeout <= 0: a bare gevent_yield(), the state stays *)
(* GEVENT_COTHREAD_CURRENT.                                                *)
WaitForLoop(me) ==
  /\ Calls(me, "yield")
  /\ call' = [call EXCEPT ![me] = "yield"]
  /\ Yield(me, state)
  /\ UNCHANGED <<chanVars, histVars, ret, timerVars, reqVars>>

WaitReturns(me) ==
  /\ Resumed(me, "yield")
  /\ ret' = 0
  /\ Returns(me)
  /\ UNCHANGED <<hubVars, receivers, senders, value, counter, histVars,
                 timerVars, reqVars>>

-----------------------------------------------------------------------------
(* gevent_getaddrinfo() that cannot submit its request: malloc() returns   *)
(* NULL or uv_getaddrinfo() fails.                                         *)
GetaddrinfoFails(me) ==
  /\ Calls(me, "getaddrinfo")
  /\ ret' = -1
  /\ UNCHANGED <<hubVars, chanVars, histVars, call, timerVars, reqVars>>

Getaddrinfo(me) ==
  /\ Calls(me, "getaddrinfo")
  /\ queued'  = queued \cup {<<calls + 1, me>>}
  /\ request' = [request EXCEPT ![me] = calls + 1]
  /\ answer'  = [answer EXCEPT ![me] = 0]
  /\ call'    = [call EXCEPT ![me] = "getaddrinfo"]
  /\ Yield(me, [state EXCEPT ![me] = "GETADDRINFO"])
  /\ UNCHANGED <<chanVars, histVars, ret, timerVars, done, batch>>

(* The rest of gevent_getaddrinfo(): op.getaddrinfo.error is what the      *)
(* lookup gave, or whatever the word held when there is no answer.         *)
GetaddrinfoReturns(me) ==
  /\ Resumed(me, "getaddrinfo")
  /\ ret' \in {0, EaiError}
  /\ Returns(me)
  /\ UNCHANGED <<hubVars, receivers, senders, value, counter, histVars,
                 timerVars, reqVars>>

(* A worker thread finishes a request and puts it on loop->wq.             *)
WorkerFinishes(r) ==
  /\ r \in queued
  /\ queued' = queued \ {r}
  /\ done' = Append(done, r)
  /\ UNCHANGED <<hubVars, chanVars, histVars, call, ret, calls, timerVars,
                 batch, request, answer>>

-----------------------------------------------------------------------------
(* The top of an iteration of uv_run2(): uv_update_time() and the start of *)
(* uv__run_timers().  Any timers may have become due.                      *)
StartIteration(phase) ==
  /\ current = Hub
  /\ hubpc = phase
  /\ LoopAlive
  /\ hubpc' = "timers"
  /\ \E late \in SUBSET (timers \ due) : due' = due \cup late
  /\ UNCHANGED <<state, current, ready, stacklet, chanVars, histVars, call,
                 ret, calls, timers, refd, reqVars>>

(* uv_run() begins in a fresh hub.                                         *)
LoopEnter == StartIteration("enter")

(* The end of an iteration when the loop is alive.                         *)
LoopAgain == batch = <<>> /\ StartIteration("poll")

(* uv__run_timers() stops and calls back one due timer: sleep_cb().        *)
TimerFires_StopsAllDue(t) ==                      \* mutant
  /\ current = Hub /\ hubpc = "timers"
  /\ t \in due
  /\ timers' = timers \ due
  /\ due'    = {}
  /\ Switch(Hub, t, state, ready)
  /\ UNCHANGED <<chanVars, histVars, call, ret, calls, refd,
                 reqVars>>
TimerFires(t) ==
  /\ current = Hub /\ hubpc = "timers"
  /\ t \in due
  /\ timers' = timers \ {t}
  /\ due'    = due \ {t}
  /\ state[t] = "TIMER"                          \* assert
  /\ Switch(Hub, t, state, ready)
  /\ UNCHANGED <<chanVars, histVars, call, ret, calls, refd,
                 reqVars>>

(* No due timer is left; uv__io_poll() runs uv__work_done(), which takes   *)
(* everything loop->wq holds.                                              *)
Poll_WaitsForWork ==                              \* mutant
  /\ current = Hub /\ hubpc = "timers"
  /\ due = {} /\ (timers # {} \/ done # <<>>)
  /\ hubpc' = "poll"
  /\ batch' = done
  /\ done'  = <<>>
  /\ UNCHANGED <<state, current, ready, stacklet, chanVars, histVars, call,
                 ret, calls, timerVars, queued, request, answer>>
Poll_KeepsQueue ==                                \* mutant
  /\ current = Hub /\ hubpc = "timers"
  /\ due = {}
  /\ hubpc' = "poll"
  /\ batch' = done
  /\ UNCHANGED <<state, current, ready, stacklet, chanVars, histVars, call,
                 ret, calls, timerVars, queued, done, request, answer>>
Poll ==
  /\ current = Hub /\ hubpc = "timers"
  /\ due = {}
  /\ hubpc' = "poll"
  /\ batch' = done
  /\ done'  = <<>>
  /\ UNCHANGED <<state, current, ready, stacklet, chanVars, histVars, call,
                 ret, calls, timerVars, queued, request, answer>>

(* uv__work_done() takes the next request; uv__getaddrinfo_done()          *)
(* unregisters it, getaddrinfo_cb() stores the result and switches.        *)
Answer ==
  /\ current = Hub /\ hubpc = "poll"
  /\ batch # <<>>
  /\ batch' = Tail(batch)
  /\ LET id == Head(batch)[1]
         my == Head(batch)[2]
     IN /\ state[my] = "GETADDRINFO"             \* assert
        /\ answer' = [answer EXCEPT ![my] = id]
        /\ value'  = [value EXCEPT ![my] = 0]
        /\ Switch(Hub, my, state, ready)
  /\ UNCHANGED <<receivers, senders, counter, chan, histVars, call, ret,
                 calls, timerVars, queued, done, request>>

(* uv_run() returns, hub_starter_fn() ends and the hub is gone.            *)
HubStops ==
  /\ current = Hub
  /\ hubpc = "enter" \/ (hubpc = "poll" /\ batch = <<>>)
  /\ ~LoopAlive
  /\ Leave(Hub)
  /\ UNCHANGED <<chanVars, histVars, call, ret, calls, timerVars, reqVars>>

-----------------------------------------------------------------------------
ChannelStep(me, c) ==
  \/ ReceiveBlocks(me, c) \/ ReceiveFromSender(me, c) \/ ReceiveReturns(me, c)
  \/ SendBlocks(me, c) \/ SendToReceiver(me, c) \/ SendReturns(me, c)

SemaphoreStep(me, s) ==
  \/ AcquireAtOnce(me, s) \/ AcquireBlocks(me, s) \/ AcquireReturns(me, s)
  \/ ReleaseToWaiter(me, s) \/ ReleaseReturns(me, s) \/ ReleaseIncrements(me, s)

LoopStep(me) ==
  \/ Sleep(me) \/ WaitTimeout(me) \/ SleepReturns(me)
  \/ WaitForLoop(me) \/ WaitReturns(me)
  \/ Getaddrinfo(me) \/ GetaddrinfoFails(me) \/ GetaddrinfoReturns(me)

(* The main cothread does not finish: its run is the C program's main().   *)
CothreadStep(me) ==
  \/ \E t \in Cothreads : Spawn(me, t) \/ CothreadInit(me, t)
  \/ me # Main /\ Finish(me)
  \/ \E c \in Channels : ChannelStep(me, c) /\ UNCHANGED <<timerVars, reqVars>>
  \/ \E s \in Semaphores :
        SemaphoreStep(me, s) /\ UNCHANGED <<timerVars, reqVars>>
  \/ LoopStep(me)

HubStep ==
  \/ LoopEnter \/ LoopAgain \/ Poll \/ Answer \/ HubStops
  \/ \E t \in Threads : TimerFires(t)

Next ==
  \/ \E me \in Threads : CothreadStep(me)
  \/ HubStep
  \/ \E r \in Requests : WorkerFinishes(r)

Spec == Init /\ [][Next]_vars

(* No cothread computes for ever, the loop runs, a lookup ends, and time   *)
(* passes: a loop that goes on turning finds a started timer due sooner or *)
(* later.                                                                  *)
Fairness ==
  /\ \A t \in Threads : WF_vars(CothreadStep(t))
  /\ WF_vars(HubStep)
  /\ \A r \in Requests : WF_vars(WorkerFinishes(r))
  /\ \A t \in Threads : SF_vars(LoopAgain /\ t \in timers /\ t \in due')

FairSpec == Spec /\ Fairness
=============================================================================
