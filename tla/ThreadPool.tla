----------------------------- MODULE ThreadPool -----------------------------
(***************************************************************************)
(* libuv's thread pool (unix/threadpool.c) and the async handle by which   *)
(* the workers wake the event loop (unix/async.c): one loop thread, which  *)
(* runs the program and uv_run(), and the worker threads.                  *)
(*                                                                         *)
(* A step is what a thread does between two points where another thread    *)
(* can see a difference: a critical section of one mutex is one step, the  *)
(* two nested ones of uv_cancel() and the calls made with loop->wq_mutex   *)
(* held are steps of their own.                                            *)
(***************************************************************************)
EXTENDS FiniteSets, SequencesExt

CONSTANTS
  Workers,  \* threads[]
  Reqs,     \* the requests of the program, each used again and again
  Loop,     \* the loop thread
  Exit,     \* exit_message
  None      \* no thread, no request

ASSUME PoolAssumption ==
  /\ IsFiniteSet(Workers) /\ Workers # {}
  /\ Loop \notin Workers /\ None \notin Workers \cup {Loop}
  /\ Exit \notin Reqs /\ None \notin Reqs

Procs == Workers \cup {Loop}

VARIABLES
  mutex,    \* owner of the mutex of the pool
  wq,       \* the queue of the pool
  wqMutex,  \* owner of loop->wq_mutex
  loopWq,   \* loop->wq
  pending,  \* loop->wq_async.pending
  pipe,     \* whether loop->async_pipefd has a byte to read
  work,     \* w->work: "fn", "NULL" or "cancelled"
  active,   \* loop->active_reqs
  batch,    \* the local queue wq of uv__work_done()
  inLoop,   \* whether the program runs in a callback of uv_run()
  pc,       \* where each thread is
  arg,      \* the request a thread has in hand
  status    \* what the last callback of a request was told

poolVars  == <<mutex, wq>>
asyncVars == <<pending, pipe>>
vars == <<poolVars, wqMutex, loopWq, asyncVars, work, active, batch, inLoop,
          pc, arg, status>>

(* Both kinds of thread pass through "send", "write" and "unlock": they    *)
(* hold loop->wq_mutex and wake the loop.                                  *)
WorkerPCs == {"off", "lock", "wait", "work", "finish", "send", "write",
              "unlock", "exited"}
LoopPCs == {"code", "cancel", "requeue", "send", "write", "unlock", "poll",
            "async", "take", "deliver", "exiting", "exited"}

TypeOK ==
  /\ mutex   \in Procs \cup {None}
  /\ wq      \in Seq(Reqs \cup {Exit})
  /\ wqMutex \in Procs \cup {None}
  /\ loopWq  \in Seq(Reqs)
  /\ pending \in BOOLEAN
  /\ pipe    \in BOOLEAN
  /\ work    \in [Reqs -> {"fn", "NULL", "cancelled"}]
  /\ active  \subseteq Reqs
  /\ batch   \in Seq(Reqs)
  /\ inLoop  \in BOOLEAN
  /\ pc      \in [Procs -> WorkerPCs \cup LoopPCs]
  /\ pc[Loop] \in LoopPCs /\ \A w \in Workers : pc[w] \in WorkerPCs
  /\ arg     \in [Procs -> Reqs \cup {None}]
  /\ status  \in [Reqs -> {"none", "ok", "ECANCELED"}]

Init ==
  /\ mutex = None /\ wq = <<>>
  /\ wqMutex = None /\ loopWq = <<>>
  /\ pending = FALSE /\ pipe = FALSE
  /\ work = [r \in Reqs |-> "NULL"]
  /\ active = {} /\ batch = <<>> /\ inLoop = FALSE
  /\ pc = [p \in Procs |-> IF p = Loop THEN "code" ELSE "off"]
  /\ arg = [p \in Procs |-> None]
  /\ status = [r \in Reqs |-> "none"]

-----------------------------------------------------------------------------
(* ngx_queue_remove(): a request is linked once.                           *)
Unlink(q, r) == RemoveFirst(q, r)

Goto(p, to) == pc' = [pc EXCEPT ![p] = to]

(* uv_cond_signal(): one of the waiting workers, if there is any, goes on  *)
(* and locks the mutex again.  pcs are the pcs the caller leaves behind.   *)
Signal(pcs) ==
  LET waiting == {w \in Workers : pcs[w] = "wait"}
  IN IF waiting = {} THEN pc' = pcs
     ELSE \E w \in waiting : pc' = [pcs EXCEPT ![w] = "lock"]

(* post()                                                                  *)
Post(q, pcs) ==
  /\ mutex = None
  /\ wq' = Append(wq, q)
  /\ Signal(pcs)
  /\ UNCHANGED mutex

(* init_once() has started the workers when the first request is queued.   *)
InitOnce(pcs) ==
  [p \in Procs |-> IF pcs[p] = "off" THEN "lock" ELSE pcs[p]]

-----------------------------------------------------------------------------
(* worker(): the queue is empty, uv_cond_wait() releases the mutex.        *)
Wait(w) ==
  /\ pc[w] = "lock"
  /\ mutex = None
  /\ wq = <<>>
  /\ Goto(w, "wait")
  /\ UNCHANGED <<poolVars, wqMutex, loopWq, asyncVars, work, active, batch,
                 inLoop, arg, status>>

(* uv_cond_wait() may return without a signal.                             *)
SpuriousWakeup(w) ==
  /\ pc[w] = "wait"
  /\ Goto(w, "lock")
  /\ UNCHANGED <<poolVars, wqMutex, loopWq, asyncVars, work, active, batch,
                 inLoop, arg, status>>

Take(w) ==
  /\ pc[w] = "lock"
  /\ mutex = None
  /\ wq # <<>> /\ Head(wq) # Exit
  /\ wq'  = Tail(wq)
  /\ arg' = [arg EXCEPT ![w] = Head(wq)]
  /\ Goto(w, "work")
  /\ UNCHANGED <<mutex, wqMutex, loopWq, asyncVars, work, active, batch,
                 inLoop, status>>

(* exit_message stays in the queue for the next worker.                    *)
Quit_NoSignal(w) ==                               \* mutant
  /\ pc[w] = "lock"
  /\ mutex = None
  /\ wq # <<>> /\ Head(wq) = Exit
  /\ Goto(w, "exited")
  /\ UNCHANGED <<poolVars, wqMutex, loopWq, asyncVars, work, active, batch,
                 inLoop, arg, status>>
Quit(w) ==
  /\ pc[w] = "lock"
  /\ mutex = None
  /\ wq # <<>> /\ Head(wq) = Exit
  /\ Signal([pc EXCEPT ![w] = "exited"])
  /\ UNCHANGED <<poolVars, wqMutex, loopWq, asyncVars, work, active, batch,
                 inLoop, arg, status>>

(* w->work(w) returns.                                                     *)
WorkReturns(w) ==
  /\ pc[w] = "work"
  /\ Goto(w, "finish")
  /\ UNCHANGED <<poolVars, wqMutex, loopWq, asyncVars, work, active, batch,
                 inLoop, arg, status>>

(* Under loop->wq_mutex: w->work = NULL and the insertion in loop->wq.     *)
Hand_Unlocked(w) ==                               \* mutant
  /\ pc[w] = "finish"
  /\ work' = [work EXCEPT ![arg[w]] = "NULL"]
  /\ loopWq' = Append(loopWq, arg[w])
  /\ Goto(w, "send")
  /\ UNCHANGED <<poolVars, wqMutex, asyncVars, active, batch, inLoop, arg,
                 status>>
Hand(w) ==
  /\ pc[w] = "finish"
  /\ wqMutex = None
  /\ wqMutex' = w
  /\ work' = [work EXCEPT ![arg[w]] = "NULL"]
  /\ loopWq' = Append(loopWq, arg[w])
  /\ Goto(w, "send")
  /\ UNCHANGED <<poolVars, asyncVars, active, batch, inLoop, arg, status>>

-----------------------------------------------------------------------------
(* uv_async_send(): the exchange of uv__async_make_pending() ...           *)
MakePending(p) ==
  /\ pc[p] = "send"
  /\ pending' = TRUE
  /\ Goto(p, IF pending THEN "unlock" ELSE "write")
  /\ UNCHANGED <<poolVars, wqMutex, loopWq, pipe, work, active, batch, inLoop,
                 arg, status>>

(* ... and the write(), which loses nothing when the pipe is full.         *)
WritePipe(p) ==
  /\ pc[p] = "write"
  /\ pipe' = TRUE
  /\ Goto(p, "unlock")
  /\ UNCHANGED <<poolVars, wqMutex, loopWq, pending, work, active, batch,
                 inLoop, arg, status>>

(* uv_mutex_unlock(&loop->wq_mutex); the worker goes round its loop, the   *)
(* loop thread returns from uv_cancel().                                   *)
Unlock(p) ==
  /\ pc[p] = "unlock"
  /\ wqMutex' = None
  /\ arg' = [arg EXCEPT ![p] = None]
  /\ Goto(p, IF p = Loop THEN "code" ELSE "lock")
  /\ UNCHANGED <<poolVars, loopWq, asyncVars, work, active, batch, inLoop,
                 status>>

-----------------------------------------------------------------------------
(* The loop thread in the program's code, in main() or in a callback:      *)
(* uv_queue_work(), or uv_getaddrinfo(), of a request that is free.        *)
Submit(r) ==
  /\ pc[Loop] = "code"
  /\ r \notin active
  /\ active' = active \cup {r}
  /\ work'   = [work EXCEPT ![r] = "fn"]
  /\ status' = [status EXCEPT ![r] = "none"]
  /\ Post(r, InitOnce(pc))
  /\ UNCHANGED <<wqMutex, loopWq, asyncVars, batch, inLoop, arg>>

(* uv_cancel() of a request whose callback is still to come locks the      *)
(* pool's mutex ...                                                        *)
Cancel(r) ==
  /\ pc[Loop] = "code"
  /\ r \in active
  /\ mutex = None
  /\ mutex' = Loop
  /\ arg'   = [arg EXCEPT ![Loop] = r]
  /\ Goto(Loop, "cancel")
  /\ UNCHANGED <<wq, wqMutex, loopWq, asyncVars, work, active, batch, inLoop,
                 status>>

(* !ngx_queue_empty(&w->wq): the request is in some queue.                 *)
Linked_NoInit(r) == r \in active                  \* mutant
Linked(r) == r \in ToSet(wq) \cup ToSet(loopWq) \cup ToSet(batch)

(* ... then the loop's, and unlinks the request wherever it is.            *)
CancelFails ==
  LET r == arg[Loop] IN
  /\ pc[Loop] = "cancel"
  /\ wqMutex = None
  /\ ~(Linked(r) /\ work[r] # "NULL")
  /\ mutex' = None
  /\ arg' = [arg EXCEPT ![Loop] = None]
  /\ Goto(Loop, "code")
  /\ UNCHANGED <<wq, wqMutex, loopWq, asyncVars, work, active, batch, inLoop,
                 status>>

CancelUnlinks ==
  LET r == arg[Loop] IN
  /\ pc[Loop] = "cancel"
  /\ wqMutex = None
  /\ Linked(r) /\ work[r] # "NULL"
  /\ wq'     = Unlink(wq, r)
  /\ loopWq' = Unlink(loopWq, r)
  /\ batch'  = Unlink(batch, r)
  /\ work'   = [work EXCEPT ![r] = "cancelled"]
  /\ mutex'  = None
  /\ Goto(Loop, "requeue")
  /\ UNCHANGED <<wqMutex, asyncVars, active, inLoop, arg, status>>

Requeue ==
  /\ pc[Loop] = "requeue"
  /\ wqMutex = None
  /\ wqMutex' = Loop
  /\ loopWq' = Append(loopWq, arg[Loop])
  /\ Goto(Loop, "send")
  /\ UNCHANGED <<poolVars, asyncVars, work, active, batch, inLoop, arg, status>>

-----------------------------------------------------------------------------
(* uv_run() goes into epoll_wait() while the loop is alive.                *)
RunLoop ==
  /\ pc[Loop] = "code" /\ ~inLoop
  /\ active # {}
  /\ inLoop' = TRUE
  /\ Goto(Loop, "poll")
  /\ UNCHANGED <<poolVars, wqMutex, loopWq, asyncVars, work, active, batch,
                 arg, status>>

(* The callback of a timer or of another handle of the program.            *)
OtherCallback ==
  /\ pc[Loop] = "poll"
  /\ Goto(Loop, "code")
  /\ UNCHANGED <<poolVars, wqMutex, loopWq, asyncVars, work, active, batch,
                 inLoop, arg, status>>

(* uv__async_io() reads the pipe empty ...                                 *)
Drain ==
  /\ pc[Loop] = "poll"
  /\ pipe
  /\ pipe' = FALSE
  /\ Goto(Loop, "async")
  /\ UNCHANGED <<poolVars, wqMutex, loopWq, pending, work, active, batch,
                 inLoop, arg, status>>

(* ... clears pending, and only then calls uv__work_done().                *)
ClearPending_Not ==                              \* mutant
  /\ pc[Loop] = "async"
  /\ Goto(Loop, IF pending THEN "take" ELSE "deliver")
  /\ UNCHANGED <<poolVars, wqMutex, loopWq, asyncVars, work, active, batch,
                 inLoop, arg, status>>
ClearPending ==
  /\ pc[Loop] = "async"
  /\ pending' = FALSE
  /\ Goto(Loop, IF pending THEN "take" ELSE "deliver")
  /\ UNCHANGED <<poolVars, wqMutex, loopWq, pipe, work, active, batch, inLoop,
                 arg, status>>

(* uv__work_done() takes all that loop->wq holds ...                       *)
TakeBatch ==
  /\ pc[Loop] = "take"
  /\ wqMutex = None
  /\ batch'  = loopWq
  /\ loopWq' = <<>>
  /\ Goto(Loop, "deliver")
  /\ UNCHANGED <<poolVars, wqMutex, asyncVars, work, active, inLoop, arg,
                 status>>

(* ... and calls each back: uv__queue_done() or uv__getaddrinfo_done()     *)
(* unregister the request and run the program's callback.                  *)
CallBack ==
  /\ pc[Loop] = "deliver"
  /\ batch # <<>>
  /\ LET r == Head(batch) IN
       /\ batch'  = Tail(batch)
       /\ active' = active \ {r}
       /\ status' = [status EXCEPT ![r] =
                       IF work[r] = "cancelled" THEN "ECANCELED" ELSE "ok"]
  /\ Goto(Loop, "code")
  /\ UNCHANGED <<poolVars, wqMutex, loopWq, asyncVars, work, inLoop, arg>>

CallbackReturns ==
  /\ pc[Loop] = "code" /\ inLoop
  /\ Goto(Loop, "deliver")
  /\ UNCHANGED <<poolVars, wqMutex, loopWq, asyncVars, work, active, batch,
                 inLoop, arg, status>>

(* The end of an iteration of uv_run2().                                   *)
EndIteration ==
  /\ pc[Loop] = "deliver"
  /\ batch = <<>>
  /\ inLoop' = (active # {})
  /\ Goto(Loop, IF active # {} THEN "poll" ELSE "code")
  /\ UNCHANGED <<poolVars, wqMutex, loopWq, asyncVars, work, active, batch,
                 arg, status>>

-----------------------------------------------------------------------------
(* exit() runs the destructor cleanup(), which does nothing when there are *)
(* no workers, and else joins them.                                        *)
Cleanup ==
  /\ pc[Loop] = "code"
  /\ IF \A w \in Workers : pc[w] = "off"
     THEN Goto(Loop, "exited") /\ UNCHANGED poolVars
     ELSE Post(Exit, [pc EXCEPT ![Loop] = "exiting"])
  /\ UNCHANGED <<wqMutex, loopWq, asyncVars, work, active, batch, inLoop, arg,
                 status>>

Join ==
  /\ pc[Loop] = "exiting"
  /\ \A w \in Workers : pc[w] = "exited"
  /\ Goto(Loop, "exited")
  /\ UNCHANGED <<poolVars, wqMutex, loopWq, asyncVars, work, active, batch,
                 inLoop, arg, status>>

(* The process is gone.                                                    *)
Terminated == pc[Loop] = "exited" /\ UNCHANGED vars

-----------------------------------------------------------------------------
WorkerStep(w) ==
  \/ Wait(w) \/ Take(w) \/ Quit(w) \/ WorkReturns(w) \/ Hand(w)

Send(p) == MakePending(p) \/ WritePipe(p) \/ Unlock(p)

(* The program's choices.                                                  *)
Program == \/ \E r \in Reqs : Submit(r) \/ Cancel(r)
           \/ Cleanup \/ OtherCallback

(* What the loop thread does when the program leaves it to uv_run().       *)
LoopStep ==
  \/ CancelFails \/ CancelUnlinks \/ Requeue
  \/ ClearPending \/ TakeBatch \/ CallBack \/ EndIteration \/ Join

Next ==
  \/ \E w \in Workers : WorkerStep(w) \/ SpuriousWakeup(w)
  \/ \E p \in Procs : Send(p)
  \/ Program \/ RunLoop \/ CallbackReturns
  \/ LoopStep \/ Drain \/ Terminated

Spec == Init /\ [][Next]_vars

(* Every thread goes on, and one that wants a mutex gets it some time; the *)
(* program returns from its callbacks and calls uv_run(), and epoll_wait() *)
(* does not report other handles only, for ever.                           *)
Fairness ==
  /\ \A w \in Workers : SF_vars(WorkerStep(w))
  /\ \A p \in Procs : WF_vars(Send(p))
  /\ SF_vars(LoopStep) /\ SF_vars(Drain)
  /\ SF_vars(CallbackReturns) /\ SF_vars(RunLoop)

FairSpec == Spec /\ Fairness
=============================================================================
