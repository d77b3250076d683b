----------------------- MODULE ThreadPoolProperties -----------------------
(***************************************************************************)
(* What the program, and gevent's getaddrinfo, rely on in the thread pool. *)
(***************************************************************************)
EXTENDS ThreadPool

Count(q, r) == Cardinality({i \in DOMAIN q : q[i] = r})

(* While its callback is to come, a request is in exactly one place: the   *)
(* pool's queue, a worker at work, loop->wq, uv__work_done()'s queue or    *)
(* the middle of uv_cancel().  Once it was called back, and its memory is  *)
(* the program's again, no thread uses it: a worker that still unlocks     *)
(* w->loop->wq_mutex must be done before.                                  *)
OneOwner ==
  /\ TypeOK
  /\ \A r \in Reqs :
       /\ Count(wq, r) + Count(loopWq, r) + Count(batch, r)
            + Cardinality({p \in Procs :
                             arg[p] = r /\ pc[p] \in {"work", "finish", "requeue"}})
            = IF r \in active THEN 1 ELSE 0
       /\ r \notin active => \A p \in Procs : arg[p] # r

-----------------------------------------------------------------------------
(* The thread pool implements WorkQueue.  A request leaves the abstract    *)
(* queued when it is linked in loop->wq.                                   *)
Queued    == active \ (ToSet(loopWq) \cup ToSet(batch))
AtWork    == {arg[w] : w \in {v \in Workers : pc[v] \in {"work", "finish"}}}
Cancelled == {r \in active : work[r] = "cancelled"}

Abstract == INSTANCE WorkQueue WITH
  queued <- Queued, started <- AtWork, cancelled <- Cancelled, done <- loopWq

(* A cancelled request is never worked on and every other one exactly      *)
(* once, each gets one callback with the status that is true of it, in the *)
(* order they finished, whatever uv_cancel() races with.                   *)
ImplementsWorkQueue == Abstract!Spec

-----------------------------------------------------------------------------
Exiting == pc[Loop] \in {"exiting", "exited"}

(* No wakeup is lost on the way: a queued request is called back, unless   *)
(* the process exits or calls uv_cancel() for it for ever, which each time *)
(* puts it behind the others.                                              *)
EveryRequestIsAnswered ==
  \A r \in Reqs :
     \/ r \in active ~> r \notin active \/ Exiting
     \/ []<>(arg[Loop] = r)

(* exit() ends: every worker sees exit_message.                            *)
ExitEnds == pc[Loop] = "exiting" ~> pc[Loop] = "exited"
=============================================================================
