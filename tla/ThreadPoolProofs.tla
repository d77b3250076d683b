-------------------------- MODULE ThreadPoolProofs --------------------------
(***************************************************************************)
(* Proofs about ThreadPool for every number of workers and requests: a     *)
(* request has one owner, and the pool implements WorkQueue.               *)
(*                                                                         *)
(* The argument: a request whose callback is to come is linked in one of   *)
(* the three queues or in the hand of one thread, w->work says where it    *)
(* stands, and the two mutexes make each step between these places one     *)
(* step.  The steps of a thread that moves no request keep all of it.      *)
(***************************************************************************)
EXTENDS ThreadPoolProperties, SharedLemmas

USE PoolAssumption

(* Threads that hold a request which is linked nowhere, and threads inside *)
(* the critical section of loop->wq_mutex.                                 *)
Holding == {"work", "finish", "requeue"}
Sending == {"send", "write", "unlock"}

Holders == {p \in Procs : pc[p] \in Holding}
Held    == {arg[p] : p \in Holders}

QueuesAreDisjoint ==
  /\ IsInjective(wq) /\ IsInjective(loopWq) /\ IsInjective(batch)
  /\ ToSet(wq) \cap ToSet(loopWq) = {}
  /\ ToSet(wq) \cap ToSet(batch) = {}
  /\ ToSet(loopWq) \cap ToSet(batch) = {}

HeldOnce ==
  /\ \A p, q \in Holders : arg[p] = arg[q] => p = q
  /\ \A p \in Holders : arg[p] \notin ToSet(wq) \cup ToSet(loopWq) \cup ToSet(batch)

AllPlaced ==
  active = (ToSet(wq) \ {Exit}) \cup ToSet(loopWq) \cup ToSet(batch) \cup Held

InHand ==
  /\ \A p \in Procs : arg[p] # None <=> pc[p] \in Holding \cup Sending \cup {"cancel"}
  /\ pc[Loop] = "cancel" => arg[Loop] \in active

(* The mutexes are held where the code holds them, and what a thread has   *)
(* put into loop->wq stays there until it unlocks.                         *)
Locks ==
  /\ \A p \in Procs : pc[p] \in Sending <=> wqMutex = p
  /\ mutex = IF pc[Loop] = "cancel" THEN Loop ELSE None
  /\ \A p \in Procs : pc[p] \in Sending => arg[p] \in ToSet(loopWq)

(* What uv_cancel() and uv__work_done() conclude from w->work is so.       *)
WorkIsAsPlaced ==
  /\ \A r \in ToSet(wq) \ {Exit} : work[r] = "fn"
  /\ \A r \in ToSet(loopWq) \cup ToSet(batch) : work[r] \in {"NULL", "cancelled"}
  /\ \A p \in Holders : work[arg[p]] = IF p = Loop THEN "cancelled" ELSE "fn"

Placed ==
  /\ QueuesAreDisjoint /\ HeldOnce /\ AllPlaced /\ InHand /\ Locks
  /\ WorkIsAsPlaced

(* uv__work_done() has called back its whole batch before the next one.    *)
BatchInLoop ==
  /\ batch # <<>> => inLoop /\ pc[Loop] \notin {"poll", "async", "take"}
  /\ pc[Loop] \in {"poll", "async", "take", "deliver"} => inLoop

ExitIsLast == Exit \in ToSet(wq) => pc[Loop] \in {"exiting", "exited"}

IInv == TypeOK /\ Placed /\ BatchInLoop /\ ExitIsLast

-----------------------------------------------------------------------------
(* uv_cond_signal() moves a waiting worker or nobody.                      *)
LEMMA SignalWakes ==
  ASSUME NEW pcs \in [Procs -> WorkerPCs \cup LoopPCs], Signal(pcs)
  PROVE  /\ pc' \in [Procs -> WorkerPCs \cup LoopPCs]
         /\ \A p \in Procs :
              \/ pc'[p] = pcs[p]
              \/ p \in Workers /\ pcs[p] = "wait" /\ pc'[p] = "lock"
<1> DEFINE waiting == {w \in Workers : pcs[w] = "wait"}
<1>1. CASE waiting = {}
  BY <1>1 DEF Signal
<1>2. CASE waiting # {}
  <2> PICK w \in waiting : pc' = [pcs EXCEPT ![w] = "lock"]
    BY <1>2 DEF Signal
  <2> QED BY DEF Procs, WorkerPCs
<1> QED BY <1>1, <1>2

(* The request a thread has in hand is one of the program's.               *)
LEMMA InHandType ==
  ASSUME IInv, NEW p \in Procs, pc[p] \in Holding \cup Sending \cup {"cancel"}
  PROVE  arg[p] \in Reqs
BY DEF IInv, TypeOK, Placed, InHand

(* A step in which no thread takes or puts a request, or enters or leaves  *)
(* a critical section, leaves everything in its place.                     *)
SameRoles ==
  \A p \in Procs : /\ pc'[p] \in Holding <=> pc[p] \in Holding
                   /\ pc'[p] \in Sending <=> pc[p] \in Sending
                   /\ pc'[p] = "cancel" <=> pc[p] = "cancel"

LEMMA SameRolesKeep ==
  ASSUME IInv, SameRoles,
         UNCHANGED <<poolVars, wqMutex, loopWq, work, active, batch, arg>>
  PROVE  Placed'
<1>1. Holders' = Holders
  BY DEF Holders, SameRoles
<1>2. /\ wq' = wq /\ loopWq' = loopWq /\ batch' = batch /\ arg' = arg
      /\ mutex' = mutex /\ wqMutex' = wqMutex /\ active' = active /\ work' = work
  BY DEF poolVars
<1>3. Held' = Held
  BY <1>1, <1>2 DEF Held
<1>4. Loop \in Procs
  BY DEF Procs
<1>5. QueuesAreDisjoint' /\ HeldOnce' /\ AllPlaced' /\ WorkIsAsPlaced'
  BY <1>1, <1>2, <1>3
  DEF IInv, Placed, QueuesAreDisjoint, HeldOnce, AllPlaced, WorkIsAsPlaced
<1>6. InHand'
  BY <1>2, <1>4 DEF IInv, Placed, InHand, SameRoles
<1>7. Locks'
  BY <1>2, <1>4 DEF IInv, Placed, Locks, SameRoles
<1> QED BY <1>5, <1>6, <1>7 DEF Placed

-----------------------------------------------------------------------------
(* The steps of a worker that move no request.                             *)
LEMMA WorkerControlKeeps ==
  ASSUME IInv, NEW w \in Workers,
         Wait(w) \/ SpuriousWakeup(w) \/ Quit(w) \/ WorkReturns(w)
  PROVE  IInv'
<1> USE DEF Procs, Holding, Sending, WorkerPCs, LoopPCs
<1>1. /\ UNCHANGED <<poolVars, wqMutex, loopWq, asyncVars, work, active, batch,
                     inLoop, arg, status>>
      /\ pc' \in [Procs -> WorkerPCs \cup LoopPCs]
      /\ pc'[Loop] = pc[Loop]
      /\ \A v \in Workers : pc'[v] \in WorkerPCs
      /\ SameRoles
  <2>1. CASE Wait(w) \/ SpuriousWakeup(w) \/ WorkReturns(w)
    BY <2>1 DEF Wait, SpuriousWakeup, WorkReturns, Goto, IInv, TypeOK, SameRoles
  <2>2. CASE Quit(w)
    <3> DEFINE pcs == [pc EXCEPT ![w] = "exited"]
    <3>1. pcs \in [Procs -> WorkerPCs \cup LoopPCs] /\ pc[w] = "lock" /\ Signal(pcs)
      BY <2>2 DEF Quit, IInv, TypeOK
    <3>2. /\ pc' \in [Procs -> WorkerPCs \cup LoopPCs]
          /\ \A p \in Procs :
               \/ pc'[p] = pcs[p]
               \/ p \in Workers /\ pcs[p] = "wait" /\ pc'[p] = "lock"
      BY <3>1, SignalWakes
    <3>3. \A p \in Procs : pcs[p] = IF p = w THEN "exited" ELSE pc[p]
      BY DEF IInv, TypeOK
    <3> HIDE DEF pcs
    <3> QED BY <2>2, <3>1, <3>2, <3>3 DEF Quit, IInv, TypeOK, SameRoles
  <2> QED BY <2>1, <2>2
<1>2. TypeOK'
  BY <1>1 DEF IInv, TypeOK, poolVars, asyncVars
<1>3. Placed'
  BY <1>1, SameRolesKeep
<1>4. BatchInLoop' /\ ExitIsLast'
  BY <1>1 DEF IInv, BatchInLoop, ExitIsLast, poolVars
<1> QED BY <1>2, <1>3, <1>4 DEF IInv

(* The steps of uv_async_send() before the mutex is unlocked.              *)
LEMMA SendKeeps ==
  ASSUME IInv, NEW p \in Procs, MakePending(p) \/ WritePipe(p)
  PROVE  IInv'
<1> USE DEF Procs, Holding, Sending, WorkerPCs, LoopPCs
<1>1. /\ UNCHANGED <<poolVars, wqMutex, loopWq, work, active, batch, inLoop,
                     arg, status>>
      /\ pending' \in BOOLEAN /\ pipe' \in BOOLEAN
      /\ pc[p] \in {"send", "write"}
      /\ \E to \in {"write", "unlock"} : pc' = [pc EXCEPT ![p] = to]
  BY DEF MakePending, WritePipe, Goto, IInv, TypeOK
<1>2. TypeOK'
  BY <1>1 DEF IInv, TypeOK, poolVars
<1>3. Placed'
  <2>1. SameRoles
    BY <1>1 DEF SameRoles, IInv, TypeOK
  <2> QED BY <1>1, <2>1, SameRolesKeep
<1>4. BatchInLoop' /\ ExitIsLast'
  BY <1>1 DEF IInv, TypeOK, BatchInLoop, ExitIsLast, poolVars
<1> QED BY <1>2, <1>3, <1>4 DEF IInv

(* The steps of the loop thread that move no request.                      *)
LoopControl ==
  \/ RunLoop \/ OtherCallback \/ Drain \/ ClearPending \/ CallbackReturns
  \/ EndIteration \/ Join

LEMMA LoopControlKeeps ==
  ASSUME IInv, LoopControl
  PROVE  IInv'
<1> USE DEF Procs, Holding, Sending, WorkerPCs, LoopPCs
<1>1. /\ UNCHANGED <<poolVars, wqMutex, loopWq, work, active, batch, arg, status>>
      /\ pending' \in BOOLEAN /\ pipe' \in BOOLEAN /\ inLoop' \in BOOLEAN
      /\ \A w \in Workers : pc'[w] = pc[w]
      /\ pc' \in [Procs -> WorkerPCs \cup LoopPCs]
  <2> USE DEF Goto, IInv, TypeOK, asyncVars, poolVars
  <2>1. CASE RunLoop
    BY <2>1 DEF RunLoop
  <2>2. CASE OtherCallback
    BY <2>2 DEF OtherCallback
  <2>3. CASE Drain
    BY <2>3 DEF Drain
  <2>4. CASE ClearPending
    BY <2>4 DEF ClearPending
  <2>5. CASE CallbackReturns
    BY <2>5 DEF CallbackReturns
  <2>6. CASE EndIteration
    BY <2>6 DEF EndIteration
  <2>7. CASE Join
    BY <2>7 DEF Join
  <2> QED BY <2>1, <2>2, <2>3, <2>4, <2>5, <2>6, <2>7 DEF LoopControl
<1>2. /\ pc[Loop] \in {"code", "poll", "async", "deliver", "exiting"}
      /\ pc'[Loop] \in {"code", "poll", "async", "take", "deliver", "exited"}
      /\ pc[Loop] = "exiting" <=> pc'[Loop] = "exited"
  BY DEF LoopControl, RunLoop, OtherCallback, Drain, ClearPending,
         CallbackReturns, EndIteration, Join, Goto, IInv, TypeOK
<1>3. BatchInLoop'
  <2>1. CASE RunLoop
    BY <2>1 DEF RunLoop, Goto, IInv, TypeOK, BatchInLoop
  <2>2. CASE OtherCallback \/ Drain \/ ClearPending \/ CallbackReturns \/ Join
    BY <2>2 DEF OtherCallback, Drain, ClearPending, CallbackReturns, Join, Goto,
                IInv, TypeOK, BatchInLoop
  <2>3. CASE EndIteration
    BY <2>3 DEF EndIteration, Goto, IInv, TypeOK, BatchInLoop
  <2> QED BY <2>1, <2>2, <2>3 DEF LoopControl
<1>4. TypeOK'
  BY <1>1, <1>2 DEF IInv, TypeOK, poolVars
<1>5. Placed'
  <2>1. SameRoles
    BY <1>1, <1>2 DEF SameRoles
  <2> QED BY <1>1, <2>1, SameRolesKeep
<1>6. ExitIsLast'
  BY <1>1, <1>2 DEF IInv, ExitIsLast, poolVars
<1> QED BY <1>3, <1>4, <1>5, <1>6 DEF IInv

-----------------------------------------------------------------------------
(* A worker takes the head of the queue of the pool into its hand.         *)
LEMMA TakeKeeps ==
  ASSUME IInv, NEW w \in Workers, Take(w)
  PROVE  IInv'
<1> USE DEF Procs, Holding, Sending, WorkerPCs, LoopPCs
<1> DEFINE r == Head(wq)
<1>1. /\ pc[w] = "lock" /\ wq # <<>> /\ r # Exit
      /\ wq' = Tail(wq) /\ arg' = [arg EXCEPT ![w] = r]
      /\ pc' = [pc EXCEPT ![w] = "work"]
      /\ UNCHANGED <<mutex, wqMutex, loopWq, pending, pipe, work, active, batch,
                     inLoop, status>>
  BY DEF Take, Goto, asyncVars
<1>2. wq \in Seq(Reqs \cup {Exit}) /\ IsInjective(wq)
  BY DEF IInv, TypeOK, Placed, QueuesAreDisjoint
<1>3. /\ r \in Reqs /\ Tail(wq) \in Seq(Reqs \cup {Exit})
      /\ ToSet(wq) = ToSet(wq') \cup {r} /\ r \notin ToSet(wq')
      /\ IsInjective(wq')
  BY <1>1, <1>2, TailElements
<1> HIDE DEF r
<1>4. TypeOK'
  BY <1>1, <1>3 DEF IInv, TypeOK
<1>5. /\ \A p \in Procs : arg'[p] = IF p = w THEN r ELSE arg[p]
      /\ \A p \in Procs : pc'[p] = IF p = w THEN "work" ELSE pc[p]
      /\ w \in Procs /\ Loop \in Procs /\ w # Loop
  BY <1>1 DEF IInv, TypeOK
<1>6. Holders' = Holders \cup {w} /\ w \notin Holders
  BY <1>1, <1>5 DEF Holders
<1>7. Held' = Held \cup {r}
  BY <1>5, <1>6 DEF Held, Holders
<1>8. r \notin ToSet(loopWq) \cup ToSet(batch) /\ \A p \in Holders : arg[p] # r
  BY <1>3 DEF IInv, Placed, QueuesAreDisjoint, HeldOnce
<1>9. QueuesAreDisjoint'
  BY <1>1, <1>3 DEF IInv, Placed, QueuesAreDisjoint
<1>10. HeldOnce'
  BY <1>1, <1>3, <1>5, <1>6, <1>8 DEF IInv, Placed, HeldOnce, Holders
<1>11. AllPlaced'
  BY <1>1, <1>3, <1>7 DEF IInv, Placed, AllPlaced
<1>12. InHand' /\ Locks'
  BY <1>1, <1>3, <1>5 DEF IInv, Placed, InHand, Locks
<1>13. WorkIsAsPlaced'
  BY <1>1, <1>3, <1>5, <1>6 DEF IInv, Placed, WorkIsAsPlaced, Holders
<1>14. BatchInLoop' /\ ExitIsLast'
  BY <1>1, <1>3, <1>5 DEF IInv, BatchInLoop, ExitIsLast
<1> QED BY <1>4, <1>9, <1>10, <1>11, <1>12, <1>13, <1>14 DEF IInv, Placed

(* A thread links the request in its hand in loop->wq, and holds the mutex *)
(* of the loop: the end of the work and of uv_cancel().                    *)
LinkStep(p) ==
  /\ pc[p] \in Holding /\ wqMutex = None
  /\ wqMutex' = p
  /\ loopWq' = Append(loopWq, arg[p])
  /\ work' = [work EXCEPT ![arg[p]] = IF p = Loop THEN "cancelled" ELSE "NULL"]
  /\ pc' = [pc EXCEPT ![p] = "send"]
  /\ UNCHANGED <<mutex, wq, pending, pipe, active, batch, inLoop, arg, status>>

LEMMA LinkStepKeeps ==
  ASSUME IInv, NEW p \in Procs, LinkStep(p)
  PROVE  IInv'
<1> USE DEF Procs, Holding, Sending, WorkerPCs, LoopPCs
<1> DEFINE r == arg[p]
<1>1. r \in Reqs /\ p \in Holders
  BY InHandType DEF LinkStep, Holders
<1>2. /\ r \notin ToSet(wq) \cup ToSet(loopWq) \cup ToSet(batch)
      /\ loopWq \in Seq(Reqs) /\ IsInjective(loopWq)
  BY <1>1 DEF IInv, TypeOK, Placed, HeldOnce, QueuesAreDisjoint
<1>3. /\ loopWq' \in Seq(Reqs) /\ ToSet(loopWq') = ToSet(loopWq) \cup {r}
      /\ IsInjective(loopWq')
  BY <1>1, <1>2, AppendElements DEF LinkStep
<1>4. TypeOK'
  BY <1>1, <1>3 DEF LinkStep, IInv, TypeOK
<1>5. /\ \A q \in Procs : pc'[q] = IF q = p THEN "send" ELSE pc[q]
      /\ \A x \in Reqs : work'[x] = IF x # r THEN work[x]
                                    ELSE IF p = Loop THEN "cancelled" ELSE "NULL"
      /\ Loop \in Procs
  BY <1>1 DEF LinkStep, IInv, TypeOK
<1>6. Holders' = Holders \ {p}
  BY <1>5 DEF Holders
<1>7. \A q \in Holders' : arg[q] # r
  BY <1>1, <1>6 DEF IInv, Placed, HeldOnce
<1>8. Held' = Held \ {r} /\ r \in Held
  BY <1>1, <1>6, <1>7 DEF Held, LinkStep
<1>9. QueuesAreDisjoint'
  BY <1>2, <1>3 DEF LinkStep, IInv, Placed, QueuesAreDisjoint
<1>10. HeldOnce'
  BY <1>3, <1>6, <1>7 DEF LinkStep, IInv, Placed, HeldOnce
<1>11. AllPlaced'
  BY <1>2, <1>3, <1>8 DEF LinkStep, IInv, Placed, AllPlaced
<1>12. InHand'
  BY <1>5 DEF LinkStep, IInv, Placed, InHand
<1>13. Locks'
  BY <1>3, <1>5 DEF LinkStep, IInv, Placed, Locks
<1>14. WorkIsAsPlaced'
  <2>1. \A x \in ToSet(wq) \ {Exit} : x \in Reqs /\ x # r
    BY <1>2, QueueElements DEF IInv, TypeOK
  <2>2. \A x \in ToSet(loopWq) \cup ToSet(batch) : x \in Reqs /\ x # r
    BY <1>2, QueueElements DEF IInv, TypeOK
  <2>3. \A q \in Holders' : q \in Holders /\ arg[q] \in Reqs /\ arg[q] # r
    BY <1>6, <1>7, InHandType DEF Holders
  <2> QED BY <1>3, <1>5, <2>1, <2>2, <2>3
          DEF LinkStep, IInv, Placed, WorkIsAsPlaced
<1>15. BatchInLoop' /\ ExitIsLast'
  BY <1>5 DEF LinkStep, IInv, BatchInLoop, ExitIsLast
<1> QED BY <1>4, <1>9, <1>10, <1>11, <1>12, <1>13, <1>14, <1>15 DEF IInv, Placed

LEMMA HandKeeps ==
  ASSUME IInv, NEW w \in Workers, Hand(w)
  PROVE  IInv'
<1>1. w \in Procs /\ w # Loop
  BY DEF Procs
<1>2. LinkStep(w)
  BY <1>1 DEF Hand, Goto, LinkStep, Holding, poolVars, asyncVars
<1> QED BY <1>1, <1>2, LinkStepKeeps

LEMMA RequeueKeeps ==
  ASSUME IInv, Requeue
  PROVE  IInv'
<1>1. Loop \in Procs /\ Loop \in Holders
  BY DEF Requeue, Procs, Holders, Holding
<1>2. work[arg[Loop]] = "cancelled" /\ work \in [Reqs -> {"fn", "NULL", "cancelled"}]
  BY <1>1 DEF IInv, TypeOK, Placed, WorkIsAsPlaced
<1>3. work = [work EXCEPT ![arg[Loop]] = "cancelled"]
  BY <1>2
<1>4. LinkStep(Loop)
  BY <1>1, <1>3 DEF Requeue, Goto, LinkStep, Holding, poolVars, asyncVars
<1> QED BY <1>1, <1>4, LinkStepKeeps

(* A thread leaves the critical section, and the request is no more in its *)
(* hand.                                                                   *)
LEMMA UnlockKeeps ==
  ASSUME IInv, NEW p \in Procs, Unlock(p)
  PROVE  IInv'
<1> USE DEF Procs, Holding, Sending, WorkerPCs, LoopPCs
<1>1. /\ pc[p] = "unlock" /\ wqMutex' = None
      /\ arg' = [arg EXCEPT ![p] = None]
      /\ pc' = [pc EXCEPT ![p] = IF p = Loop THEN "code" ELSE "lock"]
      /\ UNCHANGED <<mutex, wq, loopWq, pending, pipe, work, active, batch,
                     inLoop, status>>
  BY DEF Unlock, Goto, poolVars, asyncVars
<1>2. TypeOK'
  BY <1>1 DEF IInv, TypeOK
<1>3. /\ \A q \in Procs : pc'[q] = IF q # p THEN pc[q]
                                   ELSE IF p = Loop THEN "code" ELSE "lock"
      /\ \A q \in Procs : arg'[q] = IF q = p THEN None ELSE arg[q]
      /\ Loop \in Procs
  BY <1>1 DEF IInv, TypeOK
<1>4. Holders' = Holders /\ p \notin Holders
  BY <1>1, <1>3 DEF Holders
<1>5. Held' = Held
  BY <1>3, <1>4 DEF Held, Holders
<1>6. QueuesAreDisjoint' /\ AllPlaced'
  BY <1>1, <1>5 DEF IInv, Placed, QueuesAreDisjoint, AllPlaced
<1>7. HeldOnce' /\ WorkIsAsPlaced'
  BY <1>1, <1>3, <1>4 DEF IInv, Placed, HeldOnce, WorkIsAsPlaced, Holders
<1>8. InHand'
  BY <1>1, <1>3 DEF IInv, Placed, InHand
<1>9. Locks'
  BY <1>1, <1>3 DEF IInv, Placed, Locks
<1>10. BatchInLoop' /\ ExitIsLast'
  BY <1>1, <1>3 DEF IInv, BatchInLoop, ExitIsLast
<1> QED BY <1>2, <1>6, <1>7, <1>8, <1>9, <1>10 DEF IInv, Placed

-----------------------------------------------------------------------------
(* uv_queue_work() links a free request at the tail of the pool's queue;   *)
(* the workers it starts or wakes hold nothing.                            *)
LEMMA SubmitKeeps ==
  ASSUME IInv, NEW r \in Reqs, Submit(r)
  PROVE  IInv'
<1> USE DEF Procs, Holding, Sending, WorkerPCs, LoopPCs
<1> DEFINE pcs == InitOnce(pc)
<1>1. /\ pc[Loop] = "code" /\ r \notin active
      /\ active' = active \cup {r}
      /\ work' = [work EXCEPT ![r] = "fn"]
      /\ status' = [status EXCEPT ![r] = "none"]
      /\ wq' = Append(wq, r) /\ Signal(pcs)
      /\ UNCHANGED <<mutex, wqMutex, loopWq, pending, pipe, batch, inLoop, arg>>
  BY DEF Submit, Post, asyncVars
<1>2. /\ pcs \in [Procs -> WorkerPCs \cup LoopPCs]
      /\ \A p \in Procs : pcs[p] = IF pc[p] = "off" THEN "lock" ELSE pc[p]
  BY DEF InitOnce, IInv, TypeOK
<1>3. /\ pc' \in [Procs -> WorkerPCs \cup LoopPCs]
      /\ \A p \in Procs :
           \/ pc'[p] = pcs[p]
           \/ p \in Workers /\ pcs[p] = "wait" /\ pc'[p] = "lock"
  BY <1>1, <1>2, SignalWakes
<1> HIDE DEF pcs
<1>4. /\ pc'[Loop] = "code"
      /\ \A w \in Workers : pc'[w] \in WorkerPCs
      /\ SameRoles
  BY <1>1, <1>2, <1>3 DEF IInv, TypeOK, SameRoles
<1>5. /\ r \notin ToSet(wq) \cup ToSet(loopWq) \cup ToSet(batch) \cup Held
      /\ r # Exit
  BY <1>1 DEF IInv, Placed, AllPlaced
<1>6. wq \in Seq(Reqs \cup {Exit}) /\ IsInjective(wq)
  BY DEF IInv, TypeOK, Placed, QueuesAreDisjoint
<1>7. /\ wq' \in Seq(Reqs \cup {Exit})
      /\ ToSet(wq') = ToSet(wq) \cup {r}
      /\ IsInjective(wq')
  BY <1>1, <1>5, <1>6, AppendElements
<1>8. TypeOK'
  BY <1>1, <1>3, <1>4, <1>7 DEF IInv, TypeOK
<1>9. Holders' = Holders
  BY <1>4 DEF Holders, SameRoles
<1>10. Held' = Held
  BY <1>1, <1>9 DEF Held
<1>11. \A p \in Holders : arg[p] # r
  BY <1>5 DEF Held
<1>12. QueuesAreDisjoint'
  BY <1>1, <1>5, <1>7 DEF IInv, Placed, QueuesAreDisjoint
<1>13. HeldOnce'
  BY <1>1, <1>7, <1>9, <1>11 DEF IInv, Placed, HeldOnce
<1>14. AllPlaced'
  BY <1>1, <1>5, <1>7, <1>10 DEF IInv, Placed, AllPlaced
<1>15. InHand' /\ Locks'
  BY <1>1, <1>4 DEF IInv, Placed, InHand, Locks, SameRoles
<1>16. WorkIsAsPlaced'
  <2>1. \A x \in Reqs : work'[x] = IF x = r THEN "fn" ELSE work[x]
    BY <1>1 DEF IInv, TypeOK
  <2>2. \A p \in Holders : arg[p] \in Reqs
    BY InHandType DEF Holders
  <2>3. ToSet(wq) \subseteq Reqs \cup {Exit} /\ ToSet(loopWq) \cup ToSet(batch) \subseteq Reqs
    BY QueueElements DEF IInv, TypeOK
  <2> QED BY <1>1, <1>5, <1>7, <1>9, <1>11, <2>1, <2>2, <2>3
          DEF IInv, Placed, WorkIsAsPlaced
<1>17. BatchInLoop' /\ ExitIsLast'
  BY <1>1, <1>4, <1>5, <1>7 DEF IInv, BatchInLoop, ExitIsLast
<1> QED BY <1>8, <1>12, <1>13, <1>14, <1>15, <1>16, <1>17 DEF IInv, Placed

(* cleanup() links exit_message, once.                                     *)
LEMMA CleanupKeeps ==
  ASSUME IInv, Cleanup
  PROVE  IInv'
<1> USE DEF Procs, Holding, Sending, WorkerPCs, LoopPCs
<1>1. CASE \A w \in Workers : pc[w] = "off"
  <2>1. /\ pc[Loop] = "code" /\ pc' = [pc EXCEPT ![Loop] = "exited"]
        /\ UNCHANGED <<poolVars, wqMutex, loopWq, asyncVars, work, active, batch,
                       inLoop, arg, status>>
    BY <1>1 DEF Cleanup, Goto
  <2>2. TypeOK'
    BY <2>1 DEF IInv, TypeOK, poolVars, asyncVars
  <2>3. Placed'
    <3>1. SameRoles
      BY <2>1 DEF SameRoles, IInv, TypeOK
    <3> QED BY <2>1, <3>1, SameRolesKeep
  <2>4. BatchInLoop' /\ ExitIsLast'
    BY <2>1 DEF IInv, TypeOK, BatchInLoop, ExitIsLast, poolVars
  <2> QED BY <2>2, <2>3, <2>4 DEF IInv
<1>2. CASE ~\A w \in Workers : pc[w] = "off"
  <2> DEFINE pcs == [pc EXCEPT ![Loop] = "exiting"]
  <2>1. /\ pc[Loop] = "code" /\ wq' = Append(wq, Exit) /\ Signal(pcs)
        /\ UNCHANGED <<mutex, wqMutex, loopWq, pending, pipe, work, active, batch,
                       inLoop, arg, status>>
    BY <1>2 DEF Cleanup, Post, asyncVars
  <2>2. /\ pcs \in [Procs -> WorkerPCs \cup LoopPCs]
        /\ \A p \in Procs : pcs[p] = IF p = Loop THEN "exiting" ELSE pc[p]
    BY DEF IInv, TypeOK
  <2>3. /\ pc' \in [Procs -> WorkerPCs \cup LoopPCs]
        /\ \A p \in Procs :
             \/ pc'[p] = pcs[p]
             \/ p \in Workers /\ pcs[p] = "wait" /\ pc'[p] = "lock"
    BY <2>1, <2>2, SignalWakes
  <2> HIDE DEF pcs
  <2>4. /\ pc'[Loop] = "exiting"
        /\ \A w \in Workers : pc'[w] \in WorkerPCs
        /\ SameRoles
    BY <2>1, <2>2, <2>3 DEF IInv, TypeOK, SameRoles
  <2>5. wq \in Seq(Reqs \cup {Exit}) /\ IsInjective(wq) /\ Exit \notin ToSet(wq)
    BY <2>1 DEF IInv, TypeOK, Placed, QueuesAreDisjoint, ExitIsLast
  <2>6. /\ wq' \in Seq(Reqs \cup {Exit})
        /\ ToSet(wq') = ToSet(wq) \cup {Exit}
        /\ IsInjective(wq')
    BY <2>1, <2>5, AppendElements
  <2>7. TypeOK'
    BY <2>1, <2>3, <2>4, <2>6 DEF IInv, TypeOK
  <2>8. Holders' = Holders
    BY <2>4 DEF Holders, SameRoles
  <2>9. Held' = Held
    BY <2>1, <2>8 DEF Held
  <2>10. /\ ToSet(loopWq) \subseteq Reqs /\ ToSet(batch) \subseteq Reqs
         /\ \A p \in Holders : arg[p] \in Reqs
    BY QueueElements, InHandType DEF IInv, TypeOK, Holders
  <2>11. QueuesAreDisjoint'
    BY <2>1, <2>6, <2>10 DEF IInv, Placed, QueuesAreDisjoint
  <2>12. HeldOnce' /\ AllPlaced' /\ WorkIsAsPlaced'
    BY <2>1, <2>6, <2>8, <2>9, <2>10
    DEF IInv, Placed, HeldOnce, AllPlaced, WorkIsAsPlaced
  <2>13. InHand' /\ Locks'
    BY <2>1, <2>4 DEF IInv, Placed, InHand, Locks, SameRoles
  <2>14. BatchInLoop' /\ ExitIsLast'
    BY <2>1, <2>4 DEF IInv, BatchInLoop, ExitIsLast
  <2> QED BY <2>7, <2>11, <2>12, <2>13, <2>14 DEF IInv, Placed
<1> QED BY <1>1, <1>2

-----------------------------------------------------------------------------
(* uv_cancel() locks and unlocks the pool's mutex.                         *)
LEMMA CancelKeeps ==
  ASSUME IInv, NEW r \in Reqs, Cancel(r) \/ CancelFails
  PROVE  IInv'
<1> USE DEF Procs, Holding, Sending, WorkerPCs, LoopPCs
<1>1. /\ UNCHANGED <<wq, wqMutex, loopWq, pending, pipe, work, active, batch,
                     inLoop, status>>
      /\ \A p \in Procs \ {Loop} : arg'[p] = arg[p] /\ pc'[p] = pc[p]
      /\ \/ /\ pc[Loop] = "code" /\ pc'[Loop] = "cancel"
            /\ mutex' = Loop /\ arg'[Loop] \in active /\ arg'[Loop] \in Reqs
         \/ /\ pc[Loop] = "cancel" /\ pc'[Loop] = "code"
            /\ mutex' = None /\ arg'[Loop] = None
      /\ pc' \in [Procs -> WorkerPCs \cup LoopPCs]
      /\ arg' \in [Procs -> Reqs \cup {None}]
  BY DEF Cancel, CancelFails, Goto, asyncVars, IInv, TypeOK
<1>2. TypeOK'
  BY <1>1 DEF IInv, TypeOK
<1>3. Holders' = Holders /\ Loop \notin Holders
  BY <1>1 DEF Holders
<1>4. Held' = Held
  BY <1>1, <1>3 DEF Held, Holders
<1>5. QueuesAreDisjoint' /\ AllPlaced'
  BY <1>1, <1>4 DEF IInv, Placed, QueuesAreDisjoint, AllPlaced
<1>6. HeldOnce' /\ WorkIsAsPlaced'
  BY <1>1, <1>3 DEF IInv, Placed, HeldOnce, WorkIsAsPlaced, Holders
<1>7. InHand'
  BY <1>1 DEF IInv, Placed, InHand
<1>8. Locks'
  BY <1>1 DEF IInv, Placed, Locks
<1>9. BatchInLoop' /\ ExitIsLast'
  BY <1>1 DEF IInv, BatchInLoop, ExitIsLast
<1> QED BY <1>2, <1>5, <1>6, <1>7, <1>8, <1>9 DEF IInv, Placed

(* uv_cancel() takes the request out of the queue it is in, into the hand  *)
(* of the loop thread.                                                     *)
LEMMA CancelUnlinksKeeps ==
  ASSUME IInv, CancelUnlinks
  PROVE  IInv'
<1> USE DEF Procs, Holding, Sending, WorkerPCs, LoopPCs
<1> DEFINE r == arg[Loop]
<1>1. /\ pc[Loop] = "cancel" /\ wqMutex = None
      /\ Linked(r) /\ work[r] # "NULL"
      /\ wq' = Unlink(wq, r) /\ loopWq' = Unlink(loopWq, r)
      /\ batch' = Unlink(batch, r)
      /\ work' = [work EXCEPT ![r] = "cancelled"]
      /\ mutex' = None /\ pc' = [pc EXCEPT ![Loop] = "requeue"]
      /\ UNCHANGED <<wqMutex, pending, pipe, active, inLoop, arg, status>>
  BY DEF CancelUnlinks, Goto, asyncVars
<1>2. r \in Reqs /\ r \in active /\ r # Exit
  BY <1>1, InHandType DEF IInv, Placed, InHand
<1>3. /\ wq' \in Seq(Reqs \cup {Exit}) /\ IsInjective(wq')
      /\ ToSet(wq') = ToSet(wq) \ {r}
      /\ loopWq' \in Seq(Reqs) /\ IsInjective(loopWq')
      /\ ToSet(loopWq') = ToSet(loopWq) \ {r}
      /\ batch' \in Seq(Reqs) /\ IsInjective(batch')
      /\ ToSet(batch') = ToSet(batch) \ {r}
  BY <1>1, RemoveFirstElements DEF Unlink, IInv, TypeOK, Placed, QueuesAreDisjoint
<1>4. r \in ToSet(wq) \cup ToSet(loopWq) \cup ToSet(batch)
  BY <1>1 DEF Linked
<1>5. \A p \in Holders : arg[p] # r
  BY <1>4 DEF IInv, Placed, HeldOnce
<1> HIDE DEF r
<1>6. TypeOK'
  BY <1>1, <1>2, <1>3 DEF IInv, TypeOK
<1>7. /\ \A p \in Procs : pc'[p] = IF p = Loop THEN "requeue" ELSE pc[p]
      /\ \A x \in Reqs : work'[x] = IF x = r THEN "cancelled" ELSE work[x]
      /\ Loop \in Procs /\ Loop \notin Holders /\ arg[Loop] = r
  BY <1>1, <1>2 DEF IInv, TypeOK, Holders, r
<1>8. Holders' = Holders \cup {Loop}
  BY <1>7 DEF Holders
<1>9. Held' = Held \cup {r}
  BY <1>1, <1>7, <1>8 DEF Held
<1>10. QueuesAreDisjoint'
  BY <1>3 DEF IInv, Placed, QueuesAreDisjoint
<1>11. HeldOnce'
  BY <1>1, <1>3, <1>5, <1>7, <1>8 DEF IInv, Placed, HeldOnce
<1>12. AllPlaced'
  BY <1>1, <1>2, <1>3, <1>4, <1>9 DEF IInv, Placed, AllPlaced
<1>13. InHand'
  BY <1>1, <1>7 DEF IInv, Placed, InHand
<1>14. Locks'
  BY <1>1, <1>7 DEF IInv, Placed, Locks
<1>15. WorkIsAsPlaced'
  <2>1. \A p \in Holders : arg[p] \in Reqs
    BY InHandType DEF Holders
  <2>2. ToSet(wq) \subseteq Reqs \cup {Exit} /\ ToSet(loopWq) \cup ToSet(batch) \subseteq Reqs
    BY QueueElements DEF IInv, TypeOK
  <2> QED BY <1>1, <1>2, <1>3, <1>5, <1>7, <1>8, <2>1, <2>2
          DEF IInv, Placed, WorkIsAsPlaced
<1>16. BatchInLoop' /\ ExitIsLast'
  <2>1. batch' # <<>> => batch # <<>>
    BY <1>3, QueueElements DEF IInv, TypeOK
  <2> QED BY <1>1, <1>3, <1>7, <2>1 DEF IInv, BatchInLoop, ExitIsLast
<1> QED BY <1>6, <1>10, <1>11, <1>12, <1>13, <1>14, <1>15, <1>16 DEF IInv, Placed

-----------------------------------------------------------------------------
(* uv__work_done() makes loop->wq its batch, which is empty by then.       *)
LEMMA TakeBatchKeeps ==
  ASSUME IInv, TakeBatch
  PROVE  IInv'
<1> USE DEF Procs, Holding, Sending, WorkerPCs, LoopPCs
<1>1. /\ pc[Loop] = "take" /\ wqMutex = None
      /\ batch' = loopWq /\ loopWq' = <<>>
      /\ pc' = [pc EXCEPT ![Loop] = "deliver"]
      /\ UNCHANGED <<mutex, wq, wqMutex, pending, pipe, work, active, inLoop,
                     arg, status>>
  BY DEF TakeBatch, Goto, poolVars, asyncVars
<1>2. batch = <<>> /\ inLoop
  BY <1>1 DEF IInv, BatchInLoop
<1>3. /\ ToSet(batch) = {} /\ ToSet(loopWq') = {}
      /\ loopWq' \in Seq(Reqs) /\ IsInjective(loopWq')
  BY <1>1, <1>2, EmptySeq DEF ToSet, IsInjective
<1>4. TypeOK'
  BY <1>1, <1>3 DEF IInv, TypeOK
<1>5. /\ \A p \in Procs : pc'[p] = IF p = Loop THEN "deliver" ELSE pc[p]
      /\ Loop \in Procs
  BY <1>1 DEF IInv, TypeOK
<1>6. Holders' = Holders
  BY <1>1, <1>5 DEF Holders
<1>7. Held' = Held
  BY <1>1, <1>6 DEF Held
<1>8. QueuesAreDisjoint' /\ HeldOnce' /\ AllPlaced' /\ WorkIsAsPlaced'
  BY <1>1, <1>3, <1>6, <1>7
  DEF IInv, Placed, QueuesAreDisjoint, HeldOnce, AllPlaced, WorkIsAsPlaced
<1>9. InHand' /\ Locks'
  BY <1>1, <1>5 DEF IInv, Placed, InHand, Locks
<1>10. BatchInLoop' /\ ExitIsLast'
  BY <1>1, <1>2, <1>5 DEF IInv, BatchInLoop, ExitIsLast
<1> QED BY <1>4, <1>8, <1>9, <1>10 DEF IInv, Placed

(* The head of the batch is called back and is the program's again.        *)
LEMMA CallBackKeeps ==
  ASSUME IInv, CallBack
  PROVE  IInv'
<1> USE DEF Procs, Holding, Sending, WorkerPCs, LoopPCs
<1> DEFINE r == Head(batch)
<1>1. /\ pc[Loop] = "deliver" /\ batch # <<>>
      /\ batch' = Tail(batch) /\ active' = active \ {r}
      /\ status' = [status EXCEPT ![r] =
                      IF work[r] = "cancelled" THEN "ECANCELED" ELSE "ok"]
      /\ pc' = [pc EXCEPT ![Loop] = "code"]
      /\ UNCHANGED <<mutex, wq, wqMutex, loopWq, pending, pipe, work, inLoop,
                     arg>>
  BY DEF CallBack, Goto, poolVars, asyncVars
<1>2. /\ r \in Reqs /\ batch' \in Seq(Reqs)
      /\ ToSet(batch) = ToSet(batch') \cup {r} /\ r \notin ToSet(batch')
      /\ IsInjective(batch')
  BY <1>1, TailElements DEF IInv, TypeOK, Placed, QueuesAreDisjoint
<1> HIDE DEF r
<1>3. TypeOK'
  BY <1>1, <1>2 DEF IInv, TypeOK
<1>4. /\ \A p \in Procs : pc'[p] = IF p = Loop THEN "code" ELSE pc[p]
      /\ Loop \in Procs
  BY <1>1 DEF IInv, TypeOK
<1>5. Holders' = Holders
  BY <1>1, <1>4 DEF Holders
<1>6. Held' = Held
  BY <1>1, <1>5 DEF Held
<1>7. r \notin ToSet(wq) \cup ToSet(loopWq) \cup Held
  BY <1>2 DEF IInv, Placed, QueuesAreDisjoint, HeldOnce, Held
<1>8. QueuesAreDisjoint'
  BY <1>1, <1>2 DEF IInv, Placed, QueuesAreDisjoint
<1>9. HeldOnce' /\ WorkIsAsPlaced'
  BY <1>1, <1>2, <1>5 DEF IInv, Placed, HeldOnce, WorkIsAsPlaced
<1>10. AllPlaced'
  BY <1>1, <1>2, <1>6, <1>7 DEF IInv, Placed, AllPlaced
<1>11. InHand' /\ Locks'
  BY <1>1, <1>4 DEF IInv, Placed, InHand, Locks
<1>12. BatchInLoop' /\ ExitIsLast'
  BY <1>1, <1>4 DEF IInv, BatchInLoop, ExitIsLast
<1> QED BY <1>3, <1>8, <1>9, <1>10, <1>11, <1>12 DEF IInv, Placed

-----------------------------------------------------------------------------
LEMMA InitPlaces == Init => IInv
<1> SUFFICES ASSUME Init PROVE IInv
  OBVIOUS
<1> USE DEF Init, Procs, Holding, Sending, WorkerPCs, LoopPCs
<1>1. /\ \A S : <<>> \in Seq(S)
      /\ ToSet(<<>>) = {} /\ IsInjective(<<>>)
  BY EmptySeq DEF ToSet, IsInjective
<1>2. TypeOK
  BY <1>1 DEF TypeOK
<1>3. Holders = {} /\ Held = {}
  BY DEF Holders, Held
<1>4. QueuesAreDisjoint /\ HeldOnce /\ AllPlaced /\ WorkIsAsPlaced
  BY <1>1, <1>3 DEF QueuesAreDisjoint, HeldOnce, AllPlaced, WorkIsAsPlaced
<1>5. InHand /\ Locks
  BY DEF InHand, Locks
<1>6. BatchInLoop /\ ExitIsLast
  BY <1>1 DEF BatchInLoop, ExitIsLast
<1> QED BY <1>2, <1>4, <1>5, <1>6 DEF IInv, Placed

LEMMA StepKeeps ==
  ASSUME IInv, [Next]_vars
  PROVE  IInv'
<1>1. CASE UNCHANGED vars
  <2>1. /\ UNCHANGED <<poolVars, wqMutex, loopWq, work, active, batch, arg>>
        /\ UNCHANGED <<pc, inLoop, status, asyncVars>>
    BY <1>1 DEF vars
  <2>2. SameRoles
    BY <2>1 DEF SameRoles
  <2>3. Placed'
    BY <2>1, <2>2, SameRolesKeep
  <2>4. TypeOK' /\ BatchInLoop' /\ ExitIsLast'
    BY <2>1 DEF IInv, TypeOK, BatchInLoop, ExitIsLast, poolVars, asyncVars
  <2> QED BY <2>3, <2>4 DEF IInv
<1>2. CASE \E w \in Workers : WorkerStep(w) \/ SpuriousWakeup(w)
  BY <1>2, WorkerControlKeeps, TakeKeeps, HandKeeps DEF WorkerStep
<1>3. CASE \E p \in Procs : Send(p)
  BY <1>3, SendKeeps, UnlockKeeps DEF Send
<1>4. CASE Program
  BY <1>4, SubmitKeeps, CancelKeeps, CleanupKeeps, LoopControlKeeps
  DEF Program, LoopControl
<1>5. CASE RunLoop \/ CallbackReturns \/ Drain
  BY <1>5, LoopControlKeeps DEF LoopControl
<1>6. CASE LoopStep
  <2>1. CASE CancelFails
    <3>1. arg[Loop] \in Reqs
      BY <2>1, InHandType DEF CancelFails, Procs
    <3> QED BY <2>1, <3>1, CancelKeeps
  <2>2. CASE CancelUnlinks \/ Requeue \/ TakeBatch \/ CallBack
    BY <2>2, CancelUnlinksKeeps, RequeueKeeps, TakeBatchKeeps, CallBackKeeps
  <2>3. CASE ClearPending \/ EndIteration \/ Join
    BY <2>3, LoopControlKeeps DEF LoopControl
  <2> QED BY <1>6, <2>1, <2>2, <2>3 DEF LoopStep
<1>7. CASE Terminated
  BY <1>1, <1>7 DEF Terminated
<1> QED BY <1>1, <1>2, <1>3, <1>4, <1>5, <1>6, <1>7 DEF Next

(* Where every request is, always.                                         *)
THEOREM EveryRequestIsPlaced == Spec => []IInv
BY InitPlaces, StepKeeps, PTL DEF Spec

-----------------------------------------------------------------------------
LEMMA CountInQueue ==
  ASSUME NEW S, NEW q \in Seq(S), IsInjective(q), NEW r
  PROVE  Count(q, r) = IF r \in ToSet(q) THEN 1 ELSE 0
BY OccursOnce DEF Count

LEMMA PlacedOnce == IInv => OneOwner
<1> SUFFICES ASSUME IInv PROVE OneOwner
  OBVIOUS
<1>1. TypeOK
  BY DEF IInv
<1> SUFFICES ASSUME NEW r \in Reqs
             PROVE  /\ Count(wq, r) + Count(loopWq, r) + Count(batch, r)
                         + Cardinality({p \in Procs : arg[p] = r
                               /\ pc[p] \in {"work", "finish", "requeue"}})
                         = IF r \in active THEN 1 ELSE 0
                    /\ r \notin active => \A p \in Procs : arg[p] # r
  BY <1>1 DEF OneOwner
<1> DEFINE H == {p \in Procs : arg[p] = r /\ pc[p] \in {"work", "finish", "requeue"}}
<1>2. /\ Count(wq, r) = IF r \in ToSet(wq) THEN 1 ELSE 0
      /\ Count(loopWq, r) = IF r \in ToSet(loopWq) THEN 1 ELSE 0
      /\ Count(batch, r) = IF r \in ToSet(batch) THEN 1 ELSE 0
  BY <1>1, CountInQueue DEF IInv, TypeOK, Placed, QueuesAreDisjoint
<1>3. Cardinality(H) = IF r \in Held THEN 1 ELSE 0
  <2>1. H = {p \in Holders : arg[p] = r}
    BY DEF Holders, Holding
  <2>2. CASE r \in Held
    <3>1. PICK p \in Holders : arg[p] = r
      BY <2>2 DEF Held
    <3>2. H = {p}
      BY <2>1, <3>1 DEF IInv, Placed, HeldOnce
    <3> QED BY <2>2, <3>2, FS_Singleton
  <2>3. CASE r \notin Held
    <3>1. H = {}
      BY <2>1, <2>3 DEF Held
    <3> QED BY <2>3, <3>1, FS_EmptySet
  <2> QED BY <2>2, <2>3
<1> HIDE DEF H
<1>4. /\ r \in ToSet(wq) => r \notin ToSet(loopWq) \cup ToSet(batch) \cup Held
      /\ r \in ToSet(loopWq) => r \notin ToSet(batch) \cup Held
      /\ r \in ToSet(batch) => r \notin Held
  BY DEF IInv, Placed, QueuesAreDisjoint, HeldOnce, Held
<1>5. r \in active <=> r \in ToSet(wq) \cup ToSet(loopWq) \cup ToSet(batch) \cup Held
  BY DEF IInv, Placed, AllPlaced
<1>6. Count(wq, r) + Count(loopWq, r) + Count(batch, r) + Cardinality(H)
        = IF r \in active THEN 1 ELSE 0
  BY <1>2, <1>3, <1>4, <1>5
<1>7. ASSUME r \notin active, NEW p \in Procs PROVE arg[p] # r
  <2>1. CASE pc[p] \in Holding
    BY <1>5, <1>7, <2>1 DEF Held, Holders
  <2>2. CASE pc[p] \in Sending
    BY <1>5, <1>7, <2>2 DEF IInv, Placed, Locks
  <2>3. CASE pc[p] = "cancel"
    <3>1. p = Loop
      BY <1>1, <2>3 DEF TypeOK, Procs, WorkerPCs
    <3> QED BY <1>7, <2>3, <3>1 DEF IInv, Placed, InHand
  <2>4. CASE pc[p] \notin Holding \cup Sending \cup {"cancel"}
    <3>1. arg[p] = None
      BY <2>4 DEF IInv, Placed, InHand
    <3> QED BY <3>1
  <2> QED BY <2>1, <2>2, <2>3, <2>4
<1> QED BY <1>6, <1>7 DEF H

(* While its callback is to come a request is linked in one queue or in    *)
(* the hand of one thread, once; after it, no thread uses its memory.      *)
THEOREM RequestsHaveOneOwner == Spec => []OneOwner
BY EveryRequestIsPlaced, PlacedOnce, PTL

-----------------------------------------------------------------------------
(* The refinement: each step is one of WorkQueue or changes nothing there. *)
AbstractVars == <<Queued, AtWork, Cancelled, loopWq, batch, status>>

(* WorkQueue's operators on queues are the same as ThreadPool's.           *)
LEMMA AbstractToSet ==
  ASSUME NEW q PROVE Abstract!ToSet(q) = ToSet(q)
BY DEF Abstract!ToSet, ToSet

LEMMA AbstractRemoveFirst ==
  ASSUME NEW q, NEW t PROVE Abstract!RemoveFirst(q, t) = Unlink(q, t)
BY DEF Unlink, RemoveFirst, RemoveAt, SelectInSeq, Min,
       Abstract!RemoveFirst, Abstract!RemoveAt, Abstract!SelectInSeq, Abstract!Min

(* Who is at work, and what the invariant says of the abstract state.      *)
LEMMA AbstractState ==
  ASSUME IInv
  PROVE  /\ AtWork = {arg[p] : p \in Holders \ {Loop}}
         /\ Queued = (ToSet(wq) \ {Exit}) \cup Held
         /\ Abstract!Pending = active
<1> USE DEF Procs, Holding, WorkerPCs, LoopPCs
<1>1. /\ \A p \in Workers : pc[p] \in {"work", "finish"} <=> p \in Holders
      /\ \A p \in Holders : p \in Workers \/ p = Loop
  BY DEF Holders, IInv, TypeOK
<1>2. AtWork = {arg[p] : p \in Holders \ {Loop}}
  BY <1>1 DEF AtWork
<1>3. Queued = (ToSet(wq) \ {Exit}) \cup Held
  BY DEF Queued, IInv, Placed, AllPlaced, QueuesAreDisjoint, HeldOnce, Held
<1>4. Abstract!Pending = active
  BY AbstractToSet DEF Abstract!Pending, Queued, IInv, Placed, AllPlaced
<1> QED BY <1>2, <1>3, <1>4

(* Most steps are none of WorkQueue.                                       *)
LEMMA HiddenSteps ==
  ASSUME IInv, IInv',
         UNCHANGED <<active, loopWq, batch, work, status>>,
         \A w \in Workers : /\ pc'[w] \in Holding <=> pc[w] \in Holding
                            /\ pc[w] \in Holding => arg'[w] = arg[w]
  PROVE  UNCHANGED AbstractVars
<1> DEFINE busy  == {w \in Workers : pc[w] \in {"work", "finish"}}
           busyP == {w \in Workers : pc'[w] \in {"work", "finish"}}
<1>1. busyP = busy /\ \A w \in busy : arg'[w] = arg[w]
  BY DEF IInv, TypeOK, WorkerPCs, Holding
<1>2. AtWork = {arg[w] : w \in busy} /\ AtWork' = {arg'[w] : w \in busyP}
  BY DEF AtWork
<1> HIDE DEF busy, busyP
<1>3. AtWork' = AtWork
  BY <1>1, <1>2
<1>4. Queued' = Queued /\ Cancelled' = Cancelled
  BY DEF Queued, Cancelled
<1> QED BY <1>3, <1>4 DEF AbstractVars

(* uv_queue_work().                                                        *)
LEMMA SubmitImplements ==
  ASSUME IInv, IInv', NEW r \in Reqs, Submit(r)
  PROVE  Abstract!Submit(r)
<1>1. /\ pc[Loop] = "code" /\ r \notin active
      /\ active' = active \cup {r}
      /\ work' = [work EXCEPT ![r] = "fn"]
      /\ status' = [status EXCEPT ![r] = "none"]
      /\ UNCHANGED <<loopWq, batch, arg>>
      /\ Signal(InitOnce(pc))
  BY DEF Submit, Post
<1>2. r \notin Abstract!Pending
  BY <1>1, AbstractState
<1>3. Queued' = Queued \cup {r}
  BY <1>1 DEF Queued, IInv, Placed, AllPlaced
<1>4. Cancelled' = Cancelled
  BY <1>1 DEF Cancelled, IInv, TypeOK
<1>5. \A w \in Workers : pc'[w] \in {"work", "finish"} <=> pc[w] \in {"work", "finish"}
  <2>1. /\ InitOnce(pc) \in [Procs -> WorkerPCs \cup LoopPCs]
        /\ \A p \in Procs : InitOnce(pc)[p] = IF pc[p] = "off" THEN "lock" ELSE pc[p]
    BY DEF InitOnce, IInv, TypeOK, WorkerPCs
  <2>2. \A p \in Procs :
          \/ pc'[p] = InitOnce(pc)[p]
          \/ p \in Workers /\ InitOnce(pc)[p] = "wait" /\ pc'[p] = "lock"
    BY <1>1, <2>1, SignalWakes
  <2> QED BY <2>1, <2>2 DEF Procs
<1>6. AtWork' = AtWork
  BY <1>1, <1>5 DEF AtWork
<1> QED BY <1>1, <1>2, <1>3, <1>4, <1>6 DEF Abstract!Submit

(* A worker begins with a request that nobody cancelled.                   *)
LEMMA TakeImplements ==
  ASSUME IInv, NEW w \in Workers, Take(w)
  PROVE  Head(wq) \in Reqs /\ Abstract!Start(Head(wq))
<1> DEFINE r == Head(wq)
<1>1. /\ pc[w] = "lock" /\ wq # <<>> /\ r # Exit
      /\ arg' = [arg EXCEPT ![w] = r]
      /\ pc' = [pc EXCEPT ![w] = "work"]
      /\ UNCHANGED <<loopWq, work, active, batch, status>>
  BY DEF Take, Goto
<1>2. r \in Reqs /\ r \in ToSet(wq) \ {Exit}
  BY <1>1, TailElements DEF IInv, TypeOK
<1> HIDE DEF r
<1>3. /\ \A v \in Workers : arg'[v] = IF v = w THEN r ELSE arg[v]
      /\ \A v \in Workers : pc'[v] = IF v = w THEN "work" ELSE pc[v]
  BY <1>1 DEF IInv, TypeOK, Procs
<1>4. AtWork' = AtWork \cup {r}
  BY <1>1, <1>3 DEF AtWork
<1>5. r \notin AtWork
  BY <1>2, AbstractState DEF IInv, Placed, HeldOnce
<1>6. r \in Queued /\ r \notin Cancelled
  BY <1>2, AbstractState DEF IInv, Placed, WorkIsAsPlaced, Cancelled
<1>7. UNCHANGED <<Queued, Cancelled, loopWq, batch, status>>
  BY <1>1 DEF Queued, Cancelled
<1> QED BY <1>2, <1>4, <1>5, <1>6, <1>7 DEF Abstract!Start, r

(* uv_cancel() finds only requests nobody works on, or cancelled ones.     *)
LEMMA CancelImplements ==
  ASSUME IInv, IInv', CancelUnlinks
  PROVE  arg[Loop] \in Reqs /\ Abstract!Cancel(arg[Loop])
<1> DEFINE r == arg[Loop]
<1>1. /\ pc[Loop] = "cancel" /\ Linked(r) /\ work[r] # "NULL"
      /\ loopWq' = Unlink(loopWq, r) /\ batch' = Unlink(batch, r)
      /\ work' = [work EXCEPT ![r] = "cancelled"]
      /\ pc' = [pc EXCEPT ![Loop] = "requeue"]
      /\ UNCHANGED <<active, arg, status>>
  BY DEF CancelUnlinks, Goto
<1>2. r \in Reqs /\ r \in active /\ r # Exit
  BY <1>1, InHandType DEF Procs, IInv, Placed, InHand
<1>3. /\ ToSet(loopWq') = ToSet(loopWq) \ {r}
      /\ ToSet(batch') = ToSet(batch) \ {r}
  BY <1>1, RemoveFirstElements DEF Unlink, IInv, TypeOK, Placed, QueuesAreDisjoint
<1>4. r \in ToSet(wq) \cup ToSet(loopWq) \cup ToSet(batch)
  BY <1>1 DEF Linked
<1> HIDE DEF r
<1>5. Queued' = Queued \cup {r}
  BY <1>1, <1>2, <1>3 DEF Queued
<1>6. Cancelled' = Cancelled \cup {r}
  BY <1>1, <1>2 DEF Cancelled, IInv, TypeOK
<1>7. AtWork' = AtWork
  BY <1>1 DEF AtWork, IInv, TypeOK, Procs
<1>8. r \in Queued \ AtWork \/ r \in Cancelled
  <2>1. CASE r \in ToSet(wq)
    BY <1>2, <2>1, AbstractState DEF IInv, Placed, HeldOnce
  <2>2. CASE r \in ToSet(loopWq) \cup ToSet(batch)
    BY <1>1, <1>2, <2>2 DEF IInv, Placed, WorkIsAsPlaced, Cancelled
  <2> QED BY <1>4, <2>1, <2>2
<1>9. /\ loopWq' = Abstract!RemoveFirst(loopWq, r)
      /\ batch' = Abstract!RemoveFirst(batch, r)
  BY <1>1, AbstractRemoveFirst
<1> QED BY <1>1, <1>2, <1>5, <1>6, <1>7, <1>8, <1>9 DEF Abstract!Cancel, r

(* A request is finished when it is linked in loop->wq, by a worker or by  *)
(* uv_cancel().                                                            *)
LEMMA LinkStepImplements ==
  ASSUME IInv, IInv', NEW p \in Procs, LinkStep(p)
  PROVE  arg[p] \in Reqs /\ Abstract!Finish(arg[p])
<1> DEFINE r == arg[p]
<1>1. /\ pc[p] \in Holding
      /\ loopWq' = Append(loopWq, r)
      /\ work' = [work EXCEPT ![r] = IF p = Loop THEN "cancelled" ELSE "NULL"]
      /\ pc' = [pc EXCEPT ![p] = "send"]
      /\ UNCHANGED <<active, batch, arg, status>>
  BY DEF LinkStep
<1>2. r \in Reqs /\ p \in Holders /\ r \in Held
  BY <1>1, InHandType DEF Holders, Held
<1>3. ToSet(loopWq') = ToSet(loopWq) \cup {r}
  BY <1>1, <1>2, AppendElements DEF IInv, TypeOK
<1>4. r \in active /\ r \in Queued
  BY <1>2, AbstractState DEF IInv, Placed, AllPlaced
<1>5. r \in AtWork \cup Cancelled
  BY <1>2, <1>4, AbstractState DEF Cancelled, IInv, Placed, WorkIsAsPlaced
<1>6. Queued' = Queued \ {r}
  BY <1>1, <1>3 DEF Queued
<1>7. Cancelled' = Cancelled
  BY <1>1, <1>2 DEF Cancelled, IInv, TypeOK, Placed, WorkIsAsPlaced
<1>8. AtWork' = AtWork \ {r}
  <2>1. \A w \in Workers : pc'[w] \in {"work", "finish"}
                           <=> pc[w] \in {"work", "finish"} /\ w # p
    BY <1>1 DEF IInv, TypeOK, Procs
  <2>2. \A w \in Workers : pc[w] \in {"work", "finish"} /\ w # p => arg[w] # r
    BY <1>2 DEF IInv, Placed, HeldOnce, Holders, Holding, Procs
  <2>3. p \in Workers \/ r \notin AtWork
    BY <1>2, AbstractState DEF Procs, IInv, Placed, HeldOnce
  <2> QED BY <1>1, <2>1, <2>2, <2>3 DEF AtWork
<1> QED BY <1>1, <1>2, <1>4, <1>5, <1>6, <1>7, <1>8 DEF Abstract!Finish

(* uv__work_done() takes its batch ...                                     *)
LEMMA TakeBatchImplements ==
  ASSUME IInv, TakeBatch
  PROVE  Abstract!TakeAll
<1>1. /\ pc[Loop] = "take" /\ batch' = loopWq /\ loopWq' = <<>>
      /\ pc' = [pc EXCEPT ![Loop] = "deliver"]
      /\ UNCHANGED <<active, work, arg, status>>
  BY DEF TakeBatch, Goto
<1>2. batch = <<>>
  BY <1>1 DEF IInv, BatchInLoop
<1>3. ToSet(<<>>) = {}
  BY EmptySeq DEF ToSet
<1>4. Queued' = Queued /\ Cancelled' = Cancelled
  BY <1>1, <1>2, <1>3 DEF Queued, Cancelled
<1>5. AtWork' = AtWork
  BY <1>1 DEF AtWork, IInv, TypeOK, Procs
<1> QED BY <1>1, <1>2, <1>4, <1>5 DEF Abstract!TakeAll

(* ... and calls back its head with the status that is true of it.         *)
LEMMA CallBackImplements ==
  ASSUME IInv, CallBack
  PROVE  Abstract!CallBack
<1> DEFINE r == Head(batch)
<1>1. /\ pc[Loop] = "deliver" /\ batch # <<>>
      /\ batch' = Tail(batch) /\ active' = active \ {r}
      /\ status' = [status EXCEPT ![r] =
                      IF work[r] = "cancelled" THEN "ECANCELED" ELSE "ok"]
      /\ pc' = [pc EXCEPT ![Loop] = "code"]
      /\ UNCHANGED <<loopWq, work, arg>>
  BY DEF CallBack, Goto
<1>2. ToSet(batch) = ToSet(batch') \cup {r}
  BY <1>1, TailElements DEF IInv, TypeOK
<1>3. r \in active
  BY <1>2 DEF IInv, Placed, AllPlaced
<1> HIDE DEF r
<1>4. Queued' = Queued
  BY <1>1, <1>2 DEF Queued
<1>5. Cancelled' = Cancelled \ {r} /\ (r \in Cancelled <=> work[r] = "cancelled")
  BY <1>1, <1>3 DEF Cancelled
<1>6. AtWork' = AtWork
  BY <1>1 DEF AtWork, IInv, TypeOK, Procs
<1> QED BY <1>1, <1>4, <1>5, <1>6 DEF Abstract!CallBack, r

(* Every step of the pool is one of WorkQueue or leaves its state alone.   *)
LEMMA StepImplements ==
  ASSUME IInv, IInv', [Next]_vars
  PROVE  [Abstract!Next]_AbstractVars
<1> USE DEF Procs, Holding, WorkerPCs, LoopPCs
<1>1. CASE UNCHANGED vars
  BY <1>1, HiddenSteps DEF vars
<1>2. ASSUME NEW w \in Workers,
             Wait(w) \/ SpuriousWakeup(w) \/ WorkReturns(w) \/ Quit(w)
      PROVE  UNCHANGED AbstractVars
  <2>1. UNCHANGED <<active, loopWq, batch, work, status, arg>>
    BY <1>2 DEF Wait, SpuriousWakeup, WorkReturns, Quit
  <2>2. \A v \in Workers : pc'[v] \in Holding <=> pc[v] \in Holding
    <3>1. CASE Wait(w) \/ SpuriousWakeup(w) \/ WorkReturns(w)
      BY <3>1 DEF Wait, SpuriousWakeup, WorkReturns, Goto, IInv, TypeOK
    <3>2. CASE Quit(w)
      <4> DEFINE pcs == [pc EXCEPT ![w] = "exited"]
      <4>1. /\ pcs \in [Procs -> WorkerPCs \cup LoopPCs] /\ pc[w] = "lock"
            /\ \A p \in Procs : pcs[p] = IF p = w THEN "exited" ELSE pc[p]
            /\ Signal(pcs)
        BY <3>2 DEF Quit, IInv, TypeOK
      <4> HIDE DEF pcs
      <4>2. \A p \in Procs :
              \/ pc'[p] = pcs[p]
              \/ p \in Workers /\ pcs[p] = "wait" /\ pc'[p] = "lock"
        BY <4>1, SignalWakes
      <4> QED BY <4>1, <4>2
    <3> QED BY <1>2, <3>1, <3>2
  <2> QED BY <2>1, <2>2, HiddenSteps
<1>3. ASSUME NEW p \in Procs, MakePending(p) \/ WritePipe(p) \/ Unlock(p)
      PROVE  UNCHANGED AbstractVars
  BY <1>3, HiddenSteps DEF MakePending, WritePipe, Unlock, Goto, IInv, TypeOK
<1>4. ASSUME NEW r \in Reqs, Cancel(r)
      PROVE  UNCHANGED AbstractVars
  BY <1>4, HiddenSteps DEF Cancel, Goto, IInv, TypeOK
<1>5. ASSUME LoopControl PROVE UNCHANGED AbstractVars
  BY <1>5, HiddenSteps
  DEF LoopControl, RunLoop, OtherCallback, Drain, ClearPending,
      CallbackReturns, EndIteration, Join, Goto, IInv, TypeOK
<1>6. ASSUME Cleanup PROVE UNCHANGED AbstractVars
  <2>1. UNCHANGED <<active, loopWq, batch, work, status, arg>>
    BY <1>6 DEF Cleanup
  <2>2. \A v \in Workers : pc'[v] \in Holding <=> pc[v] \in Holding
    <3>1. CASE \A w \in Workers : pc[w] = "off"
      BY <1>6, <3>1 DEF Cleanup, Goto, IInv, TypeOK
    <3>2. CASE ~\A w \in Workers : pc[w] = "off"
      <4> DEFINE pcs == [pc EXCEPT ![Loop] = "exiting"]
      <4>1. /\ pcs \in [Procs -> WorkerPCs \cup LoopPCs]
            /\ \A p \in Procs : pcs[p] = IF p = Loop THEN "exiting" ELSE pc[p]
            /\ Signal(pcs)
        BY <1>6, <3>2 DEF Cleanup, Post, IInv, TypeOK
      <4> HIDE DEF pcs
      <4>2. \A p \in Procs :
              \/ pc'[p] = pcs[p]
              \/ p \in Workers /\ pcs[p] = "wait" /\ pc'[p] = "lock"
        BY <4>1, SignalWakes
      <4> QED BY <4>1, <4>2
    <3> QED BY <3>1, <3>2
  <2> QED BY <2>1, <2>2, HiddenSteps
<1>7. ASSUME CancelFails PROVE UNCHANGED AbstractVars
  BY <1>7, HiddenSteps DEF CancelFails, Goto, IInv, TypeOK
<1>8. ASSUME NEW w \in Workers, Take(w) PROVE Abstract!Next
  BY <1>8, TakeImplements DEF Abstract!Next
<1>9. ASSUME NEW w \in Workers, Hand(w) PROVE Abstract!Next
  <2>1. LinkStep(w)
    BY <1>9 DEF Hand, Goto, LinkStep, poolVars, asyncVars
  <2> QED BY <2>1, LinkStepImplements DEF Abstract!Next
<1>10. ASSUME Requeue PROVE Abstract!Next
  <2>1. Loop \in Holders
    BY <1>10 DEF Requeue, Holders
  <2>2. work = [work EXCEPT ![arg[Loop]] = "cancelled"]
    BY <2>1 DEF IInv, TypeOK, Placed, WorkIsAsPlaced
  <2>3. LinkStep(Loop)
    BY <1>10, <2>2 DEF Requeue, Goto, LinkStep, poolVars, asyncVars
  <2> QED BY <2>3, LinkStepImplements DEF Abstract!Next
<1>11. ASSUME NEW r \in Reqs, Submit(r) PROVE Abstract!Next
  BY <1>11, SubmitImplements DEF Abstract!Next
<1>12. ASSUME CancelUnlinks PROVE Abstract!Next
  BY <1>12, CancelImplements DEF Abstract!Next
<1>13. ASSUME TakeBatch \/ CallBack PROVE Abstract!Next
  BY <1>13, TakeBatchImplements, CallBackImplements DEF Abstract!Next
<1>14. CASE \E w \in Workers : WorkerStep(w) \/ SpuriousWakeup(w)
  BY <1>2, <1>8, <1>9, <1>14 DEF WorkerStep
<1>15. CASE \E p \in Procs : Send(p)
  BY <1>3, <1>15 DEF Send
<1>16. CASE Program
  BY <1>4, <1>5, <1>6, <1>11, <1>16 DEF Program, LoopControl
<1>17. CASE LoopStep
  BY <1>5, <1>7, <1>10, <1>12, <1>13, <1>17 DEF LoopStep, LoopControl
<1>18. CASE RunLoop \/ CallbackReturns \/ Drain
  BY <1>5, <1>18 DEF LoopControl
<1>19. CASE Terminated
  BY <1>19, HiddenSteps DEF Terminated, vars
<1> QED BY <1>1, <1>14, <1>15, <1>16, <1>17, <1>18, <1>19 DEF Next

LEMMA InitImplements == Init => Abstract!Init
<1> SUFFICES ASSUME Init PROVE Abstract!Init
  OBVIOUS
<1>1. AtWork = {}
  BY DEF Init, AtWork, Procs
<1>2. Queued = {} /\ Cancelled = {}
  BY DEF Init, Queued, Cancelled
<1> QED BY <1>1, <1>2 DEF Init, Abstract!Init

(* The pool is a WorkQueue: a cancelled request is never worked on, every  *)
(* other one once, each is called back once with the status that is true.  *)
THEOREM PoolImplementsWorkQueue == Spec => ImplementsWorkQueue
<1>1. Init => Abstract!Init
  BY InitImplements
<1>2. IInv /\ IInv' /\ [Next]_vars => [Abstract!Next]_(Abstract!vars)
  BY StepImplements DEF Abstract!vars, AbstractVars
<1> QED BY <1>1, <1>2, EveryRequestIsPlaced, PTL
        DEF Spec, ImplementsWorkQueue, Abstract!Spec
=============================================================================
