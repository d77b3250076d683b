----------------------------- MODULE WorkQueue -----------------------------
(***************************************************************************)
(* What libuv's thread pool promises the event loop (uv.h:1398-1424): a    *)
(* request that was queued has its work done once by some worker, or is    *)
(* cancelled before any work was done, and then has its callback called    *)
(* once, with the status that tells the two apart.  Requests finish in any *)
(* order and are called back in the order in which they finished.          *)
(*                                                                         *)
(* ThreadPool implements this specification.  Gevent sees its getaddrinfo  *)
(* requests move through queued, done and batch in the same way.           *)
(***************************************************************************)
EXTENDS SequencesExt

CONSTANT Reqs

VARIABLES
  queued,    \* requests that nobody has finished
  started,   \* those of them a worker works on
  cancelled, \* requests uv_cancel() was successful for
  done,      \* finished requests, in the order they finished
  batch,     \* those the event loop is calling back
  status     \* what the last callback of a request was told

vars == <<queued, started, cancelled, done, batch, status>>

Pending == queued \cup ToSet(done) \cup ToSet(batch)

Init ==
  /\ queued = {} /\ started = {} /\ cancelled = {}
  /\ done = <<>> /\ batch = <<>>
  /\ status = [r \in Reqs |-> "none"]

Submit(r) ==
  /\ r \notin Pending
  /\ queued' = queued \cup {r}
  /\ status' = [status EXCEPT ![r] = "none"]
  /\ UNCHANGED <<started, cancelled, done, batch>>

Start(r) ==
  /\ r \in queued \ (started \cup cancelled)
  /\ started' = started \cup {r}
  /\ UNCHANGED <<queued, cancelled, done, batch, status>>

(* Only a request nobody has begun with can be cancelled.  Cancelling it   *)
(* again, even when its callback is near, puts it behind the others.       *)
Cancel(r) ==
  /\ r \in queued \ started \/ r \in cancelled
  /\ queued'    = queued \cup {r}
  /\ cancelled' = cancelled \cup {r}
  /\ done'      = RemoveFirst(done, r)
  /\ batch'     = RemoveFirst(batch, r)
  /\ UNCHANGED <<started, status>>

Finish(r) ==
  /\ r \in queued \cap (started \cup cancelled)
  /\ queued'  = queued \ {r}
  /\ started' = started \ {r}
  /\ done'    = Append(done, r)
  /\ UNCHANGED <<cancelled, batch, status>>

TakeAll ==
  /\ batch = <<>>
  /\ batch' = done
  /\ done'  = <<>>
  /\ UNCHANGED <<queued, started, cancelled, status>>

CallBack ==
  /\ batch # <<>>
  /\ batch'     = Tail(batch)
  /\ cancelled' = cancelled \ {Head(batch)}
  /\ status'    = [status EXCEPT ![Head(batch)] =
                     IF Head(batch) \in cancelled THEN "ECANCELED" ELSE "ok"]
  /\ UNCHANGED <<queued, started, done>>

Next ==
  \/ \E r \in Reqs : Submit(r) \/ Start(r) \/ Cancel(r) \/ Finish(r)
  \/ TakeAll \/ CallBack

Spec == Init /\ [][Next]_vars
=============================================================================
