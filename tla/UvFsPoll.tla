------------------------------ MODULE UvFsPoll ------------------------------
(***************************************************************************)
(* Polling of files (fs-poll.c).  uv_fs_poll_start() makes a context with  *)
(* a timer and a request of its own: the request asks for the state of the *)
(* file in the thread pool, the timer waits between two requests.  The     *)
(* context is freed by the close callback of its timer, long after the     *)
(* handle was stopped, closed or started again with another context.       *)
(* The timer of a context c is the handle c: it is not referenced and the  *)
(* program does not see it.  A content stands for a uv_statbuf_t that      *)
(* statbuf_eq() tells from the others.                                     *)
(***************************************************************************)
EXTENDS UvTurns

CONSTANTS
  Polls,       \* the uv_fs_poll_t of the program
  Ctxs,        \* pieces of memory for contexts
  Contents,    \* what the file may be
  Errors,      \* why it may be inaccessible
  MaxChanges   \* bound on the changes of the file

ASSUME FsPollAssumption ==
  /\ Polls \cup Ctxs \subseteq Handles /\ Polls \cap Ctxs = {}
  /\ Contents \cap Errors = {} /\ MaxChanges \in Nat
  /\ (Contents \cup Errors) \cap {"no", "ok", "queued"} = {}

VARIABLES
  file,    \* the state of the file
  changes, \* how often it changed
  cur,     \* poll_ctx of each handle
  ctx,     \* parent_handle, busy_polling (the last error, "ok" or "no") and
           \*   statbuf of the contexts that are in use
  req,     \* fs_req of each context: "no", "queued" or its result
  told     \* what the program knows of the file, by each handle

pollVars == <<file, changes, cur, ctx, req, told>>

Busy == {"no", "ok"} \cup Errors

FsPollInit ==
  /\ file \in Contents \cup Errors /\ changes = 0
  /\ cur = [h \in Polls |-> None] /\ ctx = <<>>
  /\ req = [c \in Ctxs |-> "no"] /\ told = [h \in Polls |-> "no"]

-----------------------------------------------------------------------------
(* The world outside: the file changes, a worker looks at it.              *)
ChangeFile ==
  /\ changes < MaxChanges /\ changes' = changes + 1
  /\ file' \in (Contents \cup Errors) \ {file}
  /\ UNCHANGED <<turnVars, cur, ctx, req, told>>

Stat(c) ==
  /\ req[c] = "queued" /\ req' = [req EXCEPT ![c] = file]
  /\ UNCHANGED <<turnVars, file, changes, cur, ctx, told>>

-----------------------------------------------------------------------------
PollInitialize(h) ==
  /\ Call /\ Reusable(h)
  /\ hs' = Initialized(hs, h)
  /\ UNCHANGED pollVars

(* uv_fs_poll_start() of a handle that is not active; a piece of memory is *)
(* as good as another.                                                     *)
PollStart(h) ==
  /\ Call /\ Usable(h) /\ ~IsActive(hs, h)
  /\ Ctxs \ DOMAIN ctx # {}
  /\ LET c == CHOOSE x \in Ctxs \ DOMAIN ctx : TRUE
     IN /\ ctx' = [x \in DOMAIN ctx \cup {c} |->
                     IF x = c THEN [parent |-> h, busy |-> "no", stat |-> "zero"]
                     ELSE ctx[x]]
        /\ req' = [req EXCEPT ![c] = "queued"]
        /\ cur' = [cur EXCEPT ![h] = c]
        /\ hs'  = Started(Unreffed(Initialized(hs, c), c), h)
  /\ told' = [told EXCEPT ![h] = "no"]
  /\ UNCHANGED <<file, changes>>

(* uv_fs_poll_stop(): the timer is closed here when it runs; when it does  *)
(* not, a request is under way and poll_cb() closes it.                    *)
Abandon_KeepsTimer(H, h) == Stopped(H, h)                        \* mutant
Abandon(H, h) ==
  LET c == cur[h]
  IN Stopped(IF IsActive(H, c) THEN CloseHandle(H, c) ELSE H, h)

NoLonger(h) ==
  /\ ctx' = [ctx EXCEPT ![cur[h]].parent = None]
  /\ cur' = [cur EXCEPT ![h] = None]

PollStop(h) ==
  /\ Call /\ Usable(h) /\ IsActive(hs, h)
  /\ hs' = Abandon(hs, h) /\ NoLonger(h)
  /\ UNCHANGED <<file, changes, req, told>>

(* uv_close() and uv__fs_poll_close()                                      *)
PollClose(h) ==
  /\ Call /\ Usable(h)
  /\ LET H == Closing(hs, h)
     IN IF IsActive(hs, h)
        THEN hs' = MakeClosePending(Abandon(H, h), h) /\ NoLonger(h)
        ELSE hs' = MakeClosePending(H, h) /\ UNCHANGED <<cur, ctx>>
  /\ UNCHANGED <<file, changes, req, told>>

-----------------------------------------------------------------------------
(* uv__run_timers() and timer_cb()                                         *)
TimerFires(c) ==
  /\ Idle("timers") /\ c \in DOMAIN ctx /\ IsActive(hs, c)
  /\ hs'  = Stopped(hs, c)
  /\ req' = [req EXCEPT ![c] = "queued"]
  /\ UNCHANGED <<phase, frame, user, calls, file, changes, cur, ctx, told>>

(* The end of poll_cb(), on the context x that it leaves.                  *)
Reschedule(c, x) ==
  /\ hs'  = IF x.parent = None THEN CloseHandle(hs, c) ELSE Started(hs, c)
  /\ ctx' = [ctx EXCEPT ![c] = x]

(* What poll_cb() keeps of the result r.                                   *)
Noted_OldStat(x, r) ==                             \* mutant
  [x EXCEPT !.busy = IF r \in Errors THEN r ELSE "ok"]
Noted(x, r) ==
  IF r \in Errors THEN [x EXCEPT !.busy = r]
  ELSE [x EXCEPT !.busy = "ok", !.stat = r]

(* The program is told of an error that is new, and of a content that is   *)
(* not the first and is new or comes after an error.                       *)
IsNews(x, r) ==
  IF r \in Errors THEN x.busy # r
  ELSE x.busy # "no" /\ (x.busy \in Errors \/ x.stat # r)

(* poll_cb() for a handle that was stopped or closed since.                *)
Answered(c) ==
  /\ Idle("poll") /\ req[c] \in Contents \cup Errors
  /\ req' = [req EXCEPT ![c] = "no"]
  /\ UNCHANGED <<file, changes, cur>>

PollCbLate(c) ==
  /\ Answered(c) /\ ctx[c].parent = None
  /\ hs' = CloseHandle(hs, c)
  /\ UNCHANGED <<phase, frame, user, calls, ctx, told>>

(* poll_cb() without news, and up to the callback of the program.          *)
PollCbSilent(c) ==
  /\ Answered(c) /\ ctx[c].parent # None /\ ~IsNews(ctx[c], req[c])
  /\ Reschedule(c, Noted(ctx[c], req[c]))
  /\ told' = [told EXCEPT ![ctx[c].parent] = req[c]]
  /\ UNCHANGED <<phase, frame, user, calls>>

PollCbTells(c) ==
  /\ Answered(c) /\ ctx[c].parent # None /\ IsNews(ctx[c], req[c])
  /\ CallsBack(<<"poll_cb", c, req[c]>>)
  /\ told' = [told EXCEPT ![ctx[c].parent] = req[c]]
  /\ UNCHANGED <<hs, ctx>>

(* The rest of it: the program may have stopped or closed the handle.      *)
Called(c) == frame # NoFrame /\ frame[1] = "poll_cb" /\ frame[2] = c

PollCbReturns(c) ==
  /\ ~user /\ Called(c)
  /\ Reschedule(c, Noted(ctx[c], frame[3]))
  /\ Goes(NoFrame)
  /\ UNCHANGED <<file, changes, cur, req, told>>

(* uv__finish_close(); timer_close_cb() frees the context.                 *)
PollFinish ==
  /\ FinishHandle(Ctxs)
  /\ ctx' = Restrict(ctx, DOMAIN ctx \ {Head(hs.doomed)})
  /\ UNCHANGED <<file, changes, cur, req, told>>

FsPollCall(h) ==
  PollInitialize(h) \/ PollStart(h) \/ PollStop(h) \/ PollClose(h)

FsPollStep ==
  \/ ChangeFile
  \/ \E c \in Ctxs :
       \/ Stat(c) \/ TimerFires(c) \/ PollCbLate(c) \/ PollCbSilent(c)
       \/ PollCbTells(c) \/ PollCbReturns(c)

-----------------------------------------------------------------------------
(* A context lives exactly as long as something uses it.  While its handle *)
(* is active it has one thing that makes the polling go on, a request, a   *)
(* timer or the callback under way; afterwards one that gets it freed.     *)
One(cond) == IF cond THEN 1 ELSE 0
Pending(c) == One(req[c] # "no") + One(Called(c))

ContextsAreKept ==
  /\ \A c \in Ctxs :
       LET ends == Pending(c) + CloseCalls(hs, c)
           goes == Pending(c) + One(IsActive(hs, c))
       IN IF c \notin DOMAIN ctx THEN ends = 0
          ELSE LET h == ctx[c].parent
               IN IF h = None THEN ends = 1 /\ ~IsActive(hs, c)
                  ELSE cur[h] = c /\ goes = 1 /\ CloseCalls(hs, c) = 0
  /\ \A h \in Polls :
       IF IsActive(hs, h) THEN ctx[cur[h]].parent = h ELSE cur[h] = None

(* The program is told of a file only what it did not know yet, as uv.h    *)
(* says of errors, and only by handles that poll.                          *)
NeverToldTwice ==
  [][\A c \in Ctxs : Called(c)' /\ ~Called(c) =>
       /\ IsActive(hs, ctx[c].parent) /\ cur[ctx[c].parent] = c
       /\ told'[ctx[c].parent] # told[ctx[c].parent]]_<<turnVars, pollVars>>
=============================================================================
