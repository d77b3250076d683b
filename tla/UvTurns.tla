------------------------------ MODULE UvTurns ------------------------------
(***************************************************************************)
(* The program and one libuv loop take turns.  The library is not          *)
(* reentrant: while user is TRUE the program runs, before uv_run() or in a *)
(* callback, and what it calls is done at once.  frame is what the library *)
(* goes on with when the callback returns, NoFrame in between.  uv_run2()  *)
(* runs due timers, then what epoll reports, then the closing handles; the *)
(* callbacks themselves are actions of the modules that extend this one.   *)
(***************************************************************************)
EXTENDS UvHandle

CONSTANTS
  Handles,     \* the handles, also those of the library
  MaxCalls,    \* bound on the library calls of the program
  None

ASSUME TurnsAssumption ==
  IsFiniteSet(Handles) /\ MaxCalls \in Nat /\ None \notin Handles

VARIABLES
  hs,      \* flags, active_handles and closing_handles, see UvHandle
  phase,   \* where uv_run2() is, "out" if it does not run
  frame,   \* the library function that waits for a callback
  user,    \* whether the program runs
  calls    \* the number of its calls

turnVars == <<hs, phase, frame, user, calls>>

NoFrame == <<>>

TurnsInit ==
  /\ hs = [Fresh(Handles) EXCEPT !.flags = [h \in Handles |-> {}]]
  /\ phase = "out" /\ frame = NoFrame /\ user = TRUE /\ calls = 0

(* The handle has been initialized and uv_close() has not been called.     *)
Usable(h) == IsUsable(hs, h) /\ hs.flags[h] # {}

(* The memory of the handle is the program's.                              *)
Reusable(h) == hs.flags[h] = {} \/ IsClosed(hs, h)

Call ==
  /\ user /\ calls < MaxCalls
  /\ calls' = calls + 1
  /\ UNCHANGED <<phase, frame, user>>

(* The library between two callbacks of the given phase.                   *)
Idle(p) == phase = p /\ ~user /\ frame = NoFrame

(* The program is called, and the library goes on with the frame.          *)
CallsBack(f) == user' = TRUE /\ frame' = f /\ UNCHANGED <<phase, calls>>
Goes(f)      == frame' = f /\ UNCHANGED <<phase, user, calls>>

(* uv_close() and the part of it that all types share, on the record H.    *)
CloseHandle(H, h) == MakeClosePending(Stopped(Closing(H, h), h), h)

-----------------------------------------------------------------------------
(* uv_run2(); alive says whether uv__loop_alive() holds, and what one      *)
(* iteration cannot do is left to the next.                                *)
RunLoop(alive) ==
  /\ phase = "out" /\ alive
  /\ phase' = "timers" /\ user' = FALSE
  /\ UNCHANGED <<hs, frame, calls>>

Return ==
  /\ user /\ phase # "out" /\ user' = FALSE
  /\ UNCHANGED <<hs, phase, frame, calls>>

EndTimers ==
  /\ Idle("timers") /\ phase' = "poll"
  /\ UNCHANGED <<hs, frame, user, calls>>

(* The program has a turn in the callback of a check handle.               *)
EndPoll ==
  /\ Idle("poll") /\ phase' = "check" /\ user' = TRUE
  /\ UNCHANGED <<hs, frame, calls>>

StartClosing ==
  /\ Idle("check") /\ phase' = "closing"
  /\ hs' = TakeClosing(hs)
  /\ UNCHANGED <<frame, user, calls>>

(* uv__finish_close(), for a handle of the program up to its close_cb.     *)
FinishHandle(internal) ==
  /\ Idle("closing") /\ hs.doomed # <<>>
  /\ hs' = FinishClose(hs)
  /\ user' = (Head(hs.doomed) \notin internal)
  /\ UNCHANGED <<phase, frame, calls>>

EndIteration(alive) ==
  /\ Idle("closing") /\ hs.doomed = <<>>
  /\ IF alive THEN phase' = "timers" /\ UNCHANGED user
              ELSE phase' = "out" /\ user' = TRUE
  /\ UNCHANGED <<hs, frame, calls>>
=============================================================================
