------------------------------ MODULE UvHandle ------------------------------
(***************************************************************************)
(* What all libuv handles have in common on unix: the flags of uv-common.h *)
(* and internal.h, loop->active_handles, which keeps uv_run() going, and   *)
(* the closing of handles by core.c.                                       *)
(*                                                                         *)
(* The handles of a loop are a record:                                     *)
(*   flags    the flags of each handle                                     *)
(*   count    loop->active_handles                                         *)
(*   closing  loop->closing_handles with the next_closing links            *)
(*   doomed   the rest p of that list in uv__run_closing_handles()         *)
(* Most library calls touch these more than once, so the operators map a   *)
(* record to the next one and are composed by the modules that use them.   *)
(***************************************************************************)
EXTENDS Integers, FiniteSets, SequencesExt

(* UV_CLOSING, UV_CLOSED, UV__HANDLE_ACTIVE and UV__HANDLE_REF.            *)
Flags == {"closing", "closed", "active", "ref"}

(* The type of the record for a set S of handles.                          *)
HandlesOf(S) ==
  [flags : [S -> SUBSET Flags], count : 0..Cardinality(S),
   closing : Seq(S), doomed : Seq(S)]

(* Handles that have just been initialized.                                *)
Fresh(S) ==
  [flags |-> [h \in S |-> {"ref"}], count |-> 0,
   closing |-> <<>>, doomed |-> <<>>]

IsActive(H, h) == "active" \in H.flags[h]

(* Memory of the program: after the close callback, before uv_*_init().    *)
IsClosed(H, h) == "closed" \in H.flags[h]

(* A handle that may be passed to any function of its type.                *)
IsUsable(H, h) == "closing" \notin H.flags[h]

(* A handle that uv_close() was called for and that is not closed yet.     *)
IsClosing(H, h) == "closing" \in H.flags[h] /\ "closed" \notin H.flags[h]

-----------------------------------------------------------------------------
Raise(H, h, f)  == [H EXCEPT !.flags[h] = @ \cup {f}]
Lower(H, h, f)  == [H EXCEPT !.flags[h] = @ \ {f}]
Counted(H, h, n) ==
  IF {"active", "ref"} \subseteq H.flags[h] THEN H.count + n ELSE H.count

(* uv__handle_init()                                                       *)
Initialized(H, h) == [H EXCEPT !.flags[h] = {"ref"}]

(* uv__handle_start() and uv__handle_stop()                                *)
Started(H, h) ==
  IF "active" \in H.flags[h] THEN H
  ELSE LET R == Raise(H, h, "active") IN [R EXCEPT !.count = Counted(R, h, 1)]

Stopped_Unreffed(H, h) ==                         \* mutant
  Lower([H EXCEPT !.count = IF "active" \in H.flags[h] THEN @ - 1 ELSE @],
        h, "active")
Stopped(H, h) == Lower([H EXCEPT !.count = Counted(H, h, -1)], h, "active")

(* uv__handle_ref() and uv__handle_unref()                                 *)
Reffed(H, h) ==
  IF "ref" \in H.flags[h] THEN H
  ELSE LET R == Raise(H, h, "ref") IN [R EXCEPT !.count = Counted(R, h, 1)]

Unreffed(H, h) == Lower([H EXCEPT !.count = Counted(H, h, -1)], h, "ref")

-----------------------------------------------------------------------------
(* The start of uv_close(); the type's own close function follows.         *)
Closing(H, h) == Raise(H, h, "closing")

(* uv__make_close_pending()                                                *)
MakeClosePending(H, h) == [H EXCEPT !.closing = <<h>> \o @]

(* uv__run_closing_handles() takes the whole list ...                      *)
TakeClosing(H) == [H EXCEPT !.doomed = H.closing, !.closing = <<>>]

(* ... and uv__finish_close() is called for its head p, up to close_cb.    *)
FinishClose(H) ==
  LET p == Head(H.doomed)
  IN Unreffed(Raise([H EXCEPT !.doomed = Tail(@)], p, "closed"), p)

(* How often h is to be called back.                                       *)
CloseCalls(H, h) ==
  Cardinality({i \in DOMAIN H.closing : H.closing[i] = h})
    + Cardinality({i \in DOMAIN H.doomed : H.doomed[i] = h})
=============================================================================
