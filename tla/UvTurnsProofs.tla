---------------------------- MODULE UvTurnsProofs ----------------------------
(***************************************************************************)
(* Proofs about UvFsWatch and UvProcess, whose loops are the one of        *)
(* UvTurns: about UvFsWatch for every set of handles, contexts, files and  *)
(* contents and every program, about UvProcess for every set of handles,   *)
(* pids and descriptors and every program that closes the handle of a      *)
(* child that has exited before the kernel gives its pid to another one.   *)
(*                                                                         *)
(* The argument for poll handles: a context has exactly one thing that     *)
(* goes on with it, a request, the callback under way, its timer or the    *)
(* close callback of its timer, and what the handle told the program is    *)
(* what the context noted.  For inotify handles: the walk over a queue has *)
(* a handle in front of it that is in the queue, by a link or by a link    *)
(* that was kept, and those that are due are not before that one.          *)
(* For children: a handle in the queue has a pid of its own, and either    *)
(* the process with that pid is the one it was spawned with, or there is   *)
(* none.  So uv__process_find() finds the handle that the exit is about.   *)
(***************************************************************************)
EXTENDS UvFsWatch, UvProcess, SharedLemmas

USE TurnsAssumption, FsPollAssumption, InotifyAssumption, FsWatchAssumption

Results == Contents \cup Errors

(* What the library goes on with after a callback, which is always one of  *)
(* uv__io_poll().                                                          *)
TellsOf(c, r)     == frame = <<"poll_cb", c, r>>
WalksAt(d, q, due) == frame = <<"walk", d, q, due>>

FrameFits ==
  /\ frame # NoFrame => phase = "poll"
  /\ \/ frame = NoFrame
     \/ \E c \in DOMAIN ctx, r \in Results : TellsOf(c, r)
     \/ \E d \in 1..lastWd, q \in Watches, due \in SUBSET Watches : WalksAt(d, q, due)

TurnsInv ==
  /\ HandlesFit(hs, Handles)
  /\ phase # "closing" => hs.doomed = <<>>
  /\ FrameFits

-----------------------------------------------------------------------------
(* Poll handles.                                                           *)
Contexts == [parent : Polls \cup {None}, busy : Busy, stat : Contents \cup {"zero"}]

PollTypes ==
  /\ file \in Results
  /\ cur \in [Polls -> Ctxs \cup {None}]
  /\ DOMAIN ctx \subseteq Ctxs /\ ctx \in [DOMAIN ctx -> Contexts]
  /\ req \in [Ctxs -> Results \cup {"no", "queued"}]
  /\ told \in [Polls -> Results \cup {"no"}]

ExactlyOne(a, b, c) == (a \/ b \/ c) /\ ~(a /\ b) /\ ~(a /\ c) /\ ~(b /\ c)

(* Memory that is free, a context that was left, one that polls.           *)
IsFree(c) ==
  /\ req[c] = "no" /\ ~Called(c) /\ ~IsActive(hs, c)
  /\ hs.flags[c] = {} \/ IsClosed(hs, c)

IsLeft(c) ==
  /\ ~IsActive(hs, c) /\ ~IsClosed(hs, c)
  /\ ExactlyOne(req[c] # "no", Called(c), IsClosing(hs, c))

Polling(c, h) ==
  /\ IsUsable(hs, c) /\ ~IsClosed(hs, c) /\ cur[h] = c /\ IsActive(hs, h)
  /\ ExactlyOne(req[c] # "no", Called(c), IsActive(hs, c))

ContextFits(c) ==
  IF c \notin DOMAIN ctx THEN IsFree(c)
  ELSE IF ctx[c].parent = None THEN IsLeft(c) ELSE Polling(c, ctx[c].parent)

PollFits(h) ==
  IF IsActive(hs, h) THEN cur[h] \in DOMAIN ctx /\ ctx[cur[h]].parent = h
  ELSE cur[h] = None

(* What the context x noted, or has told and is about to note.             *)
Known(x) ==
  IF x.busy = "no" THEN "no" ELSE IF x.busy = "ok" THEN x.stat ELSE x.busy

ToldFits(c) ==
  /\ ctx[c].busy = "ok" => ctx[c].stat \in Contents
  /\ ctx[c].parent # None =>
       told[ctx[c].parent] = IF Called(c) THEN frame[3] ELSE Known(ctx[c])

PollInv ==
  /\ PollTypes
  /\ \A c \in Ctxs : ContextFits(c)
  /\ \A h \in Polls : PollFits(h)
  /\ \A c \in DOMAIN ctx : ToldFits(c)

-----------------------------------------------------------------------------
(* Inotify handles.                                                        *)
WatchTypes ==
  /\ lastWd \in Nat
  /\ watch \in [Paths -> 1..lastWd \cup {None}]
  /\ events \in Seq(1..lastWd)
  /\ DOMAIN lists \subseteq 1..lastWd /\ lists \in [DOMAIN lists -> Seq(Watches)]
  /\ wd \in [Watches -> DOMAIN lists \cup {None}]
  /\ link \in [Watches -> Watches \cup {None}]

(* h comes after g in the queue Q.                                         *)
After(Q, g, h) == \E i, j \in 1..Len(Q) : i < j /\ Q[i] = g /\ Q[j] = h

(* The walk is at q, the handle it goes to is the next one in the queue,   *)
(* and those that are due and not closed are not before it.                *)
AtHandle(d, q, due) ==
  /\ wd[q] = d
  /\ \A h \in due : wd[h] = d => After(lists[d], q, h)

AtClosed(d, q, due) ==
  /\ wd[q] = None
  /\ link[q] # None => wd[link[q]] = d
  /\ \A h \in due : wd[h] = d =>
       link[q] # None /\ (h = link[q] \/ After(lists[d], link[q], h))

WalkFits(d, q, due) ==
  /\ \A h \in due \cup {q} : wd[h] = d \/ (wd[h] = None /\ IsClosing(hs, h))
  /\ AtHandle(d, q, due) \/ AtClosed(d, q, due)

WatchInv ==
  /\ WatchTypes
  /\ ListsAgree
  /\ \A h \in Watches : IsActive(hs, h) <=> Usable(h)
  /\ ~Pairs /\ InWalk => WalkFits(frame[2], frame[3], frame[4])

WatchesInv == TurnsInv /\ PollInv /\ WatchInv

-----------------------------------------------------------------------------
(* What the frame says.                                                    *)
LEMMA FrameOfCallback ==
  ASSUME FrameFits, NEW c, Called(c)
  PROVE  /\ c \in DOMAIN ctx /\ frame[3] \in Results
         /\ TellsOf(c, frame[3]) /\ ~InWalk /\ phase = "poll"
         /\ \A x : Called(x) => x = c
<1>1. PICK d \in DOMAIN ctx, r \in Results : TellsOf(d, r)
  BY DEF FrameFits, Called, NoFrame, TellsOf, WalksAt
<1>2. /\ frame[1] = "poll_cb" /\ frame[2] = d /\ frame[3] = r /\ frame # NoFrame
  BY <1>1 DEF TellsOf, NoFrame
<1> QED BY <1>1, <1>2 DEF FrameFits, Called, InWalk

LEMMA FrameOfWalk ==
  ASSUME FrameFits, InWalk
  PROVE  /\ frame[2] \in 1..lastWd /\ frame[3] \in Watches
         /\ frame[4] \in SUBSET Watches
         /\ WalksAt(frame[2], frame[3], frame[4]) /\ phase = "poll"
         /\ \A c : ~Called(c)
<1>1. PICK d \in 1..lastWd, q \in Watches, due \in SUBSET Watches : WalksAt(d, q, due)
  BY DEF FrameFits, InWalk, NoFrame, TellsOf, WalksAt
<1>2. /\ frame[1] = "walk" /\ frame[2] = d /\ frame[3] = q /\ frame[4] = due
      /\ frame # NoFrame
  BY <1>1 DEF WalksAt, NoFrame
<1> QED BY <1>1, <1>2 DEF FrameFits, Called, InWalk

LEMMA TurnsKept ==
  ASSUME TurnsInv, HandlesFit(hs', Handles), hs'.doomed = hs.doomed,
         UNCHANGED <<phase, frame>>, DOMAIN ctx \subseteq DOMAIN ctx',
         lastWd \in Nat, lastWd' \in Nat, lastWd <= lastWd'
  PROVE  TurnsInv'
<1>1. 1..lastWd \subseteq 1..lastWd'
  OBVIOUS
<1>2. FrameFits'
  BY <1>1 DEF TurnsInv, FrameFits, TellsOf, WalksAt, NoFrame
<1> QED BY <1>2 DEF TurnsInv

(* Steps that leave a part of the state alone.                             *)
LEMMA PollsAreKept ==
  ASSUME PollInv, UNCHANGED pollVars,
         \A h \in Polls \cup Ctxs : hs'.flags[h] = hs.flags[h],
         \A c : Called(c)' <=> Called(c),
         \A c : Called(c) => frame' = frame
  PROVE  PollInv'
<1>1. PollTypes'
  BY DEF PollInv, PollTypes, pollVars
<1>2. ASSUME NEW c \in Ctxs PROVE ContextFits(c)'
  <2>1. /\ hs'.flags[c] = hs.flags[c] /\ (Called(c)' <=> Called(c))
        /\ ctx' = ctx /\ cur' = cur /\ req' = req /\ ContextFits(c)
    BY DEF PollInv, pollVars
  <2>2. c \in DOMAIN ctx => ctx[c].parent \in Polls \cup {None}
    BY DEF PollInv, PollTypes, Contexts
  <2> QED BY <2>1, <2>2
         DEF ContextFits, IsFree, IsLeft, Polling, IsActive, IsUsable, IsClosing, IsClosed
<1>3. ASSUME NEW h \in Polls PROVE PollFits(h)'
  BY DEF PollInv, PollFits, IsActive, pollVars
<1>4. ASSUME NEW c \in DOMAIN ctx' PROVE ToldFits(c)'
  BY DEF PollInv, ToldFits, pollVars, Known
<1> QED BY <1>1, <1>2, <1>3, <1>4 DEF PollInv

(* A context that a step of another one leaves alone.                      *)
LEMMA ContextStays ==
  ASSUME PollTypes, NEW c \in Ctxs, ContextFits(c),
         hs'.flags[c] = hs.flags[c], c \in DOMAIN ctx' <=> c \in DOMAIN ctx,
         c \in DOMAIN ctx => ctx'[c].parent = ctx[c].parent,
         req'[c] = "no" <=> req[c] = "no", Called(c)' <=> Called(c),
         \A h \in Polls : cur[h] = c /\ IsActive(hs, h) =>
                            cur'[h] = c /\ IsActive(hs, h)'
  PROVE  ContextFits(c)'
<1>1. /\ IsActive(hs, c)' <=> IsActive(hs, c)
      /\ IsUsable(hs, c)' <=> IsUsable(hs, c)
      /\ IsClosing(hs, c)' <=> IsClosing(hs, c)
      /\ IsClosed(hs, c)' <=> IsClosed(hs, c)
  BY DEF IsActive, IsUsable, IsClosing, IsClosed
<1>2. CASE c \notin DOMAIN ctx
  BY <1>1, <1>2 DEF ContextFits, IsFree
<1>3. CASE c \in DOMAIN ctx /\ ctx[c].parent = None
  BY <1>1, <1>3 DEF ContextFits, IsLeft, ExactlyOne
<1>4. CASE c \in DOMAIN ctx /\ ctx[c].parent # None
  <2>1. PICK h \in Polls : h = ctx[c].parent
    BY <1>4 DEF PollTypes, Contexts
  <2>2. Polling(c, h)
    BY <1>4, <2>1 DEF ContextFits
  <2>3. Polling(c, h)'
    BY <1>1, <2>2 DEF Polling, ExactlyOne
  <2> QED BY <1>4, <2>1, <2>3 DEF ContextFits
<1> QED BY <1>2, <1>3, <1>4

LEMMA WatchesAreKept ==
  ASSUME WatchInv, FrameFits, UNCHANGED inotifyVars,
         \A h \in Watches : /\ IsActive(hs, h)' <=> IsActive(hs, h)
                            /\ Usable(h)' <=> Usable(h)
                            /\ InWalk => (IsClosing(hs, h)' <=> IsClosing(hs, h)),
         InWalk' => frame' = frame
  PROVE  WatchInv'
<1>1. WatchTypes' /\ ListsAgree'
  BY DEF WatchInv, WatchTypes, ListsAgree, inotifyVars
<1>2. \A h \in Watches : IsActive(hs, h)' <=> Usable(h)'
  BY DEF WatchInv
<1>3. ASSUME ~Pairs, InWalk' PROVE WalkFits(frame[2], frame[3], frame[4])'
  <2>1. frame' = frame /\ InWalk /\ WalkFits(frame[2], frame[3], frame[4])
    BY <1>3 DEF WatchInv, InWalk
  <2>2. frame[3] \in Watches /\ frame[4] \in SUBSET Watches
    BY <2>1, FrameOfWalk
  <2> DEFINE d == frame[2]  q == frame[3]  due == frame[4]
  <2>3. /\ \A h \in due \cup {q} : wd[h] = d \/ (wd[h] = None /\ IsClosing(hs, h)')
        /\ AtHandle(d, q, due) \/ AtClosed(d, q, due)
    BY <2>1, <2>2 DEF WalkFits
  <2>4. wd' = wd /\ link' = link /\ lists' = lists
    BY DEF inotifyVars
  <2> HIDE DEF d, q, due
  <2>5. WalkFits(d, q, due)'
    BY <2>1, <2>3, <2>4 DEF WalkFits, AtHandle, AtClosed, d, q, due
  <2> QED BY <2>5 DEF d, q, due
<1> QED BY <1>1, <1>2, <1>3 DEF WatchInv

LEMMA SameFlags ==
  ASSUME NEW h, hs'.flags[h] = hs.flags[h]
  PROVE  /\ IsActive(hs, h)' <=> IsActive(hs, h)
         /\ Usable(h)' <=> Usable(h)
         /\ IsClosing(hs, h)' <=> IsClosing(hs, h)
BY DEF IsActive, Usable, IsUsable, IsClosing, IsClosed

-----------------------------------------------------------------------------
LEMMA InitFits ==
  ASSUME Init
  PROVE  WatchesInv
<1>1. HandlesFit(hs, Handles) /\ \A h \in Handles : hs.flags[h] = {}
  <2> DEFINE f == [h \in Handles |-> {}]
             G == Fresh(Handles)
             R == [G EXCEPT !.flags = f]
  <2>1. /\ G.count = 0 /\ G.closing = <<>> /\ G.doomed = <<>>
        /\ G \in HandleRecords(Handles)
    BY DEF Fresh, HandleRecords, Flags
  <2> HIDE DEF G
  <2>2. /\ f \in [Handles -> SUBSET Flags] /\ R.flags = f /\ R.count = 0
        /\ R.closing = <<>> /\ R.doomed = <<>> /\ R \in HandleRecords(Handles)
    BY <2>1 DEF HandleRecords
  <2>3. Cardinality(Handles) \in Nat
    BY FS_CardinalityType
  <2> HIDE DEF R
  <2>4. R \in HandlesOf(Handles)
    BY <2>2, <2>3 DEF HandlesOf, HandleRecords
  <2>5. KeepingAlive(R, Handles) = {} /\ Cardinality({}) = 0
    BY <2>2, FS_EmptySet DEF KeepingAlive
  <2>6. CountsItsHandles(R, Handles)
    BY <2>2, <2>4, <2>5 DEF CountsItsHandles
  <2>7. FlagsFit(R, Handles) /\ ListsFit(R, Handles)
    BY <2>2 DEF FlagsFit, ListsFit, IsClosed, IsUsable, IsActive, IsClosing, IsInjective, ToSet
  <2>8. hs = R
    BY DEF Init, TurnsInit, R, G
  <2> QED BY <2>2, <2>6, <2>7, <2>8 DEF HandlesFit
<1>2. frame = NoFrame /\ phase = "out" /\ \A c : ~Called(c)
  BY DEF Init, TurnsInit, Called
<1>3. TurnsInv
  BY <1>1, <1>2 DEF TurnsInv, FrameFits, Init, TurnsInit, Fresh
<1>4. PollInv
  <2>1. DOMAIN ctx = {} /\ PollTypes
    BY DEF Init, FsPollInit, PollTypes, Results
  <2>2. \A c \in Ctxs : ContextFits(c)
    BY <1>1, <1>2, <2>1 DEF Init, FsPollInit, ContextFits, IsFree, IsActive
  <2>3. \A h \in Polls : PollFits(h)
    BY <1>1 DEF Init, FsPollInit, PollFits, IsActive
  <2> QED BY <2>1, <2>2, <2>3 DEF PollInv
<1>5. WatchInv
  <2>1. DOMAIN lists = {} /\ WatchTypes
    BY DEF Init, InotifyInit, WatchTypes
  <2>2. \A h \in Watches : ~IsActive(hs, h) /\ ~Usable(h) /\ wd[h] = None
    BY <1>1 DEF IsActive, Usable, Init, InotifyInit
  <2>3. ListsAgree
    BY <2>1, <2>2 DEF ListsAgree, Init, InotifyInit
  <2> QED BY <1>2, <2>1, <2>2, <2>3 DEF WatchInv, InWalk
<1> QED BY <1>3, <1>4, <1>5 DEF WatchesInv

-----------------------------------------------------------------------------
(* uv_run2() between the callbacks.                                        *)
LEMMA TurnKeeps ==
  ASSUME WatchesInv, Turn, UNCHANGED <<pollVars, inotifyVars>>
  PROVE  WatchesInv'
<1>1. /\ HandlesFit(hs', Handles) /\ hs'.flags = hs.flags /\ frame' = frame
      /\ phase' # "closing" => hs'.doomed = <<>>
      /\ frame # NoFrame => phase' = "poll"
  <2>1. CASE StartClosing
    BY <2>1, TakenFits DEF StartClosing, Idle, WatchesInv, TurnsInv
  <2>2. CASE RunLoop(Alive) \/ Return \/ EndTimers \/ EndPoll \/ EndIteration(Alive)
    BY <2>2 DEF RunLoop, Return, EndTimers, EndPoll, EndIteration, Idle, WatchesInv, TurnsInv,
                FrameFits
  <2> QED BY <2>1, <2>2 DEF Turn
<1>2. ctx' = ctx /\ lastWd' = lastWd
  BY DEF pollVars, inotifyVars
<1>3. TurnsInv'
  BY <1>1, <1>2 DEF WatchesInv, TurnsInv, FrameFits, TellsOf, WalksAt, NoFrame
<1>4. PollInv'
  BY <1>1, PollsAreKept DEF WatchesInv, Called
<1>5. WatchInv'
  BY <1>1, SameFlags, WatchesAreKept DEF WatchesInv, TurnsInv
<1> QED BY <1>3, <1>4, <1>5 DEF WatchesInv

(* uv__finish_close()                                                      *)
LEMMA PollFinishKeeps ==
  ASSUME WatchesInv, PollFinish, UNCHANGED inotifyVars
  PROVE  WatchesInv'
<1>1. /\ hs.doomed # <<>> /\ phase = "closing" /\ frame = NoFrame
      /\ hs' = FinishClose(hs) /\ phase' = phase /\ frame' = frame
      /\ \A c : ~Called(c) /\ ~Called(c)'
      /\ ~InWalk /\ ~InWalk'
      /\ HandlesFit(hs, Handles)
  BY DEF PollFinish, FinishHandle, Idle, Called, InWalk, WatchesInv, TurnsInv
<1>2. PICK p \in Handles :
         /\ p = Head(hs.doomed) /\ HandlesFit(hs', Handles) /\ IsClosing(hs, p)
         /\ hs'.flags[p] = (hs.flags[p] \cup {"closed"}) \ {"ref"}
         /\ \A g \in Handles : g # p => hs'.flags[g] = hs.flags[g]
  <2>1. HandlesFit(hs, Handles) /\ hs.doomed # <<>> /\ hs' = FinishClose(hs)
    BY <1>1
  <2>2. /\ HandlesFit(hs', Handles)
        /\ \E p \in Handles : FinishedWith(hs, Handles, p, hs')
    BY <2>1, SomeHandleIsFinished
  <2> QED BY <2>2 DEF FinishedWith
<1>3. /\ ctx' = [x \in DOMAIN ctx \ {p} |-> ctx[x]]
      /\ UNCHANGED <<file, cur, req, told>>
  BY <1>2 DEF PollFinish, Restrict
<1>4. TurnsInv'
  BY <1>1, <1>2 DEF TurnsInv, FrameFits
<1>5. ~IsActive(hs, p) /\ ~IsActive(hs, p)' /\ IsClosed(hs, p)'
  BY <1>2 DEF WatchesInv, TurnsInv, HandlesFit, FlagsFit, IsClosing, IsActive, IsUsable, IsClosed
<1>6. p \in DOMAIN ctx => ctx[p].parent = None /\ req[p] = "no"
  BY <1>1, <1>2 DEF WatchesInv, PollInv, PollTypes, ContextFits, Polling, IsLeft, ExactlyOne,
                    IsUsable, IsClosing
<1>7. p \in Ctxs => p \in DOMAIN ctx
  BY <1>2 DEF WatchesInv, PollInv, ContextFits, IsFree, IsClosing, IsClosed
<1>8. PollInv'
  <2>1. PollTypes'
    BY <1>3 DEF WatchesInv, PollInv, PollTypes
  <2>2. ASSUME NEW c \in Ctxs PROVE ContextFits(c)'
    <3>1. CASE c = p
      BY <1>1, <1>3, <1>5, <1>6, <1>7, <2>2, <3>1 DEF ContextFits, IsFree
    <3>2. CASE c # p
      <4>1. hs'.flags[c] = hs.flags[c] /\ (c \in DOMAIN ctx' <=> c \in DOMAIN ctx)
        BY <1>2, <1>3, <3>2
      <4>2. c \in DOMAIN ctx => ctx'[c] = ctx[c]
        BY <1>3, <3>2
      <4>3. \A h \in Polls : IsActive(hs, h) => IsActive(hs, h)'
        BY <1>2, <1>5 DEF IsActive
      <4>4. ContextFits(c) /\ PollTypes
        BY DEF WatchesInv, PollInv
      <4> QED BY <1>1, <1>3, <4>1, <4>2, <4>3, <4>4, ContextStays
    <3> QED BY <3>1, <3>2
  <2>3. ASSUME NEW h \in Polls PROVE PollFits(h)'
    <3>1. IsActive(hs, h)' <=> IsActive(hs, h)
      BY <1>2, <1>5 DEF IsActive
    <3>2. PollFits(h)
      BY DEF WatchesInv, PollInv
    <3> QED BY <1>3, <1>6, <3>1, <3>2 DEF PollFits
  <2>4. ASSUME NEW c \in DOMAIN ctx' PROVE ToldFits(c)'
    BY <1>1, <1>3 DEF WatchesInv, PollInv, ToldFits, Known
  <2> QED BY <2>1, <2>2, <2>3, <2>4 DEF PollInv
<1>9. WatchInv'
  <2>1. ASSUME NEW h \in Watches
        PROVE  /\ IsActive(hs, h)' <=> IsActive(hs, h)
               /\ Usable(h)' <=> Usable(h)
    <3>1. CASE h = p
      BY <1>2, <1>5, <3>1 DEF Usable, IsUsable, IsClosing
    <3>2. CASE h # p
      BY <1>2, <3>2, SameFlags
    <3> QED BY <3>1, <3>2
  <2> QED BY <1>1, <2>1, WatchesAreKept DEF WatchesInv, TurnsInv
<1> QED BY <1>4, <1>8, <1>9 DEF WatchesInv

-----------------------------------------------------------------------------
(* What the calls on a poll handle do to the record of the loop.           *)
ClosesTo(H, h, R) ==
  /\ HandlesFit(R, Handles) /\ R.doomed = H.doomed
  /\ R.flags[h] = (H.flags[h] \cup {"closing"}) \ {"active"}
  /\ \A g \in Handles : g # h => R.flags[g] = H.flags[g]

LEMMA HandleCloses ==
  ASSUME NEW H, HandlesFit(H, Handles), NEW h \in Handles, IsUsable(H, h)
  PROVE  ClosesTo(H, h, CloseHandle(H, h))
<1> DEFINE R == CloseHandle(H, h)
<1>1. /\ HandlesFit(R, Handles) /\ R.doomed = H.doomed
      /\ R.flags[h] = (H.flags[h] \cup {"closing"}) \ {"active"}
      /\ \A g \in Handles : g # h => R.flags[g] = H.flags[g]
  BY ClosingFits DEF CloseHandle
<1> HIDE DEF R
<1> QED BY <1>1 DEF ClosesTo, R

(* The two parts of CloseHandle, for any flags: what is marked, and what   *)
(* is stopped and put on the list.                                         *)
Marked(H, h, f, R) ==
  /\ CountsItsHandles(R, Handles) /\ R.doomed = H.doomed
  /\ R.flags[h] = f /\ \A g \in Handles : g # h => R.flags[g] = H.flags[g]

Listed(H, h, R) ==
  /\ ToSet(R.closing) = ToSet(H.closing) \cup {h}
  /\ IsInjective(H.closing) /\ h \notin ToSet(H.closing) => IsInjective(R.closing)

LEMMA ClosingMarks ==
  ASSUME NEW H, CountsItsHandles(H, Handles), NEW h \in Handles
  PROVE  /\ Marked(H, h, H.flags[h] \cup {"closing"}, Closing(H, h))
         /\ Closing(H, h).closing = H.closing
<1> DEFINE R == Closing(H, h)
<1>1. Reflagged(H, Handles, h, H.flags[h] \cup {"closing"}, R)
  BY RaisedCounts DEF Closing
<1> HIDE DEF R
<1>2. /\ R.flags[h] = H.flags[h] \cup {"closing"}
      /\ \A g \in Handles : g # h => R.flags[g] = H.flags[g]
      /\ CountsItsHandles(R, Handles)
      /\ R.closing = H.closing /\ R.doomed = H.doomed
  BY <1>1, FlagsOfOthers
<1> QED BY <1>2 DEF Marked, R

LEMMA PendingMarks ==
  ASSUME NEW H, CountsItsHandles(H, Handles), NEW h \in Handles
  PROVE  LET R == MakeClosePending(Stopped(H, h), h)
         IN Marked(H, h, H.flags[h] \ {"active"}, R) /\ Listed(H, h, R)
<1> DEFINE A == Stopped(H, h)
           R == MakeClosePending(A, h)
<1>1. Reflagged(H, Handles, h, H.flags[h] \ {"active"}, A)
  BY StoppedCounts
<1> HIDE DEF A
<1>2. /\ A.flags[h] = H.flags[h] \ {"active"}
      /\ \A g \in Handles : g # h => A.flags[g] = H.flags[g]
      /\ CountsItsHandles(A, Handles)
      /\ A.closing = H.closing /\ A.doomed = H.doomed
  BY <1>1, FlagsOfOthers
<1>3. /\ CountsItsHandles(R, Handles)
      /\ R.flags = A.flags /\ R.doomed = A.doomed
      /\ ToSet(R.closing) = ToSet(A.closing) \cup {h}
      /\ IsInjective(A.closing) /\ h \notin ToSet(A.closing) => IsInjective(R.closing)
  BY <1>2, PendingCounts
<1> HIDE DEF R
<1> QED BY <1>2, <1>3 DEF Marked, Listed, R, A

(* uv_close() of a handle h that closes another one, c.                    *)
ClosesBoth(H, c, h, R) ==
  /\ HandlesFit(R, Handles) /\ R.doomed = H.doomed
  /\ R.flags[h] = (H.flags[h] \cup {"closing"}) \ {"active"}
  /\ R.flags[c] = (H.flags[c] \cup {"closing"}) \ {"active"}
  /\ \A g \in Handles : g # h /\ g # c => R.flags[g] = H.flags[g]

LEMMA HandlesClose ==
  ASSUME NEW H, HandlesFit(H, Handles), NEW c \in Handles, NEW h \in Handles,
         c # h, IsUsable(H, c), IsUsable(H, h)
  PROVE  ClosesBoth(H, c, h,
           MakeClosePending(Stopped(CloseHandle(Closing(H, h), c), h), h))
<1> DEFINE A == Closing(H, h)
           B == Closing(A, c)
           C == MakeClosePending(Stopped(B, c), c)
           R == MakeClosePending(Stopped(C, h), h)
<1>1. CountsItsHandles(H, Handles)
  BY DEF HandlesFit
<1>2. Marked(H, h, H.flags[h] \cup {"closing"}, A) /\ A.closing = H.closing
  BY <1>1, ClosingMarks
<1> HIDE DEF A
<1>3. Marked(A, c, A.flags[c] \cup {"closing"}, B) /\ B.closing = A.closing
  BY <1>2, ClosingMarks DEF Marked
<1> HIDE DEF B
<1>4. Marked(B, c, B.flags[c] \ {"active"}, C) /\ Listed(B, c, C)
  BY <1>3, PendingMarks DEF Marked
<1> HIDE DEF C
<1>5. Marked(C, h, C.flags[h] \ {"active"}, R) /\ Listed(C, h, R)
  BY <1>4, PendingMarks DEF Marked
<1>6. R = MakeClosePending(Stopped(CloseHandle(Closing(H, h), c), h), h)
  BY DEF CloseHandle, R, C, B, A
<1> HIDE DEF R
<1>7. /\ R.flags[h] = (H.flags[h] \cup {"closing"}) \ {"active"}
      /\ R.flags[c] = (H.flags[c] \cup {"closing"}) \ {"active"}
      /\ \A g \in Handles : g # h /\ g # c => R.flags[g] = H.flags[g]
      /\ R.doomed = H.doomed /\ CountsItsHandles(R, Handles)
  BY <1>2, <1>3, <1>4, <1>5 DEF Marked
<1>8. /\ {c, h} \cap ToSet(H.closing) = {} /\ {c, h} \cap ToSet(H.doomed) = {}
      /\ ~IsClosed(H, h) /\ ~IsClosed(H, c)
  BY DEF HandlesFit, ListsFit, FlagsFit, IsClosing, IsUsable
<1>9. ToSet(R.closing) = ToSet(H.closing) \cup {c, h} /\ IsInjective(R.closing)
  BY <1>2, <1>3, <1>4, <1>5, <1>8 DEF Listed, HandlesFit, ListsFit
<1>10. FlagsFit(R, Handles)
  BY <1>7, <1>8 DEF HandlesFit, FlagsFit, IsClosed, IsUsable, IsActive
<1>11. ListsFit(R, Handles)
  BY <1>7, <1>8, <1>9 DEF HandlesFit, ListsFit, IsClosing, IsClosed
<1> QED BY <1>6, <1>7, <1>10, <1>11 DEF ClosesBoth, HandlesFit

-----------------------------------------------------------------------------
(* The steps of fs-poll.c.                                                 *)
LEMMA FrameKept ==
  ASSUME FrameFits, UNCHANGED <<phase, frame, lastWd>>, DOMAIN ctx \subseteq DOMAIN ctx'
  PROVE  FrameFits' /\ \A c : Called(c)' <=> Called(c)
BY DEF FrameFits, TellsOf, WalksAt, NoFrame, Called

LEMMA PollStepKeeps ==
  ASSUME WatchesInv, PollInv', HandlesFit(hs', Handles), hs'.doomed = hs.doomed,
         phase' = phase, FrameFits', InWalk' => frame' = frame, UNCHANGED inotifyVars,
         \A h \in Watches : hs'.flags[h] = hs.flags[h]
  PROVE  WatchesInv'
<1>1. TurnsInv'
  BY DEF WatchesInv, TurnsInv
<1>2. WatchInv'
  BY SameFlags, WatchesAreKept DEF WatchesInv, TurnsInv
<1> QED BY <1>1, <1>2 DEF WatchesInv

LEMMA PollHandles ==
  /\ \A h \in Polls : h \in Handles /\ h # None /\ h \notin Ctxs /\ h \notin Watches
  /\ \A c \in Ctxs : c \in Handles /\ c # None /\ c \notin Polls /\ c \notin Watches
OBVIOUS

(* The context that a handle polls with.                                   *)
LEMMA ContextOfHandle ==
  ASSUME PollInv, NEW c \in DOMAIN ctx, ctx[c].parent # None
  PROVE  /\ c \in Ctxs /\ ctx[c].parent \in Polls /\ Polling(c, ctx[c].parent)
         /\ \A x \in DOMAIN ctx : x # c => ctx[x].parent # ctx[c].parent
<1>1. c \in Ctxs /\ ctx[c].parent \in Polls /\ Polling(c, ctx[c].parent)
  BY DEF PollInv, PollTypes, Contexts, ContextFits
<1>2. ASSUME NEW x \in DOMAIN ctx, ctx[x].parent = ctx[c].parent PROVE x = c
  BY <1>1, <1>2 DEF PollInv, PollTypes, ContextFits, Polling
<1> QED BY <1>1, <1>2

LEMMA ChangeFileKeeps ==
  ASSUME WatchesInv, ChangeFile, UNCHANGED inotifyVars
  PROVE  WatchesInv'
<1>1. /\ file' \in Results /\ UNCHANGED <<hs, phase, frame, cur, ctx, req, told>>
      /\ lastWd' = lastWd
  BY DEF ChangeFile, Results, turnVars, inotifyVars
<1>2. FrameFits' /\ \A c : Called(c)' <=> Called(c)
  BY <1>1, FrameKept DEF WatchesInv, TurnsInv
<1>3. PollInv'
  <2>1. PollTypes'
    BY <1>1 DEF WatchesInv, PollInv, PollTypes
  <2>2. \A c \in Ctxs : ContextFits(c)'
    BY <1>1, <1>2, ContextStays DEF WatchesInv, PollInv, IsActive
  <2>3. (\A h \in Polls : PollFits(h)') /\ (\A c \in DOMAIN ctx' : ToldFits(c)')
    BY <1>1, <1>2 DEF WatchesInv, PollInv, PollFits, ToldFits, Known, IsActive
  <2> QED BY <2>1, <2>2, <2>3 DEF PollInv
<1> QED BY <1>1, <1>2, <1>3, PollStepKeeps DEF WatchesInv, TurnsInv, InWalk

LEMMA StatKeeps ==
  ASSUME WatchesInv, NEW c \in Ctxs, Stat(c), UNCHANGED inotifyVars
  PROVE  WatchesInv'
<1>1. /\ req[c] = "queued" /\ req' = [req EXCEPT ![c] = file]
      /\ UNCHANGED <<hs, phase, frame, file, cur, ctx, told>> /\ lastWd' = lastWd
  BY DEF Stat, turnVars, inotifyVars
<1>2. FrameFits' /\ \A x : Called(x)' <=> Called(x)
  BY <1>1, FrameKept DEF WatchesInv, TurnsInv
<1>3. PollInv'
  <2>1. PollTypes'
    BY <1>1 DEF WatchesInv, PollInv, PollTypes
  <2>2. \A x \in Ctxs : req'[x] = "no" <=> req[x] = "no"
    BY <1>1 DEF WatchesInv, PollInv, PollTypes, Results
  <2>3. \A x \in Ctxs : ContextFits(x)'
    BY <1>1, <1>2, <2>2, ContextStays DEF WatchesInv, PollInv, IsActive
  <2>4. (\A h \in Polls : PollFits(h)') /\ (\A x \in DOMAIN ctx' : ToldFits(x)')
    BY <1>1, <1>2 DEF WatchesInv, PollInv, PollFits, ToldFits, Known, IsActive
  <2> QED BY <2>1, <2>3, <2>4 DEF PollInv
<1> QED BY <1>1, <1>2, <1>3, PollStepKeeps DEF WatchesInv, TurnsInv, InWalk

LEMMA PollInitializeKeeps ==
  ASSUME WatchesInv, NEW h \in Polls, PollInitialize(h), UNCHANGED inotifyVars
  PROVE  WatchesInv'
<1>1. /\ UNCHANGED <<phase, frame, pollVars>> /\ lastWd' = lastWd
      /\ UNCHANGED <<file, cur, ctx, req, told>>
      /\ Reusable(h) /\ hs' = Initialized(hs, h)
  BY DEF PollInitialize, Call, pollVars, inotifyVars
<1>2. /\ HandlesFit(hs, Handles) /\ h \in Handles
      /\ ~IsActive(hs, h) /\ ~IsClosing(hs, h) /\ "ref" \notin hs.flags[h]
  BY <1>1, PollHandles DEF WatchesInv, TurnsInv, HandlesFit, FlagsFit, Reusable, IsActive,
     IsClosing, IsUsable, IsClosed
<1>3. FitsWith(hs, Handles, h, {"ref"}, hs')
  BY <1>1, <1>2, InitializedFits
<1>4. /\ HandlesFit(hs', Handles) /\ hs'.doomed = hs.doomed /\ ~IsActive(hs, h)'
      /\ \A g \in Handles : g # h => hs'.flags[g] = hs.flags[g]
  BY <1>3 DEF FitsWith, IsActive
<1>5. FrameFits' /\ \A c : Called(c)' <=> Called(c)
  BY <1>1, FrameKept DEF WatchesInv, TurnsInv
<1>6. \A g \in Polls : IsActive(hs, g)' <=> IsActive(hs, g)
  BY <1>2, <1>4, PollHandles DEF IsActive
<1>7. PollInv'
  <2>1. PollTypes'
    BY <1>1 DEF WatchesInv, PollInv, PollTypes
  <2>2. \A c \in Ctxs : ContextFits(c)'
    <3> TAKE c \in Ctxs
    <3>1. hs'.flags[c] = hs.flags[c]
      BY <1>4, PollHandles
    <3> QED BY <1>1, <1>5, <1>6, <3>1, ContextStays DEF WatchesInv, PollInv
  <2>3. (\A g \in Polls : PollFits(g)') /\ (\A c \in DOMAIN ctx' : ToldFits(c)')
    BY <1>1, <1>5, <1>6 DEF WatchesInv, PollInv, PollFits, ToldFits, Known
  <2> QED BY <2>1, <2>2, <2>3 DEF PollInv
<1>8. \A g \in Watches : hs'.flags[g] = hs.flags[g]
  BY <1>4
<1> QED BY <1>1, <1>4, <1>5, <1>7, <1>8, PollStepKeeps DEF InWalk

(* What uv_fs_poll_start() does to the record of the loop.                 *)
LEMMA ContextIsMade ==
  ASSUME NEW H, HandlesFit(H, Handles), NEW c \in Handles, NEW h \in Handles, c # h,
         H.flags[c] = {} \/ IsClosed(H, c), IsUsable(H, h), NEW R,
         R = Started(Unreffed(Initialized(H, c), c), h)
  PROVE  /\ HandlesFit(R, Handles) /\ R.doomed = H.doomed
         /\ R.flags[c] = {} /\ R.flags[h] = H.flags[h] \cup {"active"}
         /\ \A g \in Handles : g # h /\ g # c => R.flags[g] = H.flags[g]
<1> DEFINE A == Initialized(H, c)
           B == Unreffed(A, c)
<1>1. ~IsClosing(H, c) /\ "ref" \notin H.flags[c]
  BY DEF HandlesFit, FlagsFit, IsClosing, IsClosed
<1>2. FitsWith(H, Handles, c, {"ref"}, A)
  BY <1>1, InitializedFits
<1> HIDE DEF A
<1>3. FitsWith(A, Handles, c, A.flags[c] \ {"ref"}, B)
  BY <1>2, UnreffedFits DEF FitsWith
<1> HIDE DEF B
<1>4. IsUsable(B, h)
  BY <1>2, <1>3 DEF FitsWith, IsUsable
<1>5. FitsWith(B, Handles, h, B.flags[h] \cup {"active"}, Started(B, h))
  BY <1>3, <1>4, StartedFits DEF FitsWith
<1>6. R = Started(B, h)
  BY DEF A, B
<1>7. FitsWith(B, Handles, h, B.flags[h] \cup {"active"}, R)
  BY <1>5, <1>6
<1> QED BY <1>2, <1>3, <1>7 DEF FitsWith

LEMMA PollStartKeeps ==
  ASSUME WatchesInv, NEW h \in Polls, PollStart(h), UNCHANGED inotifyVars
  PROVE  WatchesInv'
<1>1. PICK c \in Ctxs \ DOMAIN ctx :
         /\ ctx' = [x \in DOMAIN ctx \cup {c} |->
                      IF x = c THEN [parent |-> h, busy |-> "no", stat |-> "zero"]
                      ELSE ctx[x]]
         /\ req' = [req EXCEPT ![c] = "queued"]
         /\ cur' = [cur EXCEPT ![h] = c]
         /\ hs'  = Started(Unreffed(Initialized(hs, c), c), h)
  <2> DEFINE c == CHOOSE x \in Ctxs \ DOMAIN ctx : TRUE
  <2>1. c \in Ctxs \ DOMAIN ctx
    BY DEF PollStart
  <2> QED BY <2>1 DEF PollStart
<1>2. /\ UNCHANGED <<phase, frame, file>> /\ lastWd' = lastWd
      /\ told' = [told EXCEPT ![h] = "no"]
      /\ Usable(h) /\ ~IsActive(hs, h)
  BY DEF PollStart, Call, inotifyVars
<1>3. /\ HandlesFit(hs, Handles) /\ IsFree(c) /\ IsUsable(hs, h)
      /\ c \in Handles /\ h \in Handles /\ c # h
      /\ h # None /\ h \notin Watches /\ c \notin Watches
  BY <1>1, <1>2, PollHandles DEF WatchesInv, TurnsInv, PollInv, ContextFits, Usable
<1>4. /\ HandlesFit(hs', Handles) /\ hs'.doomed = hs.doomed
      /\ hs'.flags[c] = {} /\ hs'.flags[h] = hs.flags[h] \cup {"active"}
      /\ \A g \in Handles : g # h /\ g # c => hs'.flags[g] = hs.flags[g]
  BY <1>1, <1>3, ContextIsMade DEF IsFree
<1>5. FrameFits' /\ \A x : Called(x)' <=> Called(x)
  BY <1>1, <1>2, FrameKept DEF WatchesInv, TurnsInv
<1>6. /\ DOMAIN ctx' = DOMAIN ctx \cup {c} /\ ctx'[c].parent = h
      /\ ctx'[c].busy = "no"
      /\ \A x \in DOMAIN ctx : x # c /\ ctx'[x] = ctx[x]
  BY <1>1
<1>7. /\ PollTypes
      /\ req'[c] = "queued" /\ cur'[h] = c /\ told'[h] = "no"
      /\ \A x \in Ctxs : x # c => req'[x] = req[x]
      /\ \A g \in Polls : g # h => cur'[g] = cur[g] /\ told'[g] = told[g]
  BY <1>1, <1>2 DEF WatchesInv, PollInv, PollTypes
<1>8. PollInv'
  <2>1. PollTypes'
    <3>1. [parent |-> h, busy |-> "no", stat |-> "zero"] \in Contexts
      BY DEF Contexts, Busy
    <3>2. /\ DOMAIN ctx' \subseteq Ctxs /\ ctx' \in [DOMAIN ctx' -> Contexts]
      BY <1>1, <1>7, <3>1 DEF PollTypes
    <3> QED BY <1>1, <1>2, <1>7, <3>2 DEF PollTypes
  <2>2. ASSUME NEW x \in Ctxs PROVE ContextFits(x)'
    <3>1. CASE x = c
      <4>1. Polling(c, h)'
        BY <1>3, <1>4, <1>5, <1>7
           DEF Polling, ExactlyOne, IsFree, IsUsable, IsClosed, IsActive
      <4> QED BY <1>3, <1>6, <3>1, <4>1 DEF ContextFits
    <3>2. CASE x # c
      <4>1. /\ hs'.flags[x] = hs.flags[x] /\ (x \in DOMAIN ctx' <=> x \in DOMAIN ctx)
            /\ x \in DOMAIN ctx => ctx'[x].parent = ctx[x].parent
            /\ req'[x] = req[x]
        BY <1>4, <1>6, <1>7, <2>2, <3>2, PollHandles
      <4>2. \A g \in Polls : cur[g] = x /\ IsActive(hs, g) => cur'[g] = x /\ IsActive(hs, g)'
        BY <1>2, <1>4, <1>7, PollHandles DEF IsActive
      <4>3. ContextFits(x) /\ PollTypes
        BY <2>2 DEF WatchesInv, PollInv
      <4> QED BY <1>5, <2>2, <4>1, <4>2, <4>3, ContextStays
    <3> QED BY <3>1, <3>2
  <2>3. ASSUME NEW g \in Polls PROVE PollFits(g)'
    <3>1. CASE g = h
      BY <1>4, <1>6, <1>7, <3>1 DEF PollFits, IsActive
    <3>2. CASE g # h
      <4>1. hs'.flags[g] = hs.flags[g] /\ cur'[g] = cur[g] /\ PollFits(g)
        BY <1>4, <1>7, <2>3, <3>2, PollHandles DEF WatchesInv, PollInv
      <4> QED BY <1>6, <4>1 DEF PollFits, IsActive
    <3> QED BY <3>1, <3>2
  <2>4. ASSUME NEW x \in DOMAIN ctx' PROVE ToldFits(x)'
    <3>1. CASE x = c
      BY <1>3, <1>5, <1>6, <1>7, <3>1 DEF ToldFits, Known, IsFree
    <3>2. CASE x # c
      <4>1. x \in DOMAIN ctx /\ ctx'[x] = ctx[x] /\ ToldFits(x)
        BY <1>6, <2>4, <3>2 DEF WatchesInv, PollInv
      <4>2. ctx[x].parent # None => ctx[x].parent \in Polls /\ ctx[x].parent # h
        BY <1>2, <4>1, ContextOfHandle DEF WatchesInv, Polling
      <4>3. ctx[x].parent # None => told'[ctx[x].parent] = told[ctx[x].parent]
        BY <1>7, <4>2
      <4> QED BY <1>2, <1>5, <4>1, <4>3 DEF ToldFits, Known
    <3> QED BY <3>1, <3>2
  <2> QED BY <2>1, <2>2, <2>3, <2>4 DEF PollInv
<1>9. \A g \in Watches : hs'.flags[g] = hs.flags[g]
  BY <1>3, <1>4
<1> QED BY <1>2, <1>4, <1>5, <1>8, <1>9, PollStepKeeps DEF InWalk

(* A handle leaves its context: uv_fs_poll_stop() and uv_close().          *)
LEMMA LeaveKeeps ==
  ASSUME WatchesInv, NEW h \in Polls, IsActive(hs, h), NoLonger(h),
         UNCHANGED <<file, frame, req, told>>, NEW c, c = cur[h],
         ~IsActive(hs, h)',
         hs'.flags[c] = IF IsActive(hs, c) THEN (hs.flags[c] \cup {"closing"}) \ {"active"}
                        ELSE hs.flags[c],
         \A g \in Polls \cup Ctxs : g # h /\ g # c => hs'.flags[g] = hs.flags[g]
  PROVE  PollInv'
<1>1. /\ c \in DOMAIN ctx /\ c \in Ctxs /\ ctx[c].parent = h /\ Polling(c, h) /\ PollTypes
  BY PollHandles, ContextOfHandle DEF WatchesInv, PollInv, PollFits
<1>2. /\ DOMAIN ctx' = DOMAIN ctx /\ ctx'[c].parent = None
      /\ ctx'[c].busy = ctx[c].busy /\ ctx'[c].stat = ctx[c].stat
      /\ \A x \in DOMAIN ctx : x # c => ctx'[x] = ctx[x]
      /\ cur'[h] = None /\ \A g \in Polls : g # h => cur'[g] = cur[g]
  BY <1>1 DEF NoLonger, PollTypes, Contexts
<1>3. PollTypes'
  BY <1>1 DEF NoLonger, PollTypes, Contexts
<1>4. \A x : Called(x)' <=> Called(x)
  BY DEF Called
<1>5. ASSUME NEW x \in Ctxs PROVE ContextFits(x)'
  <2>1. CASE x = c
    <3>1. /\ ~IsActive(hs, c)' /\ ~IsClosed(hs, c)'
          /\ IsClosing(hs, c)' <=> IsActive(hs, c)
      BY <1>1 DEF Polling, IsActive, IsClosed, IsClosing, IsUsable
    <3>2. IsLeft(c)'
      BY <1>1, <1>4, <3>1 DEF Polling, IsLeft, ExactlyOne
    <3> QED BY <1>1, <1>2, <2>1, <3>2 DEF ContextFits
  <2>2. CASE x # c
    <3>1. /\ hs'.flags[x] = hs.flags[x] /\ (x \in DOMAIN ctx' <=> x \in DOMAIN ctx)
          /\ x \in DOMAIN ctx => ctx'[x].parent = ctx[x].parent
      BY <1>2, <1>5, <2>2, PollHandles
    <3>2. \A g \in Polls : cur[g] = x /\ IsActive(hs, g) => cur'[g] = x /\ IsActive(hs, g)'
      BY <1>1, <1>2, <2>2, PollHandles DEF IsActive
    <3>3. ContextFits(x) /\ PollTypes
      BY <1>5 DEF WatchesInv, PollInv
    <3> QED BY <1>4, <1>5, <3>1, <3>2, <3>3, ContextStays
  <2> QED BY <2>1, <2>2
<1>6. ASSUME NEW g \in Polls PROVE PollFits(g)'
  <2>1. CASE g = h
    BY <1>2, <2>1 DEF PollFits
  <2>2. CASE g # h
    <3>1. /\ hs'.flags[g] = hs.flags[g] /\ cur'[g] = cur[g] /\ PollFits(g)
      BY <1>1, <1>2, <1>6, <2>2, PollHandles DEF WatchesInv, PollInv
    <3>2. IsActive(hs, g) => cur[g] # c
      BY <1>1, <2>2, <3>1 DEF PollFits
    <3> QED BY <1>2, <3>1, <3>2 DEF PollFits, IsActive
  <2> QED BY <2>1, <2>2
<1>7. ASSUME NEW x \in DOMAIN ctx' PROVE ToldFits(x)'
  <2>1. x \in DOMAIN ctx /\ ToldFits(x)
    BY <1>2, <1>7 DEF WatchesInv, PollInv
  <2>2. CASE x = c
    BY <1>2, <2>1, <2>2 DEF ToldFits
  <2>3. CASE x # c
    BY <1>2, <1>4, <2>1, <2>3 DEF ToldFits, Known
  <2> QED BY <2>2, <2>3
<1> QED BY <1>3, <1>5, <1>6, <1>7 DEF PollInv

(* uv_close() of a handle that is not active.                              *)
LEMMA InactiveCloses ==
  ASSUME NEW H, HandlesFit(H, Handles), NEW h \in Handles, IsUsable(H, h), ~IsActive(H, h)
  PROVE  ClosesTo(H, h, MakeClosePending(Closing(H, h), h))
<1> DEFINE A == Closing(H, h)
           R == MakeClosePending(A, h)
<1>1. Marked(H, h, H.flags[h] \cup {"closing"}, A) /\ A.closing = H.closing
  BY ClosingMarks DEF HandlesFit
<1> HIDE DEF A
<1>2. /\ CountsItsHandles(R, Handles)
      /\ R.flags = A.flags /\ R.doomed = A.doomed
      /\ ToSet(R.closing) = ToSet(A.closing) \cup {h}
      /\ IsInjective(A.closing) /\ h \notin ToSet(A.closing) => IsInjective(R.closing)
  BY <1>1, PendingCounts DEF Marked
<1> HIDE DEF R
<1>3. /\ R.flags[h] = (H.flags[h] \cup {"closing"}) \ {"active"}
      /\ \A g \in Handles : g # h => R.flags[g] = H.flags[g]
      /\ R.doomed = H.doomed
  BY <1>1, <1>2 DEF Marked, IsActive
<1>4. h \notin ToSet(H.closing) /\ h \notin ToSet(H.doomed) /\ ~IsClosed(H, h)
  BY DEF HandlesFit, ListsFit, FlagsFit, IsClosing, IsUsable
<1>5. ToSet(R.closing) = ToSet(H.closing) \cup {h} /\ IsInjective(R.closing)
  BY <1>1, <1>2, <1>4 DEF HandlesFit, ListsFit
<1>6. FlagsFit(R, Handles)
  BY <1>3, <1>4 DEF HandlesFit, FlagsFit, IsClosed, IsUsable, IsActive
<1>7. ListsFit(R, Handles)
  BY <1>3, <1>4, <1>5 DEF HandlesFit, ListsFit, IsClosing, IsClosed
<1> QED BY <1>2, <1>3, <1>6, <1>7 DEF ClosesTo, HandlesFit, R, A

(* uv_fs_poll_stop(): the timer c is closed if it runs, h is stopped.      *)
Abandoned(H, c, h, R) ==
  /\ HandlesFit(R, Handles) /\ R.doomed = H.doomed
  /\ R.flags[h] = H.flags[h] \ {"active"}
  /\ R.flags[c] = IF IsActive(H, c) THEN (H.flags[c] \cup {"closing"}) \ {"active"}
                  ELSE H.flags[c]
  /\ \A g \in Handles : g # h /\ g # c => R.flags[g] = H.flags[g]

LEMMA HandleAbandons ==
  ASSUME NEW H, HandlesFit(H, Handles), NEW c \in Handles, NEW h \in Handles,
         c # h, IsUsable(H, c), NEW A, A = (IF IsActive(H, c) THEN CloseHandle(H, c) ELSE H),
         NEW R, R = Stopped(A, h)
  PROVE  Abandoned(H, c, h, R)
<1>1. CASE IsActive(H, c)
  <2>1. ClosesTo(H, c, A)
    BY <1>1, HandleCloses
  <2>2. FitsWith(A, Handles, h, A.flags[h] \ {"active"}, R)
    BY <2>1, StoppedFits DEF ClosesTo
  <2> QED BY <1>1, <2>1, <2>2 DEF ClosesTo, FitsWith, Abandoned
<1>2. CASE ~IsActive(H, c)
  <2>1. FitsWith(H, Handles, h, H.flags[h] \ {"active"}, R)
    BY <1>2, StoppedFits
  <2> QED BY <1>2, <2>1 DEF FitsWith, Abandoned
<1> QED BY <1>1, <1>2

LEMMA PollStopKeeps ==
  ASSUME WatchesInv, NEW h \in Polls, PollStop(h), UNCHANGED inotifyVars
  PROVE  WatchesInv'
<1>1. /\ UNCHANGED <<phase, frame, file, req, told>> /\ lastWd' = lastWd
      /\ Usable(h) /\ IsActive(hs, h) /\ NoLonger(h)
  BY DEF PollStop, Call, inotifyVars
<1>2. PICK c, A : /\ c = cur[h] /\ hs' = Stopped(A, h)
                  /\ A = IF IsActive(hs, c) THEN CloseHandle(hs, c) ELSE hs
  BY DEF PollStop, Abandon
<1>3. /\ c \in Ctxs /\ Polling(c, h) /\ IsUsable(hs, c)
      /\ c \in Handles /\ h \in Handles /\ c # h /\ HandlesFit(hs, Handles)
  BY <1>1, <1>2, PollHandles, ContextOfHandle DEF WatchesInv, TurnsInv, PollInv, PollFits, Polling
<1>4. /\ HandlesFit(hs', Handles) /\ hs'.doomed = hs.doomed
      /\ hs'.flags[h] = hs.flags[h] \ {"active"}
      /\ hs'.flags[c] = IF IsActive(hs, c) THEN (hs.flags[c] \cup {"closing"}) \ {"active"}
                        ELSE hs.flags[c]
      /\ \A g \in Handles : g # h /\ g # c => hs'.flags[g] = hs.flags[g]
  <2>1. Abandoned(hs, c, h, hs')
    BY <1>2, <1>3, HandleAbandons
  <2> QED BY <2>1 DEF Abandoned
<1>5. PollInv'
  <2>1. ~IsActive(hs, h)' /\ \A g \in Polls \cup Ctxs : g # h /\ g # c => hs'.flags[g] = hs.flags[g]
    BY <1>4, PollHandles DEF IsActive
  <2> QED BY <1>1, <1>2, <1>4, <2>1, LeaveKeeps
<1>6. FrameFits'
  <2>1. DOMAIN ctx' = DOMAIN ctx
    BY <1>1 DEF NoLonger
  <2> QED BY <1>1, <2>1, FrameKept DEF WatchesInv, TurnsInv
<1>7. \A g \in Watches : hs'.flags[g] = hs.flags[g]
  BY <1>3, <1>4, PollHandles
<1> QED BY <1>1, <1>4, <1>5, <1>6, <1>7, PollStepKeeps DEF InWalk

(* uv_close() of a poll handle that is active.                             *)
LEMMA ActiveCloses ==
  ASSUME NEW H, HandlesFit(H, Handles), NEW c \in Handles, NEW h \in Handles,
         c # h, IsUsable(H, c), IsUsable(H, h), NEW A, A = Closing(H, h), NEW R,
         R = MakeClosePending(Stopped(IF IsActive(A, c) THEN CloseHandle(A, c) ELSE A, h), h)
  PROVE  /\ HandlesFit(R, Handles) /\ R.doomed = H.doomed
         /\ R.flags[h] = (H.flags[h] \cup {"closing"}) \ {"active"}
         /\ R.flags[c] = IF IsActive(H, c) THEN (H.flags[c] \cup {"closing"}) \ {"active"}
                         ELSE H.flags[c]
         /\ \A g \in Handles : g # h /\ g # c => R.flags[g] = H.flags[g]
<1>1. IsActive(A, c) <=> IsActive(H, c)
  BY ClosingMarks DEF Marked, HandlesFit, IsActive
<1>2. CASE IsActive(H, c)
  <2>1. R = MakeClosePending(Stopped(CloseHandle(Closing(H, h), c), h), h)
    BY <1>1, <1>2
  <2>2. ClosesBoth(H, c, h, R)
    BY <2>1, HandlesClose
  <2> QED BY <1>2, <2>2 DEF ClosesBoth
<1>3. CASE ~IsActive(H, c)
  <2>1. R = CloseHandle(H, h)
    BY <1>1, <1>3 DEF CloseHandle
  <2>2. ClosesTo(H, h, R)
    BY <2>1, HandleCloses
  <2> QED BY <1>3, <2>2 DEF ClosesTo
<1> QED BY <1>2, <1>3

LEMMA PollCloseKeeps ==
  ASSUME WatchesInv, NEW h \in Polls, PollClose(h), UNCHANGED inotifyVars
  PROVE  WatchesInv'
<1>1. /\ UNCHANGED <<phase, frame, file, req, told>> /\ lastWd' = lastWd
      /\ IsUsable(hs, h) /\ h \in Handles /\ h \notin Ctxs /\ HandlesFit(hs, Handles)
  BY PollHandles DEF PollClose, Call, inotifyVars, Usable, WatchesInv, TurnsInv
<1>2. CASE IsActive(hs, h)
  <2>1. NoLonger(h)
    BY <1>2 DEF PollClose
  <2>2. PICK c, A : /\ c = cur[h] /\ A = Closing(hs, h)
                    /\ hs' = MakeClosePending(
                         Stopped(IF IsActive(A, c) THEN CloseHandle(A, c) ELSE A, h), h)
    BY <1>2 DEF PollClose, Abandon
  <2>3. /\ c \in Ctxs /\ Polling(c, h) /\ IsUsable(hs, c) /\ c \in Handles /\ c # h
    BY <1>2, <2>2, PollHandles, ContextOfHandle DEF WatchesInv, PollInv, PollFits, Polling
  <2>4. /\ HandlesFit(hs', Handles) /\ hs'.doomed = hs.doomed
        /\ hs'.flags[h] = (hs.flags[h] \cup {"closing"}) \ {"active"}
        /\ hs'.flags[c] = IF IsActive(hs, c) THEN (hs.flags[c] \cup {"closing"}) \ {"active"}
                          ELSE hs.flags[c]
        /\ \A g \in Handles : g # h /\ g # c => hs'.flags[g] = hs.flags[g]
    BY <1>1, <2>2, <2>3, ActiveCloses
  <2>5. PollInv'
    <3>1. /\ ~IsActive(hs, h)'
          /\ \A g \in Polls \cup Ctxs : g # h /\ g # c => hs'.flags[g] = hs.flags[g]
      BY <2>4, PollHandles DEF IsActive
    <3> QED BY <1>1, <1>2, <2>1, <2>2, <2>4, <3>1, LeaveKeeps
  <2>6. FrameFits'
    <3>1. DOMAIN ctx' = DOMAIN ctx
      BY <2>1 DEF NoLonger
    <3> QED BY <1>1, <3>1, FrameKept DEF WatchesInv, TurnsInv
  <2>7. \A g \in Watches : hs'.flags[g] = hs.flags[g]
    BY <2>3, <2>4, PollHandles
  <2> QED BY <1>1, <2>4, <2>5, <2>6, <2>7, PollStepKeeps DEF InWalk
<1>3. CASE ~IsActive(hs, h)
  <2>1. /\ hs' = MakeClosePending(Closing(hs, h), h) /\ cur' = cur /\ ctx' = ctx
    BY <1>3 DEF PollClose
  <2>2. ClosesTo(hs, h, hs')
    BY <1>1, <1>3, <2>1, InactiveCloses
  <2>3. /\ HandlesFit(hs', Handles) /\ hs'.doomed = hs.doomed /\ ~IsActive(hs, h)'
        /\ \A g \in Handles : g # h => hs'.flags[g] = hs.flags[g]
    BY <2>2 DEF ClosesTo, IsActive
  <2>4. FrameFits' /\ \A c : Called(c)' <=> Called(c)
    BY <1>1, <2>1, FrameKept DEF WatchesInv, TurnsInv
  <2>5. \A g \in Polls : IsActive(hs, g)' <=> IsActive(hs, g)
    BY <1>3, <2>3, PollHandles DEF IsActive
  <2>6. PollInv'
    <3>1. PollTypes'
      BY <1>1, <2>1 DEF WatchesInv, PollInv, PollTypes
    <3>2. \A c \in Ctxs : ContextFits(c)'
      <4> TAKE c \in Ctxs
      <4>1. hs'.flags[c] = hs.flags[c]
        BY <2>3, PollHandles
      <4> QED BY <1>1, <2>1, <2>4, <2>5, <4>1, ContextStays DEF WatchesInv, PollInv
    <3>3. (\A g \in Polls : PollFits(g)') /\ (\A c \in DOMAIN ctx' : ToldFits(c)')
      BY <1>1, <2>1, <2>4, <2>5 DEF WatchesInv, PollInv, PollFits, ToldFits, Known
    <3> QED BY <3>1, <3>2, <3>3 DEF PollInv
  <2>7. \A g \in Watches : hs'.flags[g] = hs.flags[g]
    BY <2>3, PollHandles
  <2> QED BY <1>1, <2>3, <2>4, <2>6, <2>7, PollStepKeeps DEF InWalk
<1> QED BY <1>2, <1>3

(* A step of one context, the handle of which goes on with it.             *)
LEMMA OneContext ==
  ASSUME PollInv, PollTypes', NEW c \in DOMAIN ctx, cur' = cur,
         DOMAIN ctx' = DOMAIN ctx, ctx'[c].parent = ctx[c].parent,
         \A x \in DOMAIN ctx : x # c => ctx'[x] = ctx[x],
         \A x \in Ctxs : x # c => req'[x] = req[x],
         \A x : x # c => ~Called(x) /\ ~Called(x)',
         \A g \in Polls \cup Ctxs : g # c => hs'.flags[g] = hs.flags[g],
         \A h \in Polls : h # ctx[c].parent => told'[h] = told[h],
         ContextFits(c)', ToldFits(c)'
  PROVE  PollInv'
<1>1. c \in Ctxs /\ PollTypes
  BY DEF PollInv, PollTypes
<1>2. \A h \in Polls : IsActive(hs, h)' <=> IsActive(hs, h)
  BY <1>1, PollHandles DEF IsActive
<1>3. ASSUME NEW x \in Ctxs, x # c PROVE ContextFits(x)'
  <2>1. /\ hs'.flags[x] = hs.flags[x] /\ (x \in DOMAIN ctx' <=> x \in DOMAIN ctx)
        /\ x \in DOMAIN ctx => ctx'[x].parent = ctx[x].parent
        /\ req'[x] = req[x] /\ ~Called(x) /\ ~Called(x)' /\ ContextFits(x)
    BY <1>3 DEF PollInv
  <2> QED BY <1>1, <1>2, <2>1, ContextStays
<1>4. ASSUME NEW h \in Polls PROVE PollFits(h)'
  <2>1. PollFits(h)
    BY DEF PollInv
  <2>2. CASE ~IsActive(hs, h)
    BY <1>2, <2>1, <2>2 DEF PollFits
  <2>3. CASE IsActive(hs, h)
    <3>1. cur[h] \in DOMAIN ctx /\ ctx[cur[h]].parent = h
      BY <2>1, <2>3 DEF PollFits
    <3>2. ctx'[cur[h]].parent = h
      BY <3>1
    <3> QED BY <1>2, <2>3, <3>1, <3>2 DEF PollFits
  <2> QED BY <2>2, <2>3
<1>5. ASSUME NEW x \in DOMAIN ctx', x # c PROVE ToldFits(x)'
  <2>1. x \in DOMAIN ctx /\ ctx'[x] = ctx[x] /\ ToldFits(x) /\ ~Called(x) /\ ~Called(x)'
    BY <1>5 DEF PollInv
  <2>2. ctx[x].parent # None =>
          ctx[x].parent \in Polls /\ ctx[x].parent # ctx[c].parent
    BY <1>5, <2>1, ContextOfHandle
  <2> QED BY <2>1, <2>2 DEF ToldFits, Known
<1> QED BY <1>3, <1>4, <1>5 DEF PollInv

LEMMA TimerFiresKeeps ==
  ASSUME WatchesInv, NEW c \in Ctxs, TimerFires(c), UNCHANGED inotifyVars
  PROVE  WatchesInv'
<1>1. /\ c \in DOMAIN ctx /\ IsActive(hs, c) /\ hs' = Stopped(hs, c)
      /\ req' = [req EXCEPT ![c] = "queued"] /\ frame = NoFrame
      /\ UNCHANGED <<phase, frame, file, cur, ctx, told>> /\ lastWd' = lastWd
  BY DEF TimerFires, Idle, inotifyVars
<1>2. /\ c \in Handles /\ HandlesFit(hs, Handles) /\ PollTypes
      /\ \A x : ~Called(x) /\ ~Called(x)'
  BY <1>1, PollHandles DEF WatchesInv, TurnsInv, PollInv, Called
<1>3. FitsWith(hs, Handles, c, hs.flags[c] \ {"active"}, hs')
  BY <1>1, <1>2, StoppedFits
<1>4. /\ HandlesFit(hs', Handles) /\ hs'.doomed = hs.doomed
      /\ hs'.flags[c] = hs.flags[c] \ {"active"}
      /\ \A g \in Handles : g # c => hs'.flags[g] = hs.flags[g]
  BY <1>3 DEF FitsWith
<1>5. ctx[c].parent # None /\ Polling(c, ctx[c].parent) /\ ctx[c].parent \in Polls
  BY <1>1, PollHandles, ContextOfHandle DEF WatchesInv, PollInv, ContextFits, IsLeft
<1>6. PollTypes'
  BY <1>1, <1>2 DEF PollTypes
<1>7. ContextFits(c)'
  <2>1. Polling(c, ctx[c].parent)'
    <3>1. /\ IsUsable(hs, c)' /\ ~IsClosed(hs, c)' /\ ~IsActive(hs, c)'
          /\ IsActive(hs, ctx[c].parent)'
      BY <1>1, <1>4, <1>5, PollHandles DEF Polling, IsUsable, IsClosed, IsActive
    <3>2. req'[c] = "queued"
      BY <1>1, <1>2 DEF PollTypes
    <3> QED BY <1>1, <1>2, <1>5, <3>1, <3>2 DEF Polling, ExactlyOne
  <2> QED BY <1>1, <1>5, <2>1 DEF ContextFits
<1>8. ToldFits(c)'
  BY <1>1, <1>2 DEF WatchesInv, PollInv, ToldFits, Known
<1>9. PollInv'
  <2>1. \A x \in Ctxs : x # c => req'[x] = req[x]
    BY <1>1, <1>2 DEF PollTypes
  <2>2. \A g \in Polls \cup Ctxs : g # c => hs'.flags[g] = hs.flags[g]
    BY <1>4, PollHandles
  <2> QED BY <1>1, <1>2, <1>6, <1>7, <1>8, <2>1, <2>2, OneContext DEF WatchesInv
<1>10. FrameFits'
  BY <1>1, FrameKept DEF WatchesInv, TurnsInv
<1>11. \A g \in Watches : hs'.flags[g] = hs.flags[g]
  BY <1>4, PollHandles
<1> QED BY <1>1, <1>4, <1>9, <1>10, <1>11, PollStepKeeps DEF InWalk

(* What poll_cb() keeps of a result is what the program was told.          *)
LEMMA NotedIsKnown ==
  ASSUME NEW x \in Contexts, NEW r \in Results
  PROVE  /\ Noted(x, r) \in Contexts /\ Noted(x, r).parent = x.parent
         /\ Noted(x, r).busy = "ok" => Noted(x, r).stat \in Contents
         /\ Known(Noted(x, r)) = r
<1>1. r \in Errors => r \notin {"no", "ok"}
  OBVIOUS
<1>2. CASE r \in Errors
  <2>1. Noted(x, r) = [x EXCEPT !.busy = r]
    BY <1>2 DEF Noted
  <2> QED BY <1>1, <1>2, <2>1 DEF Contexts, Busy, Known
<1>3. CASE r \notin Errors
  <2>1. Noted(x, r) = [x EXCEPT !.busy = "ok", !.stat = r] /\ r \in Contents
    BY <1>3 DEF Noted, Results
  <2> QED BY <2>1 DEF Contexts, Busy, Known
<1> QED BY <1>2, <1>3

(* poll_cb() is called for a context that is in use and has no timer.      *)
LEMMA AnsweredContext ==
  ASSUME WatchesInv, NEW c \in Ctxs, Answered(c)
  PROVE  /\ c \in DOMAIN ctx /\ req[c] \in Results /\ req[c] # "no" /\ frame = NoFrame
         /\ phase = "poll" /\ ctx[c] \in Contexts
         /\ \A x : ~Called(x)
         /\ UNCHANGED <<file, cur>>
         /\ req' = [req EXCEPT ![c] = "no"] /\ req'[c] = "no"
         /\ \A x \in Ctxs : x # c => req'[x] = req[x]
<1>1. req[c] \in Results /\ req[c] # "no" /\ frame = NoFrame /\ phase = "poll"
  BY DEF Answered, Idle, Results
<1>2. c \in DOMAIN ctx
  BY <1>1 DEF WatchesInv, PollInv, ContextFits, IsFree
<1> QED BY <1>1, <1>2 DEF Answered, Called, WatchesInv, PollInv, PollTypes

(* The end of poll_cb(), with the context x that it leaves: the timer goes *)
(* on or is closed, the request is answered, the program knows it.         *)
ContextGoesOn(c, x) ==
  /\ ctx' = [ctx EXCEPT ![c] = x]
  /\ x.parent = ctx[c].parent /\ (x.busy = "ok" => x.stat \in Contents)
  /\ hs' = IF x.parent = None THEN CloseHandle(hs, c) ELSE Started(hs, c)

RequestIsOver(c) ==
  /\ req[c] # "no" \/ Called(c)
  /\ \A y : y # c => ~Called(y)
  /\ req'[c] = "no" /\ \A y \in Ctxs : y # c => req'[y] = req[y]
  /\ req' \in [Ctxs -> Results \cup {"no", "queued"}]

ProgramKnows(x) ==
  /\ told' \in [Polls -> Results \cup {"no"}]
  /\ \A h \in Polls : h # x.parent => told'[h] = told[h]
  /\ x.parent # None => told'[x.parent] = Known(x)

LEMMA GoesOnKeeps ==
  ASSUME WatchesInv, NEW c \in DOMAIN ctx, NEW x \in Contexts,
         ContextGoesOn(c, x), RequestIsOver(c), ProgramKnows(x),
         UNCHANGED <<phase, file, cur>>, frame' = NoFrame, UNCHANGED inotifyVars
  PROVE  WatchesInv'
<1> USE DEF ContextGoesOn, RequestIsOver, ProgramKnows
<1>1. /\ c \in Ctxs /\ c \in Handles /\ HandlesFit(hs, Handles) /\ PollTypes
      /\ FrameFits /\ ContextFits(c)
  BY PollHandles DEF WatchesInv, TurnsInv, PollInv, PollTypes
<1>2. /\ DOMAIN ctx' = DOMAIN ctx /\ ctx'[c] = x
      /\ \A y \in DOMAIN ctx : y # c => ctx'[y] = ctx[y]
  OBVIOUS
<1>3. ~IsClosing(hs, c) /\ ~IsClosed(hs, c) /\ IsUsable(hs, c)
  BY <1>1 DEF ContextFits, IsLeft, Polling, ExactlyOne, IsUsable, IsClosing, IsClosed
<1>4. /\ HandlesFit(hs', Handles) /\ hs'.doomed = hs.doomed
      /\ hs'.flags[c] = IF x.parent = None THEN (hs.flags[c] \cup {"closing"}) \ {"active"}
                        ELSE hs.flags[c] \cup {"active"}
      /\ \A g \in Handles : g # c => hs'.flags[g] = hs.flags[g]
  <2>1. CASE x.parent = None
    <3>1. ClosesTo(hs, c, hs')
      BY <1>1, <1>3, <2>1, HandleCloses
    <3> QED BY <2>1, <3>1 DEF ClosesTo
  <2>2. CASE x.parent # None
    <3>1. FitsWith(hs, Handles, c, hs.flags[c] \cup {"active"}, hs')
      BY <1>1, <1>3, <2>2, StartedFits
    <3> QED BY <2>2, <3>1 DEF FitsWith
  <2> QED BY <2>1, <2>2
<1>5. PollTypes'
  BY <1>1, <1>2 DEF PollTypes
<1>6. \A y : ~Called(y)'
  BY DEF Called
<1>7. ContextFits(c)'
  <2>1. CASE x.parent = None
    <3>1. IsLeft(c)'
      BY <1>3, <1>4, <1>6, <2>1 DEF IsLeft, ExactlyOne, IsActive, IsClosed, IsClosing
    <3> QED BY <1>2, <2>1, <3>1 DEF ContextFits
  <2>2. CASE x.parent # None
    <3>1. Polling(c, x.parent) /\ x.parent \in Polls
      BY <1>1, <2>2 DEF ContextFits, Contexts
    <3>2. IsActive(hs, x.parent)'
      BY <1>1, <1>4, <3>1, PollHandles DEF Polling, IsActive
    <3>3. /\ IsUsable(hs, c)' /\ ~IsClosed(hs, c)' /\ IsActive(hs, c)'
      BY <1>3, <1>4, <2>2 DEF IsUsable, IsClosed, IsActive
    <3>4. Polling(c, x.parent)'
      BY <1>6, <3>1, <3>2, <3>3 DEF Polling, ExactlyOne
    <3> QED BY <1>2, <2>2, <3>4 DEF ContextFits
  <2> QED BY <2>1, <2>2
<1>8. ToldFits(c)'
  BY <1>2, <1>6 DEF ToldFits
<1>9. PollInv'
  <2>1. \A g \in Polls \cup Ctxs : g # c => hs'.flags[g] = hs.flags[g]
    BY <1>4, PollHandles
  <2> QED BY <1>2, <1>5, <1>6, <1>7, <1>8, <2>1, OneContext DEF WatchesInv
<1>10. FrameFits'
  BY DEF FrameFits
<1>11. \A g \in Watches : hs'.flags[g] = hs.flags[g]
  BY <1>1, <1>4, PollHandles
<1>12. ~InWalk'
  BY DEF InWalk
<1> QED BY <1>4, <1>9, <1>10, <1>11, <1>12, PollStepKeeps

LEMMA PollCbLateKeeps ==
  ASSUME WatchesInv, NEW c \in Ctxs, PollCbLate(c), UNCHANGED inotifyVars
  PROVE  WatchesInv'
<1>1. /\ c \in DOMAIN ctx /\ req[c] # "no" /\ frame = NoFrame /\ ctx[c] \in Contexts
      /\ \A x : ~Called(x)
      /\ UNCHANGED <<file, cur>> /\ req'[c] = "no"
      /\ req' = [req EXCEPT ![c] = "no"]
      /\ \A x \in Ctxs : x # c => req'[x] = req[x]
  BY AnsweredContext DEF PollCbLate
<1>2. /\ ctx[c].parent = None /\ hs' = CloseHandle(hs, c)
      /\ UNCHANGED <<phase, frame, ctx, told>> /\ PollTypes /\ ToldFits(c)
  BY <1>1 DEF PollCbLate, WatchesInv, PollInv
<1>3. /\ ctx' = [ctx EXCEPT ![c] = ctx[c]]
      /\ req' \in [Ctxs -> Results \cup {"no", "queued"}]
      /\ told' \in [Polls -> Results \cup {"no"}]
  BY <1>1, <1>2 DEF PollTypes
<1>4. ctx[c].busy = "ok" => ctx[c].stat \in Contents
  BY <1>2 DEF ToldFits
<1>5. RequestIsOver(c)
  BY <1>1, <1>3 DEF RequestIsOver
<1>6. ContextGoesOn(c, ctx[c])
  BY <1>2, <1>3, <1>4 DEF ContextGoesOn
<1>7. ProgramKnows(ctx[c])
  BY <1>2, <1>3 DEF ProgramKnows
<1>8. UNCHANGED <<phase, file, cur>> /\ frame' = NoFrame
  BY <1>1, <1>2
<1> QED BY <1>1, <1>5, <1>6, <1>7, <1>8, GoesOnKeeps

LEMMA PollCbSilentKeeps ==
  ASSUME WatchesInv, NEW c \in Ctxs, PollCbSilent(c), UNCHANGED inotifyVars
  PROVE  WatchesInv'
<1>1. /\ c \in DOMAIN ctx /\ req[c] # "no" /\ frame = NoFrame /\ ctx[c] \in Contexts
      /\ \A x : ~Called(x)
      /\ UNCHANGED <<file, cur>> /\ req'[c] = "no" /\ req[c] \in Results
      /\ req' = [req EXCEPT ![c] = "no"]
      /\ \A x \in Ctxs : x # c => req'[x] = req[x]
  BY AnsweredContext DEF PollCbSilent
<1>2. PICK x : x = Noted(ctx[c], req[c])
  OBVIOUS
<1>3. /\ x \in Contexts /\ x.parent = ctx[c].parent
      /\ x.busy = "ok" => x.stat \in Contents
      /\ Known(x) = req[c]
  BY <1>1, <1>2, NotedIsKnown
<1>4. /\ ctx[c].parent # None
      /\ hs' = IF x.parent = None THEN CloseHandle(hs, c) ELSE Started(hs, c)
      /\ ctx' = [ctx EXCEPT ![c] = x]
      /\ told' = [told EXCEPT ![ctx[c].parent] = req[c]]
      /\ UNCHANGED <<phase, frame>> /\ PollTypes
  BY <1>2 DEF PollCbSilent, Reschedule, WatchesInv, PollInv
<1>5. x.parent \in Polls
  BY <1>3, <1>4 DEF Contexts
<1>6. /\ req' \in [Ctxs -> Results \cup {"no", "queued"}]
      /\ told' \in [Polls -> Results \cup {"no"}]
      /\ told'[x.parent] = req[c]
      /\ \A h \in Polls : h # x.parent => told'[h] = told[h]
  BY <1>1, <1>3, <1>4, <1>5 DEF PollTypes
<1>7. RequestIsOver(c)
  BY <1>1, <1>6 DEF RequestIsOver
<1>8. ContextGoesOn(c, x)
  BY <1>3, <1>4 DEF ContextGoesOn
<1>9. ProgramKnows(x)
  BY <1>3, <1>6 DEF ProgramKnows
<1>10. UNCHANGED <<phase, file, cur>> /\ frame' = NoFrame
  BY <1>1, <1>4
<1> QED BY <1>1, <1>3, <1>7, <1>8, <1>9, <1>10, GoesOnKeeps

LEMMA PollCbReturnsKeeps ==
  ASSUME WatchesInv, NEW c \in Ctxs, PollCbReturns(c), UNCHANGED inotifyVars
  PROVE  WatchesInv'
<1>1. PICK x, r : x = Noted(ctx[c], r) /\ r = frame[3]
  OBVIOUS
<1>2. /\ Called(c) /\ frame' = NoFrame
      /\ hs' = IF x.parent = None THEN CloseHandle(hs, c) ELSE Started(hs, c)
      /\ ctx' = [ctx EXCEPT ![c] = x]
      /\ UNCHANGED <<phase, file, cur, req, told>> /\ PollTypes /\ FrameFits
  BY <1>1 DEF PollCbReturns, Goes, Reschedule, WatchesInv, TurnsInv, PollInv
<1>3. /\ c \in DOMAIN ctx /\ r \in Results /\ \A y : y # c => ~Called(y)
      /\ ctx[c] \in Contexts
  BY <1>1, <1>2, FrameOfCallback DEF PollTypes
<1>4. /\ x \in Contexts /\ x.parent = ctx[c].parent
      /\ x.busy = "ok" => x.stat \in Contents
      /\ Known(x) = r
  BY <1>1, <1>3, NotedIsKnown
<1>5. req'[c] = "no"
  BY <1>2, <1>3 DEF WatchesInv, PollInv, ContextFits, IsLeft, Polling, ExactlyOne
<1>6. x.parent # None => told'[x.parent] = Known(x)
  BY <1>1, <1>2, <1>3, <1>4 DEF WatchesInv, PollInv, ToldFits
<1>7. RequestIsOver(c)
  BY <1>2, <1>3, <1>5 DEF RequestIsOver, PollTypes
<1>8. ContextGoesOn(c, x)
  BY <1>2, <1>4 DEF ContextGoesOn
<1>9. ProgramKnows(x)
  BY <1>2, <1>6 DEF ProgramKnows, PollTypes
<1> QED BY <1>2, <1>3, <1>4, <1>7, <1>8, <1>9, GoesOnKeeps

LEMMA PollCbTellsKeeps ==
  ASSUME WatchesInv, NEW c \in Ctxs, PollCbTells(c), UNCHANGED inotifyVars
  PROVE  WatchesInv'
<1>1. /\ c \in DOMAIN ctx /\ req[c] # "no" /\ frame = NoFrame /\ ctx[c] \in Contexts
      /\ phase = "poll" /\ \A x : ~Called(x)
      /\ UNCHANGED <<file, cur>> /\ req'[c] = "no" /\ req[c] \in Results
      /\ req' = [req EXCEPT ![c] = "no"]
      /\ \A x \in Ctxs : x # c => req'[x] = req[x]
  BY AnsweredContext DEF PollCbTells
<1>2. /\ ctx[c].parent # None /\ UNCHANGED <<hs, ctx, phase>>
      /\ frame' = <<"poll_cb", c, req[c]>>
      /\ told' = [told EXCEPT ![ctx[c].parent] = req[c]]
      /\ PollTypes /\ ContextFits(c) /\ ToldFits(c) /\ lastWd' = lastWd
  BY <1>1 DEF PollCbTells, CallsBack, WatchesInv, PollInv, inotifyVars
<1>3. /\ Called(c)' /\ frame'[3] = req[c] /\ frame'[1] = "poll_cb"
      /\ \A x : x # c => ~Called(x)'
  BY <1>2 DEF Called, NoFrame
<1>4. PollTypes'
  BY <1>1, <1>2 DEF PollTypes
<1>5. ContextFits(c)'
  <2>1. Polling(c, ctx[c].parent)
    BY <1>1, <1>2 DEF ContextFits
  <2>2. Polling(c, ctx[c].parent)'
    BY <1>1, <1>2, <1>3, <2>1 DEF Polling, ExactlyOne, IsActive, IsUsable, IsClosed
  <2> QED BY <1>1, <1>2, <2>2 DEF ContextFits
<1>6. ToldFits(c)'
  <2>1. ctx[c].parent \in Polls
    BY <1>1, <1>2 DEF Contexts
  <2>2. told'[ctx[c].parent] = req[c]
    BY <1>2, <2>1 DEF PollTypes
  <2> QED BY <1>2, <1>3, <2>2 DEF ToldFits
<1>7. PollInv'
  <2>1. \A h \in Polls : h # ctx[c].parent => told'[h] = told[h]
    BY <1>2 DEF PollTypes
  <2> QED BY <1>1, <1>2, <1>3, <1>4, <1>5, <1>6, <2>1, OneContext DEF WatchesInv
<1>8. FrameFits'
  BY <1>1, <1>2 DEF FrameFits, TellsOf
<1>9. ~InWalk'
  BY <1>3 DEF InWalk
<1> QED BY <1>2, <1>7, <1>8, <1>9, PollStepKeeps DEF WatchesInv, TurnsInv

-----------------------------------------------------------------------------
(* The order in a queue.                                                   *)
Follows(Q, q, n) ==
  \E i \in 1..Len(Q) : Q[i] = q /\ n = IF i = Len(Q) THEN None ELSE Q[i + 1]

LEMMA FollowerIsNext ==
  ASSUME NEW S, NEW Q \in Seq(S), None \notin S, IsInjective(Q), NEW q, NEW n,
         Follows(Q, q, n)
  PROVE  /\ n # None => n \in ToSet(Q) /\ n # q
         /\ \A g : After(Q, q, g) => n # None /\ (g = n \/ After(Q, n, g))
<1>1. /\ DOMAIN Q = 1..Len(Q) /\ Len(Q) \in Nat
      /\ \A i \in 1..Len(Q) : Q[i] \in S /\ Q[i] # None
  BY LenProperties, ElementOfSeq
<1>2. PICK i \in 1..Len(Q) : Q[i] = q /\ n = IF i = Len(Q) THEN None ELSE Q[i + 1]
  BY DEF Follows
<1>3. \A j \in 1..Len(Q) : Q[j] = q => j = i
  BY <1>1, <1>2 DEF IsInjective
<1>4. n # None => i + 1 \in 1..Len(Q) /\ n = Q[i + 1]
  <2>1. i \in 1..Len(Q) /\ Len(Q) \in Nat
    BY <1>1
  <2>2. i # Len(Q) => i + 1 \in 1..Len(Q)
    BY <2>1
  <2> QED BY <1>2, <2>2
<1>5. n # None => n \in ToSet(Q) /\ n # q
  BY <1>1, <1>3, <1>4 DEF ToSet
<1>6. ASSUME NEW g, After(Q, q, g) PROVE n # None /\ (g = n \/ After(Q, n, g))
  <2>1. PICK a, b \in 1..Len(Q) : a < b /\ Q[a] = q /\ Q[b] = g
    BY <1>6 DEF After
  <2>2. a = i
    BY <1>3, <2>1
  <2>3. i # Len(Q) /\ i + 1 \in 1..Len(Q)
    <3>1. Len(Q) \in Nat /\ a \in 1..Len(Q) /\ b \in 1..Len(Q) /\ a < b
      BY <1>1, <2>1
    <3>2. a # Len(Q) /\ a + 1 \in 1..Len(Q)
      BY <3>1
    <3> QED BY <2>2, <3>2
  <2>4. n = Q[i + 1] /\ n # None
    BY <1>1, <1>2, <2>3
  <2>5. CASE b = i + 1
    BY <2>1, <2>4, <2>5
  <2>6. CASE b # i + 1
    <3>1. i + 1 < b
      BY <2>1, <2>2, <2>6
    <3>2. After(Q, n, g)
      BY <2>1, <2>3, <2>4, <3>1 DEF After
    <3> QED BY <2>4, <3>2
  <2> QED BY <2>5, <2>6
<1> QED BY <1>5, <1>6

LEMMA AfterAppended ==
  ASSUME NEW S, NEW Q \in Seq(S), NEW x \in S, NEW g, NEW h, After(Q, g, h)
  PROVE  After(Append(Q, x), g, h)
<1> DEFINE R == Append(Q, x)
<1>1. /\ Len(Q) \in Nat /\ Len(R) = Len(Q) + 1 /\ \A i \in 1..Len(Q) : R[i] = Q[i]
  BY AppendProperties, LenProperties
<1> HIDE DEF R
<1>2. PICK a, b \in 1..Len(Q) : a < b /\ Q[a] = g /\ Q[b] = h
  BY DEF After
<1>3. a \in 1..Len(R) /\ b \in 1..Len(R)
  BY <1>1
<1>4. After(R, g, h)
  BY <1>1, <1>2, <1>3 DEF After
<1> QED BY <1>4 DEF R

LEMMA AfterRemoved ==
  ASSUME NEW S, NEW Q \in Seq(S), NEW t \in ToSet(Q), NEW g, NEW h, g # t, h # t,
         After(Q, g, h)
  PROVE  After(RemoveFirst(Q, t), g, h)
<1>1. PICK k \in 1..Len(Q) : Q[k] = t /\ RemoveFirst(Q, t) = RemoveAt(Q, k)
  BY RemoveFirstAt
<1> DEFINE R == RemoveAt(Q, k)
<1>2. /\ Len(Q) \in Nat /\ Len(R) = Len(Q) - 1
      /\ \A i \in 1..Len(Q) - 1 : R[i] = IF i < k THEN Q[i] ELSE Q[i + 1]
  BY RemoveAtPositions, LenProperties
<1> HIDE DEF R
<1>3. PICK a, b \in 1..Len(Q) : a < b /\ Q[a] = g /\ Q[b] = h
  BY DEF After
<1>4. a # k /\ b # k
  BY <1>1, <1>3
<1>5. ASSUME NEW j \in 1..Len(Q), j # k
      PROVE  LET m == IF j < k THEN j ELSE j - 1
             IN m \in 1..Len(R) /\ R[m] = Q[j]
  <2>1. CASE j < k
    BY <1>2, <2>1
  <2>2. CASE ~(j < k)
    <3>1. j - 1 \in 1..Len(Q) - 1 /\ ~(j - 1 < k) /\ (j - 1) + 1 = j
      BY <1>2, <1>5, <2>2
    <3>2. R[j - 1] = Q[j]
      BY <1>2, <3>1
    <3> QED BY <1>2, <2>2, <3>1, <3>2
  <2> QED BY <2>1, <2>2
<1>6. PICK c, d \in 1..Len(R) : c < d /\ R[c] = g /\ R[d] = h
  <2> DEFINE c == IF a < k THEN a ELSE a - 1
             d == IF b < k THEN b ELSE b - 1
  <2>1. c \in 1..Len(R) /\ R[c] = Q[a] /\ d \in 1..Len(R) /\ R[d] = Q[b]
    BY <1>4, <1>5
  <2>2. c < d
    BY <1>3, <1>4
  <2> QED BY <1>3, <2>1, <2>2
<1>7. After(R, g, h)
  BY <1>6 DEF After
<1> QED BY <1>1, <1>7 DEF R

(* A handle that watches is in its queue, before the one that follows it.  *)
LEMMA WatcherIsInQueue ==
  ASSUME WatchInv, NEW q \in Watches, wd[q] # None
  PROVE  /\ wd[q] \in DOMAIN lists /\ lists[wd[q]] \in Seq(Watches)
         /\ q \in ToSet(lists[wd[q]]) /\ IsInjective(lists[wd[q]])
         /\ Follows(lists[wd[q]], q, Successor(q))
         /\ Successor(q) # None => Successor(q) \in Watches /\ wd[Successor(q)] = wd[q]
<1> DEFINE d == wd[q]
           Q == lists[d]
<1>1. /\ d \in DOMAIN lists /\ Q \in Seq(Watches) /\ IsInjective(Q)
      /\ q \in ToSet(Q)
  BY DEF WatchInv, WatchTypes, ListsAgree
<1>2. DOMAIN Q = 1..Len(Q)
  BY <1>1, LenProperties
<1> DEFINE i == CHOOSE j \in DOMAIN Q : Q[j] = q
<1>3. \E j \in DOMAIN Q : Q[j] = q
  BY <1>1 DEF ToSet
<1>4. i \in 1..Len(Q) /\ Q[i] = q
  BY <1>2, <1>3
<1>5. Successor(q) = IF i = Len(Q) THEN None ELSE Q[i + 1]
  BY DEF Successor
<1> HIDE DEF i, Q, d
<1>6. Follows(Q, q, Successor(q))
  BY <1>4, <1>5 DEF Follows
<1>7. Successor(q) # None => Successor(q) \in ToSet(Q)
  BY <1>1, <1>6, FollowerIsNext
<1>8. \A g \in ToSet(Q) : g \in Watches
  BY <1>1, QueueElements
<1>9. Successor(q) # None => Successor(q) \in Watches /\ wd[Successor(q)] = d
  BY <1>1, <1>7, <1>8 DEF WatchInv, ListsAgree, Q
<1> QED BY <1>1, <1>6, <1>9 DEF Q, d

-----------------------------------------------------------------------------
(* The steps of inotify.c.                                                 *)
LEMMA WatchStepKeeps ==
  ASSUME WatchesInv, WatchInv', HandlesFit(hs', Handles), hs'.doomed = hs.doomed,
         phase' = phase, FrameFits', UNCHANGED pollVars,
         \A h \in Polls \cup Ctxs : hs'.flags[h] = hs.flags[h],
         \A c : ~(Called(c) /\ frame' # frame) /\ (Called(c)' <=> Called(c))
  PROVE  WatchesInv'
<1>1. TurnsInv'
  BY DEF WatchesInv, TurnsInv
<1>2. PollInv'
  BY PollsAreKept DEF WatchesInv
<1> QED BY <1>1, <1>2 DEF WatchesInv

(* Steps that leave the queues and the walk over them alone.               *)
LEMMA WalkIsKept ==
  ASSUME WatchInv, UNCHANGED <<hs, frame, lists, wd, link>>
  PROVE  ~Pairs /\ InWalk' => WalkFits(frame[2], frame[3], frame[4])'
BY DEF WatchInv, InWalk, WalkFits, AtHandle, AtClosed, IsClosing, NoFrame

LEMMA OutsideKeeps ==
  ASSUME WatchesInv, NEW p \in Paths, FileChanges(p) \/ FileGoes(p) \/ FileComes(p),
         UNCHANGED pollVars
  PROVE  WatchesInv'
<1>1. /\ UNCHANGED <<hs, phase, frame, lists, wd, link, lastWd>> /\ WatchInv
      /\ ctx' = ctx
  BY DEF FileChanges, FileGoes, FileComes, Happens, turnVars, WatchesInv, pollVars
<1>2. /\ WatchTypes /\ ListsAgree
      /\ watch[p] # None => watch[p] \in 1..lastWd
  BY <1>1 DEF WatchInv, WatchTypes
<1>3. /\ watch' \in [Paths -> 1..lastWd \cup {None}]
      /\ \A r \in Paths : watch'[r] # None => watch'[r] = watch[r]
  BY <1>2 DEF FileChanges, FileGoes, FileComes, WatchTypes
<1>4. events' \in Seq(1..lastWd)
  <2>1. PICK a : a = watch[p]
    OBVIOUS
  <2>2. events \in Seq(1..lastWd)
    BY <1>2 DEF WatchTypes
  <2>3. a # None => Append(events, a) \in Seq(1..lastWd)
    BY <1>2, <2>1, <2>2, AppendProperties
  <2>4. a # None => <<a, a>> \in Seq(1..lastWd)
    BY <1>2, <2>1
  <2>5. a # None => events \o <<a, a>> \in Seq(1..lastWd)
    BY <2>2, <2>4, ConcatProperties
  <2>6. \/ events' = events
        \/ a # None /\ events' \in {Append(events, a), events \o <<a, a>>}
    BY <2>1 DEF FileChanges, FileGoes, FileComes
  <2> QED BY <2>2, <2>3, <2>5, <2>6
<1>5. WatchTypes' /\ ListsAgree'
  BY <1>1, <1>2, <1>3, <1>4 DEF WatchTypes, ListsAgree, IsActive
<1>6. WatchInv'
  BY <1>1, <1>5, WalkIsKept DEF WatchInv, IsActive, Usable, IsUsable
<1>7. FrameFits' /\ \A c : Called(c)' <=> Called(c)
  BY <1>1, FrameKept DEF WatchesInv, TurnsInv
<1> QED BY <1>1, <1>6, <1>7, WatchStepKeeps DEF WatchesInv, TurnsInv

LEMMA WatchFileKeeps ==
  ASSUME WatchesInv, NEW h \in Watches, NEW p \in Paths, WatchFile(h, p), UNCHANGED pollVars
  PROVE  WatchesInv'
<1>1. /\ UNCHANGED <<phase, frame, exists, events, seen, link, ctx>>
      /\ Reusable(h) /\ hs' = Started(Initialized(hs, h), h)
      /\ WatchInv /\ WatchTypes /\ ListsAgree /\ HandlesFit(hs, Handles) /\ FrameFits
      /\ h \in Handles /\ h \notin Polls /\ h \notin Ctxs
  BY DEF WatchFile, Call, WatchesInv, TurnsInv, WatchInv, pollVars
<1>2. /\ \/ watch[p] # None /\ UNCHANGED <<watch, lastWd>>
         \/ watch[p] = None /\ lastWd' = lastWd + 1 /\ watch' = [watch EXCEPT ![p] = lastWd']
  BY DEF WatchFile
<1>3. PICK d : d = watch'[p]
  OBVIOUS
<1>4. /\ lists' = [e \in DOMAIN lists \cup {d} |->
                     IF e # d THEN lists[e]
                     ELSE IF d \in DOMAIN lists THEN Append(lists[d], h) ELSE <<h>>]
      /\ wd' = [wd EXCEPT ![h] = d]
  BY <1>3 DEF WatchFile
<1>5. /\ lastWd \in Nat /\ lastWd' \in Nat /\ lastWd <= lastWd'
      /\ 1..lastWd \subseteq 1..lastWd' /\ d \in 1..lastWd'
      /\ watch' \in [Paths -> 1..lastWd' \cup {None}]
      /\ \A r \in Paths : watch'[r] # None => watch'[r] = d \/ watch'[r] = watch[r]
  <2>1. lastWd \in Nat /\ watch \in [Paths -> 1..lastWd \cup {None}]
    BY <1>1 DEF WatchTypes
  <2>2. CASE watch[p] # None /\ UNCHANGED <<watch, lastWd>>
    BY <1>3, <2>1, <2>2
  <2>3. CASE watch[p] = None /\ lastWd' = lastWd + 1 /\ watch' = [watch EXCEPT ![p] = lastWd']
    <3>1. /\ lastWd' \in Nat /\ lastWd <= lastWd' /\ lastWd' \in 1..lastWd'
          /\ \A x \in 1..lastWd : x \in 1..lastWd'
      BY <2>1, <2>3
    <3> QED BY <1>3, <2>1, <2>3, <3>1
  <2> QED BY <1>2, <2>2, <2>3
<1>6. /\ ~IsActive(hs, h) /\ ~IsClosing(hs, h) /\ "ref" \notin hs.flags[h]
  BY <1>1 DEF HandlesFit, FlagsFit, Reusable, IsActive, IsClosing, IsUsable, IsClosed
<1>7. /\ HandlesFit(hs', Handles) /\ hs'.doomed = hs.doomed
      /\ hs'.flags[h] = {"ref", "active"}
      /\ \A g \in Handles : g # h => hs'.flags[g] = hs.flags[g]
  <2> DEFINE A == Initialized(hs, h)
  <2>1. FitsWith(hs, Handles, h, {"ref"}, A)
    BY <1>1, <1>6, InitializedFits
  <2>2. hs' = Started(A, h)
    BY <1>1
  <2> HIDE DEF A
  <2>3. FitsWith(A, Handles, h, A.flags[h] \cup {"active"}, Started(A, h))
    BY <1>1, <2>1, StartedFits DEF FitsWith, IsUsable
  <2>4. FitsWith(A, Handles, h, A.flags[h] \cup {"active"}, hs')
    BY <2>2, <2>3
  <2> QED BY <2>1, <2>4 DEF FitsWith
<1>8. wd[h] = None /\ \A e \in DOMAIN lists : h \notin ToSet(lists[e])
  <2>1. wd[h] = None
    BY <1>1, <1>6 DEF ListsAgree
  <2>2. \A e \in DOMAIN lists : e # None
    BY <1>1, <1>5 DEF WatchTypes
  <2> QED BY <1>1, <2>1, <2>2 DEF ListsAgree
<1>9. /\ DOMAIN lists' = DOMAIN lists \cup {d}
      /\ \A e \in DOMAIN lists : e # d => lists'[e] = lists[e]
      /\ lists'[d] \in Seq(Watches) /\ lists'[d] # <<>> /\ IsInjective(lists'[d])
      /\ d \in DOMAIN lists => /\ lists'[d] = Append(lists[d], h)
                               /\ ToSet(lists'[d]) = ToSet(lists[d]) \cup {h}
      /\ d \notin DOMAIN lists => ToSet(lists'[d]) = {h}
  <2>1. CASE d \in DOMAIN lists
    <3>1. lists'[d] = Append(lists[d], h) /\ lists[d] \in Seq(Watches) /\ IsInjective(lists[d])
      BY <1>1, <1>4, <2>1 DEF WatchTypes, ListsAgree
    <3>2. /\ lists'[d] \in Seq(Watches) /\ ToSet(lists'[d]) = ToSet(lists[d]) \cup {h}
          /\ IsInjective(lists'[d])
      BY <1>8, <2>1, <3>1, AppendElements
    <3>3. lists'[d] # <<>>
      BY <3>2, QueueElements
    <3> QED BY <1>4, <2>1, <3>1, <3>2, <3>3
  <2>2. CASE d \notin DOMAIN lists
    <3>1. lists'[d] = <<h>>
      BY <1>4, <2>2
    <3>2. <<h>> \in Seq(Watches) /\ <<h>> # <<>> /\ IsInjective(<<h>>) /\ ToSet(<<h>>) = {h}
      BY DEF IsInjective, ToSet
    <3> QED BY <1>4, <2>2, <3>1, <3>2
  <2> QED BY <2>1, <2>2
<1>10. wd'[h] = d /\ \A g \in Watches : g # h => wd'[g] = wd[g]
  BY <1>1, <1>4 DEF WatchTypes
<1>11. WatchTypes'
  <2>1. events' \in Seq(1..lastWd')
    <3>1. events \in Seq(1..lastWd) /\ 1..lastWd \subseteq 1..lastWd'
      BY <1>1, <1>5 DEF WatchTypes
    <3>2. events \in Seq(1..lastWd')
      BY <3>1, SeqMonotonic
    <3> QED BY <1>1, <3>2
  <2>2. DOMAIN lists' \subseteq 1..lastWd' /\ lists' \in [DOMAIN lists' -> Seq(Watches)]
    <3>1. \A e \in DOMAIN lists' : e \in 1..lastWd' /\ lists'[e] \in Seq(Watches)
      BY <1>1, <1>5, <1>9 DEF WatchTypes
    <3>2. lists' = [e \in DOMAIN lists' |-> lists'[e]]
      BY <1>4
    <3> QED BY <3>1, <3>2
  <2>3. wd' \in [Watches -> DOMAIN lists' \cup {None}]
    BY <1>1, <1>4, <1>9 DEF WatchTypes
  <2> QED BY <1>1, <1>5, <2>1, <2>2, <2>3 DEF WatchTypes
<1>12. /\ IsActive(hs, h)' /\ Usable(h)'
       /\ \A g \in Watches : g # h =>
            /\ IsActive(hs, g)' <=> IsActive(hs, g)
            /\ Usable(g)' <=> Usable(g)
            /\ IsClosing(hs, g)' <=> IsClosing(hs, g)
  BY <1>7, SameFlags DEF IsActive, Usable, IsUsable
<1>13. ListsAgree'
  <2>1. ASSUME NEW g \in Watches PROVE IsActive(hs, g)' <=> wd'[g] # None
    BY <1>1, <1>5, <1>10, <1>12 DEF ListsAgree
  <2>2. ASSUME NEW g \in Watches, NEW e \in DOMAIN lists'
        PROVE  g \in ToSet(lists'[e]) <=> e = wd'[g]
    <3>1. CASE e = d /\ d \in DOMAIN lists
      BY <1>1, <1>9, <1>10, <3>1 DEF ListsAgree
    <3>2. CASE e = d /\ d \notin DOMAIN lists
      <4>1. \A x \in Watches : wd[x] # d
        BY <1>1, <1>5, <3>2 DEF WatchTypes
      <4> QED BY <1>9, <1>10, <3>2, <4>1
    <3>3. CASE e # d
      <4>1. e \in DOMAIN lists /\ lists'[e] = lists[e]
        BY <1>9, <2>2, <3>3
      <4> QED BY <1>1, <1>8, <1>10, <3>3, <4>1 DEF ListsAgree
    <3> QED BY <3>1, <3>2, <3>3
  <2>3. \A e \in DOMAIN lists' : lists'[e] # <<>> /\ IsInjective(lists'[e])
    BY <1>1, <1>9 DEF ListsAgree
  <2>4. \A r \in Paths : watch'[r] # None => watch'[r] \in DOMAIN lists'
    BY <1>1, <1>5, <1>9 DEF ListsAgree
  <2> QED BY <2>1, <2>2, <2>3, <2>4 DEF ListsAgree
<1>14. ASSUME ~Pairs, InWalk' PROVE WalkFits(frame[2], frame[3], frame[4])'
  <2>1. PICK e, q, due : e = frame[2] /\ q = frame[3] /\ due = frame[4]
    OBVIOUS
  <2>2. /\ WalkFits(e, q, due) /\ q \in Watches /\ due \in SUBSET Watches
    BY <1>1, <1>14, <2>1, FrameOfWalk DEF WatchInv, InWalk
  <2>3. e # None /\ e \in 1..lastWd
    BY <1>1, <1>5, <1>14, <2>1, FrameOfWalk DEF InWalk
  <2>4. h \notin due \cup {q}
    BY <1>6, <1>8, <2>2, <2>3 DEF WalkFits
  <2>5. \A x \in due \cup {q} : wd'[x] = wd[x] /\ (IsClosing(hs, x)' <=> IsClosing(hs, x))
    BY <1>10, <1>12, <2>2, <2>4
  <2>6. ASSUME NEW g, NEW x, wd[q] = e \/ (link[q] # None /\ wd[link[q]] = e),
               After(lists[e], g, x)
        PROVE  After(lists'[e], g, x)
    <3>1. e \in DOMAIN lists /\ lists[e] \in Seq(Watches)
      BY <1>1, <2>2, <2>3, <2>6 DEF WatchTypes
    <3>2. CASE e = d
      <4>1. After(Append(lists[e], h), g, x)
        BY <2>6, <3>1, AfterAppended
      <4> QED BY <1>9, <3>1, <3>2, <4>1
    <3>3. CASE e # d
      BY <1>9, <2>6, <3>1, <3>3
    <3> QED BY <3>2, <3>3
  <2>7. link[q] # None /\ wd[link[q]] = e => link[q] # h /\ wd'[link[q]] = e
    BY <1>1, <1>8, <1>10, <2>2, <2>3 DEF WatchTypes
  <2>8. CASE AtHandle(e, q, due)
    <3>1. AtHandle(e, q, due)'
      BY <2>5, <2>6, <2>8 DEF AtHandle
    <3> QED BY <1>1, <2>1, <2>2, <2>5, <3>1 DEF WalkFits
  <2>9. CASE AtClosed(e, q, due)
    <3>1. AtClosed(e, q, due)'
      BY <1>1, <2>5, <2>6, <2>7, <2>9 DEF AtClosed
    <3> QED BY <1>1, <2>1, <2>2, <2>5, <3>1 DEF WalkFits
  <2> QED BY <2>2, <2>8, <2>9 DEF WalkFits
<1>15. WatchInv'
  <2>1. \A g \in Watches : IsActive(hs, g)' <=> Usable(g)'
    BY <1>1, <1>12 DEF WatchInv
  <2> QED BY <1>11, <1>13, <1>14, <2>1 DEF WatchInv
<1>16. FrameFits' /\ \A c : Called(c)' <=> Called(c)
  <2>1. FrameFits'
    BY <1>1, <1>5 DEF FrameFits, TellsOf, WalksAt, NoFrame
  <2> QED BY <1>1, <2>1 DEF Called
<1>17. \A g \in Polls \cup Ctxs : hs'.flags[g] = hs.flags[g]
  BY <1>1, <1>7, PollHandles
<1> QED BY <1>1, <1>7, <1>15, <1>16, <1>17, WatchStepKeeps

(* A handle leaves its queue, and the watch goes with the last one.        *)
TakenOut(h, d) ==
  /\ d \in DOMAIN lists /\ lists[d] \in Seq(Watches)
  /\ watch' \in [Paths -> 1..lastWd \cup {None}] /\ events' \in Seq(1..lastWd)
  /\ DOMAIN lists' \subseteq DOMAIN lists /\ lists' \in [DOMAIN lists' -> Seq(Watches)]
  /\ \A e \in DOMAIN lists : e # d => e \in DOMAIN lists' /\ lists'[e] = lists[e]
  /\ d \in DOMAIN lists' =>
       /\ lists'[d] = RemoveFirst(lists[d], h) /\ lists'[d] # <<>>
       /\ IsInjective(lists'[d]) /\ ToSet(lists'[d]) = ToSet(lists[d]) \ {h}
  /\ \A g \in Watches : wd'[g] = d => d \in DOMAIN lists'
  /\ \A p \in Paths : watch'[p] # None => watch'[p] \in DOMAIN lists'

LEMMA HandleIsTakenOut ==
  ASSUME WatchInv, NEW h \in Watches, NEW d, d = wd[h], d # None, TakeOut(h),
         wd' = [wd EXCEPT ![h] = None], lastWd' = lastWd
  PROVE  TakenOut(h, d)
<1> DEFINE R == RemoveFirst(lists[d], h)
<1>1. /\ d \in DOMAIN lists /\ lists[d] \in Seq(Watches) /\ IsInjective(lists[d])
      /\ WatchTypes /\ ListsAgree
  BY WatcherIsInQueue DEF WatchInv
<1>2. R \in Seq(Watches) /\ IsInjective(R) /\ ToSet(R) = ToSet(lists[d]) \ {h}
  BY <1>1, RemoveFirstElements
<1>3. /\ wd \in [Watches -> DOMAIN lists \cup {None}] /\ wd'[h] = None
      /\ \A g \in Watches : g # h => wd'[g] = wd[g]
  BY <1>1 DEF WatchTypes
<1>4. \A g \in Watches : wd'[g] = d => g # h /\ g \in ToSet(R)
  BY <1>1, <1>2, <1>3 DEF ListsAgree
<1>5. d \in 1..lastWd
  BY <1>1 DEF WatchTypes
<1>6. TakeOut(h) <=>
        IF R # <<>>
        THEN lists' = [lists EXCEPT ![d] = R] /\ UNCHANGED <<watch, events>>
        ELSE /\ lists' = Restrict(lists, DOMAIN lists \ {d})
             /\ watch' = [p \in Paths |-> IF watch[p] = d THEN None ELSE watch[p]]
             /\ events' = IF watch' = watch THEN events ELSE Append(events, d)
  BY DEF TakeOut
<1> HIDE DEF R
<1>7. CASE R # <<>>
  <2>1. lists' = [lists EXCEPT ![d] = R] /\ watch' = watch /\ events' = events
    BY <1>6, <1>7
  <2>2. /\ DOMAIN lists' = DOMAIN lists /\ lists'[d] = R
        /\ \A e \in DOMAIN lists : e # d => lists'[e] = lists[e]
        /\ lists' \in [DOMAIN lists -> Seq(Watches)]
    BY <1>1, <1>2, <2>1 DEF WatchTypes
  <2> QED BY <1>1, <1>2, <1>7, <2>1, <2>2 DEF WatchTypes, ListsAgree, R, TakenOut
<1>8. CASE R = <<>>
  <2>1. /\ lists' = [e \in DOMAIN lists \ {d} |-> lists[e]]
        /\ watch' = [p \in Paths |-> IF watch[p] = d THEN None ELSE watch[p]]
        /\ events' \in {events, Append(events, d)}
    BY <1>6, <1>8 DEF Restrict
  <2>2. \A g \in Watches : wd'[g] # d
    BY <1>4, <1>8, <1>2, QueueElements
  <2>3. events' \in Seq(1..lastWd)
    <3>1. events \in Seq(1..lastWd)
      BY <1>1 DEF WatchTypes
    <3>2. Append(events, d) \in Seq(1..lastWd)
      BY <1>5, <3>1, AppendProperties
    <3> QED BY <2>1, <3>1, <3>2
  <2>4. /\ watch' \in [Paths -> 1..lastWd \cup {None}]
        /\ \A p \in Paths : watch'[p] # None => watch'[p] = watch[p] /\ watch[p] # d
    BY <1>1, <2>1 DEF WatchTypes
  <2>5. /\ DOMAIN lists' = DOMAIN lists \ {d}
        /\ \A e \in DOMAIN lists : e # d => lists'[e] = lists[e]
        /\ lists' \in [DOMAIN lists' -> Seq(Watches)]
    BY <1>1, <2>1 DEF WatchTypes
  <2>6. \A p \in Paths : watch'[p] # None => watch'[p] \in DOMAIN lists'
    BY <1>1, <2>4, <2>5 DEF ListsAgree
  <2> QED BY <1>1, <2>2, <2>3, <2>4, <2>5, <2>6 DEF TakenOut
<1> QED BY <1>7, <1>8

LEMMA WatchCloseKeeps ==
  ASSUME WatchesInv, NEW h \in Watches, WatchClose(h), UNCHANGED pollVars
  PROVE  WatchesInv'
<1>1. /\ UNCHANGED <<phase, frame, lastWd, ctx>>
      /\ IsUsable(hs, h) /\ Usable(h) /\ hs' = CloseHandle(hs, h) /\ TakeOut(h)
      /\ wd' = [wd EXCEPT ![h] = None]
      /\ link' = [link EXCEPT ![h] = Successor(h)]
      /\ WatchInv /\ WatchTypes /\ ListsAgree /\ HandlesFit(hs, Handles) /\ FrameFits
      /\ h \in Handles /\ h \notin Polls /\ h \notin Ctxs
  BY DEF WatchClose, Call, Usable, WatchesInv, TurnsInv, WatchInv, pollVars
<1>2. ClosesTo(hs, h, hs')
  BY <1>1, HandleCloses
<1>3. /\ HandlesFit(hs', Handles) /\ hs'.doomed = hs.doomed
      /\ ~IsActive(hs, h)' /\ ~Usable(h)' /\ IsClosing(hs, h)'
      /\ \A g \in Handles : g # h => hs'.flags[g] = hs.flags[g]
  BY <1>1, <1>2 DEF ClosesTo, IsActive, Usable, IsUsable, IsClosing, HandlesFit, FlagsFit,
     IsClosed
<1>4. PICK d : d = wd[h]
  OBVIOUS
<1>5. d # None
  BY <1>1, <1>4 DEF WatchInv, ListsAgree
<1>6. /\ d \in DOMAIN lists /\ lists[d] \in Seq(Watches)
      /\ watch' \in [Paths -> 1..lastWd \cup {None}] /\ events' \in Seq(1..lastWd)
      /\ DOMAIN lists' \subseteq DOMAIN lists /\ lists' \in [DOMAIN lists' -> Seq(Watches)]
      /\ \A e \in DOMAIN lists : e # d => e \in DOMAIN lists' /\ lists'[e] = lists[e]
      /\ d \in DOMAIN lists' =>
           /\ lists'[d] = RemoveFirst(lists[d], h) /\ lists'[d] # <<>>
           /\ IsInjective(lists'[d]) /\ ToSet(lists'[d]) = ToSet(lists[d]) \ {h}
      /\ \A g \in Watches : wd'[g] = d => d \in DOMAIN lists'
      /\ \A p \in Paths : watch'[p] # None => watch'[p] \in DOMAIN lists'
  <2>1. /\ WatchInv /\ TakeOut(h) /\ wd' = [wd EXCEPT ![h] = None] /\ lastWd' = lastWd
        /\ d = wd[h] /\ d # None
    BY <1>1, <1>4, <1>5
  <2>2. TakenOut(h, d)
    BY <2>1, HandleIsTakenOut
  <2> QED BY <2>2 DEF TakenOut
<1>7. PICK n : n = Successor(h)
  OBVIOUS
<1>8. /\ h \in ToSet(lists[d]) /\ IsInjective(lists[d]) /\ Follows(lists[d], h, n)
      /\ n # None => n \in Watches /\ wd[n] = d
  BY <1>1, <1>4, <1>5, <1>7, WatcherIsInQueue
<1>9. /\ n # None => n # h
      /\ \A g : After(lists[d], h, g) => n # None /\ (g = n \/ After(lists[d], n, g))
  BY <1>6, <1>8, FollowerIsNext
<1>10. /\ wd'[h] = None /\ link'[h] = n
       /\ \A g \in Watches : g # h => wd'[g] = wd[g] /\ link'[g] = link[g]
  BY <1>1, <1>7 DEF WatchTypes
<1>11. WatchTypes'
  <2>1. wd' \in [Watches -> DOMAIN lists' \cup {None}]
    <3>1. ASSUME NEW g \in Watches PROVE wd'[g] \in DOMAIN lists' \cup {None}
      BY <1>1, <1>6, <1>10 DEF WatchTypes
    <3> QED BY <1>1, <3>1 DEF WatchTypes
  <2>2. link' \in [Watches -> Watches \cup {None}]
    BY <1>1, <1>7, <1>8 DEF WatchTypes
  <2> QED BY <1>1, <1>6, <2>1, <2>2 DEF WatchTypes
<1>12. \A g \in Watches : g # h =>
         /\ IsActive(hs, g)' <=> IsActive(hs, g)
         /\ Usable(g)' <=> Usable(g)
         /\ IsClosing(hs, g)' <=> IsClosing(hs, g)
  BY <1>3, SameFlags
<1>13. ListsAgree'
  <2>1. ASSUME NEW g \in Watches PROVE IsActive(hs, g)' <=> wd'[g] # None
    BY <1>1, <1>3, <1>10, <1>12 DEF ListsAgree
  <2>2. ASSUME NEW g \in Watches, NEW e \in DOMAIN lists'
        PROVE  g \in ToSet(lists'[e]) <=> e = wd'[g]
    <3>1. e \in DOMAIN lists /\ e # None
      BY <1>1, <1>6, <2>2 DEF WatchTypes
    <3>2. g \in ToSet(lists[e]) <=> e = wd[g]
      BY <1>1, <3>1 DEF ListsAgree
    <3> QED BY <1>4, <1>6, <1>10, <2>2, <3>1, <3>2
  <2>3. \A e \in DOMAIN lists' : lists'[e] # <<>> /\ IsInjective(lists'[e])
    BY <1>1, <1>6 DEF ListsAgree
  <2> QED BY <1>6, <2>1, <2>2, <2>3 DEF ListsAgree
<1>14. ASSUME ~Pairs, InWalk' PROVE WalkFits(frame[2], frame[3], frame[4])'
  <2>1. PICK e, q, due : e = frame[2] /\ q = frame[3] /\ due = frame[4]
    OBVIOUS
  <2>2. /\ WalkFits(e, q, due) /\ q \in Watches /\ due \in SUBSET Watches
        /\ InWalk
    BY <1>1, <1>14, <2>1, FrameOfWalk DEF WatchInv, InWalk
  <2>3. e # None /\ e \in 1..lastWd
    BY <2>1, <2>2, <1>1, FrameOfWalk
  <2>4. ~(wd[q] = None /\ link[q] = h)
    BY <1>14, <2>1, <2>2 DEF WatchClose
  <2>5. \A x \in due \cup {q} : wd'[x] = e \/ (wd'[x] = None /\ IsClosing(hs, x)')
    BY <1>3, <1>10, <1>12, <2>2 DEF WalkFits
  <2>6. ASSUME NEW g, NEW x \in Watches, wd'[x] = e, g # h, After(lists[e], g, x)
        PROVE  After(lists'[e], g, x)
    <3>1. x # h /\ wd[x] = e
      BY <1>10, <2>3, <2>6
    <3>2. CASE e = d
      <4>1. lists'[d] = RemoveFirst(lists[d], h)
        BY <1>6, <2>6, <3>2
      <4> QED BY <1>6, <1>8, <2>6, <3>1, <3>2, <4>1, AfterRemoved
    <3>3. CASE e # d
      <4>1. e \in DOMAIN lists
        BY <1>1, <2>3, <3>1 DEF WatchTypes
      <4> QED BY <1>6, <2>6, <3>3, <4>1
    <3> QED BY <3>2, <3>3
  <2>7. CASE AtHandle(e, q, due) /\ q # h
    <3>1. wd'[q] = e
      BY <1>10, <2>2, <2>7 DEF AtHandle
    <3>2. ASSUME NEW x \in due, wd'[x] = e PROVE After(lists'[e], q, x)
      <4>1. x \in Watches /\ wd[x] = e
        BY <1>10, <2>2, <2>3, <3>2
      <4> QED BY <2>6, <2>7, <3>2, <4>1 DEF AtHandle
    <3>3. AtHandle(e, q, due)'
      BY <3>1, <3>2 DEF AtHandle
    <3> QED BY <1>1, <2>1, <2>5, <3>3 DEF WalkFits
  <2>8. CASE AtHandle(e, q, due) /\ q = h
    <3>1. e = d /\ wd'[q] = None /\ link'[q] = n
      BY <1>4, <1>10, <2>8 DEF AtHandle
    <3>2. n # None => wd'[n] = e
      BY <1>8, <1>9, <1>10, <3>1
    <3>3. ASSUME NEW x \in due, wd'[x] = e
          PROVE  n # None /\ (x = n \/ After(lists'[e], n, x))
      <4>1. x \in Watches /\ wd[x] = e
        BY <1>10, <2>2, <2>3, <3>3
      <4>2. After(lists[d], h, x)
        BY <2>8, <3>1, <4>1 DEF AtHandle
      <4>3. n # None /\ (x = n \/ After(lists[d], n, x))
        BY <1>9, <4>2
      <4> QED BY <1>9, <2>6, <3>1, <3>3, <4>1, <4>3
    <3>4. AtClosed(e, q, due)'
      BY <3>1, <3>2, <3>3 DEF AtClosed
    <3> QED BY <1>1, <2>1, <2>5, <3>4 DEF WalkFits
  <2>9. CASE AtClosed(e, q, due)
    <3>1. q # h /\ wd'[q] = None /\ link'[q] = link[q] /\ link[q] # h
      BY <1>4, <1>5, <1>10, <2>2, <2>4, <2>9 DEF AtClosed
    <3>2. link[q] # None => wd'[link[q]] = e
      BY <1>1, <1>10, <2>2, <2>9, <3>1 DEF AtClosed, WatchTypes
    <3>3. ASSUME NEW x \in due, wd'[x] = e
          PROVE  link[q] # None /\ (x = link[q] \/ After(lists'[e], link[q], x))
      <4>1. x \in Watches /\ wd[x] = e
        BY <1>10, <2>2, <2>3, <3>3
      <4>2. link[q] # None /\ (x = link[q] \/ After(lists[e], link[q], x))
        BY <2>9, <4>1 DEF AtClosed
      <4> QED BY <2>6, <3>1, <3>3, <4>1, <4>2
    <3>4. AtClosed(e, q, due)'
      BY <3>1, <3>2, <3>3 DEF AtClosed
    <3> QED BY <1>1, <2>1, <2>5, <3>4 DEF WalkFits
  <2> QED BY <2>2, <2>7, <2>8, <2>9 DEF WalkFits
<1>15. WatchInv'
  <2>1. \A g \in Watches : IsActive(hs, g)' <=> Usable(g)'
    BY <1>1, <1>3, <1>12 DEF WatchInv
  <2> QED BY <1>11, <1>13, <1>14, <2>1 DEF WatchInv
<1>16. FrameFits' /\ \A c : Called(c)' <=> Called(c)
  BY <1>1, FrameKept
<1>17. \A g \in Polls \cup Ctxs : hs'.flags[g] = hs.flags[g]
  BY <1>1, <1>3, PollHandles
<1> QED BY <1>1, <1>3, <1>15, <1>16, <1>17, WatchStepKeeps

(* Where the walk goes.                                                    *)
LEMMA WalkGoesOn ==
  ASSUME WatchInv, FrameFits, InWalk, NEW d, NEW q, NEW due, NEW n,
         d = frame[2], q = frame[3], due = frame[4], n = Behind(q)
  PROVE  /\ n # None => n \in Watches
         /\ ~Pairs /\ n = None => \A h \in due : wd[h] # d
         /\ ~Pairs /\ n # None =>
              /\ wd[n] = d
              /\ \A h \in due : wd[h] = d => h = n \/ After(lists[d], n, h)
<1>1. q \in Watches /\ d \in 1..lastWd /\ due \in SUBSET Watches /\ d # None
  BY FrameOfWalk DEF WatchInv, WatchTypes
<1>2. wd[q] # None =>
        /\ lists[wd[q]] \in Seq(Watches) /\ IsInjective(lists[wd[q]])
        /\ n = Successor(q) /\ Follows(lists[wd[q]], q, n)
        /\ n # None => n \in Watches /\ wd[n] = wd[q]
  BY <1>1, WatcherIsInQueue DEF Behind
<1>3. wd[q] = None => n = link[q]
  BY DEF Behind
<1>4. n # None => n \in Watches
  BY <1>1, <1>2, <1>3 DEF WatchInv, WatchTypes
<1>5. ASSUME ~Pairs
      PROVE  /\ n # None => wd[n] = d
             /\ \A h \in due : wd[h] = d => n # None /\ (h = n \/ After(lists[d], n, h))
  <2>1. WalkFits(d, q, due)
    BY <1>5 DEF WatchInv
  <2>2. CASE AtHandle(d, q, due)
    <3>1. wd[q] = d
      BY <2>2 DEF AtHandle
    <3>2. \A h : After(lists[d], q, h) => n # None /\ (h = n \/ After(lists[d], n, h))
      BY <1>1, <1>2, <3>1, FollowerIsNext
    <3> QED BY <1>1, <1>2, <2>2, <3>1, <3>2 DEF AtHandle
  <2>3. CASE AtClosed(d, q, due)
    BY <1>3, <2>3 DEF AtClosed
  <2> QED BY <2>1, <2>2, <2>3 DEF WalkFits
<1> QED BY <1>4, <1>5

LEMMA WalkOnKeeps ==
  ASSUME WatchesInv, WalkOn, UNCHANGED pollVars
  PROVE  WatchesInv'
<1>1. /\ phase = "poll" /\ InWalk /\ phase' = phase /\ hs' = hs
      /\ UNCHANGED <<exists, watch, lastWd, events, lists, wd, link>>
      /\ WatchInv /\ FrameFits
  BY DEF WalkOn, Goes, CallsBack, inotifyVars, WatchesInv, TurnsInv
<1>2. PICK d, q, due, n : d = frame[2] /\ q = frame[3] /\ due = frame[4] /\ n = Behind(q)
  OBVIOUS
<1>3. /\ n = None => frame' = NoFrame
      /\ n # None => frame' = <<"walk", d, n, due \ {n}>>
  BY <1>2 DEF WalkOn, Goes, CallsBack
<1>4. /\ n # None => n \in Watches
      /\ ~Pairs /\ n # None =>
           /\ wd[n] = d
           /\ \A h \in due : wd[h] = d => h = n \/ After(lists[d], n, h)
      /\ d \in 1..lastWd /\ q \in Watches /\ due \in SUBSET Watches /\ \A c : ~Called(c)
  BY <1>1, <1>2, WalkGoesOn, FrameOfWalk
<1>5. FrameFits'
  <2>1. CASE n = None
    BY <1>3, <2>1 DEF FrameFits
  <2>2. CASE n # None
    <3>1. n \in Watches /\ due \ {n} \in SUBSET Watches /\ d \in 1..lastWd'
      BY <1>1, <1>4, <2>2
    <3>2. WalksAt(d, n, due \ {n})'
      BY <1>3, <2>2 DEF WalksAt
    <3> QED BY <1>1, <3>1, <3>2 DEF FrameFits
  <2> QED BY <2>1, <2>2
<1>6. \A c : ~Called(c)'
  BY <1>3 DEF Called
<1>7. ASSUME ~Pairs, InWalk' PROVE WalkFits(frame[2], frame[3], frame[4])'
  <2>1. n # None /\ frame'[2] = d /\ frame'[3] = n /\ frame'[4] = due \ {n}
    BY <1>3, <1>7 DEF InWalk
  <2>2. WalkFits(d, q, due)
    BY <1>1, <1>2, <1>7 DEF WatchInv
  <2>3. \A h \in (due \ {n}) \cup {n} : wd[h] = d \/ (wd[h] = None /\ IsClosing(hs, h))
    BY <1>4, <1>7, <2>1, <2>2 DEF WalkFits
  <2>4. AtHandle(d, n, due \ {n})
    BY <1>4, <1>7, <2>1 DEF AtHandle
  <2>5. WalkFits(d, n, due \ {n})
    BY <2>3, <2>4 DEF WalkFits
  <2> QED BY <1>1, <2>1, <2>5 DEF WalkFits, AtHandle, AtClosed
<1>8. WatchInv'
  <2>1. WatchTypes' /\ ListsAgree'
    BY <1>1 DEF WatchInv, WatchTypes, ListsAgree
  <2>2. \A h \in Watches : IsActive(hs, h)' <=> Usable(h)'
    BY <1>1 DEF WatchInv, Usable
  <2> QED BY <1>7, <2>1, <2>2 DEF WatchInv
<1> QED BY <1>1, <1>4, <1>5, <1>6, <1>8, WatchStepKeeps DEF WatchesInv, TurnsInv

(* The first handle of the queue is called, the others are due.            *)
LEMMA HeadIsFirst ==
  ASSUME NEW S, NEW Q \in Seq(S), Q # <<>>
  PROVE  /\ Head(Q) \in ToSet(Q) /\ Head(Q) \in S
         /\ ToSet(Tail(Q)) \subseteq ToSet(Q) /\ ToSet(Q) \subseteq S
         /\ \A h \in ToSet(Tail(Q)) : After(Q, Head(Q), h)
<1>1. /\ Head(Q) = Q[1] /\ Tail(Q) \in Seq(S) /\ Len(Tail(Q)) = Len(Q) - 1
      /\ \A i \in 1..Len(Tail(Q)) : Tail(Q)[i] = Q[i + 1]
      /\ Len(Q) \in Nat \ {0}
  BY HeadTailProperties, EmptySeq
<1>2. ASSUME NEW h \in ToSet(Tail(Q)) PROVE After(Q, Head(Q), h)
  <2>1. PICK i \in 1..Len(Tail(Q)) : Tail(Q)[i] = h
    BY <1>1, <1>2, QueueElements
  <2>2. i + 1 \in 1..Len(Q) /\ 1 \in 1..Len(Q) /\ 1 < i + 1
    BY <1>1, <2>1
  <2> QED BY <1>1, <2>1, <2>2 DEF After
<1> QED BY <1>2, TailElements, QueueElements

LEMMA TakeEventKeeps ==
  ASSUME WatchesInv, TakeEvent, UNCHANGED pollVars
  PROVE  WatchesInv'
<1>1. /\ phase = "poll" /\ frame = NoFrame /\ phase' = phase /\ hs' = hs
      /\ events # <<>> /\ events' = Tail(events)
      /\ UNCHANGED <<exists, watch, lastWd, lists, wd, link>>
      /\ WatchInv /\ WatchTypes /\ ListsAgree /\ FrameFits
  BY DEF TakeEvent, Idle, Goes, CallsBack, WatchesInv, TurnsInv, WatchInv
<1>2. PICK d : d = Head(events)
  OBVIOUS
<1>3. /\ d \notin DOMAIN lists => frame' = NoFrame
      /\ d \in DOMAIN lists =>
           frame' = <<"walk", d, Head(lists[d]), ToSet(Tail(lists[d]))>>
  BY <1>2 DEF TakeEvent, Goes, CallsBack
<1>4. events \in Seq(1..lastWd) /\ events' \in Seq(1..lastWd)
  <2>1. events \in Seq(1..lastWd)
    BY <1>1 DEF WatchTypes
  <2> QED BY <1>1, <2>1, TailElements
<1>5. ASSUME d \in DOMAIN lists
      PROVE  \E q \in Watches, due \in SUBSET Watches :
               /\ frame' = <<"walk", d, q, due>> /\ wd[q] = d /\ d \in 1..lastWd
               /\ \A h \in due : wd[h] = d /\ After(lists[d], q, h)
  <2>1. lists[d] \in Seq(Watches) /\ lists[d] # <<>> /\ d \in 1..lastWd
    BY <1>1, <1>5 DEF WatchTypes, ListsAgree
  <2>2. PICK q, due : q = Head(lists[d]) /\ due = ToSet(Tail(lists[d]))
    OBVIOUS
  <2>3. /\ q \in ToSet(lists[d]) /\ q \in Watches
        /\ due \subseteq ToSet(lists[d]) /\ ToSet(lists[d]) \subseteq Watches
        /\ \A h \in due : After(lists[d], q, h)
    BY <2>1, <2>2, HeadIsFirst
  <2>4. \A h \in ToSet(lists[d]) : wd[h] = d
    BY <1>1, <1>5, <2>3 DEF ListsAgree
  <2> QED BY <1>3, <1>5, <2>1, <2>2, <2>3, <2>4
<1>6. FrameFits'
  <2>1. CASE d \notin DOMAIN lists
    BY <1>3, <2>1 DEF FrameFits
  <2>2. CASE d \in DOMAIN lists
    BY <1>1, <1>5, <2>2 DEF FrameFits, WalksAt
  <2> QED BY <2>1, <2>2
<1>7. \A c : ~Called(c) /\ ~Called(c)'
  BY <1>1, <1>3 DEF Called
<1>8. ASSUME ~Pairs, InWalk' PROVE WalkFits(frame[2], frame[3], frame[4])'
  <2>1. d \in DOMAIN lists
    BY <1>3, <1>8 DEF InWalk
  <2>2. PICK q \in Watches, due \in SUBSET Watches :
          /\ frame' = <<"walk", d, q, due>> /\ wd[q] = d
          /\ \A h \in due : wd[h] = d /\ After(lists[d], q, h)
    BY <1>5, <2>1
  <2>3. frame'[2] = d /\ frame'[3] = q /\ frame'[4] = due
    BY <2>2
  <2>4. AtHandle(d, q, due)'
    BY <1>1, <2>2 DEF AtHandle
  <2> QED BY <1>1, <2>2, <2>3, <2>4 DEF WalkFits
<1>9. WatchInv'
  <2>1. WatchTypes' /\ ListsAgree'
    BY <1>1, <1>4 DEF WatchTypes, ListsAgree
  <2>2. \A h \in Watches : IsActive(hs, h)' <=> Usable(h)'
    BY <1>1 DEF WatchInv, Usable
  <2> QED BY <1>8, <2>1, <2>2 DEF WatchInv
<1> QED BY <1>1, <1>6, <1>7, <1>9, WatchStepKeeps DEF WatchesInv, TurnsInv

-----------------------------------------------------------------------------
LEMMA NextKeeps ==
  ASSUME WatchesInv, [Next]_vars
  PROVE  WatchesInv'
<1>1. CASE UNCHANGED vars
  <2>1. /\ UNCHANGED <<hs, phase, frame, pollVars, inotifyVars>> /\ lastWd' = lastWd
        /\ ctx' = ctx
    BY <1>1 DEF vars, turnVars, inotifyVars, pollVars
  <2>2. FrameFits' /\ \A c : Called(c)' <=> Called(c)
    BY <2>1, FrameKept DEF WatchesInv, TurnsInv
  <2>3. WatchInv'
    BY <2>1, SameFlags, WatchesAreKept DEF WatchesInv, TurnsInv
  <2> QED BY <2>1, <2>2, <2>3, WatchStepKeeps DEF WatchesInv, TurnsInv
<1>2. CASE Turn /\ UNCHANGED <<pollVars, inotifyVars>>
  BY <1>2, TurnKeeps
<1>3. CASE FsPollStep /\ UNCHANGED inotifyVars
  BY <1>3, ChangeFileKeeps, StatKeeps, TimerFiresKeeps, PollCbLateKeeps, PollCbSilentKeeps,
     PollCbTellsKeeps, PollCbReturnsKeeps DEF FsPollStep
<1>4. CASE PollFinish /\ UNCHANGED inotifyVars
  BY <1>4, PollFinishKeeps
<1>5. CASE (\E h \in Polls : FsPollCall(h)) /\ UNCHANGED inotifyVars
  BY <1>5, PollInitializeKeeps, PollStartKeeps, PollStopKeeps, PollCloseKeeps DEF FsPollCall
<1>6. CASE InotifyStep /\ UNCHANGED pollVars
  BY <1>6, TakeEventKeeps, WalkOnKeeps, OutsideKeeps DEF InotifyStep
<1>7. CASE (\E h \in Watches : InotifyCall(h)) /\ UNCHANGED pollVars
  BY <1>7, WatchCloseKeeps, WatchFileKeeps DEF InotifyCall
<1> QED BY <1>1, <1>2, <1>3, <1>4, <1>5, <1>6, <1>7 DEF Next

-----------------------------------------------------------------------------
(* The steps that give the library a callback to go on with.               *)
LEMMA FrameIsSet ==
  ASSUME [Next]_vars, frame' # frame
  PROVE  \/ frame' = NoFrame /\ ~InWalk
         \/ UNCHANGED pollVars /\ (TakeEvent \/ WalkOn)
         \/ \E c \in Ctxs : PollCbTells(c)
<1>1. CASE UNCHANGED vars \/ Turn
  BY <1>1 DEF vars, turnVars, Turn, RunLoop, Return, EndTimers, EndPoll, StartClosing,
     EndIteration
<1>2. CASE PollFinish \/ \E h \in Polls : FsPollCall(h)
  BY <1>2 DEF PollFinish, FinishHandle, FsPollCall, PollInitialize, PollStart, PollStop,
     PollClose, Call
<1>3. CASE FsPollStep
  <2>1. CASE ChangeFile \/ \E c \in Ctxs : Stat(c) \/ TimerFires(c) \/ PollCbLate(c) \/ PollCbSilent(c)
    BY <2>1 DEF ChangeFile, Stat, TimerFires, PollCbLate, PollCbSilent, turnVars
  <2>2. CASE \E c \in Ctxs : PollCbReturns(c)
    BY <2>2 DEF PollCbReturns, Goes, Called, InWalk
  <2> QED BY <1>3, <2>1, <2>2 DEF FsPollStep
<1>4. CASE InotifyStep /\ UNCHANGED pollVars
  BY <1>4 DEF InotifyStep, FileChanges, FileGoes, FileComes, Happens, turnVars
<1>5. CASE \E h \in Watches : InotifyCall(h)
  BY <1>5 DEF InotifyCall, WatchClose, WatchFile, Call
<1> QED BY <1>1, <1>2, <1>3, <1>4, <1>5 DEF Next

LEMMA FitsKeepContexts == WatchesInv => ContextsAreKept
<1> SUFFICES ASSUME WatchesInv PROVE ContextsAreKept
  OBVIOUS
<1>1. ASSUME NEW c \in Ctxs
      PROVE  LET ends == Pending(c) + CloseCalls(hs, c)
                 goes == Pending(c) + One(IsActive(hs, c))
             IN IF c \notin DOMAIN ctx THEN ends = 0
                ELSE LET h == ctx[c].parent
                     IN IF h = None THEN ends = 1 /\ ~IsActive(hs, c)
                        ELSE cur[h] = c /\ goes = 1 /\ CloseCalls(hs, c) = 0
  <2>1. CloseCalls(hs, c) = IF IsClosing(hs, c) THEN 1 ELSE 0
    BY PollHandles, FitsCallOnce DEF WatchesInv, TurnsInv
  <2>2. ContextFits(c)
    BY DEF WatchesInv, PollInv
  <2>3. CASE c \notin DOMAIN ctx
    <3>1. IsFree(c)
      BY <2>2, <2>3 DEF ContextFits
    <3>2. Pending(c) = 0 /\ CloseCalls(hs, c) = 0
      BY <2>1, <3>1 DEF IsFree, Pending, One, IsClosing, IsClosed
    <3> QED BY <2>3, <3>2
  <2>4. CASE c \in DOMAIN ctx /\ ctx[c].parent = None
    <3>1. IsLeft(c)
      BY <2>2, <2>4 DEF ContextFits
    <3>2. Pending(c) + CloseCalls(hs, c) = 1
      BY <2>1, <3>1 DEF IsLeft, ExactlyOne, Pending, One
    <3> QED BY <2>4, <3>1, <3>2 DEF IsLeft
  <2>5. CASE c \in DOMAIN ctx /\ ctx[c].parent # None
    <3>1. Polling(c, ctx[c].parent)
      BY <2>2, <2>5 DEF ContextFits
    <3>2. Pending(c) + One(IsActive(hs, c)) = 1
      BY <3>1 DEF Polling, ExactlyOne, Pending, One
    <3>3. CloseCalls(hs, c) = 0
      BY <2>1, <3>1 DEF Polling, IsUsable, IsClosing
    <3> QED BY <2>5, <3>1, <3>2, <3>3 DEF Polling
  <2> QED BY <2>3, <2>4, <2>5
<1>2. ASSUME NEW h \in Polls
      PROVE  IF IsActive(hs, h) THEN ctx[cur[h]].parent = h ELSE cur[h] = None
  BY DEF WatchesInv, PollInv, PollFits
<1> QED BY <1>1, <1>2 DEF ContextsAreKept

(* What the program is told is not what the context has noted.             *)
LEMMA NewsAreNew ==
  ASSUME NEW x \in Contexts, NEW r \in Results, IsNews(x, r),
         x.busy = "ok" => x.stat \in Contents
  PROVE  Known(x) # r
<1>1. x.busy \in {"no", "ok"} \cup Errors
  BY DEF Contexts, Busy
<1>2. r \notin {"no", "ok"} /\ (r \in Errors => r \notin Contents)
  BY DEF Results
<1>3. \A e \in Errors : e \notin {"no", "ok"} /\ e \notin Contents
  OBVIOUS
<1> QED BY <1>1, <1>2, <1>3 DEF IsNews, Known, Results

LEMMA TellsNews ==
  ASSUME WatchesInv, [Next]_vars, NEW c \in Ctxs, Called(c)', ~Called(c)
  PROVE  /\ IsActive(hs, ctx[c].parent) /\ cur[ctx[c].parent] = c
         /\ told'[ctx[c].parent] # told[ctx[c].parent]
<1>1. frame' # frame /\ frame' # NoFrame /\ frame'[1] = "poll_cb" /\ frame'[2] = c
  BY DEF Called
<1>2. ~TakeEvent /\ ~WalkOn
  BY <1>1 DEF TakeEvent, WalkOn, Goes, CallsBack
<1>3. PICK b \in Ctxs : PollCbTells(b)
  BY <1>1, <1>2, FrameIsSet
<1>4. b = c
  BY <1>1, <1>3 DEF PollCbTells, CallsBack
<1>5. /\ c \in DOMAIN ctx /\ req[c] \in Results /\ ctx[c] \in Contexts
      /\ ctx[c].parent # None /\ IsNews(ctx[c], req[c])
      /\ told' = [told EXCEPT ![ctx[c].parent] = req[c]]
  BY <1>3, <1>4, AnsweredContext DEF PollCbTells
<1>6. /\ Polling(c, ctx[c].parent) /\ ctx[c].parent \in Polls /\ ToldFits(c)
  BY <1>5, ContextOfHandle DEF WatchesInv, PollInv
<1>7. told'[ctx[c].parent] = req[c] /\ told[ctx[c].parent] = Known(ctx[c])
  BY <1>5, <1>6 DEF WatchesInv, PollInv, PollTypes, ToldFits
<1>8. Known(ctx[c]) # req[c]
  BY <1>5, <1>6, NewsAreNew DEF ToldFits
<1> QED BY <1>6, <1>7, <1>8 DEF Polling

LEMMA WalkReaches ==
  ASSUME WatchesInv, [Next]_vars, ~Pairs
  PROVE  /\ InWalk /\ frame' = NoFrame => \A h \in frame[4] : wd[h] # frame[2]
         /\ InWalk' /\ frame' # frame => Usable(frame'[3])
<1>1. WatchInv /\ FrameFits
  BY DEF WatchesInv, TurnsInv
<1>2. CASE WalkOn
  <2>1. PICK d, q, due, n : d = frame[2] /\ q = frame[3] /\ due = frame[4] /\ n = Behind(q)
    OBVIOUS
  <2>2. /\ n = None => frame' = NoFrame
        /\ n # None => frame' = <<"walk", d, n, due \ {n}>>
        /\ InWalk /\ hs' = hs
    BY <1>2, <2>1 DEF WalkOn, Goes, CallsBack
  <2>3. /\ n = None => \A h \in due : wd[h] # d
        /\ n # None => wd[n] = d /\ n \in Watches
        /\ d # None
    BY <1>1, <2>1, <2>2, WalkGoesOn, FrameOfWalk
  <2>4. n # None => Usable(n)'
    BY <1>1, <2>2, <2>3 DEF WatchInv, ListsAgree, Usable
  <2> QED BY <2>1, <2>2, <2>3, <2>4 DEF InWalk, NoFrame, Usable
<1>3. CASE TakeEvent
  <2>1. frame = NoFrame /\ hs' = hs /\ events # <<>>
    BY <1>3 DEF TakeEvent, Idle
  <2>2. PICK d : d = Head(events)
    OBVIOUS
  <2>3. /\ d \notin DOMAIN lists => frame' = NoFrame
        /\ d \in DOMAIN lists => frame'[3] = Head(lists[d])
    BY <1>3, <2>2 DEF TakeEvent, Goes, CallsBack
  <2>4. d \in DOMAIN lists => Usable(Head(lists[d]))
    <3>1. SUFFICES ASSUME d \in DOMAIN lists PROVE Usable(Head(lists[d]))
      OBVIOUS
    <3>2. lists[d] \in Seq(Watches) /\ lists[d] # <<>> /\ d # None
      BY <1>1, <3>1 DEF WatchInv, WatchTypes, ListsAgree
    <3>3. PICK g : g = Head(lists[d])
      OBVIOUS
    <3>4. g \in ToSet(lists[d]) /\ g \in Watches
      BY <3>2, <3>3, HeadIsFirst
    <3>5. wd[g] = d
      BY <1>1, <3>1, <3>4 DEF WatchInv, ListsAgree
    <3> QED BY <1>1, <3>2, <3>3, <3>4, <3>5 DEF WatchInv, ListsAgree
  <2> QED BY <2>1, <2>3, <2>4 DEF InWalk, Usable, IsUsable
<1>4. CASE frame' = frame
  BY <1>4 DEF InWalk
<1>5. CASE frame' = NoFrame /\ ~InWalk
  BY <1>5 DEF InWalk
<1>6. CASE \E c \in Ctxs : PollCbTells(c)
  BY <1>6 DEF PollCbTells, Answered, Idle, CallsBack, InWalk, NoFrame
<1> QED BY <1>2, <1>3, <1>4, <1>5, <1>6, FrameIsSet

-----------------------------------------------------------------------------
(* In every reachable state a context of uv_fs_poll_start() is free, left  *)
(* to be freed or polled with, what a handle has told is what its context  *)
(* noted or is about to note, and the walk of uv__inotify_read() over a    *)
(* queue is at a place from which it goes on to every handle that is due.  *)
THEOREM ContextsAndWalksFit == Spec => []WatchesInv
<1>1. Init => WatchesInv
  BY InitFits
<1>2. WatchesInv /\ [Next]_vars => WatchesInv'
  BY NextKeeps
<1> QED BY <1>1, <1>2, PTL DEF Spec

(* The context that poll_cb() and timer_cb() use is there, has one request *)
(* or one timer to go on with, and is freed once: by timer_close_cb(),     *)
(* after uv_fs_poll_stop(), uv_close() or poll_cb() closed its timer.      *)
THEOREM ContextsAreFreedOnce == Spec => []ContextsAreKept
<1> QED BY FitsKeepContexts, ContextsAndWalksFit, PTL

(* poll_cb() calls the program only for a handle that polls with this      *)
(* context, and only with an error or a content that it was not told.      *)
THEOREM PollsTellNews == Spec => NeverToldTwice
<1>1. WatchesInv /\ [Next]_vars =>
        \A c \in Ctxs : Called(c)' /\ ~Called(c) =>
          /\ IsActive(hs, ctx[c].parent) /\ cur[ctx[c].parent] = c
          /\ told'[ctx[c].parent] # told[ctx[c].parent]
  BY TellsNews
<1> QED BY <1>1, ContextsAndWalksFit, PTL DEF Spec, NeverToldTwice

(* uv_fs_event_init() and uv__fs_event_close() keep handle->wd, the queues *)
(* of loop->inotify_watchers and the watches of the kernel together.       *)
THEOREM WatchersAreListed == Spec => []ListsAgree
<1>1. WatchesInv => ListsAgree
  BY DEF WatchesInv, WatchInv
<1> QED BY <1>1, ContextsAndWalksFit, PTL

(* uv__inotify_read() gives an event to every handle that watches from the *)
(* beginning to its turn and to no handle that was closed, whatever the    *)
(* callbacks open and close, unless one of them closes its own handle and  *)
(* then the one behind it.                                                 *)
THEOREM WalksReachWatchers ==
  ASSUME Pairs = FALSE
  PROVE  Spec => EventsReachWatchers
<1>1. WatchesInv /\ [Next]_vars =>
        /\ InWalk /\ frame' = NoFrame => \A h \in frame[4] : wd[h] # frame[2]
        /\ InWalk' /\ frame' # frame => Usable(frame'[3])
  BY WalkReaches
<1> QED BY <1>1, ContextsAndWalksFit, PTL DEF Spec, EventsReachWatchers

-----------------------------------------------------------------------------
(* Child processes.                                                        *)
USE ProcessAssumption

TurnsFit ==
  /\ HandlesFit(hs, Handles)
  /\ phase # "closing" => hs.doomed = <<>>

ChildTypes ==
  /\ kernel \in [Pids -> {"free", "running", "zombie"}]
  /\ spawned \in [Pids -> Procs \cup {None}]
  /\ pid \in [Procs -> Pids \cup {None}] /\ queue \in Seq(Procs)
  /\ found \in [Procs -> Nat]

(* The handles in the queue and the processes they were spawned for.       *)
HandleFits(h) ==
  /\ pid[h] \in Pids
  /\ spawned[pid[h]] = h \/ kernel[pid[h]] = "free"
  /\ found[h] = IF spawned[pid[h]] = h THEN 0 ELSE 1

QueueFits ==
  /\ IsInjective(queue)
  /\ \A h \in Procs : IsActive(hs, h) <=> h \in ToSet(queue)
  /\ \A h \in ToSet(queue) : HandleFits(h)
  /\ \A g, h \in ToSet(queue) : pid[g] = pid[h] => g = h

(* The exit of a process that a handle was spawned for does not get lost.  *)
ExitsFit ==
  \A p \in Pids : spawned[p] # None =>
    /\ kernel[p] # "free" /\ watching
    /\ kernel[p] = "zombie" => chld \/ frame = Chld

ChildrenFit == ChildTypes /\ QueueFits /\ ExitsFit

ChildrenInv == TurnsFit /\ ChildrenFit

-----------------------------------------------------------------------------
LEMMA ProcessInitFits ==
  ASSUME ProcessInit
  PROVE  ChildrenInv
<1>1. HandlesFit(hs, Handles) /\ \A h \in Handles : hs.flags[h] = {}
  <2> DEFINE f == [h \in Handles |-> {}]
             G == Fresh(Handles)
             R == [G EXCEPT !.flags = f]
  <2>1. /\ G.count = 0 /\ G.closing = <<>> /\ G.doomed = <<>>
        /\ G \in HandleRecords(Handles)
    BY DEF Fresh, HandleRecords, Flags
  <2> HIDE DEF G
  <2>2. /\ f \in [Handles -> SUBSET Flags] /\ R.flags = f /\ R.count = 0
        /\ R.closing = <<>> /\ R.doomed = <<>> /\ R \in HandleRecords(Handles)
    BY <2>1 DEF HandleRecords
  <2>3. Cardinality(Handles) \in Nat
    BY FS_CardinalityType
  <2> HIDE DEF R
  <2>4. R \in HandlesOf(Handles)
    BY <2>2, <2>3 DEF HandlesOf, HandleRecords
  <2>5. KeepingAlive(R, Handles) = {} /\ Cardinality({}) = 0
    BY <2>2, FS_EmptySet DEF KeepingAlive
  <2>6. CountsItsHandles(R, Handles)
    BY <2>2, <2>4, <2>5 DEF CountsItsHandles
  <2>7. FlagsFit(R, Handles) /\ ListsFit(R, Handles)
    BY <2>2 DEF FlagsFit, ListsFit, IsClosed, IsUsable, IsActive, IsClosing, IsInjective, ToSet
  <2>8. hs = R
    BY DEF ProcessInit, TurnsInit, R, G
  <2> QED BY <2>2, <2>6, <2>7, <2>8 DEF HandlesFit
<1>2. TurnsFit
  BY <1>1 DEF TurnsFit, ProcessInit, TurnsInit, Fresh
<1>3. queue = <<>> /\ queue \in Seq(Procs) /\ ToSet(queue) = {} /\ IsInjective(queue)
  BY DEF ProcessInit, ToSet, IsInjective
<1>4. ChildTypes /\ ExitsFit
  BY <1>3 DEF ProcessInit, ChildTypes, ExitsFit
<1>5. QueueFits
  BY <1>1, <1>3 DEF QueueFits, IsActive
<1> QED BY <1>2, <1>4, <1>5 DEF ChildrenInv, ChildrenFit

(* Steps that leave the children alone.                                    *)
LEMMA ChildrenAreKept ==
  ASSUME ChildrenFit, UNCHANGED <<childVars, frame>>,
         \A h \in Procs : IsActive(hs, h)' <=> IsActive(hs, h)
  PROVE  ChildrenFit'
BY DEF ChildrenFit, ChildTypes, QueueFits, HandleFits, ExitsFit, childVars, Chld

LEMMA ProcessTurnKeeps ==
  ASSUME ChildrenInv, ProcessTurn, UNCHANGED childVars
  PROVE  ChildrenInv'
<1>1. HandlesFit(hs, Handles) /\ frame' = frame
  BY DEF ChildrenInv, TurnsFit, ProcessTurn, RunLoop, Return, EndTimers, EndPoll, StartClosing,
     FinishHandle, EndIteration
<1>2. /\ HandlesFit(hs', Handles) /\ (phase' # "closing" => hs'.doomed = <<>>)
      /\ \A h \in Procs : IsActive(hs, h)' <=> IsActive(hs, h)
  <2>1. CASE StartClosing
    BY <1>1, <2>1, TakenFits DEF StartClosing, Idle, ChildrenInv, TurnsFit, IsActive
  <2>2. CASE FinishHandle({})
    <3>1. hs.doomed # <<>> /\ hs' = FinishClose(hs) /\ phase' = "closing"
      BY <2>2 DEF FinishHandle, Idle
    <3>2. HandlesFit(hs', Handles) /\ \E p \in Handles : FinishedWith(hs, Handles, p, hs')
      BY <1>1, <3>1, SomeHandleIsFinished
    <3>3. \A h \in Procs : IsActive(hs, h)' <=> IsActive(hs, h)
      BY <3>2 DEF FinishedWith, IsActive
    <3> QED BY <3>1, <3>2, <3>3
  <2>3. CASE RunLoop(ProcessAlive) \/ Return \/ EndTimers \/ EndPoll \/ EndIteration(ProcessAlive)
    BY <2>3 DEF RunLoop, Return, EndTimers, EndPoll, EndIteration, Idle, ChildrenInv, TurnsFit, IsActive
  <2> QED BY <2>1, <2>2, <2>3 DEF ProcessTurn
<1> QED BY <1>1, <1>2, ChildrenAreKept DEF ChildrenInv, TurnsFit

(* A handle starts to live, with or without a child.                       *)
LEMMA ReusableFits ==
  ASSUME TurnsFit, NEW h \in Procs, Reusable(h)
  PROVE  /\ ~IsActive(hs, h)
         /\ FitsWith(hs, Handles, h, {"ref"}, Initialized(hs, h))
<1>1. ~IsActive(hs, h) /\ ~IsClosing(hs, h) /\ "ref" \notin hs.flags[h]
  BY DEF TurnsFit, HandlesFit, FlagsFit, Reusable, IsActive, IsClosing, IsUsable, IsClosed
<1> QED BY <1>1, InitializedFits DEF TurnsFit

LEMMA SpawnKeeps ==
  ASSUME ChildrenInv, "wraps" \notin Habits, NEW h \in Procs, NEW p \in Pids, NEW w,
         Spawn(h, p, w)
  PROVE  ChildrenInv'
<1>1. /\ UNCHANGED <<phase, frame, chld>> /\ Reusable(h) /\ kernel[p] = "free"
      /\ \A g \in ToSet(queue) : pid[g] # p
      /\ kernel'  = [kernel EXCEPT ![p] = "running"]
      /\ spawned' = [spawned EXCEPT ![p] = h]
      /\ pid'     = [pid EXCEPT ![h] = p]
      /\ queue'   = Append(queue, h)
      /\ found'   = [found EXCEPT ![h] = 0]
      /\ watching' = TRUE
      /\ hs' = Started(Initialized(hs, h), h)
  BY DEF Spawn, Call
<1>2. TurnsFit /\ ChildTypes /\ QueueFits /\ ExitsFit
  BY DEF ChildrenInv, ChildrenFit
<1>3. /\ HandlesFit(hs', Handles) /\ hs'.doomed = hs.doomed /\ ~IsActive(hs, h)
      /\ IsActive(hs, h)' /\ \A g \in Procs : g # h => (IsActive(hs, g)' <=> IsActive(hs, g))
  <2> DEFINE A == Initialized(hs, h)
  <2>1. FitsWith(hs, Handles, h, {"ref"}, A) /\ ~IsActive(hs, h)
    BY <1>1, <1>2, ReusableFits
  <2>2. hs' = Started(A, h)
    BY <1>1
  <2> HIDE DEF A
  <2>3. FitsWith(A, Handles, h, A.flags[h] \cup {"active"}, Started(A, h))
    BY <2>1, StartedFits DEF FitsWith, IsUsable
  <2>4. FitsWith(A, Handles, h, A.flags[h] \cup {"active"}, hs')
    BY <2>2, <2>3
  <2> QED BY <2>1, <2>4 DEF FitsWith, IsActive
<1>4. /\ h \notin ToSet(queue) /\ queue' \in Seq(Procs) /\ IsInjective(queue')
      /\ ToSet(queue') = ToSet(queue) \cup {h} /\ ToSet(queue) \subseteq Procs
  <2>1. h \notin ToSet(queue) /\ queue \in Seq(Procs) /\ IsInjective(queue)
    BY <1>2, <1>3 DEF QueueFits, ChildTypes
  <2> QED BY <1>1, <2>1, AppendElements, QueueElements
<1>5. /\ kernel'[p] = "running" /\ spawned'[p] = h /\ pid'[h] = p /\ found'[h] = 0
      /\ \A q \in Pids : q # p => kernel'[q] = kernel[q] /\ spawned'[q] = spawned[q]
      /\ \A g \in Procs : g # h => pid'[g] = pid[g] /\ found'[g] = found[g]
  BY <1>1, <1>2 DEF ChildTypes
<1>6. ChildTypes'
  BY <1>1, <1>2, <1>4 DEF ChildTypes
<1>7. ASSUME NEW g \in ToSet(queue') PROVE HandleFits(g)'
  <2>1. CASE g = h
    BY <1>5, <2>1 DEF HandleFits
  <2>2. CASE g # h
    <3>1. g \in ToSet(queue) /\ g \in Procs /\ HandleFits(g) /\ pid[g] # p
      BY <1>1, <1>2, <1>4, <1>7, <2>2 DEF QueueFits
    <3>2. pid'[g] = pid[g] /\ found'[g] = found[g]
      BY <1>5, <2>2, <3>1
    <3> QED BY <1>5, <3>1, <3>2 DEF HandleFits
  <2> QED BY <2>1, <2>2
<1>8. ASSUME NEW f \in ToSet(queue'), NEW g \in ToSet(queue'), pid'[f] = pid'[g]
      PROVE  f = g
  <2>1. f \in Procs /\ g \in Procs
    BY <1>4, <1>8
  <2> QED BY <1>1, <1>2, <1>4, <1>5, <1>8, <2>1 DEF QueueFits
<1>9. QueueFits'
  BY <1>2, <1>3, <1>4, <1>7, <1>8 DEF QueueFits
<1>10. ExitsFit'
  BY <1>1, <1>2, <1>5 DEF ExitsFit
<1>11. TurnsFit'
  BY <1>1, <1>2, <1>3 DEF TurnsFit
<1> QED BY <1>6, <1>9, <1>10, <1>11 DEF ChildrenInv, ChildrenFit

LEMMA SpawnFailsKeeps ==
  ASSUME ChildrenInv, NEW h \in Procs, NEW w, NEW n, SpawnFails(h, w, n)
  PROVE  ChildrenInv'
<1>1. /\ UNCHANGED <<phase, frame, kernel, spawned, pid, queue, found, chld>>
      /\ Reusable(h) /\ (watching' = watching \/ watching' = TRUE)
      /\ hs' = Initialized(hs, h)
  BY DEF SpawnFails, Call
<1>2. TurnsFit /\ ChildTypes /\ QueueFits /\ ExitsFit
  BY DEF ChildrenInv, ChildrenFit
<1>3. /\ HandlesFit(hs', Handles) /\ hs'.doomed = hs.doomed
      /\ \A g \in Procs : IsActive(hs, g)' <=> IsActive(hs, g)
  BY <1>1, <1>2, ReusableFits DEF FitsWith, IsActive
<1>4. ChildTypes' /\ QueueFits'
  BY <1>1, <1>2, <1>3 DEF ChildTypes, QueueFits, HandleFits
<1>5. ExitsFit'
  BY <1>1, <1>2 DEF ExitsFit
<1> QED BY <1>1, <1>2, <1>3, <1>4, <1>5 DEF ChildrenInv, ChildrenFit, TurnsFit

LEMMA ProcessCloseKeeps ==
  ASSUME ChildrenInv, NEW h \in Procs, ProcessClose(h)
  PROVE  ChildrenInv'
<1>1. /\ UNCHANGED <<phase, frame, kernel, spawned, pid, found, watching, chld>>
      /\ IsUsable(hs, h) /\ hs' = CloseHandle(hs, h) /\ queue' = RemoveFirst(queue, h)
  BY DEF ProcessClose, Call, Usable
<1>2. TurnsFit /\ ChildTypes /\ QueueFits /\ ExitsFit
  BY DEF ChildrenInv, ChildrenFit
<1>3. /\ HandlesFit(hs', Handles) /\ hs'.doomed = hs.doomed /\ ~IsActive(hs, h)'
      /\ \A g \in Procs : g # h => (IsActive(hs, g)' <=> IsActive(hs, g))
  BY <1>1, <1>2, ClosingFits DEF TurnsFit, CloseHandle, IsActive
<1>4. /\ queue' \in Seq(Procs) /\ IsInjective(queue')
      /\ ToSet(queue') = ToSet(queue) \ {h} /\ ToSet(queue) \subseteq Procs
  <2>1. queue \in Seq(Procs) /\ IsInjective(queue)
    BY <1>2 DEF QueueFits, ChildTypes
  <2> QED BY <1>1, <2>1, RemoveFirstElements, QueueElements
<1>5. ChildTypes' /\ ExitsFit'
  BY <1>1, <1>2, <1>4 DEF ChildTypes, ExitsFit
<1>6. QueueFits'
  BY <1>1, <1>2, <1>3, <1>4 DEF QueueFits, HandleFits
<1> QED BY <1>1, <1>2, <1>3, <1>5, <1>6 DEF ChildrenInv, ChildrenFit, TurnsFit

-----------------------------------------------------------------------------
(* The kernel's steps, and uv__chld().                                     *)
LEMMA ExitsKeeps ==
  ASSUME ChildrenInv, NEW p \in Pids, Exits(p)
  PROVE  ChildrenInv'
<1>1. /\ UNCHANGED <<hs, phase, frame, spawned, pid, queue, found, watching>>
      /\ kernel[p] = "running" /\ kernel' = [kernel EXCEPT ![p] = "zombie"]
      /\ chld' = (chld \/ watching)
  BY DEF Exits, turnVars
<1>2. TurnsFit /\ ChildTypes /\ QueueFits /\ ExitsFit
  BY DEF ChildrenInv, ChildrenFit
<1>3. kernel'[p] = "zombie" /\ \A q \in Pids : q # p => kernel'[q] = kernel[q]
  BY <1>1, <1>2 DEF ChildTypes
<1>4. ChildTypes'
  BY <1>1, <1>2 DEF ChildTypes
<1>5. QueueFits'
  <2>1. ASSUME NEW h \in ToSet(queue) PROVE HandleFits(h)'
    BY <1>1, <1>2, <1>3 DEF QueueFits, HandleFits
  <2> QED BY <1>1, <1>2, <2>1 DEF QueueFits, IsActive
<1>6. ExitsFit'
  BY <1>1, <1>2, <1>3 DEF ExitsFit
<1> QED BY <1>1, <1>2, <1>4, <1>5, <1>6 DEF ChildrenInv, ChildrenFit, TurnsFit

LEMMA OtherChildKeeps ==
  ASSUME ChildrenInv, "wraps" \notin Habits, NEW p \in Pids, OtherChild(p)
  PROVE  ChildrenInv'
<1>1. /\ UNCHANGED <<hs, phase, frame, spawned, pid, queue, found, watching, chld>>
      /\ kernel[p] = "free" /\ kernel' = [kernel EXCEPT ![p] = "running"]
      /\ \A g \in ToSet(queue) : pid[g] # p
  BY DEF OtherChild, turnVars
<1>2. TurnsFit /\ ChildTypes /\ QueueFits /\ ExitsFit
  BY DEF ChildrenInv, ChildrenFit
<1>3. kernel'[p] = "running" /\ \A q \in Pids : q # p => kernel'[q] = kernel[q]
  BY <1>1, <1>2 DEF ChildTypes
<1>4. ChildTypes'
  BY <1>1, <1>2 DEF ChildTypes
<1>5. QueueFits'
  <2>1. ASSUME NEW h \in ToSet(queue) PROVE HandleFits(h)'
    BY <1>1, <1>2, <1>3 DEF QueueFits, HandleFits
  <2> QED BY <1>1, <1>2, <2>1 DEF QueueFits, IsActive
<1>6. ExitsFit'
  BY <1>1, <1>2, <1>3 DEF ExitsFit
<1> QED BY <1>1, <1>2, <1>4, <1>5, <1>6 DEF ChildrenInv, ChildrenFit, TurnsFit

(* uv__process_find() gives the handle with the pid.                       *)
FindsNone(p)   == /\ \A g \in ToSet(queue) : pid[g] # p
                  /\ UNCHANGED <<found, user>>
Finds(p, h)    == /\ h \in ToSet(queue) /\ pid[h] = p
                  /\ found' = [found EXCEPT ![h] = @ + 1]

LEMMA ProcessIsFound ==
  ASSUME ChildTypes, NEW p \in Pids, Reap(p)
  PROVE  FindsNone(p) \/ \E h \in Procs : Finds(p, h)
<1> DEFINE hits == {i \in DOMAIN queue : pid[queue[i]] = p}
           m == Min(hits)
<1>1. queue \in Seq(Procs) /\ DOMAIN queue = 1..Len(queue) /\ Len(queue) \in Nat
  BY LenProperties DEF ChildTypes
<1>2. \/ hits = {} /\ UNCHANGED <<found, user>>
      \/ hits # {} /\ found' = [found EXCEPT ![queue[m]] = @ + 1]
  BY DEF Reap
<1>3. CASE hits = {}
  <2>1. \A g \in ToSet(queue) : pid[g] # p
    BY <1>3 DEF ToSet
  <2> QED BY <1>2, <1>3, <2>1 DEF FindsNone
<1>4. CASE hits # {}
  <2>1. hits \in SUBSET Nat
    BY <1>1
  <2>2. m \in hits
    BY <1>4, <2>1, MinIsElement
  <2>3. m \in DOMAIN queue /\ pid[queue[m]] = p
    BY <2>2
  <2> HIDE DEF hits, m
  <2>4. PICK h : h = queue[m]
    OBVIOUS
  <2>6. h \in ToSet(queue) /\ pid[h] = p
    BY <2>3, <2>4 DEF ToSet
  <2>7. h \in Procs
    BY <1>1, <2>6, QueueElements
  <2>5. found' = [found EXCEPT ![h] = @ + 1]
    BY <1>2, <1>4, <2>4
  <2> QED BY <2>5, <2>6, <2>7 DEF Finds
<1> QED BY <1>3, <1>4

LEMMA ReapKeeps ==
  ASSUME ChildrenInv, NEW p \in Pids, Reap(p)
  PROVE  ChildrenInv'
<1>1. /\ UNCHANGED <<hs, phase, frame, pid, queue, watching, chld>>
      /\ frame = Chld /\ kernel[p] = "zombie"
      /\ kernel' = [kernel EXCEPT ![p] = "free"]
      /\ spawned' = [spawned EXCEPT ![p] = None]
  BY DEF Reap
<1>2. TurnsFit /\ ChildTypes /\ QueueFits /\ ExitsFit
  BY DEF ChildrenInv, ChildrenFit
<1>3. /\ kernel'[p] = "free" /\ spawned'[p] = None
      /\ \A q \in Pids : q # p => kernel'[q] = kernel[q] /\ spawned'[q] = spawned[q]
  BY <1>1, <1>2 DEF ChildTypes
<1>4. FindsNone(p) \/ \E h \in Procs : Finds(p, h)
  BY <1>2, ProcessIsFound
<1>5. ChildTypes'
  <2>1. /\ kernel' \in [Pids -> {"free", "running", "zombie"}]
        /\ spawned' \in [Pids -> Procs \cup {None}]
    BY <1>1, <1>2 DEF ChildTypes
  <2>2. CASE FindsNone(p)
    BY <1>1, <1>2, <2>1, <2>2 DEF ChildTypes, FindsNone
  <2>3. CASE \E h \in Procs : Finds(p, h)
    <3>1. PICK h \in Procs : Finds(p, h)
      BY <2>3
    <3>2. found \in [Procs -> Nat] /\ found' = [found EXCEPT ![h] = @ + 1]
      BY <1>2, <3>1 DEF ChildTypes, Finds
    <3>3. found' \in [Procs -> Nat]
      BY <3>2
    <3> QED BY <1>1, <1>2, <2>1, <3>3 DEF ChildTypes
  <2> QED BY <1>4, <2>2, <2>3
<1>6. ToSet(queue) \subseteq Procs
  BY <1>2, QueueElements DEF ChildTypes
<1>7. ASSUME NEW g \in ToSet(queue) PROVE HandleFits(g)'
  <2>1. HandleFits(g) /\ g \in Procs /\ g # None
    BY <1>2, <1>6 DEF QueueFits
  <2>2. CASE pid[g] = p
    <3>1. Finds(p, g)
      BY <1>2, <1>4, <2>2 DEF FindsNone, Finds, QueueFits
    <3>2. found[g] = 0 /\ found'[g] = 1
      BY <1>1, <1>2, <2>1, <2>2, <3>1 DEF HandleFits, Finds, ChildTypes
    <3> QED BY <1>1, <1>3, <2>1, <2>2, <3>2 DEF HandleFits
  <2>3. CASE pid[g] # p
    <3>1. found'[g] = found[g]
      BY <1>2, <1>4, <2>1, <2>3 DEF FindsNone, Finds, ChildTypes
    <3> QED BY <1>1, <1>3, <2>1, <2>3, <3>1 DEF HandleFits
  <2> QED BY <2>2, <2>3
<1>8. QueueFits'
  BY <1>1, <1>2, <1>7 DEF QueueFits, IsActive
<1>9. ExitsFit'
  BY <1>1, <1>2, <1>3 DEF ExitsFit
<1> QED BY <1>1, <1>2, <1>5, <1>8, <1>9 DEF ChildrenInv, ChildrenFit, TurnsFit

LEMMA ChldKeeps ==
  ASSUME ChildrenInv, SignalEvent \/ ChldReturns
  PROVE  ChildrenInv'
<1>1. /\ UNCHANGED <<hs, phase, kernel, spawned, pid, queue, found, watching>>
  BY DEF SignalEvent, ChldReturns, Goes, childVars
<1>2. TurnsFit /\ ChildTypes /\ QueueFits /\ ExitsFit
  BY DEF ChildrenInv, ChildrenFit
<1>3. ChildTypes' /\ QueueFits'
  BY <1>1, <1>2 DEF ChildTypes, QueueFits, HandleFits, IsActive
<1>4. \/ frame' = Chld
      \/ \A p \in Pids : kernel'[p] # "zombie"
  BY <1>1 DEF SignalEvent, ChldReturns, Goes, NoMoreZombies
<1>5. ExitsFit'
  BY <1>1, <1>2, <1>4 DEF ExitsFit, Chld
<1> QED BY <1>1, <1>2, <1>3, <1>5 DEF ChildrenInv, ChildrenFit, TurnsFit

LEMMA ProcessNextKeeps ==
  ASSUME ChildrenInv, "wraps" \notin Habits, [ProcessNext]_programVars
  PROVE  ChildrenInv'
<1>1. CASE UNCHANGED programVars \/ CloseStreams
  <2>1. UNCHANGED <<hs, phase, frame, childVars>>
    BY <1>1 DEF programVars, turnVars, processVars, CloseStreams, Call
  <2> QED BY <2>1, ChildrenAreKept DEF ChildrenInv, TurnsFit, IsActive
<1>2. CASE ProcessTurn /\ UNCHANGED childVars
  BY <1>2, ProcessTurnKeeps
<1>3. CASE SignalEvent \/ ChldReturns
  BY <1>3, ChldKeeps
<1>4. CASE \E h \in Procs : ProcessCall(h)
  BY <1>4, ProcessCloseKeeps, SpawnKeeps, SpawnFailsKeeps DEF ProcessCall
<1>5. CASE \E p \in Pids : OtherChild(p) \/ Exits(p) \/ Reap(p)
  BY <1>5, OtherChildKeeps, ExitsKeeps, ReapKeeps
<1> QED BY <1>1, <1>2, <1>3, <1>4, <1>5 DEF ProcessNext

LEMMA FitsReport == ChildrenInv => ExitsAreReported
<1> SUFFICES ASSUME ChildrenInv PROVE ExitsAreReported
  OBVIOUS
<1>1. ChildTypes /\ QueueFits /\ ExitsFit
  BY DEF ChildrenInv, ChildrenFit
<1>2. ASSUME NEW h \in ToSet(queue) PROVE found[h] = IF Runs(h) THEN 0 ELSE 1
  BY <1>1 DEF QueueFits, HandleFits, Runs
<1> QED BY <1>1, <1>2 DEF ExitsAreReported, QueueFits, ExitsFit

-----------------------------------------------------------------------------
(* In every reachable state a handle in the queue has a pid of its own,    *)
(* the process that has it is the one the handle was spawned with, and     *)
(* SIGCHLD is pending or uv__chld() under way for one that has exited.     *)
THEOREM ChildrenHaveHandles ==
  ASSUME "wraps" \notin Habits
  PROVE  ProcessSpec => []ChildrenInv
<1>1. ProcessInit => ChildrenInv
  BY ProcessInitFits
<1>2. ChildrenInv /\ [ProcessNext]_programVars => ChildrenInv'
  BY ProcessNextKeeps
<1> QED BY <1>1, <1>2, PTL DEF ProcessSpec

(* uv__chld() reports the exit of a child once, to the handle that         *)
(* uv_spawn() gave the child, however children exit, handles are closed    *)
(* and used again and pids come back, but for a handle that is kept while  *)
(* its pid is given to another child.                                      *)
THEOREM ChildrenAreReported ==
  ASSUME "wraps" \notin Habits
  PROVE  ProcessSpec => []ExitsAreReported
<1> QED BY FitsReport, ChildrenHaveHandles, PTL
=============================================================================
