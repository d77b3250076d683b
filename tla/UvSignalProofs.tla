--------------------------- MODULE UvSignalProofs ---------------------------
(***************************************************************************)
(* Theorems about UvSignal, for any number of loops, threads, handles and  *)
(* signals.  The invariant follows the life of a message: it is written    *)
(* by a handler that holds the lock for a handle that is in the tree, so   *)
(* caught_signals - dispatched_signals is the number of messages that are  *)
(* still to be looked at, but for one that a handler has written and not   *)
(* counted yet; and a handle that watches is not closed, unless a call     *)
(* that stops it is under way.                                             *)
(***************************************************************************)
EXTENDS UvSignal, SharedLemmas

-----------------------------------------------------------------------------
(* The byte of uv__signal_lock_pipefd: who walks the tree or changes it    *)
(* has read it, and a loop does not do both.                               *)
Walking == {"walk", "count"}
Changing == {"remove", "removed", "insert", "inserted"}

LockInv ==
  /\ \A t \in Threads : frame[t].at \in Walking => lock = t
  /\ \A l \in Loops : call[l].at \in Changing =>
        lock = l /\ frame[l].at \notin Walking

(* A handler that has written a message has still to count it.             *)
FrameInv ==
  \A t \in Threads :
     /\ frame[t].at = "none" => frame[t] = NoFrame
     /\ frame[t].at # "none" => frame[t].s \in Signums
     /\ IF frame[t].at = "count"
        THEN frame[t].h \in tree /\ frame[t].h \notin frame[t].seen
        ELSE frame[t].h = None

(* A call that is under way: uv_close() has marked its handle, the others  *)
(* may use it.                                                             *)
CallInv ==
  \A l \in Loops :
     LET c == call[l]
     IN /\ c.at = "none" => c = NoCall
        /\ c.at # "none" =>
             /\ c.h \in On(l)
             /\ IF c.op = "close" THEN IsClosing(hs[l], c.h) ELSE IsUsable(hs[l], c.h)
             /\ c.at \in {"start", "insert", "inserted"} => c.op = "start"
             /\ c.op = "start" => c.s \in Signums
             /\ signum[c.h] = None <=> c.at \in {"start", "insert"}

(* What watches is in the tree, but for a handle that a call has removed   *)
(* and not yet marked, and is not closed, but for one whose uv_close() is  *)
(* on its way to stop it.                                                  *)
WatchInv ==
  \A l \in Loops : \A h \in On(l) :
     /\ h \in tree <=> signum[h] # None /\ ~(call[l].at = "removed" /\ call[l].h = h)
     /\ signum[h] # None => IsUsable(hs[l], h) \/ call[l].h = h

(* What is left behind by the phases of uv_run() and by uv_loop_delete().  *)
PhaseInv ==
  \A l \in Loops :
     /\ phase[l] # "event" => buf[l] = <<>>
     /\ phase[l] # "closing" => hs[l].doomed = <<>>
     /\ phase[l] = "gone" =>
          call[l] = NoCall /\ pipe[l] = <<>> /\ \A h \in On(l) : signum[h] = None

(* The messages of h that have still to be looked at, and whether one of   *)
(* them is not counted yet.                                                *)
Of(h)      == [h : {h}, s : Signums]
Pending(h) == HowMany(buf[LoopOf[h]], Of(h)) + HowMany(pipe[LoopOf[h]], Of(h))
Uncounted(h) == \E t \in Threads : frame[t].at = "count" /\ frame[t].h = h
Handling(h)  == {t \in Threads : frame[t].at # "none" /\ h \notin frame[t].seen}

MessageInv ==
  /\ \A l \in Loops :
        /\ pipe[l] \in Seq([h : On(l), s : Signums])
        /\ buf[l]  \in Seq([h : On(l), s : Signums])
  /\ \A h \in Handles : phase[LoopOf[h]] # "gone" =>
        dispatched[h] + Pending(h) = caught[h] + IF Uncounted(h) THEN 1 ELSE 0

(* A handler counts a handle at most once.                                 *)
CaughtInv ==
  \A h \in Handles :
     /\ caught[h] + Cardinality(Handling(h)) <= signals
     /\ dispatched[h] <= signals

(* A handle is to be called back, once, when nothing of it is left.        *)
Due(H) == ToSet(H.closing) \cup ToSet(H.doomed)

CloseOf(l) ==
  /\ CountsItsHandles(hs[l], On(l))
  /\ IsInjective(hs[l].closing) /\ IsInjective(hs[l].doomed)
  /\ ToSet(hs[l].closing) \cap ToSet(hs[l].doomed) = {}
  /\ \A h \in On(l) :
       /\ IsClosed(hs[l], h) =>
            "closing" \in hs[l].flags[h] /\ "ref" \notin hs[l].flags[h]
       /\ phase[l] # "gone" =>
            /\ IsClosed(hs[l], h) => Pending(h) = 0
            /\ h \in Due(hs[l]) <=>
                 IsClosing(hs[l], h) /\ call[l].h # h /\ Pending(h) = 0

CloseInv == \A l \in Loops : CloseOf(l)

(* The types, without the bounds that follow from the rest.                *)
Frames ==
  [at : {"none", "lock", "walk", "count"}, s : Signums \cup {None},
   h : Handles \cup {None}, seen : SUBSET Handles]
CallsUnderWay ==
  [at : {"none", "stop", "remove", "removed", "start", "insert", "inserted"},
   op : {"none", "start", "stop", "close", "delete"},
   h : Handles \cup {None}, s : Signums \cup {None}]

Types ==
  /\ DOMAIN hs = Loops
  /\ signum \in [Handles -> Signums \cup {None}]
  /\ caught \in [Handles -> Nat] /\ dispatched \in [Handles -> Nat]
  /\ tree \subseteq Handles /\ handled \subseteq Signums
  /\ lock \in Threads \cup {None}
  /\ frame \in [Threads -> Frames]
  /\ pipe \in [Loops -> Seq(Messages)] /\ buf \in [Loops -> Seq(Messages)]
  /\ call \in [Loops -> CallsUnderWay]
  /\ phase \in [Loops -> {"out", "poll", "event", "check", "closing", "gone"}]
  /\ user \in [Loops -> BOOLEAN]
  /\ calls \in 0..MaxCalls /\ signals \in 0..MaxSignals

IInv ==
  /\ Types /\ LockInv /\ FrameInv /\ CallInv /\ WatchInv /\ HandledIffWatched
  /\ PhaseInv /\ MessageInv /\ CaughtInv /\ CloseInv

-----------------------------------------------------------------------------
LEMMA LoopsHaveHandles ==
  /\ \A l \in Loops : On(l) \subseteq Handles /\ IsFiniteSet(On(l))
  /\ \A h \in Handles : LoopOf[h] \in Loops /\ h \in On(LoopOf[h])
  /\ \A l \in Loops : \A h \in On(l) : LoopOf[h] = l
  /\ \A h \in Handles \cup Signums \cup Threads : h # None
  /\ Loops \subseteq Threads
<1>1. ASSUME NEW l \in Loops PROVE On(l) \subseteq Handles /\ IsFiniteSet(On(l))
  <2>1. On(l) \in SUBSET Handles
    BY DEF On
  <2> QED BY <2>1, FS_Subset, SignalAssumption
<1> QED BY <1>1, SignalAssumption DEF On, Threads

LEMMA HandlersAreFinite ==
  ASSUME NEW h
  PROVE  IsFiniteSet(Handling(h)) /\ Cardinality(Handling(h)) \in Nat
<1>1. Handling(h) \in SUBSET Threads
  BY DEF Handling
<1> QED BY <1>1, FS_Subset, FS_CardinalityType, SignalAssumption

LEMMA PendingIsNatural ==
  ASSUME Types, NEW h \in Handles
  PROVE  /\ HowMany(buf[LoopOf[h]], Of(h)) \in Nat
         /\ HowMany(pipe[LoopOf[h]], Of(h)) \in Nat
         /\ Pending(h) \in Nat
<1>1. /\ buf[LoopOf[h]] \in Seq(Messages) /\ pipe[LoopOf[h]] \in Seq(Messages)
  BY LoopsHaveHandles DEF Types
<1> QED BY <1>1, PositionsAreFinite DEF Pending

(* The invariant speaks of types that TypeOK bounds.                       *)
LEMMA InvariantTypes == IInv => TypeOK
<1> SUFFICES ASSUME IInv PROVE TypeOK
  OBVIOUS
<1>1. Types /\ CaughtInv /\ CloseInv
  BY DEF IInv
<1>2. \A l \in Loops : hs[l] \in HandlesOf(On(l))
  BY <1>1 DEF CloseInv, CloseOf, CountsItsHandles
<1>3. ASSUME NEW h \in Handles
      PROVE  caught[h] \in 0..MaxSignals /\ dispatched[h] \in 0..MaxSignals
  <2>1. Cardinality(Handling(h)) \in Nat
    BY HandlersAreFinite
  <2>2. caught[h] \in Nat /\ dispatched[h] \in Nat /\ signals \in Nat
        /\ signals <= MaxSignals
    BY <1>1, SignalAssumption DEF Types
  <2> QED BY <1>1, <2>1, <2>2, SignalAssumption DEF CaughtInv
<1>4. /\ caught \in [Handles -> 0..MaxSignals]
      /\ dispatched \in [Handles -> 0..MaxSignals]
  BY <1>1, <1>3 DEF Types
<1> QED BY <1>1, <1>2, <1>4 DEF Types, TypeOK, Frames, CallsUnderWay

LEMMA InitKeepsMessages == Init => IInv
<1> SUFFICES ASSUME Init PROVE IInv
  OBVIOUS
<1> USE LoopsHaveHandles
<1>1. Types
  BY SignalAssumption DEF Init, Types, NoFrame, NoCall, Frames, CallsUnderWay
<1>2. LockInv /\ FrameInv /\ CallInv
  BY DEF Init, LockInv, FrameInv, CallInv, NoFrame, NoCall, Walking, Changing
<1>3. WatchInv /\ HandledIffWatched
  BY DEF Init, WatchInv, HandledIffWatched
<1>4. ASSUME NEW l \in Loops
      PROVE  /\ CountsItsHandles(hs[l], On(l))
             /\ hs[l].closing = <<>> /\ hs[l].doomed = <<>>
             /\ \A h \in On(l) : hs[l].flags[h] = {"ref"}
  <2>1. hs[l] = Fresh(On(l))
    BY DEF Init
  <2> QED BY <2>1, FreshCounts DEF Fresh
<1>5. PhaseInv
  BY <1>4 DEF Init, PhaseInv
<1>6. ASSUME NEW h \in Handles PROVE Pending(h) = 0
  BY NoneInEmpty DEF Init, Pending
<1>7. MessageInv
  <2>1. \A h \in Handles : ~Uncounted(h)
    BY DEF Init, Uncounted, NoFrame
  <2>2. \A h \in Handles : dispatched[h] = 0 /\ caught[h] = 0
    BY DEF Init
  <2>3. \A l \in Loops : buf[l] = <<>> /\ pipe[l] = <<>>
    BY DEF Init
  <2>4. \A l \in Loops : <<>> \in Seq([h : On(l), s : Signums])
    OBVIOUS
  <2> QED BY <1>6, <2>1, <2>2, <2>3, <2>4 DEF MessageInv
<1>8. CaughtInv
  <2>1. ASSUME NEW h \in Handles PROVE Cardinality(Handling(h)) = 0
    <3>1. Handling(h) = {}
      BY DEF Init, Handling, NoFrame
    <3> QED BY <3>1, FS_EmptySet
  <2>2. \A h \in Handles : dispatched[h] = 0 /\ caught[h] = 0
    BY DEF Init
  <2> QED BY <2>1, <2>2 DEF CaughtInv, Init
<1>9. CloseInv
  <2>1. ASSUME NEW l \in Loops
        PROVE  ToSet(hs[l].closing) = {} /\ ToSet(hs[l].doomed) = {}
    BY <1>4 DEF ToSet
  <2>2. ASSUME NEW l \in Loops
        PROVE  IsInjective(hs[l].closing) /\ IsInjective(hs[l].doomed)
    BY <1>4 DEF IsInjective
  <2> QED BY <1>4, <2>1, <2>2 DEF CloseInv, CloseOf, Due, IsClosed, IsClosing
<1> QED BY <1>1, <1>2, <1>3, <1>5, <1>7, <1>8, <1>9 DEF IInv

-----------------------------------------------------------------------------
(* The signal handler.  Its steps leave alone what calls and loops change, *)
(* but for the pipe.                                                       *)
HandlerFrame ==
  UNCHANGED <<hs, signum, dispatched, tree, handled, buf, call, loopVars, calls>>

LEMMA HandlerKeepsTheRest ==
  ASSUME IInv, HandlerFrame
  PROVE  CallInv' /\ WatchInv' /\ HandledIffWatched'
<1> USE DEF HandlerFrame, loopVars
<1>1. CallInv'
  BY DEF IInv, CallInv, IsClosing, IsUsable
<1>2. WatchInv'
  BY DEF IInv, WatchInv, IsUsable
<1>3. HandledIffWatched'
  BY DEF IInv, HandledIffWatched
<1> QED BY <1>1, <1>2, <1>3

(* The same for steps that do not touch the pipe either.                   *)
LEMMA PipeIsKept ==
  ASSUME IInv, HandlerFrame, UNCHANGED pipe
  PROVE  /\ PhaseInv' /\ CloseInv'
         /\ \A h : Pending(h)' = Pending(h)
<1> USE DEF HandlerFrame, loopVars
<1>1. \A h : Pending(h)' = Pending(h)
  BY DEF Pending
<1>2. PhaseInv'
  BY DEF IInv, PhaseInv
<1>3. CloseInv'
  <2>1. CloseInv
    BY DEF IInv
  <2> QED BY <1>1, <2>1 DEF CloseInv, CloseOf, Due, IsClosed, IsClosing
<1> QED BY <1>1, <1>2, <1>3

(* Who holds the lock in a handler is alone with the tree.                 *)
LEMMA WalkerIsAlone ==
  ASSUME IInv, NEW t \in Threads, frame[t].at \in Walking
  PROVE  /\ lock = t
         /\ \A u \in Threads : frame[u].at \in Walking => u = t
         /\ \A l \in Loops : call[l].at \notin Changing
BY LoopsHaveHandles DEF IInv, LockInv

(* A handle that watches is not closed.                                    *)
LEMMA WatcherIsOpen ==
  ASSUME IInv, NEW l \in Loops, NEW h \in On(l), signum[h] # None
  PROVE  ~IsClosed(hs[l], h)
<1>1. h # None
  BY LoopsHaveHandles
<1>2. IsClosed(hs[l], h) => ~IsUsable(hs[l], h)
  BY DEF IInv, CloseInv, CloseOf, IsUsable
<1>3. CASE IsUsable(hs[l], h)
  BY <1>2, <1>3
<1>4. CASE ~IsUsable(hs[l], h)
  <2>1. call[l].h = h
    BY <1>4 DEF IInv, WatchInv
  <2>2. call[l].at # "none"
    BY <1>1, <2>1 DEF IInv, CallInv, NoCall
  <2>3. IsClosing(hs[l], h)
    BY <1>4, <2>1, <2>2 DEF IInv, CallInv
  <2> QED BY <2>3 DEF IsClosing, IsClosed
<1> QED BY <1>3, <1>4

LEMMA SendKeeps ==
  ASSUME IInv, NEW t \in Threads, NEW s \in Signums, Send(t, s)
  PROVE  IInv'
<1> USE LoopsHaveHandles
<1>1. Types /\ Types' /\ HandlerFrame /\ UNCHANGED <<pipe, caught, lock>>
  <2>1. Types
    BY DEF IInv
  <2>2. frame' \in [Threads -> Frames]
    <3> DEFINE f == [frame[t] EXCEPT !.at = "lock", !.s = s]
    <3>1. frame[t] \in Frames
      BY <2>1 DEF Types
    <3>2. f \in Frames
      BY <3>1 DEF Frames
    <3>3. frame' = [frame EXCEPT ![t] = f]
      BY <2>1 DEF Send, Types
    <3> HIDE DEF f
    <3> QED BY <2>1, <3>2, <3>3 DEF Types
  <2>3. Types'
    BY <2>1, <2>2, SignalAssumption DEF Types, Send, handleVars, treeVars, loopVars
  <2> QED BY <2>1, <2>3 DEF Send, handleVars, treeVars, loopVars, HandlerFrame
<1>2. /\ frame[t] = NoFrame /\ frame'[t].at = "lock" /\ frame'[t].s = s
      /\ frame'[t].h = None /\ frame'[t].seen = {}
      /\ \A u \in Threads : u # t => frame'[u] = frame[u]
      /\ signals' = signals + 1 /\ lock # t
  BY <1>1 DEF Send, NoFrame, Types, Frames
<1>3. LockInv'
  BY <1>1, <1>2 DEF IInv, LockInv, Walking, HandlerFrame
<1>4. FrameInv'
  BY <1>1, <1>2 DEF IInv, FrameInv, HandlerFrame
<1>5. MessageInv'
  <2>1. ASSUME NEW h \in Handles PROVE Uncounted(h)' <=> Uncounted(h)
    BY <1>2 DEF Uncounted, NoFrame
  <2>2. MessageInv
    BY DEF IInv
  <2> QED BY <1>1, <2>1, <2>2, PipeIsKept DEF MessageInv, HandlerFrame, loopVars
<1>6. CaughtInv'
  <2>1. ASSUME NEW h \in Handles
        PROVE  Cardinality(Handling(h)') = Cardinality(Handling(h)) + 1
    <3>1. Handling(h)' = Handling(h) \cup {t} /\ t \notin Handling(h)
      BY <1>2 DEF Handling, NoFrame
    <3> QED BY <3>1, HandlersAreFinite, FS_AddElement
  <2>2. ASSUME NEW h \in Handles
        PROVE  caught'[h] + Cardinality(Handling(h)') <= signals' /\ dispatched'[h] <= signals'
    <3>1. caught'[h] = caught[h] /\ dispatched'[h] = dispatched[h]
      BY <1>1 DEF HandlerFrame
    <3>2. /\ caught[h] \in Nat /\ dispatched[h] \in Nat /\ signals \in Nat
      BY <1>1 DEF Types
    <3>3. Cardinality(Handling(h)) \in Nat
      BY HandlersAreFinite
    <3>4. caught[h] + Cardinality(Handling(h)) <= signals /\ dispatched[h] <= signals
      BY DEF IInv, CaughtInv
    <3> QED BY <1>2, <2>1, <3>1, <3>2, <3>3, <3>4
  <2> QED BY <2>2 DEF CaughtInv
<1> QED BY <1>1, <1>3, <1>4, <1>5, <1>6, HandlerKeepsTheRest, PipeIsKept DEF IInv, Types

LEMMA HandlerLocksKeeps ==
  ASSUME IInv, NEW t \in Threads, HandlerLocks(t)
  PROVE  IInv'
<1> USE LoopsHaveHandles
<1>1. Types /\ Types' /\ HandlerFrame /\ UNCHANGED <<pipe, caught, signals>>
  <2>1. Types
    BY DEF IInv
  <2>2. frame' \in [Threads -> Frames]
    <3> DEFINE f == [frame[t] EXCEPT !.at = "walk"]
    <3>1. frame[t] \in Frames
      BY <2>1 DEF Types
    <3>2. f \in Frames
      BY <3>1 DEF Frames
    <3>3. frame' = [frame EXCEPT ![t] = f]
      BY <2>1 DEF HandlerLocks, Types
    <3> HIDE DEF f
    <3> QED BY <2>1, <3>2, <3>3 DEF Types
  <2>3. Types'
    BY <2>1, <2>2, SignalAssumption DEF Types, HandlerLocks, handleVars, treeVars, loopVars
  <2> QED BY <2>1, <2>3 DEF HandlerLocks, handleVars, treeVars, loopVars, HandlerFrame
<1>2. /\ frame[t].at = "lock" /\ frame'[t].at = "walk" /\ frame'[t].s = frame[t].s
      /\ frame'[t].h = frame[t].h /\ frame'[t].seen = frame[t].seen
      /\ \A u \in Threads : u # t => frame'[u] = frame[u]
      /\ lock = None /\ lock' = t
  BY <1>1 DEF HandlerLocks, Types, Frames
<1>3. LockInv'
  BY <1>1, <1>2 DEF IInv, LockInv, Walking, HandlerFrame
<1>4. FrameInv'
  BY <1>1, <1>2 DEF IInv, FrameInv, HandlerFrame
<1>5. MessageInv'
  <2>1. ASSUME NEW h \in Handles PROVE Uncounted(h)' <=> Uncounted(h)
    BY <1>2 DEF Uncounted
  <2>2. MessageInv
    BY DEF IInv
  <2> QED BY <1>1, <2>1, <2>2, PipeIsKept DEF MessageInv, HandlerFrame, loopVars
<1>6. CaughtInv'
  <2>1. ASSUME NEW h \in Handles PROVE Handling(h)' = Handling(h)
    BY <1>2 DEF Handling
  <2> QED BY <1>1, <2>1 DEF IInv, CaughtInv, HandlerFrame
<1> QED BY <1>1, <1>3, <1>4, <1>5, <1>6, HandlerKeepsTheRest, PipeIsKept DEF IInv, Types

(* A message more in the pipe of the loop of h.                            *)
LEMMA MessageAppended ==
  ASSUME Types, NEW h \in Handles, NEW s \in Signums, UNCHANGED buf,
         pipe' = [pipe EXCEPT ![LoopOf[h]] = Append(@, [h |-> h, s |-> s])]
  PROVE  /\ Pending(h)' = Pending(h) + 1
         /\ \A k \in Handles : k # h => Pending(k)' = Pending(k)
<1> DEFINE l == LoopOf[h]
           m == [h |-> h, s |-> s]
<1>1. l \in Loops /\ m \in Messages
  BY LoopsHaveHandles DEF Messages
<1>2. /\ pipe[l] \in Seq(Messages) /\ pipe'[l] = Append(pipe[l], m)
      /\ \A k \in Loops : k # l => pipe'[k] = pipe[k]
  BY <1>1 DEF Types
<1>3. m \in Of(h) /\ \A k \in Handles : k # h => m \notin Of(k)
  BY DEF Of
<1> HIDE DEF m
<1>4. ASSUME NEW K
      PROVE  HowMany(pipe'[l], K) = IF m \in K THEN HowMany(pipe[l], K) + 1
                                    ELSE HowMany(pipe[l], K)
  BY <1>1, <1>2, HowManyAppended
<1>5. Pending(h)' = Pending(h) + 1
  <2>1. HowMany(pipe'[l], Of(h)) = HowMany(pipe[l], Of(h)) + 1
    BY <1>3, <1>4
  <2> QED BY <2>1, PendingIsNatural DEF Pending
<1>6. ASSUME NEW k \in Handles, k # h PROVE Pending(k)' = Pending(k)
  <2>1. HowMany(pipe'[LoopOf[k]], Of(k)) = HowMany(pipe[LoopOf[k]], Of(k))
    BY <1>2, <1>3, <1>4, <1>6, LoopsHaveHandles
  <2> QED BY <2>1 DEF Pending
<1> QED BY <1>5, <1>6

LEMMA WriteMessageKeeps ==
  ASSUME IInv, NEW t \in Threads, NEW h \in Handles, WriteMessage(t, h)
  PROVE  IInv'
<1> USE LoopsHaveHandles
<1> DEFINE l == LoopOf[h]
           s == frame[t].s
<1>1. /\ Types /\ l \in Loops /\ h \in On(l)
      /\ frame[t].at = "walk" /\ s \in Signums /\ h \in tree
      /\ h \notin frame[t].seen
  BY DEF IInv, FrameInv, WriteMessage, Found, Watching
<1>2. /\ signum[h] # None /\ phase[l] # "gone"
      /\ IsUsable(hs[l], h) \/ call[l].h = h
  BY <1>1 DEF IInv, WatchInv, PhaseInv
<1>3. /\ lock = t /\ \A u \in Threads : frame[u].at \in Walking => u = t
      /\ \A k \in Loops : call[k].at \notin Changing
  BY <1>1, WalkerIsAlone DEF Walking
<1>4. /\ HandlerFrame /\ UNCHANGED <<caught, lock, signals>>
      /\ pipe' = [pipe EXCEPT ![l] = Append(@, [h |-> h, s |-> s])]
  BY DEF WriteMessage, handleVars, treeVars, loopVars, HandlerFrame
<1>5. /\ frame'[t].at = "count" /\ frame'[t].s = s /\ frame'[t].h = h
      /\ frame'[t].seen = frame[t].seen
      /\ \A u \in Threads : u # t => frame'[u] = frame[u]
      /\ frame' \in [Threads -> Frames]
  <2> DEFINE f == [frame[t] EXCEPT !.at = "count", !.h = h]
  <2>1. frame[t] \in Frames
    BY <1>1 DEF Types
  <2>2. /\ f \in Frames /\ f.at = "count" /\ f.h = h /\ f.s = frame[t].s
        /\ f.seen = frame[t].seen
    BY <2>1 DEF Frames
  <2>3. frame' = [frame EXCEPT ![t] = f]
    BY <1>1 DEF WriteMessage, Types
  <2> HIDE DEF f
  <2> QED BY <1>1, <2>2, <2>3 DEF Types
<1>6. /\ pipe[l] \in Seq([h : On(l), s : Signums])
      /\ pipe'[l] = Append(pipe[l], [h |-> h, s |-> s])
      /\ \A k \in Loops : k # l => pipe'[k] = pipe[k]
      /\ [h |-> h, s |-> s] \in [h : On(l), s : Signums]
  BY <1>1, <1>4 DEF IInv, MessageInv, Types
<1>7. pipe'[l] \in Seq([h : On(l), s : Signums])
  BY <1>6, AppendProperties
<1>8. Types'
  <2>1. [h |-> h, s |-> s] \in Messages /\ pipe[l] \in Seq(Messages)
    BY <1>1 DEF Messages, Types
  <2>2. Append(pipe[l], [h |-> h, s |-> s]) \in Seq(Messages)
    BY <2>1, AppendProperties
  <2>3. pipe' \in [Loops -> Seq(Messages)]
    BY <1>1, <1>4, <2>2 DEF Types
  <2> QED BY <1>1, <1>4, <1>5, <2>3 DEF Types, HandlerFrame, loopVars
<1>9. LockInv'
  BY <1>1, <1>3, <1>4, <1>5 DEF IInv, LockInv, Walking, HandlerFrame
<1>10. FrameInv'
  BY <1>1, <1>4, <1>5 DEF IInv, FrameInv, HandlerFrame
<1>11. /\ Pending(h)' = Pending(h) + 1 /\ Pending(h) \in Nat
       /\ \A k \in Handles : k # h => Pending(k)' = Pending(k)
  BY <1>1, <1>4, MessageAppended, PendingIsNatural DEF HandlerFrame
<1>12. MessageInv'
  <2>1. ASSUME NEW k \in Handles PROVE ~Uncounted(k) /\ (Uncounted(k)' <=> k = h)
    BY <1>1, <1>3, <1>5 DEF Uncounted, Walking
  <2>2. ASSUME NEW k \in Handles, phase'[LoopOf[k]] # "gone"
        PROVE  dispatched'[k] + Pending(k)' = caught'[k] + IF Uncounted(k)' THEN 1 ELSE 0
    <3>1. dispatched[k] + Pending(k) = caught[k]
      BY <1>1, <1>4, <2>1, <2>2 DEF IInv, MessageInv, HandlerFrame, loopVars, Types
    <3>2. dispatched[k] \in Nat /\ caught[k] \in Nat /\ Pending(k) \in Nat
      BY <1>1, PendingIsNatural DEF Types
    <3>3. dispatched'[k] = dispatched[k] /\ caught'[k] = caught[k]
      BY <1>4 DEF HandlerFrame
    <3> QED BY <1>11, <2>1, <3>1, <3>2, <3>3
  <2>3. ASSUME NEW k \in Loops
        PROVE  /\ pipe'[k] \in Seq([h : On(k), s : Signums])
               /\ buf'[k] \in Seq([h : On(k), s : Signums])
    BY <1>4, <1>6, <1>7 DEF IInv, MessageInv, HandlerFrame
  <2> QED BY <2>2, <2>3 DEF MessageInv
<1>13. CaughtInv'
  <2>1. ASSUME NEW k \in Handles PROVE Handling(k)' = Handling(k)
    BY <1>1, <1>5 DEF Handling
  <2> QED BY <1>4, <2>1 DEF IInv, CaughtInv, HandlerFrame
<1>14. PhaseInv'
  BY <1>2, <1>4, <1>6 DEF IInv, PhaseInv, HandlerFrame, loopVars
<1>15. CloseInv'
  <2>1. /\ ~IsClosed(hs[l], h)
        /\ ~(IsClosing(hs[l], h) /\ call[l].h # h)
    BY <1>1, <1>2, WatcherIsOpen DEF IsClosing, IsUsable
  <2>2. h \notin Due(hs[l])
    BY <1>1, <1>2, <2>1 DEF IInv, CloseInv, CloseOf
  <2>3. hs' = hs /\ call' = call /\ phase' = phase
    BY <1>4 DEF HandlerFrame, loopVars
  <2>4. ASSUME NEW k \in Loops, NEW g \in On(k), phase[k] # "gone"
        PROVE  /\ IsClosed(hs[k], g) => Pending(g)' = 0
               /\ g \in Due(hs[k]) <=>
                    IsClosing(hs[k], g) /\ call[k].h # g /\ Pending(g)' = 0
    <3>1. CASE g = h
      BY <1>1, <1>11, <2>1, <2>2, <3>1
    <3>2. CASE g # h
      BY <1>11, <2>4, <3>2 DEF IInv, CloseInv, CloseOf
    <3> QED BY <3>1, <3>2
  <2>5. CloseInv
    BY DEF IInv
  <2> QED BY <2>3, <2>4, <2>5 DEF CloseInv, CloseOf
<1> QED BY <1>4, <1>8, <1>9, <1>10, <1>12, <1>13, <1>14, <1>15, HandlerKeepsTheRest
        DEF IInv, Types

LEMMA CountCaughtKeeps ==
  ASSUME IInv, NEW t \in Threads, CountCaught(t)
  PROVE  IInv'
<1> USE LoopsHaveHandles
<1>0. PICK h \in Handles : h = frame[t].h
  BY DEF IInv, FrameInv, CountCaught, Types
<1>1. /\ Types /\ frame[t].at = "count" /\ h \in Handles
      /\ h \in tree /\ h \notin frame[t].seen
  BY <1>0 DEF IInv, FrameInv, CountCaught, Types
<1>2. /\ lock = t /\ \A u \in Threads : frame[u].at \in Walking => u = t
  BY <1>1, WalkerIsAlone DEF Walking
<1>3. /\ HandlerFrame /\ UNCHANGED <<pipe, lock, signals>>
      /\ caught' = [caught EXCEPT ![h] = @ + 1]
  BY <1>0 DEF CountCaught, treeVars, loopVars, HandlerFrame
<1>4. /\ frame'[t].at = "walk" /\ frame'[t].s = frame[t].s /\ frame'[t].h = None
      /\ frame'[t].seen = frame[t].seen \cup {h}
      /\ \A u \in Threads : u # t => frame'[u] = frame[u]
      /\ frame' \in [Threads -> Frames]
  <2> DEFINE f == [frame[t] EXCEPT !.at = "walk", !.h = None, !.seen = @ \cup {h}]
  <2>1. frame[t] \in Frames
    BY <1>1 DEF Types
  <2>2. /\ f \in Frames /\ f.at = "walk" /\ f.h = None /\ f.s = frame[t].s
        /\ f.seen = frame[t].seen \cup {h}
    BY <1>1, <2>1 DEF Frames
  <2>3. frame' = [frame EXCEPT ![t] = f]
    BY <1>0, <1>1 DEF CountCaught, Types
  <2> HIDE DEF f
  <2> QED BY <1>1, <2>2, <2>3 DEF Types
<1>5. /\ caught' \in [Handles -> Nat] /\ caught'[h] = caught[h] + 1
      /\ \A k \in Handles : k # h => caught'[k] = caught[k]
  BY <1>1, <1>3 DEF Types
<1>6. Types'
  BY <1>1, <1>3, <1>4, <1>5 DEF Types, HandlerFrame, loopVars
<1>7. LockInv'
  BY <1>1, <1>3, <1>4 DEF IInv, LockInv, Walking, HandlerFrame
<1>8. FrameInv'
  BY <1>1, <1>3, <1>4 DEF IInv, FrameInv, HandlerFrame
<1>9. MessageInv'
  <2>1. ASSUME NEW k \in Handles PROVE ~Uncounted(k)' /\ (Uncounted(k) <=> k = h)
    BY <1>0, <1>1, <1>2, <1>4 DEF Uncounted, Walking
  <2>2. ASSUME NEW k \in Handles, phase'[LoopOf[k]] # "gone"
        PROVE  dispatched'[k] + Pending(k)' = caught'[k] + IF Uncounted(k)' THEN 1 ELSE 0
    <3>1. dispatched[k] + Pending(k) = caught[k] + IF Uncounted(k) THEN 1 ELSE 0
      BY <1>3, <2>2 DEF IInv, MessageInv, HandlerFrame, loopVars
    <3>2. dispatched[k] \in Nat /\ caught[k] \in Nat /\ Pending(k) \in Nat
      BY <1>1, PendingIsNatural DEF Types
    <3>3. dispatched'[k] = dispatched[k] /\ Pending(k)' = Pending(k)
      BY <1>3, PipeIsKept DEF HandlerFrame
    <3> QED BY <1>5, <2>1, <3>1, <3>2, <3>3
  <2> QED BY <1>3, <2>2 DEF IInv, MessageInv, HandlerFrame
<1>10. CaughtInv'
  <2>1. /\ Handling(h)' = Handling(h) \ {t} /\ t \in Handling(h)
        /\ \A k \in Handles : k # h => Handling(k)' = Handling(k)
    BY <1>1, <1>4 DEF Handling
  <2>2. Cardinality(Handling(h)') = Cardinality(Handling(h)) - 1
    BY <2>1, HandlersAreFinite, FS_RemoveElement
  <2>3. ASSUME NEW k \in Handles
        PROVE  caught'[k] + Cardinality(Handling(k)') <= signals' /\ dispatched'[k] <= signals'
    <3>1. caught[k] \in Nat /\ signals \in Nat /\ Cardinality(Handling(k)) \in Nat
      BY <1>1, HandlersAreFinite DEF Types
    <3>2. caught[k] + Cardinality(Handling(k)) <= signals /\ dispatched[k] <= signals
      BY DEF IInv, CaughtInv
    <3>3. dispatched'[k] = dispatched[k] /\ signals' = signals
      BY <1>3 DEF HandlerFrame
    <3>4. CASE k = h
      BY <1>5, <2>2, <3>1, <3>2, <3>3, <3>4
    <3>5. CASE k # h
      <4>1. Handling(k)' = Handling(k) /\ caught'[k] = caught[k]
        BY <1>5, <2>1, <3>5
      <4> QED BY <3>2, <3>3, <4>1
    <3> QED BY <3>4, <3>5
  <2> QED BY <2>3 DEF CaughtInv
<1> QED BY <1>3, <1>6, <1>7, <1>8, <1>9, <1>10, HandlerKeepsTheRest, PipeIsKept DEF IInv

LEMMA HandlerReturnsKeeps ==
  ASSUME IInv, NEW t \in Threads, HandlerReturns(t)
  PROVE  IInv'
<1> USE LoopsHaveHandles
<1>1. Types /\ frame[t].at = "walk"
  BY DEF IInv, HandlerReturns
<1>2. /\ lock = t /\ \A u \in Threads : frame[u].at \in Walking => u = t
      /\ \A l \in Loops : call[l].at \notin Changing
  BY <1>1, WalkerIsAlone DEF Walking
<1>3. /\ HandlerFrame /\ UNCHANGED <<caught, pipe, signals>> /\ lock' = None
  BY DEF HandlerReturns, handleVars, loopVars, HandlerFrame
<1>4. /\ frame'[t] = NoFrame
      /\ \A u \in Threads : u # t => frame'[u] = frame[u]
      /\ frame' \in [Threads -> Frames]
  <2>1. NoFrame \in Frames
    BY DEF NoFrame, Frames
  <2> QED BY <1>1, <2>1 DEF HandlerReturns, Types
<1>5. frame'[t].at = "none" /\ frame'[t].h = None
  BY <1>4 DEF NoFrame
<1>6. Types'
  BY <1>1, <1>3, <1>4 DEF Types, HandlerFrame, loopVars
<1>7. LockInv'
  BY <1>2, <1>3, <1>4, <1>5 DEF IInv, LockInv, Walking, HandlerFrame
<1>8. FrameInv'
  BY <1>1, <1>3, <1>4, <1>5 DEF IInv, FrameInv, HandlerFrame
<1>9. MessageInv'
  <2>1. ASSUME NEW k \in Handles PROVE Uncounted(k)' <=> Uncounted(k)
    BY <1>1, <1>4, <1>5 DEF Uncounted
  <2>2. MessageInv
    BY DEF IInv
  <2> QED BY <1>3, <2>1, <2>2, PipeIsKept DEF MessageInv, HandlerFrame, loopVars
<1>10. CaughtInv'
  <2>1. ASSUME NEW k \in Handles
        PROVE  Cardinality(Handling(k)') <= Cardinality(Handling(k))
    <3>1. Handling(k)' \in SUBSET Handling(k)
      BY <1>4, <1>5 DEF Handling
    <3> QED BY <3>1, HandlersAreFinite, FS_Subset
  <2>2. ASSUME NEW k \in Handles
        PROVE  caught'[k] + Cardinality(Handling(k)') <= signals' /\ dispatched'[k] <= signals'
    <3>1. /\ caught[k] \in Nat /\ signals \in Nat
          /\ Cardinality(Handling(k)) \in Nat /\ Cardinality(Handling(k)') \in Nat
      <4>1. Handling(k)' \in SUBSET Handling(k)
        BY <1>4, <1>5 DEF Handling
      <4> QED BY <1>1, <4>1, HandlersAreFinite, FS_Subset, FS_CardinalityType DEF Types
    <3>2. caught[k] + Cardinality(Handling(k)) <= signals /\ dispatched[k] <= signals
      BY DEF IInv, CaughtInv
    <3>3. caught'[k] = caught[k] /\ dispatched'[k] = dispatched[k] /\ signals' = signals
      BY <1>3 DEF HandlerFrame
    <3> QED BY <2>1, <3>1, <3>2, <3>3
  <2> QED BY <2>2 DEF CaughtInv
<1> QED BY <1>3, <1>6, <1>7, <1>8, <1>9, <1>10, HandlerKeepsTheRest, PipeIsKept DEF IInv

-----------------------------------------------------------------------------
(* The calls of the program.  What they leave alone.                       *)
MessagesUntouched ==
  UNCHANGED <<caught, dispatched, frame, pipe, buf, phase, user, signals>>

LEMMA MessagesAreKept ==
  ASSUME IInv, MessagesUntouched
  PROVE  /\ MessageInv' /\ CaughtInv'
         /\ \A h : Pending(h)' = Pending(h)
<1>1. \A h : /\ Pending(h)' = Pending(h)
             /\ Uncounted(h)' <=> Uncounted(h)
             /\ Handling(h)' = Handling(h)
  BY DEF MessagesUntouched, Pending, Uncounted, Handling
<1>2. MessageInv /\ CaughtInv
  BY DEF IInv
<1> QED BY <1>1, <1>2 DEF MessageInv, CaughtInv, MessagesUntouched

(* Who holds the lock in a call is alone with the tree.                    *)
LEMMA ChangerIsAlone ==
  ASSUME IInv, NEW l \in Loops, call[l].at \in Changing
  PROVE  /\ lock = l
         /\ \A t \in Threads : frame[t].at \notin Walking
         /\ \A k \in Loops : call[k].at \in Changing => k = l
         /\ \A h : ~Uncounted(h)
<1>1. /\ lock = l
      /\ \A t \in Threads : frame[t].at \notin Walking
      /\ \A k \in Loops : call[k].at \in Changing => k = l
  BY LoopsHaveHandles DEF IInv, LockInv
<1> QED BY <1>1 DEF Uncounted, Walking

(* Loops that a step leaves alone.                                         *)
LEMMA OthersCloseAlike ==
  ASSUME NEW k \in Loops, CloseOf(k), hs'[k] = hs[k], call'[k].h = call[k].h,
         phase'[k] = phase[k], \A h \in On(k) : Pending(h)' = Pending(h)
  PROVE  CloseOf(k)'
BY DEF CloseOf, Due, IsClosed, IsClosing

(* A call begins for a handle that may be used.                            *)
LEMMA CallBegins ==
  ASSUME IInv, NEW l \in Loops, NEW c \in CallsUnderWay, c.h \in On(l),
         call[l] = NoCall, phase[l] # "gone", IsUsable(hs[l], c.h),
         c.at \in {"start", "stop"}, c.op # "close",
         c.at = "start" => c.op = "start", c.op = "start" => c.s \in Signums,
         signum[c.h] = None <=> c.at = "start",
         call' = [call EXCEPT ![l] = c], calls' \in 0..MaxCalls,
         UNCHANGED <<hs, signum, tree, handled, lock>>, MessagesUntouched
  PROVE  IInv'
<1> USE LoopsHaveHandles DEF MessagesUntouched
<1>1. Types
  BY DEF IInv
<1>2. /\ call'[l] = c /\ \A k \in Loops : k # l => call'[k] = call[k]
      /\ call' \in [Loops -> CallsUnderWay]
  BY <1>1 DEF Types
<1>3. call[l].at = "none" /\ call[l].h = None
  BY DEF NoCall
<1>4. Types'
  BY <1>1, <1>2 DEF Types
<1>5. LockInv'
  BY <1>2 DEF IInv, LockInv, Changing
<1>6. FrameInv'
  BY DEF IInv, FrameInv
<1>7. CallInv'
  BY <1>2 DEF IInv, CallInv, IsClosing, IsUsable
<1>8. WatchInv'
  BY <1>2, <1>3 DEF IInv, WatchInv, IsUsable
<1>9. HandledIffWatched'
  BY DEF IInv, HandledIffWatched
<1>10. PhaseInv'
  BY <1>2 DEF IInv, PhaseInv
<1>11. CloseInv'
  <2>1. ASSUME NEW k \in Loops, k # l PROVE CloseOf(k)'
    BY <1>2, <2>1, MessagesAreKept, OthersCloseAlike DEF IInv, CloseInv
  <2>2. CloseOf(l)'
    <3>1. CloseOf(l)
      BY DEF IInv, CloseInv
    <3>2. \A h \in On(l) : Pending(h)' = Pending(h)
      BY MessagesAreKept
    <3>3. \A h \in On(l) : IsClosing(hs[l], h) /\ call[l].h # h
                           <=> IsClosing(hs'[l], h) /\ call'[l].h # h
      BY <1>2, <1>3 DEF IsClosing, IsUsable
    <3>4. hs'[l] = hs[l] /\ phase'[l] = phase[l]
      OBVIOUS
    <3> QED BY <3>1, <3>2, <3>3, <3>4 DEF CloseOf, Due, IsClosed
  <2> QED BY <2>1, <2>2 DEF CloseInv
<1> QED BY <1>4, <1>5, <1>6, <1>7, <1>8, <1>9, <1>10, <1>11, MessagesAreKept DEF IInv

LEMMA SignalStartKeeps ==
  ASSUME IInv, NEW l \in Loops, NEW h \in Handles, NEW s \in Signums,
         SignalStart(l, h, s)
  PROVE  IInv'
<1> DEFINE c == [at |-> IF signum[h] = None THEN "start" ELSE "stop",
                 op |-> "start", h |-> h, s |-> s]
<1>1. Types
  BY DEF IInv
<1>2. c \in CallsUnderWay
  BY DEF CallsUnderWay
<1>3. /\ h \in On(l) /\ call[l] = NoCall /\ phase[l] # "gone"
      /\ IsUsable(hs[l], h) /\ calls' \in 0..MaxCalls
      /\ call' = [call EXCEPT ![l] = c]
      /\ UNCHANGED <<hs, signum, tree, handled, lock>> /\ MessagesUntouched
  BY <1>1, SignalAssumption
     DEF SignalStart, Calls, Continue, Types, handleVars, treeVars, loopVars,
         MessagesUntouched
<1>4. /\ c.h = h /\ c.op = "start" /\ c.s = s /\ c.at \in {"start", "stop"}
      /\ signum[h] = None <=> c.at = "start"
  OBVIOUS
<1> HIDE DEF c
<1> QED BY <1>2, <1>3, <1>4, CallBegins

LEMMA SignalStopKeeps ==
  ASSUME IInv, NEW l \in Loops, NEW h \in Handles, SignalStop(l, h)
  PROVE  IInv'
<1> DEFINE c == [at |-> "stop", op |-> "stop", h |-> h, s |-> None]
<1>1. Types
  BY DEF IInv
<1>2. c \in CallsUnderWay
  BY DEF CallsUnderWay
<1>3. /\ h \in On(l) /\ call[l] = NoCall /\ phase[l] # "gone"
      /\ IsUsable(hs[l], h) /\ signum[h] # None /\ calls' \in 0..MaxCalls
      /\ call' = [call EXCEPT ![l] = c]
      /\ UNCHANGED <<hs, signum, tree, handled, lock>> /\ MessagesUntouched
  BY <1>1, SignalAssumption
     DEF SignalStop, Calls, Continue, Types, handleVars, treeVars, loopVars,
         MessagesUntouched
<1>4. c.h = h /\ c.op = "stop" /\ c.at = "stop"
  OBVIOUS
<1> HIDE DEF c
<1> QED BY <1>2, <1>3, <1>4, CallBegins

LEMMA DeleteLoopKeeps ==
  ASSUME IInv, NEW l \in Loops, DeleteLoop(l)
  PROVE  IInv'
<1> USE LoopsHaveHandles
<1>1. /\ Types /\ call[l] = NoCall /\ call[l].h = None /\ phase[l] = "out"
      /\ buf[l] = <<>> /\ hs[l].doomed = <<>>
  BY DEF IInv, DeleteLoop, PhaseInv, NoCall
<1>2. CASE \E h \in On(l) : signum[h] # None
  <2>1. PICK h \in On(l) : signum[h] # None /\ Continue(l, "delete", h, None, "stop")
    BY <1>2 DEF DeleteLoop
  <2> DEFINE c == [at |-> "stop", op |-> "delete", h |-> h, s |-> None]
  <2>2. c \in CallsUnderWay
    BY DEF CallsUnderWay
  <2>3. IsUsable(hs[l], h)
    BY <1>1, <2>1 DEF IInv, WatchInv
  <2>4. /\ call' = [call EXCEPT ![l] = c] /\ calls' \in 0..MaxCalls
        /\ UNCHANGED <<hs, signum, tree, handled, lock>> /\ MessagesUntouched
    BY <1>1, <1>2, <2>1
       DEF DeleteLoop, Continue, Types, handleVars, treeVars, loopVars,
           MessagesUntouched
  <2>5. c.h = h /\ c.op = "delete" /\ c.at = "stop"
    OBVIOUS
  <2>6. phase[l] # "gone"
    BY <1>1
  <2> HIDE DEF c
  <2> QED BY <1>1, <2>1, <2>2, <2>3, <2>4, <2>5, <2>6, CallBegins
<1>3. CASE \A h \in On(l) : signum[h] = None
  <2>1. /\ phase' = [phase EXCEPT ![l] = "gone"] /\ pipe' = [pipe EXCEPT ![l] = <<>>]
        /\ UNCHANGED <<handleVars, treeVars, frame, buf, user, calls, signals, call>>
    BY <1>3 DEF DeleteLoop
  <2> USE DEF handleVars, treeVars
  <2>2. /\ phase'[l] = "gone" /\ pipe'[l] = <<>>
        /\ \A k \in Loops : k # l => phase'[k] = phase[k] /\ pipe'[k] = pipe[k]
        /\ <<>> \in Seq(Messages) /\ <<>> \in Seq([h : On(l), s : Signums])
    BY <1>1, <2>1 DEF Types
  <2>3. Types'
    BY <1>1, <2>1, <2>2 DEF Types
  <2>4. LockInv' /\ FrameInv'
    BY <2>1 DEF IInv, LockInv, FrameInv
  <2>5. CallInv' /\ WatchInv' /\ HandledIffWatched'
    BY <2>1 DEF IInv, CallInv, WatchInv, HandledIffWatched, IsClosing, IsUsable
  <2>6. PhaseInv'
    BY <1>1, <1>3, <2>1, <2>2 DEF IInv, PhaseInv
  <2>7. \A k \in Loops : k # l => \A h \in On(k) : Pending(h)' = Pending(h)
    BY <2>1, <2>2 DEF Pending
  <2>8. MessageInv'
    <3>1. ASSUME NEW h \in Handles, phase'[LoopOf[h]] # "gone"
          PROVE  dispatched'[h] + Pending(h)' = caught'[h] + IF Uncounted(h)' THEN 1 ELSE 0
      <4>1. LoopOf[h] # l /\ phase[LoopOf[h]] # "gone"
        BY <2>2, <3>1
      <4>2. Pending(h)' = Pending(h)
        BY <2>7, <4>1
      <4>3. Uncounted(h)' <=> Uncounted(h)
        BY <2>1 DEF Uncounted
      <4> QED BY <2>1, <4>1, <4>2, <4>3 DEF IInv, MessageInv
    <3>2. ASSUME NEW k \in Loops
          PROVE  /\ pipe'[k] \in Seq([h : On(k), s : Signums])
                 /\ buf'[k] \in Seq([h : On(k), s : Signums])
      BY <2>1, <2>2 DEF IInv, MessageInv
    <3> QED BY <3>1, <3>2 DEF MessageInv
  <2>9. CaughtInv'
    <3>1. \A h : Handling(h)' = Handling(h)
      BY <2>1 DEF Handling
    <3> QED BY <2>1, <3>1 DEF IInv, CaughtInv
  <2>10. CloseInv'
    <3>1. ASSUME NEW k \in Loops, k # l PROVE CloseOf(k)'
      BY <2>1, <2>2, <2>7, <3>1, OthersCloseAlike DEF IInv, CloseInv
    <3>2. CloseOf(l)'
      BY <2>1, <2>2 DEF IInv, CloseInv, CloseOf, IsClosed
    <3> QED BY <3>1, <3>2 DEF CloseInv
  <2> QED BY <2>3, <2>4, <2>5, <2>6, <2>8, <2>9, <2>10 DEF IInv
<1> QED BY <1>2, <1>3

(* uv__signal_block_and_lock()                                             *)
LEMMA BlockAndLockKeeps ==
  ASSUME IInv, NEW l \in Loops, BlockAndLock(l)
  PROVE  IInv'
<1> USE LoopsHaveHandles
<1>1. /\ Types /\ frame[l] = NoFrame /\ frame[l].at = "none"
      /\ call[l].at \in {"stop", "start"}
      /\ lock = None /\ lock' = l
      /\ UNCHANGED <<hs, signum, tree, handled, calls>> /\ MessagesUntouched
  BY DEF IInv, BlockAndLock, InCall, handleVars, loopVars, MessagesUntouched, NoFrame
<1>2. /\ call'[l].at = IF call[l].at = "stop" THEN "remove" ELSE "insert"
      /\ call'[l].op = call[l].op /\ call'[l].h = call[l].h /\ call'[l].s = call[l].s
      /\ \A k \in Loops : k # l => call'[k] = call[k]
      /\ call' \in [Loops -> CallsUnderWay]
  <2> DEFINE a == IF call[l].at = "stop" THEN "remove" ELSE "insert"
             c == [call[l] EXCEPT !.at = a]
  <2>1. call[l] \in CallsUnderWay
    BY <1>1 DEF Types
  <2>2. a \in {"remove", "insert"}
    OBVIOUS
  <2>3. call' = [call EXCEPT ![l] = c]
    BY <1>1 DEF BlockAndLock, Types
  <2> HIDE DEF a
  <2>4. /\ c \in CallsUnderWay /\ c.at = a /\ c.op = call[l].op
        /\ c.h = call[l].h /\ c.s = call[l].s
    BY <2>1, <2>2 DEF CallsUnderWay
  <2> HIDE DEF c
  <2> QED BY <1>1, <2>3, <2>4 DEF Types, a
<1> USE DEF MessagesUntouched
<1>3. Types'
  BY <1>1, <1>2 DEF Types
<1>4. LockInv'
  BY <1>1, <1>2 DEF IInv, LockInv, Changing, Walking
<1>5. FrameInv'
  BY <1>1 DEF IInv, FrameInv
<1>6. CallInv'
  BY <1>1, <1>2 DEF IInv, CallInv, IsClosing, IsUsable
<1>7. WatchInv'
  BY <1>1, <1>2 DEF IInv, WatchInv, IsUsable
<1>8. HandledIffWatched'
  BY <1>1 DEF IInv, HandledIffWatched
<1>9. PhaseInv'
  BY <1>1, <1>2 DEF IInv, PhaseInv, NoCall
<1>10. CloseInv'
  <2>1. ASSUME NEW k \in Loops, k # l PROVE CloseOf(k)'
    BY <1>1, <1>2, <2>1, MessagesAreKept, OthersCloseAlike DEF IInv, CloseInv
  <2>2. CloseOf(l)'
    BY <1>1, <1>2, MessagesAreKept, OthersCloseAlike DEF IInv, CloseInv
  <2> QED BY <2>1, <2>2 DEF CloseInv
<1> QED BY <1>1, <1>3, <1>4, <1>5, <1>6, <1>7, <1>8, <1>9, <1>10, MessagesAreKept DEF IInv

(* RB_REMOVE() and uv__signal_unregister_handler().                        *)
LEMMA RemoveHandleKeeps ==
  ASSUME IInv, NEW l \in Loops, RemoveHandle(l)
  PROVE  IInv'
<1> USE LoopsHaveHandles
<1>1. /\ Types /\ call[l].at = "remove"
      /\ UNCHANGED <<hs, signum, lock, calls>> /\ MessagesUntouched
  BY DEF IInv, RemoveHandle, InCall, handleVars, loopVars, MessagesUntouched
<1>2. /\ lock = l /\ \A t \in Threads : frame[t].at \notin Walking
      /\ \A k \in Loops : call[k].at \in Changing => k = l
  BY <1>1, ChangerIsAlone DEF Changing
<1>3. PICK h \in On(l) : h = call[l].h /\ signum[h] # None
  BY <1>1 DEF IInv, CallInv
<1>4. h \in tree
  BY <1>1, <1>3 DEF IInv, WatchInv
<1>5. /\ call'[l].at = "removed" /\ call'[l].op = call[l].op
      /\ call'[l].h = h /\ call'[l].s = call[l].s
      /\ \A k \in Loops : k # l => call'[k] = call[k]
      /\ call' \in [Loops -> CallsUnderWay]
  <2> DEFINE c == [call[l] EXCEPT !.at = "removed"]
  <2>1. call[l] \in CallsUnderWay
    BY <1>1 DEF Types
  <2>2. call' = [call EXCEPT ![l] = c]
    BY <1>1 DEF RemoveHandle, Types
  <2>3. /\ c \in CallsUnderWay /\ c.at = "removed" /\ c.op = call[l].op
        /\ c.h = call[l].h /\ c.s = call[l].s
    BY <2>1 DEF CallsUnderWay
  <2> HIDE DEF c
  <2> QED BY <1>1, <1>3, <2>2, <2>3 DEF Types
<1>6. /\ tree' = tree \ {h}
      /\ handled' = IF {g \in tree : signum[g] = signum[h]} = {h}
                    THEN handled \ {signum[h]} ELSE handled
  BY <1>3 DEF RemoveHandle, Watching
<1> USE DEF MessagesUntouched
<1>7. Types'
  BY <1>1, <1>5, <1>6 DEF Types
<1>8. LockInv'
  BY <1>1, <1>2, <1>5 DEF IInv, LockInv, Changing, Walking
<1>9. FrameInv'
  BY <1>1, <1>2 DEF IInv, FrameInv, Walking
<1>10. CallInv'
  BY <1>1, <1>3, <1>5 DEF IInv, CallInv, IsClosing, IsUsable
<1>11. WatchInv'
  <2>1. ASSUME NEW k \in Loops, NEW g \in On(k)
        PROVE  g \in tree' <=> signum[g] # None /\ ~(call'[k].at = "removed" /\ call'[k].h = g)
    <3>1. CASE g = h
      BY <1>3, <1>5, <1>6, <3>1
    <3>2. CASE g # h
      BY <1>1, <1>2, <1>3, <1>5, <1>6, <3>2 DEF IInv, WatchInv, Changing
    <3> QED BY <3>1, <3>2
  <2> QED BY <1>1, <1>3, <1>5, <2>1 DEF IInv, WatchInv, IsUsable
<1>12. HandledIffWatched'
  <2>1. handled = {signum[g] : g \in tree}
    BY DEF IInv, HandledIffWatched
  <2>2. handled' = {signum[g] : g \in tree \ {h}}
    <3>1. CASE \E g \in tree : g # h /\ signum[g] = signum[h]
      BY <1>4, <1>6, <2>1, <3>1
    <3>2. CASE ~\E g \in tree : g # h /\ signum[g] = signum[h]
      BY <1>4, <1>6, <2>1, <3>2
    <3> QED BY <3>1, <3>2
  <2> QED BY <1>1, <1>6, <2>2 DEF HandledIffWatched
<1>13. PhaseInv'
  BY <1>1, <1>5 DEF IInv, PhaseInv, NoCall
<1>14. CloseInv'
  <2>1. ASSUME NEW k \in Loops, k # l PROVE CloseOf(k)'
    BY <1>1, <1>5, <2>1, MessagesAreKept, OthersCloseAlike DEF IInv, CloseInv
  <2>2. CloseOf(l)'
    BY <1>1, <1>3, <1>5, MessagesAreKept, OthersCloseAlike DEF IInv, CloseInv
  <2> QED BY <2>1, <2>2 DEF CloseInv
<1> QED BY <1>1, <1>7, <1>8, <1>9, <1>10, <1>11, <1>12, <1>13, <1>14, MessagesAreKept DEF IInv

(* RB_INSERT() and uv__signal_register_handler().                          *)
LEMMA InsertHandleKeeps ==
  ASSUME IInv, NEW l \in Loops, InsertHandle(l)
  PROVE  IInv'
<1> USE LoopsHaveHandles
<1>1. /\ Types /\ call[l].at = "insert"
      /\ UNCHANGED <<hs, lock, calls>> /\ MessagesUntouched
  BY DEF IInv, InsertHandle, InCall, loopVars, MessagesUntouched
<1>2. /\ lock = l /\ \A t \in Threads : frame[t].at \notin Walking
      /\ \A k \in Loops : call[k].at \in Changing => k = l
  BY <1>1, ChangerIsAlone DEF Changing
<1>3. PICK h \in On(l), s \in Signums :
        /\ h = call[l].h /\ s = call[l].s /\ call[l].op = "start"
        /\ signum[h] = None /\ IsUsable(hs[l], h)
  BY <1>1 DEF IInv, CallInv
<1>4. h \notin tree
  BY <1>1, <1>3 DEF IInv, WatchInv
<1>5. /\ call'[l].at = "inserted" /\ call'[l].op = "start"
      /\ call'[l].h = h /\ call'[l].s = s
      /\ \A k \in Loops : k # l => call'[k] = call[k]
      /\ call' \in [Loops -> CallsUnderWay]
  <2> DEFINE c == [call[l] EXCEPT !.at = "inserted"]
  <2>1. call[l] \in CallsUnderWay
    BY <1>1 DEF Types
  <2>2. call' = [call EXCEPT ![l] = c]
    BY <1>1 DEF InsertHandle, Types
  <2>3. /\ c \in CallsUnderWay /\ c.at = "inserted" /\ c.op = call[l].op
        /\ c.h = call[l].h /\ c.s = call[l].s
    BY <2>1 DEF CallsUnderWay
  <2> HIDE DEF c
  <2> QED BY <1>1, <1>3, <2>2, <2>3 DEF Types
<1>6. /\ tree' = tree \cup {h} /\ handled' = handled \cup {s}
      /\ signum' = [signum EXCEPT ![h] = s]
  BY <1>3 DEF InsertHandle
<1>7. /\ signum'[h] = s /\ s # None
      /\ \A g \in Handles : g # h => signum'[g] = signum[g]
  BY <1>1, <1>6 DEF Types
<1> USE DEF MessagesUntouched
<1>8. Types'
  BY <1>1, <1>5, <1>6 DEF Types
<1>9. LockInv'
  BY <1>1, <1>2, <1>5 DEF IInv, LockInv, Changing, Walking
<1>10. FrameInv'
  BY <1>1, <1>6 DEF IInv, FrameInv
<1>11. CallInv'
  <2>1. ASSUME NEW k \in Loops, k # l, call[k].at # "none"
        PROVE  call[k].h \in On(k) /\ call[k].h # h
    BY <1>3, <2>1 DEF IInv, CallInv
  <2> QED BY <1>1, <1>3, <1>5, <1>7, <2>1 DEF IInv, CallInv, IsClosing, IsUsable
<1>12. WatchInv'
  <2>1. ASSUME NEW k \in Loops, NEW g \in On(k)
        PROVE  /\ g \in tree' <=> signum'[g] # None
                                  /\ ~(call'[k].at = "removed" /\ call'[k].h = g)
               /\ signum'[g] # None => IsUsable(hs'[k], g) \/ call'[k].h = g
    <3>1. CASE g = h
      BY <1>1, <1>3, <1>5, <1>6, <1>7, <3>1
    <3>2. CASE g # h
      BY <1>1, <1>2, <1>3, <1>5, <1>6, <1>7, <3>2 DEF IInv, WatchInv, Changing
    <3> QED BY <3>1, <3>2
  <2> QED BY <2>1 DEF WatchInv
<1>13. HandledIffWatched'
  <2>1. handled = {signum[g] : g \in tree}
    BY DEF IInv, HandledIffWatched
  <2>2. \A g \in tree : g \in Handles /\ signum'[g] = signum[g]
    BY <1>1, <1>4, <1>7 DEF Types
  <2>3. handled' = {signum'[g] : g \in tree \cup {h}}
    BY <1>6, <1>7, <2>1, <2>2
  <2> QED BY <1>6, <2>3 DEF HandledIffWatched
<1>14. PhaseInv'
  <2>1. phase[l] # "gone"
    BY <1>1 DEF IInv, PhaseInv, NoCall
  <2>2. \A k \in Loops : k # l => h \notin On(k)
    BY <1>3
  <2> QED BY <1>1, <1>5, <1>7, <2>1, <2>2 DEF IInv, PhaseInv
<1>15. CloseInv'
  <2>1. ASSUME NEW k \in Loops PROVE CloseOf(k)'
    BY <1>1, <1>3, <1>5, MessagesAreKept, OthersCloseAlike DEF IInv, CloseInv
  <2> QED BY <2>1 DEF CloseInv
<1> QED BY <1>1, <1>8, <1>9, <1>10, <1>11, <1>12, <1>13, <1>14, <1>15, MessagesAreKept DEF IInv

(* A call is over that has changed its handle in no way that a close is    *)
(* about.                                                                  *)
LEMMA CloseOfUsable ==
  ASSUME NEW l \in Loops, CloseOf(l), NEW h \in On(l), IsUsable(hs[l], h),
         call[l].h = h,
         CountsItsHandles(hs'[l], On(l)),
         hs'[l].closing = hs[l].closing, hs'[l].doomed = hs[l].doomed,
         IsUsable(hs'[l], h), ~IsClosed(hs'[l], h),
         \A g \in On(l) : g # h => hs'[l].flags[g] = hs[l].flags[g],
         call'[l].h \in {h, None}, phase'[l] = phase[l],
         \A g \in On(l) : Pending(g)' = Pending(g)
  PROVE  CloseOf(l)'
<1>1. ASSUME NEW g \in On(l)
      PROVE  /\ IsClosed(hs'[l], g) =>
                  "closing" \in hs'[l].flags[g] /\ "ref" \notin hs'[l].flags[g]
             /\ phase'[l] # "gone" =>
                  /\ IsClosed(hs'[l], g) => Pending(g)' = 0
                  /\ g \in Due(hs'[l]) <=>
                       IsClosing(hs'[l], g) /\ call'[l].h # g /\ Pending(g)' = 0
  <2>1. CASE g = h
    <3>1. ~IsClosed(hs[l], h) /\ ~IsClosing(hs[l], h) /\ ~IsClosing(hs'[l], h)
      BY DEF CloseOf, IsUsable, IsClosing
    <3> QED BY <2>1, <3>1 DEF CloseOf, Due
  <2>2. CASE g # h
    <3>1. /\ IsClosed(hs'[l], g) <=> IsClosed(hs[l], g)
          /\ IsClosing(hs'[l], g) <=> IsClosing(hs[l], g)
      BY <2>2 DEF IsClosed, IsClosing
    <3>2. g # None
      BY LoopsHaveHandles
    <3> QED BY <2>2, <3>1, <3>2 DEF CloseOf, Due
  <2> QED BY <2>1, <2>2
<1> QED BY <1>1 DEF CloseOf

(* sigaction() has failed.                                                 *)
LEMMA RegisterFailsKeeps ==
  ASSUME IInv, NEW l \in Loops, RegisterFails(l)
  PROVE  IInv'
<1> USE LoopsHaveHandles
<1>1. /\ Types /\ call[l].at = "insert" /\ lock' = None
      /\ UNCHANGED <<hs, signum, tree, handled, calls>> /\ MessagesUntouched
  BY DEF IInv, RegisterFails, InCall, handleVars, loopVars, MessagesUntouched
<1>2. /\ lock = l /\ \A t \in Threads : frame[t].at \notin Walking
      /\ \A k \in Loops : call[k].at \in Changing => k = l
  BY <1>1, ChangerIsAlone DEF Changing
<1>3. PICK h \in On(l) : h = call[l].h /\ signum[h] = None /\ IsUsable(hs[l], h)
  BY <1>1 DEF IInv, CallInv
<1>4. /\ call'[l] = NoCall /\ NoCall.at = "none" /\ NoCall.h = None
      /\ \A k \in Loops : k # l => call'[k] = call[k]
      /\ call' \in [Loops -> CallsUnderWay]
  BY <1>1 DEF RegisterFails, Types, NoCall, CallsUnderWay
<1> USE DEF MessagesUntouched
<1>5. Types'
  BY <1>1, <1>4 DEF Types
<1>6. LockInv'
  BY <1>1, <1>2, <1>4 DEF IInv, LockInv, Changing, Walking
<1>7. FrameInv'
  BY <1>1 DEF IInv, FrameInv
<1>8. CallInv'
  BY <1>1, <1>4 DEF IInv, CallInv, IsClosing, IsUsable
<1>9. WatchInv'
  <2>1. ASSUME NEW k \in Loops, NEW g \in On(k)
        PROVE  /\ g \in tree' <=> signum'[g] # None
                                  /\ ~(call'[k].at = "removed" /\ call'[k].h = g)
               /\ signum'[g] # None => IsUsable(hs'[k], g) \/ call'[k].h = g
    <3>1. CASE k = l
      BY <1>1, <1>3, <1>4, <3>1 DEF IInv, WatchInv
    <3>2. CASE k # l
      BY <1>1, <1>4, <3>2 DEF IInv, WatchInv
    <3> QED BY <3>1, <3>2
  <2> QED BY <2>1 DEF WatchInv
<1>10. HandledIffWatched'
  BY <1>1 DEF IInv, HandledIffWatched
<1>11. PhaseInv'
  BY <1>1, <1>4 DEF IInv, PhaseInv
<1>12. CloseInv'
  <2>1. ASSUME NEW k \in Loops, k # l PROVE CloseOf(k)'
    BY <1>1, <1>4, <2>1, MessagesAreKept, OthersCloseAlike DEF IInv, CloseInv
  <2>2. CloseOf(l)'
    <3>1. CloseOf(l)
      BY DEF IInv, CloseInv
    <3>2. ~IsClosed(hs[l], h) /\ CountsItsHandles(hs[l], On(l))
      BY <1>3, <3>1 DEF CloseOf, IsUsable
    <3>3. \A g \in On(l) : Pending(g)' = Pending(g)
      BY <1>1, MessagesAreKept
    <3> QED BY <1>1, <1>3, <1>4, <3>1, <3>2, <3>3, CloseOfUsable
  <2> QED BY <2>1, <2>2 DEF CloseInv
<1> QED BY <1>1, <1>5, <1>6, <1>7, <1>8, <1>9, <1>10, <1>11, <1>12, MessagesAreKept DEF IInv

(* The end of uv_signal_start().                                           *)
LEMMA UnlockStartedKeeps ==
  ASSUME IInv, NEW l \in Loops, UnlockStarted(l)
  PROVE  IInv'
<1> USE LoopsHaveHandles
<1>1. /\ Types /\ call[l].at = "inserted" /\ lock' = None
      /\ hs' = [hs EXCEPT ![l] = Started(@, call[l].h)]
      /\ UNCHANGED <<signum, tree, handled, calls>> /\ MessagesUntouched
  BY DEF IInv, UnlockStarted, InCall, loopVars, MessagesUntouched
<1>2. /\ lock = l /\ \A t \in Threads : frame[t].at \notin Walking
      /\ \A k \in Loops : call[k].at \in Changing => k = l
  BY <1>1, ChangerIsAlone DEF Changing
<1>3. PICK h \in On(l) : h = call[l].h /\ IsUsable(hs[l], h)
  BY <1>1 DEF IInv, CallInv
<1>4. /\ call'[l] = NoCall /\ NoCall.at = "none" /\ NoCall.h = None
      /\ \A k \in Loops : k # l => call'[k] = call[k]
      /\ call' \in [Loops -> CallsUnderWay]
  BY <1>1 DEF UnlockStarted, Types, NoCall, CallsUnderWay
<1>5. CloseOf(l) /\ CountsItsHandles(hs[l], On(l))
  BY DEF IInv, CloseInv, CloseOf
<1>6. /\ DOMAIN hs' = Loops /\ hs'[l] = Started(hs[l], h)
      /\ \A k \in Loops : k # l => hs'[k] = hs[k]
  BY <1>1, <1>3 DEF Types
<1>7. Reflagged(hs[l], On(l), h, hs[l].flags[h] \cup {"active"}, hs'[l])
  BY <1>5, <1>6, StartedCounts
<1>8. /\ CountsItsHandles(hs'[l], On(l))
      /\ hs'[l].closing = hs[l].closing /\ hs'[l].doomed = hs[l].doomed
      /\ hs'[l].flags[h] = hs[l].flags[h] \cup {"active"}
      /\ \A g \in On(l) : g # h => hs'[l].flags[g] = hs[l].flags[g]
  <2> DEFINE A == hs[l]
             B == hs'[l]
             f == A.flags[h] \cup {"active"}
  <2>1. CountsItsHandles(A, On(l)) /\ Reflagged(A, On(l), h, f, B)
    BY <1>5, <1>7
  <2> HIDE DEF A, B, f
  <2>2. /\ CountsItsHandles(B, On(l)) /\ B.closing = A.closing /\ B.doomed = A.doomed
        /\ B.flags[h] = f /\ \A g \in On(l) : g # h => B.flags[g] = A.flags[g]
    BY <2>1, FlagsOfOthers
  <2> QED BY <2>2 DEF A, B, f
<1>9. /\ IsUsable(hs'[l], h) /\ ~IsClosed(hs'[l], h)
      /\ \A g \in On(l) : IsUsable(hs'[l], g) <=> IsUsable(hs[l], g)
  BY <1>3, <1>5, <1>8 DEF CloseOf, IsUsable, IsClosed
<1> USE DEF MessagesUntouched
<1>10. Types'
  BY <1>1, <1>4, <1>6 DEF Types
<1>11. LockInv'
  BY <1>1, <1>2, <1>4 DEF IInv, LockInv, Changing, Walking
<1>12. FrameInv'
  BY <1>1 DEF IInv, FrameInv
<1>13. CallInv'
  BY <1>1, <1>4, <1>6 DEF IInv, CallInv, IsClosing, IsUsable
<1>14. WatchInv'
  <2>1. ASSUME NEW k \in Loops, NEW g \in On(k)
        PROVE  /\ g \in tree' <=> signum'[g] # None
                                  /\ ~(call'[k].at = "removed" /\ call'[k].h = g)
               /\ signum'[g] # None => IsUsable(hs'[k], g) \/ call'[k].h = g
    <3>1. CASE k = l
      BY <1>1, <1>3, <1>4, <1>9, <3>1 DEF IInv, WatchInv
    <3>2. CASE k # l
      BY <1>1, <1>4, <1>6, <3>2 DEF IInv, WatchInv
    <3> QED BY <3>1, <3>2
  <2> QED BY <2>1 DEF WatchInv
<1>15. HandledIffWatched'
  BY <1>1 DEF IInv, HandledIffWatched
<1>16. PhaseInv'
  BY <1>1, <1>4, <1>6, <1>8 DEF IInv, PhaseInv
<1>17. CloseInv'
  <2>1. ASSUME NEW k \in Loops, k # l PROVE CloseOf(k)'
    BY <1>1, <1>4, <1>6, <2>1, MessagesAreKept, OthersCloseAlike DEF IInv, CloseInv
  <2>2. CloseOf(l)'
    <3>1. \A g \in On(l) : Pending(g)' = Pending(g)
      BY <1>1, MessagesAreKept
    <3> QED BY <1>1, <1>3, <1>4, <1>5, <1>8, <1>9, <3>1, CloseOfUsable
  <2> QED BY <2>1, <2>2 DEF CloseInv
<1> QED BY <1>1, <1>10, <1>11, <1>12, <1>13, <1>14, <1>15, <1>16, <1>17, MessagesAreKept DEF IInv

-----------------------------------------------------------------------------
(* caught_signals = dispatched_signals tells whether messages are left.    *)
LEMMA CountsTell ==
  ASSUME IInv, NEW h \in Handles, phase[LoopOf[h]] # "gone", ~Uncounted(h)
  PROVE  caught[h] = dispatched[h] <=> Pending(h) = 0
<1>1. Types
  BY DEF IInv
<1>2. dispatched[h] \in Nat /\ caught[h] \in Nat /\ Pending(h) \in Nat
  BY <1>1, PendingIsNatural DEF Types
<1>3. dispatched[h] + Pending(h) = caught[h]
  BY <1>2 DEF IInv, MessageInv
<1> QED BY <1>2, <1>3

(* The end of uv__signal_close(): H are the handles before it.             *)
LEMMA ClosesWhenDrained ==
  ASSUME IInv, NEW l \in Loops, NEW h \in On(l), phase[l] # "gone",
         ~Uncounted(h), NEW H, CountsItsHandles(H, On(l)),
         H.closing = hs[l].closing, H.doomed = hs[l].doomed,
         IsClosing(H, h), h \notin Due(hs[l]),
         \A g \in On(l) : g # h => H.flags[g] = hs[l].flags[g],
         hs'[l] = CloseIfDrained(H, h),
         call[l].h \in {h, None}, call'[l].h = None,
         phase'[l] = phase[l],
         \A g \in On(l) : Pending(g)' = Pending(g)
  PROVE  /\ CloseOf(l)'
         /\ hs'[l].flags = H.flags /\ hs'[l].doomed = H.doomed
<1>1. caught[h] = dispatched[h] <=> Pending(h) = 0
  BY LoopsHaveHandles, CountsTell
<1>2. CloseOf(l)
  BY DEF IInv, CloseInv
<1> DEFINE R == hs'[l]
<1>3. /\ CountsItsHandles(R, On(l)) /\ R.flags = H.flags /\ R.doomed = H.doomed
      /\ ToSet(R.closing) = IF Pending(h) = 0 THEN ToSet(H.closing) \cup {h}
                            ELSE ToSet(H.closing)
      /\ IsInjective(R.closing)
  <2>1. h \notin ToSet(H.closing) /\ IsInjective(H.closing)
    BY <1>2 DEF CloseOf, Due
  <2> DEFINE D == Pending(h) = 0
  <2>2. R = (IF D THEN MakeClosePending(H, h) ELSE H) /\ D \in BOOLEAN
    BY <1>1 DEF CloseIfDrained
  <2> HIDE DEF R, D
  <2>3. /\ CountsItsHandles(R, On(l)) /\ R.flags = H.flags /\ R.doomed = H.doomed
        /\ ToSet(R.closing) = IF D THEN ToSet(H.closing) \cup {h} ELSE ToSet(H.closing)
        /\ IsInjective(R.closing)
    <3>1. CountsItsHandles(H, On(l)) /\ h \in On(l)
      BY <1>2
    <3>2. ListedIf(H, On(l), h, D, R)
      BY <2>1, <2>2, <3>1, PendingIf
    <3> QED BY <3>2 DEF ListedIf
  <2> QED BY <2>3 DEF D
<1> HIDE DEF R
<1>4. ToSet(R.closing) \cap ToSet(R.doomed) = {} /\ IsInjective(R.doomed)
  BY <1>2, <1>3 DEF CloseOf, Due
<1>5. ASSUME NEW g \in On(l)
      PROVE  /\ IsClosed(R, g) => "closing" \in R.flags[g] /\ "ref" \notin R.flags[g]
             /\ phase[l] # "gone" =>
                  /\ IsClosed(R, g) => Pending(g) = 0
                  /\ g \in Due(R) <=>
                       IsClosing(R, g) /\ call'[l].h # g /\ Pending(g) = 0
  <2>0. g # None
    BY LoopsHaveHandles
  <2>1. CASE g = h
    <3>1. ~IsClosed(R, h) /\ IsClosing(R, h)
      BY <1>3 DEF IsClosed, IsClosing
    <3>2. h \in Due(R) <=> Pending(h) = 0
      BY <1>3 DEF Due
    <3> QED BY <2>0, <2>1, <3>1, <3>2
  <2>2. CASE g # h
    <3>1. R.flags[g] = hs[l].flags[g]
      BY <1>3, <2>2
    <3>2. /\ IsClosed(R, g) <=> IsClosed(hs[l], g)
          /\ IsClosing(R, g) <=> IsClosing(hs[l], g)
      BY <3>1 DEF IsClosed, IsClosing
    <3>3. g \in Due(R) <=> g \in Due(hs[l])
      BY <1>3, <2>2 DEF Due
    <3> QED BY <1>2, <2>0, <2>2, <3>1, <3>2, <3>3 DEF CloseOf
  <2> QED BY <2>1, <2>2
<1>6. CloseOf(l)'
  BY <1>3, <1>4, <1>5 DEF CloseOf, R
<1> QED BY <1>3, <1>6 DEF R

(* uv_close()                                                              *)
LEMMA CloseKeeps ==
  ASSUME IInv, NEW l \in Loops, NEW h \in Handles, Close(l, h)
  PROVE  IInv'
<1> USE LoopsHaveHandles
<1> DEFINE H == Closing(hs[l], h)
<1>1. /\ Types /\ h \in On(l) /\ frame[l] = NoFrame
      /\ call[l] = NoCall /\ call[l].h = None /\ call[l].at = "none"
      /\ phase[l] # "gone" /\ IsUsable(hs[l], h) /\ calls' \in 0..MaxCalls
      /\ UNCHANGED <<signum, tree, handled, lock>> /\ MessagesUntouched
  BY SignalAssumption
     DEF IInv, Close, Calls, Types, treeVars, loopVars, MessagesUntouched, NoCall
<1>2. CloseOf(l) /\ CountsItsHandles(hs[l], On(l))
  BY DEF IInv, CloseInv, CloseOf
<1>3. /\ CountsItsHandles(H, On(l)) /\ H.closing = hs[l].closing
      /\ H.doomed = hs[l].doomed
      /\ H.flags[h] = hs[l].flags[h] \cup {"closing"}
      /\ \A g \in On(l) : g # h => H.flags[g] = hs[l].flags[g]
  <2> DEFINE f == hs[l].flags[h] \cup {"closing"}
  <2>1. Reflagged(hs[l], On(l), h, f, H)
    BY <1>1, <1>2, RaisedCounts DEF Closing
  <2> HIDE DEF H, f
  <2>2. /\ CountsItsHandles(H, On(l)) /\ H.closing = hs[l].closing
        /\ H.doomed = hs[l].doomed
        /\ H.flags[h] = f /\ \A g \in On(l) : g # h => H.flags[g] = hs[l].flags[g]
    BY <1>1, <1>2, <2>1, FlagsOfOthers
  <2> QED BY <2>2 DEF f
<1>4. /\ IsClosing(H, h) /\ ~IsClosed(hs[l], h) /\ ~IsClosed(H, h)
      /\ h \notin Due(hs[l])
  <2>1. ~IsClosed(hs[l], h) /\ ~IsClosing(hs[l], h)
    BY <1>1, <1>2 DEF CloseOf, IsUsable, IsClosing
  <2>2. h \notin Due(hs[l])
    BY <1>1, <1>2, <2>1 DEF CloseOf
  <2> QED BY <1>3, <2>1, <2>2 DEF IsClosing, IsClosed
<1>5. \A g \in Handles : Pending(g)' = Pending(g)
  BY <1>1, MessagesAreKept
<1> HIDE DEF H
<1>6. \A g \in On(l) : signum[g] # None => IsUsable(hs[l], g)
  BY <1>1 DEF IInv, WatchInv
<1> USE DEF MessagesUntouched
<1>7. FrameInv' /\ HandledIffWatched'
  BY <1>1 DEF IInv, FrameInv, HandledIffWatched
<1>8. CASE signum[h] = None
  <2>1. /\ hs' = [hs EXCEPT ![l] = CloseIfDrained(H, h)] /\ call' = call
    BY <1>8 DEF Close, H
  <2>2. /\ DOMAIN hs' = Loops /\ hs'[l] = CloseIfDrained(H, h)
        /\ \A k \in Loops : k # l => hs'[k] = hs[k]
    BY <1>1, <2>1 DEF Types
  <2>3. ~Uncounted(h)
    <3>1. h \notin tree
      BY <1>1, <1>8 DEF IInv, WatchInv
    <3> QED BY <3>1 DEF IInv, FrameInv, Uncounted
  <2>4. /\ CloseOf(l)' /\ hs'[l].flags = H.flags /\ hs'[l].doomed = H.doomed
    BY <1>1, <1>3, <1>4, <1>5, <2>1, <2>2, <2>3, ClosesWhenDrained
  <2>5. Types'
    BY <1>1, <2>1, <2>2 DEF Types
  <2>6. LockInv'
    BY <1>1, <2>1 DEF IInv, LockInv
  <2>7. CallInv'
    BY <1>1, <2>1, <2>2 DEF IInv, CallInv, IsClosing, IsUsable
  <2>8. WatchInv'
    <3>1. ASSUME NEW k \in Loops, NEW g \in On(k)
          PROVE  /\ g \in tree' <=> signum'[g] # None
                                    /\ ~(call'[k].at = "removed" /\ call'[k].h = g)
                 /\ signum'[g] # None => IsUsable(hs'[k], g) \/ call'[k].h = g
      <4>1. CASE k = l
        BY <1>1, <1>3, <1>6, <1>8, <2>1, <2>4, <4>1 DEF IInv, WatchInv, IsUsable
      <4>2. CASE k # l
        BY <1>1, <2>1, <2>2, <4>2 DEF IInv, WatchInv
      <4> QED BY <4>1, <4>2
    <3> QED BY <3>1 DEF WatchInv
  <2>9. PhaseInv'
    BY <1>1, <1>3, <2>1, <2>2, <2>4 DEF IInv, PhaseInv
  <2>10. CloseInv'
    <3>1. ASSUME NEW k \in Loops, k # l PROVE CloseOf(k)'
      BY <1>1, <1>5, <2>1, <2>2, <3>1, OthersCloseAlike DEF IInv, CloseInv
    <3> QED BY <2>4, <3>1 DEF CloseInv
  <2> QED BY <1>1, <1>7, <2>5, <2>6, <2>7, <2>8, <2>9, <2>10, MessagesAreKept DEF IInv
<1>9. CASE signum[h] # None
  <2> DEFINE c == [at |-> "stop", op |-> "close", h |-> h, s |-> None]
  <2>1. hs' = [hs EXCEPT ![l] = H] /\ call' = [call EXCEPT ![l] = c]
    BY <1>9 DEF Close, H, Continue
  <2>2. c \in CallsUnderWay
    BY DEF CallsUnderWay
  <2>3. c.at = "stop" /\ c.op = "close" /\ c.h = h
    OBVIOUS
  <2> HIDE DEF c
  <2>4. /\ DOMAIN hs' = Loops /\ hs'[l] = H /\ call'[l] = c
        /\ \A k \in Loops : k # l => hs'[k] = hs[k] /\ call'[k] = call[k]
        /\ call' \in [Loops -> CallsUnderWay]
    BY <1>1, <2>1, <2>2 DEF Types
  <2>5. Types'
    BY <1>1, <2>4 DEF Types
  <2>6. LockInv'
    BY <1>1, <2>3, <2>4 DEF IInv, LockInv, Changing
  <2>7. CallInv'
    BY <1>1, <1>4, <1>9, <2>3, <2>4 DEF IInv, CallInv
  <2>8. WatchInv'
    <3>1. ASSUME NEW k \in Loops, NEW g \in On(k)
          PROVE  /\ g \in tree' <=> signum'[g] # None
                                    /\ ~(call'[k].at = "removed" /\ call'[k].h = g)
                 /\ signum'[g] # None => IsUsable(hs'[k], g) \/ call'[k].h = g
      <4>1. CASE k = l
        BY <1>1, <1>3, <1>6, <2>3, <2>4, <4>1 DEF IInv, WatchInv, IsUsable
      <4>2. CASE k # l
        BY <1>1, <2>4, <4>2 DEF IInv, WatchInv
      <4> QED BY <4>1, <4>2
    <3> QED BY <3>1 DEF WatchInv
  <2>9. PhaseInv'
    BY <1>1, <1>3, <2>4 DEF IInv, PhaseInv
  <2>10. CloseInv'
    <3>1. ASSUME NEW k \in Loops, k # l PROVE CloseOf(k)'
      BY <1>1, <1>5, <2>4, <3>1, OthersCloseAlike DEF IInv, CloseInv
    <3>2. ASSUME NEW g \in On(l)
          PROVE  /\ IsClosed(H, g) => "closing" \in H.flags[g] /\ "ref" \notin H.flags[g]
                 /\ IsClosed(H, g) => Pending(g) = 0
                 /\ g \in Due(H) <=> IsClosing(H, g) /\ h # g /\ Pending(g) = 0
      <4>1. g # None /\ Due(H) = Due(hs[l])
        BY <1>3 DEF Due
      <4>2. CASE g = h
        BY <1>4, <4>1, <4>2
      <4>3. CASE g # h
        <5>1. H.flags[g] = hs[l].flags[g]
          BY <1>3, <4>3
        <5> QED BY <1>1, <1>2, <4>1, <4>3, <5>1 DEF CloseOf, IsClosed, IsClosing
      <4> QED BY <4>2, <4>3
    <3>3. CloseOf(l)'
      BY <1>1, <1>2, <1>3, <1>5, <2>3, <2>4, <3>2 DEF CloseOf
    <3> QED BY <3>1, <3>3 DEF CloseInv
  <2> QED BY <1>1, <1>7, <2>5, <2>6, <2>7, <2>8, <2>9, <2>10, MessagesAreKept DEF IInv
<1> QED BY <1>8, <1>9

(* The rest of uv__signal_stop() and of its callers.                       *)
LEMMA UnlockStoppedKeeps ==
  ASSUME IInv, NEW l \in Loops, UnlockStopped(l)
  PROVE  IInv'
<1> USE LoopsHaveHandles
<1>1. /\ Types /\ call[l].at = "removed" /\ lock' = None
      /\ UNCHANGED <<tree, handled, calls>> /\ MessagesUntouched
  BY DEF IInv, UnlockStopped, InCall, loopVars, MessagesUntouched
<1>2. /\ lock = l /\ \A t \in Threads : frame[t].at \notin Walking
      /\ \A k \in Loops : call[k].at \in Changing => k = l
      /\ \A g : ~Uncounted(g)
  BY <1>1, ChangerIsAlone DEF Changing
<1>3. PICK h \in On(l) : /\ h = call[l].h /\ signum[h] # None
                         /\ IF call[l].op = "close" THEN IsClosing(hs[l], h)
                            ELSE IsUsable(hs[l], h)
                         /\ call[l].op = "start" => call[l].s \in Signums
  BY <1>1 DEF IInv, CallInv
<1>4. PICK o : o = call[l].op
  OBVIOUS
<1>5. h \notin tree /\ phase[l] # "gone"
  BY <1>1, <1>3 DEF IInv, WatchInv, PhaseInv
<1>6. CloseOf(l) /\ CountsItsHandles(hs[l], On(l)) /\ h \notin Due(hs[l])
  BY <1>3, <1>5 DEF IInv, CloseInv, CloseOf, IsClosing, IsUsable
<1> DEFINE H == Stopped(hs[l], h)
<1>7. /\ CountsItsHandles(H, On(l)) /\ H.closing = hs[l].closing
      /\ H.doomed = hs[l].doomed
      /\ H.flags[h] = hs[l].flags[h] \ {"active"}
      /\ \A g \in On(l) : g # h => H.flags[g] = hs[l].flags[g]
  <2> DEFINE A == hs[l]
             f == A.flags[h] \ {"active"}
  <2>1. Reflagged(A, On(l), h, f, H) /\ CountsItsHandles(A, On(l))
    BY <1>6, StoppedCounts
  <2> HIDE DEF A, H, f
  <2>2. /\ CountsItsHandles(H, On(l)) /\ H.closing = A.closing /\ H.doomed = A.doomed
        /\ H.flags[h] = f /\ \A g \in On(l) : g # h => H.flags[g] = A.flags[g]
    BY <2>1, FlagsOfOthers
  <2> QED BY <2>2 DEF A, f
<1>8. /\ signum' = [signum EXCEPT ![h] = None]
      /\ hs' = [hs EXCEPT ![l] = IF o = "close" THEN CloseIfDrained(H, h) ELSE H]
  BY <1>3, <1>4 DEF UnlockStopped
<1> HIDE DEF H
<1>9. /\ ~IsClosed(H, h)
      /\ IF o = "close" THEN IsClosing(H, h) ELSE IsUsable(H, h)
      /\ \A g \in On(l) : /\ IsUsable(H, g) <=> IsUsable(hs[l], g)
                          /\ IsClosing(H, g) <=> IsClosing(hs[l], g)
  BY <1>3, <1>4, <1>6, <1>7 DEF CloseOf, IsUsable, IsClosed, IsClosing
<1>10. \A g \in Handles : Pending(g)' = Pending(g)
  BY <1>1, MessagesAreKept
<1>11. /\ DOMAIN hs' = Loops
       /\ hs'[l] = IF o = "close" THEN CloseIfDrained(H, h) ELSE H
       /\ \A k \in Loops : k # l => hs'[k] = hs[k]
       /\ signum'[h] = None /\ signum' \in [Handles -> Signums \cup {None}]
       /\ \A g \in Handles : g # h => signum'[g] = signum[g]
  BY <1>1, <1>8 DEF Types
<1>12. PICK c \in CallsUnderWay :
         /\ call' = [call EXCEPT ![l] = c]
         /\ IF o = "start" THEN /\ c.at = "start" /\ c.op = "start" /\ c.h = h
                                /\ c.s \in Signums
            ELSE c = NoCall /\ c.at = "none" /\ c.h = None
  <2>1. CASE o = "start"
    <3> DEFINE c == [at |-> "start", op |-> "start", h |-> h, s |-> call[l].s]
    <3>1. call' = [call EXCEPT ![l] = c]
      BY <1>3, <1>4, <2>1 DEF UnlockStopped, Continue
    <3>2. c \in CallsUnderWay /\ c.s \in Signums
      BY <1>3, <1>4, <2>1 DEF CallsUnderWay
    <3> QED BY <2>1, <3>1, <3>2
  <2>2. CASE o # "start"
    <3>1. call' = [call EXCEPT ![l] = NoCall]
      BY <1>3, <1>4, <2>2 DEF UnlockStopped
    <3>2. NoCall \in CallsUnderWay /\ NoCall.at = "none" /\ NoCall.h = None
      BY DEF CallsUnderWay, NoCall
    <3> QED BY <2>2, <3>1, <3>2
  <2> QED BY <2>1, <2>2
<1>13. /\ call'[l] = c /\ \A k \in Loops : k # l => call'[k] = call[k]
       /\ call' \in [Loops -> CallsUnderWay]
  BY <1>1, <1>12 DEF Types
<1> USE DEF MessagesUntouched
<1>14. CloseOf(l)' /\ hs'[l].flags = H.flags /\ hs'[l].doomed = H.doomed
  <2>1. CASE o = "close"
    <3>1. /\ hs'[l] = CloseIfDrained(H, h) /\ IsClosing(H, h) /\ call'[l].h = None
      BY <1>9, <1>11, <1>12, <1>13, <2>1
    <3>2. phase'[l] = phase[l] /\ call[l].h \in {h, None} /\ ~Uncounted(h)
          /\ \A g \in On(l) : Pending(g)' = Pending(g)
      BY <1>1, <1>2, <1>3, <1>10
    <3> QED BY <1>5, <1>6, <1>7, <3>1, <3>2, ClosesWhenDrained
  <2>2. CASE o # "close"
    <3>1. hs'[l] = H /\ IsUsable(H, h) /\ IsUsable(hs[l], h)
      BY <1>9, <1>11, <2>2
    <3>2. /\ call'[l].h \in {h, None} /\ phase'[l] = phase[l] /\ call[l].h = h
          /\ \A g \in On(l) : Pending(g)' = Pending(g)
      BY <1>1, <1>3, <1>10, <1>12, <1>13
    <3> QED BY <1>6, <1>7, <1>9, <3>1, <3>2, CloseOfUsable
  <2> QED BY <2>1, <2>2
<1>15. Types'
  BY <1>1, <1>11, <1>13 DEF Types
<1>16. LockInv'
  BY <1>1, <1>2, <1>12, <1>13 DEF IInv, LockInv, Changing, Walking
<1>17. FrameInv'
  BY <1>1 DEF IInv, FrameInv
<1>18. CallInv'
  <2>1. ASSUME NEW k \in Loops, k # l, call[k].at # "none"
        PROVE  call[k].h \in On(k) /\ call[k].h # h
    BY <1>3, <2>1 DEF IInv, CallInv
  <2>2. ASSUME NEW k \in Loops, k # l
        PROVE  LET d == call'[k]
               IN /\ d.at = "none" => d = NoCall
                  /\ d.at # "none" =>
                       /\ d.h \in On(k)
                       /\ IF d.op = "close" THEN IsClosing(hs'[k], d.h)
                          ELSE IsUsable(hs'[k], d.h)
                       /\ d.at \in {"start", "insert", "inserted"} => d.op = "start"
                       /\ d.op = "start" => d.s \in Signums
                       /\ signum'[d.h] = None <=> d.at \in {"start", "insert"}
    BY <1>11, <1>13, <2>1, <2>2 DEF IInv, CallInv
  <2>3. LET d == c
        IN /\ d.at = "none" => d = NoCall
           /\ d.at # "none" =>
                /\ d.h \in On(l)
                /\ IF d.op = "close" THEN IsClosing(hs'[l], d.h)
                   ELSE IsUsable(hs'[l], d.h)
                /\ d.at \in {"start", "insert", "inserted"} => d.op = "start"
                /\ d.op = "start" => d.s \in Signums
                /\ signum'[d.h] = None <=> d.at \in {"start", "insert"}
    BY <1>9, <1>11, <1>12
  <2> QED BY <1>13, <2>2, <2>3 DEF CallInv
<1>19. WatchInv'
  <2>1. ASSUME NEW k \in Loops, NEW g \in On(k)
        PROVE  /\ g \in tree' <=> signum'[g] # None
                                  /\ ~(call'[k].at = "removed" /\ call'[k].h = g)
               /\ signum'[g] # None => IsUsable(hs'[k], g) \/ call'[k].h = g
    <3>0. g \in Handles
      OBVIOUS
    <3>1. CASE g = h
      BY <1>1, <1>5, <1>11, <3>1
    <3>2. CASE g # h /\ k = l
      <4>1. /\ g \in tree <=> signum[g] # None
            /\ signum[g] # None => IsUsable(hs[l], g)
        BY <1>3, <3>2 DEF IInv, WatchInv
      <4>2. IsUsable(hs'[l], g) <=> IsUsable(hs[l], g)
        BY <1>7, <1>14, <3>2 DEF IsUsable
      <4>3. c.at # "removed"
        BY <1>12
      <4> QED BY <1>1, <1>11, <1>13, <3>0, <3>2, <4>1, <4>2, <4>3
    <3>3. CASE g # h /\ k # l
      BY <1>1, <1>11, <1>13, <3>0, <3>3 DEF IInv, WatchInv
    <3> QED BY <3>1, <3>2, <3>3
  <2> QED BY <2>1 DEF WatchInv
<1>20. HandledIffWatched'
  <2>1. handled = {signum[g] : g \in tree}
    BY DEF IInv, HandledIffWatched
  <2>2. \A g \in tree : g \in Handles /\ signum'[g] = signum[g]
    BY <1>1, <1>5, <1>11 DEF Types
  <2>3. handled' = {signum'[g] : g \in tree}
    BY <1>1, <2>1, <2>2
  <2> QED BY <1>1, <2>3 DEF HandledIffWatched
<1>21. PhaseInv'
  <2>1. \A k \in Loops : k # l => h \notin On(k)
    BY <1>3
  <2>2. hs'[l].doomed = hs[l].doomed
    BY <1>7, <1>14
  <2> QED BY <1>1, <1>5, <1>11, <1>13, <2>1, <2>2 DEF IInv, PhaseInv
<1>22. CloseInv'
  <2>1. ASSUME NEW k \in Loops, k # l PROVE CloseOf(k)'
    BY <1>1, <1>10, <1>11, <1>13, <2>1, OthersCloseAlike DEF IInv, CloseInv
  <2> QED BY <1>14, <2>1 DEF CloseInv
<1> QED BY <1>1, <1>15, <1>16, <1>17, <1>18, <1>19, <1>20, <1>21, <1>22, MessagesAreKept DEF IInv

(* uv_signal_init(): nothing is left of the closed handle.                 *)
LEMMA SignalInitKeeps ==
  ASSUME IInv, NEW l \in Loops, NEW h \in Handles, SignalInit(l, h)
  PROVE  IInv'
<1> USE LoopsHaveHandles
<1>1. /\ Types /\ h \in On(l) /\ IsClosed(hs[l], h)
      /\ call[l] = NoCall /\ call[l].h = None /\ call[l].at = "none"
      /\ phase[l] # "gone" /\ calls' \in 0..MaxCalls
      /\ UNCHANGED <<tree, handled, lock, frame, pipe, buf, call, phase, user, signals>>
  BY SignalAssumption
     DEF IInv, SignalInit, Calls, Types, treeVars, loopVars, NoCall
<1>2. CloseOf(l) /\ CountsItsHandles(hs[l], On(l))
  BY DEF IInv, CloseInv, CloseOf
<1>3. /\ signum[h] = None /\ h \notin tree /\ Pending(h) = 0 /\ ~Uncounted(h)
      /\ "ref" \notin hs[l].flags[h] /\ h \notin Due(hs[l])
  <2>1. signum[h] = None
    BY <1>1, WatcherIsOpen
  <2>2. h \notin tree
    BY <1>1, <2>1 DEF IInv, WatchInv
  <2>3. ~Uncounted(h)
    BY <2>2 DEF IInv, FrameInv, Uncounted
  <2> QED BY <1>1, <1>2, <2>1, <2>2, <2>3 DEF CloseOf, IsClosed, IsClosing
<1>4. /\ DOMAIN hs' = Loops /\ hs'[l] = Initialized(hs[l], h)
      /\ \A k \in Loops : k # l => hs'[k] = hs[k]
      /\ signum' = signum
      /\ caught' \in [Handles -> Nat] /\ caught'[h] = 0
      /\ dispatched' \in [Handles -> Nat] /\ dispatched'[h] = 0
      /\ \A g \in Handles : g # h => /\ caught'[g] = caught[g]
                                     /\ dispatched'[g] = dispatched[g]
  BY <1>1, <1>3 DEF SignalInit, Types
<1>5. /\ CountsItsHandles(hs'[l], On(l))
      /\ hs'[l].closing = hs[l].closing /\ hs'[l].doomed = hs[l].doomed
      /\ hs'[l].flags[h] = {"ref"}
      /\ \A g \in On(l) : g # h => hs'[l].flags[g] = hs[l].flags[g]
  <2> DEFINE A == hs[l]
             B == hs'[l]
             f == {"ref"}
  <2>1. CountsItsHandles(A, On(l)) /\ Reflagged(A, On(l), h, f, B)
    BY <1>1, <1>2, <1>3, <1>4, InitializedCounts
  <2> HIDE DEF A, B, f
  <2>2. /\ CountsItsHandles(B, On(l)) /\ B.closing = A.closing /\ B.doomed = A.doomed
        /\ B.flags[h] = f /\ \A g \in On(l) : g # h => B.flags[g] = A.flags[g]
    BY <1>1, <2>1, FlagsOfOthers
  <2> QED BY <2>2 DEF A, B, f
<1>6. /\ \A g : Pending(g)' = Pending(g)
      /\ \A g : Uncounted(g)' <=> Uncounted(g)
      /\ \A g : Handling(g)' = Handling(g)
  BY <1>1 DEF Pending, Uncounted, Handling
<1>7. Types'
  BY <1>1, <1>4 DEF Types
<1>8. LockInv' /\ FrameInv' /\ HandledIffWatched'
  BY <1>1, <1>4 DEF IInv, LockInv, FrameInv, HandledIffWatched
<1>9. CallInv'
  BY <1>1, <1>4 DEF IInv, CallInv, IsClosing, IsUsable
<1>10. WatchInv'
  <2>1. ASSUME NEW k \in Loops, NEW g \in On(k)
        PROVE  /\ g \in tree' <=> signum'[g] # None
                                  /\ ~(call'[k].at = "removed" /\ call'[k].h = g)
               /\ signum'[g] # None => IsUsable(hs'[k], g) \/ call'[k].h = g
    <3>1. CASE g = h
      BY <1>1, <1>3, <1>4, <3>1
    <3>2. CASE g # h /\ k = l
      BY <1>1, <1>4, <1>5, <3>2 DEF IInv, WatchInv, IsUsable
    <3>3. CASE g # h /\ k # l
      BY <1>1, <1>4, <3>3 DEF IInv, WatchInv
    <3> QED BY <3>1, <3>2, <3>3
  <2> QED BY <2>1 DEF WatchInv
<1>11. PhaseInv'
  BY <1>1, <1>4, <1>5 DEF IInv, PhaseInv
<1>12. MessageInv'
  <2>1. ASSUME NEW g \in Handles, phase'[LoopOf[g]] # "gone"
        PROVE  dispatched'[g] + Pending(g)' = caught'[g] + IF Uncounted(g)' THEN 1 ELSE 0
    <3>1. CASE g = h
      BY <1>3, <1>4, <1>6, <3>1
    <3>2. CASE g # h
      BY <1>1, <1>4, <1>6, <2>1, <3>2 DEF IInv, MessageInv
    <3> QED BY <3>1, <3>2
  <2> QED BY <1>1, <2>1 DEF IInv, MessageInv
<1>13. CaughtInv'
  <2>1. ASSUME NEW g \in Handles
        PROVE  caught'[g] + Cardinality(Handling(g)') <= signals' /\ dispatched'[g] <= signals'
    <3>1. /\ caught[g] \in Nat /\ signals \in Nat /\ Cardinality(Handling(g)) \in Nat
          /\ Handling(g)' = Handling(g) /\ signals' = signals
      BY <1>1, <1>6, HandlersAreFinite DEF Types
    <3>2. caught[g] + Cardinality(Handling(g)) <= signals /\ dispatched[g] <= signals
      BY DEF IInv, CaughtInv
    <3>3. CASE g = h
      BY <1>4, <3>1, <3>2, <3>3
    <3>4. CASE g # h
      BY <1>4, <3>1, <3>2, <3>4
    <3> QED BY <3>3, <3>4
  <2> QED BY <2>1 DEF CaughtInv
<1>14. CloseInv'
  <2>1. ASSUME NEW k \in Loops, k # l PROVE CloseOf(k)'
    BY <1>1, <1>4, <1>6, <2>1, OthersCloseAlike DEF IInv, CloseInv
  <2>2. ASSUME NEW g \in On(l)
        PROVE  /\ IsClosed(hs'[l], g) =>
                    "closing" \in hs'[l].flags[g] /\ "ref" \notin hs'[l].flags[g]
               /\ phase'[l] # "gone" =>
                    /\ IsClosed(hs'[l], g) => Pending(g)' = 0
                    /\ g \in Due(hs'[l]) <=>
                         IsClosing(hs'[l], g) /\ call'[l].h # g /\ Pending(g)' = 0
    <3>0. Due(hs'[l]) = Due(hs[l])
      BY <1>5 DEF Due
    <3>1. CASE g = h
      <4>1. ~IsClosed(hs'[l], h) /\ ~IsClosing(hs'[l], h)
        BY <1>5 DEF IsClosed, IsClosing
      <4> QED BY <1>3, <3>0, <3>1, <4>1
    <3>2. CASE g # h
      <4>1. hs'[l].flags[g] = hs[l].flags[g]
        BY <1>5, <3>2
      <4> QED BY <1>1, <1>2, <1>6, <3>0, <4>1 DEF CloseOf, IsClosed, IsClosing
    <3> QED BY <3>1, <3>2
  <2>3. CloseOf(l)'
    BY <1>1, <1>2, <1>5, <2>2 DEF CloseOf
  <2> QED BY <2>1, <2>3 DEF CloseInv
<1> QED BY <1>7, <1>8, <1>9, <1>10, <1>11, <1>12, <1>13, <1>14 DEF IInv

-----------------------------------------------------------------------------
(* uv_run().  What the phases leave alone in the other loops.              *)
Running == {"out", "poll", "event", "check", "closing"}

LEMMA GoesAlone ==
  ASSUME IInv, NEW l \in Loops, NEW from \in Running, NEW to \in Running,
         NEW u \in BOOLEAN, Goes(l, from, to, u)
  PROVE  /\ Types /\ LockInv' /\ FrameInv' /\ HandledIffWatched'
         /\ call[l] = NoCall /\ call[l].h = None /\ call[l].at = "none"
         /\ phase[l] = from /\ phase'[l] = to
         /\ phase' \in [Loops -> {"out", "poll", "event", "check", "closing", "gone"}]
         /\ user' \in [Loops -> BOOLEAN]
         /\ \A k \in Loops : k # l => phase'[k] = phase[k]
         /\ UNCHANGED <<signum, caught, tree, handled, lock, frame, call, calls, signals>>
         /\ \A h : Uncounted(h)' <=> Uncounted(h)
         /\ \A h : Handling(h)' = Handling(h)
<1>1. Types
  BY DEF IInv
<1>2. UNCHANGED <<signum, caught, tree, handled, lock, frame, call, calls, signals>>
  BY DEF Goes, treeVars
<1>3. /\ call[l] = NoCall /\ call[l].h = None /\ call[l].at = "none"
      /\ phase[l] = from /\ phase'[l] = to
      /\ phase' \in [Loops -> {"out", "poll", "event", "check", "closing", "gone"}]
      /\ user' \in [Loops -> BOOLEAN]
      /\ \A k \in Loops : k # l => phase'[k] = phase[k]
  BY <1>1 DEF Goes, Types, NoCall, Running
<1>4. LockInv' /\ FrameInv' /\ HandledIffWatched'
  BY <1>2 DEF IInv, LockInv, FrameInv, HandledIffWatched
<1>5. /\ \A h : Uncounted(h)' <=> Uncounted(h)
      /\ \A h : Handling(h)' = Handling(h)
  BY <1>2 DEF Uncounted, Handling
<1> QED BY <1>1, <1>2, <1>3, <1>4, <1>5

(* A phase that changes nothing but what the loop has still to look at, if *)
(* the messages stay the same together.                                    *)
LEMMA PhasesKeep ==
  ASSUME IInv, NEW l \in Loops, NEW from \in Running, NEW to \in Running,
         NEW u \in BOOLEAN, Goes(l, from, to, u),
         UNCHANGED <<hs, dispatched>>,
         pipe' \in [Loops -> Seq(Messages)], buf' \in [Loops -> Seq(Messages)],
         \A k \in Loops : k # l => pipe'[k] = pipe[k] /\ buf'[k] = buf[k],
         pipe'[l] \in Seq([h : On(l), s : Signums]),
         buf'[l] \in Seq([h : On(l), s : Signums]),
         \A h \in On(l) : Pending(h)' = Pending(h),
         to # "event" => buf'[l] = <<>>,
         to # "closing" => hs[l].doomed = <<>>
  PROVE  IInv'
<1>1. /\ Types /\ LockInv' /\ FrameInv' /\ HandledIffWatched'
      /\ phase[l] = from /\ phase'[l] = to
      /\ phase' \in [Loops -> {"out", "poll", "event", "check", "closing", "gone"}]
      /\ user' \in [Loops -> BOOLEAN]
      /\ \A k \in Loops : k # l => phase'[k] = phase[k]
      /\ UNCHANGED <<signum, caught, tree, handled, lock, frame, call, calls, signals>>
      /\ \A h : Uncounted(h)' <=> Uncounted(h)
      /\ \A h : Handling(h)' = Handling(h)
  BY GoesAlone
<1> USE LoopsHaveHandles DEF Running
<1>2. Types'
  BY <1>1 DEF Types
<1>3. CallInv' /\ WatchInv'
  BY <1>1 DEF IInv, CallInv, WatchInv, IsClosing, IsUsable
<1>4. PhaseInv'
  BY <1>1 DEF IInv, PhaseInv
<1>5. \A h \in Handles : Pending(h)' = Pending(h)
  <2>1. \A h \in Handles : LoopOf[h] # l => Pending(h)' = Pending(h)
    BY DEF Pending
  <2> QED BY <2>1
<1>6. MessageInv'
  <2>1. ASSUME NEW h \in Handles, phase'[LoopOf[h]] # "gone"
        PROVE  dispatched'[h] + Pending(h)' = caught'[h] + IF Uncounted(h)' THEN 1 ELSE 0
    <3>1. phase[LoopOf[h]] # "gone"
      BY <1>1, <2>1
    <3> QED BY <1>1, <1>5, <3>1 DEF IInv, MessageInv
  <2>2. ASSUME NEW k \in Loops
        PROVE  /\ pipe'[k] \in Seq([h : On(k), s : Signums])
               /\ buf'[k] \in Seq([h : On(k), s : Signums])
    <3>1. CASE k = l
      BY <3>1
    <3>2. CASE k # l
      BY <3>2 DEF IInv, MessageInv
    <3> QED BY <3>1, <3>2
  <2> QED BY <2>1, <2>2 DEF MessageInv
<1>7. CaughtInv'
  BY <1>1 DEF IInv, CaughtInv
<1>8. CloseInv'
  <2>1. ASSUME NEW k \in Loops, k # l PROVE CloseOf(k)'
    BY <1>1, <1>5, <2>1, OthersCloseAlike DEF IInv, CloseInv
  <2>2. CloseOf(l)'
    <3>1. CloseOf(l) /\ hs' = hs /\ call' = call /\ phase[l] # "gone"
      BY <1>1 DEF IInv, CloseInv
    <3> QED BY <1>5, <3>1 DEF CloseOf, Due, IsClosed, IsClosing
  <2> QED BY <2>1, <2>2 DEF CloseInv
<1> QED BY <1>1, <1>2, <1>3, <1>4, <1>6, <1>7, <1>8 DEF IInv

LEMMA PhasesThatOnlyGo ==
  ASSUME IInv, NEW l \in Loops, NEW from \in Running, NEW to \in Running,
         NEW u \in BOOLEAN, Goes(l, from, to, u),
         UNCHANGED <<hs, dispatched, pipe, buf>>,
         from = "event" /\ to # "event" => buf[l] = <<>>,
         from = "closing" /\ to # "closing" => hs[l].doomed = <<>>
  PROVE  IInv'
<1>1. /\ phase[l] = from /\ Types
      /\ buf' = buf /\ pipe' = pipe /\ hs' = hs /\ dispatched' = dispatched
  BY GoesAlone
<1>2. /\ to # "event" => buf'[l] = <<>>
      /\ to # "closing" => hs[l].doomed = <<>>
  BY <1>1 DEF IInv, PhaseInv
<1>3. /\ pipe' \in [Loops -> Seq(Messages)] /\ buf' \in [Loops -> Seq(Messages)]
      /\ pipe'[l] \in Seq([h : On(l), s : Signums])
      /\ buf'[l] \in Seq([h : On(l), s : Signums])
      /\ \A k \in Loops : k # l => pipe'[k] = pipe[k] /\ buf'[k] = buf[k]
  BY <1>1 DEF IInv, Types, MessageInv
<1>4. \A h \in On(l) : Pending(h)' = Pending(h)
  BY <1>1 DEF Pending
<1> QED BY <1>1, <1>2, <1>3, <1>4, PhasesKeep

LEMMA IdlePhasesKeep ==
  ASSUME IInv, NEW l \in Loops,
         \/ RunLoop(l) \/ PollReturns(l) \/ CallSignal(l) \/ EventDone(l)
         \/ ClosedReturns(l) \/ EndIteration(l)
  PROVE  IInv'
<1>1. /\ \A f \in {"out", "poll", "event", "check", "closing"} : f \in Running
      /\ TRUE \in BOOLEAN /\ FALSE \in BOOLEAN
  BY DEF Running
<1>2. CASE RunLoop(l)
  <2>1. Goes(l, "out", "poll", FALSE) /\ UNCHANGED <<hs, dispatched, pipe, buf>>
    BY <1>2 DEF RunLoop
  <2> QED BY <1>1, <2>1, PhasesThatOnlyGo
<1>3. CASE PollReturns(l)
  <2>1. Goes(l, "poll", "check", TRUE) /\ UNCHANGED <<hs, dispatched, pipe, buf>>
    BY <1>3 DEF PollReturns
  <2> QED BY <1>1, <2>1, PhasesThatOnlyGo
<1>4. CASE CallSignal(l)
  <2>1. Goes(l, "event", "event", TRUE) /\ UNCHANGED <<hs, dispatched, pipe, buf>>
    BY <1>4 DEF CallSignal
  <2> QED BY <1>1, <2>1, PhasesThatOnlyGo
<1>5. CASE EventDone(l)
  <2>1. /\ Goes(l, "event", "check", TRUE) /\ UNCHANGED <<hs, dispatched, pipe, buf>>
        /\ buf[l] = <<>>
    BY <1>5 DEF EventDone
  <2> QED BY <1>1, <2>1, PhasesThatOnlyGo
<1>6. CASE ClosedReturns(l)
  <2>1. /\ Goes(l, "closing", "closing", FALSE)
        /\ UNCHANGED <<hs, dispatched, pipe, buf>>
    BY <1>6 DEF ClosedReturns
  <2> QED BY <1>1, <2>1, PhasesThatOnlyGo
<1>7. CASE EndIteration(l)
  <2>1. /\ Goes(l, "closing", "poll", FALSE) \/ Goes(l, "closing", "out", TRUE)
        /\ UNCHANGED <<hs, dispatched, pipe, buf>> /\ hs[l].doomed = <<>>
    BY <1>7 DEF EndIteration
  <2>2. CASE Goes(l, "closing", "poll", FALSE)
    BY <1>1, <2>1, <2>2, PhasesThatOnlyGo
  <2>3. CASE Goes(l, "closing", "out", TRUE)
    BY <1>1, <2>1, <2>3, PhasesThatOnlyGo
  <2> QED BY <2>1, <2>2, <2>3
<1> QED BY <1>2, <1>3, <1>4, <1>5, <1>6, <1>7

(* uv__signal_event() reads the pipe.                                      *)
LEMMA PollSignalKeeps ==
  ASSUME IInv, NEW l \in Loops, PollSignal(l)
  PROVE  IInv'
<1>1. /\ Goes(l, "poll", "event", FALSE) /\ UNCHANGED <<hs, dispatched>>
      /\ buf' = [buf EXCEPT ![l] = pipe[l]] /\ pipe' = [pipe EXCEPT ![l] = <<>>]
      /\ "poll" \in Running /\ "event" \in Running
  BY DEF PollSignal, Running
<1>2. Types /\ phase[l] = "poll"
  BY <1>1, GoesAlone
<1>3. buf[l] = <<>> /\ hs[l].doomed = <<>>
  BY <1>2 DEF IInv, PhaseInv
<1>4. /\ pipe'[l] = <<>> /\ buf'[l] = pipe[l]
      /\ \A k \in Loops : k # l => pipe'[k] = pipe[k] /\ buf'[k] = buf[k]
      /\ pipe' \in [Loops -> Seq(Messages)] /\ buf' \in [Loops -> Seq(Messages)]
      /\ pipe'[l] \in Seq([h : On(l), s : Signums])
      /\ buf'[l] \in Seq([h : On(l), s : Signums])
  BY <1>1, <1>2 DEF IInv, Types, MessageInv
<1>5. ASSUME NEW h \in On(l) PROVE Pending(h)' = Pending(h)
  <2>1. LoopOf[h] = l /\ h \in Handles
    BY LoopsHaveHandles
  <2>2. HowMany(buf[l], Of(h)) = 0 /\ HowMany(pipe'[l], Of(h)) = 0
    BY <1>3, <1>4, NoneInEmpty
  <2>3. HowMany(pipe[l], Of(h)) \in Nat
    BY <1>2, <2>1, PendingIsNatural
  <2> QED BY <1>4, <2>1, <2>2, <2>3 DEF Pending
<1> QED BY <1>1, <1>3, <1>4, <1>5, PhasesKeep

(* The loop has looked at a message: a handle of which this was the last   *)
(* is to be called back if it was closed.                                  *)
LEMMA DispatchKeeps ==
  ASSUME IInv, NEW l \in Loops, Dispatch(l)
  PROVE  IInv'
<1> USE LoopsHaveHandles
<1>1. /\ Goes(l, "event", "event", FALSE) /\ buf[l] # <<>> /\ pipe' = pipe
      /\ buf' = [buf EXCEPT ![l] = Tail(@)] /\ "event" \in Running
  BY DEF Dispatch, Running
<1>2. /\ Types /\ LockInv' /\ FrameInv' /\ HandledIffWatched'
      /\ call[l] = NoCall /\ call[l].h = None /\ call[l].at = "none"
      /\ phase[l] = "event" /\ phase'[l] = "event"
      /\ phase' \in [Loops -> {"out", "poll", "event", "check", "closing", "gone"}]
      /\ user' \in [Loops -> BOOLEAN]
      /\ \A k \in Loops : k # l => phase'[k] = phase[k]
      /\ UNCHANGED <<signum, caught, tree, handled, lock, frame, call, calls, signals>>
      /\ \A g : Uncounted(g)' <=> Uncounted(g)
      /\ \A g : Handling(g)' = Handling(g)
  BY <1>1, GoesAlone
<1>3. /\ buf[l] \in Seq([h : On(l), s : Signums]) /\ buf[l] \in Seq(Messages)
      /\ hs[l].doomed = <<>>
  BY <1>2 DEF IInv, MessageInv, Types, PhaseInv
<1>4. PICK m \in [h : On(l), s : Signums] : m = Head(buf[l])
  BY <1>1, <1>3, TailElements
<1>5. PICK h \in On(l) : h = m.h
  OBVIOUS
<1>6. h \in Handles /\ LoopOf[h] = l /\ h # None
  OBVIOUS
<1>7. /\ buf'[l] = Tail(buf[l]) /\ \A k \in Loops : k # l => buf'[k] = buf[k]
      /\ buf'[l] \in Seq([h : On(l), s : Signums]) /\ buf'[l] \in Seq(Messages)
      /\ buf' \in [Loops -> Seq(Messages)]
  <2>1. Tail(buf[l]) \in Seq([h : On(l), s : Signums]) /\ Tail(buf[l]) \in Seq(Messages)
    BY <1>1, <1>3, TailElements
  <2> QED BY <1>1, <1>2, <2>1 DEF Types
<1>8. \A K : HowMany(buf[l], K) = IF m \in K THEN HowMany(buf'[l], K) + 1
                                  ELSE HowMany(buf'[l], K)
  BY <1>1, <1>3, <1>4, <1>7, HowManyInTail
<1>9. m \in Of(h) /\ \A g \in Handles : g # h => m \notin Of(g)
  BY <1>5 DEF Of
<1>10. /\ Pending(h) \in Nat /\ Pending(h)' \in Nat
       /\ Pending(h) = Pending(h)' + 1
       /\ \A g \in Handles : g # h => Pending(g)' = Pending(g)
  <2>1. /\ HowMany(buf'[l], Of(h)) \in Nat /\ HowMany(pipe[l], Of(h)) \in Nat
    BY <1>2, <1>6, <1>7, PendingIsNatural, PositionsAreFinite
  <2>2. HowMany(buf[l], Of(h)) = HowMany(buf'[l], Of(h)) + 1
    BY <1>8, <1>9
  <2>3. /\ Pending(h) = HowMany(buf[l], Of(h)) + HowMany(pipe[l], Of(h))
        /\ Pending(h)' = HowMany(buf'[l], Of(h)) + HowMany(pipe[l], Of(h))
    BY <1>1, <1>6 DEF Pending, Of
  <2>4. ASSUME NEW g \in Handles, g # h PROVE Pending(g)' = Pending(g)
    <3>1. HowMany(buf'[LoopOf[g]], Of(g)) = HowMany(buf[LoopOf[g]], Of(g))
      BY <1>7, <1>8, <1>9, <2>4
    <3> QED BY <1>1, <3>1 DEF Pending, Of
  <2> QED BY <2>1, <2>2, <2>3, <2>4
<1>11. /\ dispatched' \in [Handles -> Nat] /\ dispatched'[h] = dispatched[h] + 1
       /\ \A g \in Handles : g # h => dispatched'[g] = dispatched[g]
       /\ caught[h] \in Nat /\ dispatched[h] \in Nat /\ signals \in Nat
       /\ dispatched[h] + Pending(h) = caught[h] + IF Uncounted(h) THEN 1 ELSE 0
  <2>1. dispatched' = [dispatched EXCEPT ![h] = @ + 1]
    BY <1>4, <1>5 DEF Dispatch
  <2>2. dispatched[h] + Pending(h) = caught[h] + IF Uncounted(h) THEN 1 ELSE 0
    BY <1>2, <1>6 DEF IInv, MessageInv
  <2> QED BY <1>2, <1>6, <2>1, <2>2 DEF Types
<1>12. ASSUME ~IsUsable(hs[l], h)
       PROVE  caught[h] = dispatched'[h] <=> Pending(h)' = 0
  <2>1. signum[h] = None
    BY <1>2, <1>6, <1>12 DEF IInv, WatchInv
  <2>2. ~Uncounted(h)
    BY <2>1 DEF IInv, WatchInv, FrameInv, Uncounted
  <2> QED BY <1>10, <1>11, <2>2
<1>13. /\ DOMAIN hs' = Loops /\ \A k \in Loops : k # l => hs'[k] = hs[k]
       /\ hs'[l] = IF ~IsUsable(hs[l], h) /\ Pending(h)' = 0
                   THEN MakeClosePending(hs[l], h) ELSE hs[l]
  <2>1. hs' = IF ~IsUsable(hs[l], h) /\ caught[h] = dispatched'[h]
              THEN [hs EXCEPT ![l] = MakeClosePending(@, h)] ELSE hs
    BY <1>4, <1>5 DEF Dispatch
  <2>2. DOMAIN hs = Loops
    BY <1>2 DEF Types
  <2> QED BY <1>12, <2>1, <2>2
<1>14. CloseOf(l) /\ CountsItsHandles(hs[l], On(l))
  BY DEF IInv, CloseInv, CloseOf
<1>15. ~IsClosed(hs[l], h) /\ h \notin Due(hs[l])
  BY <1>2, <1>10, <1>14 DEF CloseOf
<1> DEFINE A == hs[l]
           R == hs'[l]
           D == ~IsUsable(A, h) /\ Pending(h)' = 0
<1>16. /\ CountsItsHandles(R, On(l)) /\ R.flags = A.flags /\ R.doomed = A.doomed
       /\ ToSet(R.closing) = IF D THEN ToSet(A.closing) \cup {h} ELSE ToSet(A.closing)
       /\ IsInjective(R.closing)
  <2>1. h \notin ToSet(A.closing) /\ IsInjective(A.closing)
    BY <1>14, <1>15 DEF CloseOf, Due
  <2>2. /\ CountsItsHandles(A, On(l)) /\ D \in BOOLEAN
        /\ R = IF D THEN MakeClosePending(A, h) ELSE A
    BY <1>13, <1>14
  <2> HIDE DEF A, R, D
  <2>3. h \in On(l)
    BY <1>14, <1>15, <1>2
  <2>4. ListedIf(A, On(l), h, D, R)
    BY <2>1, <2>2, <2>3, PendingIf
  <2> QED BY <2>4 DEF ListedIf
<1> HIDE DEF A, R, D
<1>17. Types'
  BY <1>1, <1>2, <1>7, <1>11, <1>13 DEF Types
<1>18. /\ hs'[l].flags = hs[l].flags
       /\ \A k \in Loops : hs'[k].flags = hs[k].flags /\ hs'[k].doomed = hs[k].doomed
  BY <1>13, <1>16 DEF A, R
<1>19. CallInv' /\ WatchInv'
  BY <1>2, <1>18 DEF IInv, CallInv, WatchInv, IsClosing, IsUsable
<1>20. PhaseInv'
  BY <1>1, <1>2, <1>7, <1>18 DEF IInv, PhaseInv
<1>21. MessageInv'
  <2>1. ASSUME NEW g \in Handles, phase'[LoopOf[g]] # "gone"
        PROVE  dispatched'[g] + Pending(g)' = caught'[g] + IF Uncounted(g)' THEN 1 ELSE 0
    <3>1. CASE g = h
      BY <1>2, <1>10, <1>11, <3>1
    <3>2. CASE g # h
      <4>1. phase[LoopOf[g]] # "gone"
        BY <1>2, <2>1
      <4>2. dispatched[g] + Pending(g) = caught[g] + IF Uncounted(g) THEN 1 ELSE 0
        BY <4>1 DEF IInv, MessageInv
      <4> QED BY <1>2, <1>10, <1>11, <3>2, <4>2
    <3> QED BY <3>1, <3>2
  <2>2. ASSUME NEW k \in Loops
        PROVE  /\ pipe'[k] \in Seq([h : On(k), s : Signums])
               /\ buf'[k] \in Seq([h : On(k), s : Signums])
    <3>1. CASE k = l
      BY <1>1, <1>7, <3>1 DEF IInv, MessageInv
    <3>2. CASE k # l
      BY <1>1, <1>7, <3>2 DEF IInv, MessageInv
    <3> QED BY <3>1, <3>2
  <2> QED BY <2>1, <2>2 DEF MessageInv
<1>22. CaughtInv'
  <2>1. ASSUME NEW g \in Handles
        PROVE  caught'[g] + Cardinality(Handling(g)') <= signals' /\ dispatched'[g] <= signals'
    <3>1. /\ caught[g] + Cardinality(Handling(g)) <= signals /\ dispatched[g] <= signals
          /\ caught' = caught /\ signals' = signals /\ Handling(g)' = Handling(g)
      BY <1>2 DEF IInv, CaughtInv
    <3>2. CASE g = h
      <4>1. Cardinality(Handling(h)) \in Nat
        BY HandlersAreFinite
      <4>2. Uncounted(h) => Cardinality(Handling(h)) > 0
        <5>1. Uncounted(h) => Handling(h) # {}
          BY DEF IInv, FrameInv, Uncounted, Handling
        <5> QED BY <4>1, <5>1, HandlersAreFinite, FS_EmptySet
      <4> QED BY <1>10, <1>11, <3>1, <3>2, <4>1, <4>2
    <3>3. CASE g # h
      BY <1>11, <3>1, <3>3
    <3> QED BY <3>2, <3>3
  <2> QED BY <2>1 DEF CaughtInv
<1>23. CloseInv'
  <2>1. ASSUME NEW k \in Loops, k # l PROVE CloseOf(k)'
    <3>1. \A g \in On(k) : Pending(g)' = Pending(g)
      BY <1>6, <1>10, <2>1
    <3> QED BY <1>2, <1>13, <2>1, <3>1, OthersCloseAlike DEF IInv, CloseInv
  <2>2. ASSUME NEW g \in On(l)
        PROVE  /\ IsClosed(R, g) => "closing" \in R.flags[g] /\ "ref" \notin R.flags[g]
               /\ IsClosed(R, g) => Pending(g)' = 0
               /\ g \in Due(R) <=>
                    IsClosing(R, g) /\ call'[l].h # g /\ Pending(g)' = 0
    <3>1. CASE g = h
      <4>1. ~IsClosed(R, h) /\ (IsClosing(R, h) <=> ~IsUsable(A, h))
        BY <1>15, <1>16 DEF A, IsClosed, IsClosing, IsUsable
      <4>2. h \in Due(R) <=> D
        BY <1>15, <1>16 DEF A, Due
      <4> QED BY <1>2, <1>6, <3>1, <4>1, <4>2 DEF D
    <3>2. CASE g # h
      <4>1. /\ g \in Due(R) <=> g \in Due(A)
            /\ IsClosing(R, g) <=> IsClosing(A, g)
            /\ IsClosed(R, g) <=> IsClosed(A, g)
        BY <1>16, <3>2 DEF Due, IsClosing, IsClosed
      <4>2. Pending(g)' = Pending(g) /\ call' = call
        BY <1>2, <1>10, <3>2
      <4> QED BY <1>2, <1>14, <1>16, <4>1, <4>2 DEF CloseOf, A
    <3> QED BY <3>1, <3>2
  <2>3. IsInjective(R.doomed) /\ ToSet(R.closing) \cap ToSet(R.doomed) = {}
    BY <1>14, <1>15, <1>16 DEF CloseOf, Due, A
  <2>4. CloseOf(l)'
    BY <1>16, <2>2, <2>3 DEF CloseOf, R
  <2> QED BY <2>1, <2>4 DEF CloseInv
<1> QED BY <1>2, <1>17, <1>19, <1>20, <1>21, <1>22, <1>23 DEF IInv

(* uv__run_closing_handles() only changes the handles of its loop.         *)
LEMMA ClosingKeeps ==
  ASSUME IInv, NEW l \in Loops, NEW from \in {"check", "closing"},
         NEW u \in BOOLEAN, Goes(l, from, "closing", u),
         UNCHANGED <<dispatched, pipe, buf>>,
         DOMAIN hs' = Loops, \A k \in Loops : k # l => hs'[k] = hs[k],
         \A g \in On(l) : IsUsable(hs'[l], g) <=> IsUsable(hs[l], g),
         CloseOf(l)'
  PROVE  IInv'
<1>0. from \in Running /\ "closing" \in Running
  BY DEF Running
<1>1. /\ Types /\ LockInv' /\ FrameInv' /\ HandledIffWatched'
      /\ call[l] = NoCall /\ call[l].h = None /\ call[l].at = "none"
      /\ phase[l] = from /\ phase'[l] = "closing"
      /\ phase' \in [Loops -> {"out", "poll", "event", "check", "closing", "gone"}]
      /\ user' \in [Loops -> BOOLEAN]
      /\ \A k \in Loops : k # l => phase'[k] = phase[k]
      /\ UNCHANGED <<signum, caught, tree, handled, lock, frame, call, calls, signals>>
      /\ \A h : Uncounted(h)' <=> Uncounted(h)
      /\ \A h : Handling(h)' = Handling(h)
  BY <1>0, GoesAlone
<1>2. Types'
  BY <1>1 DEF Types
<1>3. CallInv'
  BY <1>1 DEF IInv, CallInv, IsClosing, IsUsable
<1>4. WatchInv'
  <2>1. ASSUME NEW k \in Loops, NEW g \in On(k)
        PROVE  /\ g \in tree' <=> signum'[g] # None
                                  /\ ~(call'[k].at = "removed" /\ call'[k].h = g)
               /\ signum'[g] # None => IsUsable(hs'[k], g) \/ call'[k].h = g
    <3>1. IsUsable(hs'[k], g) <=> IsUsable(hs[k], g)
      OBVIOUS
    <3> QED BY <1>1, <3>1 DEF IInv, WatchInv
  <2> QED BY <2>1 DEF WatchInv
<1>5. PhaseInv'
  BY <1>1 DEF IInv, PhaseInv
<1>6. \A h : Pending(h)' = Pending(h)
  BY DEF Pending
<1>7. MessageInv'
  <2>1. ASSUME NEW h \in Handles, phase'[LoopOf[h]] # "gone"
        PROVE  dispatched'[h] + Pending(h)' = caught'[h] + IF Uncounted(h)' THEN 1 ELSE 0
    <3>1. phase[LoopOf[h]] # "gone"
      BY <1>1, <2>1, LoopsHaveHandles
    <3> QED BY <1>1, <1>6, <3>1 DEF IInv, MessageInv
  <2> QED BY <2>1 DEF IInv, MessageInv
<1>8. CaughtInv'
  BY <1>1 DEF IInv, CaughtInv
<1>9. CloseInv'
  <2>1. ASSUME NEW k \in Loops, k # l PROVE CloseOf(k)'
    BY <1>1, <1>6, <2>1, OthersCloseAlike DEF IInv, CloseInv
  <2> QED BY <2>1 DEF CloseInv
<1> QED BY <1>1, <1>2, <1>3, <1>4, <1>5, <1>7, <1>8, <1>9 DEF IInv

LEMMA CheckDoneKeeps ==
  ASSUME IInv, NEW l \in Loops, CheckDone(l)
  PROVE  IInv'
<1> USE LoopsHaveHandles
<1>1. /\ Goes(l, "check", "closing", FALSE) /\ UNCHANGED <<dispatched, pipe, buf>>
      /\ hs' = [hs EXCEPT ![l] = TakeClosing(@)] /\ "check" \in Running
      /\ "closing" \in Running
  BY DEF CheckDone, Running
<1>2. Types /\ phase[l] = "check" /\ call' = call /\ phase'[l] = "closing"
  <2>1. Goes(l, "check", "closing", FALSE)
    BY <1>1
  <2>2. Types
    BY <1>1, GoesAlone
  <2>3. l \in DOMAIN phase
    BY <2>2 DEF Types
  <2> QED BY <2>1, <2>2, <2>3 DEF Goes
<1>3. hs[l].doomed = <<>> /\ CloseOf(l) /\ CountsItsHandles(hs[l], On(l))
  BY <1>2 DEF IInv, PhaseInv, CloseInv, CloseOf
<1>4. /\ DOMAIN hs' = Loops /\ \A k \in Loops : k # l => hs'[k] = hs[k]
      /\ hs'[l] = TakeClosing(hs[l])
  BY <1>1, <1>2 DEF Types
<1> DEFINE A == hs[l]
           R == hs'[l]
<1>5. /\ CountsItsHandles(R, On(l)) /\ R.flags = A.flags
      /\ R.doomed = A.closing /\ R.closing = <<>> /\ A.doomed = <<>>
  BY <1>3, <1>4, TakenCounts
<1> HIDE DEF A, R
<1>6. /\ IsInjective(R.closing) /\ ToSet(R.closing) = {} /\ Due(R) = Due(A)
  BY <1>5 DEF IsInjective, ToSet, Due
<1>7. IsInjective(R.doomed)
  BY <1>3, <1>5 DEF CloseOf, A
<1>8. ASSUME NEW g \in On(l)
      PROVE  /\ IsUsable(R, g) <=> IsUsable(A, g)
             /\ IsClosed(R, g) <=> IsClosed(A, g)
             /\ IsClosing(R, g) <=> IsClosing(A, g)
  BY <1>5 DEF IsUsable, IsClosed, IsClosing
<1>9. \A g \in On(l) : Pending(g)' = Pending(g)
  BY <1>1 DEF Pending
<1>10. CloseOf(l)'
  <2>1. /\ CloseOf(l) /\ phase[l] # "gone" /\ phase'[l] # "gone" /\ call' = call
    BY <1>2, <1>3
  <2> QED BY <2>1, <1>5, <1>6, <1>7, <1>8, <1>9 DEF CloseOf, A, R
<1> QED BY <1>1, <1>4, <1>8, <1>10, ClosingKeeps DEF A, R

LEMMA CallClosedKeeps ==
  ASSUME IInv, NEW l \in Loops, CallClosed(l)
  PROVE  IInv'
<1> USE LoopsHaveHandles
<1>1. /\ Goes(l, "closing", "closing", TRUE) /\ UNCHANGED <<dispatched, pipe, buf>>
      /\ hs' = [hs EXCEPT ![l] = FinishClose(@)] /\ "closing" \in Running
      /\ hs[l].doomed # <<>>
  BY DEF CallClosed, Running
<1>2. /\ Types /\ phase[l] = "closing" /\ call' = call /\ phase'[l] = "closing"
  BY <1>1, GoesAlone
<1>3. CloseOf(l) /\ CountsItsHandles(hs[l], On(l))
  BY DEF IInv, CloseInv, CloseOf
<1>4. /\ DOMAIN hs' = Loops /\ \A k \in Loops : k # l => hs'[k] = hs[k]
      /\ hs'[l] = FinishClose(hs[l])
  BY <1>1, <1>2 DEF Types
<1> DEFINE A == hs[l]
           R == hs'[l]
<1>5. /\ Head(A.doomed) \in On(l)
      /\ CountsItsHandles(R, On(l))
      /\ R.flags = [A.flags EXCEPT ![Head(A.doomed)] = (@ \cup {"closed"}) \ {"ref"}]
      /\ R.doomed = Tail(A.doomed) /\ R.closing = A.closing
  BY <1>1, <1>3, <1>4, FinishedCounts
<1>6. /\ A.doomed \in Seq(On(l)) /\ A.doomed # <<>>
      /\ A.flags \in [On(l) -> SUBSET Flags]
  BY <1>1, <1>3 DEF CountsItsHandles, HandlesOf
<1> HIDE DEF A, R
<1>7. PICK p \in On(l) : p = Head(A.doomed)
  BY <1>5
<1>8. /\ R.flags[p] = (A.flags[p] \cup {"closed"}) \ {"ref"}
      /\ \A g \in On(l) : g # p => R.flags[g] = A.flags[g]
  BY <1>5, <1>6, <1>7
<1>9. /\ IsInjective(A.doomed) /\ IsInjective(A.closing)
      /\ ToSet(A.closing) \cap ToSet(A.doomed) = {}
  BY <1>3 DEF CloseOf, A
<1>10. /\ ToSet(A.doomed) = ToSet(R.doomed) \cup {p}
       /\ IsInjective(R.doomed) /\ p \notin ToSet(R.doomed)
  BY <1>5, <1>6, <1>7, <1>9, TailElements
<1>11. /\ IsInjective(R.closing) /\ ToSet(R.closing) \cap ToSet(R.doomed) = {}
       /\ p \in Due(A) /\ Due(R) = Due(A) \ {p}
  BY <1>5, <1>9, <1>10 DEF Due
<1>12. IsClosing(A, p) /\ Pending(p) = 0
  BY <1>2, <1>3, <1>11 DEF CloseOf, A
<1>13. ASSUME NEW g \in On(l)
       PROVE  IsUsable(R, g) <=> IsUsable(A, g)
  BY <1>8, <1>12 DEF IsUsable, IsClosing
<1>14. \A g \in On(l) : Pending(g)' = Pending(g)
  BY <1>1 DEF Pending
<1>15. ASSUME NEW g \in On(l)
       PROVE  /\ IsClosed(R, g) => "closing" \in R.flags[g] /\ "ref" \notin R.flags[g]
              /\ IsClosed(R, g) => Pending(g)' = 0
              /\ g \in Due(R) <=> IsClosing(R, g) /\ call'[l].h # g /\ Pending(g)' = 0
  <2>1. CASE g = p
    <3>1. IsClosed(R, p) /\ ~IsClosing(R, p) /\ "closing" \in R.flags[p]
          /\ "ref" \notin R.flags[p]
      BY <1>8, <1>12 DEF IsClosed, IsClosing
    <3> QED BY <1>11, <1>12, <1>14, <2>1, <3>1
  <2>2. CASE g # p
    <3>1. /\ R.flags[g] = A.flags[g]
          /\ IsClosed(R, g) <=> IsClosed(A, g)
          /\ IsClosing(R, g) <=> IsClosing(A, g)
          /\ g \in Due(R) <=> g \in Due(A)
      BY <1>8, <1>11, <2>2 DEF IsClosed, IsClosing
    <3> QED BY <1>2, <1>3, <1>14, <3>1 DEF CloseOf, A
  <2> QED BY <2>1, <2>2
<1>16. CloseOf(l)'
  BY <1>5, <1>10, <1>11, <1>15 DEF CloseOf, R
<1> QED BY <1>1, <1>4, <1>13, <1>16, ClosingKeeps DEF A, R

-----------------------------------------------------------------------------
LEMMA StepsKeep == IInv /\ [Next]_vars => IInv'
<1> SUFFICES ASSUME IInv, [Next]_vars PROVE IInv'
  OBVIOUS
<1>1. CASE HandlerStep
  <2>1. PICK t \in Threads :
          \/ \E s \in Signums : Send(t, s)
          \/ HandlerLocks(t)
          \/ \E h \in Handles : WriteMessage(t, h)
          \/ CountCaught(t)
          \/ HandlerReturns(t)
    BY <1>1 DEF HandlerStep
  <2> QED BY <2>1, SendKeeps, HandlerLocksKeeps, WriteMessageKeeps, CountCaughtKeeps,
             HandlerReturnsKeeps
<1>2. CASE CallStep
  <2>1. PICK l \in Loops :
          \/ \E h \in Handles, s \in Signums : SignalStart(l, h, s)
          \/ \E h \in Handles : SignalStop(l, h) \/ Close(l, h) \/ SignalInit(l, h)
          \/ DeleteLoop(l)
          \/ BlockAndLock(l) \/ RemoveHandle(l) \/ UnlockStopped(l)
          \/ InsertHandle(l) \/ RegisterFails(l) \/ UnlockStarted(l)
    BY <1>2 DEF CallStep
  <2> QED BY <2>1, SignalStartKeeps, SignalStopKeeps, CloseKeeps, SignalInitKeeps,
             DeleteLoopKeeps, BlockAndLockKeeps, RemoveHandleKeeps, UnlockStoppedKeeps,
             InsertHandleKeeps, RegisterFailsKeeps, UnlockStartedKeeps
<1>3. CASE LoopStep
  <2>1. PICK l \in Loops :
          \/ RunLoop(l) \/ PollSignal(l) \/ PollReturns(l)
          \/ CallSignal(l) \/ Dispatch(l) \/ EventDone(l)
          \/ CheckDone(l) \/ CallClosed(l) \/ ClosedReturns(l) \/ EndIteration(l)
    BY <1>3 DEF LoopStep
  <2> QED BY <2>1, IdlePhasesKeep, PollSignalKeeps, DispatchKeeps, CheckDoneKeeps,
             CallClosedKeeps
<1>4. CASE UNCHANGED vars
  <2> USE <1>4 DEF vars, handleVars, treeVars, loopVars
  <2>1. /\ \A h : Pending(h)' = Pending(h)
        /\ \A h : Uncounted(h)' <=> Uncounted(h)
        /\ \A h : Handling(h)' = Handling(h)
    BY DEF Pending, Uncounted, Handling
  <2>2. Types' /\ LockInv' /\ FrameInv' /\ CallInv' /\ WatchInv' /\ HandledIffWatched'
        /\ PhaseInv'
    BY DEF IInv, Types, LockInv, FrameInv, CallInv, WatchInv, HandledIffWatched,
           PhaseInv, IsClosing, IsUsable
  <2>3. MessageInv' /\ CaughtInv'
    BY <2>1 DEF IInv, MessageInv, CaughtInv
  <2>4. CloseInv'
    BY <2>1, OthersCloseAlike DEF IInv, CloseInv
  <2> QED BY <2>2, <2>3, <2>4 DEF IInv
<1> QED BY <1>1, <1>2, <1>3, <1>4 DEF Next

(* No message of h is left when none is counted for it.                    *)
LEMMA WaitingIsPending ==
  ASSUME IInv, NEW l \in Loops
  PROVE  /\ \A i \in DOMAIN Waiting(l) : Waiting(l)[i].h \in On(l)
         /\ \A h \in On(l) : (\A i \in DOMAIN Waiting(l) : Waiting(l)[i].h # h)
                             <=> Pending(h) = 0
<1> DEFINE M == [h : On(l), s : Signums]
           b == buf[l]
           p == pipe[l]
           w == Waiting(l)
<1>1. b \in Seq(M) /\ p \in Seq(M) /\ w = b \o p
  BY DEF IInv, MessageInv, Waiting
<1> HIDE DEF b, p, w, M
<1>2. /\ w \in Seq(M) /\ Len(w) = Len(b) + Len(p)
      /\ \A i \in 1..Len(b) + Len(p) : w[i] = IF i <= Len(b) THEN b[i] ELSE p[i - Len(b)]
  BY <1>1, ConcatProperties
<1>3. /\ DOMAIN b = 1..Len(b) /\ DOMAIN p = 1..Len(p) /\ DOMAIN w = 1..Len(b) + Len(p)
      /\ Len(b) \in Nat /\ Len(p) \in Nat
  BY <1>1, <1>2, LenProperties
<1>4. \A i \in DOMAIN w : w[i] \in ToSet(b) \cup ToSet(p)
  <2>1. ASSUME NEW i \in DOMAIN w PROVE w[i] \in ToSet(b) \cup ToSet(p)
    <3>1. CASE i <= Len(b)
      BY <1>2, <1>3, <3>1 DEF ToSet
    <3>2. CASE ~(i <= Len(b))
      <4>1. i - Len(b) \in DOMAIN p /\ w[i] = p[i - Len(b)]
        BY <1>2, <1>3, <3>2
      <4> QED BY <4>1 DEF ToSet
    <3> QED BY <3>1, <3>2
  <2> QED BY <2>1
<1>5. \A x \in ToSet(b) \cup ToSet(p) : \E i \in DOMAIN w : w[i] = x
  <2>1. ASSUME NEW j \in DOMAIN b PROVE j \in DOMAIN w /\ w[j] = b[j]
    BY <1>2, <1>3
  <2>2. ASSUME NEW j \in DOMAIN p
        PROVE  j + Len(b) \in DOMAIN w /\ w[j + Len(b)] = p[j]
    BY <1>2, <1>3
  <2> QED BY <2>1, <2>2 DEF ToSet
<1>6. /\ ToSet(b) \subseteq M /\ ToSet(p) \subseteq M
  BY <1>1, QueueElements
<1>7. ASSUME NEW h \in On(l)
      PROVE  (\A i \in DOMAIN w : w[i].h # h) <=> Pending(h) = 0
  <2>1. \A x \in M : x \in Of(h) <=> x.h = h
    BY DEF M, Of
  <2>2. (\A i \in DOMAIN w : w[i].h # h)
          <=> ToSet(b) \cap Of(h) = {} /\ ToSet(p) \cap Of(h) = {}
    BY <1>4, <1>5, <1>6, <2>1
  <2>3. /\ HowMany(b, Of(h)) \in Nat /\ HowMany(p, Of(h)) \in Nat
        /\ HowMany(b, Of(h)) = 0 <=> ToSet(b) \cap Of(h) = {}
        /\ HowMany(p, Of(h)) = 0 <=> ToSet(p) \cap Of(h) = {}
    BY <1>1, PositionsAreFinite
  <2>4. Pending(h) = HowMany(b, Of(h)) + HowMany(p, Of(h))
    BY LoopsHaveHandles DEF Pending, b, p
  <2> QED BY <2>2, <2>3, <2>4
<1>8. \A i \in DOMAIN w : w[i].h \in On(l)
  BY <1>4, <1>6 DEF M
<1> QED BY <1>7, <1>8 DEF w

LEMMA InvariantCloses == IInv => ClosedWhenDrained
<1> SUFFICES ASSUME IInv PROVE ClosedWhenDrained
  OBVIOUS
<1>1. TypeOK
  BY InvariantTypes
<1>2. ASSUME NEW l \in Loops, NEW i \in DOMAIN Waiting(l)
      PROVE  ~IsClosed(hs[l], Waiting(l)[i].h)
  <2>1. PICK h \in On(l) : h = Waiting(l)[i].h
    BY WaitingIsPending
  <2>2. Pending(h) # 0
    BY <2>1, WaitingIsPending
  <2>3. phase[l] # "gone"
    <3>1. SUFFICES ASSUME phase[l] = "gone" PROVE FALSE
      OBVIOUS
    <3>2. buf[l] = <<>> /\ pipe[l] = <<>>
      BY <3>1 DEF IInv, PhaseInv
    <3>3. Pending(h) = 0
      BY <3>2, NoneInEmpty, LoopsHaveHandles DEF Pending
    <3> QED BY <2>2, <3>3
  <2>4. IsClosed(hs[l], h) => Pending(h) = 0
    BY <2>3 DEF IInv, CloseInv, CloseOf
  <2> QED BY <2>1, <2>2, <2>4
<1>3. ASSUME NEW l \in Loops, phase[l] # "gone", NEW h \in On(l)
      PROVE  LET drained == \A i \in DOMAIN Waiting(l) : Waiting(l)[i].h # h
                 closing == IsClosing(hs[l], h) /\ call[l].h # h
             IN CloseCalls(hs[l], h) = IF closing /\ drained THEN 1 ELSE 0
  <2>1. CloseOf(l)
    BY DEF IInv, CloseInv
  <2>2. CloseCalls(hs[l], h) = IF h \in Due(hs[l]) THEN 1 ELSE 0
    <3> DEFINE A == hs[l]
    <3>1. /\ A \in HandlesOf(On(l)) /\ IsInjective(A.closing) /\ IsInjective(A.doomed)
          /\ ToSet(A.closing) \cap ToSet(A.doomed) = {}
      BY <2>1 DEF CloseOf, CountsItsHandles
    <3> HIDE DEF A
    <3>2. CloseCalls(A, h) = IF h \in ToSet(A.closing) \cup ToSet(A.doomed) THEN 1 ELSE 0
      BY <3>1, CallsOnce
    <3> QED BY <3>2 DEF A, Due
  <2>3. h \in Due(hs[l]) <=> IsClosing(hs[l], h) /\ call[l].h # h /\ Pending(h) = 0
    BY <1>3, <2>1 DEF CloseOf
  <2>4. (\A i \in DOMAIN Waiting(l) : Waiting(l)[i].h # h) <=> Pending(h) = 0
    BY WaitingIsPending
  <2> QED BY <2>2, <2>3, <2>4
<1> QED BY <1>1, <1>2, <1>3 DEF ClosedWhenDrained

LEMMA InvariantLeavesAlone == IInv => DeletedLoopIsLeftAlone
<1> SUFFICES ASSUME IInv, NEW l \in Loops, phase[l] = "gone"
             PROVE  /\ tree \cap On(l) = {}
                    /\ pipe[l] = <<>>
                    /\ \A t \in Threads : frame[t].h \notin On(l)
  BY DEF DeletedLoopIsLeftAlone
<1>1. pipe[l] = <<>> /\ \A h \in On(l) : signum[h] = None
  BY DEF IInv, PhaseInv
<1>2. tree \cap On(l) = {}
  BY <1>1 DEF IInv, WatchInv
<1>3. ASSUME NEW t \in Threads PROVE frame[t].h \notin On(l)
  <2>1. frame[t].h \in tree \/ frame[t].h = None
    BY DEF IInv, FrameInv
  <2> QED BY <1>2, <2>1, LoopsHaveHandles
<1> QED BY <1>1, <1>2, <1>3

-----------------------------------------------------------------------------
(* In every reachable state the difference of caught_signals and           *)
(* dispatched_signals of a handle is the number of its messages that       *)
(* uv__signal_event() has not yet looked at, but for one that a handler    *)
(* has written and has still to count, and everything else of IInv holds:  *)
(* who has read the byte of uv__signal_lock_pipefd is alone with the tree, *)
(* and a handle in the tree is not closed.                                 *)
THEOREM MessagesAreAccounted == Spec => []IInv
<1>1. Init => IInv
  BY InitKeepsMessages
<1>2. IInv /\ [Next]_vars => IInv'
  BY StepsKeep
<1> QED BY <1>1, <1>2, PTL DEF Spec

(* The action of a signal is uv__signal_handler() as long as a handle of   *)
(* some loop watches the signal, and no longer: uv_signal_start() and      *)
(* uv__signal_stop() ask uv__signal_first_handle() under the lock.         *)
THEOREM SignalsAreHandled == Spec => []HandledIffWatched
<1>1. IInv => HandledIffWatched
  BY DEF IInv
<1> QED BY <1>1, MessagesAreAccounted, PTL

(* A signal handle is put on the list of closing handles exactly once, by  *)
(* uv__signal_close() or by the uv__signal_event() that looks at its last  *)
(* message, and no message points to a handle whose memory is the          *)
(* program's again.                                                        *)
THEOREM HandlesOutliveTheirMessages == Spec => []ClosedWhenDrained
<1>1. IInv => ClosedWhenDrained
  BY InvariantCloses
<1> QED BY <1>1, MessagesAreAccounted, PTL

(* When uv__signal_loop_cleanup() has run, no signal handler gets at the   *)
(* handles of the loop or at its pipe, in any thread.                      *)
THEOREM LoopsCanBeDeleted == Spec => []DeletedLoopIsLeftAlone
<1>1. IInv => DeletedLoopIsLeftAlone
  BY InvariantLeavesAlone
<1> QED BY <1>1, MessagesAreAccounted, PTL
=============================================================================
