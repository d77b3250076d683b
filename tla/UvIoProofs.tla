----------------------------- MODULE UvIoProofs -----------------------------
(***************************************************************************)
(* Proofs about the I/O watchers of UvIo, the programs with sockets of     *)
(* UvSockets and those with streams of UvStreamIo, for every set of        *)
(* handles, descriptors and requests.                                      *)
(***************************************************************************)
EXTENDS UvSockets, UvStreamIo, SharedLemmas

USE LoopAssumption, FdAssumption, UdpAssumption, PollAssumption, SocketsAssumption,
    StreamAssumption, RequestsAssumption

(* What uv__io_start(), uv__io_stop() and uv__io_poll() keep of the        *)
(* watchers of a set W of handles: the watcher of a descriptor is the one  *)
(* handle that has it and wants an event of it, and what the kernel was    *)
(* told differs from that only for the watchers in the queue.              *)
FdsAreOwn(I, W) ==
  /\ \A v, w \in W : I.fd[v] # None /\ I.fd[v] = I.fd[w] => v = w
  /\ \A w \in W : I.fd[w] # None => I.fd[w] \in I.open

CalledFits(I, f) == I.watchers[f] # None =>
  I.fd[I.watchers[f]] = f /\ I.pevents[I.watchers[f]] # {}
WantsFits(I, w) == I.pevents[w] # {} =>
  I.fd[w] # None /\ I.watchers[I.fd[w]] = w
WatchersFit(I, W) == (\A f \in Fds : CalledFits(I, f)) /\ \A w \in W : WantsFits(I, w)

ToldFits(I, w) ==
  /\ I.events[w] # {} =>
       I.pevents[w] # {} /\ I.epoll[I.fd[w]] \ {"err"} = I.events[w]
  /\ w \notin I.queue => I.events[w] = I.pevents[w]
  /\ w \in I.queue => I.pevents[w] # {}
KernelFits(I, W) == \A w \in W : ToldFits(I, w)

IoFit(I, W) ==
  /\ I \in WatchersOf(W) /\ I.ok
  /\ FdsAreOwn(I, W) /\ WatchersFit(I, W) /\ KernelFits(I, W)

(* The watcher w of I wants E in R, all else is as it was.                 *)
WantsInstead(I, W, w, E, R) ==
  /\ IoFit(R, W)
  /\ R.fd = I.fd /\ R.open = I.open /\ R.pending = I.pending /\ R.epoll = I.epoll
  /\ R.pevents[w] = E /\ \A v \in W : v # w => R.pevents[v] = I.pevents[v]
  /\ \A f \in Fds : f # I.fd[w] => R.watchers[f] = I.watchers[f]

(* The fields of the records of WatchersOf().                              *)
LEMMA WatchersTypes ==
  ASSUME NEW W, NEW I \in WatchersOf(W)
  PROVE  /\ I.fd \in [W -> Fds \cup {None}] /\ I.pevents \in [W -> SUBSET {"in", "out"}]
         /\ I.events \in [W -> SUBSET {"in", "out"}] /\ I.queue \in SUBSET W
         /\ I.pending \in Seq(W) /\ I.watchers \in [Fds -> W \cup {None}]
         /\ I.epoll \in [Fds -> SUBSET Events] /\ I.open \in SUBSET Fds
         /\ I.ok \in BOOLEAN
<1>1. /\ I.fd \in [W -> Fds \cup {None}] /\ I.pevents \in [W -> SUBSET {"in", "out"}]
      /\ I.events \in [W -> SUBSET {"in", "out"}]
  BY DEF WatchersOf
<1>2. /\ I.queue \in SUBSET W /\ I.pending \in Seq(W)
      /\ I.watchers \in [Fds -> W \cup {None}]
  BY DEF WatchersOf
<1>3. I.epoll \in [Fds -> SUBSET Events] /\ I.open \in SUBSET Fds /\ I.ok \in BOOLEAN
  BY DEF WatchersOf
<1> QED BY <1>1, <1>2, <1>3

(* Some handle has the descriptor that another one wants.                  *)
LEMMA OneWatcher ==
  ASSUME NEW W, NEW I, IoFit(I, W), None \notin W, NEW w \in W, I.fd[w] # None
  PROVE  /\ I.fd[w] \in Fds
         /\ I.watchers[I.fd[w]] = IF I.pevents[w] = {} THEN None ELSE w
<1>1. I.fd[w] \in Fds /\ I.watchers[I.fd[w]] \in W \cup {None}
  <2>1. I \in WatchersOf(W)
    BY DEF IoFit
  <2>2. I.fd \in [W -> Fds \cup {None}] /\ I.watchers \in [Fds -> W \cup {None}]
    BY <2>1, WatchersTypes
  <2> QED BY <2>2
<1>2. CASE I.watchers[I.fd[w]] = None
  BY <1>1, <1>2 DEF IoFit, WatchersFit, WantsFits
<1>3. CASE I.watchers[I.fd[w]] # None
  <2>1. PICK v \in W : v = I.watchers[I.fd[w]]
    BY <1>1, <1>3
  <2>2. I.fd[v] = I.fd[w] /\ I.pevents[v] # {}
    BY <1>1, <1>3, <2>1 DEF IoFit, WatchersFit, CalledFits
  <2>3. v = w
    BY <2>1, <2>2 DEF IoFit, FdsAreOwn
  <2> QED BY <1>1, <2>1, <2>2, <2>3
<1> QED BY <1>2, <1>3

LEMMA FdsDiffer ==
  ASSUME NEW W, NEW I, FdsAreOwn(I, W), NEW v \in W, NEW w \in W, v # w, I.fd[v] # None
  PROVE  I.fd[v] # I.fd[w]
BY DEF FdsAreOwn

(* Only what the watcher w wants, has told epoll and is called for changes *)
(* from I to R.                                                            *)
OnlyChanges(I, W, w, R) ==
  /\ R \in WatchersOf(W) /\ R.ok = I.ok
  /\ R.fd = I.fd /\ R.open = I.open /\ R.pending = I.pending /\ R.epoll = I.epoll
  /\ \A v \in W : v # w => /\ R.pevents[v] = I.pevents[v] /\ R.events[v] = I.events[v]
                           /\ v \in R.queue <=> v \in I.queue
  /\ \A f \in Fds : f # I.fd[w] => R.watchers[f] = I.watchers[f]

(* Then what has to be shown is about w alone.                             *)
LEMMA OnlyOneToFit ==
  ASSUME NEW W, NEW I, IoFit(I, W), None \notin W, NEW w \in W, I.fd[w] # None,
         NEW R, OnlyChanges(I, W, w, R), ToldFits(R, w),
         R.watchers[I.fd[w]] = IF R.pevents[w] = {} THEN None ELSE w
  PROVE  WantsInstead(I, W, w, R.pevents[w], R)
<1>1. /\ FdsAreOwn(I, W) /\ WatchersFit(I, W) /\ KernelFits(I, W) /\ I.ok
      /\ I.watchers \in [Fds -> W \cup {None}]
  BY WatchersTypes DEF IoFit
<1>2. FdsAreOwn(R, W)
  BY <1>1 DEF FdsAreOwn, OnlyChanges
<1>3. ASSUME NEW f \in Fds PROVE CalledFits(R, f)
  <2>1. CASE f = I.fd[w]
    BY <2>1 DEF CalledFits, OnlyChanges
  <2>2. CASE f # I.fd[w]
    <3>1. R.watchers[f] = I.watchers[f] /\ I.watchers[f] \in W \cup {None}
      BY <1>1, <2>2 DEF OnlyChanges
    <3>2. SUFFICES ASSUME I.watchers[f] # None PROVE CalledFits(R, f)
      BY <3>1 DEF CalledFits
    <3>3. PICK v \in W : v = I.watchers[f]
      BY <3>1, <3>2
    <3>4. I.fd[v] = f /\ I.pevents[v] # {} /\ v # w
      BY <1>1, <2>2, <3>2, <3>3 DEF WatchersFit, CalledFits
    <3>5. R.pevents[v] = I.pevents[v] /\ R.fd = I.fd
      BY <3>4 DEF OnlyChanges
    <3> QED BY <3>1, <3>3, <3>4, <3>5 DEF CalledFits
  <2> QED BY <2>1, <2>2
<1>4. ASSUME NEW v \in W PROVE WantsFits(R, v)
  <2>1. CASE v = w
    BY <2>1 DEF WantsFits, OnlyChanges
  <2>2. CASE v # w
    <3>1. R.pevents[v] = I.pevents[v] /\ R.fd = I.fd
      BY <2>2 DEF OnlyChanges
    <3>2. SUFFICES ASSUME I.pevents[v] # {} PROVE WantsFits(R, v)
      BY <3>1 DEF WantsFits
    <3>3. I.fd[v] # None /\ I.watchers[I.fd[v]] = v
      BY <1>1, <3>2 DEF WatchersFit, WantsFits
    <3>4. I.fd[v] \in Fds /\ I.fd[v] # I.fd[w]
      BY <1>1, <2>2, <3>3, OneWatcher, FdsDiffer
    <3>5. R.watchers[I.fd[v]] = I.watchers[I.fd[v]]
      BY <3>4 DEF OnlyChanges
    <3> QED BY <3>1, <3>3, <3>5 DEF WantsFits
  <2> QED BY <2>1, <2>2
<1>5. ASSUME NEW v \in W PROVE ToldFits(R, v)
  <2>1. CASE v # w
    BY <1>1, <2>1 DEF KernelFits, ToldFits, OnlyChanges
  <2> QED BY <2>1
<1>6. IoFit(R, W)
  BY <1>1, <1>2, <1>3, <1>4, <1>5 DEF IoFit, WatchersFit, KernelFits, OnlyChanges
<1> QED BY <1>6 DEF WantsInstead, OnlyChanges

(* uv__io_start()                                                          *)
LEMMA IoStartFields ==
  ASSUME NEW W, NEW I \in WatchersOf(W), NEW w \in W, NEW evs \in SUBSET {"in", "out"},
         I.fd[w] # None, I.watchers[I.fd[w]] \in {None, w}
  PROVE  LET R == IoStart(I, w, evs)
         IN /\ R \in WatchersOf(W) /\ R.ok = I.ok
            /\ R.fd = I.fd /\ R.open = I.open /\ R.pending = I.pending
            /\ R.epoll = I.epoll /\ R.events = I.events
            /\ R.queue = I.queue \cup {w}
            /\ R.pevents = [I.pevents EXCEPT ![w] = @ \cup evs]
            /\ R.watchers = [I.watchers EXCEPT ![I.fd[w]] = w]
<1> DEFINE f == I.fd[w]
           R == [I EXCEPT !.pevents[w] = @ \cup evs, !.queue = @ \cup {w},
                          !.watchers[f] = w]
<1>1. /\ I.pevents \in [W -> SUBSET {"in", "out"}] /\ I.queue \in SUBSET W
      /\ I.watchers \in [Fds -> W \cup {None}] /\ f \in Fds
  BY WatchersTypes
<1>2. IoStart(I, w, evs) = [I EXCEPT !.pevents[w] = @ \cup evs, !.queue = @ \cup {w},
                                     !.watchers[f] = IF @ = None THEN w ELSE @]
  BY DEF IoStart
<1>3. w = IF I.watchers[f] = None THEN w ELSE I.watchers[f]
  OBVIOUS
<1>4. IoStart(I, w, evs) = R
  BY <1>2, <1>3
<1>5. /\ R.ok = I.ok /\ R.fd = I.fd /\ R.open = I.open /\ R.pending = I.pending
      /\ R.epoll = I.epoll /\ R.events = I.events
      /\ R.queue = I.queue \cup {w}
      /\ R.pevents = [I.pevents EXCEPT ![w] = @ \cup evs]
      /\ R.watchers = [I.watchers EXCEPT ![f] = w]
  BY DEF WatchersOf
<1>6. R \in WatchersOf(W)
  BY <1>1 DEF WatchersOf
<1> HIDE DEF R
<1> QED BY <1>4, <1>5, <1>6

LEMMA IoStartFits ==
  ASSUME NEW W, NEW I, IoFit(I, W), None \notin W, NEW w \in W, I.fd[w] # None,
         NEW evs \in SUBSET {"in", "out"}, evs # {}
  PROVE  WantsInstead(I, W, w, I.pevents[w] \cup evs, IoStart(I, w, evs))
<1> DEFINE R == IoStart(I, w, evs)
<1>1. /\ I.watchers \in [Fds -> W \cup {None}] /\ I.queue \in SUBSET W /\ I \in WatchersOf(W)
      /\ I.pevents \in [W -> SUBSET {"in", "out"}] /\ I.fd[w] \in Fds
      /\ I.watchers[I.fd[w]] \in {None, w} /\ ToldFits(I, w)
  BY WatchersTypes, OneWatcher DEF IoFit, KernelFits
<1>2. /\ R \in WatchersOf(W) /\ R.ok = I.ok
      /\ R.fd = I.fd /\ R.open = I.open /\ R.pending = I.pending
      /\ R.epoll = I.epoll /\ R.events = I.events
      /\ R.queue = I.queue \cup {w}
      /\ R.pevents = [I.pevents EXCEPT ![w] = @ \cup evs]
      /\ R.watchers = [I.watchers EXCEPT ![I.fd[w]] = w]
  BY <1>1, IoStartFields
<1> HIDE DEF R
<1>3. R.pevents[w] = I.pevents[w] \cup evs /\ R.watchers[I.fd[w]] = w
  BY <1>1, <1>2
<1>4. OnlyChanges(I, W, w, R)
  BY <1>1, <1>2 DEF OnlyChanges
<1>5. ToldFits(R, w)
  BY <1>1, <1>2, <1>3 DEF ToldFits
<1>6. WantsInstead(I, W, w, R.pevents[w], R)
  BY <1>3, <1>4, <1>5, OnlyOneToFit
<1> QED BY <1>3, <1>6 DEF R

(* uv__io_stop() of a watcher that has a descriptor: it is called no more  *)
(* if it wants nothing more.                                               *)
StopsToWant(I, W, w, rest, R) ==
  /\ R \in WatchersOf(W) /\ R.ok = I.ok
  /\ R.fd = I.fd /\ R.open = I.open /\ R.pending = I.pending
  /\ R.epoll = I.epoll
  /\ R.pevents = [I.pevents EXCEPT ![w] = rest]
  /\ rest = {} => /\ R.watchers = [I.watchers EXCEPT ![I.fd[w]] = None]
                  /\ R.events = [I.events EXCEPT ![w] = {}]
                  /\ R.queue = I.queue \ {w}
  /\ rest # {} => /\ R.watchers = I.watchers /\ R.events = I.events
                  /\ R.queue = I.queue \cup {w}

LEMMA IoStopFields ==
  ASSUME NEW W, None \notin W, NEW I \in WatchersOf(W), NEW w \in W, NEW evs \in SUBSET {"in", "out"},
         I.fd[w] # None,
         I.watchers[I.fd[w]] = IF I.pevents[w] = {} THEN None ELSE w,
         I.pevents[w] = {} => I.events[w] = {}
  PROVE  StopsToWant(I, W, w, I.pevents[w] \ evs, IoStop(I, w, evs))
<1> DEFINE R    == IoStop(I, w, evs)
           rest == I.pevents[w] \ evs
           f    == I.fd[w]
           less == [I EXCEPT !.pevents[w] = rest,
                             !.queue = IF rest = {} THEN @ \ {w} ELSE @ \cup {w}]
<1>1. /\ I.pevents \in [W -> SUBSET {"in", "out"}] /\ I.queue \in SUBSET W
      /\ I.events \in [W -> SUBSET {"in", "out"}]
      /\ I.watchers \in [Fds -> W \cup {None}] /\ I.ok \in BOOLEAN
      /\ f \in Fds
  <2>1. I.fd \in [W -> Fds \cup {None}]
    BY WatchersTypes
  <2> QED BY <2>1, WatchersTypes
<1>2. /\ less \in WatchersOf(W)
      /\ less.fd = I.fd /\ less.open = I.open /\ less.pending = I.pending
      /\ less.epoll = I.epoll /\ less.ok = I.ok /\ less.watchers = I.watchers
      /\ less.events = I.events
      /\ less.pevents = [I.pevents EXCEPT ![w] = rest]
      /\ rest = {} => less.queue = I.queue \ {w}
      /\ rest # {} => less.queue = I.queue \cup {w}
  BY DEF WatchersOf
<1>3. ASSUME rest = {}, I.watchers[f] # None
      PROVE  R = Asserting([less EXCEPT !.watchers[f] = None, !.events[w] = {}],
                           I.watchers[f] = w)
  BY <1>3 DEF IoStop
<1>0. ASSUME rest # {} \/ I.watchers[f] = None PROVE R = less
  BY <1>0 DEF IoStop
<1>7. rest = {} => I.watchers[f] \in {None, w}
  OBVIOUS
<1>8. rest = {} /\ I.watchers[f] = None => I.events[w] = {}
  OBVIOUS
<1>9. I.watchers[f] = None => I.pevents[w] = {}
  OBVIOUS
<1> SUFFICES StopsToWant(I, W, w, rest, R)
  OBVIOUS
<1> HIDE DEF less, R, rest
<1>4. CASE rest = {} /\ I.watchers[f] # None
  <2> DEFINE out == [less EXCEPT !.watchers[f] = None, !.events[w] = {}]
  <2>1. /\ out \in WatchersOf(W)
        /\ out.fd = less.fd /\ out.open = less.open /\ out.pending = less.pending
        /\ out.epoll = less.epoll /\ out.ok = less.ok /\ out.pevents = less.pevents
        /\ out.queue = less.queue
        /\ out.watchers = [less.watchers EXCEPT ![f] = None]
        /\ out.events = [less.events EXCEPT ![w] = {}]
    BY <1>2 DEF WatchersOf
  <2> HIDE DEF out
  <2>2. I.watchers[f] = w
    BY <1>4, <1>7
  <2>3. R = [out EXCEPT !.ok = @ /\ TRUE]
    BY <1>3, <1>4, <2>2 DEF Asserting, out
  <2>4. /\ R \in WatchersOf(W)
        /\ R.fd = out.fd /\ R.open = out.open /\ R.pending = out.pending
        /\ R.epoll = out.epoll /\ R.ok = out.ok /\ R.pevents = out.pevents
        /\ R.queue = out.queue /\ R.watchers = out.watchers /\ R.events = out.events
    BY <2>1, <2>3 DEF WatchersOf
  <2> QED BY <1>2, <1>4, <2>1, <2>4 DEF StopsToWant
<1>5. CASE rest # {}
  <2>1. R = less
    BY <1>0, <1>5
  <2> QED BY <1>2, <1>5, <2>1 DEF StopsToWant
<1>6. CASE rest = {} /\ I.watchers[f] = None
  <2>1. R = less /\ I.events[w] = {}
    BY <1>0, <1>6, <1>8
  <2>2. /\ I.watchers = [I.watchers EXCEPT ![f] = None]
        /\ I.events = [I.events EXCEPT ![w] = {}]
    BY <1>1, <1>6, <2>1
  <2> QED BY <1>2, <1>6, <2>1, <2>2 DEF StopsToWant
<1> QED BY <1>4, <1>5, <1>6

LEMMA IoStopFits ==
  ASSUME NEW W, NEW I, IoFit(I, W), None \notin W, NEW w \in W,
         NEW evs \in SUBSET {"in", "out"}
  PROVE  WantsInstead(I, W, w, I.pevents[w] \ evs, IoStop(I, w, evs))
<1> DEFINE R    == IoStop(I, w, evs)
           rest == I.pevents[w] \ evs
<1>1. CASE I.fd[w] = None
  <2>1. I.pevents[w] = {} /\ R = I
    BY <1>1 DEF IoFit, WatchersFit, WantsFits, IoStop
  <2> QED BY <2>1 DEF WantsInstead
<1>2. CASE I.fd[w] # None
  <2>1. /\ I.watchers \in [Fds -> W \cup {None}] /\ I.queue \in SUBSET W
        /\ I \in WatchersOf(W) /\ I.events \in [W -> SUBSET {"in", "out"}]
        /\ I.pevents \in [W -> SUBSET {"in", "out"}] /\ I.fd[w] \in Fds
        /\ I.watchers[I.fd[w]] = (IF I.pevents[w] = {} THEN None ELSE w)
        /\ ToldFits(I, w)
    BY <1>2, WatchersTypes, OneWatcher DEF IoFit, KernelFits
  <2>2. StopsToWant(I, W, w, rest, R)
    <3>1. I.pevents[w] = {} => I.events[w] = {}
      BY <2>1 DEF ToldFits
    <3> QED BY <1>2, <2>1, <3>1, IoStopFields
  <2> HIDE DEF R
  <2>3. R.pevents[w] = rest
    BY <2>1, <2>2 DEF StopsToWant
  <2>4. R.watchers[I.fd[w]] = IF rest = {} THEN None ELSE w
    BY <2>1, <2>2 DEF StopsToWant
  <2>5. OnlyChanges(I, W, w, R)
    <3>1. ASSUME NEW v \in W, v # w
          PROVE  /\ R.pevents[v] = I.pevents[v] /\ R.events[v] = I.events[v]
                 /\ v \in R.queue <=> v \in I.queue
      BY <2>1, <2>2, <3>1 DEF StopsToWant
    <3>2. \A f \in Fds : f # I.fd[w] => R.watchers[f] = I.watchers[f]
      BY <2>1, <2>2 DEF StopsToWant
    <3> QED BY <2>2, <3>1, <3>2 DEF OnlyChanges, StopsToWant
  <2>6. ToldFits(R, w)
    <3>1. CASE rest = {}
      <4>1. R.events[w] = {} /\ w \notin R.queue
        BY <2>1, <2>2, <3>1 DEF StopsToWant
      <4> QED BY <2>3, <3>1, <4>1 DEF ToldFits
    <3>2. CASE rest # {}
      <4>1. R.events = I.events /\ w \in R.queue /\ R.epoll = I.epoll /\ R.fd = I.fd
        BY <2>1, <2>2, <3>2 DEF StopsToWant
      <4>2. R.events[w] # {} => R.epoll[R.fd[w]] \ {"err"} = R.events[w]
        BY <2>1, <4>1 DEF ToldFits
      <4> QED BY <2>3, <3>2, <4>1, <4>2 DEF ToldFits
    <3> QED BY <3>1, <3>2
  <2>7. WantsInstead(I, W, w, R.pevents[w], R)
    BY <1>2, <2>3, <2>4, <2>5, <2>6, OnlyOneToFit
  <2> QED BY <2>3, <2>7 DEF R
<1> QED BY <1>1, <1>2

-----------------------------------------------------------------------------
(* A watcher that wants nothing gets another descriptor, or none.          *)
OtherFd(I, W, w, d, R) ==
  /\ R \in WatchersOf(W) /\ R.ok = I.ok
  /\ R.fd = [I.fd EXCEPT ![w] = d]
  /\ R.pevents = I.pevents /\ R.events = I.events /\ R.queue = I.queue
  /\ R.watchers = I.watchers /\ R.pending = I.pending
  /\ \A f \in Fds : f # I.fd[w] => R.epoll[f] = I.epoll[f]

LEMMA OtherFdFits ==
  ASSUME NEW W, NEW I, IoFit(I, W), None \notin W, NEW w \in W, I.pevents[w] = {},
         NEW d, NEW R, OtherFd(I, W, w, d, R), FdsAreOwn(R, W)
  PROVE  IoFit(R, W)
<1>1. /\ WatchersFit(I, W) /\ KernelFits(I, W) /\ I.ok /\ FdsAreOwn(I, W)
      /\ I \in WatchersOf(W)
  BY DEF IoFit
<1>2. /\ I.watchers \in [Fds -> W \cup {None}] /\ I.fd \in [W -> Fds \cup {None}]
  BY <1>1, WatchersTypes
<1>3. ASSUME NEW v \in W, v # w PROVE R.fd[v] = I.fd[v]
  BY <1>2, <1>3 DEF OtherFd
<1>4. ASSUME NEW f \in Fds PROVE CalledFits(R, f)
  <2>1. SUFFICES ASSUME I.watchers[f] # None PROVE CalledFits(R, f)
    BY DEF CalledFits, OtherFd
  <2>2. PICK v \in W : v = I.watchers[f]
    BY <1>2, <2>1
  <2>3. I.fd[v] = f /\ I.pevents[v] # {} /\ v # w
    BY <1>1, <2>1, <2>2 DEF WatchersFit, CalledFits
  <2>4. R.fd[v] = f
    BY <1>3, <2>3
  <2>5. R.watchers[f] = v /\ R.pevents[v] # {}
    BY <2>2, <2>3 DEF OtherFd
  <2> QED BY <2>4, <2>5 DEF CalledFits
<1>5. ASSUME NEW v \in W PROVE WantsFits(R, v) /\ ToldFits(R, v)
  <2>1. CASE v = w
    <3>1. ToldFits(I, w)
      BY <1>1 DEF KernelFits
    <3>2. R.pevents[w] = {} /\ R.events[w] = I.events[w] /\ R.queue = I.queue
      BY DEF OtherFd
    <3> QED BY <2>1, <3>1, <3>2 DEF ToldFits, WantsFits
  <2>2. CASE v # w
    <3>1. /\ R.pevents[v] = I.pevents[v] /\ R.events[v] = I.events[v]
          /\ R.queue = I.queue /\ R.watchers = I.watchers /\ R.fd[v] = I.fd[v]
      BY <1>3, <2>2 DEF OtherFd
    <3>2. WantsFits(I, v) /\ ToldFits(I, v)
      BY <1>1 DEF WatchersFit, KernelFits
    <3>3. WantsFits(R, v)
      BY <3>1, <3>2 DEF WantsFits
    <3>4. ASSUME I.events[v] # {} PROVE R.epoll[R.fd[v]] = I.epoll[I.fd[v]]
      <4>1. I.fd[v] # None
        BY <3>2, <3>4 DEF ToldFits, WantsFits
      <4>2. I.fd[v] \in Fds /\ I.fd[v] # I.fd[w]
        BY <1>1, <1>2, <2>2, <4>1, FdsDiffer
      <4> QED BY <3>1, <4>2 DEF OtherFd
    <3>5. ToldFits(R, v)
      BY <3>1, <3>2, <3>4 DEF ToldFits
    <3> QED BY <3>3, <3>5
  <2> QED BY <2>1, <2>2
<1>6. R \in WatchersOf(W) /\ R.ok
  BY <1>1 DEF OtherFd
<1> QED BY <1>4, <1>5, <1>6 DEF IoFit, WatchersFit, KernelFits

(* socket(): the descriptor is nobody's.                                   *)
HasOpened(I, W, w, f, R) ==
  /\ IoFit(R, W) /\ R.pending = I.pending /\ R.pevents = I.pevents
  /\ R.watchers = I.watchers /\ R.fd = [I.fd EXCEPT ![w] = f]
  /\ R.open = I.open \cup {f} /\ R.epoll = I.epoll

LEMMA OpenedFits ==
  ASSUME NEW W, NEW I, IoFit(I, W), None \notin W, NEW w \in W, I.fd[w] = None,
         NEW f \in Fds \ I.open, NEW R, R = [Opened(I, f) EXCEPT !.fd[w] = f]
  PROVE  HasOpened(I, W, w, f, R)
<1>1. /\ WatchersFit(I, W) /\ FdsAreOwn(I, W) /\ I \in WatchersOf(W)
  BY DEF IoFit
<1>2. I.fd \in [W -> Fds \cup {None}] /\ I.open \in SUBSET Fds
  BY <1>1, WatchersTypes
<1>3. /\ R \in WatchersOf(W)
      /\ R.fd = [I.fd EXCEPT ![w] = f] /\ R.open = I.open \cup {f}
      /\ R.pevents = I.pevents /\ R.events = I.events /\ R.queue = I.queue
      /\ R.watchers = I.watchers /\ R.pending = I.pending /\ R.epoll = I.epoll
      /\ R.ok = I.ok
  BY <1>1, <1>2 DEF WatchersOf, Opened
<1>4. OtherFd(I, W, w, f, R)
  BY <1>3 DEF OtherFd
<1>5. FdsAreOwn(R, W)
  <2>1. ASSUME NEW v \in W PROVE R.fd[v] = IF v = w THEN f ELSE I.fd[v]
    BY <1>2, <1>3
  <2>2. ASSUME NEW v \in W PROVE I.fd[v] # None => I.fd[v] \in I.open /\ I.fd[v] # f
    BY <1>1 DEF FdsAreOwn
  <2>3. ASSUME NEW v \in W PROVE R.fd[v] # None => R.fd[v] \in R.open
    BY <1>3, <2>1, <2>2
  <2>4. ASSUME NEW u \in W, NEW v \in W, R.fd[u] # None, R.fd[u] = R.fd[v] PROVE u = v
    BY <1>1, <2>1, <2>2, <2>4 DEF FdsAreOwn
  <2> QED BY <2>3, <2>4 DEF FdsAreOwn
<1>6. I.pevents[w] = {}
  BY <1>1 DEF WatchersFit, WantsFits
<1>7. IoFit(R, W)
  BY <1>4, <1>5, <1>6, OtherFdFits
<1> QED BY <1>3, <1>7 DEF HasOpened

(* close(): it is out of the epoll set.                                    *)
LEMMA FdClosedFits ==
  ASSUME NEW W, NEW I, IoFit(I, W), None \notin W, NEW w \in W, I.pevents[w] = {},
         NEW R, OtherFd(I, W, w, None, R),
         R.open = I.open \ {I.fd[w]}
  PROVE  IoFit(R, W)
<1>1. FdsAreOwn(I, W) /\ I \in WatchersOf(W)
  BY DEF IoFit
<1>2. I.fd \in [W -> Fds \cup {None}] /\ I.open \in SUBSET Fds
  BY <1>1, WatchersTypes
<1>3. ASSUME NEW v \in W PROVE R.fd[v] = IF v = w THEN None ELSE I.fd[v]
  BY <1>2 DEF OtherFd
<1>4. ASSUME NEW v \in W, R.fd[v] # None PROVE R.fd[v] \in R.open
  BY <1>1, <1>3, <1>4 DEF FdsAreOwn
<1>5. ASSUME NEW u \in W, NEW v \in W, R.fd[u] # None, R.fd[u] = R.fd[v] PROVE u = v
  BY <1>1, <1>3, <1>5 DEF FdsAreOwn
<1>6. FdsAreOwn(R, W)
  BY <1>4, <1>5 DEF FdsAreOwn
<1> QED BY <1>6, OtherFdFits

(* The failure of uv__bind().                                              *)
LEMMA BindFailsFits ==
  ASSUME NEW W, NEW I, IoFit(I, W), None \notin W, NEW w \in W, I.pevents[w] = {},
         I.fd[w] # None
  PROVE  LET R == [CloseFd(I, I.fd[w]) EXCEPT !.fd[w] = None]
         IN /\ IoFit(R, W) /\ R.pending = I.pending /\ R.pevents = I.pevents
            /\ R.watchers = I.watchers /\ R.fd = [I.fd EXCEPT ![w] = None]
<1> DEFINE f == I.fd[w]
           R == [CloseFd(I, f) EXCEPT !.fd[w] = None]
           S == [[I EXCEPT !.open = @ \ {f}, !.epoll[f] = {}] EXCEPT !.fd[w] = None]
<1>1. I \in WatchersOf(W) /\ I.fd \in [W -> Fds \cup {None}]
  BY WatchersTypes DEF IoFit
<1>2. f \in Fds
  BY <1>1
<1>3. R = S
  BY DEF CloseFd
<1>4. /\ S.fd = [I.fd EXCEPT ![w] = None] /\ S.open = I.open \ {f}
      /\ S.pevents = I.pevents /\ S.events = I.events /\ S.queue = I.queue
      /\ S.watchers = I.watchers /\ S.pending = I.pending /\ S.ok = I.ok
      /\ S.epoll = [I.epoll EXCEPT ![f] = {}]
  BY <1>1 DEF WatchersOf
<1>5. S \in WatchersOf(W)
  BY <1>1, <1>2 DEF WatchersOf
<1> HIDE DEF R, S
<1>6. I.epoll \in [Fds -> SUBSET Events]
  BY <1>1, WatchersTypes
<1>7. OtherFd(I, W, w, None, R)
  BY <1>3, <1>4, <1>5, <1>6 DEF OtherFd
<1>8. IoFit(R, W)
  BY <1>3, <1>4, <1>7, FdClosedFits
<1> QED BY <1>3, <1>4, <1>8 DEF R

(* uv__io_init() of a watcher that is not used, of the same descriptor or  *)
(* of none.                                                                *)
LEMMA IoInitFits ==
  ASSUME NEW W, NEW I, IoFit(I, W), None \notin W, NEW w \in W, I.pevents[w] = {},
         NEW d, d = None \/ d = I.fd[w]
  PROVE  LET R == IoInit(I, w, d)
         IN /\ IoFit(R, W) /\ R.pending = I.pending /\ R.pevents = I.pevents
            /\ R.watchers = I.watchers /\ R.fd = [I.fd EXCEPT ![w] = d]
<1> DEFINE R == IoInit(I, w, d)
<1>1. I \in WatchersOf(W) /\ FdsAreOwn(I, W) /\ ToldFits(I, w)
  BY DEF IoFit, KernelFits
<1>2. /\ I.fd \in [W -> Fds \cup {None}] /\ I.pevents \in [W -> SUBSET {"in", "out"}]
      /\ I.events \in [W -> SUBSET {"in", "out"}] /\ d \in Fds \cup {None}
  BY <1>1, WatchersTypes
<1>3. /\ R.fd = [I.fd EXCEPT ![w] = d] /\ R.open = I.open
      /\ R.pevents = [I.pevents EXCEPT ![w] = {}]
      /\ R.events = [I.events EXCEPT ![w] = {}] /\ R.queue = I.queue
      /\ R.watchers = I.watchers /\ R.pending = I.pending /\ R.ok = I.ok
      /\ R.epoll = I.epoll
  BY <1>1 DEF WatchersOf, IoInit
<1>4. R \in WatchersOf(W)
  BY <1>1, <1>2 DEF WatchersOf, IoInit
<1> HIDE DEF R
<1>5. R.pevents = I.pevents /\ R.events = I.events
  <2>1. I.events[w] = {}
    BY <1>1 DEF ToldFits
  <2>2. I.pevents = [I.pevents EXCEPT ![w] = {}]
    BY <1>2
  <2>3. I.events = [I.events EXCEPT ![w] = {}]
    BY <1>2, <2>1
  <2> QED BY <1>3, <2>2, <2>3
<1>6. OtherFd(I, W, w, d, R)
  BY <1>3, <1>4, <1>5 DEF OtherFd
<1>7. ASSUME NEW v \in W PROVE R.fd[v] = IF v = w THEN d ELSE I.fd[v]
  BY <1>2, <1>3
<1>8. ASSUME NEW v \in W, R.fd[v] # None PROVE R.fd[v] = I.fd[v] /\ I.fd[v] \in I.open
  BY <1>1, <1>7, <1>8 DEF FdsAreOwn
<1>9. FdsAreOwn(R, W)
  BY <1>1, <1>3, <1>8, <1>7 DEF FdsAreOwn
<1>10. IoFit(R, W)
  BY <1>6, <1>9, OtherFdFits
<1> QED BY <1>3, <1>5, <1>10 DEF R

-----------------------------------------------------------------------------
(* The queue of watchers is empty after epoll was told.                    *)
LEMMA ArmFits ==
  ASSUME NEW W, NEW I, IoFit(I, W), None \notin W, NEW faulty
  PROVE  LET R == Arm(I, faulty)
         IN /\ IoFit(R, W) /\ R.fd = I.fd /\ R.pending = I.pending
            /\ R.pevents = I.pevents /\ R.watchers = I.watchers
            /\ \A w \in W : I.pevents[w] # {} => R.epoll[I.fd[w]] \ {"err"} = I.pevents[w]
<1> DEFINE R       == Arm(I, faulty)
           changed == {w \in I.queue : I.events[w] # I.pevents[w]}
           bad     == \E w \in I.queue : I.pevents[w] = {} \/ I.fd[w] = None
           at(f)   == {w \in changed : I.fd[w] = f}
           evs     == [w \in DOMAIN I.events |->
                         IF w \in changed THEN I.pevents[w] ELSE I.events[w]]
           own(f)  == UNION {I.pevents[w] : w \in at(f)}
           err(f)  == IF f \in faulty THEN {"err"} ELSE {}
           all(f)  == own(f) \cup err(f)
           ep      == [f \in Fds |-> IF at(f) = {} THEN I.epoll[f] ELSE all(f)]
<1>1. /\ WatchersFit(I, W) /\ KernelFits(I, W) /\ I.ok /\ FdsAreOwn(I, W)
      /\ I \in WatchersOf(W)
  BY DEF IoFit
<1>2. /\ I.fd \in [W -> Fds \cup {None}] /\ I.pevents \in [W -> SUBSET {"in", "out"}]
      /\ I.events \in [W -> SUBSET {"in", "out"}] /\ I.queue \in SUBSET W
      /\ I.epoll \in [Fds -> SUBSET Events]
  BY <1>1, WatchersTypes
<1>3. ~bad
  BY <1>1, <1>2 DEF WatchersFit, WantsFits, KernelFits, ToldFits
<1>4. evs = I.pevents
  <2>1. ASSUME NEW w \in W PROVE (w \notin changed) => I.events[w] = I.pevents[w]
    BY <1>1, <1>2 DEF KernelFits, ToldFits
  <2> QED BY <1>2, <2>1
<1>5. ASSUME NEW f \in Fds PROVE all(f) \subseteq Events
  <2>1. \A w \in at(f) : I.pevents[w] \subseteq Events
    BY <1>2 DEF Events
  <2>2. own(f) \subseteq Events
    BY <2>1
  <2>3. err(f) \subseteq Events
    BY DEF Events
  <2> HIDE DEF own, err
  <2> QED BY <2>2, <2>3
<1>6. ep \in [Fds -> SUBSET Events]
  BY <1>2, <1>5
<1>7. /\ R.fd = I.fd /\ R.pevents = I.pevents /\ R.pending = I.pending
      /\ R.watchers = I.watchers /\ R.open = I.open /\ R.queue = {}
      /\ R.events = evs /\ R.epoll = ep /\ R.ok = (I.ok /\ ~bad)
  <2>1. R = Asserting([I EXCEPT !.queue = {}, !.events = evs, !.epoll = ep], ~bad)
    BY DEF Arm
  <2> HIDE DEF evs, ep, R, bad
  <2> QED BY <1>1, <2>1 DEF Asserting, WatchersOf
<1>8. R \in WatchersOf(W)
  <2>1. R = [I EXCEPT !.queue = {}, !.events = evs, !.epoll = ep, !.ok = @ /\ ~bad]
    <3>1. R = Asserting([I EXCEPT !.queue = {}, !.events = evs, !.epoll = ep], ~bad)
      BY DEF Arm
    <3> HIDE DEF evs, ep, R, bad
    <3> QED BY <1>1, <3>1 DEF Asserting, WatchersOf
  <2> HIDE DEF evs, ep, R, bad
  <2>2. evs \in [W -> SUBSET {"in", "out"}]
    BY <1>2, <1>4
  <2> QED BY <1>1, <1>6, <2>1, <2>2 DEF WatchersOf
<1>9. ASSUME NEW w \in W, I.pevents[w] # {}
      PROVE  I.fd[w] \in Fds /\ ep[I.fd[w]] \ {"err"} = I.pevents[w]
  <2>1. I.fd[w] \in Fds
    BY <1>1, <1>2, <1>9 DEF WatchersFit, WantsFits
  <2>2. ASSUME NEW v \in at(I.fd[w]) PROVE v = w
    BY <1>1, <1>2, <2>1 DEF FdsAreOwn
  <2>3. CASE w \in changed
    <3>1. at(I.fd[w]) = {w}
      BY <2>2, <2>3
    <3>2. own(I.fd[w]) = I.pevents[w]
      BY <3>1
    <3>3. I.pevents[w] \subseteq {"in", "out"}
      BY <1>2
    <3>4. ep[I.fd[w]] = all(I.fd[w])
      BY <2>1, <3>1
    <3>5. err(I.fd[w]) \subseteq {"err"}
      OBVIOUS
    <3> HIDE DEF ep, at, own, err
    <3> QED BY <2>1, <3>2, <3>3, <3>4, <3>5
  <2>4. CASE w \notin changed
    <3>1. at(I.fd[w]) = {}
      BY <2>2, <2>4
    <3>2. I.events[w] = I.pevents[w]
      BY <1>1, <1>2, <2>4 DEF KernelFits, ToldFits
    <3>3. I.epoll[I.fd[w]] \ {"err"} = I.events[w]
      BY <1>1, <1>9, <3>2 DEF KernelFits, ToldFits
    <3> QED BY <2>1, <3>1, <3>2, <3>3
  <2> QED BY <2>3, <2>4
<1> HIDE DEF R, evs, ep, bad
<1>10. WatchersFit(R, W) /\ FdsAreOwn(R, W)
  BY <1>1, <1>7 DEF WatchersFit, CalledFits, WantsFits, FdsAreOwn
<1>11. KernelFits(R, W)
  BY <1>4, <1>7, <1>9 DEF KernelFits, ToldFits
<1>12. IoFit(R, W)
  BY <1>1, <1>3, <1>7, <1>8, <1>10, <1>11 DEF IoFit
<1> QED BY <1>7, <1>9, <1>12 DEF R

(* ... and an event of a descriptor without a watcher disarms it.          *)
LEMMA DisarmFits ==
  ASSUME NEW W, NEW I, IoFit(I, W), None \notin W, NEW f \in Fds, I.watchers[f] = None
  PROVE  LET R == Disarm(I, f)
         IN /\ IoFit(R, W) /\ R.fd = I.fd /\ R.pending = I.pending
            /\ R.pevents = I.pevents /\ R.watchers = I.watchers
<1> DEFINE R == Disarm(I, f)
<1>1. /\ WatchersFit(I, W) /\ KernelFits(I, W) /\ I.ok /\ FdsAreOwn(I, W)
      /\ I \in WatchersOf(W)
  BY DEF IoFit
<1>2. I.epoll \in [Fds -> SUBSET Events]
  BY <1>1, WatchersTypes
<1>3. /\ R.fd = I.fd /\ R.pevents = I.pevents /\ R.pending = I.pending
      /\ R.watchers = I.watchers /\ R.open = I.open /\ R.queue = I.queue
      /\ R.events = I.events /\ R.ok = I.ok
      /\ R.epoll = [I.epoll EXCEPT ![f] = {}]
  BY <1>1 DEF WatchersOf, Disarm
<1>4. R \in WatchersOf(W)
  BY <1>1 DEF WatchersOf, Disarm
<1> HIDE DEF R
<1>5. ASSUME NEW w \in W, I.pevents[w] # {} PROVE R.epoll[I.fd[w]] = I.epoll[I.fd[w]]
  <2>1. I.watchers[I.fd[w]] = w
    BY <1>1, <1>5 DEF WatchersFit, WantsFits
  <2> QED BY <1>2, <1>3, <2>1
<1>6. KernelFits(R, W)
  BY <1>1, <1>3, <1>5 DEF KernelFits, ToldFits
<1>7. WatchersFit(R, W) /\ FdsAreOwn(R, W)
  BY <1>1, <1>3 DEF WatchersFit, CalledFits, WantsFits, FdsAreOwn
<1>8. IoFit(R, W)
  BY <1>1, <1>3, <1>4, <1>6, <1>7 DEF IoFit
<1> QED BY <1>3, <1>8 DEF R

-----------------------------------------------------------------------------
(* What holds of the loop and its handles.                                 *)
Labels == {"none", "io", "again", "send", "completed", "finish", "closed"}
Frames ==
  [at : Labels, h : Handles \cup {None}, evs : SUBSET Events]

(* A handle is active exactly while it wants events.                       *)
HandleFits(h) ==
  /\ IsActive(hs, h) <=> io.pevents[h] # {}
  /\ hs.flags[h] # {} /\ IsUsable(hs, h) => "ref" \in hs.flags[h]
  /\ h \in Polls => io.fd[h] = FdOf[h] /\ hs.flags[h] # {}

LoopFits ==
  /\ HandlesFit(hs, Handles) /\ IoFit(io, Handles)
  /\ phase # "closing" => hs.doomed = <<>>
  /\ io.pending = <<>>
  /\ batch \in [Fds -> SUBSET Events] /\ (phase # "batch" => batch = NoBatch)
  /\ frame \in Frames
  /\ \A h \in Handles : HandleFits(h)

(* A handle is called for an event that is taken from the batch, or in the *)
(* end.                                                                    *)
FrameFits ==
  /\ frame.at = "none" \/ frame.h \in Handles
  /\ frame.at = "io" => ~user
  /\ frame.at \in {"io", "again", "send", "completed"} =>
       /\ phase = "batch"
       /\ io.fd[frame.h] # None => batch[io.fd[frame.h]] = {}
  /\ frame.at \in {"finish", "closed"} => phase = "closing"
  /\ frame.at = "finish" => IsClosed(hs, frame.h)

(* The requests of the program.                                            *)
SendsFit ==
  /\ write_queue \in [Udps -> Seq(Sends)] /\ completed \in [Udps -> Seq(Sends)]
  /\ receiving \subseteq Udps
  /\ reqs = UNION {Uncalled(h) : h \in Udps}
  /\ \A h \in Udps : IsInjective(SendsOf(h))
  /\ \A g, h \in Udps : g # h => Uncalled(g) \cap Uncalled(h) = {}

(* What is watched, and what the events that are to be dispatched and the  *)
(* one under way are for.                                                  *)
InCompleted(h) == frame.at = "completed" /\ frame.h = h

UdpFits(h) ==
  /\ hs.flags[h] = {} => SendsOf(h) = <<>>
  /\ UdpUsable(h) /\ write_queue[h] # <<>> => "out" \in io.pevents[h]
  /\ "in" \in io.pevents[h] => h \in receiving
  /\ "out" \in io.pevents[h] => SendsOf(h) # <<>> \/ InCompleted(h)

CanTake(h, evs) ==
  /\ "in" \in evs => h \in receiving
  /\ "out" \in evs => SendsOf(h) # <<>>

BatchFits(f) == io.watchers[f] \in Udps => CanTake(io.watchers[f], batch[f])

UnderWayFits == frame.h \in Udps =>
  /\ frame.at = "io" => CanTake(frame.h, frame.evs)
  /\ frame.at \in {"again", "send"} /\ "out" \in frame.evs => SendsOf(frame.h) # <<>>

SocketsInv ==
  /\ LoopFits /\ FrameFits /\ SendsFit
  /\ \A h \in Udps : UdpFits(h)
  /\ \A f \in Fds : BatchFits(f)
  /\ UnderWayFits

-----------------------------------------------------------------------------
(* A step that is about the handle h.                                      *)
OnlyHandle(h) ==
  /\ HandlesFit(hs', Handles) /\ hs'.doomed = hs.doomed
  /\ IoFit(io', Handles) /\ io'.pending = io.pending
  /\ \A g \in Handles : g # h => /\ hs'.flags[g] = hs.flags[g]
                                 /\ io'.pevents[g] = io.pevents[g]
                                 /\ io'.fd[g] = io.fd[g]

OnlyUdp(h) == \A g \in Udps : g # h =>
  /\ write_queue'[g] = write_queue[g] /\ completed'[g] = completed[g]
  /\ g \in receiving' <=> g \in receiving

LEMMA HandleFitsAlone ==
  ASSUME LoopFits, NEW h \in Handles, OnlyHandle(h), HandleFits(h)', UNCHANGED <<phase, batch>>,
         frame' \in Frames
  PROVE  LoopFits'
<1>1. ASSUME NEW g \in Handles PROVE HandleFits(g)'
  <2>1. CASE g = h
    BY <2>1
  <2>2. CASE g # h
    <3>1. /\ hs'.flags[g] = hs.flags[g] /\ io'.pevents[g] = io.pevents[g]
          /\ io'.fd[g] = io.fd[g]
      BY <2>2 DEF OnlyHandle
    <3>2. HandleFits(g)
      BY DEF LoopFits
    <3> QED BY <3>1, <3>2 DEF HandleFits, IsActive, IsUsable
  <2> QED BY <2>1, <2>2
<1>2. /\ HandlesFit(hs, Handles)' /\ IoFit(io, Handles)'
      /\ (phase # "closing" => hs.doomed = <<>>)'
      /\ (io.pending = <<>>)'
  BY DEF OnlyHandle, LoopFits
<1>3. /\ batch' \in [Fds -> SUBSET Events] /\ (phase # "batch" => batch = NoBatch)'
  BY DEF LoopFits, NoBatch
<1> QED BY <1>1, <1>2, <1>3 DEF LoopFits

(* The batch is for the same handles.                                      *)
LEMMA BatchFitsAlone ==
  ASSUME IoFit(io, Handles), \A f \in Fds : BatchFits(f), NEW h \in Handles, OnlyHandle(h),
         OnlyUdp(h), UNCHANGED batch, NEW f \in Fds,
         io'.watchers[f] = h /\ h \in Udps => CanTake(h, batch[f])'
  PROVE  BatchFits(f)'
<1>1. SUFFICES ASSUME io'.watchers[f] \in Udps PROVE CanTake(io.watchers[f], batch[f])'
  BY DEF BatchFits
<1>2. PICK g \in Udps : g = io'.watchers[f]
  BY <1>1
<1>3. CASE g = h
  BY <1>2, <1>3
<1>4. CASE g # h
  <2>1. g \in Handles /\ g # None
    OBVIOUS
  <2>2. io'.fd[g] = f /\ io'.pevents[g] # {}
    BY <1>2, <2>1 DEF OnlyHandle, IoFit, WatchersFit, CalledFits
  <2>3. io.fd[g] = f /\ io.pevents[g] # {}
    BY <1>4, <2>1, <2>2 DEF OnlyHandle
  <2>4. io.watchers[f] = g
    BY <2>1, <2>3 DEF IoFit, WatchersFit, WantsFits
  <2>5. CanTake(g, batch[f])
    BY <2>4 DEF BatchFits
  <2>6. /\ g \in receiving' <=> g \in receiving
        /\ SendsOf(g)' = SendsOf(g)
    BY <1>4 DEF OnlyUdp, SendsOf
  <2>7. CanTake(g, batch[f])'
    BY <2>5, <2>6 DEF CanTake
  <2> QED BY <1>2, <2>7
<1> QED BY <1>3, <1>4

(* The function that is under way still has its handle.                    *)
LEMMA FrameFitsAlone ==
  ASSUME LoopFits, FrameFits, NEW h \in Handles, OnlyHandle(h), UNCHANGED <<phase, batch, frame>>,
         frame.at = "io" => ~user',
         io'.fd[h] = io.fd[h] \/ io'.fd[h] = None \/ batch[io'.fd[h]] = {},
         frame.at = "finish" => frame.h # h
  PROVE  FrameFits'
<1>1. ASSUME frame.h \in Handles, io'.fd[frame.h] # None,
             io.fd[frame.h] # None => batch[io.fd[frame.h]] = {}
      PROVE  batch[io'.fd[frame.h]] = {}
  BY <1>1 DEF OnlyHandle
<1>2. ASSUME frame.at = "finish" PROVE IsClosed(hs', frame.h)
  BY <1>2 DEF OnlyHandle, FrameFits, IsClosed
<1>3. frame.at \in {"io", "again", "send", "completed"} =>
        /\ phase = "batch"
        /\ io'.fd[frame.h] # None => batch[io'.fd[frame.h]] = {}
  BY <1>1 DEF FrameFits
<1> QED BY <1>2, <1>3 DEF FrameFits

LEMMA UdpsFitAlone ==
  ASSUME LoopFits, NEW h \in Handles, OnlyHandle(h), OnlyUdp(h), NEW g \in Udps, g # h, UdpFits(g),
         InCompleted(g) => InCompleted(g)'
  PROVE  UdpFits(g)'
<1>1. /\ hs'.flags[g] = hs.flags[g] /\ io'.pevents[g] = io.pevents[g]
      /\ write_queue'[g] = write_queue[g] /\ completed'[g] = completed[g]
      /\ g \in receiving' <=> g \in receiving
  BY DEF OnlyHandle, OnlyUdp
<1>2. SendsOf(g)' = SendsOf(g)
  BY <1>1 DEF SendsOf
<1>3. UdpUsable(g)' <=> UdpUsable(g)
  BY <1>1 DEF UdpUsable, IsUsable
<1> QED BY <1>1, <1>2, <1>3 DEF UdpFits

(* uv__udp_maybe_deferred_bind(): no event of the descriptor is to come.   *)
BindsTo(I, h, f, R) ==
  /\ IoFit(R, Handles) /\ R.pending = I.pending /\ R.pevents = I.pevents
  /\ R.fd[h] = f /\ \A g \in Handles : g # h => R.fd[g] = I.fd[g]

LEMMA NewFdIsFree ==
  ASSUME "reuse" \notin Habits, IoFit(io, Handles), NEW f, NewFd(f)
  PROVE  f \in Fds \ io.open /\ batch[f] = {}
<1> DEFINE fds == {g \in Free(io) : batch[g] = {} \/ "reuse" \in Habits}
<1>1. fds # {} /\ f = Min(fds)
  BY DEF NewFd
<1>2. fds \in SUBSET Nat
  BY DEF Free
<1> HIDE DEF fds
<1>3. f \in fds
  BY <1>1, <1>2, MinIsElement
<1> QED BY <1>3 DEF fds, Free

LEMMA BoundToFits ==
  ASSUME "reuse" \notin Habits, IoFit(io, Handles), NEW h \in Handles, NEW f \in Fds,
         CanBind(h, f)
  PROVE  /\ BindsTo(io, h, f, BoundTo(h, f))
         /\ f = io.fd[h] \/ (io.fd[h] = None /\ batch[f] = {})
<1>1. CASE io.fd[h] = None
  <2>1. f \in Fds \ io.open /\ batch[f] = {}
    BY <1>1, NewFdIsFree DEF CanBind
  <2> DEFINE R == BoundTo(h, f)
  <2>2. /\ IoFit(R, Handles) /\ R.pending = io.pending /\ R.pevents = io.pevents
        /\ R.fd = [io.fd EXCEPT ![h] = f]
    <3>1. R = [Opened(io, f) EXCEPT !.fd[h] = f]
      BY <1>1 DEF BoundTo
    <3> HIDE DEF R
    <3>2. None \notin Handles
      OBVIOUS
    <3>3. HasOpened(io, Handles, h, f, R)
      BY <1>1, <2>1, <3>1, <3>2, OpenedFits
    <3> QED BY <3>3 DEF HasOpened
  <2> HIDE DEF R
  <2>3. io.fd \in [Handles -> Fds \cup {None}]
    BY WatchersTypes DEF IoFit
  <2>4. BindsTo(io, h, f, R)
    BY <2>2, <2>3 DEF BindsTo
  <2> QED BY <1>1, <2>1, <2>4 DEF R
<1>2. CASE io.fd[h] # None
  <2>1. f = io.fd[h]
    BY <1>2 DEF CanBind
  <2>2. io.open \cup {f} = io.open
    BY <1>2, <2>1 DEF IoFit, FdsAreOwn
  <2>3. io \in WatchersOf(Handles) /\ io.fd \in [Handles -> Fds \cup {None}]
    BY WatchersTypes DEF IoFit
  <2>4. [io.fd EXCEPT ![h] = f] = io.fd
    BY <2>1, <2>3
  <2>5. Opened(io, f) = io
    BY <2>2, <2>3 DEF Opened, WatchersOf
  <2>6. BoundTo(h, f) = io
    BY <2>3, <2>4, <2>5 DEF BoundTo, WatchersOf
  <2> QED BY <2>1, <2>6 DEF BindsTo
<1> QED BY <1>1, <1>2

(* The requests when only who receives changes.                            *)
LEMMA SendsKept ==
  ASSUME SendsFit, UNCHANGED <<reqs, write_queue, completed>>, receiving' \subseteq Udps
  PROVE  SendsFit' /\ \A h \in Udps : SendsOf(h)' = SendsOf(h)
<1>1. ASSUME NEW h \in Udps PROVE SendsOf(h)' = SendsOf(h) /\ Uncalled(h)' = Uncalled(h)
  BY DEF SendsOf, Uncalled
<1>2. (UNION {Uncalled(h) : h \in Udps})' = UNION {Uncalled(h) : h \in Udps}
  BY <1>1
<1> QED BY <1>1, <1>2 DEF SendsFit

(* A call of the program on a handle that is not under uv__finish_close(). *)
CallsOn(h) ==
  /\ OnlyHandle(h) /\ OnlyUdp(h) /\ HandleFits(h)'
  /\ UNCHANGED <<phase, batch, frame, user>>
  /\ io'.fd[h] = io.fd[h] \/ io'.fd[h] = None \/ batch[io'.fd[h]] = {}
  /\ ~(frame.at = "finish" /\ frame.h = h)

LEMMA PollCallFits ==
  ASSUME SocketsInv, NEW h \in Handles, h \notin Udps, CallsOn(h),
         UNCHANGED udpVars, UNCHANGED reqs
  PROVE  SocketsInv'
<1>1. /\ LoopFits /\ FrameFits /\ SendsFit /\ UnderWayFits /\ IoFit(io, Handles)
      /\ \A f \in Fds : BatchFits(f)
  BY DEF SocketsInv, LoopFits
<1>2. LoopFits'
  BY <1>1, HandleFitsAlone DEF CallsOn, LoopFits
<1>3. FrameFits'
  BY <1>1, FrameFitsAlone DEF CallsOn, FrameFits
<1>4. SendsFit' /\ \A g \in Udps : SendsOf(g)' = SendsOf(g)
  BY <1>1, SendsKept DEF udpVars, SendsFit
<1>5. ASSUME NEW g \in Udps PROVE UdpFits(g)'
  BY <1>1, UdpsFitAlone DEF CallsOn, InCompleted, SocketsInv
<1>6. ASSUME NEW f \in Fds PROVE BatchFits(f)'
  BY <1>1, BatchFitsAlone DEF CallsOn
<1>7. UnderWayFits'
  BY <1>1, <1>4 DEF CallsOn, UnderWayFits, CanTake, udpVars
<1> QED BY <1>2, <1>3, <1>4, <1>5, <1>6, <1>7 DEF SocketsInv

LEMMA UdpCallFits ==
  ASSUME SocketsInv, NEW h \in Udps, CallsOn(h), SendsFit', UdpFits(h)', user,
         SendsOf(h) # <<>> => SendsOf(h)' # <<>>,
         \A f \in Fds : io'.watchers[f] = h => CanTake(h, batch[f])'
  PROVE  SocketsInv'
<1>1. /\ LoopFits /\ FrameFits /\ SendsFit /\ UnderWayFits /\ IoFit(io, Handles)
      /\ (\A f \in Fds : BatchFits(f)) /\ h \in Handles
  BY DEF SocketsInv, LoopFits
<1>2. LoopFits'
  BY <1>1, HandleFitsAlone DEF CallsOn, LoopFits
<1>3. FrameFits'
  BY <1>1, FrameFitsAlone DEF CallsOn, FrameFits
<1>5. ASSUME NEW g \in Udps PROVE UdpFits(g)'
  <2>1. CASE g # h
    BY <1>1, <2>1, UdpsFitAlone DEF CallsOn, InCompleted, SocketsInv
  <2> QED BY <2>1
<1>6. ASSUME NEW f \in Fds PROVE BatchFits(f)'
  BY <1>1, BatchFitsAlone DEF CallsOn
<1>7. UnderWayFits'
  <2>1. frame.at # "io" /\ frame' = frame
    BY <1>1 DEF FrameFits, CallsOn
  <2>2. ASSUME NEW g \in Udps, SendsOf(g) # <<>> PROVE SendsOf(g)' # <<>>
    BY <2>2 DEF CallsOn, OnlyUdp, SendsOf
  <2> QED BY <1>1, <2>1, <2>2 DEF UnderWayFits
<1> QED BY <1>2, <1>3, <1>5, <1>6, <1>7 DEF SocketsInv

(* A call that starts or stops the handle h.                               *)
LEMMA OnlyWants ==
  ASSUME LoopFits, NEW h \in Handles, NEW E, WantsInstead(io, Handles, h, E, io'),
         NEW F, FitsWith(hs, Handles, h, F, hs'),
         hs.flags[h] # {} \/ (F = {} /\ h \notin Polls),
         "active" \in F <=> E # {}, F \cup {"active"} = hs.flags[h] \cup {"active"}
  PROVE  /\ OnlyHandle(h) /\ HandleFits(h)' /\ io'.fd = io.fd
         /\ io'.pevents[h] = E /\ hs'.flags[h] = F
<1>1. /\ IoFit(io', Handles) /\ io'.fd = io.fd /\ io'.pending = io.pending
      /\ io'.pevents[h] = E
      /\ \A g \in Handles : g # h => io'.pevents[g] = io.pevents[g]
  BY DEF WantsInstead
<1>2. /\ HandlesFit(hs', Handles) /\ hs'.flags[h] = F /\ hs'.doomed = hs.doomed
      /\ \A g \in Handles : g # h => hs'.flags[g] = hs.flags[g]
  BY DEF FitsWith
<1>3. OnlyHandle(h)
  BY <1>1, <1>2 DEF OnlyHandle
<1>4. /\ "ref" \in F <=> "ref" \in hs.flags[h]
      /\ "closing" \in F <=> "closing" \in hs.flags[h]
  OBVIOUS
<1>5. HandleFits(h)
  BY DEF LoopFits
<1>6. F # {} /\ "closing" \notin F => "ref" \in F
  BY <1>4, <1>5 DEF HandleFits, IsUsable
<1>7. h \in Polls => io'.fd[h] = FdOf[h] /\ F # {}
  <2>1. ASSUME h \in Polls PROVE io'.fd[h] = FdOf[h]
    BY <1>1, <1>5, <2>1 DEF HandleFits
  <2>2. ASSUME h \in Polls PROVE F # {}
    <3>1. CASE "closing" \in hs.flags[h]
      BY <1>4, <3>1
    <3>2. CASE "closing" \notin hs.flags[h]
      BY <1>4, <1>5, <2>2, <3>2 DEF HandleFits, IsUsable
    <3> QED BY <3>1, <3>2
  <2> QED BY <2>1, <2>2
<1>8. HandleFits(h)'
  BY <1>1, <1>2, <1>6, <1>7 DEF HandleFits, IsActive, IsUsable
<1> QED BY <1>1, <1>2, <1>3, <1>8

LEMMA WantsTwice ==
  ASSUME NEW W, NEW I, NEW w \in W, NEW D, NEW J, WantsInstead(I, W, w, D, J),
         NEW E, NEW R, WantsInstead(J, W, w, E, R)
  PROVE  WantsInstead(I, W, w, E, R)
BY DEF WantsInstead

LEMMA FitsTwice ==
  ASSUME NEW S, NEW H, NEW h \in S, NEW e, NEW J, FitsWith(H, S, h, e, J),
         NEW f, NEW R, FitsWith(J, S, h, f, R)
  PROVE  FitsWith(H, S, h, f, R)
BY DEF FitsWith

(* A usable handle is not under uv__finish_close().                        *)
LEMMA NotFinishing ==
  ASSUME SocketsInv, NEW h \in Handles, IsUsable(hs, h)
  PROVE  ~(frame.at = "finish" /\ frame.h = h)
<1>1. ~IsClosed(hs, h)
  BY DEF SocketsInv, LoopFits, HandlesFit, FlagsFit
<1> QED BY <1>1 DEF SocketsInv, FrameFits

(* uv_poll_stop()                                                          *)
LEMMA PollStopFits ==
  ASSUME SocketsInv, NEW h \in Polls, PollStop(h), UNCHANGED udpVars
  PROVE  SocketsInv'
<1>1. LoopFits /\ IoFit(io, Handles) /\ HandlesFit(hs, Handles) /\ h \in Handles /\ h \notin Udps
  BY DEF SocketsInv, LoopFits
<1>2. /\ io' = IoStop(io, h, {"in", "out"}) /\ hs' = Stopped(hs, h) /\ IsUsable(hs, h)
      /\ UNCHANGED <<phase, batch, frame, user, reqs>>
  BY DEF PollStop, Call
<1>3. WantsInstead(io, Handles, h, io.pevents[h] \ {"in", "out"}, io')
  BY <1>1, <1>2, IoStopFits
<1>4. io.pevents[h] \ {"in", "out"} = {}
  BY <1>1, WatchersTypes DEF IoFit
<1>5. FitsWith(hs, Handles, h, hs.flags[h] \ {"active"}, hs')
  BY <1>1, <1>2, StoppedFits
<1>6. hs.flags[h] # {}
  BY <1>1 DEF LoopFits, HandleFits
<1>7. /\ OnlyHandle(h) /\ HandleFits(h)' /\ io'.fd = io.fd
  BY <1>1, <1>3, <1>4, <1>5, <1>6, OnlyWants
<1>8. CallsOn(h)
  BY <1>1, <1>2, <1>7, NotFinishing DEF CallsOn, OnlyUdp, udpVars
<1> QED BY <1>1, <1>2, <1>8, PollCallFits

(* uv_poll_start()                                                         *)
LEMMA PollStartFits ==
  ASSUME SocketsInv, NEW h \in Polls, NEW evs \in SUBSET {"in", "out"}, PollStart(h, evs),
         UNCHANGED udpVars
  PROVE  SocketsInv'
<1> DEFINE I == IoStop(io, h, {"in", "out"})
           H == Stopped(hs, h)
<1>1. LoopFits /\ IoFit(io, Handles) /\ HandlesFit(hs, Handles) /\ h \in Handles /\ h \notin Udps
  BY DEF SocketsInv, LoopFits
<1>2. /\ IsUsable(hs, h) /\ UNCHANGED <<phase, batch, frame, user, reqs>>
      /\ evs = {} => io' = I /\ hs' = H
      /\ evs # {} => io' = IoStart(I, h, evs) /\ hs' = Started(H, h)
  BY DEF PollStart, Call
<1>3. WantsInstead(io, Handles, h, io.pevents[h] \ {"in", "out"}, I)
  BY <1>1, IoStopFits
<1>4. io.pevents[h] \ {"in", "out"} = {}
  BY <1>1, WatchersTypes DEF IoFit
<1>5. FitsWith(hs, Handles, h, hs.flags[h] \ {"active"}, H)
  BY <1>1, StoppedFits
<1> HIDE DEF I, H
<1>6. hs.flags[h] # {} /\ io.fd[h] = FdOf[h]
  BY <1>1 DEF LoopFits, HandleFits
<1>7. OnlyHandle(h) /\ HandleFits(h)' /\ io'.fd = io.fd
  <2>1. CASE evs = {}
    BY <1>1, <1>2, <1>3, <1>4, <1>5, <1>6, <2>1, OnlyWants
  <2>2. CASE evs # {}
    <3>1. /\ IoFit(I, Handles) /\ I.pevents[h] = {} /\ I.fd[h] # None
      BY <1>3, <1>4, <1>6 DEF WantsInstead
    <3>2. WantsInstead(I, Handles, h, evs, io')
      <4>1. {} \cup evs = evs
        OBVIOUS
      <4> QED BY <1>1, <1>2, <2>2, <3>1, <4>1, IoStartFits
    <3>3. WantsInstead(io, Handles, h, evs, io')
      BY <1>1, <1>3, <3>2, WantsTwice
    <3>4. HandlesFit(H, Handles) /\ IsUsable(H, h) /\ H.flags[h] = hs.flags[h] \ {"active"}
      BY <1>2, <1>5 DEF FitsWith, IsUsable
    <3>5. FitsWith(H, Handles, h, hs.flags[h] \cup {"active"}, hs')
      <4>1. H.flags[h] \cup {"active"} = hs.flags[h] \cup {"active"}
        BY <3>4
      <4> QED BY <1>1, <1>2, <2>2, <3>4, <4>1, StartedFits
    <3>6. FitsWith(hs, Handles, h, hs.flags[h] \cup {"active"}, hs')
      BY <1>1, <1>5, <3>5, FitsTwice
    <3> QED BY <1>1, <1>6, <2>2, <3>3, <3>6, OnlyWants
  <2> QED BY <2>1, <2>2
<1>8. CallsOn(h)
  BY <1>1, <1>2, <1>7, NotFinishing DEF CallsOn, OnlyUdp, udpVars
<1> QED BY <1>1, <1>2, <1>8, PollCallFits

(* uv_close() and uv__poll_close()                                         *)
LEMMA PollCloseFits ==
  ASSUME SocketsInv, NEW h \in Polls, PollClose(h), UNCHANGED udpVars
  PROVE  SocketsInv'
<1>1. LoopFits /\ IoFit(io, Handles) /\ HandlesFit(hs, Handles) /\ h \in Handles /\ h \notin Udps
  BY DEF SocketsInv, LoopFits
<1>2. /\ io' = IoStop(io, h, {"in", "out"}) /\ IsUsable(hs, h)
      /\ hs' = MakeClosePending(Stopped(Closing(hs, h), h), h)
      /\ UNCHANGED <<phase, batch, frame, user, reqs>>
  BY DEF PollClose, Call
<1>3. WantsInstead(io, Handles, h, io.pevents[h] \ {"in", "out"}, io')
  BY <1>1, <1>2, IoStopFits
<1>4. io.pevents[h] \ {"in", "out"} = {}
  BY <1>1, WatchersTypes DEF IoFit
<1>5. /\ HandlesFit(hs', Handles) /\ hs'.doomed = hs.doomed
      /\ hs'.flags[h] = (hs.flags[h] \cup {"closing"}) \ {"active"}
      /\ \A g \in Handles : g # h => hs'.flags[g] = hs.flags[g]
  BY <1>1, <1>2, ClosingFits
<1>6. OnlyHandle(h) /\ io'.fd = io.fd /\ io'.pevents[h] = {}
  BY <1>3, <1>4, <1>5 DEF OnlyHandle, WantsInstead
<1>7. HandleFits(h)'
  <2>1. h \in Polls => io.fd[h] = FdOf[h]
    BY <1>1 DEF LoopFits, HandleFits
  <2> QED BY <1>5, <1>6, <2>1 DEF HandleFits, IsActive, IsUsable
<1>8. CallsOn(h)
  BY <1>1, <1>2, <1>6, <1>7, NotFinishing DEF CallsOn, OnlyUdp, udpVars
<1> QED BY <1>1, <1>2, <1>8, PollCallFits

(* uv_poll_init()                                                          *)
LEMMA PollInitializeFits ==
  ASSUME SocketsInv, NEW h \in Polls, PollInitialize(h), UNCHANGED udpVars
  PROVE  SocketsInv'
<1>1. LoopFits /\ IoFit(io, Handles) /\ HandlesFit(hs, Handles) /\ h \in Handles /\ h \notin Udps
  BY DEF SocketsInv, LoopFits
<1>2. /\ hs' = Initialized(hs, h) /\ io' = IoInit(io, h, FdOf[h])
      /\ IsClosed(hs, h) /\ frame.h # h
      /\ UNCHANGED <<phase, batch, frame, user, reqs>>
  BY DEF PollInitialize, Call
<1>3. /\ ~IsClosing(hs, h) /\ "ref" \notin hs.flags[h] /\ ~IsActive(hs, h)
  BY <1>1, <1>2 DEF HandlesFit, FlagsFit, IsClosing, IsClosed
<1>4. io.pevents[h] = {} /\ io.fd[h] = FdOf[h]
  BY <1>1, <1>3 DEF LoopFits, HandleFits
<1>5. FitsWith(hs, Handles, h, {"ref"}, hs')
  BY <1>1, <1>2, <1>3, InitializedFits
<1>6. /\ IoFit(io', Handles) /\ io'.pending = io.pending /\ io'.pevents = io.pevents
      /\ io'.fd = [io.fd EXCEPT ![h] = FdOf[h]]
  <2> DEFINE R == IoInit(io, h, FdOf[h])
  <2>1. /\ IoFit(R, Handles) /\ R.pending = io.pending /\ R.pevents = io.pevents
        /\ R.fd = [io.fd EXCEPT ![h] = FdOf[h]]
    BY <1>1, <1>4, IoInitFits
  <2> HIDE DEF R
  <2> QED BY <1>2, <2>1 DEF R
<1>7. io'.fd = io.fd
  <2>1. io.fd \in [Handles -> Fds \cup {None}]
    BY <1>1, WatchersTypes DEF IoFit
  <2>2. [io.fd EXCEPT ![h] = FdOf[h]] = io.fd
    BY <1>4, <2>1
  <2> QED BY <1>6, <2>2
<1>8. OnlyHandle(h) /\ hs'.flags[h] = {"ref"}
  BY <1>5, <1>6, <1>7 DEF OnlyHandle, FitsWith
<1>9. HandleFits(h)'
  BY <1>4, <1>6, <1>7, <1>8 DEF HandleFits, IsActive, IsUsable
<1>10. CallsOn(h)
  BY <1>2, <1>7, <1>8, <1>9 DEF CallsOn, OnlyUdp, udpVars
<1> QED BY <1>1, <1>2, <1>10, PollCallFits

LEMMA PollCallKeeps ==
  ASSUME SocketsInv, PollCall, UNCHANGED udpVars
  PROVE  SocketsInv'
BY PollStopFits, PollCloseFits, PollInitializeFits, PollStartFits DEF PollCall

(* uv__poll_io()                                                           *)
LEMMA PollIoFits ==
  ASSUME SocketsInv, NEW h \in Polls, PollIo(h), UNCHANGED udpVars
  PROVE  SocketsInv'
<1>1. /\ LoopFits /\ IoFit(io, Handles) /\ HandlesFit(hs, Handles) /\ h \in Handles
      /\ h \notin Udps /\ SendsFit /\ \A f \in Fds : BatchFits(f)
  BY DEF SocketsInv, LoopFits
<1>2. /\ frame' = NoFrame /\ UNCHANGED <<reqs, phase, batch>> /\ frame.h = h
      /\ IF "err" \in frame.evs
         THEN io' = IoStop(io, h, {"in", "out"}) /\ hs' = Stopped(hs, h)
         ELSE UNCHANGED <<hs, io>>
  BY DEF PollIo
<1>3. OnlyHandle(h) /\ HandleFits(h)'
  <2>1. CASE "err" \in frame.evs
    <3>1. WantsInstead(io, Handles, h, io.pevents[h] \ {"in", "out"}, io')
      BY <1>1, <1>2, <2>1, IoStopFits
    <3>2. io.pevents[h] \ {"in", "out"} = {}
      BY <1>1, WatchersTypes DEF IoFit
    <3>3. FitsWith(hs, Handles, h, hs.flags[h] \ {"active"}, hs')
      BY <1>1, <1>2, <2>1, StoppedFits
    <3>4. hs.flags[h] # {}
      BY <1>1 DEF LoopFits, HandleFits
    <3> QED BY <1>1, <3>1, <3>2, <3>3, <3>4, OnlyWants
  <2>2. CASE "err" \notin frame.evs
    BY <1>1, <1>2, <2>2 DEF OnlyHandle, LoopFits, HandleFits, IsActive, IsUsable
  <2> QED BY <2>1, <2>2
<1>4. OnlyUdp(h)
  BY DEF OnlyUdp, udpVars
<1>5. NoFrame \in Frames /\ NoFrame.at = "none" /\ NoFrame.h = None
  BY DEF NoFrame, Frames, Labels
<1>6. LoopFits'
  BY <1>1, <1>2, <1>3, <1>5, HandleFitsAlone
<1>7. FrameFits' /\ UnderWayFits'
  BY <1>2, <1>5 DEF FrameFits, UnderWayFits
<1>8. SendsFit'
  BY <1>1, <1>2, SendsKept DEF udpVars, SendsFit
<1>9. ASSUME NEW g \in Udps PROVE UdpFits(g)'
  BY <1>1, <1>2, <1>3, <1>4, UdpsFitAlone DEF InCompleted, SocketsInv
<1>10. ASSUME NEW f \in Fds PROVE BatchFits(f)'
  BY <1>1, <1>2, <1>3, <1>4, BatchFitsAlone
<1> QED BY <1>6, <1>7, <1>8, <1>9, <1>10 DEF SocketsInv

-----------------------------------------------------------------------------
(* The requests when those of h change to X.                               *)
LEMMA SendsOfOne ==
  ASSUME SendsFit, NEW h \in Udps, OnlyUdp(h),
         write_queue' \in [Udps -> Seq(Sends)], completed' \in [Udps -> Seq(Sends)],
         receiving' \subseteq Udps, IsInjective(SendsOf(h)'), NEW X, Uncalled(h)' = X,
         X \cap (reqs \ Uncalled(h)) = {}, reqs' = (reqs \ Uncalled(h)) \cup X
  PROVE  SendsFit'
<1>1. ASSUME NEW g \in Udps, g # h
      PROVE  SendsOf(g)' = SendsOf(g) /\ Uncalled(g)' = Uncalled(g)
  BY <1>1 DEF OnlyUdp, SendsOf, Uncalled
<1>2. ASSUME NEW g \in Udps PROVE Uncalled(g) \subseteq reqs
  BY DEF SendsFit
<1>3. ASSUME NEW g \in Udps, g # h PROVE Uncalled(g) \subseteq reqs \ Uncalled(h)
  BY <1>2, <1>3 DEF SendsFit
<1>4. ASSUME NEW x PROVE x \in reqs' <=> \E g \in Udps : x \in Uncalled(g)'
  <2>1. CASE x \in X
    BY <2>1
  <2>2. CASE x \notin X
    <3>1. x \in reqs' <=> x \in reqs /\ x \notin Uncalled(h)
      BY <2>2
    <3>2. x \in reqs <=> \E g \in Udps : x \in Uncalled(g)
      BY DEF SendsFit
    <3>3. ASSUME x \in reqs' PROVE \E g \in Udps : x \in Uncalled(g)'
      <4>1. PICK g \in Udps : x \in Uncalled(g)
        BY <3>1, <3>2, <3>3
      <4>2. g # h
        BY <3>1, <3>3, <4>1
      <4> QED BY <1>1, <4>1, <4>2
    <3>4. ASSUME NEW g \in Udps, x \in Uncalled(g)' PROVE x \in reqs'
      <4>1. g # h
        BY <2>2, <3>4
      <4>2. x \in Uncalled(g)
        BY <1>1, <3>4, <4>1
      <4> QED BY <1>3, <4>1, <4>2
    <3> QED BY <3>3, <3>4
  <2> QED BY <2>1, <2>2
<1>5. reqs' = UNION {Uncalled(g)' : g \in Udps}
  BY <1>4
<1>6. ASSUME NEW g \in Udps PROVE IsInjective(SendsOf(g)')
  <2>1. CASE g = h
    BY <2>1
  <2>2. CASE g # h
    <3>1. IsInjective(SendsOf(g))
      BY DEF SendsFit
    <3> QED BY <1>1, <2>2, <3>1
  <2> QED BY <2>1, <2>2
<1>7. ASSUME NEW f \in Udps, NEW g \in Udps, f # g PROVE Uncalled(f)' \cap Uncalled(g)' = {}
  <2>1. CASE f = h
    BY <1>1, <1>3, <1>7, <2>1
  <2>2. CASE g = h
    BY <1>1, <1>3, <1>7, <2>2
  <2>3. CASE f # h /\ g # h
    BY <1>1, <1>7, <2>3 DEF SendsFit
  <2> QED BY <2>1, <2>2, <2>3
<1> QED BY <1>5, <1>6, <1>7 DEF SendsFit

(* What SendsOf() is a sequence of.                                        *)
LEMMA SendsAreSends ==
  ASSUME SendsFit, NEW h \in Udps
  PROVE  /\ write_queue[h] \in Seq(Sends) /\ completed[h] \in Seq(Sends)
         /\ SendsOf(h) \in Seq(Sends) /\ Uncalled(h) = ToSet(SendsOf(h))
         /\ Uncalled(h) \subseteq reqs /\ IsInjective(SendsOf(h))
         /\ SendsOf(h) = <<>> <=> completed[h] = <<>> /\ write_queue[h] = <<>>
         /\ SendsOf(h) = <<>> <=> Uncalled(h) = {}
<1>1. write_queue[h] \in Seq(Sends) /\ completed[h] \in Seq(Sends)
  BY DEF SendsFit
<1>2. /\ SendsOf(h) \in Seq(Sends)
      /\ SendsOf(h) = <<>> <=> completed[h] = <<>> /\ write_queue[h] = <<>>
  BY <1>1, JoinedElements DEF SendsOf
<1>3. SendsOf(h) = <<>> <=> Uncalled(h) = {}
  BY <1>2, QueueElements DEF Uncalled
<1>4. Uncalled(h) \subseteq reqs /\ IsInjective(SendsOf(h)) /\ Uncalled(h) = ToSet(SendsOf(h))
  BY DEF SendsFit, Uncalled
<1> QED BY <1>1, <1>2, <1>3, <1>4

(* uv__io_start() after uv__udp_maybe_deferred_bind()                      *)
LEMMA BoundStarts ==
  ASSUME "reuse" \notin Habits, LoopFits, NEW h \in Udps, NEW f \in Fds, CanBind(h, f), UdpUsable(h),
         NEW evs \in SUBSET {"in", "out"}, evs # {},
         io' = IoStart(BoundTo(h, f), h, evs), hs' = Started(hs, h)
  PROVE  /\ OnlyHandle(h) /\ HandleFits(h)'
         /\ io'.pevents[h] = io.pevents[h] \cup evs
         /\ hs'.flags[h] = hs.flags[h] \cup {"active"}
         /\ io'.fd[h] = f /\ (f = io.fd[h] \/ (io.fd[h] = None /\ batch[f] = {}))
<1> DEFINE I == BoundTo(h, f)
<1>1. /\ IoFit(io, Handles) /\ HandlesFit(hs, Handles) /\ h \in Handles /\ h \notin Polls
      /\ HandleFits(h)
  BY DEF LoopFits
<1>2. BindsTo(io, h, f, I) /\ (f = io.fd[h] \/ (io.fd[h] = None /\ batch[f] = {}))
  BY <1>1, BoundToFits
<1> HIDE DEF I
<1>3. IoFit(I, Handles) /\ I.fd[h] # None /\ I.pevents = io.pevents
  BY <1>2 DEF BindsTo
<1>4. WantsInstead(I, Handles, h, I.pevents[h] \cup evs, io')
  BY <1>1, <1>3, IoStartFits DEF I
<1>5. FitsWith(hs, Handles, h, hs.flags[h] \cup {"active"}, hs')
  BY <1>1, StartedFits DEF UdpUsable
<1>6. /\ IoFit(io', Handles) /\ io'.pending = io.pending /\ io'.fd = I.fd
      /\ io'.pevents[h] = io.pevents[h] \cup evs
      /\ \A g \in Handles : g # h => io'.pevents[g] = io.pevents[g]
  BY <1>2, <1>3, <1>4 DEF WantsInstead, BindsTo
<1>7. /\ HandlesFit(hs', Handles) /\ hs'.doomed = hs.doomed
      /\ hs'.flags[h] = hs.flags[h] \cup {"active"}
      /\ \A g \in Handles : g # h => hs'.flags[g] = hs.flags[g]
  BY <1>5 DEF FitsWith
<1>8. OnlyHandle(h) /\ io'.fd[h] = f
  BY <1>2, <1>6, <1>7 DEF OnlyHandle, BindsTo
<1>9. HandleFits(h)'
  BY <1>1, <1>6, <1>7 DEF HandleFits, IsActive, IsUsable, UdpUsable
<1> QED BY <1>2, <1>6, <1>7, <1>8, <1>9

(* The handle can take its events in the batch.                            *)
LEMMA CarefulTakes ==
  ASSUME "cross" \notin Habits, NEW h \in Udps, Careful(h), IoFit(io', Handles), UNCHANGED batch,
         io'.fd[h] = io.fd[h] \/ (io.fd[h] = None /\ batch[io'.fd[h]] = {}),
         NEW f \in Fds, io'.watchers[f] = h
  PROVE  CanTake(h, batch[f])'
<1>1. h # None /\ io'.fd[h] = f
  BY DEF IoFit, WatchersFit, CalledFits
<1>2. CASE io.fd[h] = None
  <2>1. batch[f] = {}
    BY <1>1, <1>2
  <2> QED BY <2>1 DEF CanTake
<1>3. CASE io.fd[h] # None
  <2>1. io.fd[h] = f
    BY <1>1, <1>3
  <2> QED BY <1>1, <1>3, <2>1 DEF Careful, CanTake
<1> QED BY <1>2, <1>3

(* uv_udp_send()                                                           *)
LEMMA SendFits ==
  ASSUME {"reuse", "cross"} \cap Habits = {}, SocketsInv, NEW h \in Udps, NEW r \in Sends,
         NEW f \in Fds, Send(h, r, f)
  PROVE  SocketsInv' /\ SendsOf(h)' = SendsOf(h) \o <<r>>
<1>1. /\ LoopFits /\ IoFit(io, Handles) /\ h \in Handles /\ h \notin Polls /\ SendsFit /\ UdpFits(h)
      /\ "reuse" \notin Habits /\ "cross" \notin Habits
  BY DEF SocketsInv, LoopFits
<1>2. /\ UdpUsable(h) /\ r \notin reqs /\ CanBind(h, f) /\ user
      /\ io' = IoStart(BoundTo(h, f), h, {"out"}) /\ hs' = Started(hs, h)
      /\ UNCHANGED <<phase, batch, frame, user>>
      /\ reqs' = reqs \cup {r} /\ write_queue' = [write_queue EXCEPT ![h] = Append(@, r)]
      /\ completed' = completed /\ receiving' = receiving /\ Careful(h)
  BY DEF Send, Call
<1>3. /\ OnlyHandle(h) /\ HandleFits(h)'
      /\ io'.pevents[h] = io.pevents[h] \cup {"out"}
      /\ hs'.flags[h] = hs.flags[h] \cup {"active"}
      /\ io'.fd[h] = f /\ (f = io.fd[h] \/ (io.fd[h] = None /\ batch[f] = {}))
  BY <1>1, <1>2, BoundStarts
<1>4. CallsOn(h)
  <2>1. OnlyUdp(h)
    BY <1>1, <1>2 DEF OnlyUdp, SendsFit
  <2>2. ~(frame.at = "finish" /\ frame.h = h)
    BY <1>1, <1>2, NotFinishing DEF UdpUsable
  <2> QED BY <1>2, <1>3, <2>1, <2>2 DEF CallsOn
<1>5. /\ write_queue[h] \in Seq(Sends) /\ completed[h] \in Seq(Sends)
      /\ SendsOf(h) \in Seq(Sends) /\ Uncalled(h) = ToSet(SendsOf(h))
      /\ Uncalled(h) \subseteq reqs /\ IsInjective(SendsOf(h))
  BY <1>1, SendsAreSends
<1>6. write_queue'[h] = Append(write_queue[h], r) /\ completed'[h] = completed[h]
  BY <1>1, <1>2 DEF SendsFit
<1>7. SendsOf(h)' = Append(SendsOf(h), r) /\ SendsOf(h)' = SendsOf(h) \o <<r>>
  <2> DEFINE p == completed[h]
             q == write_queue[h]
  <2>1. p \in Seq(Sends) /\ q \in Seq(Sends) /\ SendsOf(h) = p \o q
    BY <1>5 DEF SendsOf
  <2>2. SendsOf(h)' = p \o Append(q, r)
    BY <1>6, Zenon DEF SendsOf
  <2> HIDE DEF p, q
  <2>3. /\ p \o Append(q, r) = Append(p \o q, r)
        /\ p \o Append(q, r) = (p \o q) \o <<r>>
    BY <2>1, JoinedAppend
  <2> QED BY <2>1, <2>2, <2>3, Zenon
<1>8. SendsFit'
  <2>1. /\ write_queue' \in [Udps -> Seq(Sends)] /\ completed' \in [Udps -> Seq(Sends)]
        /\ receiving' \subseteq Udps
    <3>1. Append(write_queue[h], r) \in Seq(Sends)
      BY <1>5
    <3> QED BY <1>1, <1>2, <3>1 DEF SendsFit
  <2>2. ToSet(Append(SendsOf(h), r)) = Uncalled(h) \cup {r} /\ IsInjective(Append(SendsOf(h), r))
    BY <1>2, <1>5, AppendElements
  <2>3. Uncalled(h)' = Uncalled(h) \cup {r} /\ IsInjective(SendsOf(h)')
    BY <1>7, <2>2 DEF Uncalled
  <2>4. /\ (Uncalled(h) \cup {r}) \cap (reqs \ Uncalled(h)) = {}
        /\ reqs' = (reqs \ Uncalled(h)) \cup (Uncalled(h) \cup {r})
    BY <1>2, <1>5
  <2> QED BY <1>1, <1>4, <2>1, <2>3, <2>4, SendsOfOne DEF CallsOn
<1>9. SendsOf(h)' # <<>>
  BY <1>5, <1>7, AppendProperties
<1>10. UdpFits(h)'
  <2>1. (hs.flags[h] # {})'
    BY <1>3
  <2> QED BY <1>1, <1>2, <1>3, <1>9, <2>1 DEF UdpFits
<1>11. ASSUME NEW g \in Fds, io'.watchers[g] = h PROVE CanTake(h, batch[g])'
  BY <1>1, <1>2, <1>3, <1>11, CarefulTakes DEF OnlyHandle
<1>12. SocketsInv'
  BY <1>2, <1>4, <1>8, <1>9, <1>10, <1>11, UdpCallFits
<1> QED BY <1>7, <1>12

(* uv_udp_recv_start()                                                     *)
LEMMA RecvStartFits ==
  ASSUME {"reuse", "cross"} \cap Habits = {}, SocketsInv, NEW h \in Udps, NEW f \in Fds,
         RecvStart(h, f)
  PROVE  SocketsInv'
<1>1. /\ LoopFits /\ IoFit(io, Handles) /\ h \in Handles /\ h \notin Polls /\ SendsFit /\ UdpFits(h)
      /\ "reuse" \notin Habits /\ "cross" \notin Habits
  BY DEF SocketsInv, LoopFits
<1>2. /\ UdpUsable(h) /\ CanBind(h, f) /\ user
      /\ io' = IoStart(BoundTo(h, f), h, {"in"}) /\ hs' = Started(hs, h)
      /\ UNCHANGED <<phase, batch, frame, user>>
      /\ UNCHANGED <<reqs, write_queue, completed>>
      /\ receiving' = receiving \cup {h} /\ Careful(h)
  BY DEF RecvStart, Call
<1>3. /\ OnlyHandle(h) /\ HandleFits(h)'
      /\ io'.pevents[h] = io.pevents[h] \cup {"in"}
      /\ hs'.flags[h] = hs.flags[h] \cup {"active"}
      /\ io'.fd[h] = f /\ (f = io.fd[h] \/ (io.fd[h] = None /\ batch[f] = {}))
  BY <1>1, <1>2, BoundStarts
<1>4. CallsOn(h)
  <2>1. OnlyUdp(h)
    BY <1>2 DEF OnlyUdp
  <2>2. ~(frame.at = "finish" /\ frame.h = h)
    BY <1>1, <1>2, NotFinishing DEF UdpUsable
  <2> QED BY <1>2, <1>3, <2>1, <2>2 DEF CallsOn
<1>5. SendsFit' /\ SendsOf(h)' = SendsOf(h)
  <2>1. receiving' \subseteq Udps
    BY <1>1, <1>2 DEF SendsFit
  <2> QED BY <1>1, <1>2, <2>1, SendsKept
<1>6. UdpFits(h)'
  <2>1. h \in receiving' /\ hs'.flags[h] # {}
    BY <1>2, <1>3
  <2>2. "out" \in io'.pevents[h] <=> "out" \in io.pevents[h]
    BY <1>3
  <2> QED BY <1>1, <1>2, <1>5, <2>1, <2>2 DEF UdpFits, InCompleted, UdpUsable, IsUsable
<1>7. ASSUME NEW g \in Fds, io'.watchers[g] = h PROVE CanTake(h, batch[g])'
  BY <1>1, <1>2, <1>3, <1>7, CarefulTakes DEF OnlyHandle
<1> QED BY <1>2, <1>4, <1>5, <1>6, <1>7, UdpCallFits

(* The watcher stops to wait for e, and the handle is active while it      *)
(* waits for o.                                                            *)
LEMMA OneEventStops ==
  ASSUME LoopFits, NEW h \in Udps, NEW e \in {"in", "out"}, NEW o \in {"in", "out"}, e # o,
         io' = IoStop(io, h, {e}),
         hs' = IF IoActive(io', h, {o}) THEN hs ELSE Stopped(hs, h)
  PROVE  /\ OnlyHandle(h) /\ HandleFits(h)' /\ io'.fd = io.fd
         /\ io'.pevents[h] = io.pevents[h] \ {e}
         /\ hs'.flags[h] = hs.flags[h] \/ hs'.flags[h] = hs.flags[h] \ {"active"}
<1>1. /\ IoFit(io, Handles) /\ HandlesFit(hs, Handles) /\ h \in Handles /\ h \notin Polls
      /\ HandleFits(h) /\ {e} \in SUBSET {"in", "out"} /\ {e, o} = {"in", "out"}
  BY DEF LoopFits
<1>2. WantsInstead(io, Handles, h, io.pevents[h] \ {e}, io')
  BY <1>1, IoStopFits
<1>3. io.pevents[h] \subseteq {e, o} /\ io'.pevents[h] = io.pevents[h] \ {e}
  <2>1. io.pevents[h] \subseteq {"in", "out"}
    BY <1>1, WatchersTypes DEF IoFit
  <2> QED BY <1>2, <2>1 DEF WantsInstead
<1>4. CASE o \in io.pevents[h]
  <2>1. hs' = hs
    BY <1>3, <1>4 DEF IoActive
  <2>2. FitsWith(hs, Handles, h, hs.flags[h], hs')
    BY <1>1, <2>1 DEF FitsWith
  <2>3. "active" \in hs.flags[h] /\ io.pevents[h] \ {e} # {}
    BY <1>1, <1>4 DEF HandleFits, IsActive
  <2>4. hs.flags[h] # {} /\ ("active" \in hs.flags[h] <=> io.pevents[h] \ {e} # {})
    BY <2>3
  <2> DEFINE E == io.pevents[h] \ {e}
             F == hs.flags[h]
  <2>5. /\ WantsInstead(io, Handles, h, E, io') /\ FitsWith(hs, Handles, h, F, hs')
        /\ hs.flags[h] # {} \/ (F = {} /\ h \notin Polls)
        /\ "active" \in F <=> E # {}
        /\ F \cup {"active"} = hs.flags[h] \cup {"active"}
    BY <1>2, <2>2, <2>4
  <2> HIDE DEF E, F
  <2>6. /\ OnlyHandle(h) /\ HandleFits(h)' /\ io'.fd = io.fd /\ hs'.flags[h] = F
    BY <1>1, <2>5, OnlyWants
  <2> QED BY <1>3, <2>6 DEF F
<1>5. CASE o \notin io.pevents[h]
  <2>1. hs' = Stopped(hs, h)
    BY <1>3, <1>5 DEF IoActive
  <2>2. FitsWith(hs, Handles, h, hs.flags[h] \ {"active"}, hs')
    BY <1>1, <2>1, StoppedFits
  <2>3. io.pevents[h] \ {e} = {}
    BY <1>3, <1>5
  <2>4. hs.flags[h] # {} \/ (hs.flags[h] \ {"active"} = {} /\ h \notin Polls)
    BY <1>1
  <2>5. /\ "active" \in hs.flags[h] \ {"active"} <=> io.pevents[h] \ {e} # {}
        /\ (hs.flags[h] \ {"active"}) \cup {"active"} = hs.flags[h] \cup {"active"}
    BY <2>3
  <2> DEFINE E == io.pevents[h] \ {e}
             F == hs.flags[h] \ {"active"}
  <2>6. /\ WantsInstead(io, Handles, h, E, io') /\ FitsWith(hs, Handles, h, F, hs')
        /\ hs.flags[h] # {} \/ (F = {} /\ h \notin Polls)
        /\ "active" \in F <=> E # {}
        /\ F \cup {"active"} = hs.flags[h] \cup {"active"}
    BY <1>2, <2>2, <2>4, <2>5
  <2> HIDE DEF E, F
  <2>7. /\ OnlyHandle(h) /\ HandleFits(h)' /\ io'.fd = io.fd /\ hs'.flags[h] = F
    BY <1>1, <2>6, OnlyWants
  <2> QED BY <1>3, <2>7 DEF F
<1> QED BY <1>4, <1>5

(* uv_udp_recv_stop()                                                      *)
LEMMA RecvStopFits ==
  ASSUME "cross" \notin Habits, SocketsInv, NEW h \in Udps, RecvStop(h)
  PROVE  SocketsInv'
<1>1. /\ LoopFits /\ IoFit(io, Handles) /\ h \in Handles /\ h \notin Polls /\ SendsFit /\ UdpFits(h)
      /\ HandleFits(h)
  BY DEF SocketsInv, LoopFits
<1>2. /\ UdpUsable(h) /\ user /\ io' = IoStop(io, h, {"in"})
      /\ hs' = IF IoActive(io', h, {"out"}) THEN hs ELSE Stopped(hs, h)
      /\ UNCHANGED <<phase, batch, frame, user>>
      /\ UNCHANGED <<reqs, write_queue, completed>>
      /\ receiving' = receiving \ {h} /\ Careful(h)
  BY DEF RecvStop, Call
<1>3. /\ OnlyHandle(h) /\ HandleFits(h)' /\ io'.fd = io.fd
      /\ io'.pevents[h] = io.pevents[h] \ {"in"}
      /\ hs'.flags[h] = hs.flags[h] \/ hs'.flags[h] = hs.flags[h] \ {"active"}
  BY <1>1, <1>2, OneEventStops
<1>4. CallsOn(h)
  <2>1. OnlyUdp(h)
    BY <1>2 DEF OnlyUdp
  <2>2. ~(frame.at = "finish" /\ frame.h = h)
    BY <1>1, <1>2, NotFinishing DEF UdpUsable
  <2> QED BY <1>2, <1>3, <2>1, <2>2 DEF CallsOn
<1>5. SendsFit' /\ SendsOf(h)' = SendsOf(h)
  <2>1. receiving' \subseteq Udps
    BY <1>1, <1>2 DEF SendsFit
  <2> QED BY <1>1, <1>2, <2>1, SendsKept
<1>6. UdpFits(h)'
  <2>1. "ref" \in hs.flags[h]
    BY <1>1, <1>2 DEF HandleFits, UdpUsable
  <2>2. hs'.flags[h] # {}
    BY <1>3, <2>1
  <2>3. /\ "out" \in io'.pevents[h] <=> "out" \in io.pevents[h]
        /\ "in" \notin io'.pevents[h]
    BY <1>3
  <2> QED BY <1>1, <1>2, <1>5, <2>2, <2>3 DEF UdpFits, InCompleted, UdpUsable, IsUsable
<1>7. ASSUME NEW g \in Fds, io'.watchers[g] = h PROVE CanTake(h, batch[g])'
  BY <1>1, <1>2, <1>3, <1>7, CarefulTakes DEF OnlyHandle
<1> QED BY <1>2, <1>4, <1>5, <1>6, <1>7, UdpCallFits

(* uv_udp_init()                                                           *)
LEMMA UdpInitializeFits ==
  ASSUME SocketsInv, NEW h \in Udps, UdpInitialize(h)
  PROVE  SocketsInv'
<1>1. /\ LoopFits /\ IoFit(io, Handles) /\ HandlesFit(hs, Handles) /\ h \in Handles
      /\ h \notin Polls /\ SendsFit /\ UdpFits(h) /\ \A f \in Fds : BatchFits(f)
  BY DEF SocketsInv, LoopFits
<1>2. /\ hs' = Initialized(hs, h) /\ io' = IoInit(io, h, None) /\ hs.flags[h] = {} /\ user
      /\ UNCHANGED <<phase, batch, frame, user>>
      /\ UNCHANGED <<reqs, write_queue, completed, receiving>>
  BY DEF UdpInitialize, Call, udpVars
<1>3. /\ ~IsClosing(hs, h) /\ ~IsClosed(hs, h) /\ "ref" \notin hs.flags[h] /\ ~IsActive(hs, h)
  BY <1>2 DEF IsClosing, IsClosed, IsActive
<1>4. io.pevents[h] = {}
  BY <1>1, <1>3 DEF LoopFits, HandleFits
<1>5. FitsWith(hs, Handles, h, {"ref"}, hs')
  BY <1>1, <1>2, <1>3, InitializedFits
<1>6. /\ IoFit(io', Handles) /\ io'.pending = io.pending /\ io'.pevents = io.pevents
      /\ io'.watchers = io.watchers /\ io'.fd = [io.fd EXCEPT ![h] = None]
  <2> DEFINE R == IoInit(io, h, None)
  <2>1. /\ IoFit(R, Handles) /\ R.pending = io.pending /\ R.pevents = io.pevents
        /\ R.watchers = io.watchers /\ R.fd = [io.fd EXCEPT ![h] = None]
    BY <1>1, <1>4, IoInitFits
  <2> HIDE DEF R
  <2> QED BY <1>2, <2>1 DEF R
<1>7. /\ io'.fd[h] = None
      /\ \A g \in Handles : g # h => io'.fd[g] = io.fd[g]
  <2>1. io.fd \in [Handles -> Fds \cup {None}]
    BY <1>1, WatchersTypes DEF IoFit
  <2> QED BY <1>1, <1>6, <2>1
<1>8. OnlyHandle(h) /\ hs'.flags[h] = {"ref"}
  BY <1>5, <1>6, <1>7 DEF OnlyHandle, FitsWith
<1>9. HandleFits(h)'
  BY <1>1, <1>4, <1>6, <1>8 DEF HandleFits, IsActive, IsUsable
<1>10. CallsOn(h)
  <2>1. ~(frame.at = "finish" /\ frame.h = h)
    BY <1>3 DEF SocketsInv, FrameFits
  <2> QED BY <1>2, <1>7, <1>8, <1>9, <2>1 DEF CallsOn, OnlyUdp
<1>11. SendsFit' /\ SendsOf(h)' = SendsOf(h)
  <2>1. receiving' \subseteq Udps
    BY <1>1, <1>2 DEF SendsFit
  <2> QED BY <1>1, <1>2, <2>1, SendsKept
<1>12. UdpFits(h)'
  <2>1. SendsOf(h) = <<>> /\ write_queue[h] = <<>>
    BY <1>1, <1>2, SendsAreSends DEF UdpFits
  <2> QED BY <1>1, <1>2, <1>4, <1>6, <1>8, <1>11, <2>1 DEF UdpFits
<1>13. ASSUME NEW f \in Fds, io'.watchers[f] = h PROVE CanTake(h, batch[f])'
  BY <1>1, <1>2, <1>6, <1>11, <1>13 DEF BatchFits, CanTake
<1> QED BY <1>2, <1>10, <1>11, <1>12, <1>13, UdpCallFits

(* What a call that only changes the socket leaves as it was.              *)
LEMMA RebindFits ==
  ASSUME SocketsInv, NEW h \in Udps, UNCHANGED <<hs, reqs, udpVars, phase, batch, frame, user>>,
         user, UdpUsable(h),
         IoFit(io', Handles), io'.pending = io.pending, io'.pevents = io.pevents,
         io'.watchers = io.watchers, NEW d, io'.fd = [io.fd EXCEPT ![h] = d],
         d = None \/ batch[d] = {}
  PROVE  SocketsInv'
<1>1. /\ LoopFits /\ IoFit(io, Handles) /\ HandlesFit(hs, Handles) /\ h \in Handles
      /\ h \notin Polls /\ SendsFit /\ UdpFits(h) /\ \A f \in Fds : BatchFits(f)
  BY DEF SocketsInv, LoopFits
<1>2. UNCHANGED <<hs, reqs, write_queue, completed, receiving, phase, batch, frame, user>>
  BY DEF udpVars
<1>3. /\ io'.fd[h] = d
      /\ \A g \in Handles : g # h => io'.fd[g] = io.fd[g]
  <2>1. io.fd \in [Handles -> Fds \cup {None}]
    BY <1>1, WatchersTypes DEF IoFit
  <2> QED BY <1>1, <2>1
<1>4. OnlyHandle(h)
  BY <1>1, <1>2, <1>3 DEF OnlyHandle
<1>5. HandleFits(h)'
  BY <1>1, <1>2 DEF HandleFits, LoopFits
<1>6. CallsOn(h)
  <2>1. ~(frame.at = "finish" /\ frame.h = h)
    BY <1>1, NotFinishing DEF UdpUsable
  <2> QED BY <1>2, <1>3, <1>4, <1>5, <2>1 DEF CallsOn, OnlyUdp
<1>7. SendsFit' /\ SendsOf(h)' = SendsOf(h)
  <2>1. receiving' \subseteq Udps
    BY <1>1, <1>2 DEF SendsFit
  <2> QED BY <1>1, <1>2, <2>1, SendsKept
<1>8. UdpFits(h)'
  BY <1>1, <1>2, <1>7 DEF UdpFits, UdpUsable, InCompleted
<1>9. ASSUME NEW f \in Fds, io'.watchers[f] = h PROVE CanTake(h, batch[f])'
  BY <1>1, <1>2, <1>7, <1>9 DEF BatchFits, CanTake
<1> QED BY <1>6, <1>7, <1>8, <1>9, UdpCallFits

(* uv_udp_bind(), uv_udp_open()                                            *)
LEMMA BindFits ==
  ASSUME "reuse" \notin Habits, SocketsInv, NEW h \in Udps, NEW f \in Fds, Bind(h, f)
  PROVE  SocketsInv'
<1>1. IoFit(io, Handles) /\ h \in Handles
  BY DEF SocketsInv, LoopFits
<1>2. /\ UdpUsable(h) /\ io.fd[h] = None /\ NewFd(f) /\ user
      /\ io' = [Opened(io, f) EXCEPT !.fd[h] = f]
      /\ UNCHANGED <<hs, reqs, udpVars, phase, batch, frame, user>>
  BY DEF Bind, Call, BoundTo
<1>3. f \in Fds \ io.open /\ batch[f] = {}
  BY <1>1, <1>2, NewFdIsFree
<1>4. /\ IoFit(io', Handles) /\ io'.pending = io.pending /\ io'.pevents = io.pevents
      /\ io'.watchers = io.watchers /\ io'.fd = [io.fd EXCEPT ![h] = f]
  <2>1. io.fd[h] = None /\ f \in Fds \ io.open /\ None \notin Handles
    BY <1>2, <1>3
  <2>2. io' = [Opened(io, f) EXCEPT !.fd[h] = f]
    BY <1>2
  <2>3. HasOpened(io, Handles, h, f, io')
    BY <1>1, <2>1, <2>2, OpenedFits
  <2> QED BY <2>3 DEF HasOpened
<1> QED BY <1>2, <1>3, <1>4, RebindFits

LEMMA BindFailsKeeps ==
  ASSUME "rebind" \notin Habits, SocketsInv, NEW h \in Udps, BindFails(h)
  PROVE  SocketsInv'
<1>1. IoFit(io, Handles) /\ h \in Handles
  BY DEF SocketsInv, LoopFits
<1>2. /\ UdpUsable(h) /\ io.fd[h] # None /\ io.pevents[h] = {} /\ user
      /\ io' = [CloseFd(io, io.fd[h]) EXCEPT !.fd[h] = None]
      /\ UNCHANGED <<hs, reqs, udpVars, phase, batch, frame, user>>
  BY DEF BindFails, Call
<1>3. /\ IoFit(io', Handles) /\ io'.pending = io.pending /\ io'.pevents = io.pevents
      /\ io'.watchers = io.watchers /\ io'.fd = [io.fd EXCEPT ![h] = None]
  <2> DEFINE R == [CloseFd(io, io.fd[h]) EXCEPT !.fd[h] = None]
  <2>1. /\ IoFit(R, Handles) /\ R.pending = io.pending /\ R.pevents = io.pevents
        /\ R.watchers = io.watchers /\ R.fd = [io.fd EXCEPT ![h] = None]
    BY <1>1, <1>2, BindFailsFits
  <2> HIDE DEF R
  <2> QED BY <1>2, <2>1 DEF R
<1> QED BY <1>2, <1>3, RebindFits

(* uv__io_close(), when nothing is fed.                                    *)
LEMMA IoCloseStops ==
  ASSUME NEW W, NEW I, IoFit(I, W), None \notin W, NEW w \in W, I.pending = <<>>
  PROVE  IoClose(I, w) = IoStop(I, w, {"in", "out"})
<1> DEFINE R == IoStop(I, w, {"in", "out"})
<1>1. WantsInstead(I, W, w, I.pevents[w] \ {"in", "out"}, R)
  BY IoStopFits
<1>2. IoClose(I, w) = [R EXCEPT !.pending = RemoveFirst(@, w)]
  BY DEF IoClose
<1> HIDE DEF R
<1>3. R \in WatchersOf(W) /\ R.pending = <<>>
  BY <1>1 DEF WantsInstead, IoFit
<1>4. RemoveFirst(<<>>, w) = <<>>
  <2>1. <<>> \in Seq(W) /\ w \notin ToSet(<<>>)
    BY DEF ToSet
  <2> QED BY <2>1, RemoveFirstElements
<1>5. IoClose(I, w) = [R EXCEPT !.pending = R.pending]
  BY <1>2, <1>3, <1>4
<1>6. [R EXCEPT !.pending = R.pending] = R
  BY <1>3 DEF WatchersOf
<1> QED BY <1>5, <1>6 DEF R

(* uv__udp_close() also closes the socket.                                 *)
Shut(I, w) == CloseFd([IoClose(I, w) EXCEPT !.fd[w] = None], I.fd[w])

LEMMA UdpClosedFits ==
  ASSUME NEW W, NEW I, IoFit(I, W), None \notin W, NEW w \in W, I.pending = <<>>
  PROVE  LET R == Shut(I, w)
         IN /\ IoFit(R, W) /\ R.pending = <<>> /\ R.pevents[w] = {}
            /\ R.fd[w] = None
            /\ \A v \in W : v # w => R.fd[v] = I.fd[v] /\ R.pevents[v] = I.pevents[v]
<1> DEFINE J == IoStop(I, w, {"in", "out"})
           f == I.fd[w]
           R == Shut(I, w)
           K == [J EXCEPT !.fd[w] = None]
<1>1. WantsInstead(I, W, w, I.pevents[w] \ {"in", "out"}, J)
  BY IoStopFits
<1>2. I.pevents[w] \ {"in", "out"} = {} /\ f \in Fds \cup {None} /\ I.fd \in [W -> Fds \cup {None}]
  BY WatchersTypes DEF IoFit
<1>3. R = CloseFd(K, f)
  BY IoCloseStops DEF Shut
<1> HIDE DEF J, R
<1>4. /\ IoFit(J, W) /\ J \in WatchersOf(W) /\ J.pending = <<>> /\ J.pevents[w] = {} /\ J.fd = I.fd
      /\ J.open \in SUBSET Fds /\ J.epoll \in [Fds -> SUBSET Events]
      /\ \A v \in W : v # w => J.pevents[v] = I.pevents[v]
  <2>1. IoFit(J, W) /\ J \in WatchersOf(W)
    BY <1>1 DEF WantsInstead, IoFit
  <2> QED BY <1>1, <1>2, <2>1, WatchersTypes DEF WantsInstead
<1>5. /\ K \in WatchersOf(W) /\ K.fd = [J.fd EXCEPT ![w] = None] /\ K.open = J.open
      /\ K.pevents = J.pevents /\ K.events = J.events /\ K.queue = J.queue
      /\ K.watchers = J.watchers /\ K.pending = J.pending /\ K.ok = J.ok
      /\ K.epoll = J.epoll
  <2>1. J.fd \in [W -> Fds \cup {None}]
    BY <1>4, WatchersTypes
  <2> QED BY <1>4, <2>1 DEF WatchersOf
<1> HIDE DEF K
<1>6. /\ R \in WatchersOf(W) /\ R.fd = K.fd /\ R.open = J.open \ {f}
      /\ R.pevents = J.pevents /\ R.events = J.events /\ R.queue = J.queue
      /\ R.watchers = J.watchers /\ R.pending = J.pending /\ R.ok = J.ok
      /\ \A g \in Fds : g # f => R.epoll[g] = J.epoll[g]
  <2>1. CASE f = None
    <3>1. R = K
      BY <1>3, <2>1 DEF CloseFd
    <3>2. J.open = J.open \ {f}
      BY <1>4, <2>1
    <3> QED BY <1>5, <3>1, <3>2
  <2>2. CASE f # None
    <3>1. R = [K EXCEPT !.open = @ \ {f}, !.epoll[f] = {}]
      BY <1>3, <2>2 DEF CloseFd
    <3>2. f \in Fds
      BY <1>2, <2>2
    <3>3. /\ R.fd = K.fd /\ R.open = K.open \ {f}
          /\ R.pevents = K.pevents /\ R.events = K.events /\ R.queue = K.queue
          /\ R.watchers = K.watchers /\ R.pending = K.pending /\ R.ok = K.ok
          /\ R.epoll = [K.epoll EXCEPT ![f] = {}]
      BY <1>5, <3>1 DEF WatchersOf
    <3>4. R \in WatchersOf(W)
      BY <1>5, <3>1, <3>2 DEF WatchersOf
    <3> QED BY <1>4, <1>5, <3>3, <3>4
  <2> QED BY <2>1, <2>2
<1>7. OtherFd(J, W, w, None, R) /\ R.open = J.open \ {J.fd[w]}
  BY <1>4, <1>5, <1>6 DEF OtherFd
<1>8. IoFit(R, W)
  BY <1>4, <1>7, FdClosedFits
<1>9. R.fd[w] = None /\ \A v \in W : v # w => R.fd[v] = I.fd[v]
  BY <1>2, <1>4, <1>5, <1>6
<1> QED BY <1>4, <1>6, <1>8, <1>9 DEF R

LEMMA UdpCloseFits ==
  ASSUME SocketsInv, NEW h \in Udps, UdpClose(h)
  PROVE  SocketsInv'
<1>1. /\ LoopFits /\ IoFit(io, Handles) /\ HandlesFit(hs, Handles) /\ h \in Handles
      /\ h \notin Polls /\ SendsFit /\ UdpFits(h) /\ io.pending = <<>>
  BY DEF SocketsInv, LoopFits
<1>2. /\ io' = Shut(io, h) /\ user
      /\ hs' = MakeClosePending(Stopped(Closing(hs, h), h), h)
      /\ UNCHANGED <<phase, batch, frame, user>>
      /\ UNCHANGED <<reqs, write_queue, completed, receiving>> /\ IsUsable(hs, h)
  BY DEF UdpClose, Call, UdpUsable, udpVars, Shut
<1>3. /\ IoFit(io', Handles) /\ io'.pending = <<>> /\ io'.pevents[h] = {} /\ io'.fd[h] = None
      /\ \A g \in Handles : g # h => io'.fd[g] = io.fd[g] /\ io'.pevents[g] = io.pevents[g]
  BY <1>1, <1>2, UdpClosedFits
<1>4. /\ HandlesFit(hs', Handles) /\ hs'.doomed = hs.doomed
      /\ hs'.flags[h] = (hs.flags[h] \cup {"closing"}) \ {"active"}
      /\ \A g \in Handles : g # h => hs'.flags[g] = hs.flags[g]
  BY <1>1, <1>2, ClosingFits
<1>5. OnlyHandle(h)
  BY <1>1, <1>3, <1>4 DEF OnlyHandle
<1>6. HandleFits(h)'
  BY <1>1, <1>3, <1>4 DEF HandleFits, IsActive, IsUsable
<1>7. CallsOn(h)
  BY <1>1, <1>2, <1>3, <1>5, <1>6, NotFinishing DEF CallsOn, OnlyUdp
<1>8. SendsFit' /\ SendsOf(h)' = SendsOf(h)
  <2>1. receiving' \subseteq Udps
    BY <1>1, <1>2 DEF SendsFit
  <2> QED BY <1>1, <1>2, <2>1, SendsKept
<1>9. UdpFits(h)'
  <2>1. "closing" \in hs'.flags[h]
    BY <1>4
  <2> QED BY <1>3, <2>1 DEF UdpFits, UdpUsable, IsUsable
<1>10. ASSUME NEW f \in Fds, io'.watchers[f] = h PROVE CanTake(h, batch[f])'
  BY <1>1, <1>3, <1>10 DEF IoFit, WatchersFit, CalledFits
<1> QED BY <1>2, <1>7, <1>8, <1>9, <1>10, UdpCallFits

LEMMA UdpCallKeeps ==
  ASSUME {"rebind", "reuse", "cross"} \cap Habits = {}, SocketsInv, UdpCall
  PROVE  SocketsInv'
<1>1. /\ "rebind" \notin Habits /\ "reuse" \notin Habits /\ "cross" \notin Habits
      /\ {"reuse", "cross"} \cap Habits = {}
  OBVIOUS
<1>2. PICK h \in Udps :
        \/ UdpInitialize(h) \/ BindFails(h) \/ RecvStop(h) \/ UdpClose(h)
        \/ \E f \in Fds : Bind(h, f) \/ RecvStart(h, f)
        \/ \E f \in Fds, r \in Sends : Send(h, r, f)
  BY DEF UdpCall
<1>3. CASE UdpInitialize(h) \/ BindFails(h) \/ RecvStop(h) \/ UdpClose(h)
  BY <1>1, <1>3, UdpInitializeFits, BindFailsKeeps, RecvStopFits, UdpCloseFits
<1>4. CASE \E f \in Fds : Bind(h, f) \/ RecvStart(h, f)
  BY <1>1, <1>4, BindFits, RecvStartFits
<1>5. CASE \E f \in Fds, r \in Sends : Send(h, r, f)
  BY <1>1, <1>5, SendFits
<1> QED BY <1>2, <1>3, <1>4, <1>5

-----------------------------------------------------------------------------
(* Steps that only go on to another function.                              *)
LEMMA FrameOnly ==
  ASSUME SocketsInv, UNCHANGED <<hs, io, reqs, batch, udpVars>>, frame' \in Frames,
         phase' # "closing" => hs.doomed = <<>>, phase' # "batch" => batch = NoBatch,
         FrameFits', UnderWayFits', frame.at # "completed" \/ frame' = frame
  PROVE  SocketsInv'
<1>1. LoopFits /\ SendsFit
  BY DEF SocketsInv
<1>2. UNCHANGED <<hs, io, reqs, batch, write_queue, completed, receiving>>
  BY DEF udpVars
<1>3. ASSUME NEW h \in Handles PROVE HandleFits(h)'
  BY <1>1, <1>2 DEF LoopFits, HandleFits
<1>4. LoopFits'
  BY <1>1, <1>2, <1>3 DEF LoopFits, NoBatch
<1>5. receiving' \subseteq Udps
  BY <1>1, <1>2 DEF SendsFit
<1>6. SendsFit' /\ \A h \in Udps : SendsOf(h)' = SendsOf(h)
  BY <1>1, <1>2, <1>5, SendsKept
<1>7. ASSUME NEW h \in Udps PROVE UdpFits(h)'
  <2>1. UdpFits(h) /\ (InCompleted(h) => InCompleted(h)')
    BY DEF SocketsInv, InCompleted
  <2> QED BY <1>2, <1>6, <2>1 DEF UdpFits, UdpUsable
<1>8. ASSUME NEW f \in Fds PROVE BatchFits(f)'
  <2>1. BatchFits(f)
    BY DEF SocketsInv
  <2> QED BY <1>2, <1>6, <2>1 DEF BatchFits, CanTake
<1> QED BY <1>4, <1>6, <1>7, <1>8 DEF SocketsInv

LEMMA NextLabel ==
  ASSUME SocketsInv, NEW a \in Labels, frame' = [frame EXCEPT !.at = a]
  PROVE  frame' \in Frames /\ frame'.at = a /\ frame'.h = frame.h /\ frame'.evs = frame.evs
<1>1. frame \in Frames
  BY DEF SocketsInv, LoopFits
<1> QED BY <1>1 DEF Frames

LEMMA NoFrameFits == NoFrame \in Frames /\ NoFrame.at = "none" /\ NoFrame.h = None
BY DEF NoFrame, Frames, Labels

(* uv__udp_recvmsg()                                                       *)
LEMMA RecvFits ==
  ASSUME SocketsInv, NEW h \in Udps, Recv(h) \/ RecvDone(h)
  PROVE  SocketsInv'
<1>1. LoopFits /\ FrameFits /\ UnderWayFits
  BY DEF SocketsInv
<1>2. At("io") \/ At("again")
  BY DEF Recv, RecvDone
<1>3. frame.h = h /\ ~user /\ frame.at \in {"io", "again"}
  BY <1>2 DEF Recv, RecvDone, At
<1>4. PICK a \in {"again", "send"} : frame' = [frame EXCEPT !.at = a]
  BY DEF Recv, RecvDone
<1>5. UNCHANGED <<hs, reqs, phase, batch, udpVars>>
  BY DEF Recv, RecvDone
<1>6. io' = io
  <2>1. CASE RecvDone(h)
    BY <2>1 DEF RecvDone
  <2>2. CASE Recv(h)
    <3>1. h \in receiving
      BY <1>1, <1>3, <2>2 DEF Recv, At, UnderWayFits, CanTake
    <3> QED BY <2>2, <3>1 DEF Recv
  <2> QED BY <2>1, <2>2
<1>7. a \in Labels
  BY DEF Labels
<1>8. frame' \in Frames /\ frame'.at = a /\ frame'.h = h /\ frame'.evs = frame.evs
  BY <1>3, <1>4, <1>7, NextLabel
<1>9. FrameFits'
  BY <1>1, <1>3, <1>5, <1>6, <1>8 DEF FrameFits
<1>10. UnderWayFits'
  BY <1>1, <1>3, <1>5, <1>8 DEF UnderWayFits, CanTake, SendsOf, udpVars
<1>11. (phase' # "closing" => hs.doomed = <<>>) /\ (phase' # "batch" => batch = NoBatch)
  BY <1>1, <1>5 DEF LoopFits
<1> QED BY <1>3, <1>5, <1>6, <1>8, <1>9, <1>10, <1>11, FrameOnly

LEMMA NoSendFits ==
  ASSUME SocketsInv, NEW h \in Udps, NoSend(h)
  PROVE  SocketsInv'
<1>1. LoopFits /\ FrameFits
  BY DEF SocketsInv
<1>2. /\ frame.at = "send" /\ frame' = NoFrame
      /\ UNCHANGED <<hs, io, reqs, phase, batch, udpVars>>
  BY DEF NoSend, At
<1>3. FrameFits' /\ UnderWayFits'
  BY <1>2, NoFrameFits DEF FrameFits, UnderWayFits
<1>4. (phase' # "closing" => hs.doomed = <<>>) /\ (phase' # "batch" => batch = NoBatch)
  BY <1>1, <1>2 DEF LoopFits
<1> QED BY <1>2, <1>3, <1>4, NoFrameFits, FrameOnly

(* Steps of the function that is under way for the UDP handle h.           *)
LEMMA UdpStepFits ==
  ASSUME SocketsInv, NEW h \in Udps, OnlyHandle(h), OnlyUdp(h), HandleFits(h)',
         UNCHANGED <<phase, batch>>, frame' \in Frames, frame.h = h,
         FrameFits', SendsFit', UdpFits(h)', UnderWayFits',
         \A f \in Fds : io'.watchers[f] = h => CanTake(h, batch[f])'
  PROVE  SocketsInv'
<1>1. /\ LoopFits /\ IoFit(io, Handles) /\ h \in Handles /\ \A f \in Fds : BatchFits(f)
  BY DEF SocketsInv, LoopFits
<1>2. LoopFits'
  BY <1>1, HandleFitsAlone
<1>3. ASSUME NEW g \in Udps PROVE UdpFits(g)'
  <2>1. CASE g # h
    BY <1>1, <2>1, UdpsFitAlone DEF InCompleted, SocketsInv
  <2> QED BY <2>1
<1>4. ASSUME NEW f \in Fds PROVE BatchFits(f)'
  BY <1>1, BatchFitsAlone
<1> QED BY <1>2, <1>3, <1>4 DEF SocketsInv

LEMMA SameHandles ==
  ASSUME LoopFits, NEW h \in Handles, UNCHANGED <<hs, io>>
  PROVE  OnlyHandle(h) /\ HandleFits(h)'
<1>1. OnlyHandle(h)
  BY DEF OnlyHandle, LoopFits
<1>2. HandleFits(h)'
  BY DEF HandleFits, LoopFits
<1> QED BY <1>1, <1>2

LEMMA AssertionHolds ==
  ASSUME NEW W, NEW I, IoFit(I, W), NEW c, c = TRUE
  PROVE  Asserting(I, c) = I
<1>1. I \in WatchersOf(W) /\ I.ok = TRUE
  BY WatchersTypes DEF IoFit
<1>2. Asserting(I, c) = [I EXCEPT !.ok = I.ok]
  BY <1>1 DEF Asserting
<1> QED BY <1>1, <1>2 DEF WatchersOf

(* A closed handle wants no events.                                        *)
LEMMA ClosedIsDeaf ==
  ASSUME SocketsInv, NEW h \in Handles, IsClosed(hs, h)
  PROVE  io.pevents[h] = {} /\ \A f \in Fds : io.watchers[f] # h
<1>1. ~IsActive(hs, h)
  BY DEF SocketsInv, LoopFits, HandlesFit, FlagsFit
<1>2. io.pevents[h] = {}
  BY <1>1 DEF SocketsInv, LoopFits, HandleFits
<1>3. \A f \in Fds : io.watchers[f] # h
  BY <1>2 DEF SocketsInv, LoopFits, IoFit, WatchersFit, CalledFits
<1> QED BY <1>2, <1>3

(* uv__udp_run_pending()                                                   *)
LEMMA SendQueuedFits ==
  ASSUME SocketsInv, NEW h \in Udps, SendQueued(h)
  PROVE  SocketsInv' /\ SendsOf(h)' = SendsOf(h)
<1>1. /\ LoopFits /\ FrameFits /\ IoFit(io, Handles) /\ h \in Handles /\ SendsFit /\ UdpFits(h)
      /\ UnderWayFits /\ \A f \in Fds : BatchFits(f)
  BY DEF SocketsInv, LoopFits
<1>2. /\ frame.at = "send" /\ frame.h = h /\ "out" \in frame.evs
      /\ io' = Asserting(io, Uncalled(h) # {})
      /\ frame' = [frame EXCEPT !.at = "completed"]
      /\ UNCHANGED <<hs, reqs, phase, batch, receiving>>
  BY DEF SendQueued, At
<1>3. PICK n \in 0..Len(write_queue[h]) : RunPending(h, n)
  <2>1. write_queue[h] \in Seq(Sends)
    BY <1>1, SendsAreSends
  <2>2. Len(write_queue[h]) \in 0..Len(write_queue[h])
    BY <2>1, LenProperties
  <2> QED BY <2>2 DEF SendQueued
<1>4. /\ write_queue[h] \in Seq(Sends) /\ completed[h] \in Seq(Sends)
      /\ Uncalled(h) \subseteq reqs /\ IsInjective(SendsOf(h))
      /\ SendsOf(h) = <<>> <=> Uncalled(h) = {}
  BY <1>1, SendsAreSends
<1>5. SendsOf(h) # <<>> /\ Uncalled(h) # {}
  BY <1>1, <1>2, <1>4 DEF UnderWayFits
<1>6. io' = io
  <2>1. (Uncalled(h) # {}) = TRUE
    BY <1>5
  <2> QED BY <1>1, <1>2, <2>1, AssertionHolds
<1>7. OnlyHandle(h) /\ HandleFits(h)'
  BY <1>1, <1>2, <1>6, SameHandles
<1> DEFINE p == completed[h]
           q == write_queue[h]
           a == FirstOf(q, n)
           b == RestOf(q, n)
<1>8. /\ write_queue' = [write_queue EXCEPT ![h] = b]
      /\ completed' = [completed EXCEPT ![h] = p \o a]
  BY <1>3, Zenon DEF RunPending, FirstOf, RestOf
<1>9. b \in Seq(Sends) /\ p \o a \in Seq(Sends) /\ (p \o a) \o b = SendsOf(h)
  <2>1. p \in Seq(Sends) /\ q \in Seq(Sends) /\ n \in 0..Len(q)
    BY <1>4
  <2>2. SendsOf(h) = p \o q
    BY Zenon DEF SendsOf
  <2> HIDE DEF p, q
  <2>3. /\ RestOf(q, n) \in Seq(Sends) /\ p \o FirstOf(q, n) \in Seq(Sends)
        /\ (p \o FirstOf(q, n)) \o RestOf(q, n) = p \o q
    BY <2>1, JoinedMove
  <2> QED BY <2>2, <2>3, Zenon
<1>10. q = <<>> => b = <<>>
  <2>1. SUFFICES ASSUME q = <<>> PROVE b = <<>>
    OBVIOUS
  <2>2. Len(q) = 0 /\ n = 0
    BY <2>1
  <2> QED BY <2>2, SubSeqEmpty DEF RestOf
<1> HIDE DEF a, b
<1>11. /\ write_queue' \in [Udps -> Seq(Sends)] /\ completed' \in [Udps -> Seq(Sends)]
       /\ write_queue'[h] = b /\ completed'[h] = p \o a /\ OnlyUdp(h)
  BY <1>1, <1>2, <1>8, <1>9 DEF SendsFit, OnlyUdp
<1>12. SendsOf(h)' = SendsOf(h) /\ Uncalled(h)' = Uncalled(h)
  <2>1. SendsOf(h)' = SendsOf(h)
    BY <1>9, <1>11, Zenon DEF SendsOf
  <2> QED BY <2>1 DEF Uncalled
<1>13. SendsFit'
  <2>1. /\ Uncalled(h) \cap (reqs \ Uncalled(h)) = {}
        /\ reqs' = (reqs \ Uncalled(h)) \cup Uncalled(h)
    BY <1>2, <1>4
  <2>2. receiving' \subseteq Udps /\ IsInjective(SendsOf(h)')
    BY <1>1, <1>2, <1>4, <1>12 DEF SendsFit
  <2> QED BY <1>1, <1>11, <1>12, <2>1, <2>2, SendsOfOne
<1>14. frame' \in Frames /\ frame'.at = "completed" /\ frame'.h = h
  BY <1>2, NextLabel DEF Labels
<1>15. UdpFits(h)'
  BY <1>1, <1>2, <1>6, <1>10, <1>11, <1>12, <1>14 DEF UdpFits, UdpUsable, InCompleted
<1>16. FrameFits' /\ UnderWayFits'
  BY <1>1, <1>2, <1>6, <1>14 DEF FrameFits, UnderWayFits
<1>17. ASSUME NEW f \in Fds, io'.watchers[f] = h PROVE CanTake(h, batch[f])'
  BY <1>1, <1>2, <1>6, <1>12, <1>17 DEF BatchFits, CanTake
<1>18. SocketsInv'
  BY <1>2, <1>7, <1>11, <1>13, <1>14, <1>15, <1>16, <1>17, UdpStepFits
<1> QED BY <1>12, <1>18

(* The first request of h is called back.                                  *)
LEMMA FirstSendCalled ==
  ASSUME SocketsInv, NEW h \in Udps, frame.h = h, frame.at \in {"completed", "finish"},
         SendsOf(h) # <<>>, SendsOf(h)' = Tail(SendsOf(h)),
         reqs' = reqs \ {Head(SendsOf(h))}, OnlyUdp(h),
         write_queue' \in [Udps -> Seq(Sends)], completed' \in [Udps -> Seq(Sends)],
         write_queue'[h] # <<>> => write_queue[h] # <<>>,
         UNCHANGED <<hs, io, phase, batch, frame, receiving>>
  PROVE  SocketsInv'
<1>1. /\ LoopFits /\ FrameFits /\ IoFit(io, Handles) /\ h \in Handles /\ SendsFit /\ UdpFits(h)
  BY DEF SocketsInv, LoopFits
<1>2. OnlyHandle(h) /\ HandleFits(h)'
  BY <1>1, SameHandles
<1>3. /\ SendsOf(h) \in Seq(Sends) /\ Uncalled(h) = ToSet(SendsOf(h))
      /\ Uncalled(h) \subseteq reqs /\ IsInjective(SendsOf(h))
  BY <1>1, SendsAreSends
<1> DEFINE r == Head(SendsOf(h))
           rest == ToSet(Tail(SendsOf(h)))
<1>4. /\ Uncalled(h) = rest \cup {r} /\ r \notin rest
      /\ IsInjective(Tail(SendsOf(h)))
  BY <1>3, TailElements
<1>5. Uncalled(h)' = rest /\ reqs' = reqs \ {r} /\ IsInjective(SendsOf(h)')
  BY <1>4 DEF Uncalled
<1> HIDE DEF r, rest
<1>6. rest \cap (reqs \ Uncalled(h)) = {} /\ reqs' = (reqs \ Uncalled(h)) \cup rest
  BY <1>3, <1>4, <1>5
<1>7. SendsFit'
  <2>1. receiving' \subseteq Udps
    BY <1>1 DEF SendsFit
  <2> QED BY <1>1, <1>5, <1>6, <2>1, SendsOfOne
<1>8. frame' \in Frames /\ FrameFits' /\ UnderWayFits'
  BY <1>1 DEF LoopFits, FrameFits, UnderWayFits
<1>9. /\ hs.flags[h] # {}
      /\ "out" \in io.pevents[h] => InCompleted(h)
  <2>1. hs.flags[h] # {}
    BY <1>1 DEF UdpFits
  <2>2. CASE frame.at = "completed"
    BY <2>1, <2>2 DEF InCompleted
  <2>3. CASE frame.at = "finish"
    <3>1. IsClosed(hs, h)
      BY <1>1, <2>3 DEF FrameFits
    <3> QED BY <2>1, <3>1, ClosedIsDeaf
  <2> QED BY <2>2, <2>3
<1>10. UdpFits(h)'
  BY <1>1, <1>9 DEF UdpFits, UdpUsable, InCompleted
<1>11. ASSUME NEW f \in Fds, io'.watchers[f] = h PROVE CanTake(h, batch[f])'
  <2>1. io.watchers[f] = h /\ h # None
    BY <1>11
  <2>2. CASE frame.at = "completed"
    <3>1. io.fd[h] = f
      BY <1>1, <2>1 DEF IoFit, WatchersFit, CalledFits
    <3>2. batch[f] = {}
      BY <1>1, <2>2, <3>1 DEF FrameFits, IoFit
    <3> QED BY <3>2 DEF CanTake
  <2>3. CASE frame.at = "finish"
    <3>1. IsClosed(hs, h)
      BY <1>1, <2>3 DEF FrameFits
    <3> QED BY <1>1, <2>1, <3>1, ClosedIsDeaf
  <2> QED BY <2>2, <2>3
<1> QED BY <1>2, <1>7, <1>8, <1>10, <1>11, UdpStepFits

(* uv__udp_run_completed()                                                 *)
LEMMA CallSentFits ==
  ASSUME SocketsInv, NEW h \in Udps, CallSent(h)
  PROVE  SocketsInv' /\ SendsOf(h) # <<>> /\ SendsOf(h)' = Tail(SendsOf(h)) /\ OnlyUdp(h)
<1>1. /\ SendsFit /\ write_queue[h] \in Seq(Sends) /\ completed[h] \in Seq(Sends)
      /\ SendsOf(h) = <<>> <=> completed[h] = <<>> /\ write_queue[h] = <<>>
  BY SendsAreSends DEF SocketsInv
<1>2. /\ frame.at \in {"completed", "finish"} /\ frame.h = h /\ completed[h] # <<>>
      /\ completed' = [completed EXCEPT ![h] = Tail(@)] /\ write_queue' = write_queue
      /\ reqs' = reqs \ {Head(completed[h])}
      /\ UNCHANGED <<hs, io, phase, batch, frame, receiving>>
  BY DEF CallSent, At
<1>3. SendsOf(h) # <<>>
  BY <1>1, <1>2
<1>4. /\ Head(SendsOf(h)) = Head(completed[h])
      /\ Tail(SendsOf(h)) = Tail(completed[h]) \o write_queue[h]
  <2> DEFINE p == completed[h]
             q == write_queue[h]
  <2>1. SendsOf(h) = p \o q
    BY DEF SendsOf
  <2>2. p \in Seq(Sends) /\ q \in Seq(Sends) /\ p # <<>>
    BY <1>1, <1>2
  <2> HIDE DEF p, q
  <2>3. Head(p \o q) = Head(p) /\ Tail(p \o q) = Tail(p) \o q
    BY <2>2, JoinedTail
  <2>4. Head(SendsOf(h)) = Head(p) /\ Tail(SendsOf(h)) = Tail(p) \o q
    BY <2>1, <2>3, Zenon
  <2> QED BY <2>4, Zenon DEF p, q
<1>5. Tail(completed[h]) \in Seq(Sends)
  BY <1>1, <1>2, HeadTailProperties
<1>6. /\ completed' \in [Udps -> Seq(Sends)] /\ write_queue' \in [Udps -> Seq(Sends)]
      /\ completed'[h] = Tail(completed[h]) /\ OnlyUdp(h)
  BY <1>1, <1>2, <1>5 DEF SendsFit, OnlyUdp
<1>7. SendsOf(h)' = Tail(SendsOf(h))
  BY <1>2, <1>4, <1>6, Zenon DEF SendsOf
<1>8. SocketsInv'
  BY <1>2, <1>3, <1>4, <1>6, <1>7, FirstSendCalled
<1> QED BY <1>3, <1>6, <1>7, <1>8

(* uv__udp_finish_close()                                                  *)
LEMMA CancelSendFits ==
  ASSUME SocketsInv, NEW h \in Udps, CancelSend(h)
  PROVE  SocketsInv' /\ SendsOf(h) # <<>> /\ SendsOf(h)' = Tail(SendsOf(h)) /\ OnlyUdp(h)
<1>1. /\ SendsFit /\ write_queue[h] \in Seq(Sends) /\ completed[h] \in Seq(Sends)
      /\ SendsOf(h) = <<>> <=> completed[h] = <<>> /\ write_queue[h] = <<>>
  BY SendsAreSends DEF SocketsInv
<1>2. /\ frame.at = "finish" /\ frame.h = h /\ completed[h] = <<>> /\ write_queue[h] # <<>>
      /\ write_queue' = [write_queue EXCEPT ![h] = Tail(@)] /\ completed' = completed
      /\ reqs' = reqs \ {Head(write_queue[h])}
      /\ UNCHANGED <<hs, io, phase, batch, frame, receiving>>
  BY DEF CancelSend, At
<1>3. SendsOf(h) # <<>>
  BY <1>1, <1>2
<1>4. Tail(write_queue[h]) \in Seq(Sends)
  BY <1>1, <1>2, HeadTailProperties
<1>5. /\ completed' \in [Udps -> Seq(Sends)] /\ write_queue' \in [Udps -> Seq(Sends)]
      /\ write_queue'[h] = Tail(write_queue[h]) /\ completed'[h] = <<>> /\ OnlyUdp(h)
  BY <1>1, <1>2, <1>4 DEF SendsFit, OnlyUdp
<1>6. SendsOf(h) = write_queue[h] /\ SendsOf(h)' = Tail(write_queue[h])
  <2>1. /\ <<>> \o write_queue[h] = write_queue[h]
        /\ <<>> \o Tail(write_queue[h]) = Tail(write_queue[h])
    BY <1>1, <1>4, ConcatEmptySeq
  <2>2. SendsOf(h) = <<>> \o write_queue[h]
    BY <1>2, Zenon DEF SendsOf
  <2>3. SendsOf(h)' = <<>> \o Tail(write_queue[h])
    BY <1>5, Zenon DEF SendsOf
  <2> QED BY <2>1, <2>2, <2>3, Zenon
<1>7. SendsOf(h)' = Tail(SendsOf(h)) /\ reqs' = reqs \ {Head(SendsOf(h))}
  BY <1>2, <1>6
<1>8. SocketsInv'
  BY <1>2, <1>3, <1>5, <1>7, FirstSendCalled
<1> QED BY <1>3, <1>5, <1>7, <1>8

(* The end of uv__udp_sendmsg()                                            *)
LEMMA SendDoneFits ==
  ASSUME SocketsInv, NEW h \in Udps, SendDone(h)
  PROVE  SocketsInv'
<1>1. /\ LoopFits /\ FrameFits /\ IoFit(io, Handles) /\ h \in Handles /\ SendsFit /\ UdpFits(h)
      /\ SendsOf(h) = <<>> <=> completed[h] = <<>> /\ write_queue[h] = <<>>
  BY SendsAreSends DEF SocketsInv, LoopFits
<1>2. /\ frame.at = "completed" /\ frame.h = h /\ completed[h] = <<>> /\ frame' = NoFrame
      /\ UNCHANGED <<reqs, phase, batch>> /\ UNCHANGED <<write_queue, completed, receiving>>
      /\ IF write_queue[h] # <<>> THEN UNCHANGED <<hs, io>>
         ELSE /\ io' = IoStop(io, h, {"out"})
              /\ hs' = IF IoActive(io', h, {"in"}) THEN hs ELSE Stopped(hs, h)
  BY DEF SendDone, At, udpVars
<1>3. SendsFit' /\ SendsOf(h)' = SendsOf(h) /\ OnlyUdp(h)
  <2>1. receiving' \subseteq Udps
    BY <1>1, <1>2 DEF SendsFit
  <2> QED BY <1>1, <1>2, <2>1, SendsKept DEF OnlyUdp
<1>4. frame' \in Frames /\ FrameFits' /\ UnderWayFits'
  BY <1>2, NoFrameFits DEF FrameFits, UnderWayFits
<1>5. /\ OnlyHandle(h) /\ HandleFits(h)' /\ io'.fd = io.fd /\ UdpFits(h)'
  <2>1. CASE write_queue[h] # <<>>
    <3>1. UNCHANGED <<hs, io>>
      BY <1>2, <2>1
    <3>2. SendsOf(h) # <<>>
      BY <1>1, <2>1
    <3>3. UdpFits(h)'
      BY <1>1, <1>2, <1>3, <3>1, <3>2 DEF UdpFits, UdpUsable
    <3> QED BY <1>1, <3>1, <3>3, SameHandles
  <2>2. CASE write_queue[h] = <<>>
    <3>1. io' = IoStop(io, h, {"out"}) /\ hs' = IF IoActive(io', h, {"in"}) THEN hs ELSE Stopped(hs, h)
      BY <1>2, <2>2
    <3>2. /\ OnlyHandle(h) /\ HandleFits(h)' /\ io'.fd = io.fd
          /\ io'.pevents[h] = io.pevents[h] \ {"out"}
      <4> DEFINE e == "out"
                 o == "in"
      <4>1. e \in {"in", "out"} /\ o \in {"in", "out"} /\ e # o
        OBVIOUS
      <4>2. io' = IoStop(io, h, {e}) /\ hs' = IF IoActive(io', h, {o}) THEN hs ELSE Stopped(hs, h)
        BY <3>1
      <4> HIDE DEF e, o
      <4>3. /\ OnlyHandle(h) /\ HandleFits(h)' /\ io'.fd = io.fd
            /\ io'.pevents[h] = io.pevents[h] \ {e}
        <5>1. LoopFits
          BY <1>1
        <5> QED BY <4>1, <4>2, <5>1, OneEventStops
      <4> QED BY <4>3 DEF e
    <3>3. "out" \notin io'.pevents[h] /\ ("in" \in io'.pevents[h] => "in" \in io.pevents[h])
      BY <3>2
    <3>4. SendsOf(h) = <<>>
      BY <1>1, <1>2, <2>2
    <3>5. UdpFits(h)'
      BY <1>1, <1>2, <1>3, <2>2, <3>3, <3>4 DEF UdpFits
    <3> QED BY <3>2, <3>5
  <2> QED BY <2>1, <2>2
<1>6. ASSUME NEW f \in Fds, io'.watchers[f] = h PROVE CanTake(h, batch[f])'
  <2>1. h # None /\ IoFit(io', Handles)
    BY <1>1, <1>5 DEF OnlyHandle
  <2>2. io.fd[h] = f
    BY <1>5, <1>6, <2>1 DEF IoFit, WatchersFit, CalledFits
  <2>3. f # None /\ batch[f] = {}
    BY <1>1, <1>2, <2>2 DEF FrameFits
  <2> QED BY <1>2, <2>3 DEF CanTake
<1> QED BY <1>2, <1>3, <1>4, <1>5, <1>6, UdpStepFits

(* The end of uv__udp_finish_close()                                       *)
LEMMA UdpFinishedFits ==
  ASSUME SocketsInv, NEW h \in Udps, UdpFinished(h)
  PROVE  SocketsInv'
<1>1. /\ LoopFits /\ FrameFits /\ IoFit(io, Handles) /\ h \in Handles /\ SendsFit /\ UdpFits(h)
      /\ HandlesFit(hs, Handles) /\ h \notin Polls
      /\ SendsOf(h) = <<>> <=> completed[h] = <<>> /\ write_queue[h] = <<>>
      /\ SendsOf(h) = <<>> <=> Uncalled(h) = {}
  BY SendsAreSends DEF SocketsInv, LoopFits
<1>2. /\ frame.at = "finish" /\ frame.h = h /\ Uncalled(h) = {}
      /\ hs' = [hs EXCEPT !.flags[h] = {}] /\ receiving' = receiving \ {h}
      /\ frame' = [frame EXCEPT !.at = "closed"]
      /\ UNCHANGED <<io, reqs, phase, batch, write_queue, completed>>
  BY DEF UdpFinished, At
<1>3. IsClosed(hs, h) /\ phase = "closing"
  BY <1>1, <1>2 DEF FrameFits
<1>4. FitsWith(hs, Handles, h, {}, hs')
  BY <1>1, <1>2, <1>3, ClearedFits
<1>5. io.pevents[h] = {} /\ \A f \in Fds : io.watchers[f] # h
  BY <1>1, <1>3, ClosedIsDeaf
<1>6. OnlyHandle(h)
  BY <1>1, <1>2, <1>4 DEF OnlyHandle, FitsWith
<1>7. HandleFits(h)'
  BY <1>1, <1>2, <1>4, <1>5 DEF HandleFits, FitsWith, IsActive
<1>8. OnlyUdp(h) /\ SendsFit' /\ SendsOf(h)' = SendsOf(h)
  <2>1. receiving' \subseteq Udps
    BY <1>1, <1>2 DEF SendsFit
  <2> QED BY <1>1, <1>2, <2>1, SendsKept DEF OnlyUdp
<1>9. frame' \in Frames /\ frame'.at = "closed" /\ frame'.h = h
  BY <1>2, NextLabel DEF Labels
<1>10. FrameFits' /\ UnderWayFits'
  BY <1>1, <1>2, <1>3, <1>9 DEF FrameFits, UnderWayFits
<1>11. UdpFits(h)'
  BY <1>1, <1>2, <1>4, <1>5, <1>8 DEF UdpFits, FitsWith, UdpUsable
<1>12. \A f \in Fds : io'.watchers[f] = h => CanTake(h, batch[f])'
  BY <1>2, <1>5
<1> QED BY <1>2, <1>6, <1>7, <1>8, <1>9, <1>10, <1>11, <1>12, UdpStepFits

LEMMA UdpStepKeeps ==
  ASSUME SocketsInv, UdpStep
  PROVE  SocketsInv'
<1>1. PICK h \in Udps :
        \/ Recv(h) \/ RecvDone(h) \/ NoSend(h) \/ SendQueued(h) \/ CallSent(h)
        \/ SendDone(h) \/ CancelSend(h) \/ UdpFinished(h)
  BY DEF UdpStep
<1>2. CASE Recv(h) \/ RecvDone(h) \/ NoSend(h) \/ SendQueued(h)
  BY <1>2, RecvFits, NoSendFits, SendQueuedFits
<1>3. CASE CallSent(h) \/ SendDone(h) \/ CancelSend(h) \/ UdpFinished(h)
  BY <1>3, CallSentFits, SendDoneFits, CancelSendFits, UdpFinishedFits
<1> QED BY <1>1, <1>2, <1>3

(* A poll handle has nothing to finish.                                    *)
LEMMA PollFinishedFits ==
  ASSUME SocketsInv, NEW h \in Polls, PollFinished(h), UNCHANGED udpVars
  PROVE  SocketsInv'
<1>1. LoopFits /\ FrameFits /\ h \notin Udps
  BY DEF SocketsInv
<1>2. /\ frame.at = "finish" /\ frame.h = h /\ frame' = [frame EXCEPT !.at = "closed"]
      /\ UNCHANGED <<hs, io, reqs, phase, batch, user, calls>>
  BY DEF PollFinished, At
<1>3. frame' \in Frames /\ frame'.at = "closed" /\ frame'.h = h
  BY <1>2, NextLabel DEF Labels
<1>4. FrameFits' /\ UnderWayFits'
  BY <1>1, <1>2, <1>3 DEF FrameFits, UnderWayFits
<1>5. (phase' # "closing" => hs.doomed = <<>>) /\ (phase' # "batch" => batch = NoBatch)
  BY <1>1, <1>2 DEF LoopFits
<1> QED BY <1>2, <1>3, <1>4, <1>5, FrameOnly

LEMMA PollStepKeeps ==
  ASSUME SocketsInv, PollStep, UNCHANGED udpVars
  PROVE  SocketsInv'
BY PollIoFits, PollFinishedFits DEF PollStep

-----------------------------------------------------------------------------
(* Steps of uv_run() that are not in a function of a handle's type.        *)
LEMMA LoopStepFits ==
  ASSUME SocketsInv, frame.at # "completed", UNCHANGED <<reqs, udpVars>>,
         HandlesFit(hs', Handles), IoFit(io', Handles), io'.pending = <<>>,
         io'.pevents = io.pevents, \A h \in Handles : HandleFits(h)',
         \A h \in Udps : /\ hs'.flags[h] = {} => hs.flags[h] = {}
                         /\ UdpUsable(h)' => UdpUsable(h),
         phase' # "closing" => hs'.doomed = <<>>,
         batch' \in [Fds -> SUBSET Events], phase' # "batch" => batch' = NoBatch,
         frame' \in Frames, FrameFits', UnderWayFits', \A f \in Fds : BatchFits(f)'
  PROVE  SocketsInv'
<1>1. SendsFit /\ UNCHANGED <<write_queue, completed, receiving>>
  BY DEF SocketsInv, udpVars
<1>2. LoopFits'
  BY DEF LoopFits, NoBatch
<1>3. SendsFit' /\ \A h \in Udps : SendsOf(h)' = SendsOf(h)
  BY <1>1, SendsKept DEF SendsFit
<1>4. ASSUME NEW h \in Udps PROVE UdpFits(h)'
  <2>1. UdpFits(h) /\ ~InCompleted(h)
    BY DEF SocketsInv, InCompleted
  <2> QED BY <1>1, <1>3, <2>1 DEF UdpFits
<1> QED BY <1>2, <1>3, <1>4 DEF SocketsInv

(* Without a watcher of a descriptor no watcher is in the queue.           *)
LEMMA NoneQueued ==
  ASSUME NEW W, NEW I, IoFit(I, W), None \notin W, \A f \in Fds : I.watchers[f] = None
  PROVE  I.queue = {}
<1>1. SUFFICES ASSUME NEW w \in I.queue PROVE FALSE
  OBVIOUS
<1>2. w \in W
  BY WatchersTypes DEF IoFit
<1>3. I.pevents[w] # {}
  BY <1>2 DEF IoFit, KernelFits, ToldFits
<1>4. I.fd[w] # None /\ I.watchers[I.fd[w]] = w
  BY <1>2, <1>3 DEF IoFit, WatchersFit, WantsFits
<1>5. I.fd[w] \in Fds
  BY <1>2, <1>4, OneWatcher
<1> QED BY <1>2, <1>4, <1>5

(* The start of uv__io_poll(): a handle that waits for an event can take   *)
(* what epoll reports.                                                     *)
LEMMA PollFits ==
  ASSUME SocketsInv, Poll, UNCHANGED udpVars
  PROVE  SocketsInv'
<1>1. /\ LoopFits /\ FrameFits /\ IoFit(io, Handles) /\ HandlesFit(hs, Handles)
      /\ io.pending = <<>> /\ batch \in [Fds -> SUBSET Events] /\ frame \in Frames
      /\ \A h \in Handles : HandleFits(h)
  BY DEF SocketsInv, LoopFits
<1>2. /\ phase = "pending" /\ frame.at = "none" /\ ~user /\ phase' = "batch"
      /\ UNCHANGED <<hs, reqs, frame, user>>
      /\ IF \A f \in Fds : io.watchers[f] = None
         THEN /\ io' = Asserting(io, io.queue = {})
              /\ UNCHANGED batch
         ELSE /\ io' = Arm(io, Faulty)
              /\ batch' \in [Fds -> SUBSET Events]
              /\ \A f \in Fds : batch'[f] \subseteq io'.epoll[f]
  BY DEF Poll, At
<1>3. /\ IoFit(io', Handles) /\ io'.fd = io.fd /\ io'.pending = io.pending
      /\ io'.pevents = io.pevents /\ batch' \in [Fds -> SUBSET Events]
      /\ \A f \in Fds : BatchFits(f)'
  <2>1. CASE \A f \in Fds : io.watchers[f] = None
    <3>1. None \notin Handles
      OBVIOUS
    <3>2a. io.queue = {}
      BY <1>1, <2>1, <3>1, NoneQueued
    <3>2b. (io.queue = {}) = TRUE
      BY <3>2a
    <3>2c. Asserting(io, io.queue = {}) = io
      BY <1>1, <3>2b, AssertionHolds
    <3>2. io' = io
      BY <1>2, <2>1, <3>2c, Zenon
    <3>3. None \notin Udps
      OBVIOUS
    <3> QED BY <1>1, <1>2, <2>1, <3>2, <3>3 DEF BatchFits
  <2>2. CASE ~\A f \in Fds : io.watchers[f] = None
    <3>1. /\ io' = Arm(io, Faulty) /\ batch' \in [Fds -> SUBSET Events]
          /\ \A f \in Fds : batch'[f] \subseteq io'.epoll[f]
      BY <1>2, <2>2
    <3>2. /\ IoFit(io', Handles) /\ io'.fd = io.fd /\ io'.pending = io.pending
          /\ io'.pevents = io.pevents /\ io'.watchers = io.watchers
          /\ \A w \in Handles : io.pevents[w] # {} =>
               io'.epoll[io.fd[w]] \ {"err"} = io.pevents[w]
      BY <1>1, <3>1, ArmFits
    <3>3. ASSUME NEW f \in Fds PROVE BatchFits(f)'
      <4>1. SUFFICES ASSUME NEW h \in Udps, h = io.watchers[f] PROVE CanTake(h, batch[f])'
        BY <3>2 DEF BatchFits
      <4>2. h \in Handles /\ io.fd[h] = f /\ io.pevents[h] # {}
        BY <1>1, <4>1 DEF IoFit, WatchersFit, CalledFits
      <4>3. batch'[f] \ {"err"} \subseteq io.pevents[h]
        BY <3>1, <3>2, <4>2
      <4>4. /\ "in" \in batch'[f] => "in" \in io.pevents[h]
            /\ "out" \in batch'[f] => "out" \in io.pevents[h]
        BY <4>3
      <4>5. UdpFits(h) /\ ~InCompleted(h)
        BY <1>2 DEF SocketsInv, InCompleted
      <4> QED BY <4>4, <4>5 DEF UdpFits, CanTake, SendsOf, udpVars
    <3> QED BY <3>1, <3>2, <3>3
  <2> QED BY <2>1, <2>2
<1>4. ASSUME NEW h \in Handles PROVE HandleFits(h)'
  BY <1>1, <1>2, <1>3 DEF HandleFits, IsActive, IsUsable
<1>5. FrameFits' /\ UnderWayFits'
  BY <1>1, <1>2 DEF FrameFits, UnderWayFits
<1>6. phase' # "closing" => hs'.doomed = <<>>
  BY <1>1, <1>2 DEF LoopFits
<1> QED BY <1>1, <1>2, <1>3, <1>4, <1>5, <1>6, LoopStepFits DEF UdpUsable, IsUsable

(* The loop over the events of uv__io_poll()                               *)
LEMMA DispatchFits ==
  ASSUME SocketsInv, NEW f \in Fds, Dispatch(f), UNCHANGED udpVars
  PROVE  SocketsInv'
<1>1. /\ LoopFits /\ FrameFits /\ IoFit(io, Handles) /\ HandlesFit(hs, Handles)
      /\ io.pending = <<>> /\ batch \in [Fds -> SUBSET Events] /\ frame \in Frames
      /\ \A h \in Handles : HandleFits(h)
      /\ \A g \in Fds : BatchFits(g)
  BY DEF SocketsInv, LoopFits
<1>2. /\ phase = "batch" /\ frame.at = "none" /\ ~user
      /\ batch' = [batch EXCEPT ![f] = {}] /\ UNCHANGED <<hs, reqs, phase, user>>
      /\ IF io.watchers[f] = None
         THEN io' = Disarm(io, f) /\ UNCHANGED frame
         ELSE frame' = Frame("io", io.watchers[f], batch[f]) /\ UNCHANGED io
  BY DEF Dispatch, At
<1>3. /\ IoFit(io', Handles) /\ io'.fd = io.fd /\ io'.pending = io.pending
      /\ io'.pevents = io.pevents /\ io'.watchers = io.watchers
  BY <1>1, <1>2, DisarmFits
<1>4. /\ batch' \in [Fds -> SUBSET Events] /\ batch'[f] = {}
      /\ \A g \in Fds : batch'[g] \subseteq batch[g]
  BY <1>1, <1>2
<1>5. \A g \in Fds : BatchFits(g)'
  BY <1>1, <1>3, <1>4 DEF BatchFits, CanTake, SendsOf, udpVars
<1>6. ASSUME NEW h \in Handles PROVE HandleFits(h)'
  BY <1>1, <1>2, <1>3 DEF HandleFits, IsActive, IsUsable
<1>7. frame' \in Frames /\ FrameFits' /\ UnderWayFits'
  <2>1. CASE io.watchers[f] = None
    BY <1>1, <1>2, <2>1 DEF FrameFits, UnderWayFits
  <2>2. CASE io.watchers[f] # None
    <3>1. PICK h \in Handles : h = io.watchers[f]
      BY <1>1, <2>2, WatchersTypes DEF IoFit
    <3>2. io.fd[h] = f /\ io' = io /\ frame' = Frame("io", h, batch[f])
      BY <1>1, <1>2, <2>2, <3>1 DEF IoFit, WatchersFit, CalledFits
    <3>3. /\ frame' \in Frames /\ frame'.at = "io" /\ frame'.h = h
          /\ frame'.evs = batch[f]
      BY <1>1, <3>2 DEF Frame, Frames, Labels
    <3>4. FrameFits'
      BY <1>2, <1>4, <3>1, <3>2, <3>3 DEF FrameFits
    <3>5. UnderWayFits'
      <4>1. h \in Udps => CanTake(h, batch[f])
        BY <1>1, <3>1 DEF BatchFits
      <4> QED BY <3>3, <4>1 DEF UnderWayFits, CanTake, SendsOf, udpVars
    <3> QED BY <3>3, <3>4, <3>5
  <2> QED BY <2>1, <2>2
<1>8. phase' # "closing" => hs'.doomed = <<>>
  BY <1>1, <1>2 DEF LoopFits
<1> QED BY <1>1, <1>2, <1>3, <1>4, <1>5, <1>6, <1>7, <1>8, LoopStepFits DEF UdpUsable, IsUsable

(* uv__run_closing_handles() takes the list, ...                           *)
LEMMA RunClosingFits ==
  ASSUME SocketsInv, RunClosing, UNCHANGED udpVars
  PROVE  SocketsInv'
<1>1. /\ LoopFits /\ FrameFits /\ IoFit(io, Handles) /\ HandlesFit(hs, Handles)
      /\ io.pending = <<>> /\ batch \in [Fds -> SUBSET Events] /\ frame \in Frames
      /\ \A h \in Handles : HandleFits(h)
      /\ \A f \in Fds : BatchFits(f)
  BY DEF SocketsInv, LoopFits
<1>2. /\ phase = "check" /\ frame.at = "none" /\ phase' = "closing" /\ hs' = TakeClosing(hs)
      /\ UNCHANGED <<io, reqs, batch, frame, user>>
  BY DEF RunClosing, At
<1>3. hs.doomed = <<>> /\ batch = NoBatch
  BY <1>1, <1>2 DEF LoopFits
<1>4. HandlesFit(hs', Handles) /\ hs'.flags = hs.flags
  BY <1>1, <1>2, <1>3, TakenFits
<1>5. ASSUME NEW h \in Handles PROVE HandleFits(h)'
  BY <1>1, <1>2, <1>4 DEF HandleFits, IsActive, IsUsable
<1>6. FrameFits' /\ UnderWayFits'
  BY <1>1, <1>2 DEF FrameFits, UnderWayFits
<1>7. \A f \in Fds : BatchFits(f)'
  BY <1>1, <1>2 DEF BatchFits, CanTake, SendsOf, udpVars
<1> QED BY <1>1, <1>2, <1>3, <1>4, <1>5, <1>6, <1>7, LoopStepFits DEF UdpUsable, IsUsable

(* ... and calls uv__finish_close() for the first.                         *)
LEMMA StartFinishFits ==
  ASSUME SocketsInv, StartFinish, UNCHANGED udpVars
  PROVE  SocketsInv'
<1>1. /\ LoopFits /\ FrameFits /\ IoFit(io, Handles) /\ HandlesFit(hs, Handles)
      /\ io.pending = <<>> /\ batch \in [Fds -> SUBSET Events] /\ frame \in Frames
      /\ \A h \in Handles : HandleFits(h)
      /\ \A f \in Fds : BatchFits(f)
  BY DEF SocketsInv, LoopFits
<1> DEFINE p == Head(hs.doomed)
<1>2. /\ phase = "closing" /\ frame.at = "none" /\ hs.doomed # <<>>
      /\ hs' = FinishClose(hs) /\ frame' = Frame("finish", p, {})
      /\ UNCHANGED <<io, reqs, phase, batch, user>>
  BY DEF StartFinish, At
<1>3. HandlesFit(hs', Handles) /\ p \in Handles /\ FinishedWith(hs, Handles, p, hs')
  BY <1>1, <1>2, FinishedFits
<1> HIDE DEF p
<1>4. /\ hs'.flags[p] = (hs.flags[p] \cup {"closed"}) \ {"ref"}
      /\ "closing" \in hs.flags[p]
      /\ \A g \in Handles : g # p => hs'.flags[g] = hs.flags[g]
  BY <1>3 DEF FinishedWith, IsClosing
<1>5. ASSUME NEW h \in Handles PROVE HandleFits(h)'
  <2>1. HandleFits(h)
    BY <1>1
  <2>2. CASE h = p
    BY <1>2, <1>4, <2>1, <2>2 DEF HandleFits, IsActive, IsUsable
  <2>3. CASE h # p
    BY <1>2, <1>4, <2>1, <2>3 DEF HandleFits, IsActive, IsUsable
  <2> QED BY <2>2, <2>3
<1>6. ASSUME NEW h \in Udps
      PROVE  /\ hs'.flags[h] = {} => hs.flags[h] = {}
             /\ UdpUsable(h)' => UdpUsable(h)
  <2>1. CASE h = p
    BY <1>4, <2>1 DEF UdpUsable, IsUsable
  <2>2. CASE h # p
    BY <1>4, <2>2 DEF UdpUsable, IsUsable
  <2> QED BY <2>1, <2>2
<1>7. /\ frame' \in Frames /\ frame'.at = "finish" /\ frame'.h = p
  BY <1>2, <1>3 DEF Frame, Frames, Labels
<1>8. IsClosed(hs', p)
  BY <1>4 DEF IsClosed
<1>9. FrameFits' /\ UnderWayFits'
  BY <1>2, <1>3, <1>7, <1>8 DEF FrameFits, UnderWayFits
<1>10. \A f \in Fds : BatchFits(f)'
  BY <1>1, <1>2 DEF BatchFits, CanTake, SendsOf, udpVars
<1>11. phase' # "batch" => batch' = NoBatch
  BY <1>1, <1>2 DEF LoopFits
<1> QED BY <1>1, <1>2, <1>3, <1>5, <1>6, <1>7, <1>9, <1>10, <1>11, LoopStepFits

(* The steps between the phases of uv_run()                                *)
LEMMA PhaseFits ==
  ASSUME SocketsInv, RunLoop \/ RunCheck \/ EndIteration \/ CallClosed, UNCHANGED udpVars
  PROVE  SocketsInv'
<1>1. LoopFits /\ FrameFits /\ UnderWayFits /\ frame \in Frames
  BY DEF SocketsInv, LoopFits
<1>2. UNCHANGED <<hs, io, reqs, batch, udpVars>>
  BY DEF RunLoop, RunCheck, EndIteration, CallClosed
<1>3. CASE RunLoop
  <2>1. phase = "out" /\ phase' = "pending" /\ user' = FALSE /\ frame' = frame
    BY <1>3 DEF RunLoop
  <2>2. frame.at = "none" /\ hs.doomed = <<>> /\ batch = NoBatch
    BY <1>1, <2>1 DEF LoopFits, FrameFits, Frames, Labels
  <2>3. FrameFits' /\ UnderWayFits'
    BY <2>1, <2>2 DEF FrameFits, UnderWayFits
  <2> QED BY <1>1, <1>2, <2>1, <2>2, <2>3, FrameOnly
<1>4. CASE RunCheck
  <2>1. /\ phase = "batch" /\ phase' = "check" /\ frame' = frame /\ frame.at = "none"
        /\ batch = NoBatch
    BY <1>4 DEF RunCheck, At
  <2>2. hs.doomed = <<>>
    BY <1>1, <2>1 DEF LoopFits
  <2>3. FrameFits' /\ UnderWayFits'
    BY <2>1 DEF FrameFits, UnderWayFits
  <2> QED BY <1>1, <1>2, <2>1, <2>2, <2>3, FrameOnly
<1>5. CASE EndIteration
  <2>1. phase = "closing" /\ frame' = frame /\ frame.at = "none" /\ hs.doomed = <<>>
    BY <1>5 DEF EndIteration, At
  <2>2. batch = NoBatch
    BY <1>1, <2>1 DEF LoopFits
  <2>3. FrameFits' /\ UnderWayFits'
    BY <2>1 DEF FrameFits, UnderWayFits
  <2> QED BY <1>1, <1>2, <2>1, <2>2, <2>3, FrameOnly
<1>6. CASE CallClosed
  <2>1. phase' = phase /\ frame' = NoFrame /\ frame.at = "closed"
    BY <1>6 DEF CallClosed, At
  <2>2. FrameFits' /\ UnderWayFits'
    BY <2>1, NoFrameFits DEF FrameFits, UnderWayFits
  <2>3. (phase' # "closing" => hs.doomed = <<>>) /\ (phase' # "batch" => batch = NoBatch)
    BY <1>1, <2>1 DEF LoopFits
  <2> QED BY <1>2, <2>1, <2>2, <2>3, NoFrameFits, FrameOnly
<1> QED BY <1>3, <1>4, <1>5, <1>6

(* A callback of the program returns.                                      *)
LEMMA ReturnFits ==
  ASSUME SocketsInv, Return, UNCHANGED udpVars
  PROVE  SocketsInv'
<1>1. LoopFits /\ FrameFits /\ UnderWayFits /\ frame \in Frames
  BY DEF SocketsInv, LoopFits
<1>2. UNCHANGED <<hs, io, reqs, phase, batch, frame, udpVars>> /\ user' = FALSE
  BY DEF Return
<1>3. FrameFits'
  BY <1>1, <1>2 DEF FrameFits
<1>4. UnderWayFits'
  BY <1>1, <1>2 DEF UnderWayFits, CanTake, SendsOf, udpVars
<1>5. (phase' # "closing" => hs.doomed = <<>>) /\ (phase' # "batch" => batch = NoBatch)
  BY <1>1, <1>2 DEF LoopFits
<1> QED BY <1>1, <1>2, <1>3, <1>4, <1>5, FrameOnly

LEMMA LoopStepKeeps ==
  ASSUME SocketsInv, LoopStep \/ Return, UNCHANGED udpVars
  PROVE  SocketsInv'
<1>1. ~TakePending
  BY DEF TakePending, SocketsInv, LoopFits
<1>2. CASE RunLoop \/ RunCheck \/ EndIteration \/ CallClosed \/ Return
  BY <1>2, PhaseFits, ReturnFits
<1>3. CASE Poll \/ (\E f \in Fds : Dispatch(f)) \/ RunClosing \/ StartFinish
  BY <1>3, PollFits, DispatchFits, RunClosingFits, StartFinishFits
<1> QED BY <1>1, <1>2, <1>3 DEF LoopStep

-----------------------------------------------------------------------------
(* The start: nothing is watched, and the poll handles have their          *)
(* descriptors.                                                            *)
LEMMA NothingWatched ==
  ASSUME LoopInit
  PROVE  /\ IoFit(io, Handles) /\ io.pending = <<>> /\ \A f \in Fds : io.watchers[f] = None
         /\ \A h \in Handles : io.pevents[h] = {}
         /\ \A h \in DOMAIN FdOf : io.fd[h] = FdOf[h]
         /\ \A h \in Handles \ DOMAIN FdOf : io.fd[h] = None
         /\ io.open = {FdOf[h] : h \in DOMAIN FdOf} /\ \A f \in Fds : io.epoll[f] = {}
<1> DEFINE N   == NoWatchers(Handles)
           own == [h \in Handles |-> IF h \in DOMAIN FdOf THEN FdOf[h] ELSE None]
           fds == {FdOf[h] : h \in DOMAIN FdOf}
<1>1. io = [N EXCEPT !.fd = own, !.open = fds]
  BY DEF LoopInit
<1>2. /\ N \in WatchersOf(Handles) /\ N.fd = [h \in Handles |-> None]
      /\ N.pevents = [h \in Handles |-> {}] /\ N.events = [h \in Handles |-> {}]
      /\ N.queue = {} /\ N.pending = <<>> /\ N.watchers = [f \in Fds |-> None] /\ N.ok
      /\ N.epoll = [f \in Fds |-> {}]
  BY DEF NoWatchers, WatchersOf, Events
<1>3. /\ own \in [Handles -> Fds \cup {None}] /\ fds \in SUBSET Fds
      /\ \A h \in Handles : own[h] = IF h \in DOMAIN FdOf THEN FdOf[h] ELSE None
  OBVIOUS
<1> HIDE DEF N, own, fds
<1>4. /\ io \in WatchersOf(Handles) /\ io.fd = own /\ io.open = fds
      /\ io.pevents = N.pevents /\ io.events = N.events /\ io.queue = N.queue
      /\ io.pending = N.pending /\ io.watchers = N.watchers /\ io.ok = N.ok
      /\ io.epoll = N.epoll
  BY <1>1, <1>2, <1>3 DEF WatchersOf
<1>5. FdsAreOwn(io, Handles)
  <2>1. ASSUME NEW h \in Handles, io.fd[h] # None
        PROVE  h \in DOMAIN FdOf /\ io.fd[h] = FdOf[h] /\ io.fd[h] \in io.open
    BY <1>3, <1>4, <2>1 DEF fds
  <2>2. ASSUME NEW v \in Handles, NEW w \in Handles, io.fd[v] # None, io.fd[v] = io.fd[w]
        PROVE  v = w
    BY <2>1, <2>2
  <2> QED BY <2>1, <2>2 DEF FdsAreOwn
<1>6. WatchersFit(io, Handles) /\ KernelFits(io, Handles)
  BY <1>2, <1>4 DEF WatchersFit, CalledFits, WantsFits, KernelFits, ToldFits
<1>7. IoFit(io, Handles)
  BY <1>2, <1>4, <1>5, <1>6 DEF IoFit
<1>8. io.open = {FdOf[h] : h \in DOMAIN FdOf}
  BY <1>4 DEF fds
<1> QED BY <1>2, <1>3, <1>4, <1>7, <1>8

LEMMA FreshFits == HandlesFit(Fresh(Handles), Handles)
<1> DEFINE H == Fresh(Handles)
<1>1. CountsItsHandles(H, Handles)
  BY FreshCounts
<1>2. /\ H.flags = [h \in Handles |-> {"ref"}] /\ H.closing = <<>> /\ H.doomed = <<>>
  BY DEF Fresh
<1> HIDE DEF H
<1>3. ToSet(H.closing) = {} /\ ToSet(H.doomed) = {}
  BY <1>2 DEF ToSet
<1>4. IsInjective(H.closing) /\ IsInjective(H.doomed)
  BY <1>2 DEF IsInjective
<1>5. FlagsFit(H, Handles) /\ ListsFit(H, Handles)
  BY <1>2, <1>3, <1>4 DEF FlagsFit, ListsFit, IsClosed, IsUsable, IsActive, IsClosing
<1> QED BY <1>1, <1>5 DEF HandlesFit, H

LEMMA SocketsInitFits == SocketsInit => SocketsInv
<1> SUFFICES ASSUME SocketsInit PROVE SocketsInv
  OBVIOUS
<1>1. /\ LoopInit /\ hs = Fresh(Handles) /\ reqs = {} /\ phase = "out" /\ batch = NoBatch
      /\ frame = NoFrame /\ user = TRUE
      /\ write_queue = [h \in Udps |-> <<>>] /\ completed = write_queue /\ receiving = {}
  BY DEF SocketsInit, LoopInit, UdpInit
<1>2. /\ IoFit(io, Handles) /\ io.pending = <<>> /\ \A f \in Fds : io.watchers[f] = None
      /\ \A h \in Handles : io.pevents[h] = {}
      /\ \A h \in DOMAIN FdOf : io.fd[h] = FdOf[h]
  BY <1>1, NothingWatched
<1>3. HandlesFit(hs, Handles) /\ hs.doomed = <<>> /\ \A h \in Handles : hs.flags[h] = {"ref"}
  BY <1>1, FreshFits DEF Fresh
<1>4. ASSUME NEW h \in Handles PROVE HandleFits(h)
  BY <1>2, <1>3 DEF HandleFits, IsActive
<1>5. LoopFits /\ FrameFits /\ UnderWayFits
  BY <1>1, <1>2, <1>3, <1>4, NoFrameFits DEF LoopFits, FrameFits, UnderWayFits, NoBatch
<1>6. ASSUME NEW h \in Udps
      PROVE  /\ SendsOf(h) = <<>> /\ Uncalled(h) = {} /\ IsInjective(SendsOf(h))
             /\ write_queue[h] = <<>>
  <2>1. SendsOf(h) = <<>>
    BY <1>1 DEF SendsOf
  <2> QED BY <1>1, <2>1 DEF Uncalled, ToSet, IsInjective
<1>7. SendsFit
  <2>1. UNION {Uncalled(h) : h \in Udps} = {}
    BY <1>6
  <2> QED BY <1>1, <1>6, <2>1 DEF SendsFit
<1>8. \A h \in Udps : UdpFits(h)
  BY <1>2, <1>6 DEF UdpFits
<1>9. \A f \in Fds : BatchFits(f)
  BY <1>2 DEF BatchFits
<1> QED BY <1>5, <1>7, <1>8, <1>9 DEF SocketsInv

LEMMA SocketsStand ==
  ASSUME SocketsInv, UNCHANGED socketVars
  PROVE  SocketsInv'
<1>1. /\ UNCHANGED <<hs, io, reqs, phase, batch, frame, user, udpVars>>
      /\ LoopFits /\ FrameFits /\ UnderWayFits
  BY DEF socketVars, loopVars, SocketsInv
<1>2. frame' \in Frames /\ FrameFits'
  BY <1>1 DEF LoopFits, FrameFits
<1>3. UnderWayFits'
  BY <1>1 DEF UnderWayFits, CanTake, SendsOf, udpVars
<1>4. (phase' # "closing" => hs.doomed = <<>>) /\ (phase' # "batch" => batch = NoBatch)
  BY <1>1 DEF LoopFits
<1> QED BY <1>1, <1>2, <1>3, <1>4, FrameOnly

LEMMA SocketsNextKeeps ==
  ASSUME {"rebind", "reuse", "cross"} \cap Habits = {}, SocketsInv, [SocketsNext]_socketVars
  PROVE  SocketsInv'
<1>1. CASE UNCHANGED socketVars
  BY <1>1, SocketsStand
<1>2. CASE (LoopStep \/ Return \/ PollCall \/ PollStep) /\ UNCHANGED udpVars
  BY <1>2, LoopStepKeeps, PollCallKeeps, PollStepKeeps
<1>3. CASE UdpCall \/ UdpStep
  BY <1>3, UdpCallKeeps, UdpStepKeeps
<1> QED BY <1>1, <1>2, <1>3 DEF SocketsNext

-----------------------------------------------------------------------------
(* What follows for the watchers, the requests and their callbacks.        *)
LEMMA FitWatchers == SocketsInv => WatchersAgree
<1> SUFFICES ASSUME SocketsInv PROVE WatchersAgree
  OBVIOUS
<1>1. /\ HandlesFit(hs, Handles) /\ IoFit(io, Handles) /\ io.pending = <<>>
      /\ \A h \in Handles : HandleFits(h)
  BY DEF SocketsInv, LoopFits
<1>2. io \in WatchersOf(Handles) /\ io.ok /\ io.watchers \in [Fds -> Handles \cup {None}]
  BY <1>1, WatchersTypes DEF IoFit
<1>3. ASSUME NEW f \in Fds, io.watchers[f] # None
      PROVE  /\ io.fd[io.watchers[f]] = f /\ io.pevents[io.watchers[f]] # {}
             /\ IsUsable(hs, io.watchers[f])
  <2>1. io.watchers[f] \in Handles
    BY <1>2, <1>3
  <2>2. io.fd[io.watchers[f]] = f /\ io.pevents[io.watchers[f]] # {}
    BY <1>1, <1>3 DEF IoFit, WatchersFit, CalledFits
  <2>3. IsActive(hs, io.watchers[f])
    BY <1>1, <2>1, <2>2 DEF HandleFits
  <2> QED BY <1>1, <2>1, <2>2, <2>3 DEF HandlesFit, FlagsFit
<1>4. ASSUME NEW h \in Handles, io.pevents[h] # {}
      PROVE  /\ io.watchers[io.fd[h]] = h
             /\ h \in io.queue \/ io.epoll[io.fd[h]] \ {"err"} = io.pevents[h]
  BY <1>1, <1>4 DEF IoFit, WatchersFit, WantsFits, KernelFits, ToldFits
<1>5. \A i \in DOMAIN io.pending : IsUsable(hs, io.pending[i])
  BY <1>1
<1> QED BY <1>2, <1>3, <1>4, <1>5 DEF WatchersAgree

LEMMA FitSends == SocketsInv => SendsAreWatched
<1> SUFFICES ASSUME SocketsInv PROVE SendsAreWatched
  OBVIOUS
<1>1. /\ IoFit(io, Handles) /\ SendsFit /\ \A h \in Handles : HandleFits(h)
  BY DEF SocketsInv, LoopFits
<1>2. ASSUME NEW h \in Udps, UdpUsable(h), write_queue[h] # <<>>
      PROVE  IoActive(io, h, {"out"}) /\ IsActive(hs, h)
  <2>1. "out" \in io.pevents[h]
    BY <1>2 DEF SocketsInv, UdpFits
  <2> QED BY <1>1, <2>1 DEF IoActive, HandleFits
<1>3. ASSUME NEW h \in Handles
      PROVE  IsActive(hs, h) <=> IoActive(io, h, {"in", "out"})
  <2>1. io.pevents[h] \subseteq {"in", "out"}
    BY <1>1, WatchersTypes DEF IoFit
  <2> QED BY <1>1, <2>1 DEF HandleFits, IoActive
<1> QED BY <1>1, <1>2, <1>3 DEF SendsAreWatched, SendsFit

(* What a step may do to the requests of h.                                *)
SendsGoOn(h) ==
  \/ \E new \in {<<>>} \cup {<<r>> : r \in Sends} : SendsOf(h)' = SendsOf(h) \o new
  \/ SendsOf(h) # <<>> /\ SendsOf(h)' = Tail(SendsOf(h))

LEMMA SendsStay ==
  ASSUME SendsFit, NEW h \in Udps, SendsOf(h)' = SendsOf(h)
  PROVE  SendsGoOn(h)
<1>1. SendsOf(h) \in Seq(Sends)
  BY SendsAreSends
<1>2. SendsOf(h) \o <<>> = SendsOf(h)
  BY <1>1, ConcatEmptySeq
<1>3. SendsOf(h)' = SendsOf(h) \o <<>>
  BY <1>2
<1> QED BY <1>3, Zenon DEF SendsGoOn

LEMMA OthersStay ==
  ASSUME SendsFit, NEW h \in Udps, OnlyUdp(h), SendsGoOn(h)
  PROVE  \A g \in Udps : SendsGoOn(g)
<1>1. ASSUME NEW g \in Udps, g # h PROVE SendsOf(g)' = SendsOf(g)
  BY <1>1 DEF OnlyUdp, SendsOf
<1> QED BY <1>1, SendsStay

LEMMA SendsInOrder ==
  ASSUME {"rebind", "reuse", "cross"} \cap Habits = {}, SocketsInv, [SocketsNext]_socketVars
  PROVE  \A h \in Udps : SendsGoOn(h)
<1>1. SendsFit /\ {"reuse", "cross"} \cap Habits = {}
  BY DEF SocketsInv
<1>2. CASE UNCHANGED <<write_queue, completed>>
  <2>1. ASSUME NEW h \in Udps PROVE SendsOf(h)' = SendsOf(h)
    BY <1>2 DEF SendsOf
  <2> QED BY <1>1, <2>1, SendsStay
<1>3. ASSUME NEW h \in Udps, NEW f \in Fds, NEW r \in Sends, Send(h, r, f)
      PROVE  \A g \in Udps : SendsGoOn(g)
  <2>1. SendsOf(h)' = SendsOf(h) \o <<r>>
    BY <1>1, <1>3, SendFits
  <2>2. SendsGoOn(h)
    BY <2>1 DEF SendsGoOn
  <2>3. OnlyUdp(h)
    BY <1>1, <1>3 DEF Send, OnlyUdp, SendsFit
  <2> QED BY <1>1, <2>2, <2>3, OthersStay
<1>4. ASSUME NEW h \in Udps, SendQueued(h)
      PROVE  \A g \in Udps : SendsGoOn(g)
  <2>1. SendsOf(h)' = SendsOf(h)
    BY <1>4, SendQueuedFits
  <2>2. OnlyUdp(h)
    BY <1>1, <1>4 DEF SendQueued, RunPending, OnlyUdp, SendsFit
  <2>3. SendsGoOn(h)
    BY <1>1, <2>1, SendsStay
  <2> QED BY <1>1, <2>2, <2>3, OthersStay
<1>5. ASSUME NEW h \in Udps, CallSent(h) \/ CancelSend(h)
      PROVE  \A g \in Udps : SendsGoOn(g)
  <2>1. SendsOf(h) # <<>> /\ SendsOf(h)' = Tail(SendsOf(h)) /\ OnlyUdp(h)
    BY <1>5, CallSentFits, CancelSendFits
  <2>2. SendsGoOn(h)
    BY <2>1 DEF SendsGoOn
  <2> QED BY <1>1, <2>1, <2>2, OthersStay
<1>6. CASE UdpCall
  <2>1. PICK h \in Udps :
          \/ UdpInitialize(h) \/ BindFails(h) \/ RecvStop(h) \/ UdpClose(h)
          \/ \E f \in Fds : Bind(h, f) \/ RecvStart(h, f)
          \/ \E f \in Fds, r \in Sends : Send(h, r, f)
    BY <1>6 DEF UdpCall
  <2>2. CASE \/ UdpInitialize(h) \/ BindFails(h) \/ RecvStop(h) \/ UdpClose(h)
             \/ \E f \in Fds : Bind(h, f) \/ RecvStart(h, f)
    <3>1. UNCHANGED <<write_queue, completed>>
      BY <2>2 DEF UdpInitialize, BindFails, RecvStop, UdpClose, Bind, RecvStart, udpVars
    <3> QED BY <1>2, <3>1
  <2>3. CASE \E f \in Fds, r \in Sends : Send(h, r, f)
    BY <1>3, <2>3
  <2> QED BY <2>1, <2>2, <2>3
<1>7. CASE UdpStep
  <2>1. PICK h \in Udps :
          \/ Recv(h) \/ RecvDone(h) \/ NoSend(h) \/ SendQueued(h) \/ CallSent(h)
          \/ SendDone(h) \/ CancelSend(h) \/ UdpFinished(h)
    BY <1>7 DEF UdpStep
  <2>2. CASE Recv(h) \/ RecvDone(h) \/ NoSend(h) \/ SendDone(h) \/ UdpFinished(h)
    <3>1. UNCHANGED <<write_queue, completed>>
      BY <2>2 DEF Recv, RecvDone, NoSend, SendDone, UdpFinished, udpVars
    <3> QED BY <1>2, <3>1
  <2>3. CASE SendQueued(h) \/ CallSent(h) \/ CancelSend(h)
    BY <1>4, <1>5, <2>3
  <2> QED BY <2>1, <2>2, <2>3
<1>8. CASE UNCHANGED udpVars \/ UNCHANGED socketVars
  BY <1>2, <1>8 DEF udpVars, socketVars
<1> QED BY <1>6, <1>7, <1>8 DEF SocketsNext

-----------------------------------------------------------------------------
(* In every reachable state a handle waits for events only of a descriptor *)
(* that it alone has, the events to be dispatched can be taken by the      *)
(* handle that is to be called, and every request is in one queue.         *)
THEOREM SocketsKeepTheirWatchers ==
  ASSUME {"rebind", "reuse", "cross"} \cap Habits = {}
  PROVE  SocketsSpec => []SocketsInv
<1>1. SocketsInit => SocketsInv
  BY SocketsInitFits
<1>2. SocketsInv /\ [SocketsNext]_socketVars => SocketsInv'
  BY SocketsNextKeeps
<1> QED BY <1>1, <1>2, PTL DEF SocketsSpec

(* loop->watchers, the pevents of the watchers and the epoll set agree     *)
(* whatever callbacks stop, close and open, and no assertion about them    *)
(* fails, unless the program binds a handle twice, opens a socket with the *)
(* descriptor of an event to come or takes an event from another handle.   *)
THEOREM WatchersAgreeWithEpoll ==
  ASSUME {"rebind", "reuse", "cross"} \cap Habits = {}
  PROVE  SocketsSpec => []WatchersAgree
<1> QED BY FitWatchers, SocketsKeepTheirWatchers, PTL

(* A request of uv_udp_send() that is not sent waits for its socket or the *)
(* end of uv_close(), and the handle keeps the loop alive for it.          *)
THEOREM RequestsAreWatched ==
  ASSUME {"rebind", "reuse", "cross"} \cap Habits = {}
  PROVE  SocketsSpec => []SendsAreWatched
<1> QED BY FitSends, SocketsKeepTheirWatchers, PTL

(* send_cb is called once for each request and in their order, by          *)
(* uv__udp_run_completed() and by uv__udp_finish_close().                  *)
THEOREM SendsAreCalledInOrder ==
  ASSUME {"rebind", "reuse", "cross"} \cap Habits = {}
  PROVE  SocketsSpec => CalledInOrder
<1>1. SocketsInv /\ [SocketsNext]_socketVars =>
        \A h \in Udps :
          \/ \E new \in {<<>>} \cup {<<r>> : r \in Sends} :
               SendsOf(h)' = SendsOf(h) \o new
          \/ SendsOf(h) # <<>> /\ SendsOf(h)' = Tail(SendsOf(h))
  BY SendsInOrder DEF SendsGoOn
<1> QED BY <1>1, SocketsKeepTheirWatchers, PTL DEF SocketsSpec, CalledInOrder

-----------------------------------------------------------------------------
(* The requests of the program with streams.  Those of h, all of them:     *)
RequestsOf(h) ==
  ToSet(Outstanding(h)) \cup {ConnectReq(g) : g \in connect \cap {h}}
    \cup {ShutdownReq(g) : g \in shutdown \cap {h}}
NothingLeft(h) == wq[h] = <<>> /\ done[h] = <<>> /\ h \notin connect /\ h \notin shutdown

RequestTypes ==
  /\ wq \in [Streams -> Seq(Writes)] /\ done \in [Streams -> Seq(Writes)]
  /\ connect \subseteq Streams /\ shutdown \subseteq Streams

EachIsOfOne ==
  /\ reqs = UNION {RequestsOf(h) : h \in Streams}
  /\ \A h \in Streams : IsInjective(Outstanding(h))
  /\ \A g, h \in Streams : g # h => RequestsOf(g) \cap RequestsOf(h) = {}

(* uv__stream_destroy() is under way for h.                                *)
Finishing(h) == frame.at = "finish" /\ frame.h = h

(* A closed stream has no requests once uv__stream_destroy() is over.      *)
RequestsInv ==
  /\ HandlesFit(hs, Handles)
  /\ phase # "closing" => hs.doomed = <<>>
  /\ frame.at = "finish" => frame.h \in Handles /\ IsClosed(hs, frame.h)
  /\ RequestTypes /\ EachIsOfOne
  /\ \A h \in Streams : IsClosed(hs, h) /\ ~Finishing(h) => NothingLeft(h)

(* What a step for h may do to the handles and to the function under way.  *)
HandlesGoOn ==
  /\ HandlesFit(hs', Handles) /\ hs'.doomed = hs.doomed /\ phase' = phase
  /\ \A g \in Handles : IsClosed(hs', g) => IsClosed(hs, g)
ClosedStay == \A g \in Handles : IsClosed(hs, g) => IsClosed(hs', g)

FinishGoesOn(h) ==
  /\ frame'.at = "finish" =>
       frame.at = "finish" /\ frame'.h = frame.h /\ IsClosed(hs', frame.h)
  /\ frame.at = "finish" /\ frame'.at # "finish" => frame.h = h /\ NothingLeft(h)'

OnlyStream(h) == \A g \in Streams : g # h =>
  /\ wq'[g] = wq[g] /\ done'[g] = done[g]
  /\ g \in connect' <=> g \in connect
  /\ g \in shutdown' <=> g \in shutdown

LEMMA StreamsHaveTheirs ==
  ASSUME RequestTypes, NEW h \in Streams
  PROVE  /\ h \in Handles /\ wq[h] \in Seq(Writes) /\ done[h] \in Seq(Writes)
         /\ Outstanding(h) \in Seq(Writes)
         /\ ToSet(Outstanding(h)) = ToSet(done[h]) \cup ToSet(wq[h])
         /\ ToSet(Outstanding(h)) \subseteq Writes
         /\ Outstanding(h) = <<>> <=> wq[h] = <<>> /\ done[h] = <<>>
         /\ RequestsOf(h) = ToSet(Outstanding(h))
              \cup (IF h \in connect THEN {ConnectReq(h)} ELSE {})
              \cup (IF h \in shutdown THEN {ShutdownReq(h)} ELSE {})
<1>1. wq[h] \in Seq(Writes) /\ done[h] \in Seq(Writes) /\ h \in Handles
  BY DEF RequestTypes
<1>2. /\ Outstanding(h) \in Seq(Writes)
      /\ ToSet(Outstanding(h)) = ToSet(done[h]) \cup ToSet(wq[h])
      /\ Outstanding(h) = <<>> <=> wq[h] = <<>> /\ done[h] = <<>>
  BY <1>1, JoinedElements DEF Outstanding
<1>3. ToSet(Outstanding(h)) \subseteq Writes
  BY <1>2, QueueElements
<1>4. /\ {ConnectReq(g) : g \in connect \cap {h}} = IF h \in connect THEN {ConnectReq(h)} ELSE {}
      /\ {ShutdownReq(g) : g \in shutdown \cap {h}} = IF h \in shutdown THEN {ShutdownReq(h)} ELSE {}
  OBVIOUS
<1> QED BY <1>1, <1>2, <1>3, <1>4 DEF RequestsOf

(* The request of another stream is not one of h.                          *)
LEMMA RequestsDiffer ==
  ASSUME RequestTypes, NEW h \in Streams
  PROVE  /\ ConnectReq(h) \notin ToSet(Outstanding(h)) /\ ShutdownReq(h) \notin ToSet(Outstanding(h))
         /\ ConnectReq(h) # ShutdownReq(h)
         /\ \A g \in Streams : g # h =>
              ConnectReq(h) \notin RequestsOf(g) /\ ShutdownReq(h) \notin RequestsOf(g)
<1>1. ASSUME NEW g \in Streams
      PROVE  ConnectReq(h) \notin ToSet(Outstanding(g)) /\ ShutdownReq(h) \notin ToSet(Outstanding(g))
  <2>1. ToSet(Outstanding(g)) \subseteq Writes
    BY StreamsHaveTheirs
  <2> QED BY <2>1
<1>2. ASSUME NEW g \in Streams
      PROVE  /\ ConnectReq(h) # ShutdownReq(g) /\ ConnectReq(g) # ShutdownReq(h)
             /\ ConnectReq(h) = ConnectReq(g) => g = h
             /\ ShutdownReq(h) = ShutdownReq(g) => g = h
  BY DEF ConnectReq, ShutdownReq
<1>3. ASSUME NEW g \in Streams, g # h
      PROVE  ConnectReq(h) \notin RequestsOf(g) /\ ShutdownReq(h) \notin RequestsOf(g)
  <2>1. RequestsOf(g) = ToSet(Outstanding(g))
              \cup (IF g \in connect THEN {ConnectReq(g)} ELSE {})
              \cup (IF g \in shutdown THEN {ShutdownReq(g)} ELSE {})
    BY StreamsHaveTheirs
  <2>2. /\ ConnectReq(h) \notin ToSet(Outstanding(g)) /\ ShutdownReq(h) \notin ToSet(Outstanding(g))
        /\ ConnectReq(h) # ShutdownReq(g) /\ ConnectReq(g) # ShutdownReq(h)
        /\ ConnectReq(h) # ConnectReq(g) /\ ShutdownReq(h) # ShutdownReq(g)
    BY <1>1, <1>2, <1>3
  <2> QED BY <2>1, <2>2
<1> QED BY <1>1, <1>2, <1>3

(* The requests when those of h change.                                    *)
LEMMA OneHasOthers ==
  ASSUME EachIsOfOne, NEW h \in Streams, OnlyStream(h), IsInjective(Outstanding(h)'),
         NEW X, RequestsOf(h)' = X, X \cap (reqs \ RequestsOf(h)) = {},
         reqs' = (reqs \ RequestsOf(h)) \cup X
  PROVE  EachIsOfOne'
<1>1. ASSUME NEW g \in Streams, g # h
      PROVE  Outstanding(g)' = Outstanding(g) /\ RequestsOf(g)' = RequestsOf(g)
  <2>1. Outstanding(g)' = Outstanding(g)
    BY <1>1 DEF OnlyStream, Outstanding
  <2>2. connect' \cap {g} = connect \cap {g} /\ shutdown' \cap {g} = shutdown \cap {g}
    BY <1>1 DEF OnlyStream
  <2> QED BY <2>1, <2>2 DEF RequestsOf
<1>2. ASSUME NEW g \in Streams PROVE RequestsOf(g) \subseteq reqs
  BY DEF EachIsOfOne
<1>3. ASSUME NEW g \in Streams, g # h PROVE RequestsOf(g) \subseteq reqs \ RequestsOf(h)
  BY <1>2, <1>3 DEF EachIsOfOne
<1>4. ASSUME NEW x PROVE x \in reqs' <=> \E g \in Streams : x \in RequestsOf(g)'
  <2>1. CASE x \in X
    BY <2>1
  <2>2. CASE x \notin X
    <3>1. x \in reqs' <=> x \in reqs /\ x \notin RequestsOf(h)
      BY <2>2
    <3>2. x \in reqs <=> \E g \in Streams : x \in RequestsOf(g)
      BY DEF EachIsOfOne
    <3>3. ASSUME x \in reqs' PROVE \E g \in Streams : x \in RequestsOf(g)'
      <4>1. PICK g \in Streams : x \in RequestsOf(g)
        BY <3>1, <3>2, <3>3
      <4>2. g # h
        BY <3>1, <3>3, <4>1
      <4> QED BY <1>1, <4>1, <4>2
    <3>4. ASSUME NEW g \in Streams, x \in RequestsOf(g)' PROVE x \in reqs'
      <4>1. g # h
        BY <2>2, <3>4
      <4>2. x \in RequestsOf(g)
        BY <1>1, <3>4, <4>1
      <4> QED BY <1>3, <4>1, <4>2
    <3> QED BY <3>3, <3>4
  <2> QED BY <2>1, <2>2
<1>5. reqs' = UNION {RequestsOf(g)' : g \in Streams}
  BY <1>4
<1>6. ASSUME NEW g \in Streams PROVE IsInjective(Outstanding(g)')
  <2>1. CASE g = h
    BY <2>1
  <2>2. CASE g # h
    <3>1. IsInjective(Outstanding(g))
      BY DEF EachIsOfOne
    <3> QED BY <1>1, <2>2, <3>1
  <2> QED BY <2>1, <2>2
<1>7. ASSUME NEW f \in Streams, NEW g \in Streams, f # g
      PROVE  RequestsOf(f)' \cap RequestsOf(g)' = {}
  <2>1. CASE f = h
    BY <1>1, <1>3, <1>7, <2>1
  <2>2. CASE g = h
    BY <1>1, <1>3, <1>7, <2>2
  <2>3. CASE f # h /\ g # h
    BY <1>1, <1>7, <2>3 DEF EachIsOfOne
  <2> QED BY <2>1, <2>2, <2>3
<1> QED BY <1>5, <1>6, <1>7 DEF EachIsOfOne

LEMMA StreamGoesOn ==
  ASSUME RequestsInv, NEW h \in Streams, OnlyStream(h), HandlesGoOn, FinishGoesOn(h),
         IsClosed(hs', h) /\ NothingLeft(h) => NothingLeft(h)',
         RequestTypes', EachIsOfOne'
  PROVE  RequestsInv'
<1>1. ASSUME NEW g \in Streams, IsClosed(hs', g), ~Finishing(g)' PROVE NothingLeft(g)'
  <2>1. IsClosed(hs, g)
    BY <1>1 DEF HandlesGoOn
  <2>2. CASE Finishing(g)
    <3>1. frame.at = "finish" /\ frame.h = g /\ frame'.at # "finish"
      BY <1>1, <2>2 DEF Finishing, FinishGoesOn
    <3> QED BY <3>1 DEF FinishGoesOn
  <2>3. CASE ~Finishing(g)
    <3>1. NothingLeft(g)
      BY <2>1, <2>3 DEF RequestsInv
    <3>2. g # h => NothingLeft(g)'
      BY <3>1 DEF NothingLeft, OnlyStream
    <3> QED BY <1>1, <3>1, <3>2
  <2> QED BY <2>2, <2>3
<1>2. HandlesFit(hs', Handles) /\ (phase' # "closing" => hs'.doomed = <<>>)
  BY DEF HandlesGoOn, RequestsInv
<1>3. frame'.at = "finish" => frame'.h \in Handles /\ IsClosed(hs', frame'.h)
  BY DEF FinishGoesOn, RequestsInv
<1> QED BY <1>1, <1>2, <1>3 DEF RequestsInv
LEMMA FlagsKept ==
  ASSUME RequestsInv, UNCHANGED <<hs, phase>>
  PROVE  HandlesGoOn /\ ClosedStay
BY DEF RequestsInv, HandlesGoOn, ClosedStay

LEMMA FlagsChange ==
  ASSUME RequestsInv, NEW h \in Handles, UNCHANGED phase,
         \/ hs' = Stopped(hs, h)
         \/ IsUsable(hs, h) /\ hs' = Started(hs, h)
         \/ IsUsable(hs, h) /\ hs' = MakeClosePending(Stopped(Closing(hs, h), h), h)
  PROVE  HandlesGoOn /\ ClosedStay
<1>1. HandlesFit(hs, Handles)
  BY DEF RequestsInv
<1>2. /\ HandlesFit(hs', Handles) /\ hs'.doomed = hs.doomed
      /\ "closed" \in hs'.flags[h] <=> "closed" \in hs.flags[h]
      /\ \A g \in Handles : g # h => hs'.flags[g] = hs.flags[g]
  <2>1. CASE hs' = Stopped(hs, h)
    <3>1. FitsWith(hs, Handles, h, hs.flags[h] \ {"active"}, hs')
      BY <1>1, <2>1, StoppedFits
    <3> QED BY <3>1 DEF FitsWith
  <2>2. CASE IsUsable(hs, h) /\ hs' = Started(hs, h)
    <3>1. FitsWith(hs, Handles, h, hs.flags[h] \cup {"active"}, hs')
      BY <1>1, <2>2, StartedFits
    <3> QED BY <3>1 DEF FitsWith
  <2>3. CASE IsUsable(hs, h) /\ hs' = MakeClosePending(Stopped(Closing(hs, h), h), h)
    <3>1. /\ HandlesFit(hs', Handles) /\ hs'.doomed = hs.doomed
          /\ hs'.flags[h] = (hs.flags[h] \cup {"closing"}) \ {"active"}
          /\ \A g \in Handles : g # h => hs'.flags[g] = hs.flags[g]
      BY <1>1, <2>3, ClosingFits
    <3> QED BY <3>1
  <2> QED BY <2>1, <2>2, <2>3
<1>3. ASSUME NEW g \in Handles PROVE IsClosed(hs', g) <=> IsClosed(hs, g)
  <2>1. g # h => hs'.flags[g] = hs.flags[g]
    BY <1>2
  <2> QED BY <1>2, <2>1 DEF IsClosed
<1> QED BY <1>2, <1>3 DEF HandlesGoOn, ClosedStay

(* uv_*_init() of a closed stream whose close callback has been called     *)
LEMMA FlagsInitialized ==
  ASSUME RequestsInv, NEW h \in Streams, Initialize(h)
  PROVE  HandlesGoOn /\ FinishGoesOn(h)
<1>1. /\ HandlesFit(hs, Handles) /\ h \in Handles /\ IsClosed(hs, h) /\ frame.h # h
      /\ hs' = Initialized(hs, h) /\ UNCHANGED <<phase, frame>>
  BY DEF RequestsInv, Initialize, Call
<1>2. ~IsClosing(hs, h) /\ "ref" \notin hs.flags[h]
  BY <1>1 DEF HandlesFit, FlagsFit, IsClosing, IsClosed
<1>3. FitsWith(hs, Handles, h, {"ref"}, hs')
  BY <1>1, <1>2, InitializedFits
<1>4. HandlesGoOn
  <2>1. \A g \in Handles : IsClosed(hs', g) => IsClosed(hs, g)
    BY <1>1, <1>3 DEF FitsWith, IsClosed
  <2> QED BY <1>1, <1>3, <2>1 DEF HandlesGoOn, FitsWith
<1>5. FinishGoesOn(h)
  BY <1>1, <1>3 DEF FinishGoesOn, RequestsInv, FitsWith, IsClosed
<1> QED BY <1>4, <1>5

(* A call of the program, and a step of the library for h.                 *)
LEMMA FrameStays ==
  ASSUME RequestsInv, NEW h, ClosedStay, UNCHANGED frame
  PROVE  FinishGoesOn(h)
BY DEF RequestsInv, ClosedStay, FinishGoesOn

GoesTo(h, label) ==
  /\ frame.h = h /\ GoTo(label)
  /\ frame.at = "finish" <=> label = "finish"

LEMMA FrameGoesTo ==
  ASSUME RequestsInv, NEW h, ClosedStay, NEW label, GoesTo(h, label)
  PROVE  FinishGoesOn(h)
<1>1. frame'.at = "finish" => label = "finish"
  BY DEF GoesTo, GoTo, NoFrame
<1>2. CASE label = "finish"
  <2>1. frame' = [frame EXCEPT !.at = label]
    BY <1>2 DEF GoesTo, GoTo
  <2> QED BY <1>2, <2>1 DEF GoesTo, RequestsInv, ClosedStay, FinishGoesOn
<1>3. CASE label # "finish"
  BY <1>1, <1>3 DEF GoesTo, FinishGoesOn
<1> QED BY <1>2, <1>3
(* The requests stay where they are.                                       *)
LEMMA RequestsStay ==
  ASSUME RequestsInv, NEW h \in Streams, HandlesGoOn, FinishGoesOn(h),
         UNCHANGED <<reqs, wq, done, connect, shutdown>>
  PROVE  RequestsInv'
<1>1. /\ OnlyStream(h) /\ RequestTypes'
      /\ IsClosed(hs', h) /\ NothingLeft(h) => NothingLeft(h)'
  BY DEF OnlyStream, RequestsInv, RequestTypes, NothingLeft
<1>2. ASSUME NEW g \in Streams
      PROVE  Outstanding(g)' = Outstanding(g) /\ RequestsOf(g)' = RequestsOf(g)
  BY DEF Outstanding, RequestsOf
<1>3. EachIsOfOne'
  <2>1. EachIsOfOne
    BY DEF RequestsInv
  <2>2. reqs' = UNION {RequestsOf(g)' : g \in Streams}
    BY <1>2, <2>1 DEF EachIsOfOne
  <2> QED BY <1>2, <2>1, <2>2 DEF EachIsOfOne
<1> QED BY <1>1, <1>3, StreamGoesOn

(* The calls of the program that make no request.                          *)
LEMMA CallsWithoutRequest ==
  ASSUME RequestsInv, NEW h \in Streams,
         \/ Initialize(h) \/ ReadStart(h) \/ ReadStop(h) \/ StreamClose(h)
         \/ \E f \in Fds : Open(h, f) \/ Listen(h, f)
         \/ \E client \in Streams : Accept(h, client)
  PROVE  RequestsInv' /\ UNCHANGED <<wq, done>>
<1>1. h \in Handles
  OBVIOUS
<1>2. CASE Initialize(h)
  <2>1. IsClosed(hs, h) /\ ~Finishing(h) /\ h \notin connect
    BY <1>2 DEF Initialize, RequestsInv, NothingLeft, Finishing
  <2>2. UNCHANGED <<reqs, wq, done, connect, shutdown>>
    BY <1>2, <2>1 DEF Initialize, queueVars
  <2> QED BY <1>2, <2>2, RequestsStay, FlagsInitialized
<1>3. CASE ReadStart(h) \/ ReadStop(h) \/ StreamClose(h)
  <2>1. /\ UNCHANGED <<reqs, wq, done, connect, shutdown, phase, frame>>
        /\ \/ hs' = Stopped(hs, h)
           \/ IsUsable(hs, h) /\ hs' = Started(hs, h)
           \/ IsUsable(hs, h) /\ hs' = MakeClosePending(Stopped(Closing(hs, h), h), h)
    BY <1>3 DEF ReadStart, ReadStop, StreamClose, CloseStream, Call, queueVars, HasFd, Usable
  <2> QED BY <1>1, <2>1, FlagsChange, FrameStays, RequestsStay
<1>4. ASSUME NEW f \in Fds, Listen(h, f) PROVE RequestsInv' /\ UNCHANGED <<wq, done>>
  <2>1. /\ UNCHANGED <<reqs, wq, done, connect, shutdown, phase, frame>>
        /\ IsUsable(hs, h) /\ hs' = Started(hs, h)
    BY <1>4 DEF Listen, Call, queueVars, Usable
  <2> QED BY <1>1, <2>1, FlagsChange, FrameStays, RequestsStay
<1>5. ASSUME \/ \E f \in Fds : Open(h, f)
             \/ \E client \in Streams : Accept(h, client)
      PROVE  RequestsInv' /\ UNCHANGED <<wq, done>>
  <2>1. UNCHANGED <<hs, reqs, wq, done, connect, shutdown, phase, frame>>
    BY <1>5 DEF Open, Accept, Call, queueVars
  <2> QED BY <1>1, <2>1, FlagsKept, FrameStays, RequestsStay
<1> QED BY <1>2, <1>3, <1>4, <1>5

(* The callbacks of reading and of new connections, and what there is to   *)
(* do between the callbacks.                                               *)
LEMMA StepsWithoutRequest ==
  ASSUME RequestsInv, NEW h \in Streams,
         \/ ReadData(h) \/ ReadAgain(h) \/ ReadEof(h) \/ ReadError(h) \/ ReadDone(h)
         \/ MoreToWrite(h) \/ Drain(h) \/ AcceptError(h) \/ NothingToAccept(h)
         \/ AfterAccept(h) \/ Finished(h)
         \/ \E f \in Fds : ReadHandle(h, f) \/ ServerAccept(h, f)
  PROVE  RequestsInv' /\ UNCHANGED <<wq, done>>
<1>1. h \in Handles
  OBVIOUS
<1>2. CASE \/ ReadData(h) \/ ReadAgain(h) \/ (\E f \in Fds : ReadHandle(h, f)) \/ ReadDone(h)
  <2>1. /\ UNCHANGED <<hs, reqs, wq, done, connect, shutdown, phase>>
        /\ \E label \in {"read", "write"} : GoesTo(h, label)
    <3>1. CASE ReadData(h) \/ ReadAgain(h) \/ ReadDone(h)
      BY <3>1 DEF ReadData, ReadAgain, ReadDone, Reads, In, CallsBack, Continues, GoesTo,
                  streamVars, queueVars
    <3>2. CASE \E f \in Fds : ReadHandle(h, f)
      BY <3>2 DEF ReadHandle, Reads, In, CallsBack, GoesTo, queueVars
    <3> QED BY <1>2, <3>1, <3>2
  <2> QED BY <2>1, FlagsKept, FrameGoesTo, RequestsStay
<1>3. CASE ReadEof(h) \/ ReadError(h)
  <2>1. /\ UNCHANGED <<reqs, wq, done, connect, shutdown, phase>>
        /\ hs' = hs \/ hs' = Stopped(hs, h)
        /\ \E label \in {"write", "failed"} : GoesTo(h, label)
    BY <1>3 DEF ReadEof, ReadError, Reads, In, CallsBack, GoesTo, queueVars
  <2> QED BY <1>1, <2>1, FlagsKept, FlagsChange, FrameGoesTo, RequestsStay
<1>4. CASE MoreToWrite(h) \/ Drain(h)
  <2>1. /\ UNCHANGED <<hs, reqs, wq, done, connect, shutdown, phase>> /\ GoesTo(h, "none")
    BY <1>4 DEF MoreToWrite, Drain, Drains, In, Continues, GoesTo, streamVars, queueVars
  <2> QED BY <2>1, FlagsKept, FrameGoesTo, RequestsStay
<1>5. CASE \/ AcceptError(h) \/ NothingToAccept(h) \/ AfterAccept(h)
           \/ \E f \in Fds : ServerAccept(h, f)
  <2>1. /\ UNCHANGED <<hs, reqs, wq, done, connect, shutdown, phase>>
        /\ \E label \in {"none", "accept", "accepted"} : GoesTo(h, label)
    <3>1. CASE AcceptError(h) \/ NothingToAccept(h)
      BY <3>1 DEF AcceptError, NothingToAccept, Accepts, In, CallsBack, Continues, GoesTo,
                  streamVars, queueVars
    <3>2. CASE AfterAccept(h)
      BY <3>2 DEF AfterAccept, In, Continues, GoesTo, streamVars, queueVars
    <3>3. CASE \E f \in Fds : ServerAccept(h, f)
      BY <3>3 DEF ServerAccept, Accepts, In, CallsBack, GoesTo, queueVars
    <3> QED BY <1>5, <3>1, <3>2, <3>3
  <2> QED BY <2>1, FlagsKept, FrameGoesTo, RequestsStay
<1>6. CASE Finished(h)
  <2>1. /\ UNCHANGED <<hs, reqs, wq, done, connect, shutdown, phase>>
        /\ frame'.at # "finish" /\ frame.h = h /\ Outstanding(h) = <<>>
        /\ h \notin connect /\ h \notin shutdown
    BY <1>6 DEF Finished, In, Continues, GoTo, streamVars, queueVars
  <2>2. NothingLeft(h)'
    <3>1. wq[h] = <<>> /\ done[h] = <<>>
      BY <2>1, StreamsHaveTheirs DEF RequestsInv
    <3> QED BY <2>1, <3>1 DEF NothingLeft
  <2>3. FinishGoesOn(h)
    BY <2>1, <2>2 DEF FinishGoesOn
  <2> QED BY <2>1, <2>3, FlagsKept, RequestsStay
<1> QED BY <1>2, <1>3, <1>4, <1>5, <1>6
-----------------------------------------------------------------------------
(* The head of q moves to the tail of p, and is taken out of q.            *)
LEMMA JoinedShift ==
  ASSUME NEW S, NEW p \in Seq(S), NEW q \in Seq(S), q # <<>>
  PROVE  /\ Append(p, Head(q)) \in Seq(S) /\ Tail(q) \in Seq(S)
         /\ Append(p, Head(q)) \o Tail(q) = p \o q
<1>1. Head(q) \in S /\ Tail(q) \in Seq(S) /\ <<Head(q)>> \in Seq(S)
  BY HeadTailProperties
<1>2. q = <<Head(q)>> \o Tail(q)
  <2>2. Len(q) \in Nat \ {0}
    BY EmptySeq
  <2>3. SubSeq(q, 1, Len(q)) = <<q[1]>> \o SubSeq(q, 2, Len(q))
    BY <2>2, SubSeqRecursiveFirst
  <2>4. SubSeq(q, 1, Len(q)) = q
    BY SubSeqFull
  <2>5. Head(q) = q[1] /\ Tail(q) = SubSeq(q, 2, Len(q))
    BY <2>2, <2>4, HeadTailOfSubSeq
  <2> QED BY <2>3, <2>4, <2>5
<1>3. Append(p, Head(q)) = p \o <<Head(q)>> /\ Append(p, Head(q)) \in Seq(S)
  BY <1>1, AppendIsConcat, AppendProperties
<1>4. (p \o <<Head(q)>>) \o Tail(q) = p \o (<<Head(q)>> \o Tail(q))
  BY <1>1, ConcatAssociative
<1> DEFINE a == <<Head(q)>>
           b == Tail(q)
<1> HIDE DEF a, b
<1>5. (p \o a) \o b = p \o (a \o b) /\ a \o b = q
  BY <1>2, <1>4 DEF a, b
<1>6. (p \o a) \o b = p \o q
  BY <1>5, Zenon
<1> QED BY <1>1, <1>3, <1>6, Zenon DEF a, b

LEMMA JoinedTakesOut ==
  ASSUME NEW S, NEW p \in Seq(S), NEW q \in Seq(S), q # <<>>, IsInjective(p \o q)
  PROVE  /\ IsInjective(p \o Tail(q)) /\ Tail(q) \in Seq(S)
         /\ ToSet(p \o Tail(q)) = ToSet(p \o q) \ {Head(q)}
         /\ Head(q) \in ToSet(p \o q)
<1> DEFINE r == p \o q
           t == p \o Tail(q)
           n == Len(p)
           at(i) == IF i <= n THEN i ELSE i + 1
<1>1. /\ Tail(q) \in Seq(S) /\ Len(Tail(q)) = Len(q) - 1 /\ Head(q) = q[1]
      /\ \A i \in 1..Len(q) - 1 : Tail(q)[i] = q[i + 1]
      /\ Len(q) \in Nat \ {0} /\ n \in Nat
  BY HeadTailProperties, EmptySeq
<1>2. /\ Len(r) = n + Len(q)
      /\ \A i \in 1..n + Len(q) : r[i] = IF i <= n THEN p[i] ELSE q[i - n]
  BY ConcatProperties
<1>3. /\ Len(t) = n + Len(q) - 1
      /\ \A i \in 1..n + Len(q) - 1 : t[i] = IF i <= n THEN p[i] ELSE Tail(q)[i - n]
  BY <1>1, ConcatProperties
<1>4. r \in Seq(S) /\ t \in Seq(S)
  BY <1>1, ConcatProperties
<1> HIDE DEF r, t, n
<1>5. ASSUME NEW i \in 1..Len(t) PROVE at(i) \in 1..Len(r) /\ at(i) # n + 1 /\ t[i] = r[at(i)]
  <2>1. CASE i <= n
    BY <1>1, <1>2, <1>3, <2>1
  <2>2. CASE i > n
    <3>1. i - n \in 1..Len(q) - 1 /\ i + 1 \in 1..n + Len(q) /\ at(i) = i + 1
      BY <1>1, <1>3, <2>2
    <3>2. t[i] = Tail(q)[i - n] /\ r[i + 1] = q[(i + 1) - n]
      BY <1>1, <1>2, <1>3, <2>2, <3>1
    <3>3. Tail(q)[i - n] = q[(i - n) + 1] /\ (i - n) + 1 = (i + 1) - n
      BY <1>1, <3>1
    <3> QED BY <1>1, <1>2, <2>2, <3>1, <3>2, <3>3
  <2> QED BY <1>1, <2>1, <2>2
<1>6. n + 1 \in 1..Len(r) /\ r[n + 1] = Head(q)
  BY <1>1, <1>2
<1>7. \A i, j \in 1..Len(r) : r[i] = r[j] => i = j
  BY <1>4, LenProperties DEF IsInjective, r
<1>8. IsInjective(t)
  <2>1. DOMAIN t = 1..Len(t)
    BY <1>4, LenProperties
  <2>2. ASSUME NEW i \in 1..Len(t), NEW j \in 1..Len(t), t[i] = t[j] PROVE i = j
    <3>1. at(i) = at(j)
      BY <1>5, <1>7, <2>2
    <3> QED BY <1>1, <3>1
  <2> QED BY <2>1, <2>2 DEF IsInjective
<1>9. ASSUME NEW x PROVE x \in ToSet(t) <=> x \in ToSet(r) /\ x # Head(q)
  <2>1. /\ x \in ToSet(t) <=> \E i \in 1..Len(t) : t[i] = x
        /\ x \in ToSet(r) <=> \E i \in 1..Len(r) : r[i] = x
    BY <1>4, QueueElements
  <2>2. ASSUME NEW i \in 1..Len(t), t[i] = x PROVE x \in ToSet(r) /\ x # Head(q)
    <3>1. at(i) \in 1..Len(r) /\ at(i) # n + 1 /\ r[at(i)] = x
      BY <1>5, <2>2
    <3>2. r[at(i)] # r[n + 1]
      BY <1>6, <1>7, <3>1
    <3> HIDE DEF at
    <3> QED BY <1>6, <2>1, <3>1, <3>2
  <2>3. ASSUME NEW i \in 1..Len(r), r[i] = x, x # Head(q) PROVE x \in ToSet(t)
    <3>1. CASE i <= n
      <4>1. i \in 1..Len(t) /\ at(i) = i
        BY <1>1, <1>2, <1>3, <3>1
      <4> QED BY <1>5, <2>1, <2>3, <4>1
    <3>2. CASE i > n + 1
      <4>1. i - 1 \in 1..Len(t) /\ at(i - 1) = i
        BY <1>1, <1>2, <1>3, <3>2
      <4>2. t[i - 1] = x
        BY <1>5, <2>3, <4>1
      <4> QED BY <2>1, <4>1, <4>2
    <3>3. i # n + 1
      BY <1>6, <2>3
    <3> QED BY <1>1, <3>1, <3>2, <3>3
  <2> QED BY <2>1, <2>2, <2>3
<1>10. Head(q) \in ToSet(r)
  BY <1>4, <1>6, QueueElements
<1> QED BY <1>1, <1>8, <1>9, <1>10 DEF r, t
-----------------------------------------------------------------------------
(* A request of h is made, or called back.                                 *)
LEMMA RequestsAfter ==
  ASSUME NEW h
  PROVE  RequestsOf(h)' = ToSet(Outstanding(h)')
              \cup (IF h \in connect' THEN {ConnectReq(h)} ELSE {})
              \cup (IF h \in shutdown' THEN {ShutdownReq(h)} ELSE {})
<1>1. ASSUME NEW C
      PROVE  /\ {ConnectReq(g) : g \in C \cap {h}} = IF h \in C THEN {ConnectReq(h)} ELSE {}
             /\ {ShutdownReq(g) : g \in C \cap {h}} = IF h \in C THEN {ShutdownReq(h)} ELSE {}
  OBVIOUS
<1> QED BY <1>1 DEF RequestsOf

LEMMA OwnRequests ==
  ASSUME RequestsInv, NEW h \in Streams
  PROVE  /\ ConnectReq(h) \notin reqs \ RequestsOf(h)
         /\ ShutdownReq(h) \notin reqs \ RequestsOf(h)
         /\ \A r \in RequestsOf(h) : r \notin reqs \ RequestsOf(h)
<1>1. ASSUME NEW x \in reqs \ RequestsOf(h) PROVE x # ConnectReq(h) /\ x # ShutdownReq(h)
  <2>1. PICK g \in Streams : x \in RequestsOf(g)
    BY DEF RequestsInv, EachIsOfOne
  <2>2. g # h
    BY <2>1
  <2> QED BY <2>1, <2>2, RequestsDiffer DEF RequestsInv
<1> QED BY <1>1

LEMMA RequestMade ==
  ASSUME RequestsInv, NEW h \in Streams, OnlyStream(h), UNCHANGED <<hs, phase, frame>>,
         IsUsable(hs, h), RequestTypes', IsInjective(Outstanding(h)'),
         NEW r, r \notin reqs \ RequestsOf(h),
         RequestsOf(h)' = RequestsOf(h) \cup {r}, reqs' = reqs \cup {r}
  PROVE  RequestsInv'
<1>1. HandlesGoOn /\ FinishGoesOn(h)
  BY FlagsKept, FrameStays
<1>2. EachIsOfOne /\ RequestsOf(h) \subseteq reqs /\ ~IsClosed(hs, h)
  BY DEF RequestsInv, EachIsOfOne, HandlesFit, FlagsFit
<1> DEFINE X == RequestsOf(h) \cup {r}
<1>3. X \cap (reqs \ RequestsOf(h)) = {} /\ reqs' = (reqs \ RequestsOf(h)) \cup X
  BY <1>2
<1>4. RequestsOf(h)' = X
  OBVIOUS
<1> HIDE DEF X
<1>5. EachIsOfOne'
  BY <1>2, <1>3, <1>4, OneHasOthers
<1> QED BY <1>1, <1>2, <1>5, StreamGoesOn

LEMMA RequestCalled ==
  ASSUME RequestsInv, NEW h \in Streams, OnlyStream(h), HandlesGoOn, FinishGoesOn(h),
         NothingLeft(h) => NothingLeft(h)', RequestTypes', IsInjective(Outstanding(h)'),
         NEW r, r \notin reqs \ RequestsOf(h),
         RequestsOf(h)' = RequestsOf(h) \ {r}, reqs' = reqs \ {r}
  PROVE  RequestsInv'
<1>1. EachIsOfOne /\ RequestsOf(h) \subseteq reqs
  BY DEF RequestsInv, EachIsOfOne
<1> DEFINE X == RequestsOf(h) \ {r}
<1>2. X \cap (reqs \ RequestsOf(h)) = {} /\ reqs' = (reqs \ RequestsOf(h)) \cup X
  BY <1>1
<1>3. RequestsOf(h)' = X
  OBVIOUS
<1> HIDE DEF X
<1>4. EachIsOfOne'
  BY <1>1, <1>2, <1>3, OneHasOthers
<1> QED BY <1>4, StreamGoesOn

(* uv_tcp_connect(), uv_pipe_connect() and uv_shutdown()                   *)
LEMMA ConnectRequest ==
  ASSUME RequestsInv, NEW h \in Streams,
         PipeConnect(h, None) \/ \E f \in Fds : TcpConnect(h, f) \/ PipeConnect(h, f)
  PROVE  RequestsInv' /\ UNCHANGED <<wq, done>>
<1>1. /\ IsUsable(hs, h) /\ UNCHANGED <<hs, phase, frame, wq, done, shutdown>>
      /\ connect' = connect \cup {h} /\ reqs' = reqs \cup {ConnectReq(h)}
  <2>1. CASE \E f \in Fds : TcpConnect(h, f)
    BY <2>1 DEF TcpConnect, Call, Usable, queueVars
  <2>2. CASE PipeConnect(h, None) \/ \E f \in Fds : PipeConnect(h, f)
    BY <2>2 DEF PipeConnect, Call, Usable, queueVars
  <2> QED BY <2>1, <2>2
<1>2. RequestTypes /\ IsInjective(Outstanding(h)) /\ ConnectReq(h) \notin reqs \ RequestsOf(h)
  BY OwnRequests DEF RequestsInv, EachIsOfOne
<1>3. Outstanding(h)' = Outstanding(h) /\ OnlyStream(h) /\ RequestTypes'
  BY <1>1, <1>2 DEF Outstanding, OnlyStream, RequestTypes
<1>4. RequestsOf(h)' = RequestsOf(h) \cup {ConnectReq(h)}
  BY <1>1, <1>2, <1>3, RequestsAfter, StreamsHaveTheirs
<1>5. RequestsInv'
  BY <1>1, <1>2, <1>3, <1>4, RequestMade
<1> QED BY <1>1, <1>5

LEMMA ShutdownRequest ==
  ASSUME RequestsInv, NEW h \in Streams, Shutdown(h)
  PROVE  RequestsInv' /\ UNCHANGED <<wq, done>>
<1>1. /\ IsUsable(hs, h) /\ UNCHANGED <<hs, phase, frame, wq, done, connect>>
      /\ shutdown' = shutdown \cup {h} /\ reqs' = reqs \cup {ShutdownReq(h)}
  BY DEF Shutdown, Call, HasFd, Usable, queueVars
<1>2. RequestTypes /\ IsInjective(Outstanding(h)) /\ ShutdownReq(h) \notin reqs \ RequestsOf(h)
  BY OwnRequests DEF RequestsInv, EachIsOfOne
<1>3. Outstanding(h)' = Outstanding(h) /\ OnlyStream(h) /\ RequestTypes'
  BY <1>1, <1>2 DEF Outstanding, OnlyStream, RequestTypes
<1>4. RequestsOf(h)' = RequestsOf(h) \cup {ShutdownReq(h)}
  BY <1>1, <1>2, <1>3, RequestsAfter, StreamsHaveTheirs
<1>5. RequestsInv'
  BY <1>1, <1>2, <1>3, <1>4, RequestMade
<1> QED BY <1>1, <1>5

(* uv__stream_connect(), and uv__stream_destroy() for its request.         *)
LEMMA ConnectCalled ==
  ASSUME RequestsInv, NEW h \in Streams, StreamConnect(h) \/ CancelConnect(h)
  PROVE  RequestsInv' /\ UNCHANGED <<wq, done>>
<1>1. /\ UNCHANGED <<hs, phase, wq, done, shutdown>>
      /\ \E label \in {"none", "finish"} : GoesTo(h, label)
      /\ \/ UNCHANGED <<connect, reqs>>
         \/ connect' = connect \ {h} /\ reqs' = reqs \ {ConnectReq(h)}
  <2>1. CASE StreamConnect(h)
    BY <2>1 DEF StreamConnect, In, CallsBack, Continues, GoesTo, queueVars
  <2>2. CASE CancelConnect(h)
    BY <2>2 DEF CancelConnect, In, CallsBack, GoesTo, queueVars
  <2> QED BY <2>1, <2>2
<1>2. HandlesGoOn /\ FinishGoesOn(h)
  BY <1>1, FlagsKept, FrameGoesTo
<1>3. CASE UNCHANGED <<connect, reqs>>
  BY <1>1, <1>2, <1>3, RequestsStay
<1>4. CASE connect' = connect \ {h} /\ reqs' = reqs \ {ConnectReq(h)}
  <2>1. /\ RequestTypes /\ IsInjective(Outstanding(h))
        /\ ConnectReq(h) \notin reqs \ RequestsOf(h)
    BY OwnRequests DEF RequestsInv, EachIsOfOne
  <2>2. Outstanding(h)' = Outstanding(h) /\ OnlyStream(h) /\ RequestTypes'
    BY <1>1, <1>4, <2>1 DEF Outstanding, OnlyStream, RequestTypes
  <2>3. RequestsOf(h)' = RequestsOf(h) \ {ConnectReq(h)}
    BY <1>1, <1>4, <2>1, <2>2, RequestsAfter, StreamsHaveTheirs, RequestsDiffer
  <2>4. NothingLeft(h) => NothingLeft(h)'
    BY <1>1, <1>4 DEF NothingLeft
  <2>5. RequestsInv'
    BY <1>2, <1>4, <2>1, <2>2, <2>3, <2>4, RequestCalled
  <2> QED BY <1>1, <2>5
<1> QED BY <1>1, <1>3, <1>4

(* uv__drain(), and uv__stream_destroy() for its request.                  *)
LEMMA ShutdownCalled ==
  ASSUME RequestsInv, NEW h \in Streams, DrainAndShutdown(h) \/ CancelShutdown(h)
  PROVE  RequestsInv' /\ UNCHANGED <<wq, done>>
<1>1. /\ UNCHANGED <<phase, wq, done, connect>>
      /\ \/ hs' = hs
         \/ IsUsable(hs, h) /\ hs' = MakeClosePending(Stopped(Closing(hs, h), h), h)
      /\ \E label \in {"none", "finish"} : GoesTo(h, label)
      /\ shutdown' = shutdown \ {h} /\ reqs' = reqs \ {ShutdownReq(h)}
  <2>1. CASE DrainAndShutdown(h)
    BY <2>1 DEF DrainAndShutdown, Drains, ShutsDown, In, CallsBack, CloseStream, GoesTo, queueVars,
                Usable
  <2>2. CASE CancelShutdown(h)
    BY <2>2 DEF CancelShutdown, In, CallsBack, GoesTo, queueVars
  <2> QED BY <2>1, <2>2
<1>2. HandlesGoOn /\ FinishGoesOn(h)
  <2>1. h \in Handles
    OBVIOUS
  <2> QED BY <1>1, <2>1, FlagsKept, FlagsChange, FrameGoesTo
<1>3. RequestTypes /\ IsInjective(Outstanding(h)) /\ ShutdownReq(h) \notin reqs \ RequestsOf(h)
  BY OwnRequests DEF RequestsInv, EachIsOfOne
<1>4. Outstanding(h)' = Outstanding(h) /\ OnlyStream(h) /\ RequestTypes'
  BY <1>1, <1>3 DEF Outstanding, OnlyStream, RequestTypes
<1>5. RequestsOf(h)' = RequestsOf(h) \ {ShutdownReq(h)}
  BY <1>1, <1>3, <1>4, RequestsAfter, StreamsHaveTheirs, RequestsDiffer
<1>6. NothingLeft(h) => NothingLeft(h)'
  BY <1>1 DEF NothingLeft
<1>7. RequestsInv'
  BY <1>1, <1>2, <1>3, <1>4, <1>5, <1>6, RequestCalled
<1> QED BY <1>1, <1>7
(* uv__write() leaves the requests of q where they are in the order.       *)
LEMMA HeadWritten ==
  ASSUME RequestTypes, NEW h \in Streams, NEW q \in Seq(Writes), NEW I, WriteHead(h, q, I)
  PROVE  /\ Outstanding(h)' = done[h] \o q
         /\ wq' \in [Streams -> Seq(Writes)] /\ done' \in [Streams -> Seq(Writes)]
         /\ \A g \in Streams : g # h => wq'[g] = wq[g] /\ done'[g] = done[g]
         /\ q = <<>> => wq'[h] = <<>> /\ done'[h] = done[h]
<1>1. wq \in [Streams -> Seq(Writes)] /\ done \in [Streams -> Seq(Writes)] /\ done[h] \in Seq(Writes)
  BY DEF RequestTypes
<1>2. CASE q # <<>> /\ Finish(h, q, I)
  <2> DEFINE d == Append(done[h], Head(q))
             t == Tail(q)
  <2>1. d \in Seq(Writes) /\ t \in Seq(Writes) /\ d \o t = done[h] \o q
    BY <1>1, <1>2, JoinedShift
  <2>2. wq' = [wq EXCEPT ![h] = t] /\ done' = [done EXCEPT ![h] = d]
    BY <1>2 DEF Finish
  <2> HIDE DEF d, t
  <2>3. wq'[h] = t /\ done'[h] = d
    BY <1>1, <2>2
  <2>4. Outstanding(h)' = d \o t
    BY <2>3 DEF Outstanding
  <2> QED BY <1>1, <1>2, <2>1, <2>2, <2>4
<1>3. CASE wq' = [wq EXCEPT ![h] = q] /\ UNCHANGED done
  <2>1. wq'[h] = q /\ done'[h] = done[h]
    BY <1>1, <1>3
  <2>2. Outstanding(h)' = done[h] \o q
    BY <2>1 DEF Outstanding
  <2> QED BY <1>1, <1>3, <2>1, <2>2
<1> QED BY <1>2, <1>3 DEF WriteHead

(* uv_write()                                                              *)
LEMMA WriteRequest ==
  ASSUME RequestsInv, NEW h \in Streams, NEW r \in Writes, Write(h, r)
  PROVE  /\ RequestsInv' /\ Outstanding(h)' = Outstanding(h) \o <<r>>
         /\ \A g \in Streams : g # h => wq'[g] = wq[g] /\ done'[g] = done[g]
<1> DEFINE q == Append(wq[h], r)
<1>1. /\ IsUsable(hs, h) /\ UNCHANGED <<hs, phase, frame, connect, shutdown>>
      /\ r \notin reqs /\ reqs' = reqs \cup {r}
      /\ \/ WriteHead(h, q, io)
         \/ wq' = [wq EXCEPT ![h] = q] /\ UNCHANGED done
  BY DEF Write, Call, HasFd, Usable
<1>2. /\ RequestTypes /\ EachIsOfOne /\ wq[h] \in Seq(Writes) /\ done[h] \in Seq(Writes)
      /\ Outstanding(h) \in Seq(Writes) /\ ToSet(Outstanding(h)) \subseteq RequestsOf(h)
      /\ IsInjective(Outstanding(h)) /\ RequestsOf(h) \subseteq reqs
  BY StreamsHaveTheirs DEF RequestsInv, EachIsOfOne
<1>3. /\ q \in Seq(Writes)
      /\ done[h] \o q = Append(Outstanding(h), r)
      /\ done[h] \o q = Outstanding(h) \o <<r>>
  <2>1. q \in Seq(Writes)
    BY <1>2, AppendProperties
  <2>2. Outstanding(h) = done[h] \o wq[h]
    BY DEF Outstanding
  <2>3. /\ done[h] \o q = Append(done[h] \o wq[h], r)
        /\ done[h] \o q = (done[h] \o wq[h]) \o <<r>>
    <3> DEFINE u == wq[h]
               v == done[h]
    <3>1. u \in Seq(Writes) /\ v \in Seq(Writes) /\ q = Append(u, r)
      BY <1>2
    <3> HIDE DEF u, v, q
    <3>2. v \o Append(u, r) = Append(v \o u, r) /\ v \o Append(u, r) = (v \o u) \o <<r>>
      BY <3>1, JoinedAppend
    <3> QED BY <3>1, <3>2, Zenon DEF u, v
  <2> QED BY <2>1, <2>2, <2>3, Zenon
<1> HIDE DEF q
<1>4. /\ Outstanding(h)' = done[h] \o q
      /\ wq' \in [Streams -> Seq(Writes)] /\ done' \in [Streams -> Seq(Writes)]
      /\ \A g \in Streams : g # h => wq'[g] = wq[g] /\ done'[g] = done[g]
  <2>1. CASE WriteHead(h, q, io)
    BY <1>2, <1>3, <2>1, HeadWritten
  <2>2. CASE wq' = [wq EXCEPT ![h] = q] /\ UNCHANGED done
    <3>1. wq \in [Streams -> Seq(Writes)] /\ done \in [Streams -> Seq(Writes)]
      BY <1>2 DEF RequestTypes
    <3>2. wq'[h] = q /\ done'[h] = done[h]
      BY <2>2, <3>1
    <3> QED BY <1>3, <2>2, <3>1, <3>2 DEF Outstanding
  <2> QED BY <1>1, <2>1, <2>2
<1>5. Outstanding(h)' = Append(Outstanding(h), r)
  BY <1>3, <1>4
<1>6. OnlyStream(h) /\ RequestTypes'
  BY <1>1, <1>2, <1>4 DEF OnlyStream, RequestTypes
<1>7. /\ ToSet(Append(Outstanding(h), r)) = ToSet(Outstanding(h)) \cup {r}
      /\ IsInjective(Append(Outstanding(h), r))
  <2>1. r \notin ToSet(Outstanding(h))
    BY <1>1, <1>2
  <2> QED BY <1>2, <2>1, AppendElements
<1>8. ToSet(Outstanding(h)') = ToSet(Outstanding(h)) \cup {r} /\ IsInjective(Outstanding(h)')
  BY <1>5, <1>7
<1>9. RequestsOf(h)' = RequestsOf(h) \cup {r}
  BY <1>1, <1>2, <1>8, RequestsAfter, StreamsHaveTheirs
<1>10. RequestsInv'
  BY <1>1, <1>6, <1>8, <1>9, RequestMade
<1> QED BY <1>3, <1>4, <1>10

(* The rest of uv__stream_io()                                             *)
LEMMA WriteMoves ==
  ASSUME RequestsInv, NEW h \in Streams, WriteReady(h)
  PROVE  /\ RequestsInv' /\ Outstanding(h)' = Outstanding(h)
         /\ \A g \in Streams : g # h => wq'[g] = wq[g] /\ done'[g] = done[g]
<1>1. /\ UNCHANGED <<hs, phase, reqs, connect, shutdown>>
      /\ \E label \in {"none", "written"} : GoesTo(h, label)
      /\ UNCHANGED <<wq, done>> \/ WriteHead(h, wq[h], io)
  BY DEF WriteReady, In, Continues, GoesTo, queueVars
<1>2. HandlesGoOn /\ FinishGoesOn(h)
  BY <1>1, FlagsKept, FrameGoesTo
<1>3. CASE UNCHANGED <<wq, done>>
  BY <1>1, <1>2, <1>3, RequestsStay DEF Outstanding
<1>4. CASE WriteHead(h, wq[h], io)
  <2>1. RequestTypes /\ EachIsOfOne /\ wq[h] \in Seq(Writes) /\ Outstanding(h) = done[h] \o wq[h]
    BY DEF RequestsInv, RequestTypes, Outstanding
  <2>2. /\ Outstanding(h)' = Outstanding(h)
        /\ wq' \in [Streams -> Seq(Writes)] /\ done' \in [Streams -> Seq(Writes)]
        /\ \A g \in Streams : g # h => wq'[g] = wq[g] /\ done'[g] = done[g]
        /\ wq[h] = <<>> => wq'[h] = <<>> /\ done'[h] = done[h]
    BY <1>4, <2>1, HeadWritten
  <2>3. OnlyStream(h) /\ RequestTypes' /\ (NothingLeft(h) => NothingLeft(h)')
    BY <1>1, <2>1, <2>2 DEF OnlyStream, RequestTypes, NothingLeft
  <2>4. RequestsOf(h)' = RequestsOf(h)
    BY <1>1, <2>2 DEF RequestsOf
  <2>5. IsInjective(Outstanding(h)') /\ RequestsOf(h) \subseteq reqs
    <3>1. IsInjective(Outstanding(h))
      BY <2>1 DEF EachIsOfOne
    <3> QED BY <2>1, <2>2, <3>1 DEF EachIsOfOne
  <2> DEFINE X == RequestsOf(h)
  <2>6. X \cap (reqs \ RequestsOf(h)) = {} /\ reqs' = (reqs \ RequestsOf(h)) \cup X
    BY <1>1, <2>5
  <2>7. RequestsOf(h)' = X
    BY <2>4
  <2> HIDE DEF X
  <2>8. EachIsOfOne'
    BY <2>1, <2>3, <2>5, <2>6, <2>7, OneHasOthers
  <2>9. RequestsInv'
    BY <1>2, <2>3, <2>8, StreamGoesOn
  <2> QED BY <2>2, <2>9
<1> QED BY <1>1, <1>3, <1>4

(* uv__write_callbacks()                                                   *)
LEMMA WriteCalled ==
  ASSUME RequestsInv, NEW h \in Streams, CallWritten(h)
  PROVE  /\ RequestsInv' /\ Outstanding(h) # <<>> /\ Outstanding(h)' = Tail(Outstanding(h))
         /\ \A g \in Streams : g # h => wq'[g] = wq[g] /\ done'[g] = done[g]
<1>1. /\ UNCHANGED <<hs, phase, connect, shutdown, wq>> /\ done[h] # <<>>
      /\ \E label \in {"written", "finish"} : GoesTo(h, label)
      /\ done' = [done EXCEPT ![h] = Tail(@)] /\ reqs' = reqs \ {Head(done[h])}
  <2>1. frame.h = h /\ frame.at \in {"written", "finish"} /\ GoTo(frame.at)
    BY DEF CallWritten, In, CallsBack
  <2>2. \E label \in {"written", "finish"} : GoesTo(h, label)
    BY <2>1 DEF GoesTo
  <2> QED BY <2>2 DEF CallWritten, CallsBack
<1>2. HandlesGoOn /\ FinishGoesOn(h)
  BY <1>1, FlagsKept, FrameGoesTo
<1>3. /\ RequestTypes /\ EachIsOfOne /\ wq[h] \in Seq(Writes) /\ done[h] \in Seq(Writes)
      /\ Outstanding(h) \in Seq(Writes) /\ ToSet(Outstanding(h)) \subseteq Writes
      /\ IsInjective(Outstanding(h)) /\ Outstanding(h) # <<>>
      /\ done \in [Streams -> Seq(Writes)]
  BY <1>1, StreamsHaveTheirs DEF RequestsInv, EachIsOfOne, RequestTypes
<1> DEFINE r == Head(done[h])
           t == Tail(Outstanding(h))
<1>4. /\ Head(Outstanding(h)) = r /\ t = Tail(done[h]) \o wq[h]
      /\ Tail(done[h]) \in Seq(Writes)
  BY <1>1, <1>3, JoinedTail, TailElements DEF Outstanding
<1>5. /\ ToSet(Outstanding(h)) = ToSet(t) \cup {r}
      /\ IsInjective(t) /\ r \notin ToSet(t)
  BY <1>3, <1>4, TailElements
<1>6. Outstanding(h)' = t
  <2>1. done'[h] = Tail(done[h]) /\ wq'[h] = wq[h]
    BY <1>1, <1>3
  <2>2. Outstanding(h)' = Tail(done[h]) \o wq[h]
    BY <2>1 DEF Outstanding
  <2> QED BY <1>4, <2>2
<1>7. reqs' = reqs \ {r}
  BY <1>1
<1> HIDE DEF t, r
<1>8. OnlyStream(h) /\ RequestTypes' /\ (NothingLeft(h) => NothingLeft(h)')
  BY <1>1, <1>3, <1>4 DEF OnlyStream, RequestTypes, NothingLeft
<1>9. RequestsOf(h)' = RequestsOf(h) \ {r} /\ r \in RequestsOf(h)
  BY <1>1, <1>3, <1>5, <1>6, RequestsAfter, StreamsHaveTheirs
<1>10. r \notin reqs \ RequestsOf(h) /\ IsInjective(Outstanding(h)')
  BY <1>5, <1>6, <1>9
<1>11. RequestsInv'
  BY <1>2, <1>7, <1>8, <1>9, <1>10, RequestCalled
<1>12. \A g \in Streams : g # h => wq'[g] = wq[g] /\ done'[g] = done[g]
  BY <1>8 DEF OnlyStream
<1> QED BY <1>3, <1>6, <1>11, <1>12 DEF t

(* uv__stream_destroy() for the writes that are still queued.              *)
LEMMA WriteCancelled ==
  ASSUME RequestsInv, NEW h \in Streams, CancelWrite(h)
  PROVE  RequestsInv' /\ OnlyStream(h)
<1>1. /\ UNCHANGED <<hs, phase, connect, shutdown, done>> /\ wq[h] # <<>>
      /\ GoesTo(h, "finish")
      /\ wq' = [wq EXCEPT ![h] = Tail(@)] /\ reqs' = reqs \ {Head(wq[h])}
  BY DEF CancelWrite, In, CallsBack, GoesTo
<1>2. HandlesGoOn /\ FinishGoesOn(h)
  BY <1>1, FlagsKept, FrameGoesTo
<1>3. /\ RequestTypes /\ EachIsOfOne /\ wq[h] \in Seq(Writes) /\ done[h] \in Seq(Writes)
      /\ ToSet(Outstanding(h)) \subseteq Writes
      /\ IsInjective(Outstanding(h)) /\ Outstanding(h) = done[h] \o wq[h]
      /\ wq \in [Streams -> Seq(Writes)]
  BY StreamsHaveTheirs DEF RequestsInv, EachIsOfOne, RequestTypes, Outstanding
<1> DEFINE r == Head(wq[h])
           t == done[h] \o Tail(wq[h])
<1>4. /\ IsInjective(t) /\ Tail(wq[h]) \in Seq(Writes)
      /\ ToSet(t) = ToSet(Outstanding(h)) \ {r} /\ r \in ToSet(Outstanding(h))
  BY <1>1, <1>3, JoinedTakesOut
<1>5. Outstanding(h)' = t
  <2>1. wq'[h] = Tail(wq[h]) /\ done'[h] = done[h]
    BY <1>1, <1>3
  <2> QED BY <2>1 DEF Outstanding
<1>6. reqs' = reqs \ {r}
  BY <1>1
<1> HIDE DEF t, r
<1>7. OnlyStream(h) /\ RequestTypes' /\ (NothingLeft(h) => NothingLeft(h)')
  BY <1>1, <1>3, <1>4 DEF OnlyStream, RequestTypes, NothingLeft
<1>8. RequestsOf(h)' = RequestsOf(h) \ {r} /\ r \in RequestsOf(h)
  <2>1. ToSet(Outstanding(h)') = ToSet(Outstanding(h)) \ {r} /\ r # ConnectReq(h) /\ r # ShutdownReq(h)
    BY <1>3, <1>4, <1>5
  <2> QED BY <1>1, <1>3, <1>4, <2>1, RequestsAfter, StreamsHaveTheirs
<1>9. r \notin reqs \ RequestsOf(h) /\ IsInjective(Outstanding(h)')
  BY <1>4, <1>5, <1>8
<1>10. RequestsInv'
  BY <1>2, <1>6, <1>7, <1>8, <1>9, RequestCalled
<1> QED BY <1>7, <1>10
-----------------------------------------------------------------------------
(* The steps of the loop.                                                  *)
LEMMA LoopKeepsRequests ==
  ASSUME RequestsInv, LoopStep \/ Return, UNCHANGED streamVars
  PROVE  RequestsInv'
<1>1. UNCHANGED <<reqs, wq, done, connect, shutdown>>
  BY DEF LoopStep, RunLoop, TakePending, Poll, Dispatch, RunCheck, RunClosing, StartFinish,
         CallClosed, EndIteration, Return, streamVars, queueVars
<1>2. RequestTypes' /\ EachIsOfOne'
  <2>1. ASSUME NEW g \in Streams
        PROVE  Outstanding(g)' = Outstanding(g) /\ RequestsOf(g)' = RequestsOf(g)
    BY <1>1 DEF Outstanding, RequestsOf
  <2>2. EachIsOfOne
    BY DEF RequestsInv
  <2>3. reqs' = UNION {RequestsOf(g)' : g \in Streams}
    BY <1>1, <2>1, <2>2 DEF EachIsOfOne
  <2> QED BY <1>1, <2>1, <2>2, <2>3 DEF EachIsOfOne, RequestsInv, RequestTypes
<1>3. /\ HandlesFit(hs', Handles) /\ (phase' # "closing" => hs'.doomed = <<>>)
      /\ frame'.at = "finish" => frame'.h \in Handles /\ IsClosed(hs', frame'.h)
      /\ \A h \in Streams : IsClosed(hs', h) /\ ~Finishing(h)' => IsClosed(hs, h) /\ ~Finishing(h)
  <2>1. CASE StartFinish
    <3>1. /\ hs.doomed # <<>> /\ hs' = FinishClose(hs) /\ phase = "closing" /\ phase' = phase
          /\ frame.at = "none" /\ frame' = Frame("finish", Head(hs.doomed), {})
      BY <2>1 DEF StartFinish, At
    <3> DEFINE p == Head(hs.doomed)
    <3>2. HandlesFit(hs', Handles) /\ p \in Handles /\ FinishedWith(hs, Handles, p, hs')
      BY <3>1, FinishedFits DEF RequestsInv
    <3>3. frame'.at = "finish" /\ frame'.h = p
      BY <3>1 DEF Frame
    <3> HIDE DEF p
    <3>4. IsClosed(hs', p) /\ \A g \in Handles : g # p => (IsClosed(hs', g) <=> IsClosed(hs, g))
      BY <3>2 DEF FinishedWith, IsClosed
    <3> QED BY <3>1, <3>2, <3>3, <3>4 DEF Finishing
  <2>2. CASE RunClosing
    <3>1. hs.doomed = <<>> /\ hs' = TakeClosing(hs) /\ UNCHANGED frame /\ phase' = "closing"
      BY <2>2 DEF RunClosing, RequestsInv
    <3>2. HandlesFit(hs', Handles) /\ hs'.flags = hs.flags
      BY <3>1, TakenFits DEF RequestsInv
    <3> QED BY <3>1, <3>2 DEF RequestsInv, Finishing, IsClosed
  <2>3. CASE RunLoop \/ RunCheck \/ Return \/ EndIteration
    <3>1. UNCHANGED <<hs, frame>> /\ (phase' # "closing" => hs.doomed = <<>>)
      BY <2>3 DEF RunLoop, RunCheck, Return, EndIteration, RequestsInv
    <3> QED BY <3>1 DEF RequestsInv, Finishing
  <2>4. CASE TakePending \/ Poll \/ (\E f \in Fds : Dispatch(f)) \/ CallClosed
    <3>1. /\ UNCHANGED hs /\ (phase' # "closing" => hs.doomed = <<>>)
          /\ frame.at # "finish" /\ frame'.at # "finish"
      BY <2>4 DEF TakePending, Poll, Dispatch, CallClosed, At, Frame, NoFrame, RequestsInv
    <3> QED BY <3>1 DEF RequestsInv, Finishing
  <2> QED BY <2>1, <2>2, <2>3, <2>4 DEF LoopStep
<1>4. ASSUME NEW h \in Streams, IsClosed(hs', h), ~Finishing(h)' PROVE NothingLeft(h)'
  <2>1. NothingLeft(h)
    BY <1>3, <1>4 DEF RequestsInv
  <2> QED BY <1>1, <2>1 DEF NothingLeft
<1> QED BY <1>2, <1>3, <1>4 DEF RequestsInv
-----------------------------------------------------------------------------
LEMMA RequestsInitFits == Init => RequestsInv
<1> SUFFICES ASSUME Init PROVE RequestsInv
  OBVIOUS
<1>1. /\ hs = Fresh(Handles) /\ reqs = {} /\ phase = "out" /\ frame = NoFrame
      /\ wq = [h \in Streams |-> <<>>] /\ done = wq /\ connect = {} /\ shutdown = {}
  BY DEF Init, LoopInit, StreamInit
<1>2. HandlesFit(hs, Handles) /\ hs.doomed = <<>>
  BY <1>1, FreshFits DEF Fresh
<1>3. frame.at = "none"
  BY <1>1 DEF NoFrame
<1>4. RequestTypes
  BY <1>1 DEF RequestTypes
<1>5. ASSUME NEW h \in Streams
      PROVE  IsInjective(Outstanding(h)) /\ RequestsOf(h) = {} /\ NothingLeft(h)
  <2>1. Outstanding(h) = <<>>
    BY <1>1 DEF Outstanding
  <2>2. ToSet(<<>>) = {} /\ IsInjective(<<>>)
    BY DEF ToSet, IsInjective
  <2> QED BY <1>1, <1>4, <2>1, <2>2, StreamsHaveTheirs DEF NothingLeft
<1>6. EachIsOfOne
  <2>1. UNION {RequestsOf(h) : h \in Streams} = {}
    BY <1>5
  <2> QED BY <1>1, <1>5, <2>1 DEF EachIsOfOne
<1> QED BY <1>2, <1>3, <1>4, <1>5, <1>6 DEF RequestsInv

LEMMA RequestsStand ==
  ASSUME RequestsInv, UNCHANGED vars
  PROVE  RequestsInv'
<1>1. UNCHANGED <<hs, phase, frame, reqs, wq, done, connect, shutdown>>
  BY DEF vars, loopVars, streamVars, queueVars
<1>2. HandlesGoOn /\ ClosedStay
  BY <1>1, FlagsKept
<1>3. ASSUME NEW h \in Streams PROVE RequestsInv'
  BY <1>1, <1>2, FrameStays, RequestsStay
<1>4. CASE Streams = {}
  BY <1>1, <1>4 DEF RequestsInv, RequestTypes, EachIsOfOne
<1> QED BY <1>3, <1>4

(* What a step may do to the requests of uv_write() of h.                  *)
WritesGoOn(h) ==
  \/ \E new \in {<<>>} \cup {<<r>> : r \in Writes} : Outstanding(h)' = Outstanding(h) \o new
  \/ Outstanding(h) # <<>> /\ Outstanding(h)' = Tail(Outstanding(h))

LEMMA WritesStay ==
  ASSUME RequestsInv, NEW h \in Streams, Outstanding(h)' = Outstanding(h)
  PROVE  WritesGoOn(h)
<1>1. Outstanding(h) \in Seq(Writes)
  BY StreamsHaveTheirs DEF RequestsInv
<1>2. Outstanding(h) \o <<>> = Outstanding(h)
  BY <1>1, ConcatEmptySeq
<1>3. Outstanding(h)' = Outstanding(h) \o <<>>
  BY <1>2
<1> QED BY <1>3, Zenon DEF WritesGoOn

(* Only the writes of a stream that is being destroyed are cancelled out   *)
(* of their order.                                                         *)
WritesInOrder == \A h \in Streams : IsUsable(hs, h) => WritesGoOn(h)

LEMMA OneWritesOn ==
  ASSUME RequestsInv, NEW h \in Streams,
         \A g \in Streams : g # h => wq'[g] = wq[g] /\ done'[g] = done[g],
         IsUsable(hs, h) => WritesGoOn(h)
  PROVE  WritesInOrder
<1>1. ASSUME NEW g \in Streams, g # h PROVE Outstanding(g)' = Outstanding(g)
  BY <1>1 DEF Outstanding
<1> QED BY <1>1, WritesStay DEF WritesInOrder

LEMMA NoneWritten ==
  ASSUME RequestsInv, UNCHANGED <<wq, done>>
  PROVE  WritesInOrder
<1>1. ASSUME NEW g \in Streams PROVE Outstanding(g)' = Outstanding(g)
  BY DEF Outstanding
<1> QED BY <1>1, WritesStay DEF WritesInOrder

LEMMA CallKeepsRequests ==
  ASSUME RequestsInv, NEW h \in Streams, StreamCall(h)
  PROVE  RequestsInv' /\ WritesInOrder
<1>1. CASE \/ Initialize(h) \/ ReadStart(h) \/ ReadStop(h) \/ StreamClose(h)
           \/ \E f \in Fds : Open(h, f) \/ Listen(h, f)
           \/ \E client \in Streams : Accept(h, client)
  BY <1>1, CallsWithoutRequest, NoneWritten
<1>2. CASE PipeConnect(h, None) \/ \E f \in Fds : TcpConnect(h, f) \/ PipeConnect(h, f)
  BY <1>2, ConnectRequest, NoneWritten
<1>3. CASE Shutdown(h)
  BY <1>3, ShutdownRequest, NoneWritten
<1>4. ASSUME NEW r \in Writes, Write(h, r) PROVE RequestsInv' /\ WritesInOrder
  <2>1. /\ RequestsInv' /\ Outstanding(h)' = Outstanding(h) \o <<r>>
        /\ \A g \in Streams : g # h => wq'[g] = wq[g] /\ done'[g] = done[g]
    BY <1>4, WriteRequest
  <2>2. WritesGoOn(h)
    BY <2>1 DEF WritesGoOn
  <2> QED BY <2>1, <2>2, OneWritesOn
<1> QED BY <1>1, <1>2, <1>3, <1>4 DEF StreamCall

LEMMA StepKeepsRequests ==
  ASSUME RequestsInv, NEW h \in Streams, StreamStep(h)
  PROVE  RequestsInv' /\ WritesInOrder
<1>1. CASE \/ ReadData(h) \/ ReadAgain(h) \/ ReadEof(h) \/ ReadError(h) \/ ReadDone(h)
           \/ MoreToWrite(h) \/ Drain(h) \/ AcceptError(h) \/ NothingToAccept(h)
           \/ AfterAccept(h) \/ Finished(h)
           \/ \E f \in Fds : ReadHandle(h, f) \/ ServerAccept(h, f)
  BY <1>1, StepsWithoutRequest, NoneWritten
<1>2. CASE StreamConnect(h) \/ CancelConnect(h)
  BY <1>2, ConnectCalled, NoneWritten
<1>3. CASE DrainAndShutdown(h) \/ CancelShutdown(h)
  BY <1>3, ShutdownCalled, NoneWritten
<1>4. CASE WriteReady(h)
  <2>1. /\ RequestsInv' /\ Outstanding(h)' = Outstanding(h)
        /\ \A g \in Streams : g # h => wq'[g] = wq[g] /\ done'[g] = done[g]
    BY <1>4, WriteMoves
  <2>2. WritesGoOn(h)
    BY <2>1, WritesStay
  <2> QED BY <2>1, <2>2, OneWritesOn
<1>5. CASE CallWritten(h)
  <2>1. /\ RequestsInv' /\ Outstanding(h) # <<>> /\ Outstanding(h)' = Tail(Outstanding(h))
        /\ \A g \in Streams : g # h => wq'[g] = wq[g] /\ done'[g] = done[g]
    BY <1>5, WriteCalled
  <2>2. WritesGoOn(h)
    BY <2>1 DEF WritesGoOn
  <2> QED BY <2>1, <2>2, OneWritesOn
<1>6. CASE CancelWrite(h)
  <2>1. RequestsInv' /\ OnlyStream(h)
    BY <1>6, WriteCancelled
  <2>2. ~IsUsable(hs, h)
    <3>1. IsClosed(hs, h) /\ h \in Handles /\ FlagsFit(hs, Handles)
      BY <1>6 DEF CancelWrite, In, RequestsInv, HandlesFit
    <3> QED BY <3>1 DEF FlagsFit
  <2>3. \A g \in Streams : g # h => wq'[g] = wq[g] /\ done'[g] = done[g]
    BY <2>1 DEF OnlyStream
  <2> QED BY <2>1, <2>2, <2>3, OneWritesOn
<1> QED BY <1>1, <1>2, <1>3, <1>4, <1>5, <1>6 DEF StreamStep

LEMMA RequestsNextKeeps ==
  ASSUME RequestsInv, [Next]_vars
  PROVE  RequestsInv' /\ WritesInOrder
<1>1. CASE UNCHANGED vars
  <2>1. UNCHANGED <<wq, done>>
    BY <1>1 DEF vars, streamVars, queueVars
  <2> QED BY <1>1, <2>1, RequestsStand, NoneWritten
<1>2. CASE (LoopStep \/ Return) /\ UNCHANGED streamVars
  <2>1. UNCHANGED <<wq, done>>
    BY <1>2 DEF streamVars, queueVars
  <2> QED BY <1>2, <2>1, LoopKeepsRequests, NoneWritten
<1>3. CASE \E h \in Streams : StreamCall(h) \/ StreamStep(h)
  BY <1>3, CallKeepsRequests, StepKeepsRequests
<1> QED BY <1>1, <1>2, <1>3 DEF Next

(* The marks of a stream change in a step for it.                          *)
Marks == {"reading", "shutting", "shut", "writable", "eof", "refused"}
MarksFit == st \in [Streams -> SUBSET Marks]

MarksBecome(h, M) ==
  /\ M \in SUBSET Marks /\ "shut" \notin M \ st[h]
  /\ st' = [st EXCEPT ![h] = M]

LEMMA MarksOfOne ==
  ASSUME MarksFit, NEW h \in Streams, NEW M, MarksBecome(h, M)
  PROVE  MarksFit' /\ \A g \in Streams : "shut" \notin st'[g] \ st[g]
<1>1. MarksFit'
  BY DEF MarksFit, MarksBecome
<1>2. ASSUME NEW g \in Streams PROVE "shut" \notin st'[g] \ st[g]
  <2>1. st'[g] = IF g = h THEN M ELSE st[g]
    BY DEF MarksFit, MarksBecome
  <2> QED BY <2>1 DEF MarksBecome
<1> QED BY <1>1, <1>2

LEMMA CallMarks ==
  ASSUME MarksFit, NEW h \in Streams, StreamCall(h)
  PROVE  MarksFit' /\ \A g \in Streams : "shut" \notin st'[g] \ st[g]
<1>1. st[h] \in SUBSET Marks /\ \A e \in Marks \ {"shut"} : st[h] \cup {e} \in SUBSET Marks
  BY DEF MarksFit
<1>2. CASE UNCHANGED st
  BY <1>2 DEF MarksFit
<1>3. ASSUME NEW e \in Marks \ {"shut"}, st' = [st EXCEPT ![h] = @ \cup {e}]
      PROVE  MarksBecome(h, st[h] \cup {e})
  BY <1>1, <1>3 DEF MarksBecome
<1>4. CASE Initialize(h)
  <2>1. MarksBecome(h, {})
    BY <1>4 DEF Initialize, MarksBecome
  <2> QED BY <2>1, MarksOfOne
<1>5. CASE \/ Shutdown(h) \/ PipeConnect(h, None)
           \/ \E f \in Fds : Open(h, f) \/ TcpConnect(h, f) \/ PipeConnect(h, f)
  <2>1. \/ UNCHANGED st
        \/ \E e \in {"shutting", "writable"} : st' = [st EXCEPT ![h] = @ \cup {e}]
    BY <1>5 DEF Shutdown, Open, TcpConnect, PipeConnect
  <2>2. {"shutting", "writable"} \subseteq Marks \ {"shut"}
    BY DEF Marks
  <2> QED BY <1>2, <1>3, <2>1, <2>2, MarksOfOne
<1>6. CASE ReadStart(h)
  <2>1. MarksBecome(h, (st[h] \cup {"reading"}) \ {"eof"})
    BY <1>1, <1>6 DEF ReadStart, MarksBecome, Marks
  <2> QED BY <2>1, MarksOfOne
<1>7. CASE ReadStop(h) \/ StreamClose(h)
  <2>1. MarksBecome(h, st[h] \ {"reading"})
    BY <1>1, <1>7 DEF ReadStop, StreamClose, CloseStream, MarksBecome
  <2> QED BY <2>1, MarksOfOne
<1>8. CASE (\E r \in Writes : Write(h, r)) \/ (\E f \in Fds : Listen(h, f))
  BY <1>2, <1>8 DEF Write, Listen
<1>9. ASSUME NEW client \in Streams, Accept(h, client)
      PROVE  MarksFit' /\ \A g \in Streams : "shut" \notin st'[g] \ st[g]
  <2>1. MarksBecome(client, st[client] \cup {"writable"})
    BY <1>9 DEF Accept, MarksBecome, MarksFit, Marks
  <2> QED BY <2>1, MarksOfOne
<1> QED BY <1>4, <1>5, <1>6, <1>7, <1>8, <1>9 DEF StreamCall

LEMMA StepMarks ==
  ASSUME MarksFit, NEW h \in Streams, StreamStep(h)
  PROVE  /\ MarksFit'
         /\ \A g \in Streams : "shut" \in st'[g] \ st[g] => DrainAndShutdown(g)
<1>1. st[h] \in SUBSET Marks /\ \A e \in Marks \ {"shut"} : st[h] \cup {e} \in SUBSET Marks
  BY DEF MarksFit
<1>2. CASE UNCHANGED st
  BY <1>2 DEF MarksFit
<1>3. CASE StreamConnect(h)
  <2>1. UNCHANGED st \/ MarksBecome(h, st[h] \cup {"refused"})
    BY <1>1, <1>3 DEF StreamConnect, MarksBecome, Marks
  <2> QED BY <1>2, <2>1, MarksOfOne
<1>4. CASE ReadEof(h)
  <2>1. MarksBecome(h, st[h] \cup {"eof"})
    BY <1>1, <1>4 DEF ReadEof, MarksBecome, Marks
  <2> QED BY <2>1, MarksOfOne
<1>5. CASE ReadError(h)
  <2>1. MarksBecome(h, st[h] \ {"reading"})
    BY <1>1, <1>5 DEF ReadError, MarksBecome
  <2> QED BY <2>1, MarksOfOne
<1>6. CASE DrainAndShutdown(h)
  <2>1. \E M \in SUBSET Marks : st' = [st EXCEPT ![h] = M]
    <3>1. /\ {"shut"} \subseteq Marks
          /\ \/ st' \in {[st EXCEPT ![h] = @ \cup {"shut"}]} \cup {st}
             \/ st' = [st EXCEPT ![h] = @ \ {"reading"}]
      BY <1>6 DEF DrainAndShutdown, CloseStream, Marks
    <3>2. st = [st EXCEPT ![h] = st[h]]
      BY DEF MarksFit
    <3> QED BY <1>1, <3>1, <3>2
  <2>2. PICK M \in SUBSET Marks : st' = [st EXCEPT ![h] = M]
    BY <2>1
  <2>3. MarksFit' /\ \A g \in Streams : g # h => st'[g] = st[g]
    BY <2>2 DEF MarksFit
  <2> QED BY <1>6, <2>3
<1>7. CASE \/ ReadData(h) \/ ReadAgain(h) \/ ReadDone(h) \/ WriteReady(h) \/ CallWritten(h)
           \/ MoreToWrite(h) \/ Drain(h) \/ AcceptError(h) \/ NothingToAccept(h)
           \/ AfterAccept(h) \/ CancelConnect(h) \/ CancelWrite(h)
           \/ CancelShutdown(h) \/ Finished(h)
           \/ \E f \in Fds : ReadHandle(h, f) \/ ServerAccept(h, f)
  <2>1. UNCHANGED st
    BY <1>7 DEF ReadData, ReadAgain, ReadDone, WriteReady, CallWritten, MoreToWrite, Drain,
       AcceptError, NothingToAccept, AfterAccept, CancelConnect, CancelWrite, CancelShutdown,
       Finished, ReadHandle, ServerAccept, streamVars
  <2> QED BY <1>2, <2>1
<1> QED BY <1>3, <1>4, <1>5, <1>6, <1>7 DEF StreamStep

(* The stream is shut down after the last callback.                        *)
LEMMA ShutLast ==
  ASSUME RequestsInv, MarksFit, [Next]_vars
  PROVE  /\ MarksFit'
         /\ \A h \in Streams : "shut" \in st'[h] \ st[h] => Outstanding(h) = <<>>
<1>1. ASSUME NEW g \in Streams, DrainAndShutdown(g) PROVE Outstanding(g) = <<>>
  BY <1>1, StreamsHaveTheirs DEF DrainAndShutdown, Drains, RequestsInv
<1>2. CASE UNCHANGED vars \/ UNCHANGED streamVars
  <2>1. UNCHANGED st
    BY <1>2 DEF vars, streamVars
  <2> QED BY <2>1 DEF MarksFit
<1>3. CASE \E h \in Streams : StreamCall(h) \/ StreamStep(h)
  BY <1>1, <1>3, CallMarks, StepMarks
<1> QED BY <1>2, <1>3 DEF Next

LEMMA EachIsKept == RequestsInv => RequestsAreKept
<1> SUFFICES ASSUME RequestsInv PROVE RequestsAreKept
  OBVIOUS
<1>1. RequestTypes /\ EachIsOfOne
  BY DEF RequestsInv
<1>2. ASSUME NEW x
      PROVE  x \in reqs <=> \/ \E h \in Streams : x \in ToSet(Outstanding(h))
                            \/ \E h \in connect : x = ConnectReq(h)
                            \/ \E h \in shutdown : x = ShutdownReq(h)
  <2>1. x \in reqs <=> \E h \in Streams : x \in RequestsOf(h)
    BY <1>1 DEF EachIsOfOne
  <2>2. ASSUME NEW h \in Streams
        PROVE  x \in RequestsOf(h) <=> \/ x \in ToSet(Outstanding(h))
                                       \/ h \in connect /\ x = ConnectReq(h)
                                       \/ h \in shutdown /\ x = ShutdownReq(h)
    <3>1. RequestsOf(h) = ToSet(Outstanding(h))
              \cup (IF h \in connect THEN {ConnectReq(h)} ELSE {})
              \cup (IF h \in shutdown THEN {ShutdownReq(h)} ELSE {})
      BY <1>1, StreamsHaveTheirs
    <3> QED BY <3>1
  <2>3. connect \subseteq Streams /\ shutdown \subseteq Streams
    BY <1>1 DEF RequestTypes
  <2> QED BY <2>1, <2>2, <2>3
<1>3. reqs = (UNION {ToSet(Outstanding(h)) : h \in Streams})
              \cup {ConnectReq(h) : h \in connect}
              \cup {ShutdownReq(h) : h \in shutdown}
  BY <1>2
<1>4. ASSUME NEW g \in Streams, NEW h \in Streams, g # h
      PROVE  ToSet(Outstanding(g)) \cap ToSet(Outstanding(h)) = {}
  BY <1>1, <1>4 DEF EachIsOfOne, RequestsOf
<1> QED BY <1>1, <1>3, <1>4 DEF RequestsAreKept, EachIsOfOne

(* Every request that keeps the loop alive is in one place, in the queues, *)
(* connect_req or shutdown_req of one stream, until its callback is made.  *)
THEOREM StreamRequestsAreKept == Spec => []RequestsAreKept
<1>1. RequestsInv /\ [Next]_vars => RequestsInv'
  BY RequestsNextKeeps
<1> QED BY <1>1, RequestsInitFits, EachIsKept, PTL DEF Spec

(* uv__write(), uv__write_callbacks() and uv__drain() make the callbacks   *)
(* in the order of uv_write(), and shut the stream down after them.        *)
THEOREM WritesAreAnsweredInOrder == Spec => AnsweredInOrder
<1>1. RequestsInv /\ [Next]_vars => RequestsInv'
  BY RequestsNextKeeps
<1>2. Init => MarksFit
  BY DEF Init, StreamInit, MarksFit, Marks
<1>3. RequestsInv /\ MarksFit /\ [Next]_vars => MarksFit'
  BY ShutLast
<1>4. RequestsInv /\ MarksFit /\ [Next]_vars =>
        \A h \in Streams : Usable(h) =>
          /\ \/ \E new \in {<<>>} \cup {<<r>> : r \in Writes} :
                  Outstanding(h)' = Outstanding(h) \o new
             \/ Outstanding(h) # <<>> /\ Outstanding(h)' = Tail(Outstanding(h))
          /\ "shut" \in st'[h] \ st[h] => Outstanding(h) = <<>>
  BY RequestsNextKeeps, ShutLast DEF Usable, WritesInOrder, WritesGoOn
<1> QED BY <1>1, <1>2, <1>3, <1>4, RequestsInitFits, PTL DEF Spec, AnsweredInOrder

-----------------------------------------------------------------------------
(* The watchers and the descriptors of the streams of UvStreamIo, in a     *)
(* program whose I/O handles are all streams, as the run has it.           *)
StreamsOnly ==
  /\ Handles = Streams /\ Faulty = {}
  /\ {"reuse", "late", "lingers"} \cap Habits = {}

(* The functions of uv__stream_io(), uv__server_io() and the end.          *)
StreamLabels == {"none", "io", "read", "write", "failed", "written", "accept", "accepted",
                 "finish", "closed"}
StreamFrames == [at : StreamLabels, h : Handles \cup {None}, evs : SUBSET Events]

(* A function of the loop is under way for h.                              *)
Under(h, labels) == frame.h = h /\ frame.at \in labels

StreamLoopFits ==
  /\ IoFit(io, Handles) /\ IsInjective(io.pending)
  /\ batch \in [Fds -> SUBSET Events]
  /\ frame \in StreamFrames
  /\ frame.at = "none" => frame.h = None
  /\ frame.at = "io" => ~user

(* Every descriptor has one owner, and epoll has none that is closed.      *)
OwnersFit ==
  /\ accepted \in [Streams -> Fds \cup {None}]
  /\ \A h \in Streams : \A f \in Held[h] : f \in io.open
  /\ \A f \in io.open : \E h \in Streams : f \in Held[h]
  /\ \A g, h \in Streams : g # h => Held[g] \cap Held[h] = {}
  /\ \A h \in Streams : accepted[h] # None => accepted[h] # io.fd[h]
  /\ \A f \in Fds \ io.open : io.epoll[f] = {}

(* After uv_close() nothing is left but requests.                          *)
CloseFits(h) == ~Usable(h) =>
  io.fd[h] = None /\ accepted[h] = None /\ ~Fed(h) /\ "reading" \notin st[h]

(* Without a socket there is at most a connection that failed at once.     *)
SocketFits(h) == Usable(h) /\ io.fd[h] = None =>
  /\ wq[h] = <<>> /\ done[h] = <<>> /\ h \notin shutdown /\ accepted[h] = None
  /\ h \notin listening /\ "reading" \notin st[h] /\ "writable" \notin st[h]
  /\ h \in connect => h \in delayed
  /\ Fed(h) => h \in connect

(* A listener waits for connections, but for one that is not taken.        *)
ListenFits(h) == Usable(h) /\ h \in listening =>
  /\ wq[h] = <<>> /\ done[h] = <<>> /\ h \notin connect /\ h \notin shutdown
  /\ "reading" \notin st[h] /\ "writable" \notin st[h] /\ ~Fed(h)
  /\ io.pevents[h] \subseteq {"in"} /\ io.epoll[io.fd[h]] \subseteq {"in"}
  /\ batch[io.fd[h]] \subseteq {"in"}
  /\ accepted[h] = None => "in" \in io.pevents[h]
  /\ accepted[h] # None /\ ~Under(h, {"accepted"}) => "in" \notin io.pevents[h]

ConnectFits(h) == Usable(h) =>
  /\ h \in delayed => h \in connect
  /\ h \in connect =>
       /\ done[h] = <<>>
       /\ h \notin delayed => "out" \in io.pevents[h]
       /\ h \in delayed => Fed(h) \/ Under(h, {"io"})

(* What is written is watched or fed, until its callback is made.          *)
WriteFits(h) == Usable(h) =>
  /\ wq[h] # <<>> \/ h \in shutdown =>
       "out" \in io.pevents[h] \/ h \in connect \/ "refused" \in st[h]
  /\ done[h] # <<>> =>
       \/ Fed(h) \/ Under(h, {"written"})
       \/ Under(h, {"io", "read", "write", "failed"}) /\ "out" \in frame.evs

ShutdownFits(h) == Usable(h) =>
  /\ h \in shutdown <=> "shutting" \in st[h] /\ "shut" \notin st[h]
  /\ "shut" \in st[h] => "shutting" \in st[h]

ReadFits(h) == Usable(h) /\ "reading" \in st[h] /\ "eof" \notin st[h] =>
  "in" \in io.pevents[h] /\ IsActive(hs, h)

(* The function under way has a stream to work on.                         *)
UnderFits(h) ==
  /\ Under(h, {"io"}) => Usable(h)
  /\ Under(h, {"io"}) /\ io.fd[h] = None => h \in connect /\ ~Fed(h)
  /\ Under(h, {"read", "write", "failed", "written"}) =>
       h \notin connect /\ h \notin listening /\ (Usable(h) => io.fd[h] # None)
  /\ Under(h, {"accept", "accepted"}) => h \in listening
  /\ Under(h, {"io", "accept", "accepted"}) /\ h \in listening => frame.evs = {"in"}
  /\ Under(h, {"io", "accept"}) /\ h \in listening => accepted[h] = None

StreamFits(h) ==
  /\ CloseFits(h) /\ SocketFits(h) /\ ListenFits(h) /\ ConnectFits(h) /\ WriteFits(h)
  /\ ShutdownFits(h) /\ ReadFits(h) /\ UnderFits(h)

StreamsInv ==
  /\ RequestsInv /\ MarksFit /\ StreamLoopFits /\ OwnersFit
  /\ \A h \in Streams : StreamFits(h)

-----------------------------------------------------------------------------
(* The pending queue becomes q, all else is as it was.                     *)
PendsInstead(I, W, q, R) ==
  /\ IoFit(R, W)
  /\ R.pending = q /\ R.fd = I.fd /\ R.pevents = I.pevents /\ R.open = I.open
  /\ R.epoll = I.epoll /\ R.watchers = I.watchers

LEMMA PendingFits ==
  ASSUME NEW W, NEW I, IoFit(I, W), NEW q \in Seq(W), NEW R, R = [I EXCEPT !.pending = q]
  PROVE  PendsInstead(I, W, q, R)
<1>1. I \in WatchersOf(W)
  BY DEF IoFit
<1>2. /\ R \in WatchersOf(W) /\ R.ok = I.ok
      /\ R.pending = q /\ R.fd = I.fd /\ R.pevents = I.pevents /\ R.open = I.open
      /\ R.epoll = I.epoll /\ R.watchers = I.watchers /\ R.events = I.events
      /\ R.queue = I.queue
  BY <1>1 DEF WatchersOf
<1>3. FdsAreOwn(R, W) /\ WatchersFit(R, W) /\ KernelFits(R, W)
  BY <1>2 DEF IoFit, FdsAreOwn, WatchersFit, CalledFits, WantsFits, KernelFits, ToldFits
<1>4. IoFit(R, W)
  BY <1>2, <1>3 DEF IoFit
<1> QED BY <1>2, <1>4 DEF PendsInstead

(* uv__io_feed()                                                           *)
Feeds(I, W, w, R) ==
  /\ PendsInstead(I, W, R.pending, R) /\ IsInjective(R.pending)
  /\ ToSet(R.pending) = ToSet(I.pending) \cup {w}

LEMMA IoFeedFits ==
  ASSUME NEW W, NEW I, IoFit(I, W), IsInjective(I.pending), NEW w \in W,
         NEW R, R = IoFeed(I, w)
  PROVE  Feeds(I, W, w, R)
<1>1. I.pending \in Seq(W) /\ I \in WatchersOf(W)
  BY WatchersTypes DEF IoFit
<1> DEFINE q == I.pending
<1>2. w \in ToSet(q) <=> \E i \in DOMAIN q : q[i] = w
  BY DEF ToSet
<1>3. CASE w \in ToSet(q)
  <2>1. R = [I EXCEPT !.pending = q]
    BY <1>2, <1>3 DEF IoFeed
  <2>2. PendsInstead(I, W, q, R)
    BY <1>1, <2>1, PendingFits
  <2> QED BY <1>3, <2>2 DEF PendsInstead, Feeds
<1>4. CASE w \notin ToSet(q)
  <2>1. R = [I EXCEPT !.pending = Append(q, w)]
    BY <1>2, <1>4 DEF IoFeed
  <2>2. /\ Append(q, w) \in Seq(W) /\ IsInjective(Append(q, w))
        /\ ToSet(Append(q, w)) = ToSet(q) \cup {w}
    BY <1>1, <1>4, AppendElements
  <2>3. PendsInstead(I, W, Append(q, w), R)
    BY <2>1, <2>2, PendingFits
  <2>4. R.pending = Append(q, w)
    BY <2>3 DEF PendsInstead
  <2> QED BY <2>2, <2>3, <2>4 DEF Feeds
<1> QED BY <1>3, <1>4

(* accept() and recvmsg() open a descriptor that no watcher has.           *)
OpensOnly(I, W, f, R) ==
  /\ IoFit(R, W)
  /\ R.pending = I.pending /\ R.fd = I.fd /\ R.pevents = I.pevents
  /\ R.open = I.open \cup {f} /\ R.epoll = I.epoll /\ R.watchers = I.watchers

LEMMA OnlyOpenedFits ==
  ASSUME NEW W, NEW I, IoFit(I, W), NEW f \in Fds, NEW R, R = Opened(I, f)
  PROVE  OpensOnly(I, W, f, R)
<1>1. I \in WatchersOf(W) /\ I.open \in SUBSET Fds
  BY WatchersTypes DEF IoFit
<1>2. /\ R \in WatchersOf(W) /\ R.ok = I.ok
      /\ R.pending = I.pending /\ R.fd = I.fd /\ R.pevents = I.pevents
      /\ R.open = I.open \cup {f}
      /\ R.epoll = I.epoll /\ R.watchers = I.watchers /\ R.events = I.events
      /\ R.queue = I.queue
  BY <1>1 DEF WatchersOf, Opened
<1>3. FdsAreOwn(R, W) /\ WatchersFit(R, W) /\ KernelFits(R, W)
  BY <1>2 DEF IoFit, FdsAreOwn, WatchersFit, CalledFits, WantsFits, KernelFits, ToldFits
<1>4. IoFit(R, W)
  BY <1>2, <1>3 DEF IoFit
<1> QED BY <1>2, <1>4 DEF OpensOnly

(* uv_accept() gives w a descriptor that is open and that no watcher has.  *)
GivenFd(I, W, w, f, R) ==
  /\ IoFit(R, W)
  /\ R.pending = I.pending /\ R.fd = [I.fd EXCEPT ![w] = f] /\ R.pevents = I.pevents
  /\ R.open = I.open /\ R.epoll = I.epoll /\ R.watchers = I.watchers

LEMMA GivenFdFits ==
  ASSUME NEW W, NEW I, IoFit(I, W), None \notin W, NEW w \in W, I.fd[w] = None,
         NEW f \in Fds, f \in I.open, \A v \in W : I.fd[v] # f,
         NEW R, R = [I EXCEPT !.fd[w] = f]
  PROVE  GivenFd(I, W, w, f, R)
<1>1. I \in WatchersOf(W) /\ FdsAreOwn(I, W) /\ WantsFits(I, w)
  BY DEF IoFit, WatchersFit
<1>2. I.fd \in [W -> Fds \cup {None}]
  BY <1>1, WatchersTypes
<1>3. /\ R \in WatchersOf(W) /\ R.ok = I.ok
      /\ R.pending = I.pending /\ R.fd = [I.fd EXCEPT ![w] = f] /\ R.pevents = I.pevents
      /\ R.open = I.open
      /\ R.epoll = I.epoll /\ R.watchers = I.watchers /\ R.events = I.events
      /\ R.queue = I.queue
  BY <1>1, <1>2 DEF WatchersOf
<1>4. OtherFd(I, W, w, f, R)
  BY <1>3 DEF OtherFd
<1>5. ASSUME NEW v \in W PROVE R.fd[v] = IF v = w THEN f ELSE I.fd[v]
  BY <1>2, <1>3
<1>6. FdsAreOwn(R, W)
  BY <1>1, <1>3, <1>5 DEF FdsAreOwn
<1>7. I.pevents[w] = {}
  BY <1>1 DEF WantsFits
<1>8. IoFit(R, W)
  BY <1>4, <1>6, <1>7, OtherFdFits
<1> QED BY <1>3, <1>8 DEF GivenFd

(* close() of a descriptor that no watcher has.                            *)
ClosesFd(I, W, a, R) ==
  /\ IoFit(R, W)
  /\ R.pending = I.pending /\ R.fd = I.fd /\ R.pevents = I.pevents
  /\ R.open = I.open \ {a}
  /\ \A f \in Fds : R.epoll[f] = IF f = a THEN {} ELSE I.epoll[f]

LEMMA CloseFdFits ==
  ASSUME NEW W, NEW I, IoFit(I, W), NEW a \in Fds \cup {None},
         a = None \/ \A v \in W : I.fd[v] # a,
         NEW R, R = CloseFd(I, a)
  PROVE  ClosesFd(I, W, a, R)
<1>1. /\ I \in WatchersOf(W) /\ I.open \in SUBSET Fds /\ I.epoll \in [Fds -> SUBSET Events]
  BY WatchersTypes DEF IoFit
<1>2. CASE a = None
  <2>1. R = I /\ I.open = I.open \ {a} /\ \A f \in Fds : f # a
    BY <1>1, <1>2 DEF CloseFd
  <2> QED BY <2>1 DEF ClosesFd
<1>3. CASE a # None
  <2>1. a \in Fds
    BY <1>3
  <2>2. /\ R \in WatchersOf(W) /\ R.ok = I.ok
        /\ R.pending = I.pending /\ R.fd = I.fd /\ R.pevents = I.pevents
        /\ R.open = I.open \ {a}
        /\ R.epoll = [I.epoll EXCEPT ![a] = {}] /\ R.watchers = I.watchers
        /\ R.events = I.events /\ R.queue = I.queue
    BY <1>1, <1>3, <2>1 DEF WatchersOf, CloseFd
  <2>3. ASSUME NEW f \in Fds PROVE R.epoll[f] = IF f = a THEN {} ELSE I.epoll[f]
    BY <1>1, <2>2
  <2>4. FdsAreOwn(R, W) /\ WatchersFit(R, W)
    BY <1>3, <2>2 DEF IoFit, FdsAreOwn, WatchersFit, CalledFits, WantsFits
  <2>5. ASSUME NEW w \in W PROVE ToldFits(R, w)
    <3>1. ToldFits(I, w) /\ WantsFits(I, w) /\ I.fd[w] \in Fds \cup {None}
      BY <1>1, WatchersTypes DEF IoFit, KernelFits, WatchersFit
    <3>2. ASSUME I.events[w] # {} PROVE R.epoll[R.fd[w]] = I.epoll[I.fd[w]]
      <4>1. I.fd[w] \in Fds /\ I.fd[w] # a
        BY <1>3, <3>1, <3>2 DEF ToldFits, WantsFits
      <4> QED BY <2>2, <2>3, <4>1
    <3> QED BY <2>2, <3>1, <3>2 DEF ToldFits
  <2>6. IoFit(R, W)
    BY <2>2, <2>4, <2>5 DEF IoFit, KernelFits
  <2> QED BY <2>2, <2>3, <2>6 DEF ClosesFd
<1> QED BY <1>2, <1>3

(* A watcher that waits for nothing gives its descriptor up.               *)
ShutsFd(I, W, w, R) ==
  /\ IoFit(R, W)
  /\ R.pending = I.pending /\ R.fd = [I.fd EXCEPT ![w] = None] /\ R.pevents = I.pevents
  /\ R.open = I.open \ {I.fd[w]}
  /\ \A f \in Fds : R.epoll[f] = IF f = I.fd[w] THEN {} ELSE I.epoll[f]

LEMMA ShutFdFits ==
  ASSUME NEW W, NEW I, IoFit(I, W), None \notin W, NEW w \in W, I.pevents[w] = {},
         NEW R, R = CloseFd([I EXCEPT !.fd[w] = None], I.fd[w])
  PROVE  ShutsFd(I, W, w, R)
<1> DEFINE K == [I EXCEPT !.fd[w] = None]
           f == I.fd[w]
<1>1. /\ I \in WatchersOf(W) /\ I.open \in SUBSET Fds /\ I.epoll \in [Fds -> SUBSET Events]
      /\ I.fd \in [W -> Fds \cup {None}] /\ f \in Fds \cup {None}
  BY WatchersTypes DEF IoFit
<1>2. /\ K \in WatchersOf(W) /\ K.fd = [I.fd EXCEPT ![w] = None] /\ K.open = I.open
      /\ K.pevents = I.pevents /\ K.events = I.events /\ K.queue = I.queue
      /\ K.watchers = I.watchers /\ K.pending = I.pending /\ K.ok = I.ok
      /\ K.epoll = I.epoll
  BY <1>1 DEF WatchersOf
<1>3. R = CloseFd(K, f)
  OBVIOUS
<1> HIDE DEF K, f
<1>4. /\ R \in WatchersOf(W) /\ R.fd = K.fd /\ R.open = K.open \ {f}
      /\ R.pevents = K.pevents /\ R.events = K.events /\ R.queue = K.queue
      /\ R.watchers = K.watchers /\ R.pending = K.pending /\ R.ok = K.ok
      /\ \A g \in Fds : R.epoll[g] = IF g = f THEN {} ELSE K.epoll[g]
  <2>1. CASE f = None
    <3>1. R = K /\ K.open = K.open \ {f}
      BY <1>1, <1>2, <1>3, <2>1 DEF CloseFd
    <3> QED BY <1>2, <2>1, <3>1
  <2>2. CASE f # None
    <3>1. R = [K EXCEPT !.open = @ \ {f}, !.epoll[f] = {}] /\ f \in Fds
      BY <1>1, <1>3, <2>2 DEF CloseFd
    <3>2. /\ R.fd = K.fd /\ R.open = K.open \ {f}
          /\ R.pevents = K.pevents /\ R.events = K.events /\ R.queue = K.queue
          /\ R.watchers = K.watchers /\ R.pending = K.pending /\ R.ok = K.ok
          /\ R.epoll = [K.epoll EXCEPT ![f] = {}]
      BY <1>2, <3>1 DEF WatchersOf
    <3>3. R \in WatchersOf(W)
      <4>1. /\ [K.epoll EXCEPT ![f] = {}] \in [Fds -> SUBSET Events]
            /\ K.open \ {f} \in SUBSET Fds /\ K \in WatchersOf(W)
        BY <1>1, <1>2
      <4>2. R = [K EXCEPT !.open = K.open \ {f}, !.epoll = [K.epoll EXCEPT ![f] = {}]]
        BY <3>1, <4>1 DEF WatchersOf
      <4> QED BY <4>1, <4>2 DEF WatchersOf
    <3> QED BY <1>1, <1>2, <3>2, <3>3
  <2> QED BY <2>1, <2>2
<1>5. OtherFd(I, W, w, None, R) /\ R.open = I.open \ {I.fd[w]}
  BY <1>2, <1>4 DEF OtherFd, f
<1>6. IoFit(R, W)
  BY <1>5, FdClosedFits
<1> QED BY <1>2, <1>4, <1>6 DEF ShutsFd, f

(* uv__stream_close(): the watcher w is closed with its descriptor and one *)
(* that was accepted.                                                      *)
ClosesBoth(I, W, w, a, R) ==
  /\ IoFit(R, W) /\ IsInjective(R.pending) /\ ToSet(R.pending) = ToSet(I.pending) \ {w}
  /\ R.fd = [I.fd EXCEPT ![w] = None]
  /\ R.pevents[w] = {} /\ \A v \in W : v # w => R.pevents[v] = I.pevents[v]
  /\ R.open = I.open \ {I.fd[w], a}
  /\ \A f \in Fds : R.epoll[f] = IF f \in {I.fd[w], a} THEN {} ELSE I.epoll[f]

LEMMA ClosedBothFits ==
  ASSUME NEW W, NEW I, IoFit(I, W), IsInjective(I.pending), None \notin W, NEW w \in W,
         NEW a \in Fds \cup {None}, a = None \/ \A v \in W : I.fd[v] # a,
         NEW R, R = CloseFd(CloseFd([IoClose(I, w) EXCEPT !.fd[w] = None], I.fd[w]), a)
  PROVE  ClosesBoth(I, W, w, a, R)
<1> DEFINE J == IoStop(I, w, {"in", "out"})
           q == RemoveFirst(J.pending, w)
           K == [J EXCEPT !.pending = q]
           L == CloseFd([K EXCEPT !.fd[w] = None], I.fd[w])
<1>1. WantsInstead(I, W, w, I.pevents[w] \ {"in", "out"}, J)
  BY IoStopFits
<1>2. I.pevents[w] \ {"in", "out"} = {} /\ I.pending \in Seq(W)
      /\ I.fd \in [W -> Fds \cup {None}]
  BY WatchersTypes DEF IoFit
<1>3. K = IoClose(I, w) /\ R = CloseFd(L, a)
  BY DEF IoClose
<1> HIDE DEF J
<1>4. J.pending = I.pending
  BY <1>1 DEF WantsInstead
<1>5. q \in Seq(W) /\ IsInjective(q) /\ ToSet(q) = ToSet(I.pending) \ {w}
  BY <1>2, <1>4, RemoveFirstElements
<1> HIDE DEF q
<1>6. PendsInstead(J, W, q, K)
  BY <1>1, <1>5, PendingFits DEF WantsInstead
<1> HIDE DEF K
<1>7. /\ IoFit(K, W) /\ K.pevents[w] = {} /\ K.fd = I.fd /\ K.open = I.open
      /\ K.epoll = I.epoll /\ K.pending = q
      /\ \A v \in W : v # w => K.pevents[v] = I.pevents[v]
  BY <1>1, <1>2, <1>6 DEF PendsInstead, WantsInstead
<1>8. L = CloseFd([K EXCEPT !.fd[w] = None], K.fd[w])
  BY <1>7
<1> HIDE DEF L
<1>9. ShutsFd(K, W, w, L)
  BY <1>7, <1>8, ShutFdFits
<1>10. /\ IoFit(L, W) /\ L.pending = q /\ L.fd = [I.fd EXCEPT ![w] = None]
       /\ L.pevents = K.pevents /\ L.open = I.open \ {I.fd[w]}
       /\ \A f \in Fds : L.epoll[f] = IF f = I.fd[w] THEN {} ELSE I.epoll[f]
  BY <1>7, <1>9 DEF ShutsFd
<1>11. a = None \/ \A v \in W : L.fd[v] # a
  BY <1>2, <1>10
<1>12. ClosesFd(L, W, a, R)
  BY <1>3, <1>10, <1>11, CloseFdFits
<1>13. /\ IoFit(R, W) /\ R.pending = q /\ R.fd = [I.fd EXCEPT ![w] = None]
       /\ R.pevents = K.pevents /\ R.open = I.open \ {I.fd[w], a}
       /\ \A f \in Fds : R.epoll[f] = IF f \in {I.fd[w], a} THEN {} ELSE I.epoll[f]
  BY <1>10, <1>12 DEF ClosesFd
<1> QED BY <1>5, <1>7, <1>13 DEF ClosesBoth

(* uv__io_poll() tells epoll what is wanted; there are no faults.          *)
LEMMA ArmTells ==
  ASSUME NEW W, NEW I, IoFit(I, W), NEW R, R = Arm(I, {}), NEW f \in Fds
  PROVE  \/ R.epoll[f] = I.epoll[f]
         \/ \E w \in W : I.fd[w] = f /\ R.epoll[f] = I.pevents[w]
<1> DEFINE changed == {w \in I.queue : I.events[w] # I.pevents[w]}
           at == {w \in changed : I.fd[w] = f}
<1>1. I \in WatchersOf(W) /\ I.queue \in SUBSET W /\ FdsAreOwn(I, W)
  BY WatchersTypes DEF IoFit
<1>2. R.epoll[f] = IF at = {} THEN I.epoll[f] ELSE (UNION {I.pevents[v] : v \in at}) \cup {}
  BY <1>1 DEF Arm, Asserting, WatchersOf
<1>3. CASE at = {}
  BY <1>2, <1>3
<1>4. CASE at # {}
  <2>1. PICK w \in at : TRUE
    BY <1>4
  <2>2. \A v \in at : v = w
    BY <1>1, <2>1 DEF FdsAreOwn
  <2>3. at = {w} /\ w \in W /\ I.fd[w] = f
    BY <1>1, <2>1, <2>2
  <2> HIDE DEF at
  <2>4. (UNION {I.pevents[v] : v \in at}) \cup {} = I.pevents[w]
    BY <2>3
  <2>5. R.epoll[f] = (UNION {I.pevents[v] : v \in at}) \cup {}
    BY <1>2, <1>4
  <2>6. R.epoll[f] = I.pevents[w]
    BY <2>4, <2>5
  <2> QED BY <2>3, <2>6
<1> QED BY <1>3, <1>4
-----------------------------------------------------------------------------
(* Descriptors that are opened, closed and passed on.                      *)
LEMMA HeldNow ==
  ASSUME NEW h \in Streams
  PROVE  /\ Held[h] = {io.fd[h], accepted[h]} \ {None}
         /\ Held'[h] = {io'.fd[h], accepted'[h]} \ {None}
BY DEF Held

LEMMA OwnersChange ==
  ASSUME OwnersFit, NEW h \in Streams, accepted' \in [Streams -> Fds \cup {None}],
         \A g \in Streams : g # h => io'.fd[g] = io.fd[g] /\ accepted'[g] = accepted[g],
         \A f \in Held'[h] : f \in Held[h] \/ f \notin io.open,
         io'.open = (io.open \ Held[h]) \cup Held'[h],
         accepted'[h] # None => accepted'[h] # io'.fd[h],
         \A f \in Fds \ io'.open : io'.epoll[f] = {}
  PROVE  OwnersFit'
<1>1. ASSUME NEW g \in Streams, g # h PROVE Held'[g] = Held[g]
  <2>1. /\ Held[g] = {io.fd[g], accepted[g]} \ {None}
        /\ Held'[g] = {io'.fd[g], accepted'[g]} \ {None}
    BY HeldNow
  <2> QED BY <1>1, <2>1
<1>2. ASSUME NEW g \in Streams, g # h PROVE Held'[g] \cap Held'[h] = {}
  <2>1. SUFFICES ASSUME NEW f \in Held[g], f \in Held'[h] PROVE FALSE
    BY <1>1, <1>2
  <2>2. f \in io.open /\ f \notin Held[h]
    BY <1>2, <2>1 DEF OwnersFit
  <2> QED BY <2>1, <2>2
<1>3. ASSUME NEW g \in Streams, NEW f \in Held'[g] PROVE f \in io'.open
  <2>1. CASE g = h
    BY <1>3, <2>1
  <2>2. CASE g # h
    <3>1. f \in Held[g] /\ f \in io.open /\ f \notin Held[h]
      BY <1>1, <1>3, <2>2 DEF OwnersFit
    <3> QED BY <3>1
  <2> QED BY <2>1, <2>2
<1>4. ASSUME NEW f \in io'.open PROVE \E g \in Streams : f \in Held'[g]
  <2>1. CASE f \in Held'[h]
    BY <2>1
  <2>2. CASE f \notin Held'[h]
    <3>1. f \in io.open /\ f \notin Held[h]
      BY <1>4, <2>2
    <3>2. PICK g \in Streams : f \in Held[g]
      BY <3>1 DEF OwnersFit
    <3>3. g # h
      BY <3>1, <3>2
    <3> QED BY <1>1, <3>2, <3>3
  <2> QED BY <2>1, <2>2
<1>5. ASSUME NEW e \in Streams, NEW g \in Streams, e # g PROVE Held'[e] \cap Held'[g] = {}
  <2>1. CASE e = h \/ g = h
    BY <1>2, <1>5, <2>1
  <2>2. CASE e # h /\ g # h
    <3>1. Held[e] \cap Held[g] = {}
      BY <1>5 DEF OwnersFit
    <3> QED BY <1>1, <2>2, <3>1
  <2> QED BY <2>1, <2>2
<1>6. ASSUME NEW g \in Streams, accepted'[g] # None PROVE accepted'[g] # io'.fd[g]
  BY <1>6 DEF OwnersFit
<1> QED BY <1>3, <1>4, <1>5, <1>6 DEF OwnersFit

LEMMA OwnersStand ==
  ASSUME OwnersFit, UNCHANGED accepted, io'.fd = io.fd, io'.open = io.open,
         \A f \in Fds : io.epoll[f] = {} => io'.epoll[f] = {}
  PROVE  OwnersFit'
<1>1. Held' = Held
  BY DEF Held
<1> QED BY <1>1 DEF OwnersFit

(* socket(): h had none.                                                   *)
LEMMA OwnersTake ==
  ASSUME OwnersFit, NEW h \in Streams, io.fd[h] = None, NEW f \in Fds, f \notin io.open,
         UNCHANGED accepted, io'.fd[h] = f, \A g \in Streams : g # h => io'.fd[g] = io.fd[g],
         io'.open = io.open \cup {f}, io'.epoll = io.epoll
  PROVE  OwnersFit'
<1>1. Held[h] = {accepted[h]} \ {None} /\ Held'[h] = Held[h] \cup {f}
  BY HeldNow
<1>2. Held[h] \subseteq io.open
  BY DEF OwnersFit
<1>3. /\ io'.open = (io.open \ Held[h]) \cup Held'[h]
      /\ \A e \in Held'[h] : e \in Held[h] \/ e \notin io.open
  BY <1>1, <1>2
<1>4. accepted'[h] # None => accepted'[h] # io'.fd[h]
  BY <1>1, <1>2
<1>5. accepted' \in [Streams -> Fds \cup {None}] /\ \A e \in Fds \ io'.open : io'.epoll[e] = {}
  BY DEF OwnersFit
<1> QED BY <1>3, <1>4, <1>5, OwnersChange

(* accept(), or a message with a descriptor                                *)
LEMMA OwnersAccept ==
  ASSUME OwnersFit, NEW h \in Streams, accepted[h] = None, NEW f \in Fds, f \notin io.open,
         accepted' = [accepted EXCEPT ![h] = f], io'.fd = io.fd,
         io'.open = io.open \cup {f}, io'.epoll = io.epoll
  PROVE  OwnersFit'
<1>1. /\ accepted' \in [Streams -> Fds \cup {None}] /\ accepted'[h] = f
      /\ \A g \in Streams : g # h => accepted'[g] = accepted[g]
  BY DEF OwnersFit
<1>2. Held[h] = {io.fd[h]} \ {None} /\ Held'[h] = Held[h] \cup {f}
  BY <1>1, HeldNow
<1>3. Held[h] \subseteq io.open
  BY DEF OwnersFit
<1>4. /\ io'.open = (io.open \ Held[h]) \cup Held'[h]
      /\ \A e \in Held'[h] : e \in Held[h] \/ e \notin io.open
  BY <1>2, <1>3
<1>5. accepted'[h] # io'.fd[h]
  BY <1>1, <1>2, <1>3
<1>6. \A e \in Fds \ io'.open : io'.epoll[e] = {}
  BY DEF OwnersFit
<1> QED BY <1>1, <1>4, <1>5, <1>6, OwnersChange

(* uv__stream_close()                                                      *)
LEMMA OwnersLose ==
  ASSUME OwnersFit, NEW h \in Streams, accepted' = [accepted EXCEPT ![h] = None],
         io'.fd[h] = None, \A g \in Streams : g # h => io'.fd[g] = io.fd[g],
         None \notin io.open, io'.open = io.open \ {io.fd[h], accepted[h]},
         \A f \in Fds : io'.epoll[f] = IF f \in {io.fd[h], accepted[h]} THEN {} ELSE io.epoll[f]
  PROVE  OwnersFit'
<1>1. /\ accepted' \in [Streams -> Fds \cup {None}] /\ accepted'[h] = None
      /\ \A g \in Streams : g # h => accepted'[g] = accepted[g]
  BY DEF OwnersFit
<1>2. Held[h] = {io.fd[h], accepted[h]} \ {None} /\ Held'[h] = {}
  BY <1>1, HeldNow
<1>3. io'.open = (io.open \ Held[h]) \cup Held'[h]
  BY <1>2
<1>4. \A e \in Fds \ io'.open : io'.epoll[e] = {}
  BY DEF OwnersFit
<1> QED BY <1>1, <1>2, <1>3, <1>4, OwnersChange

(* uv_accept()                                                             *)
LEMMA OwnersMove ==
  ASSUME OwnersFit, NEW h \in Streams, NEW k \in Streams, h # k,
         accepted[h] # None, io.fd[k] = None, accepted[k] = None,
         accepted' = [accepted EXCEPT ![h] = None],
         io'.fd[k] = accepted[h], \A g \in Streams : g # k => io'.fd[g] = io.fd[g],
         io'.open = io.open, io'.epoll = io.epoll
  PROVE  OwnersFit'
<1> DEFINE f == accepted[h]
<1>1. /\ accepted' \in [Streams -> Fds \cup {None}] /\ accepted'[h] = None
      /\ \A g \in Streams : g # h => accepted'[g] = accepted[g]
  BY DEF OwnersFit
<1>2. f \in Held[h] /\ Held'[h] = Held[h] \ {f} /\ Held[k] = {} /\ Held'[k] = {f}
  <2>1. f # None /\ f # io.fd[h] /\ io'.fd[h] = io.fd[h] /\ accepted'[k] = None
    BY <1>1 DEF OwnersFit
  <2> QED BY <1>1, <2>1, HeldNow
<1> HIDE DEF f
<1>3. ASSUME NEW g \in Streams, g # h, g # k PROVE Held'[g] = Held[g] /\ f \notin Held[g]
  <2>1. /\ Held[g] = {io.fd[g], accepted[g]} \ {None}
        /\ Held'[g] = {io'.fd[g], accepted'[g]} \ {None}
    BY HeldNow
  <2>2. Held[g] \cap Held[h] = {}
    BY <1>3 DEF OwnersFit
  <2> QED BY <1>1, <1>2, <1>3, <2>1, <2>2
<1>4. ASSUME NEW g \in Streams, NEW e \in Held'[g] PROVE e \in io'.open
  BY <1>2, <1>3, <1>4 DEF OwnersFit
<1>5. ASSUME NEW e \in io'.open PROVE \E g \in Streams : e \in Held'[g]
  <2>1. PICK g \in Streams : e \in Held[g]
    BY <1>5 DEF OwnersFit
  <2> QED BY <1>2, <1>3, <2>1
<1>6. ASSUME NEW e \in Streams, NEW g \in Streams, e # g PROVE Held'[e] \cap Held'[g] = {}
  <2>1. Held[e] \cap Held[g] = {}
    BY <1>6 DEF OwnersFit
  <2> QED BY <1>2, <1>3, <1>6, <2>1
<1>7. ASSUME NEW g \in Streams, accepted'[g] # None PROVE accepted'[g] # io'.fd[g]
  <2>1. g # h /\ accepted[g] # None /\ g # k
    BY <1>1, <1>7
  <2> QED BY <1>1, <2>1 DEF OwnersFit
<1> QED BY <1>1, <1>4, <1>5, <1>6, <1>7 DEF OwnersFit
-----------------------------------------------------------------------------
(* A step for the stream h leaves the others alone.                        *)
FlagsOf(h) == \A g \in Streams : g # h => hs'.flags[g] = hs.flags[g]
IoOf(h) == \A g \in Streams : g # h =>
  /\ io'.fd[g] = io.fd[g] /\ io'.pevents[g] = io.pevents[g]
  /\ Fed(g)' <=> Fed(g)
  /\ io.fd[g] # None => io'.epoll[io.fd[g]] = io.epoll[io.fd[g]]
VarsOf(h) == \A g \in Streams : g # h =>
  /\ wq'[g] = wq[g] /\ done'[g] = done[g] /\ st'[g] = st[g] /\ accepted'[g] = accepted[g]
  /\ g \in connect' <=> g \in connect
  /\ g \in shutdown' <=> g \in shutdown
  /\ g \in delayed' <=> g \in delayed
  /\ g \in listening' <=> g \in listening
FrameOf(h) == frame' = frame \/ (frame.h = h /\ frame'.h \in {h, None})
OnlyOf(h) == FlagsOf(h) /\ IoOf(h) /\ VarsOf(h) /\ FrameOf(h) /\ UNCHANGED batch

(* What is left of the stream g by a step that is not for it: epoll may be *)
(* told what g wants and report it.                                        *)
WorkLabels == {"io", "read", "write", "failed", "written", "accept", "accepted"}

Untouched(g) ==
  /\ Usable(g)' <=> Usable(g)
  /\ IsActive(hs, g)' <=> IsActive(hs, g)
  /\ io'.fd[g] = io.fd[g] /\ io'.pevents[g] = io.pevents[g]
  /\ Fed(g)' <=> Fed(g)
  /\ io.fd[g] # None =>
       /\ io'.epoll[io.fd[g]] \subseteq io.epoll[io.fd[g]] \cup io.pevents[g]
       /\ batch'[io.fd[g]] \subseteq
            batch[io.fd[g]] \cup io.epoll[io.fd[g]] \cup io.pevents[g]
  /\ wq'[g] = wq[g] /\ done'[g] = done[g] /\ st'[g] = st[g] /\ accepted'[g] = accepted[g]
  /\ g \in connect' <=> g \in connect
  /\ g \in shutdown' <=> g \in shutdown
  /\ g \in delayed' <=> g \in delayed
  /\ g \in listening' <=> g \in listening
  /\ frame' = frame \/ (~Under(g, WorkLabels) /\ ~Under(g, WorkLabels)')

LEMMA UntouchedFits ==
  ASSUME NEW g \in Streams, Untouched(g), StreamFits(g)
  PROVE  StreamFits(g)'
<1>1. /\ Usable(g)' <=> Usable(g)
      /\ IsActive(hs, g)' <=> IsActive(hs, g)
      /\ io'.fd[g] = io.fd[g] /\ io'.pevents[g] = io.pevents[g]
      /\ Fed(g)' <=> Fed(g)
      /\ io.fd[g] # None =>
           /\ io'.epoll[io.fd[g]] \subseteq io.epoll[io.fd[g]] \cup io.pevents[g]
           /\ batch'[io.fd[g]] \subseteq
                batch[io.fd[g]] \cup io.epoll[io.fd[g]] \cup io.pevents[g]
  BY DEF Untouched
<1>2. /\ wq'[g] = wq[g] /\ done'[g] = done[g] /\ st'[g] = st[g] /\ accepted'[g] = accepted[g]
      /\ g \in connect' <=> g \in connect
      /\ g \in shutdown' <=> g \in shutdown
      /\ g \in delayed' <=> g \in delayed
      /\ g \in listening' <=> g \in listening
  BY DEF Untouched
<1>3. ASSUME NEW L, L \subseteq WorkLabels PROVE Under(g, L)' <=> Under(g, L)
  BY <1>3 DEF Untouched, Under
<1>4. ASSUME NEW L, L \subseteq WorkLabels, Under(g, L) PROVE frame' = frame
  BY <1>4 DEF Untouched, Under
<1>5. CloseFits(g)' /\ SocketFits(g)'
  BY <1>1, <1>2 DEF StreamFits, CloseFits, SocketFits
<1>6. ListenFits(g)'
  <2>1. SUFFICES ASSUME Usable(g)', g \in listening' PROVE ListenFits(g)'
    BY DEF ListenFits
  <2>2. io.fd[g] # None /\ ListenFits(g) /\ Usable(g) /\ g \in listening
    BY <1>1, <1>2, <2>1 DEF StreamFits, SocketFits
  <2>3. Under(g, {"accepted"})' <=> Under(g, {"accepted"})
    BY <1>3 DEF WorkLabels
  <2>4. io'.epoll[io'.fd[g]] \subseteq {"in"} /\ batch'[io'.fd[g]] \subseteq {"in"}
    BY <1>1, <2>2 DEF ListenFits
  <2> QED BY <1>1, <1>2, <2>2, <2>3, <2>4 DEF ListenFits
<1>7. ConnectFits(g)'
  <2>1. Under(g, {"io"})' <=> Under(g, {"io"})
    BY <1>3 DEF WorkLabels
  <2> QED BY <1>1, <1>2, <2>1 DEF StreamFits, ConnectFits
<1>8. WriteFits(g)'
  <2> DEFINE L == {"io", "read", "write", "failed"}
  <2>1. Under(g, {"written"})' <=> Under(g, {"written"})
    BY <1>3 DEF WorkLabels
  <2>2. (Under(g, L)' <=> Under(g, L)) /\ (Under(g, L) => frame' = frame)
    BY <1>3, <1>4 DEF WorkLabels
  <2> HIDE DEF L
  <2>3. /\ (wq[g] # <<>> \/ g \in shutdown) /\ Usable(g) =>
            "out" \in io.pevents[g] \/ g \in connect \/ "refused" \in st[g]
        /\ done[g] # <<>> /\ Usable(g) =>
            \/ Fed(g) \/ Under(g, {"written"})
            \/ Under(g, L) /\ "out" \in frame.evs
    BY DEF StreamFits, WriteFits, L
  <2>4. done'[g] # <<>> /\ Usable(g)' =>
            \/ Fed(g)' \/ Under(g, {"written"})'
            \/ Under(g, L)' /\ "out" \in frame'.evs
    BY <1>1, <1>2, <2>1, <2>2, <2>3
  <2> QED BY <1>1, <1>2, <2>3, <2>4 DEF WriteFits, L
<1>9. ShutdownFits(g)' /\ ReadFits(g)'
  BY <1>1, <1>2 DEF StreamFits, ShutdownFits, ReadFits
<1>10. UnderFits(g)'
  <2>1. /\ Under(g, {"io"})' <=> Under(g, {"io"})
        /\ Under(g, {"read", "write", "failed", "written"})' <=>
             Under(g, {"read", "write", "failed", "written"})
        /\ Under(g, {"accept", "accepted"})' <=> Under(g, {"accept", "accepted"})
        /\ Under(g, {"io", "accept"})' <=> Under(g, {"io", "accept"})
    BY <1>3 DEF WorkLabels
  <2>2. /\ Under(g, {"io", "accept", "accepted"})' <=> Under(g, {"io", "accept", "accepted"})
        /\ Under(g, {"io", "accept", "accepted"}) => frame' = frame
    BY <1>3, <1>4 DEF WorkLabels
  <2> QED BY <1>1, <1>2, <2>1, <2>2 DEF StreamFits, UnderFits
<1> QED BY <1>5, <1>6, <1>7, <1>8, <1>9, <1>10 DEF StreamFits

LEMMA OthersFit ==
  ASSUME NEW h \in Streams, OnlyOf(h), NEW g \in Streams, g # h, StreamFits(g)
  PROVE  StreamFits(g)'
<1>1. /\ Usable(g)' <=> Usable(g)
      /\ IsActive(hs, g)' <=> IsActive(hs, g)
  BY DEF OnlyOf, FlagsOf, Usable, IsUsable, IsActive
<1>2. frame' = frame \/ (~Under(g, WorkLabels) /\ ~Under(g, WorkLabels)')
  BY DEF OnlyOf, FrameOf, Under
<1>3. Untouched(g)
  BY <1>1, <1>2 DEF OnlyOf, IoOf, VarsOf, Untouched
<1> QED BY <1>3, UntouchedFits

(* What a step of the invariant shows but for the requests and the marks.  *)
WatchesFit ==
  StreamLoopFits /\ OwnersFit /\ \A h \in Streams : StreamFits(h)

LEMMA OneStreamFits ==
  ASSUME StreamsInv, NEW h \in Streams, OnlyOf(h), StreamLoopFits', OwnersFit', StreamFits(h)'
  PROVE  WatchesFit'

<1>1. \A g \in Streams : g # h => StreamFits(g)'
  BY OthersFit DEF StreamsInv
<1> QED BY <1>1 DEF WatchesFit

(* The flags of h after a call.                                            *)
LEMMA FlagsStand ==
  ASSUME UNCHANGED hs, NEW h \in Streams
  PROVE  /\ FlagsOf(h) /\ (Usable(h)' <=> Usable(h))
         /\ IsActive(hs, h)' <=> IsActive(hs, h)
BY DEF FlagsOf, Usable

LEMMA FlagsStarted ==
  ASSUME StreamsInv, NEW h \in Streams, Usable(h), hs' = Started(hs, h)
  PROVE  FlagsOf(h) /\ Usable(h)' /\ IsActive(hs, h)'
<1>1. HandlesFit(hs, Handles) /\ h \in Handles /\ IsUsable(hs, h)
  BY DEF StreamsInv, RequestsInv, Usable
<1>2. FitsWith(hs, Handles, h, hs.flags[h] \cup {"active"}, hs')
  BY <1>1, StartedFits
<1> QED BY <1>1, <1>2 DEF FitsWith, FlagsOf, Usable, IsUsable, IsActive

LEMMA FlagsStopped ==
  ASSUME StreamsInv, NEW h \in Streams, hs' = Stopped(hs, h)
  PROVE  FlagsOf(h) /\ (Usable(h)' <=> Usable(h))
<1>1. HandlesFit(hs, Handles) /\ h \in Handles
  BY DEF StreamsInv, RequestsInv
<1>2. FitsWith(hs, Handles, h, hs.flags[h] \ {"active"}, hs')
  BY <1>1, StoppedFits
<1> QED BY <1>1, <1>2 DEF FitsWith, FlagsOf, Usable, IsUsable

LEMMA FlagsClosing ==
  ASSUME StreamsInv, NEW h \in Streams, Usable(h),
         hs' = MakeClosePending(Stopped(Closing(hs, h), h), h)
  PROVE  FlagsOf(h) /\ ~Usable(h)'
<1>1. HandlesFit(hs, Handles) /\ h \in Handles /\ IsUsable(hs, h)
  BY DEF StreamsInv, RequestsInv, Usable
<1>2. /\ hs'.flags[h] = (hs.flags[h] \cup {"closing"}) \ {"active"}
      /\ \A g \in Handles : g # h => hs'.flags[g] = hs.flags[g]
  BY <1>1, ClosingFits
<1> QED BY <1>1, <1>2 DEF FlagsOf, Usable, IsUsable

(* The watchers after a step of h: E is what it waits for.                 *)
LEMMA IoStands ==
  ASSUME StreamsInv, UNCHANGED io, NEW h \in Streams
  PROVE  IoOf(h) /\ (Fed(h)' <=> Fed(h)) /\ IoFit(io', Handles) /\ IsInjective(io'.pending)
BY DEF IoOf, Fed, StreamsInv, StreamLoopFits

WantsNow(h, E) ==
  /\ IoOf(h) /\ IoFit(io', Handles) /\ IsInjective(io'.pending)
  /\ io'.pevents[h] = E /\ io'.fd[h] = io.fd[h] /\ io'.epoll = io.epoll
  /\ \A g \in Streams : io'.fd[g] = io.fd[g]

LEMMA IoWants ==
  ASSUME StreamsInv, NEW h \in Streams, NEW E, WantsInstead(io, Handles, h, E, io')
  PROVE  WantsNow(h, E) /\ (Fed(h)' <=> Fed(h)) /\ io'.fd = io.fd /\ io'.open = io.open
BY DEF WantsInstead, WantsNow, IoOf, Fed, StreamsInv, StreamLoopFits
-----------------------------------------------------------------------------
(* A step of the library for h goes on at a label, and a call of the       *)
(* program leaves the function under way where it is.                      *)
GoesOnAt(h, label) ==
  /\ FrameOf(h) /\ frame'.at = label
  /\ label = "none" => frame'.h = None
  /\ label # "none" => frame'.h = h /\ frame'.evs = frame.evs

LEMMA LabelFits ==
  ASSUME StreamsInv, NEW h \in Streams, frame.h = h, NEW label \in StreamLabels, label # "io",
         GoTo(label)
  PROVE  GoesOnAt(h, label) /\ frame' \in StreamFrames
<1>1. frame \in StreamFrames
  BY DEF StreamsInv, StreamLoopFits
<1>2. CASE label = "none"
  <2>1. frame' = NoFrame
    BY <1>2 DEF GoTo
  <2> QED BY <1>2, <2>1 DEF NoFrame, GoesOnAt, FrameOf, StreamFrames, StreamLabels
<1>3. CASE label # "none"
  <2>1. frame' = [frame EXCEPT !.at = label]
    BY <1>3 DEF GoTo
  <2>2. frame' \in StreamFrames /\ frame'.at = label /\ frame'.h = h /\ frame'.evs = frame.evs
    BY <1>1, <2>1 DEF StreamFrames
  <2> QED BY <1>3, <2>2 DEF GoesOnAt, FrameOf
<1> QED BY <1>2, <1>3

LEMMA StepLoopFits ==
  ASSUME StreamsInv, NEW h \in Streams, frame.h = h, NEW label \in StreamLabels, label # "io",
         GoTo(label), UNCHANGED batch, IoFit(io', Handles), IsInjective(io'.pending)
  PROVE  StreamLoopFits' /\ GoesOnAt(h, label)
<1>1. GoesOnAt(h, label) /\ frame' \in StreamFrames
  BY LabelFits
<1> QED BY <1>1 DEF StreamsInv, StreamLoopFits, GoesOnAt

LEMMA CallLoopFits ==
  ASSUME StreamsInv, NEW h, UNCHANGED <<batch, frame, user>>,
         IoFit(io', Handles), IsInjective(io'.pending)
  PROVE  StreamLoopFits' /\ FrameOf(h)
BY DEF StreamsInv, StreamLoopFits, FrameOf

(* The stream at hand fits, and nothing is there but the function under    *)
(* way that changes.                                                       *)
LEMMA VarsStand ==
  ASSUME UNCHANGED streamVars, NEW h
  PROVE  VarsOf(h) /\ UNCHANGED <<wq, done, st, accepted, connect, shutdown, delayed, listening>>
BY DEF VarsOf, streamVars, queueVars

LEMMA StepFits ==
  ASSUME StreamsInv, NEW h \in Streams, frame.h = h, NEW label \in StreamLabels, label # "io",
         GoTo(label), UNCHANGED batch, FlagsOf(h), IoOf(h), VarsOf(h),
         IoFit(io', Handles), IsInjective(io'.pending), OwnersFit',
         GoesOnAt(h, label) => StreamFits(h)'
  PROVE  WatchesFit'
<1>1. StreamLoopFits' /\ GoesOnAt(h, label)
  BY StepLoopFits
<1>2. OnlyOf(h)
  BY <1>1 DEF OnlyOf, GoesOnAt
<1> QED BY <1>1, <1>2, OneStreamFits

LEMMA QuietFits ==
  ASSUME StreamsInv, NEW h \in Streams, frame.h = h, NEW label \in StreamLabels, label # "io",
         GoTo(label), UNCHANGED <<batch, hs, io, accepted>>, VarsOf(h),
         GoesOnAt(h, label) => StreamFits(h)'
  PROVE  WatchesFit'
<1>1. /\ IoOf(h) /\ IoFit(io', Handles) /\ IsInjective(io'.pending) /\ FlagsOf(h)
  BY IoStands, FlagsStand
<1>2. OwnersFit'
  BY OwnersStand DEF StreamsInv
<1> QED BY <1>1, <1>2, StepFits

LEMMA OnlyLabelFits ==
  ASSUME StreamsInv, NEW h \in Streams, frame.h = h, NEW label \in StreamLabels, label # "io",
         GoTo(label), UNCHANGED <<batch, hs, io, streamVars>>,
         GoesOnAt(h, label) => StreamFits(h)'
  PROVE  WatchesFit'
BY VarsStand, QuietFits

(* uv__read() with data, or with nothing more to read                      *)
LEMMA ReadDataFits ==
  ASSUME StreamsInv, NEW h \in Streams, ReadData(h) \/ ReadDone(h)
  PROVE  WatchesFit'
<1>1. /\ frame.h = h /\ frame.at \in {"io", "read"} /\ h \notin listening /\ h \notin connect
      /\ UNCHANGED <<batch, hs, io, streamVars>>
      /\ \E label \in {"read", "write"} : GoTo(label)
  BY DEF ReadData, ReadDone, Reads, In, CallsBack, Continues
<1>2. PICK label \in {"read", "write"} : GoTo(label)
  BY <1>1
<1>3. label \in StreamLabels /\ label # "io" /\ label # "none"
  BY <1>2 DEF StreamLabels
<1>4. ASSUME GoesOnAt(h, label) PROVE StreamFits(h)'
  <2>1. /\ Usable(h)' <=> Usable(h)
        /\ Fed(h)' <=> Fed(h)
        /\ IsActive(hs, h)' <=> IsActive(hs, h)
        /\ frame'.h = h /\ frame'.at = label /\ frame'.evs = frame.evs
        /\ UNCHANGED <<io, batch, wq, done, st, accepted, connect, shutdown, delayed, listening>>
    BY <1>1, <1>3, <1>4, VarsStand DEF Usable, Fed, GoesOnAt
  <2>2. StreamFits(h)
    BY DEF StreamsInv
  <2>3. CloseFits(h)' /\ SocketFits(h)' /\ ListenFits(h)' /\ ConnectFits(h)'
    BY <1>1, <2>1, <2>2 DEF StreamFits, CloseFits, SocketFits, ListenFits, ConnectFits
  <2>4. WriteFits(h)' /\ ShutdownFits(h)' /\ ReadFits(h)'
    BY <1>1, <1>2, <2>1, <2>2 DEF StreamFits, WriteFits, ShutdownFits, ReadFits, Under
  <2>5. UnderFits(h)'
    BY <1>1, <1>2, <2>1, <2>2 DEF StreamFits, UnderFits, Under
  <2> QED BY <2>3, <2>4, <2>5 DEF StreamFits
<1> QED BY <1>1, <1>2, <1>3, <1>4, OnlyLabelFits
(* What the step leaves of h when only the label changes.                  *)
OldView(h) ==
  /\ Usable(h)' <=> Usable(h)
  /\ IsActive(hs, h)' <=> IsActive(hs, h)
  /\ Fed(h)' <=> Fed(h)
  /\ UNCHANGED <<io, batch, wq, done, st, accepted, connect, shutdown, delayed, listening>>

LEMMA OldViewFits ==
  ASSUME NEW h \in Streams, UNCHANGED <<batch, hs, io, streamVars>>
  PROVE  OldView(h)
BY VarsStand DEF Usable, Fed, OldView

(* uv__write_callbacks() is done and more is to be written, uv__accept()   *)
(* failed, uv__stream_destroy() is done                                    *)
LEMMA MoreToWriteFits ==
  ASSUME StreamsInv, NEW h \in Streams, MoreToWrite(h)
  PROVE  WatchesFit'
<1>1. /\ frame.h = h /\ frame.at = "written" /\ done[h] = <<>>
      /\ UNCHANGED <<batch, hs, io, streamVars>> /\ GoTo("none")
  BY DEF MoreToWrite, In, Continues
<1>2. "none" \in StreamLabels /\ StreamFits(h) /\ OldView(h)
  BY <1>1, OldViewFits DEF StreamLabels, StreamsInv
<1>3. ASSUME GoesOnAt(h, "none") PROVE StreamFits(h)'
  <2>1. frame'.h # h
    BY <1>3 DEF GoesOnAt
  <2>2. CloseFits(h)' /\ SocketFits(h)' /\ ConnectFits(h)' /\ ListenFits(h)'
    BY <1>1, <1>2, <2>1 DEF StreamFits, CloseFits, SocketFits, ListenFits, ConnectFits, OldView,
       Under
  <2>3. WriteFits(h)' /\ ShutdownFits(h)' /\ ReadFits(h)' /\ UnderFits(h)'
    BY <1>1, <1>2, <2>1 DEF StreamFits, WriteFits, ShutdownFits, ReadFits, UnderFits, OldView,
       Under
  <2> QED BY <2>2, <2>3 DEF StreamFits
<1> QED BY <1>1, <1>2, <1>3, OnlyLabelFits

LEMMA AcceptErrorFits ==
  ASSUME StreamsInv, NEW h \in Streams, AcceptError(h)
  PROVE  WatchesFit'
<1>1. /\ frame.h = h /\ frame.at \in {"io", "accept"} /\ h \in listening /\ io.fd[h] # None
      /\ UNCHANGED <<batch, hs, io, streamVars>>
      /\ \E label \in {"accept", "none"} : GoTo(label)
  BY DEF AcceptError, Accepts, In, CallsBack
<1>2. PICK label \in {"accept", "none"} : GoTo(label)
  BY <1>1
<1>3. label \in StreamLabels /\ label # "io" /\ StreamFits(h) /\ OldView(h)
  BY <1>1, <1>2, OldViewFits DEF StreamLabels, StreamsInv
<1>4. ASSUME GoesOnAt(h, label) PROVE StreamFits(h)'
  <2>1. frame'.h # h \/ (frame'.h = h /\ frame'.at = "accept" /\ frame'.evs = frame.evs)
    BY <1>2, <1>4 DEF GoesOnAt
  <2>2. CloseFits(h)' /\ SocketFits(h)' /\ ConnectFits(h)' /\ ListenFits(h)'
    BY <1>1, <1>3, <2>1 DEF StreamFits, CloseFits, SocketFits, ListenFits, ConnectFits, OldView,
       Under
  <2>3. WriteFits(h)' /\ ShutdownFits(h)' /\ ReadFits(h)' /\ UnderFits(h)'
    BY <1>1, <1>3, <2>1 DEF StreamFits, WriteFits, ShutdownFits, ReadFits, UnderFits, OldView,
       Under, ListenFits, CloseFits
  <2> QED BY <2>2, <2>3 DEF StreamFits
<1> QED BY <1>1, <1>2, <1>3, <1>4, OnlyLabelFits

LEMMA ClosedIsUnusable ==
  ASSUME RequestsInv, NEW h \in Streams, frame.at = "finish", frame.h = h
  PROVE  ~Usable(h)
<1>1. IsClosed(hs, h) /\ h \in Handles /\ FlagsFit(hs, Handles)
  BY DEF RequestsInv, HandlesFit
<1> QED BY <1>1 DEF FlagsFit, Usable

(* The function under way is of no concern for a closed stream.            *)
LEMMA ClosedFits ==
  ASSUME NEW h \in Streams, StreamFits(h), ~Usable(h), Usable(h)' <=> Usable(h),
         io'.fd[h] = io.fd[h], accepted'[h] = accepted[h], Fed(h)' <=> Fed(h), st'[h] = st[h],
         GoesOnAt(h, "finish") \/ GoesOnAt(h, "closed")
  PROVE  StreamFits(h)'
<1>1. CloseFits(h)'
  BY DEF StreamFits, CloseFits
<1>2. \A L : "finish" \notin L /\ "closed" \notin L => ~Under(h, L)'
  BY DEF GoesOnAt, Under
<1>3. UnderFits(h)'
  BY <1>2 DEF UnderFits
<1> QED BY <1>1, <1>3 DEF StreamFits, SocketFits, ListenFits, ConnectFits, WriteFits,
       ShutdownFits, ReadFits

LEMMA FinishedStreamFits ==
  ASSUME StreamsInv, NEW h \in Streams, Finished(h)
  PROVE  WatchesFit'
<1>1. /\ frame.h = h /\ frame.at = "finish"
      /\ UNCHANGED <<batch, hs, io, streamVars>> /\ GoTo("closed")
  BY DEF Finished, In, Continues
<1>2. "closed" \in StreamLabels /\ StreamFits(h) /\ OldView(h) /\ ~Usable(h)
  BY <1>1, OldViewFits, ClosedIsUnusable DEF StreamLabels, StreamsInv
<1>3. ASSUME GoesOnAt(h, "closed") PROVE StreamFits(h)'
  BY <1>2, <1>3, ClosedFits DEF OldView
<1> QED BY <1>1, <1>2, <1>3, OnlyLabelFits
(* uv__stream_destroy()                                                    *)
LEMMA CancelFits ==
  ASSUME StreamsInv, NEW h \in Streams, frame.h = h, frame.at = "finish", GoTo("finish"),
         UNCHANGED <<batch, hs, io, st, accepted>>, VarsOf(h)
  PROVE  WatchesFit'
<1>1. "finish" \in StreamLabels /\ StreamFits(h) /\ ~Usable(h)
  BY ClosedIsUnusable DEF StreamLabels, StreamsInv
<1>2. (Usable(h)' <=> Usable(h)) /\ (Fed(h)' <=> Fed(h))
  BY DEF Usable, Fed
<1>3. ASSUME GoesOnAt(h, "finish") PROVE StreamFits(h)'
  BY <1>1, <1>2, <1>3, ClosedFits
<1> QED BY <1>1, <1>3, QuietFits

LEMMA StreamTypes ==
  ASSUME StreamsInv
  PROVE  /\ wq \in [Streams -> Seq(Writes)] /\ done \in [Streams -> Seq(Writes)]
         /\ st \in [Streams -> SUBSET Marks] /\ accepted \in [Streams -> Fds \cup {None}]
BY DEF StreamsInv, RequestsInv, RequestTypes, MarksFit, OwnersFit

LEMMA CancelledFits ==
  ASSUME StreamsInv, NEW h \in Streams, CancelConnect(h) \/ CancelWrite(h) \/ CancelShutdown(h)
  PROVE  WatchesFit'
<1>1. /\ frame.h = h /\ frame.at = "finish" /\ GoTo("finish")
      /\ UNCHANGED <<batch, hs, io, st, accepted, delayed, listening, done>>
      /\ connect' = connect \ {h} \/ connect' = connect
      /\ shutdown' = shutdown \ {h} \/ shutdown' = shutdown
      /\ wq' = [wq EXCEPT ![h] = Tail(@)] \/ wq' = wq
  BY DEF CancelConnect, CancelWrite, CancelShutdown, In, CallsBack, queueVars
<1>2. VarsOf(h)
  BY <1>1, StreamTypes DEF VarsOf
<1> QED BY <1>1, <1>2, CancelFits

(* uv__write_callbacks() and the same of uv__stream_destroy()              *)
LEMMA CallWrittenFits ==
  ASSUME StreamsInv, NEW h \in Streams, CallWritten(h)
  PROVE  WatchesFit'
<1>1. /\ frame.h = h /\ frame.at \in {"written", "finish"} /\ GoTo(frame.at)
      /\ UNCHANGED <<batch, hs, io, st, accepted, connect, shutdown, delayed, listening, wq>>
      /\ done' = [done EXCEPT ![h] = Tail(@)] /\ done[h] # <<>>
  BY DEF CallWritten, In, CallsBack
<1>2. VarsOf(h)
  BY <1>1, StreamTypes DEF VarsOf
<1>3. CASE frame.at = "finish"
  BY <1>1, <1>2, <1>3, CancelFits
<1>4. CASE frame.at = "written"
  <2>1. "written" \in StreamLabels /\ StreamFits(h)
    BY DEF StreamLabels, StreamsInv
  <2>2. /\ Usable(h)' <=> Usable(h)
        /\ Fed(h)' <=> Fed(h)
        /\ IsActive(hs, h)' <=> IsActive(hs, h)
    BY <1>1 DEF Usable, Fed
  <2>3. ASSUME GoesOnAt(h, "written") PROVE StreamFits(h)'
    <3>1. frame'.h = h /\ frame'.at = "written" /\ frame'.evs = frame.evs
      BY <2>3 DEF GoesOnAt
    <3>2. CloseFits(h)' /\ SocketFits(h)' /\ ConnectFits(h)' /\ ListenFits(h)'
      BY <1>1, <1>4, <2>1, <2>2, <3>1 DEF StreamFits, CloseFits, SocketFits, ListenFits,
         ConnectFits, Under, UnderFits
    <3>3. WriteFits(h)' /\ ShutdownFits(h)' /\ ReadFits(h)' /\ UnderFits(h)'
      BY <1>1, <1>4, <2>1, <2>2, <3>1 DEF StreamFits, WriteFits, ShutdownFits, ReadFits,
         UnderFits, Under
    <3> QED BY <3>2, <3>3 DEF StreamFits
  <2> QED BY <1>1, <1>2, <1>4, <2>1, <2>3, QuietFits
<1> QED BY <1>1, <1>3, <1>4

(* uv__stream_connect()                                                    *)
LEMMA StreamConnectFits ==
  ASSUME StreamsInv, NEW h \in Streams, StreamConnect(h)
  PROVE  WatchesFit'
<1>1. /\ frame.h = h /\ frame.at = "io" /\ h \in connect /\ h \notin listening
      /\ UNCHANGED <<batch, hs, io, accepted, shutdown, listening, wq, done>> /\ GoTo("none")
      /\ \/ /\ connect' = connect \ {h} /\ delayed' = delayed \ {h}
            /\ \/ h \notin delayed /\ st' = st
               \/ st' = [st EXCEPT ![h] = @ \cup {"refused"}]
         \/ h \notin delayed /\ UNCHANGED <<st, connect, delayed>>
  BY DEF StreamConnect, In, CallsBack, Continues, queueVars
<1>2. VarsOf(h) /\ (st'[h] = st[h] \/ st'[h] = st[h] \cup {"refused"})
  BY <1>1, StreamTypes DEF VarsOf
<1>3. "none" \in StreamLabels /\ StreamFits(h)
  BY DEF StreamLabels, StreamsInv
<1>4. /\ Usable(h) /\ Usable(h)'
      /\ Fed(h)' <=> Fed(h)
      /\ IsActive(hs, h)' <=> IsActive(hs, h)
  BY <1>1, <1>3 DEF Usable, Fed, StreamFits, UnderFits, Under
<1>5. ASSUME GoesOnAt(h, "none") PROVE StreamFits(h)'
  <2>1. frame'.h # h
    BY <1>5 DEF GoesOnAt
  <2>2. /\ io.fd[h] = None => ~Fed(h) /\ h \in delayed
        /\ done[h] = <<>> /\ (h \notin delayed => "out" \in io.pevents[h])
    BY <1>1, <1>3, <1>4 DEF StreamFits, UnderFits, Under, ConnectFits, SocketFits
  <2>3. CloseFits(h)' /\ ListenFits(h)' /\ UnderFits(h)'
    BY <1>1, <1>4, <2>1 DEF CloseFits, ListenFits, UnderFits, Under
  <2>4. SocketFits(h)' /\ ConnectFits(h)'
    BY <1>1, <1>2, <1>3, <1>4, <2>1, <2>2 DEF StreamFits, SocketFits, ConnectFits, Under
  <2>5. WriteFits(h)'
    <3>1. h \in delayed => "refused" \in st'[h]
      BY <1>1, StreamTypes
    <3> QED BY <1>1, <1>4, <2>2, <3>1 DEF WriteFits
  <2>6. ShutdownFits(h)' /\ ReadFits(h)'
    BY <1>1, <1>2, <1>3, <1>4 DEF StreamFits, ShutdownFits, ReadFits
  <2> QED BY <2>3, <2>4, <2>5, <2>6 DEF StreamFits
<1> QED BY <1>1, <1>2, <1>3, <1>5, QuietFits
-----------------------------------------------------------------------------
(* The stream that uv__read() reads from is open and has a socket.         *)
LEMMA ReadsOpen ==
  ASSUME StreamsInv, NEW h \in Streams, Reads(h)
  PROVE  /\ frame.h = h /\ frame.at \in {"io", "read"} /\ "reading" \in st[h]
         /\ h \notin listening /\ h \notin connect /\ StreamFits(h)
         /\ Usable(h) /\ io.fd[h] # None /\ h \in Handles /\ None \notin Handles
         /\ IoFit(io, Handles)
<1>1. /\ frame.h = h /\ frame.at \in {"io", "read"} /\ "reading" \in st[h]
      /\ h \notin listening /\ h \notin connect
  BY DEF Reads, In
<1>2. StreamFits(h) /\ IoFit(io, Handles)
  BY DEF StreamsInv, StreamLoopFits
<1>3. Usable(h)
  BY <1>1, <1>2 DEF StreamFits, CloseFits
<1>4. io.fd[h] # None
  BY <1>1, <1>2, <1>3 DEF StreamFits, UnderFits, Under
<1> QED BY <1>1, <1>2, <1>3, <1>4

(* It goes on reading, or to what is to be written.                        *)
LEMMA AfterReadFits ==
  ASSUME StreamsInv, NEW h \in Streams, Reads(h), NEW label \in {"read", "write", "failed"},
         GoesOnAt(h, label), Usable(h)', ReadFits(h)',
         io'.fd[h] = io.fd[h], "out" \in io.pevents[h] => "out" \in io'.pevents[h],
         Fed(h)' <=> Fed(h),
         UNCHANGED <<wq, done, connect, shutdown, delayed, listening>>,
         \A m \in {"shutting", "shut", "refused"} : m \in st'[h] <=> m \in st[h]
  PROVE  StreamFits(h)'
<1>1. /\ frame.h = h /\ frame.at \in {"io", "read"} /\ h \notin listening /\ h \notin connect
      /\ StreamFits(h) /\ Usable(h) /\ io.fd[h] # None
  BY ReadsOpen
<1>2. frame'.h = h /\ frame'.at = label /\ frame'.evs = frame.evs
  BY DEF GoesOnAt
<1>3. CloseFits(h)' /\ SocketFits(h)' /\ ListenFits(h)' /\ ConnectFits(h)'
  BY <1>1, <1>2 DEF CloseFits, SocketFits, ListenFits, ConnectFits, StreamFits
<1>4. WriteFits(h)'
  BY <1>1, <1>2 DEF WriteFits, StreamFits, Under
<1>5. ShutdownFits(h)'
  BY <1>1 DEF ShutdownFits, StreamFits
<1>6. UnderFits(h)'
  BY <1>1, <1>2 DEF UnderFits, Under
<1> QED BY <1>3, <1>4, <1>5, <1>6 DEF StreamFits

LEMMA ReadHandleFits ==
  ASSUME StreamsOnly, StreamsInv, NEW h \in Streams, NEW f \in Fds, ReadHandle(h, f)
  PROVE  WatchesFit'
<1>1. /\ Reads(h) /\ NewFd(f) /\ accepted[h] = None /\ "reuse" \notin Habits
      /\ accepted' = [accepted EXCEPT ![h] = f] /\ io' = Opened(io, f)
      /\ UNCHANGED <<hs, st, wq, done, connect, shutdown, delayed, listening, batch>>
      /\ \E label \in {"read", "write"} : GoTo(label)
  BY DEF ReadHandle, CallsBack, StreamsOnly, queueVars
<1>2. /\ frame.h = h /\ StreamFits(h) /\ Usable(h) /\ IoFit(io, Handles)
  BY <1>1, ReadsOpen
<1>3. f \in Fds \ io.open /\ OpensOnly(io, Handles, f, io')
  BY <1>1, <1>2, NewFdIsFree, OnlyOpenedFits
<1>4. IoOf(h) /\ (Fed(h)' <=> Fed(h)) /\ IoFit(io', Handles) /\ IsInjective(io'.pending)
  BY <1>3 DEF OpensOnly, IoOf, Fed, StreamsInv, StreamLoopFits
<1>5. OwnersFit'
  BY <1>1, <1>3, OwnersAccept DEF OpensOnly, StreamsInv
<1>6. VarsOf(h)
  BY <1>1, StreamTypes DEF VarsOf
<1>7. FlagsOf(h) /\ Usable(h)' /\ (IsActive(hs, h)' <=> IsActive(hs, h))
  BY <1>1, <1>2, FlagsStand
<1>8. PICK label \in {"read", "write"} : GoTo(label)
  BY <1>1
<1>9. label \in StreamLabels /\ label # "io" /\ label \in {"read", "write", "failed"}
  BY <1>8 DEF StreamLabels
<1>10. ReadFits(h)' /\ io'.fd[h] = io.fd[h] /\ io'.pevents = io.pevents
  BY <1>1, <1>2, <1>3, <1>7 DEF OpensOnly, StreamFits, ReadFits
<1>11. GoesOnAt(h, label) => StreamFits(h)'
  BY <1>1, <1>4, <1>7, <1>9, <1>10, AfterReadFits
<1> QED BY <1>1, <1>2, <1>4, <1>5, <1>6, <1>7, <1>8, <1>9, <1>11, StepFits

(* EAGAIN, the end of the stream and an error                              *)
LEMMA ReadWantsFits ==
  ASSUME StreamsInv, NEW h \in Streams, Reads(h), NEW E, WantsInstead(io, Handles, h, E, io'),
         "out" \in io.pevents[h] => "out" \in E,
         FlagsOf(h), Usable(h)', NEW label \in {"write", "failed"}, GoTo(label),
         UNCHANGED <<wq, done, connect, shutdown, delayed, listening, accepted, batch>>,
         \A g \in Streams : g # h => st'[g] = st[g],
         \A m \in {"shutting", "shut", "refused"} : m \in st'[h] <=> m \in st[h],
         ReadFits(h)'
  PROVE  WatchesFit'
<1>1. frame.h = h
  BY ReadsOpen
<1>2. WantsNow(h, E) /\ (Fed(h)' <=> Fed(h)) /\ io'.fd = io.fd /\ io'.open = io.open
  BY IoWants
<1>3. /\ IoOf(h) /\ IoFit(io', Handles) /\ IsInjective(io'.pending)
      /\ io'.pevents[h] = E /\ io'.epoll = io.epoll
  BY <1>2 DEF WantsNow
<1>4. OwnersFit'
  BY <1>2, <1>3, OwnersStand DEF StreamsInv
<1>5. VarsOf(h)
  BY DEF VarsOf
<1>6. label \in StreamLabels /\ label # "io" /\ label \in {"read", "write", "failed"}
  BY DEF StreamLabels
<1>7. GoesOnAt(h, label) => StreamFits(h)'
  BY <1>2, <1>3, <1>6, AfterReadFits
<1> QED BY <1>1, <1>3, <1>4, <1>5, <1>6, <1>7, StepFits

LEMMA ReadAgainFits ==
  ASSUME StreamsInv, NEW h \in Streams, ReadAgain(h)
  PROVE  WatchesFit'
<1>1. /\ Reads(h) /\ io' = IoStart(io, h, {"in"}) /\ GoTo("write")
      /\ UNCHANGED <<hs, st, wq, done, connect, shutdown, delayed, listening, accepted, batch>>
  BY DEF ReadAgain, CallsBack, streamVars, queueVars
<1>2. /\ StreamFits(h) /\ Usable(h) /\ io.fd[h] # None /\ h \in Handles /\ None \notin Handles
      /\ IoFit(io, Handles)
  BY <1>1, ReadsOpen
<1>3. WantsInstead(io, Handles, h, io.pevents[h] \cup {"in"}, io')
  BY <1>1, <1>2, IoStartFits
<1>4. io'.pevents[h] = io.pevents[h] \cup {"in"}
  BY <1>3 DEF WantsInstead
<1>5. FlagsOf(h) /\ Usable(h)' /\ (IsActive(hs, h)' <=> IsActive(hs, h))
  BY <1>1, <1>2, FlagsStand
<1>6. ReadFits(h)'
  BY <1>1, <1>2, <1>4, <1>5 DEF StreamFits, ReadFits
<1> QED BY <1>1, <1>3, <1>5, <1>6, ReadWantsFits

LEMMA ReadEofFits ==
  ASSUME StreamsInv, NEW h \in Streams, ReadEof(h) \/ ReadError(h)
  PROVE  WatchesFit'
<1>1. /\ Reads(h) /\ io' = IoStop(io, h, {"in"})
      /\ hs' = hs \/ hs' = Stopped(hs, h)
      /\ \E label \in {"write", "failed"} : GoTo(label)
      /\ UNCHANGED <<wq, done, connect, shutdown, delayed, listening, accepted, batch>>
      /\ \/ st' = [st EXCEPT ![h] = @ \cup {"eof"}]
         \/ st' = [st EXCEPT ![h] = @ \ {"reading"}]
  BY DEF ReadEof, ReadError, CallsBack, queueVars
<1>2. /\ StreamFits(h) /\ Usable(h) /\ io.fd[h] # None /\ h \in Handles /\ None \notin Handles
      /\ IoFit(io, Handles)
  BY <1>1, ReadsOpen
<1>3. WantsInstead(io, Handles, h, io.pevents[h] \ {"in"}, io')
  BY <1>1, <1>2, IoStopFits
<1>4. FlagsOf(h) /\ Usable(h)'
  BY <1>1, <1>2, FlagsStand, FlagsStopped
<1>5. /\ \A g \in Streams : g # h => st'[g] = st[g]
      /\ \A m \in {"shutting", "shut", "refused"} : m \in st'[h] <=> m \in st[h]
      /\ "reading" \notin st'[h] \/ "eof" \in st'[h]
  BY <1>1, StreamTypes
<1>6. ReadFits(h)'
  BY <1>5 DEF ReadFits
<1>7. PICK label \in {"write", "failed"} : GoTo(label)
  BY <1>1
<1> QED BY <1>1, <1>3, <1>4, <1>5, <1>6, <1>7, ReadWantsFits
-----------------------------------------------------------------------------
(* A watcher that is fed, and a watcher that changes what it wants         *)
FedNow(h, R) ==
  /\ IoFit(R, Handles) /\ IsInjective(R.pending)
  /\ ToSet(R.pending) = ToSet(io.pending) \cup {h}
  /\ R.fd = io.fd /\ R.pevents = io.pevents /\ R.open = io.open /\ R.epoll = io.epoll

LEMMA IoFed ==
  ASSUME StreamsInv, NEW h \in Streams, io' = IoFeed(io, h)
  PROVE  IoOf(h) /\ Fed(h)' /\ FedNow(h, io')
<1>1. Feeds(io, Handles, h, io')
  BY IoFeedFits DEF StreamsInv, StreamLoopFits
<1> QED BY <1>1 DEF Feeds, PendsInstead, FedNow, IoOf, Fed

(* uv__write(): what is left in the queue waits for the socket.            *)
WritesNow(h, q) ==
  /\ IoOf(h) /\ IoFit(io', Handles) /\ IsInjective(io'.pending)
  /\ io'.fd = io.fd /\ io'.open = io.open /\ io'.epoll = io.epoll
  /\ io.pevents[h] \subseteq io'.pevents[h] /\ (Fed(h) => Fed(h)')
  /\ VarsOf(h)
  /\ \/ q # <<>> /\ wq'[h] = Tail(q) /\ Fed(h)'
     \/ /\ wq'[h] = q /\ done'[h] = done[h]
        /\ q # <<>> => "out" \in io'.pevents[h]

LEMMA WriteHeadFits ==
  ASSUME StreamsInv, NEW h \in Streams, io.fd[h] # None, NEW q, WriteHead(h, q, io),
         UNCHANGED <<st, connect, shutdown, delayed, accepted, listening>>
  PROVE  WritesNow(h, q)
<1>1. wq \in [Streams -> Seq(Writes)] /\ done \in [Streams -> Seq(Writes)]
  BY StreamTypes
<1>2. \/ q # <<>> /\ Finish(h, q, io)
      \/ /\ wq' = [wq EXCEPT ![h] = q] /\ UNCHANGED done
         /\ io' = IF q = <<>> THEN io ELSE IoStart(io, h, {"out"})
  BY DEF WriteHead
<1>3. VarsOf(h)
  BY <1>1, <1>2 DEF VarsOf, Finish
<1>4. CASE q # <<>> /\ Finish(h, q, io)
  <2>1. io' = IoFeed(io, h) /\ wq'[h] = Tail(q)
    BY <1>1, <1>4 DEF Finish
  <2>2. IoOf(h) /\ Fed(h)' /\ FedNow(h, io')
    BY <2>1, IoFed
  <2> QED BY <1>3, <1>4, <2>1, <2>2 DEF FedNow, WritesNow
<1>5. CASE q = <<>> /\ wq' = [wq EXCEPT ![h] = q] /\ UNCHANGED <<done, io>>
  <2>1. IoOf(h) /\ (Fed(h)' <=> Fed(h)) /\ IoFit(io', Handles) /\ IsInjective(io'.pending)
    BY <1>5, IoStands
  <2> QED BY <1>1, <1>3, <1>5, <2>1 DEF WritesNow
<1>6. CASE q # <<>> /\ wq' = [wq EXCEPT ![h] = q] /\ UNCHANGED done /\ io' = IoStart(io, h, {"out"})
  <2>1. IoFit(io, Handles) /\ h \in Handles /\ None \notin Handles
    BY DEF StreamsInv, StreamLoopFits
  <2>2. WantsInstead(io, Handles, h, io.pevents[h] \cup {"out"}, io')
    BY <1>6, <2>1, IoStartFits
  <2>3. /\ WantsNow(h, io.pevents[h] \cup {"out"}) /\ (Fed(h)' <=> Fed(h))
        /\ io'.fd = io.fd /\ io'.open = io.open
    BY <2>2, IoWants
  <2> QED BY <1>1, <1>3, <1>6, <2>3 DEF WantsNow, WritesNow
<1> QED BY <1>2, <1>4, <1>5, <1>6

(* At uv__write_callbacks() it does not matter whether the watcher is fed. *)
LEMMA AtWrittenFits ==
  ASSUME NEW h \in Streams, StreamFits(h), h \notin listening, h \notin connect,
         io.fd[h] # None, GoesOnAt(h, "written"), Usable(h)' <=> Usable(h),
         IsActive(hs, h)' <=> IsActive(hs, h), io'.fd[h] = io.fd[h],
         io.pevents[h] \subseteq io'.pevents[h], wq'[h] # <<>> => "out" \in io'.pevents[h]
                                                   \/ "refused" \in st[h],
         UNCHANGED <<st, connect, shutdown, delayed, accepted, listening>>
  PROVE  StreamFits(h)'
<1>1. Usable(h) /\ Usable(h)'
  BY DEF StreamFits, CloseFits
<1>2. frame'.h = h /\ frame'.at = "written"
  BY DEF GoesOnAt
<1>3. CloseFits(h)' /\ SocketFits(h)' /\ ListenFits(h)' /\ ConnectFits(h)'
  BY <1>1 DEF CloseFits, SocketFits, ListenFits, ConnectFits, StreamFits
<1>4. WriteFits(h)' /\ ShutdownFits(h)' /\ ReadFits(h)'
  BY <1>1, <1>2 DEF WriteFits, ShutdownFits, ReadFits, StreamFits, Under
<1>5. UnderFits(h)'
  BY <1>1, <1>2 DEF UnderFits, Under
<1> QED BY <1>3, <1>4, <1>5 DEF StreamFits

LEMMA WriteReadyFits ==
  ASSUME StreamsInv, NEW h \in Streams, WriteReady(h)
  PROVE  WatchesFit'
<1>1. /\ frame.h = h /\ frame.at \in {"write", "failed"} /\ StreamFits(h)
      /\ UNCHANGED <<batch, hs, kind, st, connect, shutdown, delayed, accepted, listening>>
  BY DEF WriteReady, In, StreamsInv, Continues
<1>2. /\ h \notin connect /\ h \notin listening
      /\ Usable(h) => io.fd[h] # None
  BY <1>1 DEF StreamFits, UnderFits, Under
<1>3. CASE io.fd[h] = None \/ "out" \notin frame.evs
  <2>1. GoTo("none") /\ UNCHANGED <<io, queueVars>>
    BY <1>3 DEF WriteReady, Continues
  <2>2. UNCHANGED streamVars /\ "none" \in StreamLabels
    BY <1>1, <2>1 DEF streamVars, StreamLabels
  <2>3. OldView(h)
    BY <1>1, <2>1, <2>2, OldViewFits
  <2>4. ASSUME GoesOnAt(h, "none") PROVE StreamFits(h)'
    <3>1. frame'.h # h
      BY <2>4 DEF GoesOnAt
    <3>2. CloseFits(h)' /\ SocketFits(h)' /\ ConnectFits(h)' /\ ListenFits(h)'
      BY <1>1, <1>2, <2>3 DEF StreamFits, CloseFits, SocketFits, ListenFits, ConnectFits, OldView
    <3>3. WriteFits(h)' /\ ShutdownFits(h)' /\ ReadFits(h)' /\ UnderFits(h)'
      BY <1>1, <1>2, <1>3, <2>3, <3>1 DEF StreamFits, WriteFits, ShutdownFits, ReadFits,
         UnderFits, OldView, Under
    <3> QED BY <3>2, <3>3 DEF StreamFits
  <2> QED BY <1>1, <2>1, <2>2, <2>4, OnlyLabelFits
<1>4. CASE io.fd[h] # None /\ "out" \in frame.evs
  <2>1. GoTo("written") /\ WriteHead(h, wq[h], io)
    BY <1>4 DEF WriteReady, Continues
  <2>2. WritesNow(h, wq[h])
    BY <1>1, <1>4, <2>1, WriteHeadFits
  <2>3. FlagsOf(h) /\ (Usable(h)' <=> Usable(h)) /\ (IsActive(hs, h)' <=> IsActive(hs, h))
    BY <1>1, FlagsStand
  <2>4. Usable(h)
    BY <1>1, <1>4 DEF StreamFits, CloseFits
  <2>5. wq[h] # <<>> => "out" \in io.pevents[h] \/ "refused" \in st[h]
    BY <1>1, <1>2, <2>4 DEF StreamFits, WriteFits
  <2>6. wq'[h] # <<>> => "out" \in io'.pevents[h] \/ "refused" \in st[h]
    BY <2>2, <2>5 DEF WritesNow
  <2>7. /\ IoOf(h) /\ IoFit(io', Handles) /\ IsInjective(io'.pending) /\ VarsOf(h)
        /\ io'.fd = io.fd /\ io'.open = io.open /\ io'.epoll = io.epoll
        /\ io.pevents[h] \subseteq io'.pevents[h]
    BY <2>2 DEF WritesNow
  <2>8. OwnersFit'
    BY <1>1, <2>7, OwnersStand DEF StreamsInv
  <2>9. GoesOnAt(h, "written") => StreamFits(h)'
    BY <1>1, <1>2, <1>4, <2>3, <2>6, <2>7, AtWrittenFits
  <2>10. "written" \in StreamLabels
    BY DEF StreamLabels
  <2> QED BY <1>1, <2>1, <2>3, <2>7, <2>8, <2>9, <2>10, StepFits
<1> QED BY <1>3, <1>4
-----------------------------------------------------------------------------
(* uv__drain(): nothing is left to be written, and the watcher waits for   *)
(* the socket no longer.                                                   *)
LEMMA DrainedFits ==
  ASSUME StreamsInv, NEW h \in Streams, Drains(h), NEW E, E = io.pevents[h] \ {"out"},
         WantsInstead(io, Handles, h, E, io'),
         UNCHANGED <<batch, hs, wq, done, connect, delayed, accepted, listening>>,
         VarsOf(h), GoTo("none"),
         Usable(h) => h \notin shutdown',
         ShutdownFits(h)', \A m \in {"reading", "writable", "eof"} : m \in st'[h] <=> m \in st[h]
  PROVE  WatchesFit'
<1>1. /\ frame.h = h /\ frame.at = "written" /\ done[h] = <<>> /\ wq[h] = <<>> /\ StreamFits(h)
  BY DEF Drains, In, StreamsInv
<1>2. /\ h \notin connect /\ h \notin listening
      /\ Usable(h) => io.fd[h] # None
  BY <1>1 DEF StreamFits, UnderFits, Under
<1>3. WantsNow(h, E) /\ (Fed(h)' <=> Fed(h)) /\ io'.fd = io.fd /\ io'.open = io.open
  BY IoWants
<1>4. IoOf(h) /\ IoFit(io', Handles) /\ IsInjective(io'.pending) /\ io'.epoll = io.epoll
      /\ io'.pevents[h] = E
  BY <1>3 DEF WantsNow
<1>5. FlagsOf(h) /\ (Usable(h)' <=> Usable(h)) /\ (IsActive(hs, h)' <=> IsActive(hs, h))
  BY FlagsStand
<1>6. OwnersFit'
  BY <1>3, <1>4, OwnersStand DEF StreamsInv
<1>7. ASSUME GoesOnAt(h, "none") PROVE StreamFits(h)'
  <2>1. frame'.h # h
    BY <1>7 DEF GoesOnAt
  <2>2. CloseFits(h)' /\ SocketFits(h)' /\ ListenFits(h)' /\ ConnectFits(h)'
    BY <1>1, <1>2, <1>3, <1>5 DEF CloseFits, SocketFits, ListenFits, ConnectFits, StreamFits
  <2>3. WriteFits(h)'
    BY <1>1, <1>5 DEF WriteFits
  <2>4. ReadFits(h)'
    BY <1>1, <1>4, <1>5 DEF ReadFits, StreamFits
  <2>5. UnderFits(h)'
    BY <2>1 DEF UnderFits, Under
  <2> QED BY <2>2, <2>3, <2>4, <2>5 DEF StreamFits
<1>8. "none" \in StreamLabels
  BY DEF StreamLabels
<1> QED BY <1>1, <1>4, <1>5, <1>6, <1>7, <1>8, StepFits

LEMMA DrainFits ==
  ASSUME StreamsInv, NEW h \in Streams, Drain(h)
  PROVE  WatchesFit'
<1>1. /\ Drains(h) /\ ~ShutsDown(h) /\ io' = IoStop(io, h, {"out"}) /\ GoTo("none")
      /\ UNCHANGED <<batch, hs, wq, done, connect, delayed, accepted, listening, st, shutdown>>
      /\ UNCHANGED streamVars
  BY DEF Drain, Continues, streamVars, queueVars
<1>2. StreamFits(h) /\ IoFit(io, Handles) /\ h \in Handles /\ None \notin Handles
  BY DEF StreamsInv, StreamLoopFits
<1>3. WantsInstead(io, Handles, h, io.pevents[h] \ {"out"}, io')
  BY <1>1, <1>2, IoStopFits
<1>4. Usable(h) => h \notin shutdown
  BY <1>1, <1>2 DEF ShutsDown, StreamFits, ShutdownFits
<1>5. ShutdownFits(h)'
  BY <1>1, <1>2 DEF StreamFits, ShutdownFits, Usable
<1>6. VarsOf(h)
  BY <1>1, VarsStand
<1> QED BY <1>1, <1>3, <1>4, <1>5, <1>6, DrainedFits

(* uv__stream_close(): nothing of the stream is left but its requests.     *)
ClosedNow(h) ==
  /\ FlagsOf(h) /\ IoOf(h) /\ IoFit(io', Handles) /\ IsInjective(io'.pending) /\ OwnersFit'
  /\ ~Usable(h)' /\ CloseFits(h)'
  /\ \A g \in Streams : g # h => st'[g] = st[g] /\ accepted'[g] = accepted[g]

LEMMA StreamClosedFits ==
  ASSUME StreamsOnly, StreamsInv, NEW h \in Streams, Usable(h), CloseStream(h)
  PROVE  ClosedNow(h)
<1>1. /\ hs' = MakeClosePending(Stopped(Closing(hs, h), h), h)
      /\ st' = [st EXCEPT ![h] = @ \ {"reading"}] /\ accepted' = [accepted EXCEPT ![h] = None]
      /\ io' = CloseFd(CloseFd([IoClose(io, h) EXCEPT !.fd[h] = None], io.fd[h]), accepted[h])
  BY DEF CloseStream
<1>2. FlagsOf(h) /\ ~Usable(h)'
  BY <1>1, FlagsClosing
<1>3. /\ IoFit(io, Handles) /\ IsInjective(io.pending) /\ None \notin Handles /\ h \in Handles
      /\ OwnersFit /\ Handles = Streams /\ accepted[h] \in Fds \cup {None}
  BY StreamTypes DEF StreamsInv, StreamLoopFits, StreamsOnly
<1>4. ASSUME NEW g \in Streams, g # h
      PROVE  /\ accepted[h] # None => io.fd[g] # accepted[h]
             /\ io.fd[g] # None => io.fd[g] # io.fd[h]
  <2>1. Held[g] \cap Held[h] = {}
    BY <1>3, <1>4 DEF OwnersFit
  <2>2. Held[g] = {io.fd[g], accepted[g]} \ {None} /\ Held[h] = {io.fd[h], accepted[h]} \ {None}
    BY HeldNow
  <2> QED BY <2>1, <2>2
<1>5. accepted[h] = None \/ \A g \in Handles : io.fd[g] # accepted[h]
  BY <1>3, <1>4 DEF OwnersFit
<1>6. ClosesBoth(io, Handles, h, accepted[h], io')
  BY <1>1, <1>3, <1>5, ClosedBothFits
<1>7. /\ io.fd \in [Handles -> Fds \cup {None}] /\ io.open \in SUBSET Fds
      /\ io.epoll \in [Fds -> SUBSET Events]
  BY <1>3, WatchersTypes DEF IoFit
<1>8. /\ IoFit(io', Handles) /\ IsInjective(io'.pending)
      /\ ToSet(io'.pending) = ToSet(io.pending) \ {h}
      /\ io'.fd[h] = None /\ \A g \in Streams : g # h => io'.fd[g] = io.fd[g]
      /\ \A g \in Streams : g # h => io'.pevents[g] = io.pevents[g]
      /\ io'.open = io.open \ {io.fd[h], accepted[h]}
      /\ \A f \in Fds : io'.epoll[f] = IF f \in {io.fd[h], accepted[h]} THEN {} ELSE io.epoll[f]
  BY <1>3, <1>6, <1>7 DEF ClosesBoth
<1>9. IoOf(h)
  <2>1. ASSUME NEW g \in Streams, g # h PROVE Fed(g)' <=> Fed(g)
    BY <1>8, <2>1 DEF Fed
  <2>2. ASSUME NEW g \in Streams, g # h, io.fd[g] # None
        PROVE  io'.epoll[io.fd[g]] = io.epoll[io.fd[g]]
    <3>1. io.fd[g] \in Fds
      BY <1>3, <1>7, <2>2
    <3>2. io.fd[g] # io.fd[h] /\ io.fd[g] # accepted[h]
      BY <1>4, <2>2
    <3> QED BY <1>8, <3>1, <3>2
  <2> QED BY <1>8, <2>1, <2>2 DEF IoOf
<1>10. OwnersFit'
  BY <1>1, <1>3, <1>7, <1>8, OwnersLose
<1>11. CloseFits(h)'
  <2>1. "reading" \notin st'[h] /\ accepted'[h] = None
    BY <1>1, StreamTypes
  <2> QED BY <1>8, <2>1 DEF CloseFits, Fed
<1>12. \A g \in Streams : g # h => st'[g] = st[g] /\ accepted'[g] = accepted[g]
  BY <1>1, StreamTypes
<1> QED BY <1>2, <1>8, <1>9, <1>10, <1>11, <1>12 DEF ClosedNow

LEMMA ClosedStreamFits ==
  ASSUME NEW h \in Streams, ~Usable(h)', CloseFits(h)', UnderFits(h)'
  PROVE  StreamFits(h)'
BY DEF StreamFits, SocketFits, ListenFits, ConnectFits, WriteFits, ShutdownFits, ReadFits

LEMMA DrainAndShutdownFits ==
  ASSUME StreamsOnly, StreamsInv, NEW h \in Streams, DrainAndShutdown(h)
  PROVE  WatchesFit'
<1>1. /\ Drains(h) /\ ShutsDown(h) /\ GoTo("none") /\ shutdown' = shutdown \ {h}
      /\ UNCHANGED <<batch, wq, done, connect, delayed, listening>>
      /\ \/ /\ st' \in {[st EXCEPT ![h] = @ \cup {"shut"}]}
                    \cup (IF "lingers" \in Habits THEN {st} ELSE {})
            /\ io' = Asserting(IoStop(io, h, {"out"}), h \in shutdown)
            /\ UNCHANGED <<hs, accepted>>
         \/ CloseStream(h)
  BY DEF DrainAndShutdown, CallsBack, queueVars
<1>2. /\ frame.h = h /\ Usable(h) /\ StreamFits(h) /\ "shutting" \in st[h] /\ "shut" \notin st[h]
      /\ IoFit(io, Handles) /\ h \in Handles /\ None \notin Handles
  BY <1>1 DEF Drains, ShutsDown, In, StreamsInv, StreamLoopFits
<1>3. h \in shutdown
  BY <1>2 DEF StreamFits, ShutdownFits
<1>4. ASSUME st' = [st EXCEPT ![h] = @ \cup {"shut"}],
             io' = Asserting(IoStop(io, h, {"out"}), h \in shutdown), UNCHANGED <<hs, accepted>>
      PROVE  WatchesFit'
  <2> DEFINE J == IoStop(io, h, {"out"})
  <2>1. WantsInstead(io, Handles, h, io.pevents[h] \ {"out"}, J)
    BY <1>2, IoStopFits
  <2>2. io' = Asserting(J, h \in shutdown) /\ (h \in shutdown) = TRUE
    BY <1>3, <1>4
  <2> HIDE DEF J
  <2>3. IoFit(J, Handles)
    BY <2>1 DEF WantsInstead
  <2>4. io' = J
    BY <2>2, <2>3, AssertionHolds
  <2>5. WantsInstead(io, Handles, h, io.pevents[h] \ {"out"}, io')
    BY <2>1, <2>4
  <2>6. VarsOf(h) /\ st'[h] = st[h] \cup {"shut"}
    BY <1>1, <1>4, StreamTypes DEF VarsOf
  <2>7. ShutdownFits(h)' /\ h \notin shutdown'
    BY <1>1, <1>2, <2>6 DEF ShutdownFits
  <2>8. \A m \in {"reading", "writable", "eof"} : m \in st'[h] <=> m \in st[h]
    BY <2>6
  <2> QED BY <1>1, <1>4, <2>5, <2>6, <2>7, <2>8, DrainedFits
<1>5. ASSUME CloseStream(h) PROVE WatchesFit'
  <2>1. ClosedNow(h)
    BY <1>2, <1>5, StreamClosedFits
  <2>2. VarsOf(h)
    BY <1>1, <2>1 DEF ClosedNow, VarsOf
  <2>3. ASSUME GoesOnAt(h, "none") PROVE StreamFits(h)'
    <3>1. UnderFits(h)'
      BY <2>3 DEF UnderFits, Under, GoesOnAt
    <3> QED BY <2>1, <3>1, ClosedStreamFits DEF ClosedNow
  <2>4. "none" \in StreamLabels
    BY DEF StreamLabels
  <2> QED BY <1>1, <1>2, <2>1, <2>2, <2>3, <2>4, StepFits DEF ClosedNow
<1> QED BY <1>1, <1>4, <1>5 DEF StreamsOnly
-----------------------------------------------------------------------------
(* uv__server_io() and uv__pipe_accept()                                   *)
LEMMA NothingToAcceptFits ==
  ASSUME StreamsInv, NEW h \in Streams, NothingToAccept(h)
  PROVE  WatchesFit'
<1>1. /\ frame.h = h /\ frame.at \in {"io", "accept"} /\ h \in listening
      /\ io' = ServerAsserts(h) /\ GoTo("none") /\ UNCHANGED <<batch, hs, streamVars>>
      /\ StreamFits(h) /\ IoFit(io, Handles)
  BY DEF NothingToAccept, In, Continues, StreamsInv, StreamLoopFits
<1>2. frame.evs = {"in"} /\ accepted[h] = None
  BY <1>1 DEF StreamFits, UnderFits, Under
<1>3. io' = io
  <2>1. (kind = "tcp" => frame.evs = {"in"} /\ accepted[h] = None) = TRUE
    BY <1>2
  <2> QED BY <1>1, <2>1, AssertionHolds DEF ServerAsserts
<1>4. "none" \in StreamLabels /\ OldView(h)
  BY <1>1, <1>3, OldViewFits DEF StreamLabels
<1>5. ASSUME GoesOnAt(h, "none") PROVE StreamFits(h)'
  <2>1. frame'.h # h
    BY <1>5 DEF GoesOnAt
  <2>2. CloseFits(h)' /\ SocketFits(h)' /\ ConnectFits(h)' /\ ListenFits(h)'
    BY <1>1, <1>2, <1>4, <2>1 DEF StreamFits, CloseFits, SocketFits, ListenFits, ConnectFits,
       OldView, Under
  <2>3. WriteFits(h)' /\ ShutdownFits(h)' /\ ReadFits(h)' /\ UnderFits(h)'
    BY <1>1, <1>4, <2>1 DEF StreamFits, WriteFits, ShutdownFits, ReadFits, UnderFits, OldView,
       Under, ListenFits
  <2> QED BY <2>2, <2>3 DEF StreamFits
<1> QED BY <1>1, <1>3, <1>4, <1>5, OnlyLabelFits

LEMMA ServerAcceptFits ==
  ASSUME StreamsOnly, StreamsInv, NEW h \in Streams, NEW f \in Fds, ServerAccept(h, f)
  PROVE  WatchesFit'
<1>1. /\ frame.h = h /\ frame.at \in {"io", "accept"} /\ h \in listening /\ io.fd[h] # None
      /\ NewFd(f) /\ "reuse" \notin Habits /\ io' = Opened(ServerAsserts(h), f)
      /\ accepted' = [accepted EXCEPT ![h] = f] /\ GoTo("accepted")
      /\ UNCHANGED <<hs, st, wq, done, connect, shutdown, delayed, listening, batch>>
      /\ StreamFits(h) /\ IoFit(io, Handles)
  BY DEF ServerAccept, Accepts, In, CallsBack, queueVars, StreamsInv, StreamLoopFits, StreamsOnly
<1>2. frame.evs = {"in"} /\ accepted[h] = None /\ Usable(h)
  BY <1>1 DEF StreamFits, UnderFits, Under, CloseFits
<1>3. io' = Opened(io, f)
  <2>1. (kind = "tcp" => frame.evs = {"in"} /\ accepted[h] = None) = TRUE
    BY <1>2
  <2>2. ServerAsserts(h) = io
    BY <1>1, <2>1, AssertionHolds DEF ServerAsserts
  <2> QED BY <1>1, <2>2
<1>4. f \in Fds \ io.open /\ OpensOnly(io, Handles, f, io')
  BY <1>1, <1>3, NewFdIsFree, OnlyOpenedFits
<1>5. /\ IoFit(io', Handles) /\ io'.pending = io.pending /\ io'.fd = io.fd
      /\ io'.pevents = io.pevents /\ io'.open = io.open \cup {f} /\ io'.epoll = io.epoll
  BY <1>4 DEF OpensOnly
<1>6. IoOf(h) /\ (Fed(h)' <=> Fed(h)) /\ IsInjective(io'.pending)
  BY <1>5 DEF IoOf, Fed, StreamsInv, StreamLoopFits
<1>7. OwnersFit'
  BY <1>1, <1>2, <1>4, <1>5, OwnersAccept DEF StreamsInv
<1>8. VarsOf(h) /\ accepted'[h] = f /\ f # None
  BY <1>1, <1>4, StreamTypes DEF VarsOf
<1>9. FlagsOf(h) /\ Usable(h)' /\ (IsActive(hs, h)' <=> IsActive(hs, h))
  BY <1>1, <1>2, FlagsStand
<1>10. ASSUME GoesOnAt(h, "accepted") PROVE StreamFits(h)'
  <2>1. frame'.h = h /\ frame'.at = "accepted" /\ frame'.evs = frame.evs
    BY <1>10 DEF GoesOnAt
  <2>2. CloseFits(h)' /\ SocketFits(h)'
    BY <1>1, <1>5, <1>9 DEF CloseFits, SocketFits
  <2>3. ListenFits(h)'
    <3>1. Under(h, {"accepted"})'
      BY <2>1 DEF Under
    <3> QED BY <1>1, <1>2, <1>5, <1>6, <1>8, <3>1 DEF StreamFits, ListenFits
  <2>4. ConnectFits(h)' /\ WriteFits(h)'
    BY <1>1, <1>2 DEF StreamFits, ListenFits, ConnectFits, WriteFits
  <2>5. ShutdownFits(h)' /\ ReadFits(h)'
    BY <1>1, <1>2, <1>5, <1>9 DEF StreamFits, ShutdownFits, ReadFits
  <2>6. UnderFits(h)'
    BY <1>1, <1>2, <2>1 DEF UnderFits, Under
  <2> QED BY <2>2, <2>3, <2>4, <2>5, <2>6 DEF StreamFits
<1>11. "accepted" \in StreamLabels
  BY DEF StreamLabels
<1> QED BY <1>1, <1>5, <1>6, <1>7, <1>8, <1>9, <1>10, <1>11, StepFits

LEMMA AfterAcceptFits ==
  ASSUME StreamsInv, NEW h \in Streams, AfterAccept(h)
  PROVE  WatchesFit'
<1>1. /\ frame.h = h /\ frame.at = "accepted" /\ h \in listening
      /\ UNCHANGED <<batch, hs, streamVars>>
      /\ StreamFits(h) /\ IoFit(io, Handles) /\ h \in Handles /\ None \notin Handles
  BY DEF AfterAccept, In, Continues, StreamsInv, StreamLoopFits
<1>2. frame.evs = {"in"}
  BY <1>1 DEF StreamFits, UnderFits, Under
<1>3. CASE accepted[h] # None
  <2>1. io' = IoStop(io, h, {"in"}) /\ GoTo("none")
    BY <1>3 DEF AfterAccept, Continues
  <2>2. WantsInstead(io, Handles, h, io.pevents[h] \ {"in"}, io')
    BY <1>1, <2>1, IoStopFits
  <2>3. /\ WantsNow(h, io.pevents[h] \ {"in"}) /\ (Fed(h)' <=> Fed(h))
        /\ io'.fd = io.fd /\ io'.open = io.open
    BY <2>2, IoWants
  <2>4. /\ IoOf(h) /\ IoFit(io', Handles) /\ IsInjective(io'.pending) /\ io'.epoll = io.epoll
        /\ io'.pevents[h] = io.pevents[h] \ {"in"}
    BY <2>3 DEF WantsNow
  <2>5. OwnersFit'
    BY <1>1, <2>3, <2>4, OwnersStand DEF StreamsInv, streamVars
  <2>6. FlagsOf(h) /\ (Usable(h)' <=> Usable(h)) /\ (IsActive(hs, h)' <=> IsActive(hs, h))
    BY <1>1, FlagsStand
  <2>7. VarsOf(h) /\ UNCHANGED <<wq, done, st, accepted, connect, shutdown, delayed, listening>>
    BY <1>1, VarsStand
  <2>8. ASSUME GoesOnAt(h, "none") PROVE StreamFits(h)'
    <3>1. frame'.h # h
      BY <2>8 DEF GoesOnAt
    <3>2. CloseFits(h)' /\ SocketFits(h)'
      BY <1>1, <2>3, <2>6, <2>7 DEF StreamFits, CloseFits, SocketFits
    <3>3. ListenFits(h)'
      BY <1>1, <1>3, <2>3, <2>4, <2>6, <2>7 DEF StreamFits, ListenFits
    <3>4. ConnectFits(h)' /\ WriteFits(h)' /\ ShutdownFits(h)' /\ ReadFits(h)'
      BY <1>1, <2>6, <2>7 DEF StreamFits, ListenFits, ConnectFits, WriteFits, ShutdownFits,
         ReadFits
    <3>5. UnderFits(h)'
      BY <3>1 DEF UnderFits, Under
    <3> QED BY <3>2, <3>3, <3>4, <3>5 DEF StreamFits
  <2>9. "none" \in StreamLabels
    BY DEF StreamLabels
  <2> QED BY <1>1, <2>1, <2>4, <2>5, <2>6, <2>7, <2>8, <2>9, StepFits
<1>4. CASE accepted[h] = None
  <2>1. UNCHANGED io /\ \E label \in {"accept", "none"} : GoTo(label)
    BY <1>4 DEF AfterAccept, Continues
  <2>2. PICK label \in {"accept", "none"} : GoTo(label)
    BY <2>1
  <2>3. label \in StreamLabels /\ label # "io" /\ OldView(h)
    BY <1>1, <2>1, <2>2, OldViewFits DEF StreamLabels
  <2>4. ASSUME GoesOnAt(h, label) PROVE StreamFits(h)'
    <3>1. frame'.h # h \/ (frame'.h = h /\ frame'.at = "accept" /\ frame'.evs = frame.evs)
      BY <2>2, <2>4 DEF GoesOnAt
    <3>2. CloseFits(h)' /\ SocketFits(h)'
      BY <1>1, <2>3 DEF StreamFits, CloseFits, SocketFits, OldView
    <3>3. ListenFits(h)'
      BY <1>1, <1>4, <2>3 DEF StreamFits, ListenFits, OldView
    <3>4. ConnectFits(h)' /\ WriteFits(h)' /\ ShutdownFits(h)' /\ ReadFits(h)'
      BY <1>1, <2>3 DEF StreamFits, ListenFits, ConnectFits, WriteFits, ShutdownFits, ReadFits,
         OldView
    <3>5. UnderFits(h)'
      BY <1>1, <1>2, <1>4, <2>3, <3>1 DEF UnderFits, Under, OldView
    <3> QED BY <3>2, <3>3, <3>4, <3>5 DEF StreamFits
  <2> QED BY <1>1, <2>1, <2>2, <2>3, <2>4, OnlyLabelFits
<1> QED BY <1>3, <1>4

(* The steps of the library for a stream                                   *)
LEMMA StreamStepFits ==
  ASSUME StreamsOnly, StreamsInv, NEW h \in Streams, StreamStep(h)
  PROVE  WatchesFit'
<1>1. CASE ReadData(h) \/ ReadAgain(h) \/ ReadEof(h) \/ ReadError(h) \/ ReadDone(h)
           \/ \E f \in Fds : ReadHandle(h, f)
  BY <1>1, ReadDataFits, ReadAgainFits, ReadEofFits, ReadHandleFits
<1>2. CASE StreamConnect(h) \/ WriteReady(h) \/ CallWritten(h) \/ MoreToWrite(h) \/ Drain(h)
           \/ DrainAndShutdown(h)
  BY <1>2, StreamConnectFits, WriteReadyFits, CallWrittenFits, MoreToWriteFits, DrainFits,
     DrainAndShutdownFits
<1>3. CASE AcceptError(h) \/ NothingToAccept(h) \/ AfterAccept(h)
           \/ \E f \in Fds : ServerAccept(h, f)
  BY <1>3, AcceptErrorFits, NothingToAcceptFits, AfterAcceptFits, ServerAcceptFits
<1>4. CASE CancelConnect(h) \/ CancelWrite(h) \/ CancelShutdown(h) \/ Finished(h)
  BY <1>4, CancelledFits, FinishedStreamFits
<1> QED BY <1>1, <1>2, <1>3, <1>4 DEF StreamStep
-----------------------------------------------------------------------------
(* Calls of the program leave the function under way where it is.          *)
LEMMA StreamCallFits ==
  ASSUME StreamsInv, NEW h \in Streams, Call, FlagsOf(h), IoOf(h), VarsOf(h),
         IoFit(io', Handles), IsInjective(io'.pending), OwnersFit', StreamFits(h)'
  PROVE  WatchesFit'
<1>1. UNCHANGED <<batch, frame, user>>
  BY DEF Call
<1>2. StreamLoopFits' /\ FrameOf(h)
  BY <1>1, CallLoopFits
<1> QED BY <1>1, <1>2, OneStreamFits DEF OnlyOf

(* They are made while the program runs, not at the start of w->cb().      *)
LEMMA InCallFits ==
  ASSUME StreamsInv, NEW h \in Streams, Call
  PROVE  /\ StreamFits(h) /\ IoFit(io, Handles) /\ h \in Handles /\ None \notin Handles
         /\ IsInjective(io.pending) /\ OwnersFit /\ frame' = frame /\ batch' = batch
         /\ ~Under(h, {"io"})
BY DEF Call, StreamsInv, StreamLoopFits, Under

(* A stream without a socket: no function is under way for it but the end. *)
LEMMA SocketlessFits ==
  ASSUME StreamsInv, NEW h \in Streams, Call, Usable(h), io.fd[h] = None
  PROVE  /\ ~Under(h, WorkLabels) /\ io.pevents[h] = {}
         /\ wq[h] = <<>> /\ done[h] = <<>> /\ h \notin shutdown /\ accepted[h] = None
         /\ h \notin listening /\ "reading" \notin st[h]
<1>1. StreamFits(h) /\ ~Under(h, {"io"}) /\ IoFit(io, Handles) /\ h \in Handles
  BY InCallFits
<1>2. /\ wq[h] = <<>> /\ done[h] = <<>> /\ h \notin shutdown /\ accepted[h] = None
      /\ h \notin listening /\ "reading" \notin st[h]
  BY <1>1 DEF StreamFits, SocketFits
<1>3. ~Under(h, {"read", "write", "failed", "written"}) /\ ~Under(h, {"accept", "accepted"})
  BY <1>1, <1>2 DEF StreamFits, UnderFits
<1>4. ~Under(h, WorkLabels)
  BY <1>1, <1>3 DEF Under, WorkLabels
<1>5. io.pevents[h] = {}
  BY <1>1 DEF IoFit, WatchersFit, WantsFits
<1> QED BY <1>2, <1>4, <1>5

(* uv_tcp_init() and uv_pipe_init()                                        *)
LEMMA StreamInitializeFits ==
  ASSUME StreamsInv, NEW h \in Streams, Initialize(h)
  PROVE  WatchesFit'
<1>1. /\ Call /\ IsClosed(hs, h) /\ frame.h # h
      /\ hs' = Initialized(hs, h) /\ io' = IoInit(io, h, None)
      /\ st' = [st EXCEPT ![h] = {}]
      /\ connect' = connect \ {h} /\ delayed' = delayed \ {h}
      /\ listening' = listening \ {h}
      /\ UNCHANGED <<wq, done, shutdown, accepted>>
  BY DEF Initialize, queueVars
<1>2. /\ StreamFits(h) /\ IoFit(io, Handles) /\ h \in Handles /\ None \notin Handles
      /\ IsInjective(io.pending) /\ OwnersFit /\ frame' = frame
  BY <1>1, InCallFits
<1>3. HandlesFit(hs, Handles) /\ NothingLeft(h)
  BY <1>1 DEF StreamsInv, RequestsInv, Finishing
<1>4. ~IsClosing(hs, h) /\ "ref" \notin hs.flags[h] /\ ~Usable(h)
  BY <1>1, <1>2, <1>3 DEF HandlesFit, FlagsFit, IsClosing, IsClosed, Usable
<1>5. FitsWith(hs, Handles, h, {"ref"}, hs')
  BY <1>1, <1>2, <1>3, <1>4, InitializedFits
<1>6. FlagsOf(h) /\ Usable(h)'
  BY <1>2, <1>5 DEF FitsWith, FlagsOf, Usable, IsUsable
<1>7. io.fd[h] = None /\ accepted[h] = None /\ ~Fed(h)
  BY <1>2, <1>4 DEF StreamFits, CloseFits
<1>8. io.pevents[h] = {} /\ io.fd \in [Handles -> Fds \cup {None}] /\ io \in WatchersOf(Handles)
  BY <1>2, <1>7, WatchersTypes DEF IoFit, WatchersFit, WantsFits
<1>9. /\ IoFit(io', Handles) /\ io'.pending = io.pending /\ io'.pevents = io.pevents
      /\ io'.fd = [io.fd EXCEPT ![h] = None]
  BY <1>1, <1>2, <1>8, IoInitFits
<1>10. io'.fd = io.fd /\ io'.open = io.open /\ io'.epoll = io.epoll
  BY <1>1, <1>2, <1>7, <1>8, <1>9 DEF IoInit, WatchersOf
<1>11. IoOf(h) /\ (Fed(h)' <=> Fed(h)) /\ IsInjective(io'.pending)
  BY <1>2, <1>9, <1>10 DEF IoOf, Fed
<1>12. VarsOf(h) /\ st'[h] = {}
  BY <1>1, StreamTypes DEF VarsOf
<1>13. OwnersFit'
  BY <1>1, <1>2, <1>10, OwnersStand
<1>14. StreamFits(h)'
  <2>1. CloseFits(h)' /\ SocketFits(h)' /\ ListenFits(h)' /\ ConnectFits(h)'
    BY <1>1, <1>3, <1>6, <1>7, <1>11, <1>12 DEF CloseFits, SocketFits, ListenFits, ConnectFits,
       NothingLeft
  <2>2. WriteFits(h)' /\ ShutdownFits(h)' /\ ReadFits(h)'
    BY <1>1, <1>3, <1>12 DEF WriteFits, ShutdownFits, ReadFits, NothingLeft
  <2>3. UnderFits(h)'
    BY <1>1, <1>2 DEF UnderFits, Under
  <2> QED BY <2>1, <2>2, <2>3 DEF StreamFits
<1> QED BY <1>1, <1>6, <1>9, <1>11, <1>12, <1>13, <1>14, StreamCallFits

(* A socket for a stream that had none                                     *)
OpenNow(h, f, I) ==
  /\ IoFit(I, Handles) /\ I.pending = io.pending /\ I.pevents = io.pevents
  /\ I.fd[h] = f /\ \A g \in Streams : g # h => I.fd[g] = io.fd[g]
  /\ I.open = io.open \cup {f} /\ I.epoll = io.epoll
  /\ f \in Fds /\ f \notin io.open /\ batch[f] = {}

LEMMA OpenNowFits ==
  ASSUME StreamsOnly, StreamsInv, NEW h \in Streams, io.fd[h] = None, NEW f, NewFd(f),
         NEW I, I = [Opened(io, f) EXCEPT !.fd[h] = f]
  PROVE  OpenNow(h, f, I)
<1>1. IoFit(io, Handles) /\ h \in Handles /\ None \notin Handles
  BY DEF StreamsInv, StreamLoopFits
<1>2. f \in Fds \ io.open /\ batch[f] = {}
  BY <1>1, NewFdIsFree DEF StreamsOnly
<1>3. HasOpened(io, Handles, h, f, I)
  BY <1>1, <1>2, OpenedFits
<1>4. io.fd \in [Handles -> Fds \cup {None}]
  BY <1>1, WatchersTypes DEF IoFit
<1> QED BY <1>1, <1>2, <1>3, <1>4 DEF HasOpened, OpenNow

LEMMA OpenFits ==
  ASSUME StreamsOnly, StreamsInv, NEW h \in Streams, NEW f \in Fds, Open(h, f)
  PROVE  WatchesFit'
<1>1. /\ Call /\ Usable(h) /\ io.fd[h] = None /\ h \notin connect /\ NewFd(f)
      /\ io' = [Opened(io, f) EXCEPT !.fd[h] = f]
      /\ st' = [st EXCEPT ![h] = @ \cup {"writable"}]
      /\ UNCHANGED <<hs, wq, done, connect, shutdown, delayed, accepted, listening>>
  BY DEF Open, queueVars
<1>2. StreamFits(h) /\ OwnersFit /\ frame' = frame /\ IsInjective(io.pending)
  BY <1>1, InCallFits
<1>3. /\ ~Under(h, WorkLabels) /\ io.pevents[h] = {}
      /\ wq[h] = <<>> /\ done[h] = <<>> /\ h \notin shutdown /\ accepted[h] = None
      /\ h \notin listening /\ "reading" \notin st[h]
  BY <1>1, SocketlessFits
<1>4. OpenNow(h, f, io')
  BY <1>1, OpenNowFits
<1>5. IoOf(h) /\ IoFit(io', Handles) /\ IsInjective(io'.pending) /\ io'.fd[h] # None
  BY <1>2, <1>4 DEF OpenNow, IoOf, Fed
<1>6. OwnersFit'
  BY <1>1, <1>2, <1>4, OwnersTake DEF OpenNow
<1>7. FlagsOf(h) /\ Usable(h)'
  BY <1>1, FlagsStand
<1>8. VarsOf(h) /\ st'[h] = st[h] \cup {"writable"}
  BY <1>1, StreamTypes DEF VarsOf
<1>9. StreamFits(h)'
  <2>1. CloseFits(h)' /\ SocketFits(h)' /\ ListenFits(h)' /\ ConnectFits(h)'
    BY <1>1, <1>2, <1>3, <1>5, <1>7 DEF CloseFits, SocketFits, ListenFits, ConnectFits, StreamFits
  <2>2. WriteFits(h)' /\ ShutdownFits(h)' /\ ReadFits(h)'
    BY <1>1, <1>2, <1>3, <1>7, <1>8 DEF WriteFits, ShutdownFits, ReadFits, StreamFits
  <2>3. UnderFits(h)'
    BY <1>2, <1>3 DEF UnderFits, Under, WorkLabels
  <2> QED BY <2>1, <2>2, <2>3 DEF StreamFits
<1> QED BY <1>1, <1>5, <1>6, <1>7, <1>8, <1>9, StreamCallFits
(* The new socket with the watcher that waits for E                        *)
SocketNow(h, f, E, I) ==
  /\ IoFit(I, Handles) /\ I.pending = io.pending
  /\ I.pevents[h] = E /\ \A g \in Streams : g # h => I.pevents[g] = io.pevents[g]
  /\ I.fd[h] = f /\ \A g \in Streams : g # h => I.fd[g] = io.fd[g]
  /\ I.open = io.open \cup {f} /\ I.epoll = io.epoll
  /\ f \in Fds /\ f \notin io.open

LEMMA SocketStarts ==
  ASSUME StreamsInv, NEW h \in Streams, io.pevents[h] = {}, NEW f, NEW I, OpenNow(h, f, I),
         NEW E \in SUBSET {"in", "out"}, E # {}, NEW J, J = IoStart(I, h, E)
  PROVE  SocketNow(h, f, E, J)
<1>1. /\ h \in Handles /\ None \notin Handles /\ IoFit(I, Handles) /\ I.fd[h] # None
      /\ I.pevents[h] = {}
  BY DEF OpenNow
<1>2. WantsInstead(I, Handles, h, I.pevents[h] \cup E, J)
  BY <1>1, IoStartFits
<1>3. I.pevents[h] \cup E = E
  BY <1>1
<1> QED BY <1>2, <1>3 DEF WantsInstead, OpenNow, SocketNow

(* What the call made of the watchers: fed or not                          *)
SocketGiven(h, f, E) ==
  /\ IoOf(h) /\ IoFit(io', Handles) /\ IsInjective(io'.pending) /\ OwnersFit'
  /\ io'.fd[h] = f /\ io'.pevents[h] = E /\ io'.epoll = io.epoll

LEMMA SocketGivenFits ==
  ASSUME StreamsInv, NEW h \in Streams, io.fd[h] = None, UNCHANGED accepted,
         NEW f, NEW E, NEW I, SocketNow(h, f, E, I), io' = I \/ io' = IoFeed(I, h)
  PROVE  /\ SocketGiven(h, f, E) /\ (Fed(h) => Fed(h)')
         /\ (io' = I => (Fed(h)' <=> Fed(h))) /\ (io' = IoFeed(I, h) => Fed(h)')
<1>1. /\ h \in Handles /\ OwnersFit /\ IsInjective(io.pending)
  BY DEF StreamsInv, StreamLoopFits
<1>2. /\ IoFit(I, Handles) /\ IsInjective(I.pending) /\ I.pending = io.pending
      /\ I.pevents[h] = E /\ I.fd[h] = f /\ I.epoll = io.epoll /\ I.open = io.open \cup {f}
      /\ \A g \in Streams : g # h => I.fd[g] = io.fd[g] /\ I.pevents[g] = io.pevents[g]
      /\ f \in Fds /\ f \notin io.open
  BY <1>1 DEF SocketNow
<1>3. /\ IoFit(io', Handles) /\ IsInjective(io'.pending)
      /\ io'.fd = I.fd /\ io'.pevents = I.pevents /\ io'.epoll = I.epoll /\ io'.open = I.open
      /\ io' = I => ToSet(io'.pending) = ToSet(io.pending)
      /\ io' = IoFeed(I, h) => ToSet(io'.pending) = ToSet(io.pending) \cup {h}
  <2>1. CASE io' = IoFeed(I, h)
    <3>1. Feeds(I, Handles, h, io')
      BY <1>1, <1>2, <2>1, IoFeedFits
    <3>2. ToSet(io'.pending) = ToSet(io.pending) \cup {h}
      BY <1>2, <3>1 DEF Feeds
    <3>3. io' = I => h \in ToSet(io.pending)
      BY <1>2, <3>2
    <3>4. io' = I => ToSet(io'.pending) = ToSet(io.pending)
      BY <3>2, <3>3
    <3> QED BY <3>1, <3>2, <3>4 DEF Feeds, PendsInstead
  <2>2. CASE io' = I /\ io' # IoFeed(I, h)
    BY <1>2, <2>2
  <2> QED BY <2>1, <2>2
<1>4. ToSet(io'.pending) \in {ToSet(io.pending), ToSet(io.pending) \cup {h}}
  BY <1>3
<1>5. IoOf(h)
  BY <1>2, <1>3, <1>4 DEF IoOf, Fed
<1>6. OwnersFit'
  BY <1>1, <1>2, <1>3, OwnersTake
<1> QED BY <1>2, <1>3, <1>4, <1>5, <1>6 DEF SocketGiven, Fed

(* A connection is being made, or failed at once.                          *)
LEMMA ConnectingFits ==
  ASSUME StreamsInv, NEW h \in Streams, Call, Usable(h), io.fd[h] = None,
         UNCHANGED <<hs, wq, done, shutdown, accepted, listening>>,
         connect' = connect \cup {h}, delayed' \in {delayed, delayed \cup {h}},
         st' \in {st, [st EXCEPT ![h] = @ \cup {"writable"}]},
         IoOf(h), IoFit(io', Handles), IsInjective(io'.pending), OwnersFit',
         io'.fd[h] = None => h \in delayed' /\ st' = st,
         h \notin delayed' => "out" \in io'.pevents[h],
         h \in delayed' /\ h \notin delayed => Fed(h)', Fed(h) => Fed(h)'
  PROVE  WatchesFit'
<1>1. StreamFits(h) /\ frame' = frame
  BY InCallFits
<1>2. /\ ~Under(h, WorkLabels)
      /\ wq[h] = <<>> /\ done[h] = <<>> /\ h \notin shutdown /\ accepted[h] = None
      /\ h \notin listening /\ "reading" \notin st[h]
  BY SocketlessFits
<1>3. FlagsOf(h) /\ Usable(h)'
  BY FlagsStand
<1>4. VarsOf(h) /\ st'[h] \in {st[h], st[h] \cup {"writable"}}
  BY StreamTypes DEF VarsOf
<1>5. h \in delayed => Fed(h)
  BY <1>1, <1>2 DEF StreamFits, ConnectFits, Under, WorkLabels
<1>6. CloseFits(h)' /\ ListenFits(h)'
  BY <1>2, <1>3 DEF CloseFits, ListenFits
<1>7. SocketFits(h)'
  BY <1>1, <1>2 DEF StreamFits, SocketFits
<1>8. ConnectFits(h)'
  BY <1>2, <1>5 DEF ConnectFits
<1>9. WriteFits(h)' /\ ShutdownFits(h)' /\ ReadFits(h)'
  BY <1>1, <1>2, <1>3, <1>4 DEF WriteFits, ShutdownFits, ReadFits, StreamFits
<1>10. UnderFits(h)'
  BY <1>1, <1>2 DEF UnderFits, Under, WorkLabels
<1>11. StreamFits(h)'
  BY <1>6, <1>7, <1>8, <1>9, <1>10 DEF StreamFits
<1> QED BY <1>3, <1>4, <1>11, StreamCallFits

LEMMA TcpConnectFits ==
  ASSUME StreamsOnly, StreamsInv, NEW h \in Streams, NEW f \in Fds, TcpConnect(h, f)
  PROVE  WatchesFit'
<1> DEFINE I == [Opened(io, f) EXCEPT !.fd[h] = f]
           J == IoStart(I, h, {"out"})
<1>1. /\ Call /\ Usable(h) /\ io.fd[h] = None /\ NewFd(f)
      /\ \/ io' = J /\ delayed' = delayed
         \/ io' = IoFeed(J, h) /\ delayed' = delayed \cup {h}
      /\ st' = [st EXCEPT ![h] = @ \cup {"writable"}]
      /\ connect' = connect \cup {h}
      /\ UNCHANGED <<hs, wq, done, shutdown, accepted, listening>>
  BY DEF TcpConnect, queueVars
<1>2. OpenNow(h, f, I) /\ J = IoStart(I, h, {"out"})
  BY <1>1, OpenNowFits
<1> HIDE DEF I, J
<1>3. io.pevents[h] = {}
  BY <1>1, SocketlessFits
<1>4. SocketNow(h, f, {"out"}, J)
  BY <1>2, <1>3, SocketStarts
<1>5. /\ SocketGiven(h, f, {"out"}) /\ (Fed(h) => Fed(h)')
      /\ io' = IoFeed(J, h) => Fed(h)'
  BY <1>1, <1>4, SocketGivenFits
<1>6. f # None /\ (delayed' # delayed => Fed(h)')
  BY <1>1, <1>5
<1> QED BY <1>1, <1>5, <1>6, ConnectingFits DEF SocketGiven

LEMMA PipeConnectFits ==
  ASSUME StreamsOnly, StreamsInv, NEW h \in Streams, NEW f \in Fds \cup {None}, PipeConnect(h, f)
  PROVE  WatchesFit'
<1> DEFINE I == [io EXCEPT !.fd[h] = f, !.open = @ \cup ({f} \ {None})]
           J == IoStart(I, h, {"in", "out"})
<1>1. /\ Call /\ Usable(h) /\ io.fd[h] = None /\ (f # None => NewFd(f))
      /\ \/ /\ f # None /\ io' = IoFeed(J, h)
            /\ st' = [st EXCEPT ![h] = @ \cup {"writable"}] /\ delayed' = delayed
         \/ io' = IoFeed(I, h) /\ delayed' = delayed \cup {h} /\ st' = st
      /\ connect' = connect \cup {h}
      /\ UNCHANGED <<hs, wq, done, shutdown, accepted, listening>>
  BY DEF PipeConnect, queueVars
<1>2. io.pevents[h] = {}
  BY <1>1, SocketlessFits
<1>3. IoFit(io, Handles) /\ io \in WatchersOf(Handles) /\ OwnersFit
  BY <1>1, InCallFits DEF IoFit
<1>4. CASE f = None
  <2>1. I = io
    <3>1. /\ io.fd \in [Handles -> Fds \cup {None}]
      BY <1>3, WatchersTypes
    <3>2. [io.fd EXCEPT ![h] = f] = io.fd /\ io.open \cup ({f} \ {None}) = io.open
      BY <1>1, <1>4, <3>1
    <3>3. I = [io EXCEPT !.fd = io.fd, !.open = io.open]
      BY <3>2
    <3> QED BY <1>3, <3>3 DEF WatchersOf
  <2>2. io' = IoFeed(io, h) /\ delayed' = delayed \cup {h} /\ st' = st
    BY <1>1, <1>4, <2>1
  <2>3. IoOf(h) /\ Fed(h)' /\ FedNow(h, io')
    BY <2>2, IoFed
  <2>4. OwnersFit'
    BY <1>1, <1>3, <2>3, OwnersStand DEF FedNow
  <2> QED BY <1>1, <2>2, <2>3, <2>4, ConnectingFits DEF FedNow
<1>5. CASE f # None
  <2>1. I = [Opened(io, f) EXCEPT !.fd[h] = f]
    <3>1. {f} \ {None} = {f}
      BY <1>5
    <3>2. I = [io EXCEPT !.fd[h] = f, !.open = @ \cup {f}]
      BY <3>1, Zenon
    <3>3. Opened(io, f) = [io EXCEPT !.open = @ \cup {f}]
      BY DEF Opened
    <3> QED BY <1>3, <3>2, <3>3 DEF WatchersOf
  <2>2. OpenNow(h, f, I) /\ J = IoStart(I, h, {"in", "out"})
    BY <1>1, <1>5, <2>1, OpenNowFits
  <2> HIDE DEF I, J
  <2>3. SocketNow(h, f, {"in", "out"}, J)
    BY <1>2, <2>2, SocketStarts
  <2>4. SocketNow(h, f, {}, I)
    BY <1>2, <2>2 DEF OpenNow, SocketNow
  <2>5. CASE io' = IoFeed(J, h) /\ st' = [st EXCEPT ![h] = @ \cup {"writable"}] /\ delayed' = delayed
    <3>1. SocketGiven(h, f, {"in", "out"}) /\ Fed(h)'
      BY <1>1, <2>3, <2>5, SocketGivenFits
    <3> QED BY <1>1, <1>5, <2>5, <3>1, ConnectingFits DEF SocketGiven
  <2>6. CASE io' = IoFeed(I, h) /\ delayed' = delayed \cup {h} /\ st' = st
    <3>1. SocketGiven(h, f, {}) /\ Fed(h)'
      BY <1>1, <2>4, <2>6, SocketGivenFits
    <3> QED BY <1>1, <1>5, <2>6, <3>1, ConnectingFits DEF SocketGiven
  <2> QED BY <1>1, <2>5, <2>6
<1> QED BY <1>4, <1>5
-----------------------------------------------------------------------------
(* uv_write() and uv_write2()                                              *)
LEMMA WriteNowFits ==
  ASSUME StreamsInv, NEW h \in Streams, NEW r \in Writes, Write(h, r)
  PROVE  /\ IoOf(h) /\ IoFit(io', Handles) /\ IsInjective(io'.pending) /\ VarsOf(h)
         /\ io'.fd = io.fd /\ io'.open = io.open /\ io'.epoll = io.epoll
         /\ io.pevents[h] \subseteq io'.pevents[h] /\ (Fed(h) => Fed(h)')
         /\ h \in connect => io' = io /\ done'[h] = done[h]
         /\ \/ wq'[h] = <<>> /\ Fed(h)'
            \/ done'[h] = done[h] /\ ("out" \in io'.pevents[h] \/ h \in connect)
<1>1. /\ HasFd(h) /\ UNCHANGED <<st, connect, shutdown, delayed, accepted, listening>>
      /\ IF h \notin connect /\ wq[h] = <<>> THEN WriteHead(h, Append(wq[h], r), io)
         ELSE /\ wq' = [wq EXCEPT ![h] = Append(wq[h], r)] /\ UNCHANGED done
              /\ io' = IF h \in connect THEN io ELSE IoStart(io, h, {"out"})
  BY DEF Write
<1>2. wq \in [Streams -> Seq(Writes)] /\ io.fd[h] # None
  BY <1>1, StreamTypes DEF HasFd
<1>3. CASE h \notin connect /\ wq[h] = <<>>
  <2>1. WriteHead(h, <<r>>, io) /\ <<r>> # <<>> /\ Tail(<<r>>) = <<>>
    BY <1>1, <1>3
  <2>2. WritesNow(h, <<r>>)
    BY <1>1, <1>2, <2>1, WriteHeadFits
  <2> QED BY <1>3, <2>1, <2>2 DEF WritesNow
<1>4. CASE ~(h \notin connect /\ wq[h] = <<>>)
  <2>1. /\ wq' = [wq EXCEPT ![h] = Append(wq[h], r)] /\ UNCHANGED done
        /\ io' = IF h \in connect THEN io ELSE IoStart(io, h, {"out"})
    BY <1>1, <1>4
  <2>2. VarsOf(h) /\ done'[h] = done[h]
    BY <1>1, <1>2, <2>1 DEF VarsOf
  <2>3. CASE h \in connect
    <3>1. io' = io
      BY <2>1, <2>3
    <3>2. IoOf(h) /\ (Fed(h)' <=> Fed(h)) /\ IoFit(io', Handles) /\ IsInjective(io'.pending)
      BY <3>1, IoStands
    <3> QED BY <2>2, <2>3, <3>1, <3>2
  <2>4. CASE h \notin connect
    <3>1. IoFit(io, Handles) /\ h \in Handles /\ None \notin Handles
      BY DEF StreamsInv, StreamLoopFits
    <3>2. io' = IoStart(io, h, {"out"})
      BY <2>1, <2>4
    <3>3. WantsInstead(io, Handles, h, io.pevents[h] \cup {"out"}, io')
      BY <1>2, <3>1, <3>2, IoStartFits
    <3>4. /\ WantsNow(h, io.pevents[h] \cup {"out"}) /\ (Fed(h)' <=> Fed(h))
          /\ io'.fd = io.fd /\ io'.open = io.open
      BY <3>3, IoWants
    <3> QED BY <2>2, <2>4, <3>4 DEF WantsNow
  <2> QED BY <2>3, <2>4
<1> QED BY <1>3, <1>4

LEMMA StreamWriteFits ==
  ASSUME StreamsInv, NEW h \in Streams, NEW r \in Writes, Write(h, r)
  PROVE  WatchesFit'
<1>1. /\ Call /\ Usable(h) /\ io.fd[h] # None /\ h \notin listening
      /\ UNCHANGED <<hs, st, connect, shutdown, delayed, accepted, listening>>
  BY DEF Write, HasFd
<1>2. StreamFits(h) /\ OwnersFit /\ frame' = frame
  BY <1>1, InCallFits
<1>3. /\ IoOf(h) /\ IoFit(io', Handles) /\ IsInjective(io'.pending) /\ VarsOf(h)
      /\ io'.fd = io.fd /\ io'.open = io.open /\ io'.epoll = io.epoll
      /\ io.pevents[h] \subseteq io'.pevents[h] /\ (Fed(h) => Fed(h)')
      /\ h \in connect => io' = io /\ done'[h] = done[h]
      /\ \/ wq'[h] = <<>> /\ Fed(h)'
         \/ done'[h] = done[h] /\ ("out" \in io'.pevents[h] \/ h \in connect)
  BY WriteNowFits
<1>4. OwnersFit'
  BY <1>1, <1>2, <1>3, OwnersStand
<1>5. FlagsOf(h) /\ Usable(h)' /\ (IsActive(hs, h)' <=> IsActive(hs, h))
  BY <1>1, FlagsStand
<1>6. StreamFits(h)'
  <2>1. CloseFits(h)' /\ SocketFits(h)' /\ ListenFits(h)'
    BY <1>1, <1>3, <1>5 DEF CloseFits, SocketFits, ListenFits
  <2>2. ConnectFits(h)'
    BY <1>1, <1>2, <1>3 DEF StreamFits, ConnectFits, Under
  <2>3. WriteFits(h)'
    BY <1>1, <1>2, <1>3 DEF StreamFits, WriteFits, Under
  <2>4. ShutdownFits(h)' /\ ReadFits(h)'
    BY <1>1, <1>2, <1>3, <1>5 DEF StreamFits, ShutdownFits, ReadFits
  <2>5. UnderFits(h)'
    BY <1>1, <1>2, <1>3, <1>5 DEF StreamFits, UnderFits, Under
  <2> QED BY <2>1, <2>2, <2>3, <2>4, <2>5 DEF StreamFits
<1> QED BY <1>1, <1>3, <1>4, <1>5, <1>6, StreamCallFits

(* uv_shutdown(), uv_read_start() and uv_read_stop(): a call that changes  *)
(* what the watcher wants, and the marks.                                  *)
LEMMA WantCallFits ==
  ASSUME StreamsInv, NEW h \in Streams, Call, Usable(h), io.fd[h] # None, h \notin listening,
         NEW E, WantsInstead(io, Handles, h, E, io'),
         "out" \in io.pevents[h] => "out" \in E,
         FlagsOf(h), Usable(h)',
         UNCHANGED <<wq, done, connect, delayed, accepted, listening>>,
         \A g \in Streams : g # h => /\ st'[g] = st[g]
                                     /\ g \in shutdown' <=> g \in shutdown,
         "refused" \in st'[h] <=> "refused" \in st[h],
         h \in shutdown' => h \in shutdown \/ "out" \in E,
         ShutdownFits(h)', ReadFits(h)'
  PROVE  WatchesFit'
<1>1. StreamFits(h) /\ OwnersFit /\ frame' = frame
  BY InCallFits
<1>2. WantsNow(h, E) /\ (Fed(h)' <=> Fed(h)) /\ io'.fd = io.fd /\ io'.open = io.open
  BY IoWants
<1>3. /\ IoOf(h) /\ IoFit(io', Handles) /\ IsInjective(io'.pending)
      /\ io'.pevents[h] = E /\ io'.epoll = io.epoll
  BY <1>2 DEF WantsNow
<1>4. OwnersFit'
  BY <1>1, <1>2, <1>3, OwnersStand
<1>5. VarsOf(h)
  BY DEF VarsOf
<1>6. StreamFits(h)'
  <2>1. CloseFits(h)' /\ SocketFits(h)' /\ ListenFits(h)'
    BY <1>2 DEF CloseFits, SocketFits, ListenFits
  <2>2. ConnectFits(h)'
    BY <1>1, <1>2, <1>3 DEF StreamFits, ConnectFits, Under
  <2>3. WriteFits(h)'
    BY <1>1, <1>2, <1>3 DEF StreamFits, WriteFits, Under
  <2>4. UnderFits(h)'
    BY <1>1, <1>2 DEF StreamFits, UnderFits, Under
  <2> QED BY <2>1, <2>2, <2>3, <2>4 DEF StreamFits
<1> QED BY <1>3, <1>4, <1>5, <1>6, StreamCallFits

LEMMA StreamShutdownFits ==
  ASSUME StreamsInv, NEW h \in Streams, Shutdown(h)
  PROVE  WatchesFit'
<1>1. /\ Call /\ Usable(h) /\ io.fd[h] # None /\ "writable" \in st[h] /\ "shutting" \notin st[h]
      /\ shutdown' = shutdown \cup {h} /\ st' = [st EXCEPT ![h] = @ \cup {"shutting"}]
      /\ io' = IoStart(io, h, {"out"})
      /\ UNCHANGED <<hs, wq, done, connect, delayed, accepted, listening>>
  BY DEF Shutdown, HasFd, queueVars
<1>2. StreamFits(h) /\ IoFit(io, Handles) /\ h \in Handles /\ None \notin Handles
  BY <1>1, InCallFits
<1>3. WantsInstead(io, Handles, h, io.pevents[h] \cup {"out"}, io')
  BY <1>1, <1>2, IoStartFits
<1>4. io'.pevents[h] = io.pevents[h] \cup {"out"}
  BY <1>3 DEF WantsInstead
<1>5. FlagsOf(h) /\ Usable(h)' /\ (IsActive(hs, h)' <=> IsActive(hs, h))
  BY <1>1, FlagsStand
<1>6. st'[h] = st[h] \cup {"shutting"} /\ \A g \in Streams : g # h => st'[g] = st[g]
  BY <1>1, StreamTypes
<1>7. h \notin listening
  BY <1>1, <1>2 DEF StreamFits, ListenFits
<1>8. ShutdownFits(h)' /\ ReadFits(h)'
  BY <1>1, <1>2, <1>4, <1>5, <1>6 DEF StreamFits, ShutdownFits, ReadFits
<1> QED BY <1>1, <1>3, <1>5, <1>6, <1>7, <1>8, WantCallFits

LEMMA StreamReadStartFits ==
  ASSUME StreamsInv, NEW h \in Streams, ReadStart(h)
  PROVE  WatchesFit'
<1>1. /\ Call /\ Usable(h) /\ io.fd[h] # None /\ h \notin listening
      /\ st' = [st EXCEPT ![h] = (@ \cup {"reading"}) \ {"eof"}]
      /\ io' = IoStart(io, h, {"in"}) /\ hs' = Started(hs, h)
      /\ UNCHANGED <<wq, done, connect, shutdown, delayed, accepted, listening>>
  BY DEF ReadStart, HasFd, queueVars
<1>2. StreamFits(h) /\ IoFit(io, Handles) /\ h \in Handles /\ None \notin Handles
  BY <1>1, InCallFits
<1>3. WantsInstead(io, Handles, h, io.pevents[h] \cup {"in"}, io')
  BY <1>1, <1>2, IoStartFits
<1>4. io'.pevents[h] = io.pevents[h] \cup {"in"}
  BY <1>3 DEF WantsInstead
<1>5. FlagsOf(h) /\ Usable(h)' /\ IsActive(hs, h)'
  BY <1>1, FlagsStarted
<1>6. /\ st'[h] = (st[h] \cup {"reading"}) \ {"eof"}
      /\ \A g \in Streams : g # h => st'[g] = st[g]
  BY <1>1, StreamTypes
<1>7. ShutdownFits(h)' /\ ReadFits(h)'
  BY <1>1, <1>2, <1>4, <1>5, <1>6 DEF StreamFits, ShutdownFits, ReadFits
<1> QED BY <1>1, <1>3, <1>5, <1>6, <1>7, WantCallFits

LEMMA StreamReadStopFits ==
  ASSUME StreamsInv, NEW h \in Streams, ReadStop(h)
  PROVE  WatchesFit'
<1>1. /\ Call /\ Usable(h) /\ io.fd[h] # None /\ h \notin listening
      /\ st' = [st EXCEPT ![h] = @ \ {"reading"}]
      /\ io' = IoStop(io, h, {"in"}) /\ hs' = Stopped(hs, h)
      /\ UNCHANGED <<wq, done, connect, shutdown, delayed, accepted, listening>>
  BY DEF ReadStop, HasFd, queueVars
<1>2. StreamFits(h) /\ IoFit(io, Handles) /\ h \in Handles /\ None \notin Handles
  BY <1>1, InCallFits
<1>3. WantsInstead(io, Handles, h, io.pevents[h] \ {"in"}, io')
  BY <1>1, <1>2, IoStopFits
<1>4. FlagsOf(h) /\ Usable(h)'
  BY <1>1, FlagsStopped
<1>5. st'[h] = st[h] \ {"reading"} /\ \A g \in Streams : g # h => st'[g] = st[g]
  BY <1>1, StreamTypes
<1>6. ShutdownFits(h)' /\ ReadFits(h)'
  BY <1>1, <1>2, <1>5 DEF StreamFits, ShutdownFits, ReadFits
<1> QED BY <1>1, <1>3, <1>4, <1>5, <1>6, WantCallFits

(* uv_close()                                                              *)
LEMMA StreamCloseFits ==
  ASSUME StreamsOnly, StreamsInv, NEW h \in Streams, StreamClose(h)
  PROVE  WatchesFit'
<1>1. /\ Call /\ Usable(h) /\ CloseStream(h)
      /\ UNCHANGED <<wq, done, connect, shutdown, delayed, listening>>
  BY DEF StreamClose, queueVars
<1>2. StreamFits(h) /\ frame' = frame /\ ~Under(h, {"io"})
  BY <1>1, InCallFits
<1>3. ClosedNow(h)
  BY <1>1, StreamClosedFits
<1>4. VarsOf(h)
  BY <1>1, <1>3 DEF ClosedNow, VarsOf
<1>5. UnderFits(h)'
  <2>1. accepted'[h] = None
    BY <1>3 DEF ClosedNow, CloseFits
  <2> QED BY <1>1, <1>2, <1>3, <2>1 DEF ClosedNow, StreamFits, UnderFits, Under
<1>6. StreamFits(h)'
  BY <1>3, <1>5, ClosedStreamFits DEF ClosedNow
<1> QED BY <1>1, <1>3, <1>4, <1>6, StreamCallFits DEF ClosedNow
-----------------------------------------------------------------------------
(* uv_tcp_listen(), or uv_pipe_bind() and uv_pipe_listen()                 *)
LEMMA StreamListenFits ==
  ASSUME StreamsOnly, StreamsInv, NEW h \in Streams, NEW f \in Fds, Listen(h, f)
  PROVE  WatchesFit'
<1> DEFINE I == [Opened(io, f) EXCEPT !.fd[h] = f]
<1>1. /\ Call /\ Usable(h) /\ io.fd[h] = None /\ h \notin connect /\ NewFd(f)
      /\ io' = IoStart(I, h, {"in"}) /\ hs' = Started(hs, h)
      /\ listening' = listening \cup {h}
      /\ UNCHANGED <<st, wq, done, connect, shutdown, delayed, accepted>>
  BY DEF Listen, queueVars
<1>2. OpenNow(h, f, I)
  BY <1>1, OpenNowFits
<1> HIDE DEF I
<1>3. StreamFits(h) /\ OwnersFit /\ frame' = frame /\ batch' = batch
  BY <1>1, InCallFits
<1>4. /\ ~Under(h, WorkLabels) /\ io.pevents[h] = {}
      /\ wq[h] = <<>> /\ done[h] = <<>> /\ h \notin shutdown /\ accepted[h] = None
      /\ h \notin listening /\ "reading" \notin st[h]
  BY <1>1, SocketlessFits
<1>5. SocketNow(h, f, {"in"}, io')
  BY <1>1, <1>2, <1>4, SocketStarts
<1>6. SocketGiven(h, f, {"in"}) /\ (Fed(h)' <=> Fed(h))
  BY <1>1, <1>5, SocketGivenFits
<1>7. /\ IoOf(h) /\ IoFit(io', Handles) /\ IsInjective(io'.pending) /\ OwnersFit'
      /\ io'.fd[h] = f /\ io'.pevents[h] = {"in"} /\ io'.epoll = io.epoll
  BY <1>6 DEF SocketGiven
<1>8. FlagsOf(h) /\ Usable(h)' /\ IsActive(hs, h)'
  BY <1>1, FlagsStarted
<1>9. VarsOf(h)
  BY <1>1 DEF VarsOf
<1>10. f \in Fds /\ f # None /\ io.epoll[f] = {} /\ batch[f] = {}
  BY <1>2, <1>3 DEF OpenNow, OwnersFit
<1>11. StreamFits(h)'
  <2>1. CloseFits(h)' /\ SocketFits(h)'
    BY <1>7, <1>8, <1>10 DEF CloseFits, SocketFits
  <2>2. ListenFits(h)'
    <3>1. ~Fed(h) /\ "writable" \notin st[h]
      BY <1>1, <1>3 DEF StreamFits, SocketFits
    <3> QED BY <1>1, <1>3, <1>4, <1>6, <1>7, <1>10, <3>1 DEF ListenFits
  <2>3. ConnectFits(h)'
    BY <1>1, <1>3 DEF StreamFits, ConnectFits
  <2>4. WriteFits(h)' /\ ReadFits(h)'
    BY <1>1, <1>4 DEF WriteFits, ReadFits
  <2>5. ShutdownFits(h)'
    BY <1>1, <1>3 DEF StreamFits, ShutdownFits
  <2>6. UnderFits(h)'
    BY <1>3, <1>4 DEF UnderFits, Under, WorkLabels
  <2> QED BY <2>1, <2>2, <2>3, <2>4, <2>5, <2>6 DEF StreamFits
<1> QED BY <1>1, <1>7, <1>8, <1>9, <1>11, StreamCallFits

(* uv_accept(): the descriptor goes to the client, and h waits again.      *)
Moves(h, k) ==
  /\ IoFit(io', Handles) /\ io'.pending = io.pending
  /\ io'.pevents[h] = io.pevents[h] \cup {"in"}
  /\ \A g \in Streams : g # h => io'.pevents[g] = io.pevents[g]
  /\ io'.fd[k] = accepted[h] /\ \A g \in Streams : g # k => io'.fd[g] = io.fd[g]
  /\ io'.open = io.open /\ io'.epoll = io.epoll

LEMMA AcceptMoves ==
  ASSUME StreamsOnly, StreamsInv, NEW h \in Streams, NEW k \in Streams, h # k, io.fd[h] # None,
         accepted[h] # None, io.fd[k] = None,
         io' = IoStart([io EXCEPT !.fd[k] = accepted[h]], h, {"in"})
  PROVE  Moves(h, k)
<1> DEFINE f == accepted[h]
           I == [io EXCEPT !.fd[k] = f]
<1>1. /\ OwnersFit /\ IoFit(io, Handles) /\ None \notin Handles /\ h \in Handles /\ k \in Handles
      /\ Handles = Streams
  BY DEF StreamsInv, StreamLoopFits, StreamsOnly
<1>2. f \in Held[h] /\ f \in Fds /\ f \in io.open
  <2>1. f \in Held[h]
    BY HeldNow
  <2> QED BY <1>1, <2>1 DEF OwnersFit
<1>3. ASSUME NEW g \in Handles PROVE io.fd[g] # f
  <2>1. g = h => io.fd[g] # f
    BY <1>1 DEF OwnersFit
  <2>2. ASSUME g # h, io.fd[g] = f PROVE FALSE
    <3>1. g \in Streams /\ f \in Held[g]
      BY <1>1, <1>2, <2>2, HeldNow
    <3> QED BY <1>1, <1>2, <2>2, <3>1 DEF OwnersFit
  <2> QED BY <2>1, <2>2
<1>4. I = [io EXCEPT !.fd[k] = f] /\ io' = IoStart(I, h, {"in"})
  OBVIOUS
<1> HIDE DEF f, I
<1>5. GivenFd(io, Handles, k, f, I)
  BY <1>1, <1>2, <1>3, <1>4, GivenFdFits
<1>6. io.fd \in [Handles -> Fds \cup {None}]
  BY <1>1, WatchersTypes DEF IoFit
<1>7. /\ IoFit(I, Handles) /\ I.pending = io.pending /\ I.pevents = io.pevents
      /\ I.open = io.open /\ I.epoll = io.epoll
      /\ I.fd[k] = f /\ \A g \in Streams : g # k => I.fd[g] = io.fd[g]
  BY <1>1, <1>5, <1>6 DEF GivenFd
<1>8. WantsInstead(I, Handles, h, I.pevents[h] \cup {"in"}, io')
  <2>1. I.fd[h] # None
    BY <1>7
  <2>2. WantsInstead(I, Handles, h, I.pevents[h] \cup {"in"}, IoStart(I, h, {"in"}))
    BY <1>1, <1>7, <2>1, IoStartFits
  <2> QED BY <1>4, <2>2, Zenon
<1> QED BY <1>1, <1>7, <1>8 DEF WantsInstead, Moves, f

LEMMA StreamAcceptFits ==
  ASSUME StreamsOnly, StreamsInv, NEW h \in Streams, NEW k \in Streams, Accept(h, k)
  PROVE  WatchesFit'
<1>1. /\ Call /\ Usable(h) /\ accepted[h] # None /\ h # k /\ Usable(k) /\ io.fd[k] = None
      /\ k \notin connect
      /\ io' = IoStart([io EXCEPT !.fd[k] = accepted[h]], h, {"in"})
      /\ st' = [st EXCEPT ![k] = @ \cup {"writable"}]
      /\ accepted' = [accepted EXCEPT ![h] = None]
      /\ UNCHANGED <<hs, wq, done, connect, shutdown, delayed, listening>>
      /\ UNCHANGED <<batch, frame, user>>
  BY DEF Accept, queueVars, Call
<1>2. /\ StreamFits(h) /\ StreamFits(k) /\ OwnersFit /\ IsInjective(io.pending)
      /\ ~Under(h, {"io"})
  BY <1>1, InCallFits
<1>3. io.fd[h] # None
  BY <1>1, <1>2 DEF StreamFits, SocketFits
<1>4. Moves(h, k)
  BY <1>1, <1>3, AcceptMoves
<1>5. /\ ~Under(k, WorkLabels)
      /\ wq[k] = <<>> /\ done[k] = <<>> /\ k \notin shutdown /\ accepted[k] = None
      /\ k \notin listening /\ "reading" \notin st[k]
  BY <1>1, SocketlessFits
<1>6. /\ accepted'[h] = None /\ \A g \in Streams : g # h => accepted'[g] = accepted[g]
      /\ st'[k] = st[k] \cup {"writable"} /\ \A g \in Streams : g # k => st'[g] = st[g]
  BY <1>1, StreamTypes
<1>7. OwnersFit'
  BY <1>1, <1>2, <1>4, <1>5, OwnersMove DEF Moves
<1>8. StreamLoopFits'
  BY <1>1, <1>2, <1>4, CallLoopFits DEF Moves
<1>9. ASSUME NEW g \in Streams
      PROVE  /\ Usable(g)' <=> Usable(g)
             /\ IsActive(hs, g)' <=> IsActive(hs, g)
             /\ Fed(g)' <=> Fed(g)
             /\ \A L : Under(g, L)' <=> Under(g, L)
  BY <1>1, <1>4 DEF Usable, Moves, Fed, Under
<1>10. ASSUME NEW g \in Streams, g # h, g # k PROVE StreamFits(g)'
  <2>1. Untouched(g)
    BY <1>1, <1>4, <1>6, <1>9, <1>10 DEF Untouched, Moves
  <2> QED BY <2>1, UntouchedFits DEF StreamsInv
<1>11. StreamFits(h)'
  <2>1. io'.fd[h] = io.fd[h] /\ io'.epoll = io.epoll /\ io'.pevents[h] = io.pevents[h] \cup {"in"}
    BY <1>1, <1>4 DEF Moves
  <2>2. st'[h] = st[h]
    BY <1>1, <1>6
  <2>3. CloseFits(h)' /\ SocketFits(h)'
    BY <1>1, <1>3, <1>9, <2>1 DEF CloseFits, SocketFits
  <2>4. ListenFits(h)'
    BY <1>1, <1>2, <1>6, <1>9, <2>1, <2>2 DEF StreamFits, ListenFits
  <2>5. ConnectFits(h)'
    BY <1>1, <1>2, <1>9, <2>1 DEF StreamFits, ConnectFits
  <2>6. WriteFits(h)'
    BY <1>1, <1>2, <1>9, <2>1, <2>2 DEF StreamFits, WriteFits
  <2>7. ShutdownFits(h)' /\ ReadFits(h)'
    BY <1>1, <1>2, <1>9, <2>1, <2>2 DEF StreamFits, ShutdownFits, ReadFits
  <2>8. UnderFits(h)'
    BY <1>1, <1>2, <1>6, <1>9, <2>1 DEF StreamFits, UnderFits
  <2> QED BY <2>3, <2>4, <2>5, <2>6, <2>7, <2>8 DEF StreamFits
<1>12. StreamFits(k)'
  <2>1. io'.fd[k] # None
    BY <1>1, <1>4 DEF Moves
  <2>2. CloseFits(k)' /\ SocketFits(k)' /\ ListenFits(k)' /\ ConnectFits(k)'
    BY <1>1, <1>2, <1>5, <1>9, <2>1 DEF CloseFits, SocketFits, ListenFits, ConnectFits, StreamFits
  <2>3. WriteFits(k)' /\ ShutdownFits(k)' /\ ReadFits(k)'
    BY <1>1, <1>2, <1>5, <1>6 DEF WriteFits, ShutdownFits, ReadFits, StreamFits
  <2>4. UnderFits(k)'
    BY <1>1, <1>5 DEF UnderFits, Under, WorkLabels
  <2> QED BY <2>2, <2>3, <2>4 DEF StreamFits
<1> QED BY <1>7, <1>8, <1>10, <1>11, <1>12 DEF WatchesFit

(* The calls of the program for a stream                                   *)
LEMMA CallsFit ==
  ASSUME StreamsOnly, StreamsInv, NEW h \in Streams, StreamCall(h)
  PROVE  WatchesFit'
<1>1. CASE Initialize(h) \/ Shutdown(h) \/ ReadStart(h) \/ ReadStop(h) \/ StreamClose(h)
           \/ \E r \in Writes : Write(h, r)
  BY <1>1, StreamInitializeFits, StreamShutdownFits, StreamReadStartFits, StreamReadStopFits,
     StreamCloseFits, StreamWriteFits
<1>2. CASE \E f \in Fds : Open(h, f) \/ TcpConnect(h, f) \/ PipeConnect(h, f) \/ Listen(h, f)
  BY <1>2, OpenFits, TcpConnectFits, PipeConnectFits, StreamListenFits
<1>3. CASE PipeConnect(h, None)
  BY <1>3, PipeConnectFits
<1>4. CASE \E k \in Streams : Accept(h, k)
  BY <1>4, StreamAcceptFits
<1> QED BY <1>1, <1>2, <1>3, <1>4 DEF StreamCall

-----------------------------------------------------------------------------
(* The steps of the loop: what they leave of every stream.                 *)
FlagsAsWere == \A g \in Streams :
  /\ Usable(g)' <=> Usable(g)
  /\ IsActive(hs, g)' <=> IsActive(hs, g)

LEMMA LoopLeaves ==
  ASSUME StreamsInv, UNCHANGED streamVars, FlagsAsWere, NEW g \in Streams,
         io'.fd = io.fd, io'.pevents = io.pevents, Fed(g)' <=> Fed(g),
         io.fd[g] # None =>
           /\ io'.epoll[io.fd[g]] \subseteq io.epoll[io.fd[g]] \cup io.pevents[g]
           /\ batch'[io.fd[g]] \subseteq
                batch[io.fd[g]] \cup io.epoll[io.fd[g]] \cup io.pevents[g],
         frame' = frame \/ (~Under(g, WorkLabels) /\ ~Under(g, WorkLabels)')
  PROVE  StreamFits(g)'
<1>1. UNCHANGED <<wq, done, st, accepted, connect, shutdown, delayed, listening>>
  BY DEF streamVars, queueVars
<1>2. Untouched(g)
  BY <1>1 DEF Untouched, FlagsAsWere
<1> QED BY <1>2, UntouchedFits DEF StreamsInv

(* No stream is at work, before and after the step.                        *)
LEMMA NoneAtWork ==
  ASSUME StreamsInv, frame.at = "none", NEW g \in Streams
  PROVE  ~Under(g, WorkLabels) /\ \A L : ~Under(g, L)
<1>1. frame.h = None /\ g # None
  BY DEF StreamsInv, StreamLoopFits
<1> QED BY <1>1 DEF Under

(* Phases, the closing list and the turns of the program                   *)
LEMMA QuietLoopFits ==
  ASSUME StreamsInv, UNCHANGED streamVars, FlagsAsWere, UNCHANGED <<io, batch>>,
         frame' \in StreamFrames, frame'.at = "none" => frame'.h = None,
         frame'.at = "io" => ~user',
         \A g \in Streams :
           frame' = frame \/ (~Under(g, WorkLabels) /\ ~Under(g, WorkLabels)')
  PROVE  WatchesFit'
<1>1. StreamLoopFits'
  BY DEF StreamsInv, StreamLoopFits
<1>2. OwnersFit'
  BY OwnersStand DEF StreamsInv, streamVars
<1>3. ASSUME NEW g \in Streams PROVE StreamFits(g)'
  BY LoopLeaves DEF Fed
<1> QED BY <1>1, <1>2, <1>3 DEF WatchesFit

LEMMA TurnFits ==
  ASSUME StreamsInv, UNCHANGED streamVars, RunLoop \/ RunCheck \/ Return \/ EndIteration
  PROVE  WatchesFit'
<1>1. UNCHANGED <<hs, io, batch, frame>> /\ (user' => frame.at = "none")
  BY DEF RunLoop, RunCheck, Return, EndIteration, At, StreamsInv, StreamLoopFits
<1>2. FlagsAsWere
  BY <1>1 DEF FlagsAsWere, Usable
<1>3. /\ frame' \in StreamFrames /\ (frame'.at = "none" => frame'.h = None)
      /\ frame'.at = "io" => ~user'
  BY <1>1 DEF StreamsInv, StreamLoopFits, RunLoop, RunCheck, Return, EndIteration, At
<1> QED BY <1>1, <1>2, <1>3, QuietLoopFits

LEMMA CallClosedFits ==
  ASSUME StreamsInv, UNCHANGED streamVars, CallClosed
  PROVE  WatchesFit'
<1>1. UNCHANGED <<hs, io, batch>> /\ frame.at = "closed" /\ frame' = NoFrame
  BY DEF CallClosed, At
<1>2. FlagsAsWere
  BY <1>1 DEF FlagsAsWere, Usable
<1>3. frame' \in StreamFrames /\ frame'.at = "none" /\ frame'.h = None
  BY <1>1 DEF NoFrame, StreamFrames, StreamLabels
<1>4. ASSUME NEW g \in Streams PROVE ~Under(g, WorkLabels) /\ ~Under(g, WorkLabels)'
  BY <1>1, <1>3 DEF Under, WorkLabels
<1> QED BY <1>1, <1>2, <1>3, <1>4, QuietLoopFits

LEMMA StreamsClosingFits ==
  ASSUME StreamsInv, UNCHANGED streamVars, RunClosing \/ StartFinish
  PROVE  WatchesFit'
<1>1. /\ frame.at = "none" /\ HandlesFit(hs, Handles) /\ UNCHANGED <<io, batch, user>>
      /\ phase # "closing" => hs.doomed = <<>>
      /\ frame \in StreamFrames /\ frame.h = None
  BY DEF RunClosing, StartFinish, At, StreamsInv, RequestsInv, StreamLoopFits
<1>2. CASE RunClosing
  <2>1. hs' = TakeClosing(hs) /\ UNCHANGED frame /\ hs.doomed = <<>>
    BY <1>1, <1>2 DEF RunClosing
  <2>2. hs'.flags = hs.flags
    BY <1>1, <2>1, TakenFits
  <2>3. FlagsAsWere
    BY <2>2 DEF FlagsAsWere, Usable, IsUsable, IsActive
  <2> QED BY <1>1, <2>1, <2>3, QuietLoopFits
<1>3. CASE StartFinish
  <2> DEFINE p == Head(hs.doomed)
  <2>1. hs' = FinishClose(hs) /\ frame' = Frame("finish", p, {}) /\ hs.doomed # <<>>
    BY <1>3 DEF StartFinish
  <2>2. p \in Handles /\ FinishedWith(hs, Handles, p, hs')
    BY <1>1, <2>1, FinishedFits
  <2> HIDE DEF p
  <2>3. /\ hs'.flags[p] = (hs.flags[p] \cup {"closed"}) \ {"ref"}
        /\ \A g \in Handles : g # p => hs'.flags[g] = hs.flags[g]
    BY <2>2 DEF FinishedWith
  <2>4. ASSUME NEW g \in Streams
        PROVE  /\ Usable(g)' <=> Usable(g)
               /\ IsActive(hs, g)' <=> IsActive(hs, g)
    <3>1. CASE g = p
      BY <2>3, <3>1 DEF Usable, IsUsable, IsActive
    <3>2. CASE g # p
      BY <2>3, <3>2 DEF Usable, IsUsable, IsActive
    <3> QED BY <3>1, <3>2
  <2>5. frame' \in StreamFrames /\ frame'.at = "finish"
    BY <2>1, <2>2 DEF Frame, StreamFrames, StreamLabels
  <2>6. ASSUME NEW g \in Streams PROVE ~Under(g, WorkLabels) /\ ~Under(g, WorkLabels)'
    BY <1>1, <2>5 DEF Under, WorkLabels
  <2> QED BY <1>1, <2>4, <2>5, <2>6, QuietLoopFits DEF FlagsAsWere
<1> QED BY <1>2, <1>3

(* uv__run_pending() calls the function of a stream that was fed.          *)
LEMMA TakePendingFits ==
  ASSUME StreamsOnly, StreamsInv, UNCHANGED streamVars, TakePending
  PROVE  WatchesFit'
<1>0. /\ ~user /\ frame.at = "none" /\ io.pending # <<>>
      /\ frame' = Frame("io", Head(io.pending), {"out"})
      /\ io' = [io EXCEPT !.pending = Tail(@)] /\ UNCHANGED <<hs, batch, user>>
  BY DEF TakePending, At
<1>1. PICK p, q :
        /\ p = Head(io.pending) /\ q = Tail(io.pending)
        /\ ~user /\ frame.at = "none" /\ io.pending # <<>>
        /\ frame' = Frame("io", p, {"out"}) /\ io' = [io EXCEPT !.pending = q]
        /\ UNCHANGED <<hs, batch, user>>
  BY <1>0
<1>2. /\ IoFit(io, Handles) /\ IsInjective(io.pending) /\ Handles = Streams
      /\ io.pending \in Seq(Handles)
  BY WatchersTypes DEF StreamsInv, StreamLoopFits, StreamsOnly, IoFit
<1>3. /\ p \in Handles /\ q \in Seq(Handles) /\ IsInjective(q)
      /\ p \in ToSet(io.pending) /\ ToSet(q) = ToSet(io.pending) \ {p}
  BY <1>1, <1>2, TailElements
<1>4. PendsInstead(io, Handles, q, io')
  BY <1>1, <1>2, <1>3, PendingFits
<1>5. /\ IoFit(io', Handles) /\ io'.pending = q /\ io'.fd = io.fd /\ io'.pevents = io.pevents
      /\ io'.open = io.open /\ io'.epoll = io.epoll
  BY <1>4 DEF PendsInstead
<1>6. frame' \in StreamFrames /\ frame'.at = "io" /\ frame'.h = p /\ frame'.evs = {"out"}
  BY <1>1, <1>3 DEF Frame, StreamFrames, StreamLabels, Events
<1>7. StreamLoopFits'
  BY <1>1, <1>3, <1>5, <1>6 DEF StreamsInv, StreamLoopFits
<1>8. OwnersFit'
  BY <1>5, OwnersStand DEF StreamsInv, streamVars
<1>9. FlagsAsWere
  BY <1>1 DEF FlagsAsWere, Usable
<1>10. ASSUME NEW g \in Streams, g # p PROVE StreamFits(g)'
  <2>1. ~Under(g, WorkLabels) /\ ~Under(g, WorkLabels)'
    BY <1>1, <1>6, <1>10, NoneAtWork DEF Under
  <2>2. Fed(g)' <=> Fed(g)
    BY <1>3, <1>5, <1>10 DEF Fed
  <2> QED BY <1>1, <1>5, <1>9, <2>1, <2>2, LoopLeaves
<1>11. StreamFits(p)'
  <2>1. p \in Streams /\ StreamFits(p) /\ Fed(p) /\ ~Fed(p)' /\ \A L : ~Under(p, L)
    BY <1>1, <1>2, <1>3, <1>5, NoneAtWork DEF Fed, StreamsInv
  <2>2. Usable(p) /\ Usable(p)' /\ (IsActive(hs, p)' <=> IsActive(hs, p))
    BY <1>9, <2>1 DEF StreamFits, CloseFits, FlagsAsWere
  <2>3. p \notin listening /\ (io.fd[p] = None => p \in connect)
    BY <2>1, <2>2 DEF StreamFits, ListenFits, SocketFits
  <2>4. UNCHANGED <<wq, done, st, accepted, connect, shutdown, delayed, listening>>
    BY DEF streamVars, queueVars
  <2>5. CloseFits(p)' /\ SocketFits(p)' /\ ListenFits(p)'
    BY <1>5, <2>1, <2>2, <2>3, <2>4 DEF StreamFits, CloseFits, SocketFits, ListenFits
  <2>6. ConnectFits(p)'
    BY <1>5, <1>6, <2>1, <2>2, <2>4 DEF StreamFits, ConnectFits, Under
  <2>7. WriteFits(p)'
    BY <1>5, <1>6, <2>1, <2>2, <2>4 DEF StreamFits, WriteFits, Under
  <2>8. ShutdownFits(p)' /\ ReadFits(p)'
    BY <1>5, <2>1, <2>2, <2>4 DEF StreamFits, ShutdownFits, ReadFits
  <2>9. UnderFits(p)'
    BY <1>5, <1>6, <2>1, <2>2, <2>3, <2>4 DEF UnderFits, Under
  <2> QED BY <2>5, <2>6, <2>7, <2>8, <2>9 DEF StreamFits
<1> QED BY <1>7, <1>8, <1>10, <1>11 DEF WatchesFit
(* The start of uv__io_poll(): epoll reports what is wanted.               *)
LEMMA StreamsPollFits ==
  ASSUME StreamsOnly, StreamsInv, UNCHANGED streamVars, Poll
  PROVE  WatchesFit'
<1>1. /\ frame.at = "none" /\ UNCHANGED <<hs, frame, user>>
      /\ IF \A f \in Fds : io.watchers[f] = None
         THEN io' = Asserting(io, io.queue = {}) /\ UNCHANGED batch
         ELSE /\ io' = Arm(io, Faulty) /\ batch' \in [Fds -> SUBSET Events]
              /\ \A f \in Fds : batch'[f] \subseteq io'.epoll[f]
  BY DEF Poll, At
<1>2. /\ IoFit(io, Handles) /\ IsInjective(io.pending) /\ None \notin Handles /\ OwnersFit
      /\ Handles = Streams /\ Faulty = {} /\ batch \in [Fds -> SUBSET Events]
  BY DEF StreamsInv, StreamLoopFits, StreamsOnly
<1>3. FlagsAsWere
  BY <1>1 DEF FlagsAsWere, Usable
<1>4. CASE \A f \in Fds : io.watchers[f] = None
  <2>1. (io.queue = {}) = TRUE
    BY <1>2, <1>4, NoneQueued
  <2>2. Asserting(io, io.queue = {}) = io
    BY <1>2, <2>1, AssertionHolds
  <2>3. io' = io /\ batch' = batch
    BY <1>1, <1>4, <2>2, Zenon
  <2> QED BY <1>1, <1>3, <2>3, QuietLoopFits DEF StreamsInv, StreamLoopFits
<1>5. CASE ~\A f \in Fds : io.watchers[f] = None
  <2>1. /\ io' = Arm(io, {}) /\ batch' \in [Fds -> SUBSET Events]
        /\ \A f \in Fds : batch'[f] \subseteq io'.epoll[f]
    BY <1>1, <1>2, <1>5
  <2>2. /\ IoFit(io', Handles) /\ io'.fd = io.fd /\ io'.pending = io.pending
        /\ io'.pevents = io.pevents
    BY <1>2, <2>1, ArmFits
  <2>3. io \in WatchersOf(Handles) /\ io.fd \in [Handles -> Fds \cup {None}] /\ FdsAreOwn(io, Handles)
    BY <1>2, WatchersTypes DEF IoFit
  <2>4. io'.open = io.open
    BY <2>1, <2>3 DEF Arm, Asserting, WatchersOf
  <2>5. ASSUME NEW f \in Fds
        PROVE  \/ io'.epoll[f] = io.epoll[f]
               \/ \E w \in Handles : io.fd[w] = f /\ io'.epoll[f] = io.pevents[w]
    BY <1>2, <2>1, ArmTells
  <2>6. OwnersFit'
    <3>1. ASSUME NEW f \in Fds \ io.open PROVE io'.epoll[f] = {}
      <4>1. \A w \in Handles : io.fd[w] # f
        BY <2>3, <3>1 DEF FdsAreOwn
      <4> QED BY <1>2, <2>5, <3>1, <4>1 DEF OwnersFit
    <3>2. Held' = Held /\ UNCHANGED accepted
      BY <2>2 DEF Held, streamVars
    <3> QED BY <1>2, <2>2, <2>4, <3>1, <3>2 DEF OwnersFit
  <2>7. ASSUME NEW g \in Streams PROVE StreamFits(g)'
    <3>1. ASSUME io.fd[g] # None
          PROVE  /\ io'.epoll[io.fd[g]] \subseteq io.epoll[io.fd[g]] \cup io.pevents[g]
                 /\ batch'[io.fd[g]] \subseteq io'.epoll[io.fd[g]]
      <4>1. io.fd[g] \in Fds
        BY <1>2, <2>3, <3>1
      <4>2. \A w \in Handles : io.fd[w] = io.fd[g] => w = g
        BY <1>2, <2>3, <3>1 DEF FdsAreOwn
      <4> QED BY <2>1, <2>5, <4>1, <4>2
    <3>2. Fed(g)' <=> Fed(g)
      BY <2>2 DEF Fed
    <3>3. io.fd[g] # None =>
            batch'[io.fd[g]] \subseteq batch[io.fd[g]] \cup io.epoll[io.fd[g]] \cup io.pevents[g]
      BY <3>1
    <3> QED BY <1>1, <1>3, <2>2, <3>1, <3>2, <3>3, LoopLeaves
  <2>8. StreamLoopFits'
    BY <1>1, <1>2, <2>1, <2>2 DEF StreamsInv, StreamLoopFits
  <2> QED BY <2>6, <2>7, <2>8 DEF WatchesFit
<1> QED BY <1>4, <1>5

(* The loop over the events: the stream at work is one that waits for what *)
(* is reported of its descriptor.                                          *)
LEMMA TakesEventFits ==
  ASSUME StreamsOnly, StreamsInv, UNCHANGED streamVars, UNCHANGED <<hs, io>>, frame.at = "none",
         NEW f \in Fds, batch[f] # {}, batch' = [batch EXCEPT ![f] = {}],
         NEW p, p = io.watchers[f], p # None, frame' = Frame("io", p, batch[f])
  PROVE  StreamFits(p)' /\ frame'.h = p /\ frame' \in StreamFrames /\ frame'.at = "io"
<1>1. IoFit(io, Handles) /\ Handles = Streams /\ batch \in [Fds -> SUBSET Events]
  BY DEF StreamsInv, StreamLoopFits, StreamsOnly
<1>2. p \in Streams /\ io.fd[p] = f /\ io.pevents[p] # {} /\ io.fd[p] # None
  BY <1>1, WatchersTypes DEF IoFit, WatchersFit, CalledFits
<1>3. StreamFits(p) /\ \A L : ~Under(p, L)
  BY <1>2, NoneAtWork DEF StreamsInv
<1>4. /\ Usable(p) /\ Usable(p)'
      /\ Fed(p)' <=> Fed(p)
      /\ IsActive(hs, p)' <=> IsActive(hs, p)
  BY <1>2, <1>3 DEF StreamFits, CloseFits, Usable, Fed
<1>5. frame' \in StreamFrames /\ frame'.at = "io" /\ frame'.h = p /\ frame'.evs = batch[f]
  BY <1>1, <1>2 DEF Frame, StreamFrames, StreamLabels
<1>6. /\ UNCHANGED <<wq, done, st, accepted, connect, shutdown, delayed, listening, io>>
      /\ batch'[f] = {}
  BY <1>1 DEF streamVars, queueVars
<1>7. p \in listening => batch[f] = {"in"} /\ accepted[p] = None
  <2>1. SUFFICES ASSUME p \in listening PROVE batch[f] = {"in"} /\ accepted[p] = None
    OBVIOUS
  <2>2. /\ batch[f] \subseteq {"in"} /\ io.pevents[p] \subseteq {"in"}
        /\ accepted[p] # None => "in" \notin io.pevents[p]
    BY <1>2, <1>3, <1>4, <2>1 DEF StreamFits, ListenFits
  <2>3. "in" \in io.pevents[p]
    BY <1>2, <2>2
  <2> QED BY <2>2, <2>3
<1>8. CloseFits(p)' /\ SocketFits(p)'
  BY <1>2, <1>4, <1>6 DEF CloseFits, SocketFits
<1>9. ListenFits(p)'
  BY <1>2, <1>3, <1>4, <1>6, <1>7 DEF StreamFits, ListenFits
<1>10. ConnectFits(p)' /\ WriteFits(p)'
  BY <1>3, <1>4, <1>6 DEF StreamFits, ConnectFits, WriteFits
<1>11. ShutdownFits(p)' /\ ReadFits(p)'
  BY <1>3, <1>4, <1>6 DEF StreamFits, ShutdownFits, ReadFits
<1>12. UnderFits(p)'
  BY <1>2, <1>4, <1>5, <1>6, <1>7 DEF UnderFits, Under
<1> QED BY <1>5, <1>8, <1>9, <1>10, <1>11, <1>12 DEF StreamFits

LEMMA StreamsDispatchFits ==
  ASSUME StreamsOnly, StreamsInv, UNCHANGED streamVars, NEW f \in Fds, Dispatch(f)
  PROVE  WatchesFit'
<1>1. /\ frame.at = "none" /\ ~user /\ batch[f] # {} /\ batch' = [batch EXCEPT ![f] = {}]
      /\ UNCHANGED <<hs, user>>
      /\ IF io.watchers[f] = None
         THEN io' = Disarm(io, f) /\ UNCHANGED frame
         ELSE frame' = Frame("io", io.watchers[f], batch[f]) /\ UNCHANGED io
  BY DEF Dispatch, At
<1>2. /\ IoFit(io, Handles) /\ IsInjective(io.pending) /\ None \notin Handles /\ OwnersFit
      /\ batch \in [Fds -> SUBSET Events] /\ Handles = Streams
      /\ frame \in StreamFrames /\ frame.h = None
  BY <1>1 DEF StreamsInv, StreamLoopFits, StreamsOnly
<1>3. FlagsAsWere
  BY <1>1 DEF FlagsAsWere, Usable
<1>4. batch' \in [Fds -> SUBSET Events] /\ \A g \in Fds : batch'[g] \subseteq batch[g]
  BY <1>1, <1>2
<1>5. io \in WatchersOf(Handles) /\ io.fd \in [Handles -> Fds \cup {None}]
      /\ io.epoll \in [Fds -> SUBSET Events]
  BY <1>2, WatchersTypes DEF IoFit
<1>6. /\ IoFit(io', Handles) /\ io'.fd = io.fd /\ io'.pending = io.pending
      /\ io'.pevents = io.pevents /\ io'.open = io.open
      /\ \A g \in Fds : io'.epoll[g] \subseteq io.epoll[g]
  <2>1. CASE io.watchers[f] = None
    <3>1. io' = Disarm(io, f)
      BY <1>1, <2>1
    <3>2. /\ IoFit(io', Handles) /\ io'.fd = io.fd /\ io'.pending = io.pending
          /\ io'.pevents = io.pevents
      BY <1>2, <2>1, <3>1, DisarmFits
    <3>3. io'.open = io.open /\ io'.epoll = [io.epoll EXCEPT ![f] = {}]
      BY <1>5, <3>1 DEF Disarm, WatchersOf
    <3> QED BY <1>5, <3>2, <3>3
  <2>2. CASE io.watchers[f] # None
    BY <1>1, <1>2, <2>2
  <2> QED BY <2>1, <2>2
<1>7. OwnersFit'
  BY <1>2, <1>6, OwnersStand DEF streamVars
<1>8. ASSUME NEW g \in Streams, frame' = frame \/ frame'.h # g PROVE StreamFits(g)'
  <2>1. frame' = frame \/ (~Under(g, WorkLabels) /\ ~Under(g, WorkLabels)')
    BY <1>1, <1>8, NoneAtWork DEF Under
  <2>2. io.fd[g] # None => io.fd[g] \in Fds
    BY <1>2, <1>5
  <2>3. Fed(g)' <=> Fed(g)
    BY <1>6 DEF Fed
  <2>4. io.fd[g] # None =>
          /\ io'.epoll[io.fd[g]] \subseteq io.epoll[io.fd[g]] \cup io.pevents[g]
          /\ batch'[io.fd[g]] \subseteq batch[io.fd[g]] \cup io.epoll[io.fd[g]] \cup io.pevents[g]
    BY <1>4, <1>6, <2>2
  <2> QED BY <1>3, <1>6, <2>1, <2>3, <2>4, LoopLeaves
<1>9. CASE io.watchers[f] = None
  <2>1. frame' = frame
    BY <1>1, <1>9
  <2>2. StreamLoopFits'
    BY <1>1, <1>2, <1>4, <1>6, <2>1 DEF StreamsInv, StreamLoopFits
  <2> QED BY <1>7, <1>8, <2>1, <2>2 DEF WatchesFit
<1>10. CASE io.watchers[f] # None
  <2>1. PICK p : p = io.watchers[f]
    OBVIOUS
  <2>2. frame' = Frame("io", p, batch[f]) /\ UNCHANGED io /\ p # None
    BY <1>1, <1>10, <2>1
  <2>3. StreamFits(p)' /\ frame'.h = p /\ frame' \in StreamFrames /\ frame'.at = "io"
    BY <1>1, <2>1, <2>2, TakesEventFits
  <2>4. StreamLoopFits'
    BY <1>1, <1>2, <1>4, <1>6, <2>3 DEF StreamsInv, StreamLoopFits
  <2>5. ASSUME NEW g \in Streams PROVE StreamFits(g)'
    <3>1. CASE g = p
      BY <2>3, <3>1
    <3>2. CASE g # p
      BY <1>8, <2>3, <3>2
    <3> QED BY <3>1, <3>2
  <2> QED BY <1>7, <2>4, <2>5 DEF WatchesFit
<1> QED BY <1>9, <1>10
-----------------------------------------------------------------------------
(* The start: only the streams of FdOf have descriptors.                   *)
LEMMA StreamsInitFits ==
  ASSUME StreamsOnly, Init
  PROVE  StreamsInv
<1>1. /\ LoopInit /\ frame = NoFrame /\ batch = NoBatch /\ Handles = Streams
      /\ st = [h \in Streams |-> IF h \in DOMAIN FdOf THEN {"writable"} ELSE {}]
      /\ wq = [h \in Streams |-> <<>>] /\ done = wq
      /\ connect = {} /\ shutdown = {} /\ delayed = {} /\ listening = {}
      /\ accepted = [h \in Streams |-> None]
  BY DEF Init, LoopInit, StreamInit, StreamsOnly
<1>2. /\ IoFit(io, Handles) /\ io.pending = <<>>
      /\ \A h \in Handles : io.pevents[h] = {}
      /\ \A h \in DOMAIN FdOf : io.fd[h] = FdOf[h]
      /\ \A h \in Handles \ DOMAIN FdOf : io.fd[h] = None
      /\ io.open = {FdOf[h] : h \in DOMAIN FdOf} /\ \A f \in Fds : io.epoll[f] = {}
  BY <1>1, NothingWatched
<1>3. RequestsInv /\ MarksFit
  BY RequestsInitFits DEF Init, StreamInit, MarksFit, Marks
<1>4. StreamLoopFits
  <2>1. IsInjective(io.pending)
    BY <1>2 DEF IsInjective
  <2>2. frame \in StreamFrames /\ frame.at = "none" /\ frame.h = None
    BY <1>1 DEF NoFrame, StreamFrames, StreamLabels
  <2>3. batch \in [Fds -> SUBSET Events]
    BY <1>1 DEF NoBatch
  <2> QED BY <1>2, <2>1, <2>2, <2>3 DEF StreamLoopFits
<1>5. ASSUME NEW h \in Streams
      PROVE  Held[h] = IF h \in DOMAIN FdOf THEN {FdOf[h]} ELSE {}
  <2>1. Held[h] = {io.fd[h], accepted[h]} \ {None} /\ accepted[h] = None
    BY <1>1 DEF Held
  <2>2. CASE h \in DOMAIN FdOf
    <3>1. io.fd[h] = FdOf[h] /\ FdOf[h] \in Fds /\ FdOf[h] # None
      BY <1>2, <2>2
    <3> QED BY <2>1, <2>2, <3>1
  <2>3. CASE h \notin DOMAIN FdOf
    <3>1. io.fd[h] = None
      BY <1>1, <1>2, <2>3
    <3> QED BY <2>1, <2>3, <3>1
  <2> QED BY <2>2, <2>3
<1>6. OwnersFit
  <2>1. ASSUME NEW h \in Streams, NEW f \in Held[h]
        PROVE  h \in DOMAIN FdOf /\ f = FdOf[h]
    BY <1>5, <2>1
  <2>2. ASSUME NEW f \in io.open PROVE \E h \in Streams : f \in Held[h]
    <3>1. PICK h \in DOMAIN FdOf : f = FdOf[h]
      BY <1>2
    <3>2. h \in Streams
      BY <1>1
    <3> QED BY <1>5, <3>1, <3>2
  <2>3. ASSUME NEW g \in Streams, NEW h \in Streams, g # h, NEW f \in Held[g], f \in Held[h]
        PROVE  FALSE
    BY <2>1, <2>3
  <2>4. /\ accepted \in [Streams -> Fds \cup {None}]
        /\ \A h \in Streams : accepted[h] = None
    BY <1>1
  <2>5. \A h \in Streams : \A f \in Held[h] : f \in io.open
    BY <1>2, <2>1
  <2>6. \A g, h \in Streams : g # h => Held[g] \cap Held[h] = {}
    BY <2>3
  <2> QED BY <1>2, <2>2, <2>4, <2>5, <2>6 DEF OwnersFit
<1>7. ASSUME NEW h \in Streams PROVE StreamFits(h)
  <2>1. /\ wq[h] = <<>> /\ done[h] = <<>> /\ h \notin connect /\ h \notin shutdown
        /\ h \notin delayed /\ h \notin listening /\ accepted[h] = None
        /\ st[h] = IF h \in DOMAIN FdOf THEN {"writable"} ELSE {}
    BY <1>1
  <2>2. Usable(h)
    <3>1. hs.flags[h] = {"ref"}
      BY <1>1 DEF LoopInit, Fresh
    <3> QED BY <3>1 DEF Usable, IsUsable, IsClosing, IsClosed
  <2>3. ~Fed(h)
    BY <1>2 DEF Fed, ToSet
  <2>4. \A L : ~Under(h, L)
    BY <1>1 DEF Under, NoFrame
  <2>5. io.fd[h] = None => h \notin DOMAIN FdOf
    BY <1>2
  <2>6. CloseFits(h) /\ SocketFits(h)
    BY <2>1, <2>2, <2>3, <2>5 DEF CloseFits, SocketFits
  <2>7. ListenFits(h) /\ ConnectFits(h) /\ WriteFits(h)
    BY <2>1 DEF ListenFits, ConnectFits, WriteFits
  <2>8. ShutdownFits(h) /\ ReadFits(h) /\ UnderFits(h)
    BY <2>1, <2>4 DEF ShutdownFits, ReadFits, UnderFits
  <2> QED BY <2>6, <2>7, <2>8 DEF StreamFits
<1> QED BY <1>3, <1>4, <1>6, <1>7 DEF StreamsInv

LEMMA StreamsStand ==
  ASSUME StreamsInv, UNCHANGED vars
  PROVE  WatchesFit'
<1>1. UNCHANGED <<hs, io, batch, frame, user>> /\ UNCHANGED streamVars
  BY DEF vars, loopVars
<1>2. FlagsAsWere
  BY <1>1 DEF FlagsAsWere, Usable
<1>3. /\ frame' \in StreamFrames /\ (frame'.at = "none" => frame'.h = None)
      /\ frame'.at = "io" => ~user'
  BY <1>1 DEF StreamsInv, StreamLoopFits
<1> QED BY <1>1, <1>2, <1>3, QuietLoopFits

LEMMA StreamsNextKeeps ==
  ASSUME StreamsOnly, StreamsInv, [Next]_vars
  PROVE  StreamsInv'
<1>1. RequestsInv' /\ MarksFit'
  BY RequestsNextKeeps, ShutLast DEF StreamsInv
<1>2. UNCHANGED vars => WatchesFit'
  BY StreamsStand
<1>3. (\E h \in Streams : StreamCall(h) \/ StreamStep(h)) => WatchesFit'
  BY CallsFit, StreamStepFits
<1>4. ASSUME LoopStep \/ Return, UNCHANGED streamVars PROVE WatchesFit'
  <2>1. CASE RunLoop \/ RunCheck \/ Return \/ EndIteration
    BY <1>4, <2>1, TurnFits
  <2>2. CASE CallClosed \/ RunClosing \/ StartFinish
    BY <1>4, <2>2, CallClosedFits, StreamsClosingFits
  <2>3. CASE TakePending \/ Poll \/ \E f \in Fds : Dispatch(f)
    BY <1>4, <2>3, TakePendingFits, StreamsPollFits, StreamsDispatchFits
  <2> QED BY <1>4, <2>1, <2>2, <2>3 DEF LoopStep
<1>5. WatchesFit'
  BY <1>2, <1>3, <1>4 DEF Next
<1> QED BY <1>1, <1>5 DEF StreamsInv, WatchesFit

-----------------------------------------------------------------------------
(* What follows for the watchers, the requests and the descriptors.        *)
LEMMA FitStreamWatchers ==
  ASSUME StreamsOnly, StreamsInv
  PROVE  WatchersAgree
<1>1. /\ IoFit(io, Handles) /\ Handles = Streams /\ \A h \in Streams : CloseFits(h)
      /\ IsInjective(io.pending)
  BY DEF StreamsInv, StreamLoopFits, StreamFits, StreamsOnly
<1>2. /\ io \in WatchersOf(Handles) /\ io.ok /\ io.watchers \in [Fds -> Handles \cup {None}]
      /\ io.pending \in Seq(Handles)
  BY <1>1, WatchersTypes DEF IoFit
<1>3. ASSUME NEW f \in Fds, io.watchers[f] # None
      PROVE  /\ io.fd[io.watchers[f]] = f /\ io.pevents[io.watchers[f]] # {}
             /\ IsUsable(hs, io.watchers[f])
  <2>1. io.watchers[f] \in Streams
    BY <1>1, <1>2, <1>3
  <2>2. io.fd[io.watchers[f]] = f /\ io.pevents[io.watchers[f]] # {}
    BY <1>1, <1>3 DEF IoFit, WatchersFit, CalledFits
  <2> QED BY <1>1, <2>1, <2>2 DEF CloseFits, Usable
<1>4. ASSUME NEW h \in Handles, io.pevents[h] # {}
      PROVE  /\ io.watchers[io.fd[h]] = h
             /\ h \in io.queue \/ io.epoll[io.fd[h]] \ {"err"} = io.pevents[h]
  BY <1>1, <1>4 DEF IoFit, WatchersFit, WantsFits, KernelFits, ToldFits
<1>5. ASSUME NEW i \in DOMAIN io.pending PROVE IsUsable(hs, io.pending[i])
  <2>1. io.pending[i] \in Streams
    BY <1>1, <1>2
  <2>2. Fed(io.pending[i])
    BY DEF Fed, ToSet
  <2> QED BY <1>1, <2>1, <2>2 DEF CloseFits, Usable
<1> QED BY <1>2, <1>3, <1>4, <1>5 DEF WatchersAgree

LEMMA FitDescriptors ==
  ASSUME StreamsInv
  PROVE  DescriptorsAreOwned
<1>1. OwnersFit
  BY DEF StreamsInv
<1>2. io.open = UNION {Held[h] : h \in Streams}
  BY <1>1 DEF OwnersFit
<1> QED BY <1>1, <1>2 DEF OwnersFit, DescriptorsAreOwned

LEMMA FitRequests ==
  ASSUME StreamsInv
  PROVE  NothingForgotten
<1>1. IoFit(io, Handles)
  BY DEF StreamsInv, StreamLoopFits
<1>2. ASSUME NEW h \in Streams, Usable(h), frame.h # h
      PROVE  /\ h \in connect => Watched(h, "out") \/ Fed(h)
             /\ wq[h] # <<>> \/ h \in shutdown =>
                  Watched(h, "out") \/ h \in connect \/ "refused" \in st[h]
             /\ done[h] # <<>> => Fed(h)
             /\ "reading" \in st[h] /\ "eof" \notin st[h] =>
                  Watched(h, "in") /\ IsActive(hs, h)
             /\ h \in listening => (Watched(h, "in") <=> accepted[h] = None)
  <2>1. /\ ListenFits(h) /\ ConnectFits(h) /\ WriteFits(h) /\ ReadFits(h)
        /\ \A L : ~Under(h, L)
    BY <1>2 DEF StreamsInv, StreamFits, Under
  <2>2. \A e : Watched(h, e) <=> e \in io.pevents[h]
    BY DEF Watched, IoActive
  <2>3. h \in connect => Watched(h, "out") \/ Fed(h)
    BY <1>2, <2>1, <2>2 DEF ConnectFits
  <2>4. /\ wq[h] # <<>> \/ h \in shutdown =>
             Watched(h, "out") \/ h \in connect \/ "refused" \in st[h]
        /\ done[h] # <<>> => Fed(h)
    BY <1>2, <2>1, <2>2 DEF WriteFits
  <2>5. "reading" \in st[h] /\ "eof" \notin st[h] => Watched(h, "in") /\ IsActive(hs, h)
    BY <1>2, <2>1, <2>2 DEF ReadFits
  <2>6. h \in listening => (Watched(h, "in") <=> accepted[h] = None)
    BY <1>2, <2>1, <2>2 DEF ListenFits
  <2> QED BY <2>3, <2>4, <2>5, <2>6
<1> QED BY <1>2 DEF NothingForgotten

-----------------------------------------------------------------------------
(* In every reachable state of a program with streams what a stream waits  *)
(* for is watched, fed or at work, its descriptors are its own, and after  *)
(* uv_close() nothing is left of it but requests to be cancelled.          *)
THEOREM StreamsKeepTheirWatchers ==
  ASSUME StreamsOnly
  PROVE  Spec => []StreamsInv
<1>1. Init => StreamsInv
  BY StreamsInitFits
<1>2. StreamsInv /\ [Next]_vars => StreamsInv'
  BY StreamsNextKeeps
<1> QED BY <1>1, <1>2, PTL DEF Spec

(* uv__stream_io(), uv__server_io(), uv_accept() and uv__stream_close()    *)
(* keep loop->watchers, the pevents and the epoll set in agreement, and no *)
(* closed stream is called for an event or from the pending queue.         *)
THEOREM StreamWatchersAgree ==
  ASSUME StreamsOnly
  PROVE  Spec => []WatchersAgree
<1>1. StreamsInv => WatchersAgree
  BY FitStreamWatchers
<1> QED BY <1>1, StreamsKeepTheirWatchers, PTL

(* What waits for a socket is watched, what is finished is fed to the      *)
(* pending queue, and a listener waits exactly while it has nothing to     *)
(* give: no callback that is owed is left without an event to cause it.    *)
THEOREM NothingIsForgotten ==
  ASSUME StreamsOnly
  PROVE  Spec => []NothingForgotten
<1>1. StreamsInv => NothingForgotten
  BY FitRequests
<1> QED BY <1>1, StreamsKeepTheirWatchers, PTL

(* No descriptor that uv__accept() or recvmsg() opens leaks or is shared:  *)
(* it is handed over by uv_accept() or closed by uv__stream_close().       *)
THEOREM DescriptorsHaveOneOwner ==
  ASSUME StreamsOnly
  PROVE  Spec => []DescriptorsAreOwned
<1>1. StreamsInv => DescriptorsAreOwned
  BY FitDescriptors
<1> QED BY <1>1, StreamsKeepTheirWatchers, PTL
=============================================================================
