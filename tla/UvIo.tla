-------------------------------- MODULE UvIo --------------------------------
(***************************************************************************)
(* I/O watchers of libuv (core.c) and the epoll backend (linux-core.c).    *)
(* A uv__io_t is part of the handle w that owns it.  The watchers of a     *)
(* loop are a record:                                                      *)
(*   fd, pevents, events   the fields of each watcher                      *)
(*   queue     loop->watcher_queue: what epoll has to be told              *)
(*   pending   loop->pending_queue: watchers to be called at once          *)
(*   watchers  loop->watchers, the watcher of each descriptor              *)
(*   epoll     what the kernel reports of a descriptor, {} if it is not in *)
(*             the epoll set.  A stopped watcher stays in the set until    *)
(*             its next event or until its descriptor is closed.           *)
(*   open      the descriptors in use, by a handle or by the program       *)
(*   ok        whether every assertion has held                            *)
(***************************************************************************)
EXTENDS UvHandle

CONSTANTS
  Fds,    \* descriptors, natural numbers
  None    \* no descriptor (-1) and no watcher

ASSUME FdAssumption == Fds \subseteq Nat /\ None \notin Fds

(* UV__POLLIN, UV__POLLOUT and UV__POLLERR; the last is always reported.   *)
Events == {"in", "out", "err"}

WatchersOf(W) ==
  [fd : [W -> Fds \cup {None}], pevents : [W -> SUBSET {"in", "out"}],
   events : [W -> SUBSET {"in", "out"}], queue : SUBSET W, pending : Seq(W),
   watchers : [Fds -> W \cup {None}], epoll : [Fds -> SUBSET Events],
   open : SUBSET Fds, ok : BOOLEAN]

NoWatchers(W) ==
  [fd |-> [w \in W |-> None], pevents |-> [w \in W |-> {}],
   events |-> [w \in W |-> {}], queue |-> {}, pending |-> <<>>,
   watchers |-> [f \in Fds |-> None], epoll |-> [f \in Fds |-> {}],
   open |-> {}, ok |-> TRUE]

Asserting(I, cond) == [I EXCEPT !.ok = @ /\ cond]

(* uv__io_init() with the descriptor f.                                    *)
IoInit(I, w, f) ==
  [I EXCEPT !.fd[w] = f, !.pevents[w] = {}, !.events[w] = {}]

IoActive(I, w, evs) == I.pevents[w] \cap evs # {}

(* uv__io_start(): the first watcher of a descriptor stays.                *)
IoStart(I, w, evs) ==
  LET f == I.fd[w]
  IN IF f = None THEN Asserting(I, FALSE)
     ELSE [I EXCEPT !.pevents[w] = @ \cup evs, !.queue = @ \cup {w},
                    !.watchers[f] = IF @ = None THEN w ELSE @]

(* uv__io_stop()                                                           *)
IoStop_KeepsWatcher(I, w, evs) ==                  \* mutant
  IF I.fd[w] = None THEN I
  ELSE [I EXCEPT !.pevents[w] = @ \ evs, !.queue = @ \cup {w}]

IoStop(I, w, evs) ==
  LET f    == I.fd[w]
      rest == I.pevents[w] \ evs
      less == [I EXCEPT !.pevents[w] = rest,
                        !.queue = IF rest = {} THEN @ \ {w} ELSE @ \cup {w}]
  IN IF f = None THEN I
     ELSE IF rest = {} /\ I.watchers[f] # None
     THEN Asserting([less EXCEPT !.watchers[f] = None, !.events[w] = {}],
                    I.watchers[f] = w)
     ELSE less

(* uv__io_close()                                                          *)
IoClose_KeepsFed(I, w) == IoStop(I, w, {"in", "out"})            \* mutant
IoClose(I, w) ==
  [IoStop(I, w, {"in", "out"}) EXCEPT !.pending = RemoveFirst(@, w)]

(* uv__io_feed()                                                           *)
IoFeed(I, w) ==
  [I EXCEPT !.pending = IF \E i \in DOMAIN @ : @[i] = w THEN @
                        ELSE Append(@, w)]

-----------------------------------------------------------------------------
(* The kernel gives the lowest free descriptor ...                         *)
Free(I)    == Fds \ I.open
Opened(I, f) == [I EXCEPT !.open = @ \cup {f}]

(* ... and a closed one leaves the epoll set.                              *)
CloseFd(I, f) ==
  IF f = None THEN I ELSE [I EXCEPT !.open = @ \ {f}, !.epoll[f] = {}]

(* The start of uv__io_poll() tells epoll what the queued watchers want.   *)
Arm(I, faulty) ==
  LET changed == {w \in I.queue : I.events[w] # I.pevents[w]}
      bad     == \E w \in I.queue : I.pevents[w] = {} \/ I.fd[w] = None
      at(f)   == {w \in changed : I.fd[w] = f}
  IN Asserting(
       [I EXCEPT !.queue = {},
          !.events = [w \in DOMAIN @ |->
                        IF w \in changed THEN I.pevents[w] ELSE @[w]],
          !.epoll = [f \in Fds |->
                       IF at(f) = {} THEN @[f]
                       ELSE (UNION {I.pevents[w] : w \in at(f)})
                              \cup (IF f \in faulty THEN {"err"} ELSE {})]],
       ~bad)

(* An event of a descriptor that is no longer watched disarms it.          *)
Disarm(I, f) == [I EXCEPT !.epoll[f] = {}]
=============================================================================
