----------------------------- MODULE UvInotify -----------------------------
(***************************************************************************)
(* Watching files with inotify (linux/inotify.c).  The handles for one     *)
(* watch descriptor are the queue w->watchers of a watcher_list, and an    *)
(* event is given to each of them in turn, by callbacks that may close the *)
(* handles of the queue: ngx_queue_foreach() goes on from the links of the *)
(* handle that was just called, which keeps them when it is taken out, and *)
(* the watcher_list is freed with its last handle.                         *)
(***************************************************************************)
EXTENDS UvTurns

CONSTANTS
  Watches,     \* the uv_fs_event_t of the program
  Paths,       \* the files that it watches
  MaxWd,       \* bound on the watch descriptors
  MaxEvents,   \* bound on the changes
  Pairs        \* whether the program closes, in a callback, the handle of
               \*   it and then the one behind it in the queue

ASSUME InotifyAssumption ==
  /\ Watches \subseteq Handles /\ None \notin Nat
  /\ MaxWd \in Nat /\ MaxEvents \in Nat /\ Pairs \in BOOLEAN

VARIABLES
  exists,  \* the paths where there is a file
  watch,   \* the kernel's watch descriptor of each file, None without one
  lastWd,  \* the last one that was given; they are not used again
  events,  \* what read() will return: watch descriptors
  seen,    \* how many changes there were
  lists,   \* loop->inotify_watchers: the queue of each watch descriptor
  wd,      \* handle->wd
  link     \* the next link that a handle kept when it was taken out

inotifyVars == <<exists, watch, lastWd, events, seen, lists, wd, link>>

InotifyInit ==
  /\ exists = Paths /\ watch = [p \in Paths |-> None] /\ lastWd = 0
  /\ events = <<>> /\ seen = 0 /\ lists = <<>>
  /\ wd = [h \in Watches |-> None] /\ link = wd

-----------------------------------------------------------------------------
(* The world outside: a file changes, is deleted or made.  The kernel ends *)
(* the watch of a deleted file and says so with one more event.            *)
Happens ==
  /\ seen < MaxEvents /\ seen' = seen + 1
  /\ UNCHANGED <<turnVars, lists, wd, link, lastWd>>

FileChanges(p) ==
  /\ Happens /\ watch[p] # None
  /\ events' = Append(events, watch[p]) /\ UNCHANGED <<exists, watch>>

FileGoes(p) ==
  /\ Happens /\ p \in exists /\ exists' = exists \ {p}
  /\ watch' = [watch EXCEPT ![p] = None]
  /\ events' = IF watch[p] = None THEN events ELSE events \o <<watch[p], watch[p]>>

FileComes(p) ==
  /\ Happens /\ p \notin exists /\ exists' = exists \cup {p}
  /\ UNCHANGED <<watch, events>>

-----------------------------------------------------------------------------
(* uv_fs_event_init(), which starts the handle.                            *)
WatchFile(h, p) ==
  /\ Call /\ Reusable(h) /\ p \in exists
  /\ \/ watch[p] # None /\ UNCHANGED <<watch, lastWd>>
     \/ /\ watch[p] = None /\ lastWd < MaxWd /\ lastWd' = lastWd + 1
        /\ watch' = [watch EXCEPT ![p] = lastWd']
  /\ LET d == watch'[p]
     IN /\ lists' = [e \in DOMAIN lists \cup {d} |->
                       IF e # d THEN lists[e]
                       ELSE IF d \in DOMAIN lists THEN Append(lists[d], h) ELSE <<h>>]
        /\ wd' = [wd EXCEPT ![h] = d]
  /\ hs' = Started(Initialized(hs, h), h)
  /\ UNCHANGED <<exists, events, seen, link>>

(* What follows h in the queue, None for the head of the queue.            *)
Successor(h) ==
  LET Q == lists[wd[h]]
      i == CHOOSE j \in DOMAIN Q : Q[j] = h
  IN IF i = Len(Q) THEN None ELSE Q[i + 1]

(* uv__fs_event_close(): the last handle takes the watch with it.  What    *)
(* the kernel says of that is a stale event.                               *)
TakeOut_KeepsList(h) ==                            \* mutant
  /\ lists' = [lists EXCEPT ![wd[h]] = RemoveFirst(@, h)]
  /\ UNCHANGED <<watch, events>>

TakeOut(h) ==
  LET d == wd[h]
      Q == RemoveFirst(lists[d], h)
  IN IF Q # <<>>
     THEN lists' = [lists EXCEPT ![d] = Q] /\ UNCHANGED <<watch, events>>
     ELSE /\ lists' = Restrict(lists, DOMAIN lists \ {d})
          /\ watch' = [p \in Paths |-> IF watch[p] = d THEN None ELSE watch[p]]
          /\ events' = IF watch' = watch THEN events ELSE Append(events, d)

InWalk == frame # NoFrame /\ frame[1] = "walk"

WatchClose(h) ==
  /\ Call /\ Usable(h)
  /\ ~Pairs /\ InWalk => ~(wd[frame[3]] = None /\ link[frame[3]] = h)
  /\ hs' = CloseHandle(hs, h)
  /\ TakeOut(h)
  /\ wd' = [wd EXCEPT ![h] = None]
  /\ link' = [link EXCEPT ![h] = Successor(h)]
  /\ UNCHANGED <<exists, lastWd, seen>>

-----------------------------------------------------------------------------
(* uv__inotify_read() takes an event and calls the first handle; due are   *)
(* those that have to be called, a ghost.                                  *)
TakeEvent ==
  /\ Idle("poll") /\ events # <<>> /\ events' = Tail(events)
  /\ LET d == Head(events)
     IN IF d \in DOMAIN lists
        THEN CallsBack(<<"walk", d, Head(lists[d]), ToSet(Tail(lists[d]))>>)
        ELSE Goes(NoFrame)
  /\ UNCHANGED <<hs, exists, watch, lastWd, seen, lists, wd, link>>

(* ngx_queue_foreach() goes to the next handle or ends.                    *)
Behind_StopsIfClosed(q) ==                         \* mutant
  IF wd[q] = None THEN None ELSE Successor(q)
Behind(q) == IF wd[q] = None THEN link[q] ELSE Successor(q)

WalkOn ==
  /\ phase = "poll" /\ ~user /\ InWalk
  /\ LET q == Behind(frame[3])
     IN IF q = None THEN Goes(NoFrame)
        ELSE CallsBack(<<"walk", frame[2], q, frame[4] \ {q}>>)
  /\ UNCHANGED <<hs, inotifyVars>>

InotifyCall(h) == WatchClose(h) \/ \E p \in Paths : WatchFile(h, p)

InotifyStep ==
  \/ TakeEvent \/ WalkOn
  \/ \E p \in Paths : FileChanges(p) \/ FileGoes(p) \/ FileComes(p)

-----------------------------------------------------------------------------
(* Every active handle is in the queue of its watch descriptor and in no   *)
(* other, and the kernel watches a file only for a queue that is there.    *)
ListsAgree ==
  /\ \A h \in Watches :
       /\ IsActive(hs, h) <=> wd[h] # None
       /\ \A d \in DOMAIN lists : h \in ToSet(lists[d]) <=> d = wd[h]
  /\ \A d \in DOMAIN lists : lists[d] # <<>> /\ IsInjective(lists[d])
  /\ \A p \in Paths : watch[p] # None => watch[p] \in DOMAIN lists

(* An event reaches every handle that watches when it is taken and until   *)
(* its turn, and no handle that was closed.                                *)
EventsReachWatchers ==
  [][/\ InWalk /\ frame' = NoFrame => \A h \in frame[4] : wd[h] # frame[2]
     /\ InWalk' /\ frame' # frame => Usable(frame'[3])]_<<turnVars, inotifyVars>>
=============================================================================
