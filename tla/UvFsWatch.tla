----------------------------- MODULE UvFsWatch -----------------------------
(***************************************************************************)
(* A program that watches files in both ways, in one loop.                 *)
(***************************************************************************)
EXTENDS UvFsPoll, UvInotify

ASSUME FsWatchAssumption == Watches \cap (Polls \cup Ctxs) = {}

vars == <<turnVars, pollVars, inotifyVars>>

Init == TurnsInit /\ FsPollInit /\ InotifyInit

(* uv__loop_alive()                                                        *)
Alive ==
  hs.count > 0 \/ hs.closing # <<>> \/ \E c \in Ctxs : req[c] # "no"

Turn ==
  \/ RunLoop(Alive) \/ Return \/ EndTimers \/ EndPoll \/ StartClosing
  \/ EndIteration(Alive)

Next ==
  \/ Turn /\ UNCHANGED <<pollVars, inotifyVars>>
  \/ (FsPollStep \/ PollFinish \/ \E h \in Polls : FsPollCall(h)) /\ UNCHANGED inotifyVars
  \/ (InotifyStep \/ \E h \in Watches : InotifyCall(h)) /\ UNCHANGED pollVars

Spec == Init /\ [][Next]_vars
=============================================================================
