------------------------------ MODULE MCUvLoop ------------------------------
(***************************************************************************)
(* An instance of UvLoop for TLC.                                          *)
(***************************************************************************)
EXTENDS UvLoop

CONSTANTS p1, p2, i1, t1, a1

LoopKind ==
  p1 :> "prepare" @@ p2 :> "prepare" @@ i1 :> "idle" @@ t1 :> "timer"
  @@ a1 :> "async"

WatcherSymmetry == Permutations({p1, p2})
=============================================================================
