---------------------------- MODULE MCUvFsWatch ----------------------------
(* Poll handles with contexts, and inotify handles for two files.          *)
EXTENDS UvFsWatch

WatchSymmetry == Permutations(Watches) \cup Permutations(Paths)
=============================================================================
