---------------------------- MODULE MCUvProcess ----------------------------
(* A program with a log file beside its standard streams.                  *)
EXTENDS UvProcess

CONSTANTS in, out, err, log

ProgramFiles == <<in, out, err, log>>
ProcessSymmetry == Permutations(Procs \ Silent) \cup Permutations(Pids)
=============================================================================
