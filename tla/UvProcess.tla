----------------------------- MODULE UvProcess -----------------------------
(***************************************************************************)
(* Child processes of libuv on unix (process.c), on one loop.  The loop's  *)
(* watcher of SIGCHLD calls uv__chld(), which takes every child that has   *)
(* exited from waitpid() and looks for its handle; signals that arrive     *)
(* before the watcher is called are one.  UvSignal models how they get     *)
(* there; here a signal is pending from the exit of a child until the      *)
(* watcher is called.  Environment, user and directory are left out.  That *)
(* execvp() fails is an exit like any other, reported with a status of -1. *)
(***************************************************************************)
EXTENDS UvTurns, UvStdio

CONSTANTS
  Procs,       \* the uv_process_t of the program
  Silent,      \* those that it gives no exit_cb
  Pids,        \* process ids, which the kernel uses again
  Opened,      \* what descriptors 0, 1, 2, ... of the program refer to
  Habits       \* what not every program does:
               \*   "wraps"  it keeps the handle of a child that exited
               \*            until the kernel uses its pid again
               \*   "stdin"  it lets a child inherit its stdin
               \*   "shares" it lets a child inherit a descriptor twice, or
               \*            one of 0, 1 and 2 as another one
               \*   "fails"  a uv_spawn() that was to inherit fails

ASSUME ProcessAssumption ==
  /\ Silent \subseteq Procs /\ Procs \subseteq Handles
  /\ Habits \subseteq {"wraps", "stdin", "shares", "fails"}
  /\ Len(Opened) <= MaxFd - 7

VARIABLES
  kernel,      \* "free", "running" or "zombie", for each pid
  spawned,     \* the handle that the process of a pid was spawned for
  pid, queue,  \* handle->pid, and the only queue of loop->process_handles
  found,       \* how many exits were found to be those of the handle
  watching,    \* whether loop->child_watcher is started
  chld,        \* whether SIGCHLD is pending
  files,       \* the descriptors of the program
  last         \* the uv_spawn() of the step before, a ghost

childVars   == <<kernel, spawned, pid, queue, found, watching, chld>>
processVars == <<childVars, files, last>>
programVars == <<turnVars, processVars>>

Unspawned == <<>>

ProcessInit ==
  /\ TurnsInit
  /\ kernel = [p \in Pids |-> "free"] /\ spawned = [p \in Pids |-> None]
  /\ pid = [h \in Procs |-> None] /\ queue = <<>>
  /\ found = [h \in Procs |-> 0] /\ watching = FALSE /\ chld = FALSE
  /\ files = [file |-> [f \in Fds |-> IF f < Len(Opened) THEN Opened[f + 1]
                                      ELSE Nowhere], cloexec |-> {}]
  /\ last = Unspawned

ProcessAlive == hs.count > 0 \/ hs.closing # <<>>

-----------------------------------------------------------------------------
(* The wishes of the program for stdio[0..2].                              *)
Inherited(w) == {i \in 0..2 : w[i] \in Fds}
Wishes ==
  {w \in [0..2 -> {Ignore, Pipe} \cup 0..(Len(Opened) - 1)] :
     /\ "stdin" \in Habits \/ 0 \notin Inherited(w)
     /\ "shares" \in Habits \/ \A i, j \in Inherited(w) :
          (w[i] = i \/ w[i] > 2) /\ (w[i] = w[j] => i = j)}

(* A descriptor of the program is open, and the ends of the pipes that it  *)
(* makes are told from those that it still has.                            *)
Possible(w) ==
  /\ \A i \in Inherited(w) : files.file[w[i]] # Nowhere
  /\ \A i \in 0..2, f \in Fds, e \in {1, 2} : w[i] = Pipe => files.file[f] # <<i, e>>

(* uv_spawn().  The watcher is started before the child can exit.          *)
Spawn(h, p, w) ==
  /\ Call /\ Reusable(h) /\ kernel[p] = "free" /\ Possible(w)
  /\ "wraps" \in Habits \/ \A g \in ToSet(queue) : pid[g] # p
  /\ kernel'  = [kernel EXCEPT ![p] = "running"]
  /\ spawned' = [spawned EXCEPT ![p] = h]
  /\ pid'     = [pid EXCEPT ![h] = p]
  /\ queue'   = Append(queue, h)
  /\ found'   = [found EXCEPT ![h] = 0]
  /\ watching' = TRUE /\ UNCHANGED chld
  /\ files' = ParentFiles(files, w)
  /\ last'  = [wishes |-> w, child |-> ChildFiles(files, w), done |-> TRUE]
  /\ hs' = Started(Initialized(hs, h), h)

(* A container, the signal pipe or fork() fails, after n containers.       *)
SpawnFails(h, w, n) ==
  /\ Call /\ Reusable(h) /\ Possible(w)
  /\ "fails" \in Habits \/ Inherited(w) = {}
  /\ hs' = Initialized(hs, h)
  /\ watching' \in IF n = 3 THEN {watching, TRUE} ELSE {watching}
  /\ files' = FailedFiles(files, w, n)
  /\ last'  = [wishes |-> w, child |-> files, done |-> FALSE]
  /\ UNCHANGED <<kernel, spawned, pid, queue, found, chld>>

(* uv_close() and uv__process_close()                                      *)
ProcessClose(h) ==
  /\ Call /\ Usable(h)
  /\ hs' = CloseHandle(hs, h)
  /\ queue' = RemoveFirst(queue, h) /\ last' = Unspawned
  /\ UNCHANGED <<kernel, spawned, pid, found, watching, chld, files>>

(* The program closes the streams of the pipes of its children.            *)
CloseStreams ==
  /\ Call /\ \E f \in Fds : files.file[f] \in Ends
  /\ files' = CloseAll(files, SetToSeq({f \in Fds : files.file[f] \in Ends}))
  /\ last' = Unspawned /\ UNCHANGED <<hs, childVars>>

-----------------------------------------------------------------------------
(* A child exits, or is killed, by uv_process_kill() for one.              *)
Exits(p) ==
  /\ kernel[p] = "running" /\ kernel' = [kernel EXCEPT ![p] = "zombie"]
  /\ chld' = (chld \/ watching) /\ last' = Unspawned
  /\ UNCHANGED <<turnVars, spawned, pid, queue, found, watching, files>>

(* A child that this loop has no handle for: the program or a library has  *)
(* spawned it, or another loop, whose uv__chld() will wait for it, too.    *)
OtherChild(p) ==
  /\ kernel[p] = "free"
  /\ "wraps" \in Habits \/ \A g \in ToSet(queue) : pid[g] # p
  /\ kernel' = [kernel EXCEPT ![p] = "running"] /\ last' = Unspawned
  /\ UNCHANGED <<turnVars, spawned, pid, queue, found, watching, chld, files>>

Chld == <<"uv__chld">>

SignalEvent ==
  /\ Idle("poll") /\ chld /\ chld' = FALSE /\ last' = Unspawned /\ Goes(Chld)
  /\ UNCHANGED <<hs, kernel, spawned, pid, queue, found, watching, files>>

(* One round of uv__chld(), which goes on until waitpid() finds no more.   *)
(* uv__process_find() takes the first handle in the queue with the pid.    *)
Reap(p) ==
  /\ frame = Chld /\ ~user /\ kernel[p] = "zombie"
  /\ kernel'  = [kernel EXCEPT ![p] = "free"]
  /\ spawned' = [spawned EXCEPT ![p] = None]
  /\ LET hits == {i \in DOMAIN queue : pid[queue[i]] = p}
         h    == queue[Min(hits)]
     IN IF hits = {} THEN UNCHANGED <<found, user>>
        ELSE found' = [found EXCEPT ![h] = @ + 1] /\ user' = (h \notin Silent)
  /\ last' = Unspawned
  /\ UNCHANGED <<hs, phase, frame, calls, pid, queue, watching, chld, files>>

NoMoreZombies_One ==                               \* mutant
  frame = Chld /\ ~user
NoMoreZombies == frame = Chld /\ ~user /\ \A p \in Pids : kernel[p] # "zombie"

ChldReturns ==
  /\ NoMoreZombies /\ Goes(NoFrame) /\ last' = Unspawned
  /\ UNCHANGED <<hs, childVars, files>>

-----------------------------------------------------------------------------
ProcessTurn ==
  \/ RunLoop(ProcessAlive) \/ Return \/ EndTimers \/ EndPoll \/ StartClosing
  \/ FinishHandle({}) \/ EndIteration(ProcessAlive)

ProcessCall(h) ==
  \/ ProcessClose(h)
  \/ \E w \in Wishes : \/ \E p \in Pids : Spawn(h, p, w)
                       \/ \E n \in 0..3 : SpawnFails(h, w, n)

ProcessNext ==
  \/ ProcessTurn /\ last' = Unspawned /\ UNCHANGED <<childVars, files>>
  \/ CloseStreams \/ SignalEvent \/ ChldReturns
  \/ \E h \in Procs : ProcessCall(h)
  \/ \E p \in Pids : OtherChild(p) \/ Exits(p) \/ Reap(p)

ProcessSpec == ProcessInit /\ [][ProcessNext]_programVars

-----------------------------------------------------------------------------
(* exit_cb is called after the process exits, as uv.h says: once, for the  *)
(* handle it was spawned with and not before the child has exited.  Until  *)
(* then the handle is active, and an exit that waitpid() has not told is   *)
(* one that the loop will be told of.                                      *)
Runs(h) == \E p \in Pids : spawned[p] = h /\ pid[h] = p

ExitsAreReported ==
  /\ \A h \in Procs : IsActive(hs, h) <=> h \in ToSet(queue)
  /\ \A h \in ToSet(queue) : found[h] = IF Runs(h) THEN 0 ELSE 1
  /\ \A p \in Pids : kernel[p] = "zombie" /\ spawned[p] # None =>
       chld \/ frame = Chld

(* stdio[i] of the child is what the program asked for, the other end of a *)
(* pipe is the parent's, and of the other descriptors the child gets at    *)
(* most those that the program opened for its children.                    *)
StdioIsAsAsked ==
  last # Unspawned /\ last.done =>
    /\ \A i \in 0..2 :
         LET got == last.child.file[i]  w == last.wishes[i]
         IN /\ w = Ignore => got = DevNull
            /\ w \in Fds  => got = files.file[w]
            /\ w = Pipe   => \E e \in {1, 2} :
                 /\ got = <<i, e>>
                 /\ \A f \in Fds : files.file[f] # <<i, e>>
                 /\ \E f \in Fds : files.file[f] = <<i, 3 - e>>
    /\ \A f \in 3..MaxFd : last.child.file[f] # Nowhere =>
         f < Len(Opened) /\ last.child.file[f] = Opened[f + 1]

(* A spawn leaves the program its descriptors, those of its pipes and      *)
(* nothing else, also one that fails.                                      *)
FilesAreKept ==
  [][last' # Unspawned =>
       /\ \A f \in Fds : files.file[f] # Nowhere => files'.file[f] = files.file[f]
       /\ Cardinality({f \in Fds : files'.file[f] # files.file[f]}) =
            IF last'.done THEN Cardinality({i \in 0..2 : last'.wishes[i] = Pipe})
            ELSE 0]_programVars
=============================================================================
