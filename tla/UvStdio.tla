------------------------------ MODULE UvStdio ------------------------------
(***************************************************************************)
(* The descriptors of uv_spawn() (process.c): the pipes it makes for the   *)
(* standard streams of the child, what the child does with its descriptors *)
(* between fork() and execvp(), and what the parent keeps.                 *)
(*                                                                         *)
(* A table of descriptors is a record: file says what each descriptor      *)
(* refers to, and cloexec which of them execvp() closes.  The two ends of  *)
(* the socket pair for stdio[i] are <<i, 1>> and <<i, 2>>.  The program's  *)
(* wish for stdio[i] is Ignore, Pipe or the descriptor to inherit.         *)
(***************************************************************************)
EXTENDS Integers, FiniteSets, SequencesExt

CONSTANTS
  MaxFd,       \* the largest descriptor
  Nowhere,     \* no descriptor (-1), and what a closed one refers to
  DevNull,     \* /dev/null
  SignalPipe,  \* an end of the pipe that tells whether execvp() worked
  Ignore, Pipe

ASSUME StdioAssumption == MaxFd \in Nat

Fds   == 0..MaxFd
Stdio == <<0, 1, 2>>
Ends  == (0..2) \X {1, 2}

(* The kernel's part.  uv__make_socketpair() and uv__make_pipe() set       *)
(* close-on-exec, open() gives the lowest descriptor.                      *)
Lowest(T) == Min({f \in Fds : T.file[f] = Nowhere})
OpenAs(T, f, x) ==
  [T EXCEPT !.file[f] = x, !.cloexec = @ \cup {f}]
CloseFile(T, f) ==
  IF f = Nowhere THEN T
  ELSE [T EXCEPT !.file[f] = Nowhere, !.cloexec = @ \ {f}]
CloseAll(T, fds) == FoldLeft(CloseFile, T, fds)

Dup2(T, old, new) ==
  IF T.file[old] = Nowhere THEN T
  ELSE [T EXCEPT !.file[new] = T.file[old], !.cloexec = @ \ {new}]

Exec(T) ==
  [T EXCEPT !.file = [f \in Fds |-> IF f \in T.cloexec THEN Nowhere ELSE @[f]]]

-----------------------------------------------------------------------------
(* uv__process_init_stdio() for one container; fds are the pipes so far.   *)
InitStdio(S, i, wish) ==
  LET a == Lowest(S.table)
      T == OpenAs(S.table, a, <<i, 1>>)
      b == Lowest(T)
  IN IF wish = Ignore THEN S
     ELSE IF wish = Pipe
     THEN [table |-> OpenAs(T, b, <<i, 2>>),
           fds |-> [S.fds EXCEPT ![i] = <<a, b>>]]
     ELSE [S EXCEPT !.fds[i] = <<Nowhere, wish>>]

(* The first n containers, and the swap for stdin when all are done.       *)
NoPipes == [i \in 0..2 |-> <<Nowhere, Nowhere>>]
Made(T, wishes, n) ==
  FoldLeft(LAMBDA S, i : InitStdio(S, i, wishes[i]),
           [table |-> T, fds |-> NoPipes], SubSeq(Stdio, 1, n))
Swapped(fds) == [fds EXCEPT ![0] = Reverse(@)]

(* The signal pipe of uv_spawn(), and fork().                              *)
Forked(T) ==
  LET S == OpenAs(T, Lowest(T), SignalPipe) IN OpenAs(S, Lowest(S), SignalPipe)

(* The loop of uv__process_child_init() for the descriptor i.              *)
Redirect_LeavesIgnored(T, i, fds) ==               \* mutant
  IF fds[i][2] = Nowhere THEN T
  ELSE CloseFile(Dup2(CloseFile(T, fds[i][1]), fds[i][2], i), fds[i][2])

Redirect(T, i, fds) ==
  LET use == fds[i][2]
      S   == IF use = Nowhere THEN OpenAs(T, Lowest(T), DevNull)
             ELSE CloseFile(T, fds[i][1])
      fd  == IF use = Nowhere THEN Lowest(T) ELSE use
  IN IF fd = i THEN [S EXCEPT !.cloexec = @ \ {i}]
     ELSE CloseFile(Dup2(S, fd, i), fd)

(* What the new program finds.                                             *)
ChildFiles(T, wishes) ==
  LET M == Made(T, wishes, 3)
      fds == Swapped(M.fds)
  IN Exec(FoldLeft(LAMBDA S, i : Redirect(S, i, fds), Forked(M.table), Stdio))

(* uv__process_open_stream() leaves the parent its ends of the pipes.      *)
ParentFiles_KeepsEnds(T, wishes) == Made(T, wishes, 3).table     \* mutant
ParentFiles(T, wishes) ==
  LET M   == Made(T, wishes, 3)
      fds == Swapped(M.fds)
      ends == SelectSeq(Stdio, LAMBDA i : wishes[i] = Pipe)
  IN CloseAll(M.table, [j \in DOMAIN ends |-> fds[ends[j]][2]])

(* The error path of uv_spawn() after n containers closes what they name.  *)
FailedFiles(T, wishes, n) ==
  LET M == Made(T, wishes, n)
      both(k) == [j \in 1..3 |-> M.fds[j - 1][k]]
  IN CloseAll(M.table, both(1) \o both(2))
=============================================================================
