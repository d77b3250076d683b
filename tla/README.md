# A verification project for libgevent

libgevent gives C programs cothreads that block without blocking the process.
`gevent.c` schedules the cothreads and waits for timers and name lookups in a
libuv event loop; `stacklet/` gives every cothread a C stack of its own;
`libuv/` is the event loop, a modified libuv 0.9, with the sockets, processes
and file watchers that programs use from their cothreads.

This directory holds TLA+ models of these parts, the TLC configurations that
check them on small instances, and proofs that TLAPS checks: of the safety of
`gevent.c`, `stacklet.c`, the thread pool and signal handles. The models follow the Linux build of the sources.

    tlc -config <run>.cfg <module>.tla       the module of a run is in PROJECT.json
    tlapm <module>Proofs.tla

1. [The system](#1-the-system): parts, state, operations, what is hard
2. [The modules](#2-the-modules) and how they correspond to the code
3. [The runs](#3-the-runs): what they show, bounds, fairness
4. [The proofs](#4-the-proofs)
5. [Where the code and its documentation disagree](#5-where-the-code-and-its-documentation-disagree)
6. [What is not modelled](#6-what-is-not-modelled)
7. [The plan](#7-the-plan)

## 1. The system

One operating system thread runs *contexts*: the main cothread, spawned
cothreads, and the hub, which is the context inside `uv_run()`. A context runs
until it calls something that blocks; then it picks the next one itself and
switches to it. The thread pool of libuv and signal handlers run in other
threads and reach the loop only through pipes.

| component | state | operations | talks to |
|---|---|---|---|
| hub and scheduler (`gevent.c:60-275`) | `hub->ready`, `hub->current`, `t->state`, stacklet handles | spawn, switch, yield, finish, cothread_init | stacklet (switches), libuv (runs the loop in the hub) |
| channels, semaphores (`gevent.c:340-425`) | `receivers`, `senders`, `op.channel.value`, `counter` | send, receive, acquire, release | scheduler |
| sleeping, waiting, lookups (`gevent.c:285-340, 428-481`) | `op.timer`, `op.getaddrinfo` | sleep, wait, getaddrinfo and their callbacks | timers and thread pool of libuv |
| stacklet (`stacklet/stacklet.c`) | the C stack, the chain of unsaved stacklets, `g_current_stack_stop` | new, switch, destroy | only the scheduler calls it |
| event loop (`unix/core.c`, `timer.c`, `loop-watcher.c`) | timers, queues of watchers, `loop->time` | `uv_run2()`, start, stop | every kind of handle |
| handles (`uv-common.h`, `core.c`) | flags, `active_handles`, `closing_handles` | init, start, stop, ref, unref, close | every kind of handle |
| async handles (`unix/async.c`) | `pending`, the pipe | send (any thread), init, close | thread pool, loop |
| thread pool (`unix/threadpool.c`) | `wq`, `loop->wq`, two mutexes, a condition | submit, cancel, worker, done | loop, through an async handle |
| signal handles (`unix/signal.c`) | the tree of handles, its lock, counters, a pipe for each loop | start, stop, close, the handler | loops of several threads |
| I/O watchers (`unix/core.c:634-741`, `linux/linux-core.c`) | `watchers[]`, `watcher_queue`, `pending_queue`, the epoll set | start, stop, close, feed, poll | the loop; called by poll, UDP and stream handles |
| poll handles (`unix/poll.c`) | the watcher of the program's descriptor | init, start, stop, close | I/O watchers |
| UDP (`unix/udp.c`) | `write_queue`, `write_completed_queue`, flags | bind, send, receive, close | I/O watchers |
| streams (`unix/stream.c`, `tcp.c`, `pipe.c`) | the same queues, connect and shutdown requests, `delayed_error`, `accepted_fd`, flags | connect, listen, accept, read, write, shutdown, close | I/O watchers; a pipe passes descriptors to another stream |
| processes (`unix/process.c`) | `process_handles`, `child_watcher`, descriptors of parent and child | spawn, kill, reap, close | signal handles (SIGCHLD), streams (the pipes of a child) |
| file watching (`fs-poll.c`, `linux/inotify.c`) | poll contexts, lists of watch descriptors | start, stop, close | timers and thread pool; inotify's descriptor |
| Python binding, `fs.c`, TTYs, wrappers, other platforms | | | not modelled, see section 6 |

What is hard in them, and tests hardly reach:

- **Scheduling.** A cothread is resumed from five places (ready queue, a
  partner on a channel, a timer, a lookup, a context that ended). The struct's
  `op` union is reused for each purpose: a link that outlives its use
  corrupts the next. A stacklet handle may be used once. When nothing can run,
  main is resumed *whatever it waits for*.
- **Hand-off.** `send` and `receive` switch directly to the partner, so the
  caller goes to the ready queue in the middle of a call.
- **Stacks.** A stack is copied only as far as another one needs its place;
  a mistake shows only in some later context.
- **Walking lists.** libuv calls back while it walks over lists that the
  callbacks change: watchers, async handles, closing handles.
- **Closing.** Memory of a handle is the program's after the close callback,
  yet pipes and queues may still point to it. Requests that are under way have
  to be called back all the same.
- **Batches of events.** `epoll_wait()` reports several descriptors; the
  callback for one changes the handle of the next. A stopped watcher stays in
  the kernel's set, a changed one is told to it only before the next wait.
- **Partial failure.** Writes are done in part, connections are refused late,
  `uv_spawn()` fails with some of its pipes open.
- **Coalescing.** One SIGCHLD for several children, one byte for several async
  sends, one `stat()` for several changes.
- **Threads.** Two mutexes, one condition, lock-free `pending` flags, signal
  handlers that interrupt a thread anywhere.

What makes each correct is stated as properties in section 3; `PROJECT.json`
lists the hazards one by one at their lines, with the properties that cover
them.

## 2. The modules

| module | models | extends |
|---|---|---|
| `GeventHub` | scheduler core of `gevent.c` as operators: activate, switch, yield, leave | |
| `GeventChannel` | channels and semaphores | `GeventHub` |
| `Gevent` | all of `gevent.c`, with the loop as far as gevent sees it: `Init`, `Next`, `Spec`, `FairSpec` | `GeventChannel` |
| `GeventProperties` | its properties | `Gevent` |
| `GeventProofs` | theorems about it: scheduler, waiting, channels, semaphores, forcing main | `GeventProperties`, `SharedLemmas` |
| `Stacklet` | `stacklet.c` | |
| `StackletProofs` | theorems about it | `Stacklet`, `SharedLemmas` |
| `WorkQueue` | abstract: what the thread pool promises the loop | |
| `ThreadPool`, `ThreadPoolProperties` | `threadpool.c`, `async.c` for one handle, the mutexes; implements `WorkQueue` | |
| `ThreadPoolProofs` | theorems about it, the refinement among them | `ThreadPoolProperties`, `SharedLemmas` |
| `UvHandle` | flags, count and closing of handles, as operators | |
| `UvLoop` | `uv_run2()`, timers, loop watchers, async handles, closing | `UvHandle` |
| `UvLoopProofs` | theorems about it, all of its properties | `UvLoop`, `SharedLemmas` |
| `UvSignal` | `signal.c`, with several loops and threads | `UvHandle` |
| `UvSignalProofs` | theorems about it | `UvSignal`, `SharedLemmas` |
| `UvIo` | `uv__io_*()` and the epoll backend, as operators | `UvHandle` |
| `UvIoLoop` | `uv_run2()` with I/O: poll, a batch of events, pending and closing handles | `UvIo` |
| `UvUdp`, `UvPoll` | `udp.c`, `poll.c`: actions on the loop of `UvIoLoop` | `UvIoLoop` |
| `UvSockets` | composes both in one loop | `UvUdp`, `UvPoll` |
| `UvStream` | calls of `stream.c`, `tcp.c`, `pipe.c` | `UvIoLoop` |
| `UvStreamIo` | what the loop does with streams; `Spec` | `UvStream` |
| `UvIoProofs` | theorems about all properties of `UvSockets` and `UvStreamIo` | `UvSockets`, `UvStreamIo`, `SharedLemmas` |
| `UvTurns` | the program and a loop without I/O take turns | `UvHandle` |
| `UvFsPoll`, `UvInotify` | `fs-poll.c`, `inotify.c` | `UvTurns` |
| `UvFsWatch` | composes both in one loop | `UvFsPoll`, `UvInotify` |
| `UvStdio` | descriptors of a spawn, in parent and child, as operators | |
| `UvProcess` | `process.c` | `UvTurns`, `UvStdio` |
| `UvTurnsProofs` | theorems about the properties of `UvFsWatch` and the children of `UvProcess` | `UvFsWatch`, `UvProcess`, `SharedLemmas` |
| `SharedLemmas` | lemmas about sequences as queues (insertion, removal, elements, how often) and about the operators of `UvHandle` | `UvHandle` |
| `MC*` | constants of the runs | |

`Gevent` and `ThreadPool` meet in `WorkQueue`: `Gevent` moves a lookup through
`queued`, `done` and `batch` as `WorkQueue` does, and `ThreadPool` is shown to
implement it. `Gevent` and `Stacklet` meet in the rule that a handle is used
once: `HandlesAreFresh` shows that `gevent.c` keeps it, and `Stacklet`'s
`Switch` needs it. `Gevent` uses of the loop that a due timer is called back,
that the loop is alive as long as there is a referenced timer or a request,
and the order of phases; `UvLoop` models these in full. `UvProcess` uses of
`UvSignal` that a signal is called back after it was caught, several at once or
one by one; `UvFsPoll` uses of the thread pool that a request is answered once.

### gevent.c

A cothread is a constant; `state`, `current`, `ready`, `receivers`, `senders`,
`counter` are the fields of the same names, queues as sequences. `current = Hub`
stands for `hub->current == NULL`. `stacklet[x]` is the context whose stack the
handle holds. One action is what the processor does from one switch to the
next, or an API call that does not switch; a call that blocks is two actions
(`ReceiveBlocks` and `ReceiveReturns`), and `call[t]`, `chan[t]` are the frame
in between. `value` is the word `op.channel.value`: other members of the union
overwrite it. `sent`, `receipts` and `outstanding` are history.

The program is arbitrary: any cothread calls any function of `Ops` at any time,
`MaxCalls` calls in all. Main can call `gevent_wait(hub, 0)` after that, as the
tests' `main()` does.

### stacklet.c

The C stack is an array of `N` addresses, each one frame; what is below the
stack pointer becomes `Junk`. `g[c]` is `struct stacklet_s` with the part of the
stack it has saved, `chain` the chain of those not saved in full, `curStop` is
`g_current_stack_stop`. A program pushes, pops and writes frames, makes
stacklets, switches and destroys; `slp_switch()` is what it does to memory.

### threadpool.c and async.c

One loop thread and the workers; `pc` says where each thread is. A critical
section is one step unless another thread can see its middle: both mutexes of
`uv_cancel()` and the calls made under `loop->wq_mutex` are steps of their own,
`uv_async_send()` is two (`pending`, then the byte). Spurious wake-ups of the
condition are in. `exit()` sends the exit message and joins the workers.

### core.c, timer.c, loop-watcher.c

A handle is a constant with a kind. `nxt` and `prv` are the real links of the
queues, which a removed element keeps: `ngx_queue_foreach()` goes on from them.
`left[t]` is what a timer has to wait, 0 when it is due: the loop's clock
appears only in differences, and which of two due timers is older is left open.
`phase` is where `uv_run2()` is and `user` whether it is in a callback. The program calls any
function from any callback, `MaxCalls` in all, and reuses the memory of closed
handles. Another thread sends on async handles, also while the loop closes
other ones.

### signal.c

A loop stands for its thread. `frame[t]` is the signal handler that has
interrupted thread `t`; writing a message and counting it are two steps, and a
handler can interrupt a call wherever signals are not blocked. `call[l]` is
the library call a loop's thread is in. Which other handles a loop has is left
open: their callbacks show as a call of the program after the poll.

### I/O watchers, UDP and poll handles

The watchers of a loop are the record `io`: `fd`, `pevents` and `events` of each
`uv__io_t`, `queue` and `pending` for the two queues of the loop, `watchers` for
the array, and the kernel's part, `epoll` (what is reported of a descriptor) and
`open`. `io.ok` turns false when an assertion fails. `phase` is where `uv_run2()`
is, `batch` the events of the last `epoll_wait()` that have not been dispatched,
`frame` the library function under way and its handle. Control is in the library
(`user = FALSE`) or in the program; a callback hands it over and `Return` back.
An event is dispatched by looking its descriptor up *then*, as the code does.

`uv__udp_sendmsg()` and `uv__udp_run_completed()` are actions with a label in
`frame`; the queues are sequences of requests, `done` those sent and not yet
called back. `uv_run2()` has nothing but I/O in these modules: timers and other
handles are `UvLoop`'s.

### Streams

`UvStream` has the calls, `UvStreamIo` the loop's side. `st[h]` is the set of
the flags that steer anything. `uv__stream_io()` is cut where a callback is
made: `"io"`, `"read"`, `"write"`, `"written"`, ... in `frame.at` are the places it
goes on from, after looking again at what the code looks at again. The kernel
answers each `connect()`, `write()`, `read()` and `accept()` in any way it
may: done, in part, not yet, error. A pipe may pass a descriptor with the data.
`DescriptorsAreOwned` relates `accepted_fd`, the watchers and `io.open`.

### Processes

A table of descriptors says what each of them refers to, and `cloexec` which
`execvp()` closes. `uv_spawn()` is one action: pipes, `fork()`, the child's
`dup2()`s in their order (as folds over the containers), `exec`, the parent's
side, and its failure at each of the system calls. `last` keeps the spawn's wish and both
tables for the properties. `kernel[p]` is the state of a pid, `spawned[p]` the
handle it was spawned for; pids are used again.

### fs-poll.c and inotify.c

A poll context is a handle (its timer) with `ctx`, `req` for the request in the
thread pool, and `file` for the world. `lists` maps a watch descriptor to the queue of
its handles; the walk over it goes on from the links of the handle it has just
called. The file is changed, deleted and made behind the back of the library;
the kernel ends a watch with one more event and does not use descriptors again.

## 3. The runs

| run | instance | question |
|---|---|---|
| `gevent` | 3 cothreads and main, a channel, a semaphore, timers and lookups, 7 calls | values, permits, wake-ups, scheduling |
| `live` | 2 cothreads and main, 5 calls, fair | does everybody run again |
| `stacklet` | main and 2 stacklets, 6 frames | stacks survive |
| `pool` | 2 workers, 3 requests, fair | ownership, refinement, answers, `exit()`, deadlock |
| `uvloop` | 2 prepare and an idle watcher, a timer, an async handle, 4 calls | handles and phases |
| `signal` | 2 loops, 3 handles, 2 signal numbers, 2 signals, 4 calls | signals and closing |
| `sockets` | 2 UDP handles, a poll handle, 2 sends, 3 descriptors, 5 calls | watchers, batches of events, sends |
| `stream` | 2 streams (one connected), TCP or pipes, 2 writes, 3 descriptors, 4 calls | requests, descriptors, order |
| `process` | 2 handles (one without `exit_cb`), 2 pids, 12 descriptors, 4 calls | exits and descriptors |
| `fswatch` | a poll handle with 2 contexts, 3 inotify handles, 2 paths, 5 calls, 2 changes each | contexts, walks, events |
| `v_lookup`, `v_signal` | | section 5 |

Every number is a constant of the `.cfg`: `MaxCalls` bounds the calls of the
program, `MaxSignals`, `MaxChanges`, `MaxEvents` what happens outside of it,
`MaxWd` and `MaxFd` descriptors, `N` the stack. They bound the program and the
world, never the library.

### gevent

- `WaitingWhereItsStateSays`: the union `op` is used for one thing at a time,
  and no suspended cothread is lost.
- `HandlesAreFresh`, `HubRunsWhenIdle`, `AssertsHold`, `TypeOK`.
- `ChannelsDeliver`: a channel is a queue without copies, inventions or losses,
  and a sender and a receiver never wait for each other.
- `PermitsConserved`: permits are neither made nor lost.
- `WokenForItsReason`, `MainForcedOnlyWhenIdle`: what a resumption may be due to.
- `MainRunsAgain`, `WaitingEnds`: liveness (`live`).

Main is an exception in several of them, because it is resumed out of any call
when nothing else can run; section 5 says what follows from that.

*Bounds.* Three cothreads besides main give two partners and a bystander, or
three waiters in one queue; seven calls are enough for a cothread to
be spawned, block, be woken by another one that blocks in turn, end, and be used
again. Cothreads are symmetric. Main spawns, sends and sleeps, so that it can be
forced out of a channel and out of a timer; receiving is left to the others.

*Fairness* (`live`). Weak for each cothread: code between two calls ends. Weak
for the hub and for each lookup: `uv_run()` goes on, `getaddrinfo(3)` returns.
Strong for "a turn of the loop finds the timer of t due": time passes while
the loop turns. Nothing is assumed about who calls what; the bound on calls
means that no cothread hands over to others for ever (the TODO at
`gevent.h:21` is about programs that do).

The runs of gevent do not check for deadlock: a program whose cothreads all wait for
each other does stop, in main. In the libuv runs other than `pool` the program
may stop too, having made its calls, so they do not check for it either.

### Stacklet

`StacksIntact`: frames of a suspended context are in the heap if saved, else
still on the C stack; none of the latter is within reach of the running one,
and the chain is in the order of the stack, which is why.
`ResumedWithItsStack` is the purpose. Six frames let each of three contexts have
two, overlap partly, and be saved in two steps; two values tell frames apart.

### Thread pool

`OneOwner`: a request is in one place, and in none when its memory is the
program's again. `ImplementsWorkQueue`: the refinement mapping takes a request
out of the abstract `queued` when it is linked in `loop->wq`.
`EveryRequestIsAnswered` and `ExitEnds` are the liveness of both conditions.
Absence of deadlock is checked. Two workers and three requests are
enough to have one of each working, waiting and locking.

*Fairness.* Threads go on, and a mutex that is free again and again is obtained
(strong fairness of the steps that lock), the loop polls, a callback and the
work of a request end. Strong fairness of the loop stands for a scheduler that does
not starve it against the workers.

### Event loop

- `CountIsRight`: `active_handles` after any mixture of calls.
- `RunEndsClean`: `uv_run()` ends when nothing referenced is active and no close
  callback is due.
- `ClosedOnce`: one close callback, and no link to the handle remains, nor the
  `q` of a walk that goes on.
- `CalledOnce`: a watcher active during a whole pass is called in it, and not
  twice, except when a callback stops its own watcher and starts one, which the
  walk then meets (again).
- `NeverOversleeps`: the loop does not wait with something due or pending.

Four calls reach, for example: stop oneself and a neighbour and start both
again; close, reuse, send, close. Two watchers of one kind are the
least that a walk can go wrong with; three of them with six calls, and three
async handles, were explored as well. A loop that has only watchers other than
idle ones blocks for ever (so do the tests if they leave it so).

### Signals

- `ClosedWhenDrained`: no message outlives its handle, and the close callback is
  due exactly when no message is left.
- `HandledIffWatched`: the process's signal action agrees with the tree, for
  loops in different threads.
- `DeletedLoopIsLeftAlone`: no handler gets at a loop that was deleted.

Two signals to two handles of one signal number put up to four messages into a
pipe, of handles stopped, moved to the other signal, closed and used again in
between.

### Sockets

- `WatchersAgree`: the loop's bookkeeping of descriptors and the kernel's agree
  whenever it is going to wait, it never calls a closed handle, and no assertion
  about watchers fails.
- `SendsAreWatched`: what is not sent is waited for, and a handle keeps the loop
  alive exactly while it watches its socket.
- `CalledInOrder`: sends are called back in their order, once.

Three handles with a descriptor each are what a batch of events needs for one
callback to change the handle of the next and of the one after; five calls
include bind, send, stop or close, and use again.

### Streams

- `RequestsAreKept`: a request counts for the loop exactly while it is in one
  place, and only one, that will call it back.
- `NothingForgotten`: between two events, what waits for the socket is watched,
  what is finished is fed, what waits for `uv_accept()` is not accepted again.
- `DescriptorsAreOwned`: no descriptor leaks or has two owners.
- `AnsweredInOrder`: writes in their order, shutdown after them.
- `WatchersAgree`, as above.

The connected stream can write twice, shut down and close, at every point of the
others; the second stream listens, connects or is what is accepted.

### Processes

- `ExitsAreReported`: each exit is told once, to the handle it belongs to, and
  none is waited for in vain.
- `StdioIsAsAsked`: the child's streams are what the program asked for, and the
  child gets no other descriptors of the library.
- `FilesAreKept`: the parent keeps its own descriptors and the pipes', and only
  those, also when the spawn fails.

Every choice of pipe, ignored and inherited for each of three streams is
enumerated. Twelve descriptors are four of the program and room for two spawns.

### File watching

- `ContextsAreKept`: a poll context lives exactly as long as something uses it.
- `ListsAgree`: every active handle is in the one queue the kernel knows of.
- `NeverToldTwice`: the program hears of news only.
- `EventsReachWatchers`: an event reaches each handle that watches from the
  event's arrival until its turn.

Two contexts are the old and the new one of a handle that was started again, three
inotify handles on one path are a walk with a first, a next and a last.

### Habits

Some programs meet behaviour of the library that is described in section 5 and
that breaks the properties above. What such a program does is named, by a member
of `Habits` (`UvIoLoop`, `UvProcess`) or by `Pairs` (`UvInotify`), and is left out
of the runs; adding the name to a `.cfg` shows what follows.

| habit | what the program does | what TLC then finds |
|---|---|---|
| `reuse` | opens a socket while a closed one's event is in the batch | the new handle is called for the old one's event |
| `cross` | stops or sends on another handle of the same batch | the asserts of `udp.c:197` and `udp.c:262` |
| `rebind` | binds a UDP handle that is bound | its descriptor is closed under the watcher |
| `late` | takes a passed descriptor after the next has come | `accepted_fd` is overwritten, a descriptor leaks |
| `lingers` | does not close a stream whose shutdown failed | the assert of `uv__drain()` |
| `wraps` | keeps the handle of an ended child until its pid is used again | the exit is reported to the old handle |
| `stdin` | lets a child inherit stdin | the child reads `/dev/null` |
| `shares` | lets a child inherit a descriptor twice, or one of 0 to 2 as another | the child has none |
| `fails` | a spawn that was to inherit fails | the program's own descriptors are closed |
| `Pairs` | closes its own inotify handle and then the next, in a callback | the walk follows a stale link |

Every property of a passing run is tried against a mutant, a changed definition
of the model (`*_Suffix`, marked `\* mutant`) with a plausible mistake: each is
found.

## 4. The proofs

Each theorem is about `Spec` without fairness and holds for every value of the
constants that the `ASSUME` of the module allows: that names are distinct,
that bounds are natural numbers, that the stack has an address (`Stacklet`) and that
handles (`UvLoop`, `UvSignal`, `UvTurns`) and threads (`UvSignal`) are finitely many, that a poll handle is no UDP handle, that no two
handles start with one descriptor (`UvIoLoop`), and that a connect or shutdown request is
no write request (`UvStream`; they are different types, and a request in use is not used for
another thing). Nothing
bounds cothreads, queues, workers, requests, handles, descriptors, loops, signals, files
or calls.

| theorem | states | about |
|---|---|---|
| `SchedulerInvariant` | `[]IInv` | scheduler |
| `TypeCorrect` | `[]TypeOK` | all of `gevent.c` |
| `FreshHandles` | `[]HandlesAreFresh` | scheduler, stacklet handles |
| `HubIsIdle` | `[]HubRunsWhenIdle` | scheduler |
| `StepsAreScheduled` | `[][SchedNext]_hubVars` | every step of `gevent.c` |
| `WaitersAreLinked` | `[]WaitInv` | queues, timers, lookups |
| `NoWakeupIsLost` | `[]WaitingWhereItsStateSays` | the union `op` |
| `NoAssertFails` | `[]AssertsHold` | asserts of `gevent.c` |
| `WakeupsHaveReasons` | `WokenForItsReason` | resumptions |
| `MainIsForcedWhenIdle` | `MainForcedOnlyWhenIdle` | forced resumption of main |
| `PermitsAreConserved` | `[]PermitsConserved` | semaphores |
| `ChannelsAreReliable` | `[]ChannelsDeliver` | channels |
| `StackletsAreConsistent` | `[]IInv` | stacklets |
| `NoFrameIsLost` | `[]StacksIntact` | stacklets |
| `ContextsGetTheirStack` | `ResumedWithItsStack` | stacklets |
| `EveryRequestIsPlaced` | `[]IInv` | thread pool |
| `RequestsHaveOneOwner` | `[]OneOwner` | thread pool |
| `PoolImplementsWorkQueue` | `ImplementsWorkQueue` | thread pool, refinement |
| `MessagesAreAccounted` | `[]IInv` | signal handles |
| `SignalsAreHandled` | `[]HandledIffWatched` | the tree and `sigaction()` |
| `HandlesOutliveTheirMessages` | `[]ClosedWhenDrained` | closing of signal handles |
| `LoopsCanBeDeleted` | `[]DeletedLoopIsLeftAlone` | `uv_loop_delete()` |
| `QueuesAreRings` | `[]IInv` | event loop |
| `ActiveHandlesAreCounted` | `[]CountIsRight` | `active_handles` |
| `HandlesAreClosedOnce` | `[]ClosedOnce` | `uv_close()` |
| `PollNeverOversleeps` | `[]NeverOversleeps` | `uv_backend_timeout()`, `uv_async_send()` |
| `RunsEndClean` | `RunEndsClean` | end of `uv_run()` |
| `WatchersAreCalledOnce` | `CalledOnce` | `ngx_queue_foreach()` under changes |
| `ContextsAndWalksFit` | `[]WatchesInv` | file watching |
| `ContextsAreFreedOnce` | `[]ContextsAreKept` | contexts of `fs-poll.c` |
| `PollsTellNews` | `NeverToldTwice` | `poll_cb()` |
| `WatchersAreListed` | `[]ListsAgree` | queues of `inotify.c` |
| `WalksReachWatchers` | `EventsReachWatchers` | `uv__inotify_read()` |
| `ChildrenHaveHandles` | `[]ChildrenInv` | `process.c`, `SIGCHLD` |
| `ChildrenAreReported` | `[]ExitsAreReported` | `uv__chld()` |
| `SocketsKeepTheirWatchers` | `[]SocketsInv` | UDP and poll handles |
| `WatchersAgreeWithEpoll` | `[]WatchersAgree` | `uv__io_start()`, `uv__io_stop()`, `uv__io_poll()` |
| `RequestsAreWatched` | `[]SendsAreWatched` | `uv_udp_send()` |
| `SendsAreCalledInOrder` | `CalledInOrder` | callbacks of `udp.c` |
| `StreamRequestsAreKept` | `[]RequestsAreKept` | requests of `stream.c` |
| `WritesAreAnsweredInOrder` | `AnsweredInOrder` | `uv_write()`, `uv_shutdown()` |
| `StreamsKeepTheirWatchers` | `[]StreamsInv` | `stream.c`, `tcp.c`, `pipe.c` |
| `StreamWatchersAgree` | `[]WatchersAgree` | watchers of streams |
| `NothingIsForgotten` | `[]NothingForgotten` | callbacks that streams owe |
| `DescriptorsHaveOneOwner` | `[]DescriptorsAreOwned` | accepted and passed descriptors |

`MainIsForcedWhenIdle` assumes `"getaddrinfo" \notin Ops[Main]`: a main that looks up names
meets the failing assert of run `v_lookup`. `WalksReachWatchers` assumes `Pairs = FALSE`, as
the run does: what a callback may not close is in section 5. The two about children assume
`"wraps" \notin Habits`, as the run does: the handle of an ended child is closed before its pid
is used again. Those of `UvIoProofs` about sockets assume `{"rebind", "reuse", "cross"} \cap
Habits = {}`: the run has no habits, and what each of the three breaks is in the table above.
The last four assume `StreamsOnly`, which the run satisfies: every I/O handle is a stream;
`epoll_wait()` reports errors of no descriptor (`Faulty`), since `uv__server_io()` asserts that
it is called for `UV__POLLIN` alone; and the program has none of the habits `reuse`, `late` and
`lingers`, which break what the same table says. What is said of permits and values excludes
main's own, as the properties do (section 3).

### The scheduler

`HandlesAreFresh` is not inductive by itself: that a cothread may
be resumed depends on its being suspended, which depends on the ready queue
holding only suspended cothreads, once each, and on the hub running only when
the queue is empty. `IInv` adds these: `TypeOK`, `CurrentIsCurrent`,
`MainIsAlive`, `ReadyAreReady`, `ReadyOnce`, `HandlesAreFresh`,
`HubRunsWhenIdle`.

Gevent has some thirty actions, but they change the scheduler's variables in only six ways: a yield
by a cothread that is not ready, a hand-off, a callback from the hub, the end of a context,
the reuse of a struct, a change of the loop's phase. `SchedNext` is their
disjunction. So the proof has two layers: each action of `Gevent` is one
of them and keeps the types (`...Keeps`, `StepsAreScheduled`), and each of the
six keeps `SchedInv` (`YieldStepKeeps` and so on).

### Waiting

A cothread is found by its wake-up through a link; that the link is right
depends on the one function it has a frame of. `WaitInv` says so: `CallInv`, the
state of a suspended cothread fits its frame; `QueueInv`, it is in the queue of
the channel it is in a call of, once, and in no other; `TimerInv`; and
`LookupInv`, a request is in one of the queues of the thread pool, once, and
belongs to its cothread. Main is weaker in the last: forced out of a lookup it
leaves its request behind. The same six ways of switching (`Passes`) carry it.

### Channels and semaphores

Most steps change neither who is blocked on a queue, nor what he holds, nor who
is about to return from it: they are a `Bystander` for both invariants. For
semaphores, `PermitInv` counts the permit that is on its way to a woken
acquirer; at most one is, because `release` switches to him at once. For
channels, `DeliverInv` says of a value whether its sender is blocked with it,
a woken receiver is about to return it, or it was received; values held in a
queue are in the order they were sent in, and later than what was received.

### Stacklets

`Consistent`: the parts that are not saved lie in the order of the chain, above
what the running context may overwrite, and each frame of a suspended stack is
in its copy up to `saved` and on the C stack from there. `MainIsOldest` is what
makes `g_current_stack_stop` right when main has returned past the end that was
noted. A save of the chain up to an address is a fold in the model; the proof
needs only what it does to each member.

### The thread pool

`Placed`: a request whose callback is to come is linked in one of three queues
or in the hand of one thread, `w->work` tells where, and both mutexes are held by
those whose `pc` says so. `SameRoles` steps move no request. With it the
refinement is a case for each step: a worker that links the request into
`loop->wq` finishes it in `WorkQueue`, taking the batch delivers, cancelling moves
it to the end; all other steps stutter.

### Signal handles

`ClosedWhenDrained` depends on counters which agree with the messages only as
long as nobody changes the tree while a handler walks it. `IInv` therefore says
who has the byte of the lock (`LockInv`), what a handler and a call that are under
way have done so far (`FrameInv`, `CallInv`), what is in the tree (`WatchInv`),
what each phase leaves behind (`PhaseInv`), that `caught - dispatched` is the number of
messages but for one that is not counted yet (`MessageInv`), and that the list of
closing handles has those of no messages, once (`CloseInv`). Each action has a lemma;
those of `SharedLemmas` say what the operators of `UvHandle` do to the
record of a loop. The bounds of the counters in `TypeOK` follow from `CaughtInv`: a
handler counts a handle at most once.

### Event loop

A watcher that is removed keeps its links, and a `foreach` goes on from them; after
several calls of one callback they may lead through handles that are themselves
removed, or back in the queue elsewhere. TLA+ without recursion has no list that is
reached by following links, so the queues are described by numbers of the nodes:
they grow along `nxt` up to the sentinel (`InOrder`), `nxt` and `prv` are inverse on
the queue (`Ring`), and a queue holds its sentinel and the active handles of its kind.
The way of a `foreach` (`Walk`) is a set of nodes in order from the cursor: first
stopped handles, whose links are old, then the queue from some node to its end.
Whoever was active all the time and not yet called is on it (`OnItsWay`), and who was
called is not, unless he was started anew. Only the existence of such numbers is
claimed; insertion at the head, at the tail and removal (`HeadIsInserted`,
`TailIsInserted`, `NodeIsRemoved`, and the same for the walk) give the new ones.

`IInv` is this for each queue, `HandlesOK` (the count, and the lists of closing
handles against the flags), `SleepsWell` (the timeout that was computed fits what
is active, also after the poll) and `SendsAreSeen` (a pending handle has its byte in the pipe or
a sender about to write it, or is still ahead of the walk).

The attempt refuted an earlier form of `ClosedOnce`, which had the cursor point at no
closed handle in any phase: after `uv__run_check()` comes `uv__run_closing_handles()`,
and the handle that was called last may be closed there. `q` is not used after its
`foreach`, so the property now says it of a walk that goes on. The run, which
has no check watcher, could not show it.

### File watching

Between two callbacks `uv__io_poll()` goes on with a frame, and both kinds of handles
have to fit what it holds (`FrameFits`). For `fs-poll.c`, `PollInv` says of each context
that it is free (`IsFree`), left behind by its handle (`IsLeft`) or polled with
(`Polling`), and of the last two that exactly one thing goes on with it: a request, the
callback under way, and the timer or, once left, the closing of the timer. That is why
`uv_fs_poll_stop()` may close the timer when it runs and leave it to `poll_cb()` when it does
not. `NeverToldTwice` needs in addition that what a handle told is what its context noted
(`ToldFits`), but for the callback under way, which notes it only at its end.

For `inotify.c`, `WalkFits` places the walk: at a handle in the queue, those due and not
closed after it; or at one that was taken out, whose link then leads to a handle in the
queue, those due being that one or after it. Closing the handle at hand goes from the
first to the second; `Pairs` excludes the one close that breaks the second. A handle that is opened
meanwhile is appended, so it is in nobody's way and never due.

### Child processes

That an exit is reported to the right handle is a matter of pids, of which the kernel and
the queue have each their own. `HandleFits` says of a handle in the queue that the process
with its pid is the one it was spawned with, and was not found yet, or that there is none, and
it was found once. Handles in the queue have different pids, so the first one that
`uv__process_find()` meets is the only one. `ExitsFit` adds that the watcher of SIGCHLD
runs from the first spawn on: an exit before `uv_spawn()` returns, or one of several that share a
signal, leaves the signal pending or `uv__chld()` under way, which does not return before
`waitpid()` has no more. `ReusableFits` is what lets `uv_spawn()` be called
again on a handle that was closed or whose spawn failed.

### I/O watchers

`WatchersAgree` says what the lookup of a watcher by its descriptor finds. It needs that no
two handles have one descriptor and that descriptors in use are open (`FdsAreOwn`), so that
`socket()` returns none of them, and it needs the `events` field: what epoll was told
is `events`, and what is wanted is `pevents`, and the two differ only for watchers in the queue
(`ToldFits`). A stopped watcher has `events` of 0, so the next start queues it again although
epoll still has the descriptor. `IoFit` is all of this for a record of watchers; the first
lemmas say that each operator of `UvIo` keeps it, whatever the handles.

That no assertion of `udp.c` fails is about the time between `epoll_wait()` and the call:
`uv__udp_io()` is called for events that the handle may have stopped to wait for. `BatchFits` says
that whoever is watching a descriptor can take the events it has in the batch, `CanTake`, and
`UnderWayFits` the same for the handle that is being called. It is kept because a stopped watcher
is not found, a closed descriptor is not opened again while it has an event, and a handle
restarted in a callback of another is one that can take them: the habits `reuse` and
`cross` are the exceptions. While `uv__udp_sendmsg()` calls back, the watcher still waits
for the socket with nothing left to send (`InCompleted`), and `uv_close()` then still finds
everything as it needs it.

### Streams

The first two theorems, about requests, hold whatever the kernel answers and whatever habits the
program has. `RequestsInv` counts by stream: `RequestsOf(h)` is what is in the two queues of `h`
with its connect and its shutdown, the sets of two streams have nothing in common, and each is what
`reqs` has of that stream (`EachIsOfOne`). What makes it inductive is the end of a stream:
`uv_tcp_init()` of a closed handle forgets what it had, so a closed stream must have nothing left
(`NothingLeft`) but while `uv__stream_destroy()` is calling back (`Finishing`), and that needs
to know that the handle of that frame is closed and that none is closed outside of the closing phase
(`hs.doomed`). The steps fall into three kinds, each with a lemma: those
that leave all requests where they are, those that add one at the end, and those that call
the first. Moving a write from `write_queue` to `write_completed_queue` is of the first kind
(`JoinedShift`). For the order of `AnsweredInOrder`, `uv__drain()` marks the stream as shut
where both queues are empty; `MarksFit` is its type.

The other three properties are about every stream at rest, and a stream is at rest only between
two functions of the loop. `StreamsInv` therefore says of each stream what holds at any
moment, naming the function that still owes the rest (`Under`): a finished write is fed, or
`uv__write_callbacks()` is under way, or `uv__stream_io()` is and was told that the socket is
writable (`WriteFits`); a connect that failed at once is fed or its `uv__stream_io()` has begun
(`ConnectFits`). Four parts are about hazards of their own:

- `CloseFits`: `uv_close()` leaves a stream without descriptors, not reading and not fed, so that the
  pending queue and a batch under way call no closed stream.
- `SocketFits`: without a socket there is nothing to write and nothing accepted, and what is fed is a
  connect. `uv__stream_io()` may therefore go from the pending queue to `uv__stream_connect()`.
- `ListenFits`: a listener waits for connections alone, and while it has one that nobody took it does
  not wait, except in `uv__server_io()` between the callback and `uv__io_stop()`. That
  the batch has no other event for it is part of this, since that is what `uv__server_io()` asserts.
- `OwnersFit`: what is open is `fd` or `accepted` of one stream, and epoll has nothing of what
  is closed. With `reuse` excluded, this is why a new socket with a low number gets no event of the
  old one.

A step is for one stream, and the others have to be left alone: `Untouched` says what of
a stream may change behind its back (epoll may be told what it wants, and the batch may get
what epoll has), and one lemma shows that this keeps `StreamFits`. Each action then has to
show it only for its own stream. `uv_accept()` is the one that is about two streams, listener and client.

### Lemmas

`SharedLemmas` has two parts. The second says first what each operator of `UvHandle` does to flags and count; then
that `uv_*_init()`, start, stop, ref, unref, `uv_close()` and the end of closing keep
`HandlesFit`, the count and the lists of closing handles against the flags, for any set of
handles. `UvLoopProofs`, `UvTurnsProofs` and `UvIoProofs` use these.
The first part is about queues: elements and distinctness after
an insertion at either end, after taking the head, and after `RemoveFirst`
(which is defined by a least position: `MinIsElement`), how many elements of
a kind there are, and what becomes of two queues of which one is served before the other.

### Only model-checked

- Liveness (`live`, `pool`): fairness and `ENABLED` are outside TLAPS.
- Of `UvProcess`, `StdioIsAsAsked` and `FilesAreKept`: what becomes of descriptors is a fold
  over those of the child, and what a fold computes needs induction over data.

## 5. Where the code and its documentation disagree

Two are runs that TLC ends with a counterexample.

- `v_lookup`: main sleeps again after it was forced out of
  `gevent_getaddrinfo()`; the answer then fails the assert at `gevent.c:434`.
- `v_signal`: a signal handle closed while a message of it is in the pipe is in
  no list and not active (`signal.c:269`). If it was the last, `uv_run()`
  returns, and returns at once when it is called again: the close callback of
  `uv.h:471` is never called.

The others were seen while modelling and are not checked by a run.

*gevent.c*

- `gevent_wait(hub, 0)` in a spawned cothread is never resumed, also not when
  the loop has ended (`gevent.c:335`, `gevent.h:186`). Such a cothread is
  suspended in state `CURRENT`.
- The timer of a finished cothread stays in `loop->handle_queue`
  (`gevent.c:308`); the next `uv_timer_init()` writes to memory that
  `gevent.h:108` gives back to the program.
- Main forced out of `gevent_channel_receive()` returns a word nobody sent
  (`gevent.h:207` says it is paused until there is a sender), out of
  `gevent_semaphore_acquire()` returns as if it had a permit, and out of
  `gevent_sleep()` before its time. This happens when no cothread is ready and
  the loop has ended (`gevent.c:181`).
- `gevent.h:11` says every function returning int returns -1 or 0. In the code
  `gevent_semaphore_acquire()` and `gevent_semaphore_release()` return the counter
  (`gevent.c`, both functions), and `gevent_getaddrinfo()` returns the status its
  callback stored, whatever it is.
- The switch count of `gevent.h:21` is not implemented (`gevent.c:397` has the TODO).
- In the Python binding a blocked sender's object is handed over without a
  reference of its own, and the sender runs first (`gevent.c:362-371`,
  `gevent2.pyx:79`): it may drop the last one before `receive()` returns.

*Loop, timers, async and signal handles*

- `uv_timer_start()` counts from `loop->time`, so a sleep after a long
  computation is shorter than asked.
- `uv.h:1418` says a cancelled request is called back with status -1;
  `uv__getaddrinfo_done()` passes `UV_ECANCELED`, as
  `test-threadpool-cancel.c:124` expects. `uv_cancel()` of a cancelled request
  succeeds again and puts it last.
- `uv.h` says prepare and check callbacks are called exactly once per
  iteration: not when a callback stops its own watcher and starts one
  (twice, or in an endless pass), and a callback that stops itself and then the
  next watcher has the stopped one called.
- `uv.h` says of a zero timeout that the callback fires on the next tick; in a
  timer callback it fires in the same one.
- An async callback can be called after `uv_close()` of its handle, when the
  handle before it was closed in its own callback.
- `signal.c:152-155` says that with a full pipe the user is out of luck;
  the assert at `signal.c:160` aborts the process.
- `uv_signal_stop()` followed by `uv_signal_start()` for the same signal calls
  back for a signal that was caught before the stop.

*Sockets*

- A descriptor that is closed and opened again while its event is in the batch
  of `epoll_wait()` gives the event to the new handle (`linux-core.c:213`).
- The asserts `recv_cb != NULL` (`udp.c:197`) and "a queue is not empty"
  (`udp.c:262`) fail when the callback of another handle in the batch stops the
  one, or takes the other's last request.
- `uv__bind()` closes the descriptor of a handle that was bound before and is
  watched (`udp.c:363-367`).
- `uv__udp_send()` leaves the request registered when it has no memory for the
  buffers: `uv_run()` does not end.
- `uv_close()` in `recv_cb` closes the descriptor that the same event goes on
  sending with: the sends end with `EBADF`, not with `ECANCELED`.
- Two poll handles for one descriptor: the second takes the first's place in
  `loop->watchers`.

*Streams*

- An error of `accept()` that stays makes `uv__server_io()` call
  `connection_cb(-1)` in an endless loop (the `default` case before
  `stream.c:524`).
- A descriptor received before the last one was accepted overwrites it, although
  the message says "ignoring" (`stream.c:1006`).
- The program that goes on after a failed `shutdown()` meets the assert at
  `stream.c:634`; `uv_shutdown()` twice replaces the first request.
- When `uv__stream_open()` fails in `uv_accept()`, the listener is not watched
  again (`stream.c:560`).
- The writes queued behind a refused connection of a pipe are not called back
  before `uv_close()`; the watcher of one that was ended by the peer while
  `POLLOUT` is wanted keeps the handle active.
- `uv__stream_destroy()` calls the cancelled writes before the finished ones are
  called (`AnsweredInOrder` is about open streams).

*Processes and file watching*

- `uv__chld()` waits for *any* child and forgets those it does not know
  (`process.c:75`, and the comment "XXX bug? abort?"): other loops, libraries and
  the program never hear of theirs.
- A handle that is not closed when its child has ended stays in the queue and is
  found again for the next child with the same pid (`process.c:57`).
- A descriptor inherited as stdin is replaced by `/dev/null`: the swap at
  `process.c:394-400` makes `use_fd` -1 (`uv.h:1304` has stdio[0] as stdin).
- A descriptor inherited twice, or one of 0 to 2 as another one, is closed after
  its first `dup2()` (`process.c:314-319`).
- The error path of `uv_spawn()` closes the descriptors the program wanted the child
  to inherit (`process.c:478-481`).
- A callback that closes its own inotify handle and then the next one leaves the
  walk with the link of the first to the second, and the last close frees the
  list that it walks on (`inotify.c:162, 230-236`).

## 6. What is not modelled

- The binding of addresses to streams, `tty.c` and blocking streams, and the
  contents of what is read and written.
- `fs.c`: system calls in the thread pool, whose protocol is modelled.
- `thread.c`, `inet.c`, `error.c`, `dl.c`, `uv-common.c`: wrappers and
  conversions without state that other parts depend on.
- Windows and the other unix platforms. They are other implementations of the
  same interface and the larger part of the lines of the repository (together
  with headers that only declare); the models follow the Linux build.
- The reference counts of the Python binding, whose C code is generated.
- Failing system calls, except those named in section 2. Full pipes of signals
  and async handles. Wrap-around of counters of 32 and 64 bits.
- Real time: a timer is due by the loop's clock.
- Calls that `uv.h` or an assert forbids: after `uv_close()`, with a request that
  is in use, with two poll handles for one descriptor.

## 7. The plan

Done, in this order: `Gevent` (the purpose of the library), its proofs,
`ThreadPool`, `Stacklet`, `UvHandle` with `UvLoop`, `UvSignal`; then `UvIo` with
`UvSockets` and `UvStreamIo`, `UvFsWatch`, `UvProcess`.

Next modules:

1. `Rendezvous`: an abstract channel and semaphore that `Gevent` implements.
2. `PyCothread`: references held by cothreads that wait in C.

Next properties: liveness of closing in `UvLoop` and of requests in
`UvStreamIo`, of messages in `UvSignal`.

Next theorems: what is left of section 4 is liveness and the descriptors of children, and needs
other provers. For `UvStreamIo`, what a program with the habits `late` and `lingers` still keeps.
