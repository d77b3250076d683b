------------------------- MODULE GeventProperties -------------------------
(***************************************************************************)
(* What gevent.c promises the programs that use it, and what its data      *)
(* structures must satisfy for that.  Three exceptions run through the     *)
(* properties: the main cothread, which _get_next_stacklet() resumes       *)
(* whatever it is waiting for when nothing else can run; a cothread in     *)
(* gevent_wait(hub, 0), which waits for nothing; and a program that stops  *)
(* in user code of the main cothread.                                      *)
(***************************************************************************)
EXTENDS Gevent, FiniteSets

(* t has lost the processor and will go on where it was.                   *)
Suspended(t) == current # t /\ state[t] \notin {"NEW", "DEAD"}

(* The running context is in user code or in the event loop, not between   *)
(* _after_switch() and the end of an API function.                         *)
Settled == current # Hub => call[current] = "none"

Positions(q, t) == {i \in DOMAIN q : q[i] = t}

(* The places where op links t: its queue.queue, its ready, its timer.  A  *)
(* lookup does not count, libuv only has the malloc'ed req.                *)
Links(t) ==
  ({"ready"} \X {Null} \X Positions(ready, t))
  \cup (UNION {{"receivers"} \X {q} \X Positions(receivers[q], t) : q \in Queues})
  \cup (UNION {{"senders"} \X {q} \X Positions(senders[q], t) : q \in Queues})
  \cup ({"timer"} \X {Null} \X {0 : x \in timers \cap {t}})

-----------------------------------------------------------------------------
(* The members of the union gevent_cothread.op are used one at a time, and *)
(* no wakeup is lost.  A cothread is linked at most once, in one of the    *)
(* ready queue, a channel's queue and the timer heap, and never when it is *)
(* NEW or DEAD, when its memory belongs to the program.  Whoever is        *)
(* suspended is linked where the event its state names will find it, or    *)
(* has a lookup under way that answers it.                                 *)
OneLinkAtATime ==
  \A t \in Threads :
     Cardinality(Links(t)) <= (IF state[t] \in {"NEW", "DEAD"} THEN 0 ELSE 1)

Answerable(t) ==
  \/ <<request[t], t>> \in queued
  \/ \E q \in {done, batch} : \E i \in DOMAIN q : q[i] = <<request[t], t>>

WaitingWhereItsStateSays ==
  /\ OneLinkAtATime
  /\ \A t \in Threads : Suspended(t) =>
       \/ state[t] = "READY"     /\ Positions(ready, t) # {}
       \/ state[t] = "CHANNEL_R" /\ Positions(receivers[chan[t]], t) # {}
       \/ state[t] = "CHANNEL_S" /\ Positions(senders[chan[t]], t) # {}
       \/ state[t] = "TIMER"     /\ t \in timers
       \/ state[t] = "GETADDRINFO" /\ Answerable(t)
       \/ state[t] = "CURRENT"   /\ call[t] = "yield"

(* A stacklet handle is used once: a suspended context, the hub included,  *)
(* has the handle of its own stack, the running one and those without a    *)
(* stack have none.                                                        *)
HandlesAreFresh ==
  \A x \in Contexts :
     stacklet[x] =
        IF \/ x = current
           \/ x = Hub /\ hubpc = "off"
           \/ x \in Threads /\ state[x] \in {"NEW", "DEAD"}
        THEN Null ELSE x

(* The asserts of _get_next_stacklet(), of the channel functions and of    *)
(* sleep_cb() hold where they are evaluated.  getaddrinfo_cb()'s holds for *)
(* cothreads other than main.                                              *)
AssertsHold ==
  /\ \A i \in DOMAIN ready : state[ready[i]] = "READY"
  /\ current # Main => stacklet[Main] = Main
  /\ Settled => \A q \in Queues :
        /\ receivers[q] # <<>> => state[Head(receivers[q])] = "CHANNEL_R"
        /\ senders[q]   # <<>> => state[Head(senders[q])]   = "CHANNEL_S"
  /\ current = Hub => \A t \in due : state[t] = "TIMER"
  /\ current = Hub /\ batch # <<>> /\ Head(batch)[2] # Main =>
        state[Head(batch)[2]] = "GETADDRINFO"

(* The event loop runs only when no cothread is ready.                     *)
HubRunsWhenIdle == current = Hub => ready = <<>>

-----------------------------------------------------------------------------
(* A channel neither loses, repeats, invents nor reorders values.  A value *)
(* is received after every value sent before it on the channel, so in      *)
(* particular only once, and it was sent on that channel.  A sent value    *)
(* was received, or is held by its blocked sender, or by the receiver that *)
(* is about to return it; and no sender is blocked while a receiver is.    *)
ReceivedInOrder ==
  \A i, j \in DOMAIN receipts :
     /\ i < j
     /\ receipts[i][2] = receipts[j][2]
     /\ Main \notin {receipts[i][3], receipts[j][3]}
     => receipts[i][1] < receipts[j][1]

ReceivedWasSent ==
  \A i \in DOMAIN receipts :
     receipts[i][3] # Main =>
        \E t \in Threads : <<receipts[i][1], receipts[i][2], t>> \in sent

NoValueLost ==
  \A m \in sent : m[3] # Main =>
     \/ \E i \in DOMAIN receipts : <<receipts[i][1], receipts[i][2]>> = <<m[1], m[2]>>
     \/ value[m[3]] = m[1] /\ state[m[3]] = "CHANNEL_S" /\ chan[m[3]] = m[2]
     \/ current \in Threads /\ value[current] = m[1] /\ chan[current] = m[2]

ChannelsDeliver ==
  /\ ReceivedInOrder /\ ReceivedWasSent /\ NoValueLost
  /\ \A q \in Queues : receivers[q] = <<>> \/ senders[q] = <<>>

(* Permits are neither made nor lost: the free ones, those held and the    *)
(* one on its way to a woken acquirer are those the semaphore began with,  *)
(* in programs whose main cothread does not acquire.  Nobody is blocked on *)
(* a semaphore that has permits.                                           *)
PermitsConserved ==
  \A s \in Semaphores :
     /\ receivers[s] # <<>> => counter[s] = 0
     /\ "acquire" \notin Ops[Main] =>
          counter[s] + outstanding[s]
            + Cardinality({t \in Cothreads :
                             current = t /\ call[t] = "acquire" /\ chan[t] = s})
            = SemInit

(* The step resumes t because what it waits for has happened: a partner    *)
(* hands over to the first of its channel's queue and becomes ready, its   *)
(* timer has expired, its own lookup is answered.                          *)
ForItsReason(t) ==
  CASE state[t] \in {"CHANNEL_R", "CHANNEL_S"} ->
         /\ current \in Threads /\ state'[current] = "READY"
         /\ t = IF state[t] = "CHANNEL_R"
                THEN Head(receivers[chan[t]]) ELSE Head(senders[chan[t]])
    [] state[t] = "TIMER"       -> current = Hub /\ t \in due
    [] state[t] = "GETADDRINFO" -> answer[t] = 0 /\ answer'[t] = request[t]
    [] OTHER                    -> state[t] \in {"READY", "NEW"}

(* A cothread other than main leaves a blocking call only for what it      *)
(* waits for.                                                              *)
WokenForItsReason ==
  [][\A t \in Cothreads : current # t /\ current' = t => ForItsReason(t)]_vars

(* The main cothread is resumed without its reason only when nobody is     *)
(* ready and either the hub was never started since it last ended, or the  *)
(* loop has nothing left to do.  A late answer to a lookup that main was   *)
(* forced out of would resume it from the next lookup (section 5 of the    *)
(* README), so this is about programs whose main does no lookup.           *)
MainForcedOnlyWhenIdle ==
  [][current # Main /\ current' = Main /\ ~ForItsReason(Main) =>
       ready = <<>> /\ (hubpc = "off" \/ (current = Hub /\ ~LoopAlive))]_vars

-----------------------------------------------------------------------------
(* The two properties below hold for programs whose main cothread ends in  *)
(* gevent_wait(hub, 0), does no lookup of its own (LookupFindsItsWaiter)   *)
(* and lets no other cothread call gevent_wait(hub, 0), which parks it for *)
(* ever.                                                                   *)

(* Whatever the main cothread calls, it gets the processor back.           *)
MainRunsAgain == (current # Main) ~> (current = Main)

(* A ready cothread runs.  A sleeping cothread wakes up; one that waits on *)
(* an unreferenced timer, gevent_wait() with a timeout, only does while    *)
(* the loop has other work.  A lookup ends: the loop stays alive for it    *)
(* and the answer is delivered.                                            *)
WaitingEnds ==
  /\ \A t \in Threads : state[t] = "READY" ~> current = t
  /\ \A t \in Cothreads :
       /\ (state[t] = "TIMER" /\ t \in refd) ~> current = t
       /\ state[t] = "GETADDRINFO" ~> current = t

-----------------------------------------------------------------------------
(* gevent.c:434 asserts that the cothread of a finished lookup is waiting  *)
(* for it, for every cothread including main.  The code does not keep it.  *)
LookupFindsItsWaiter ==
  current = Hub /\ hubpc = "poll" /\ batch # <<>> =>
     state[Head(batch)[2]] = "GETADDRINFO"
=============================================================================
