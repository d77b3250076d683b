--------------------------- MODULE GeventChannel ---------------------------
(***************************************************************************)
(* Channels and semaphores of gevent.c.  A semaphore is a counter and a    *)
(* channel of its own, so both are queues of blocked cothreads; a blocked  *)
(* cothread is linked through op.channel.queue and carries the value in    *)
(* op.channel.value.                                                       *)
(*                                                                         *)
(* A call that blocks is two actions: the part up to the switch, and the   *)
(* part that runs when the cothread has the processor again.               *)
(***************************************************************************)
EXTENDS GeventHub

CONSTANTS
  Channels,    \* gevent_channel structs
  Semaphores,  \* gevent_semaphore structs, each with its channel
  SemInit,     \* the counter every semaphore is initialised with
  Ops,         \* the API functions each cothread of the program calls
  MaxCalls     \* bound on the number of API calls in a behaviour

Queues == Channels \cup Semaphores

AllOps == {"spawn", "init", "receive", "send", "acquire", "release",
           "sleep", "wait", "yield", "getaddrinfo"}

ASSUME CallsAssumption ==
  /\ Channels \cap Semaphores = {}
  /\ Null \notin Queues
  /\ SemInit \in Nat
  /\ Ops \in [Threads -> SUBSET AllOps]
  /\ MaxCalls \in Nat

VARIABLES
  receivers,   \* ch->receivers
  senders,     \* ch->senders
  value,       \* op.channel.value; 0 is any word that is no sent value
  counter,     \* sem->counter
  call,        \* the function a suspended cothread has a frame of
  chan,        \* its argument ch (or sem), Null when it has none
  ret,         \* the last int an API function returned
  calls,       \* number of API calls made so far
  \* History: what programs observe, for the properties only.
  sent,        \* <<value, channel, sender>> passed to gevent_channel_send
  receipts,    \* the sequence of <<value, channel, receiver>> received
  outstanding  \* acquires returned minus releases called, per semaphore

chanVars  == <<receivers, senders, value, counter, chan>>
histVars  == <<sent, receipts, outstanding>>

Pending == {"none", "receive", "send", "acquire", "release", "sleep",
            "yield", "getaddrinfo"}

ChannelTypeOK ==
  /\ receivers   \in [Queues -> Seq(Threads)]
  /\ senders     \in [Queues -> Seq(Threads)]
  /\ value       \in [Threads -> 0..MaxCalls]
  /\ counter     \in [Semaphores -> Nat]
  /\ call        \in [Threads -> Pending]
  /\ chan        \in [Threads -> Queues \cup {Null}]
  /\ ret         \in Int
  /\ calls       \in 0..MaxCalls
  /\ sent        \subseteq (1..MaxCalls) \X Channels \X Threads
  /\ receipts    \in Seq((0..MaxCalls) \X Channels \X Threads)
  /\ outstanding \in [Semaphores -> Int]

ChannelInit ==
  /\ receivers   = [q \in Queues |-> <<>>]
  /\ senders     = [q \in Queues |-> <<>>]
  /\ value       = [t \in Threads |-> 0]
  /\ counter     = [s \in Semaphores |-> SemInit]
  /\ call        = [t \in Threads |-> "none"]
  /\ chan        = [t \in Threads |-> Null]
  /\ ret         = 0
  /\ calls       = 0
  /\ sent        = {}
  /\ receipts    = <<>>
  /\ outstanding = [s \in Semaphores |-> 0]

-----------------------------------------------------------------------------
(* The running cothread is in user code and calls op.  A program that has  *)
(* used up its calls can still do what the main() of every test ends with, *)
(* gevent_wait(hub, 0), as often as it likes.                              *)
Calls(me, op) ==
  /\ op \in Ops[me]
  /\ calls < MaxCalls \/ (me = Main /\ op = "yield")
  /\ current = me
  /\ call[me] = "none"
  /\ calls' = IF calls < MaxCalls THEN calls + 1 ELSE calls

(* The running cothread was resumed inside op.                             *)
Resumed(me, op) ==
  /\ current = me
  /\ call[me] = op

Returns(me) ==
  /\ call' = [call EXCEPT ![me] = "none"]
  /\ chan' = [chan EXCEPT ![me] = Null]
  /\ UNCHANGED calls

(* The blocking half of channel_receive and channel_send: link op.channel. *)
(* queue at the tail, set the state, gevent_yield().                       *)
Block(me, q, op, st) ==
  /\ call' = [call EXCEPT ![me] = op]
  /\ chan' = [chan EXCEPT ![me] = q]
  /\ Yield(me, [state EXCEPT ![me] = st])

(* The other half: the current cothread becomes ready and the partner,     *)
(* still linked in the channel's queue, runs at once.                      *)
Handoff(me, partner) ==
  LET a == Activate(me) IN Switch(me, partner, a.st, a.rdy)

(* gevent_channel_receive() with no sender blocked on q.                   *)
BlockReceive(me, q, op) ==
  /\ senders[q] = <<>>
  /\ receivers' = [receivers EXCEPT ![q] = Enqueue(@, me)]
  /\ Block(me, q, op, "CHANNEL_R")
  /\ UNCHANGED <<senders, value>>

(* gevent_channel_send() to the first receiver blocked on q.               *)
HandoffSend_Last(me, q, v) ==                     \* mutant
  /\ receivers[q] # <<>>
  /\ value' = [value EXCEPT ![Last(receivers[q])] = v]
  /\ Handoff(me, Last(receivers[q]))
  /\ UNCHANGED <<receivers, senders>>
HandoffSend(me, q, v) ==
  /\ receivers[q] # <<>>
  /\ state[Head(receivers[q])] = "CHANNEL_R"     \* assert
  /\ value' = [value EXCEPT ![Head(receivers[q])] = v]
  /\ Handoff(me, Head(receivers[q]))
  /\ UNCHANGED <<receivers, senders>>

ReceiveBlocks(me, c) ==
  /\ Calls(me, "receive")
  /\ BlockReceive(me, c, "receive")
  /\ UNCHANGED <<counter, ret, histVars>>

(* gevent_channel_receive() when a sender is blocked: *result is set       *)
(* before the switch.                                                      *)
ReceiveFromSender(me, c) ==
  /\ Calls(me, "receive")
  /\ senders[c] # <<>>
  /\ LET s == Head(senders[c]) IN
     /\ state[s] = "CHANNEL_S"                   \* assert
     /\ receipts' = Append(receipts, <<value[s], c, me>>)
     /\ Handoff(me, s)
  /\ UNCHANGED <<receivers, senders, value, counter, call, chan, ret,
                 sent, outstanding>>

(* The rest of gevent_channel_receive() after its yield.                   *)
ReceiveReturns(me, c) ==
  /\ Resumed(me, "receive") /\ chan[me] = c
  /\ receivers' = [receivers EXCEPT ![c] = Unlink(@, me)]
  /\ receipts' = Append(receipts, <<value[me], c, me>>)
  /\ Returns(me)
  /\ UNCHANGED <<hubVars, senders, value, counter, ret, sent, outstanding>>

(* Every send passes a value nobody sent before: the number of the call.   *)
SendToReceiver(me, c) ==
  /\ Calls(me, "send")
  /\ HandoffSend(me, c, calls + 1)
  /\ sent' = sent \cup {<<calls + 1, c, me>>}
  /\ UNCHANGED <<counter, call, chan, ret, receipts, outstanding>>

SendBlocks(me, c) ==
  /\ Calls(me, "send")
  /\ receivers[c] = <<>>
  /\ senders' = [senders EXCEPT ![c] = Enqueue(@, me)]
  /\ value' = [value EXCEPT ![me] = calls + 1]
  /\ Block(me, c, "send", "CHANNEL_S")
  /\ sent' = sent \cup {<<calls + 1, c, me>>}
  /\ UNCHANGED <<receivers, counter, ret, receipts, outstanding>>

(* The rest of gevent_channel_send() after its yield.                      *)
SendReturns(me, c) ==
  /\ Resumed(me, "send") /\ chan[me] = c
  /\ senders' = [senders EXCEPT ![c] = Unlink(@, me)]
  /\ Returns(me)
  /\ UNCHANGED <<hubVars, receivers, value, counter, ret, histVars>>

-----------------------------------------------------------------------------
(* gevent_semaphore_acquire() with a positive counter.                     *)
AcquireAtOnce(me, s) ==
  /\ Calls(me, "acquire")
  /\ counter[s] > 0
  /\ counter' = [counter EXCEPT ![s] = @ - 1]
  /\ ret' = counter[s] - 1
  /\ outstanding' = [outstanding EXCEPT ![s] = @ + 1]
  /\ UNCHANGED <<hubVars, receivers, senders, value, call, chan, sent,
                 receipts>>

(* gevent_semaphore_acquire() otherwise: a receive on the semaphore's      *)
(* channel.  Release sends there only to a blocked receiver, so nobody is   *)
(* ever blocked there as a sender and BlockReceive is the whole receive.   *)
AcquireBlocks(me, s) ==
  /\ Calls(me, "acquire")
  /\ counter[s] <= 0
  /\ BlockReceive(me, s, "acquire")
  /\ UNCHANGED <<counter, ret, histVars>>

AcquireReturns(me, s) ==
  /\ Resumed(me, "acquire") /\ chan[me] = s
  /\ receivers' = [receivers EXCEPT ![s] = Unlink(@, me)]
  /\ ret' = counter[s]
  /\ outstanding' = [outstanding EXCEPT ![s] = @ + 1]
  /\ Returns(me)
  /\ UNCHANGED <<hubVars, senders, value, counter, sent, receipts>>

(* gevent_semaphore_release() with an acquirer blocked: send(NULL), and    *)
(* the counter is read when the releaser runs again.                       *)
ReleaseToWaiter_Counts(me, s) ==                  \* mutant
  /\ Calls(me, "release")
  /\ HandoffSend(me, s, 0)
  /\ call' = [call EXCEPT ![me] = "release"]
  /\ chan' = [chan EXCEPT ![me] = s]
  /\ counter' = [counter EXCEPT ![s] = @ + 1]
  /\ outstanding' = [outstanding EXCEPT ![s] = @ - 1]
  /\ UNCHANGED <<ret, sent, receipts>>
ReleaseToWaiter(me, s) ==
  /\ Calls(me, "release")
  /\ HandoffSend(me, s, 0)
  /\ call' = [call EXCEPT ![me] = "release"]
  /\ chan' = [chan EXCEPT ![me] = s]
  /\ outstanding' = [outstanding EXCEPT ![s] = @ - 1]
  /\ UNCHANGED <<counter, ret, sent, receipts>>

ReleaseReturns(me, s) ==
  /\ Resumed(me, "release") /\ chan[me] = s
  /\ ret' = counter[s]
  /\ Returns(me)
  /\ UNCHANGED <<hubVars, receivers, senders, value, counter, histVars>>

(* gevent_semaphore_release() with nobody waiting.                         *)
ReleaseIncrements(me, s) ==
  /\ Calls(me, "release")
  /\ receivers[s] = <<>>
  /\ counter' = [counter EXCEPT ![s] = @ + 1]
  /\ ret' = counter[s] + 1
  /\ outstanding' = [outstanding EXCEPT ![s] = @ - 1]
  /\ UNCHANGED <<hubVars, receivers, senders, value, call, chan, sent,
                 receipts>>
=============================================================================
