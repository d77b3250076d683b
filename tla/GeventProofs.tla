---------------------------- MODULE GeventProofs ----------------------------
(***************************************************************************)
(* Proofs about Gevent for every set of cothreads, channels and semaphores *)
(* and every bound: first the scheduler, then waiting and waking up, then  *)
(* semaphores and channels.                                                *)
(*                                                                         *)
(* The argument: whatever an API function does to its queues and timers,   *)
(* it moves the processor in one of the few ways of SchedNext, and each of *)
(* these keeps SchedInv, which says who is suspended, who is ready and     *)
(* whose stacklet handle can be used.                                      *)
(***************************************************************************)
EXTENDS GeventProperties, SharedLemmas

USE ContextsAssumption

(* The part of the scheduler's state that every switch relies on: the      *)
(* running cothread is CURRENT and main is never over, the ready queue     *)
(* holds READY cothreads, each once, the handles are fresh, and the hub    *)
(* runs only when nobody is ready.                                         *)
CurrentIsCurrent == current \in Threads => state[current] = "CURRENT"

MainIsAlive == state[Main] \notin {"NEW", "DEAD"}

ReadyAreReady == \A i \in DOMAIN ready : state[ready[i]] = "READY"

ReadyOnce == \A i, j \in DOMAIN ready : i # j => ready[i] # ready[j]

SchedInv ==
  /\ HubTypeOK
  /\ CurrentIsCurrent
  /\ MainIsAlive
  /\ ReadyAreReady
  /\ ReadyOnce
  /\ HandlesAreFresh
  /\ HubRunsWhenIdle

(* The ways the code moves the processor.                                  *)
YieldStep ==
  \E me \in Threads, s \in States \ {"NEW", "READY", "DEAD"} :
     current = me /\ Yield(me, [state EXCEPT ![me] = s])

HandoffStep ==
  \E me, t \in Threads :
     /\ current = me
     /\ state[t] \in {"NEW", "CHANNEL_R", "CHANNEL_S"}
     /\ Handoff(me, t)

CallbackStep ==
  \E t \in Threads :
     /\ current = Hub /\ hubpc # "off"
     /\ state[t] \in {"TIMER", "GETADDRINFO"}
     /\ Switch(Hub, t, state, ready)

LeaveStep == \E me \in Contexts \ {Main} : current = me /\ Leave(me)

ReinitStep ==
  \E t \in Cothreads :
     /\ state[t] = "DEAD"
     /\ state' = [state EXCEPT ![t] = "NEW"]
     /\ UNCHANGED <<current, ready, stacklet, hubpc>>

PhaseStep ==
  /\ hubpc # "off" /\ hubpc' \in {"timers", "poll"}
  /\ UNCHANGED <<state, current, ready, stacklet>>

SchedNext ==
  \/ YieldStep \/ HandoffStep \/ CallbackStep \/ LeaveStep \/ ReinitStep
  \/ PhaseStep \/ UNCHANGED hubVars

-----------------------------------------------------------------------------
(* ngx_queue_remove() leaves a queue of the same cothreads.                *)
LEMMA UnlinkType ==
  ASSUME NEW S, NEW q \in Seq(S), NEW t PROVE Unlink(q, t) \in Seq(S)
  BY RemoveFirstElements DEF Unlink

-----------------------------------------------------------------------------
(* The conditions under which a switch is sound: the running context gives *)
(* way to another one that is not over, and what becomes the ready queue   *)
(* holds READY cothreads only, each once and not the new current one.      *)
SoundSwitch(me, to, st, rdy) ==
  /\ me = current /\ me \in Contexts
  /\ to \in Contexts /\ to # me
  /\ me = Hub => hubpc # "off"
  /\ to = Hub => rdy = <<>>
  /\ st \in [Threads -> States]
  /\ \A x \in Threads : x # me => st[x] = state[x]
  /\ me \in Threads => st[me] \notin {"NEW", "DEAD"}
  /\ to \in Threads => st[to] # "DEAD"
  /\ rdy \in Seq(Threads)
  /\ \A i \in DOMAIN rdy : rdy[i] # to /\ st[rdy[i]] = "READY"
  /\ \A i, j \in DOMAIN rdy : i # j => rdy[i] # rdy[j]

LEMMA SwitchToKeeps ==
  ASSUME SchedInv, NEW me, NEW to, NEW st, NEW rdy,
         SoundSwitch(me, to, st, rdy), SwitchTo(me, to, st, rdy)
  PROVE  SchedInv'
<1> USE DEF Threads, Contexts, SoundSwitch
<1>1. /\ current' = to /\ ready' = rdy
      /\ stacklet' = [stacklet EXCEPT ![me] = me, ![to] = Null]
      /\ hubpc' = IF to = Hub /\ hubpc = "off" THEN "enter" ELSE hubpc
  BY DEF SwitchTo
<1>2. /\ state' \in [Threads -> States]
      /\ \A x \in Threads : x # to => state'[x] = st[x]
      /\ to \in Threads => state'[to] = "CURRENT"
  BY DEF SwitchTo, Entered, States
<1>3. HubTypeOK'
  BY <1>1, <1>2 DEF SchedInv, HubTypeOK, HubPhases
<1>4. CurrentIsCurrent' /\ HubRunsWhenIdle'
  BY <1>1, <1>2 DEF CurrentIsCurrent, HubRunsWhenIdle
<1>5. MainIsAlive'
  BY <1>2 DEF SchedInv, MainIsAlive
<1>6. ReadyAreReady' /\ ReadyOnce'
  BY <1>1, <1>2, ElementOfSeq DEF ReadyAreReady, ReadyOnce
<1>7. HandlesAreFresh'
  <2> SUFFICES ASSUME NEW x \in Contexts
               PROVE  stacklet'[x] =
                        IF \/ x = current'
                           \/ x = Hub /\ hubpc' = "off"
                           \/ x \in Threads /\ state'[x] \in {"NEW", "DEAD"}
                        THEN Null ELSE x
    BY DEF HandlesAreFresh
  <2>1. CASE x = me
    BY <2>1, <1>1, <1>2 DEF SchedInv, HubTypeOK
  <2>2. CASE x = to
    BY <2>2, <1>1 DEF SchedInv, HubTypeOK
  <2>3. CASE x # me /\ x # to
    BY <2>3, <1>1, <1>2 DEF SchedInv, HubTypeOK, HandlesAreFresh
  <2> QED BY <2>1, <2>2, <2>3
<1> QED BY <1>3, <1>4, <1>5, <1>6, <1>7 DEF SchedInv

(* The head of the ready queue is a suspended cothread; the others stay    *)
(* ready.                                                                  *)
LEMMA ReadyHead ==
  ASSUME SchedInv, ready # <<>>
  PROVE  /\ Head(ready) \in Threads
         /\ state[Head(ready)] = "READY"
         /\ Head(ready) # current
         /\ stacklet[Head(ready)] = Head(ready)
         /\ Tail(ready) \in Seq(Threads)
         /\ \A i \in DOMAIN Tail(ready) :
              Tail(ready)[i] # Head(ready) /\ state[Tail(ready)[i]] = "READY"
         /\ \A i, j \in DOMAIN Tail(ready) :
              i # j => Tail(ready)[i] # Tail(ready)[j]
<1>1. ready \in Seq(Threads)
  BY DEF SchedInv, HubTypeOK
<1>2. /\ Head(ready) \in Threads /\ Head(ready) = ready[1]
      /\ 1 \in DOMAIN ready
      /\ Tail(ready) \in Seq(Threads)
      /\ \A i \in DOMAIN Tail(ready) :
            i + 1 \in DOMAIN ready /\ i + 1 # 1 /\ Tail(ready)[i] = ready[i + 1]
  BY <1>1, HeadTailProperties
<1>3. state[Head(ready)] = "READY"
  BY <1>2 DEF SchedInv, ReadyAreReady
<1>4. Head(ready) # current
  BY <1>2, <1>3 DEF SchedInv, CurrentIsCurrent
<1>5. stacklet[Head(ready)] = Head(ready)
  BY <1>2, <1>3, <1>4 DEF SchedInv, HandlesAreFresh, Contexts, Threads
<1>6. \A i \in DOMAIN Tail(ready) :
         Tail(ready)[i] # Head(ready) /\ state[Tail(ready)[i]] = "READY"
  BY <1>2 DEF SchedInv, ReadyAreReady, ReadyOnce
<1>7. \A i, j \in DOMAIN Tail(ready) : i # j => Tail(ready)[i] # Tail(ready)[j]
  <2> SUFFICES ASSUME NEW i \in DOMAIN Tail(ready),
                      NEW j \in DOMAIN Tail(ready), i # j
               PROVE  Tail(ready)[i] # Tail(ready)[j]
    OBVIOUS
  <2>1. i \in Nat /\ j \in Nat /\ i + 1 # j + 1
    BY <1>2, <1>1
  <2> QED BY <2>1, <1>2 DEF SchedInv, ReadyOnce
<1> QED BY <1>2, <1>3, <1>4, <1>5, <1>6, <1>7
-----------------------------------------------------------------------------
LEMMA YieldStepKeeps == SchedInv /\ YieldStep => SchedInv'
<1> USE DEF Threads, Contexts
<1> SUFFICES ASSUME SchedInv,
                    NEW me \in Threads,
                    NEW s \in States \ {"NEW", "READY", "DEAD"},
                    current = me,
                    Yield(me, [state EXCEPT ![me] = s])
             PROVE  SchedInv'
  BY DEF YieldStep
<1> DEFINE st == [state EXCEPT ![me] = s]
<1>1. /\ st \in [Threads -> States] /\ st[me] = s
      /\ \A x \in Threads : x # me => st[x] = state[x]
      /\ me # Hub
  BY DEF SchedInv, HubTypeOK
<1> HIDE DEF st
<1>2. CASE ready # <<>>
  <2> DEFINE t == Head(ready)
  <2>1. /\ t \in Threads /\ state[t] = "READY" /\ t # me /\ stacklet[t] = t
        /\ st[t] = "READY"
    BY <1>1, <1>2, ReadyHead
  <2>2. SwitchTo(me, t, st, Tail(ready))
    BY <1>2, <2>1 DEF Yield, Switch, st
  <2>3. \A i \in DOMAIN Tail(ready) :
           Tail(ready)[i] # t /\ st[Tail(ready)[i]] = "READY"
    <3> SUFFICES ASSUME NEW i \in DOMAIN Tail(ready)
                 PROVE  Tail(ready)[i] # t /\ st[Tail(ready)[i]] = "READY"
      OBVIOUS
    <3>1. /\ Tail(ready)[i] # t /\ state[Tail(ready)[i]] = "READY"
          /\ Tail(ready)[i] \in Threads
      BY <1>2, ReadyHead, ElementOfSeq
    <3>2. Tail(ready)[i] # me
      BY <3>1 DEF SchedInv, CurrentIsCurrent
    <3> QED BY <3>1, <3>2, <1>1
  <2>4. /\ Tail(ready) \in Seq(Threads)
        /\ \A i, j \in DOMAIN Tail(ready) : i # j => Tail(ready)[i] # Tail(ready)[j]
    BY <1>2, ReadyHead
  <2>5. /\ me \in Contexts /\ t \in Contexts /\ t # Hub
        /\ st[me] \notin {"NEW", "DEAD"} /\ st[t] # "DEAD"
    BY <1>1, <2>1
  <2>6. SoundSwitch(me, t, st, Tail(ready))
    BY <1>1, <2>1, <2>3, <2>4, <2>5 DEF SoundSwitch
  <2> QED BY <2>2, <2>6, SwitchToKeeps
<1>3. CASE ready = <<>>
  <2>1. SwitchTo(me, Hub, st, <<>>)
    BY <1>3 DEF Yield, SwitchToHub, SchedInv, HandlesAreFresh, st
  <2>2. <<>> \in Seq(Threads) /\ DOMAIN <<>> = {}
    OBVIOUS
  <2>3. SoundSwitch(me, Hub, st, <<>>)
    BY <1>1, <2>2 DEF SoundSwitch
  <2> QED BY <2>1, <2>3, SwitchToKeeps
<1> QED BY <1>2, <1>3

LEMMA HandoffStepKeeps == SchedInv /\ HandoffStep => SchedInv'
<1> USE DEF Threads, Contexts
<1> SUFFICES ASSUME SchedInv, NEW me \in Threads, NEW t \in Threads,
                    current = me,
                    state[t] \in {"NEW", "CHANNEL_R", "CHANNEL_S"},
                    Handoff(me, t)
             PROVE  SchedInv'
  BY DEF HandoffStep
<1> DEFINE st  == [state EXCEPT ![me] = "READY"]
           rdy == Append(ready, me)
<1>1. /\ t # me /\ me # Hub /\ state[me] = "CURRENT"
      /\ st \in [Threads -> States] /\ st[me] = "READY"
      /\ \A x \in Threads : x # me => st[x] = state[x]
  BY DEF SchedInv, HubTypeOK, CurrentIsCurrent, States
<1>2. state[t] # "NEW" => stacklet[t] = t
  BY <1>1 DEF SchedInv, HandlesAreFresh
<1>3. SwitchTo(me, t, st, rdy)
  BY <1>1, <1>2 DEF Handoff, Activate, Enqueue, Switch
<1>4. ready \in Seq(Threads)
  BY DEF SchedInv, HubTypeOK
<1>5. /\ rdy \in Seq(Threads)
      /\ DOMAIN rdy = 1..(Len(ready) + 1)
      /\ \A i \in DOMAIN rdy :
            rdy[i] = IF i = Len(ready) + 1 THEN me ELSE ready[i]
      /\ \A i \in DOMAIN rdy : i # Len(ready) + 1 => i \in DOMAIN ready
  BY <1>4
<1> HIDE DEF st, rdy
<1>6. \A i \in DOMAIN ready :
         ready[i] \in Threads /\ state[ready[i]] = "READY" /\ ready[i] # me
  BY <1>1, <1>4, ElementOfSeq DEF SchedInv, ReadyAreReady
<1>7. \A i \in DOMAIN rdy : rdy[i] # t /\ st[rdy[i]] = "READY"
  BY <1>1, <1>5, <1>6
<1>8. \A i, j \in DOMAIN rdy : i # j => rdy[i] # rdy[j]
  BY <1>5, <1>6 DEF SchedInv, ReadyOnce
<1>9. /\ me \in Contexts /\ t \in Contexts /\ t # Hub
      /\ st[me] \notin {"NEW", "DEAD"} /\ st[t] # "DEAD"
  BY <1>1
<1>10. SoundSwitch(me, t, st, rdy)
  BY <1>1, <1>5, <1>7, <1>8, <1>9 DEF SoundSwitch
<1> QED BY <1>3, <1>10, SwitchToKeeps

LEMMA CallbackStepKeeps == SchedInv /\ CallbackStep => SchedInv'
<1> USE DEF Threads, Contexts
<1> SUFFICES ASSUME SchedInv, NEW t \in Threads,
                    current = Hub, hubpc # "off",
                    state[t] \in {"TIMER", "GETADDRINFO"},
                    Switch(Hub, t, state, ready)
             PROVE  SchedInv'
  BY DEF CallbackStep
<1>1. ready = <<>> /\ state \in [Threads -> States]
  BY DEF SchedInv, HubRunsWhenIdle, HubTypeOK
<1>2. t # Hub /\ Hub \notin Threads /\ stacklet[t] = t
  BY DEF SchedInv, HandlesAreFresh
<1>3. SwitchTo(Hub, t, state, <<>>)
  BY <1>1, <1>2 DEF Switch
<1>4. <<>> \in Seq(Threads) /\ DOMAIN <<>> = {}
  OBVIOUS
<1>5. SoundSwitch(Hub, t, state, <<>>)
  BY <1>1, <1>2, <1>4 DEF SoundSwitch
<1> QED BY <1>3, <1>5, SwitchToKeeps
(* Whoever a context that ends hands over to is suspended.                 *)
LEMMA NextIsSuspended ==
  ASSUME SchedInv, current \in Contexts \ {Main}
  PROVE  /\ NextContext \in Contexts \ {current}
         /\ stacklet[NextContext] = NextContext
         /\ NextContext \in Threads => state[NextContext] \notin {"NEW", "DEAD"}
         /\ NextContext = Hub => ready = <<>>
         /\ ready # <<>> => NextContext = Head(ready)
<1> USE DEF Threads, Contexts
<1>1. CASE ready # <<>>
  BY <1>1, ReadyHead DEF NextContext
<1>2. CASE ready = <<>> /\ stacklet[Hub] # Null
  BY <1>2 DEF NextContext, SchedInv, HandlesAreFresh
<1>3. CASE ready = <<>> /\ stacklet[Hub] = Null
  BY <1>3 DEF NextContext, SchedInv, HandlesAreFresh, MainIsAlive
<1> QED BY <1>1, <1>2, <1>3

LEMMA LeaveStepKeeps == SchedInv /\ LeaveStep => SchedInv'
<1> USE DEF Threads, Contexts
<1> SUFFICES ASSUME SchedInv, NEW me \in Contexts \ {Main},
                    current = me, Leave(me)
             PROVE  SchedInv'
  BY DEF LeaveStep
<1> DEFINE to == NextContext
           st == IF me = Hub THEN state ELSE [state EXCEPT ![me] = "DEAD"]
           rdy == IF ready # <<>> THEN Tail(ready) ELSE ready
<1>1. /\ to \in Contexts /\ to # me /\ stacklet[to] = to
      /\ to \in Threads => state[to] \notin {"NEW", "DEAD"}
      /\ to = Hub => ready = <<>>
  BY NextIsSuspended
<1>2. /\ current' = to /\ ready' = rdy
      /\ stacklet' = [stacklet EXCEPT ![me] = Null, ![to] = Null]
      /\ hubpc' = IF me = Hub THEN "off" ELSE hubpc
      /\ state' = Entered(st, to)
  BY <1>1 DEF Leave
<1>3. /\ me # Hub => me \in Threads
      /\ st \in [Threads -> States]
      /\ \A x \in Threads : x # me => st[x] = state[x]
      /\ me \in Threads => st[me] = "DEAD"
  BY DEF SchedInv, HubTypeOK, States
<1> HIDE DEF st, to
<1>4. /\ state' \in [Threads -> States]
      /\ \A x \in Threads : x # to => state'[x] = st[x]
      /\ to \in Threads => state'[to] = "CURRENT"
  BY <1>2, <1>3 DEF Entered, States
<1>5. /\ rdy \in Seq(Threads)
      /\ \A i \in DOMAIN rdy :
            /\ rdy[i] \in Threads /\ rdy[i] # to /\ rdy[i] # me
            /\ state[rdy[i]] = "READY"
      /\ \A i, j \in DOMAIN rdy : i # j => rdy[i] # rdy[j]
  <2>1. CASE ready = <<>>
    BY <2>1
  <2>2. CASE ready # <<>>
    <3>1. to = Head(ready)
      BY <2>2, NextIsSuspended DEF to
    <3>2. /\ Tail(ready) \in Seq(Threads)
          /\ \A i \in DOMAIN Tail(ready) : Tail(ready)[i] \in Threads
      BY <2>2, ReadyHead, ElementOfSeq
    <3>3. \A i \in DOMAIN Tail(ready) : Tail(ready)[i] # me
      BY <2>2, <3>2, ReadyHead DEF SchedInv, CurrentIsCurrent
    <3> QED BY <2>2, <3>1, <3>2, <3>3, ReadyHead
  <2> QED BY <2>1, <2>2
<1>6. HubTypeOK'
  <2>1. /\ current \in Contexts /\ hubpc \in HubPhases
        /\ stacklet \in [Contexts -> Contexts \cup {Null}]
    BY DEF SchedInv, HubTypeOK
  <2>2. stacklet' \in [Contexts -> Contexts \cup {Null}] /\ hubpc' \in HubPhases
    BY <2>1, <1>2 DEF HubPhases
  <2> QED BY <2>2, <1>1, <1>2, <1>4, <1>5 DEF HubTypeOK
<1>7. CurrentIsCurrent' /\ HubRunsWhenIdle'
  BY <1>1, <1>2, <1>4 DEF CurrentIsCurrent, HubRunsWhenIdle
<1>8. MainIsAlive'
  BY <1>3, <1>4 DEF SchedInv, MainIsAlive
<1>9. ReadyAreReady' /\ ReadyOnce'
  <2> HIDE DEF rdy
  <2> QED BY <1>2, <1>3, <1>4, <1>5 DEF ReadyAreReady, ReadyOnce
<1>10. HandlesAreFresh'
  <2> SUFFICES ASSUME NEW x \in Contexts
               PROVE  stacklet'[x] =
                        IF \/ x = current'
                           \/ x = Hub /\ hubpc' = "off"
                           \/ x \in Threads /\ state'[x] \in {"NEW", "DEAD"}
                        THEN Null ELSE x
    BY DEF HandlesAreFresh
  <2>1. stacklet \in [Contexts -> Contexts \cup {Null}]
    BY DEF SchedInv, HubTypeOK
  <2>2. CASE x = me
    BY <2>1, <2>2, <1>1, <1>2, <1>3, <1>4
  <2>3. CASE x = to
    BY <2>1, <2>3, <1>1, <1>2
  <2>4. CASE x # me /\ x # to
    BY <2>1, <2>4, <1>2, <1>3, <1>4 DEF SchedInv, HandlesAreFresh
  <2> QED BY <2>2, <2>3, <2>4
<1> QED BY <1>6, <1>7, <1>8, <1>9, <1>10 DEF SchedInv

LEMMA ReinitStepKeeps == SchedInv /\ ReinitStep => SchedInv'
<1> USE DEF Threads, Contexts
<1> SUFFICES ASSUME SchedInv, NEW t \in Cothreads,
                    state[t] = "DEAD",
                    state' = [state EXCEPT ![t] = "NEW"],
                    UNCHANGED <<current, ready, stacklet, hubpc>>
             PROVE  SchedInv'
  BY DEF ReinitStep
<1>1. HubTypeOK'
  BY DEF SchedInv, HubTypeOK, States
<1>2. CurrentIsCurrent' /\ MainIsAlive' /\ ReadyOnce' /\ HubRunsWhenIdle'
  BY DEF SchedInv, HubTypeOK, CurrentIsCurrent, MainIsAlive, ReadyOnce,
         HubRunsWhenIdle
<1>3. ReadyAreReady'
  <2>1. ready \in Seq(Threads) /\ state \in [Threads -> States]
    BY DEF SchedInv, HubTypeOK
  <2> QED BY <2>1, ElementOfSeq DEF SchedInv, ReadyAreReady
<1>4. HandlesAreFresh'
  BY DEF SchedInv, HubTypeOK, HandlesAreFresh
<1> QED BY <1>1, <1>2, <1>3, <1>4 DEF SchedInv

(* Every step of the scheduler keeps its invariant.                        *)
LEMMA SchedNextKeeps == SchedInv /\ SchedNext => SchedInv'
<1> SUFFICES ASSUME SchedInv, SchedNext PROVE SchedInv'
  OBVIOUS
<1>1. CASE PhaseStep
  BY <1>1 DEF PhaseStep, SchedInv, HubTypeOK, HubPhases, CurrentIsCurrent,
     MainIsAlive, ReadyAreReady, ReadyOnce, HandlesAreFresh, HubRunsWhenIdle
<1>2. CASE UNCHANGED hubVars
  BY <1>2 DEF hubVars, SchedInv, HubTypeOK, CurrentIsCurrent,
     MainIsAlive, ReadyAreReady, ReadyOnce, HandlesAreFresh, HubRunsWhenIdle
<1> QED BY <1>1, <1>2, YieldStepKeeps, HandoffStepKeeps, CallbackStepKeeps,
           LeaveStepKeeps, ReinitStepKeeps DEF SchedNext
-----------------------------------------------------------------------------
(* What every action of the model does to the scheduler, and that it keeps *)
(* the types of the other variables.                                       *)
Keeps == SchedNext /\ ChannelTypeOK' /\ LoopTypeOK'

(* The types, as far as the actions rely on them.                          *)
LEMMA CallsTypes ==
  ASSUME TypeOK, NEW me \in Threads, NEW op, Calls(me, op)
  PROVE  /\ current = me /\ call[me] = "none"
         /\ calls' \in 0..MaxCalls
         /\ op # "yield" => calls + 1 \in 1..MaxCalls
  BY CallsAssumption DEF TypeOK, ChannelTypeOK, Calls

LEMMA YieldIsSched ==
  ASSUME NEW me \in Threads, current = me,
         NEW s \in States \ {"NEW", "READY", "DEAD"},
         Yield(me, [state EXCEPT ![me] = s])
  PROVE  SchedNext
  BY DEF SchedNext, YieldStep

LEMMA HandoffIsSched ==
  ASSUME NEW me \in Threads, current = me, NEW t \in Threads,
         state[t] \in {"NEW", "CHANNEL_R", "CHANNEL_S"}, Handoff(me, t)
  PROVE  SchedNext
  BY DEF SchedNext, HandoffStep

LEMMA BlockIsSched ==
  ASSUME NEW me \in Threads, current = me, NEW q \in Queues,
         NEW op \in Pending, NEW s \in {"CHANNEL_R", "CHANNEL_S"},
         TypeOK, Block(me, q, op, s)
  PROVE  /\ SchedNext
         /\ call' \in [Threads -> Pending]
         /\ chan' \in [Threads -> Queues \cup {Null}]
<1>1. s \in States \ {"NEW", "READY", "DEAD"}
  BY DEF States
<1>2. Yield(me, [state EXCEPT ![me] = s])
  BY DEF Block
<1>3. /\ call' \in [Threads -> Pending]
      /\ chan' \in [Threads -> Queues \cup {Null}]
  BY DEF Block, TypeOK, ChannelTypeOK
<1> QED BY <1>1, <1>2, <1>3, YieldIsSched

LEMMA ReturnsTypes ==
  ASSUME NEW me \in Threads, TypeOK, Returns(me)
  PROVE  /\ call' \in [Threads -> Pending]
         /\ chan' \in [Threads -> Queues \cup {Null}]
         /\ calls' \in 0..MaxCalls
  BY DEF Returns, TypeOK, ChannelTypeOK, Pending

LEMMA EnqueueType ==
  ASSUME NEW f \in [Queues -> Seq(Threads)], NEW q \in Queues,
         NEW me \in Threads
  PROVE  /\ [f EXCEPT ![q] = Enqueue(@, me)] \in [Queues -> Seq(Threads)]
         /\ [f EXCEPT ![q] = Unlink(@, me)] \in [Queues -> Seq(Threads)]
<1>1. Enqueue(f[q], me) \in Seq(Threads) /\ Unlink(f[q], me) \in Seq(Threads)
  BY UnlinkType DEF Enqueue
<1> QED BY <1>1

LEMMA FirstOfQueue ==
  ASSUME NEW f \in [Queues -> Seq(Threads)], NEW q \in Queues, f[q] # <<>>
  PROVE  Head(f[q]) \in Threads
  BY HeadTailProperties

LEMMA ReceiveBlocksKeeps ==
  ASSUME TypeOK, NEW me \in Threads, NEW c \in Channels,
         ReceiveBlocks(me, c), UNCHANGED <<timerVars, reqVars>>
  PROVE  Keeps
<1>1. c \in Queues /\ "receive" \in Pending
  BY DEF Queues, Pending
<1>2. /\ current = me /\ calls' \in 0..MaxCalls
      /\ Block(me, c, "receive", "CHANNEL_R")
      /\ receivers' = [receivers EXCEPT ![c] = Enqueue(@, me)]
      /\ UNCHANGED <<senders, value, counter, ret, histVars>>
  BY CallsTypes DEF ReceiveBlocks, BlockReceive
<1>3. receivers' \in [Queues -> Seq(Threads)]
  BY <1>1, <1>2, EnqueueType DEF TypeOK, ChannelTypeOK
<1>4. LoopTypeOK'
  BY DEF TypeOK, LoopTypeOK, timerVars, reqVars
<1> QED BY <1>1, <1>2, <1>3, <1>4, BlockIsSched
        DEF Keeps, TypeOK, ChannelTypeOK, histVars

LEMMA ReceiveFromSenderKeeps ==
  ASSUME TypeOK, NEW me \in Threads, NEW c \in Channels,
         ReceiveFromSender(me, c), UNCHANGED <<timerVars, reqVars>>
  PROVE  Keeps
<1> DEFINE s == Head(senders[c])
<1>1. c \in Queues
  BY DEF Queues
<1>2. s \in Threads
  BY <1>1, FirstOfQueue DEF ReceiveFromSender, TypeOK, ChannelTypeOK
<1>3. /\ current = me /\ calls' \in 0..MaxCalls
      /\ state[s] = "CHANNEL_S" /\ Handoff(me, s)
      /\ receipts' = Append(receipts, <<value[s], c, me>>)
      /\ UNCHANGED <<receivers, senders, value, counter, call, chan, ret,
                     sent, outstanding>>
  BY CallsTypes DEF ReceiveFromSender
<1>4. receipts' \in Seq((0..MaxCalls) \X Channels \X Threads)
  BY <1>2, <1>3 DEF TypeOK, ChannelTypeOK
<1>5. LoopTypeOK'
  BY DEF TypeOK, LoopTypeOK, timerVars, reqVars
<1>6. SchedNext
  BY <1>2, <1>3, HandoffIsSched
<1> QED BY <1>3, <1>4, <1>5, <1>6 DEF Keeps, TypeOK, ChannelTypeOK

LEMMA ReceiveReturnsKeeps ==
  ASSUME TypeOK, NEW me \in Threads, NEW c \in Channels,
         ReceiveReturns(me, c), UNCHANGED <<timerVars, reqVars>>
  PROVE  Keeps
<1>1. c \in Queues
  BY DEF Queues
<1>2. receivers' \in [Queues -> Seq(Threads)]
  BY <1>1, EnqueueType DEF ReceiveReturns, TypeOK, ChannelTypeOK
<1>3. receipts' \in Seq((0..MaxCalls) \X Channels \X Threads)
  BY DEF ReceiveReturns, TypeOK, ChannelTypeOK
<1>4. LoopTypeOK'
  BY DEF TypeOK, LoopTypeOK, timerVars, reqVars
<1>5. SchedNext /\ Returns(me)
  BY DEF ReceiveReturns, SchedNext
<1> QED BY <1>2, <1>3, <1>4, <1>5, ReturnsTypes
        DEF Keeps, TypeOK, ChannelTypeOK, ReceiveReturns
LEMMA SendToReceiverKeeps ==
  ASSUME TypeOK, NEW me \in Threads, NEW c \in Channels,
         SendToReceiver(me, c), UNCHANGED <<timerVars, reqVars>>
  PROVE  Keeps
<1> DEFINE r == Head(receivers[c])
<1>1. c \in Queues
  BY DEF Queues
<1>2. r \in Threads
  BY <1>1, FirstOfQueue DEF SendToReceiver, HandoffSend, TypeOK, ChannelTypeOK
<1>3. /\ current = me /\ calls' \in 0..MaxCalls /\ calls + 1 \in 1..MaxCalls
  BY CallsTypes DEF SendToReceiver
<1>4. SchedNext
  BY <1>2, <1>3, HandoffIsSched DEF SendToReceiver, HandoffSend
<1>5. value' \in [Threads -> 0..MaxCalls]
  BY <1>2, <1>3 DEF SendToReceiver, HandoffSend, TypeOK, ChannelTypeOK
<1>6. sent' \subseteq (1..MaxCalls) \X Channels \X Threads
  BY <1>3 DEF SendToReceiver, TypeOK, ChannelTypeOK
<1>7. LoopTypeOK'
  BY DEF TypeOK, LoopTypeOK, timerVars, reqVars
<1> QED BY <1>3, <1>4, <1>5, <1>6, <1>7
        DEF Keeps, TypeOK, ChannelTypeOK, SendToReceiver, HandoffSend

LEMMA SendBlocksKeeps ==
  ASSUME TypeOK, NEW me \in Threads, NEW c \in Channels,
         SendBlocks(me, c), UNCHANGED <<timerVars, reqVars>>
  PROVE  Keeps
<1>1. c \in Queues /\ "send" \in Pending
  BY DEF Queues, Pending
<1>2. /\ current = me /\ calls' \in 0..MaxCalls /\ calls + 1 \in 1..MaxCalls
      /\ Block(me, c, "send", "CHANNEL_S")
  BY CallsTypes DEF SendBlocks
<1>3. senders' \in [Queues -> Seq(Threads)]
  BY <1>1, EnqueueType DEF SendBlocks, TypeOK, ChannelTypeOK
<1>4. value' \in [Threads -> 0..MaxCalls]
  BY <1>2 DEF SendBlocks, TypeOK, ChannelTypeOK
<1>5. sent' \subseteq (1..MaxCalls) \X Channels \X Threads
  BY <1>2 DEF SendBlocks, TypeOK, ChannelTypeOK
<1>6. LoopTypeOK'
  BY DEF TypeOK, LoopTypeOK, timerVars, reqVars
<1> QED BY <1>1, <1>2, <1>3, <1>4, <1>5, <1>6, BlockIsSched
        DEF Keeps, TypeOK, ChannelTypeOK, SendBlocks

LEMMA SendReturnsKeeps ==
  ASSUME TypeOK, NEW me \in Threads, NEW c \in Channels,
         SendReturns(me, c), UNCHANGED <<timerVars, reqVars>>
  PROVE  Keeps
<1>1. senders' \in [Queues -> Seq(Threads)]
  BY EnqueueType DEF SendReturns, TypeOK, ChannelTypeOK, Queues
<1>2. LoopTypeOK'
  BY DEF TypeOK, LoopTypeOK, timerVars, reqVars
<1>3. SchedNext /\ Returns(me)
  BY DEF SendReturns, SchedNext
<1> QED BY <1>1, <1>2, <1>3, ReturnsTypes
        DEF Keeps, TypeOK, ChannelTypeOK, SendReturns, histVars

LEMMA ChannelStepKeeps ==
  ASSUME TypeOK, NEW me \in Threads, NEW c \in Channels,
         ChannelStep(me, c), UNCHANGED <<timerVars, reqVars>>
  PROVE  Keeps
  BY ReceiveBlocksKeeps, ReceiveFromSenderKeeps, ReceiveReturnsKeeps,
     SendToReceiverKeeps, SendBlocksKeeps, SendReturnsKeeps DEF ChannelStep

LEMMA SemaphoreStepKeeps ==
  ASSUME TypeOK, NEW me \in Threads, NEW s \in Semaphores,
         SemaphoreStep(me, s), UNCHANGED <<timerVars, reqVars>>
  PROVE  Keeps
<1>1. s \in Queues /\ {"acquire", "release"} \subseteq Pending
  BY DEF Queues, Pending
<1>2. LoopTypeOK'
  BY DEF TypeOK, LoopTypeOK, timerVars, reqVars
<1>3. CASE AcquireAtOnce(me, s)
  <2>1. calls' \in 0..MaxCalls
    BY <1>3, CallsTypes DEF AcquireAtOnce
  <2>2. counter' \in [Semaphores -> Nat] /\ ret' \in Int
        /\ outstanding' \in [Semaphores -> Int]
    BY <1>3 DEF AcquireAtOnce, TypeOK, ChannelTypeOK
  <2>3. SchedNext
    BY <1>3 DEF AcquireAtOnce, SchedNext
  <2> QED BY <1>2, <1>3, <2>1, <2>2, <2>3
          DEF Keeps, TypeOK, ChannelTypeOK, AcquireAtOnce
<1>4. CASE AcquireBlocks(me, s)
  <2>1. /\ current = me /\ calls' \in 0..MaxCalls
        /\ Block(me, s, "acquire", "CHANNEL_R")
        /\ receivers' = [receivers EXCEPT ![s] = Enqueue(@, me)]
        /\ UNCHANGED <<senders, value, counter, ret, histVars>>
    BY <1>4, CallsTypes DEF AcquireBlocks, BlockReceive
  <2>2. receivers' \in [Queues -> Seq(Threads)]
    BY <1>1, <2>1, EnqueueType DEF TypeOK, ChannelTypeOK
  <2> QED BY <1>1, <1>2, <2>1, <2>2, BlockIsSched
          DEF Keeps, TypeOK, ChannelTypeOK, histVars
<1>5. CASE AcquireReturns(me, s)
  <2>1. receivers' \in [Queues -> Seq(Threads)]
    BY <1>1, <1>5, EnqueueType DEF AcquireReturns, TypeOK, ChannelTypeOK
  <2>2. ret' \in Int /\ outstanding' \in [Semaphores -> Int]
    BY <1>5 DEF AcquireReturns, TypeOK, ChannelTypeOK
  <2>3. SchedNext /\ Returns(me)
    BY <1>5 DEF AcquireReturns, SchedNext
  <2> QED BY <1>2, <1>5, <2>1, <2>2, <2>3, ReturnsTypes
          DEF Keeps, TypeOK, ChannelTypeOK, AcquireReturns
<1>6. CASE ReleaseToWaiter(me, s)
  <2>1. Head(receivers[s]) \in Threads
    BY <1>1, <1>6, FirstOfQueue
       DEF ReleaseToWaiter, HandoffSend, TypeOK, ChannelTypeOK
  <2>2. current = me /\ calls' \in 0..MaxCalls
    BY <1>6, CallsTypes DEF ReleaseToWaiter
  <2>3. SchedNext
    BY <1>6, <2>1, <2>2, HandoffIsSched DEF ReleaseToWaiter, HandoffSend
  <2>4. /\ value' \in [Threads -> 0..MaxCalls]
        /\ call' \in [Threads -> Pending]
        /\ chan' \in [Threads -> Queues \cup {Null}]
        /\ outstanding' \in [Semaphores -> Int]
    BY <1>1, <1>6, <2>1, CallsAssumption
       DEF ReleaseToWaiter, HandoffSend, TypeOK, ChannelTypeOK
  <2> QED BY <1>2, <1>6, <2>2, <2>3, <2>4
          DEF Keeps, TypeOK, ChannelTypeOK, ReleaseToWaiter, HandoffSend
<1>7. CASE ReleaseReturns(me, s)
  <2>1. SchedNext /\ Returns(me) /\ ret' \in Int
    BY <1>7 DEF ReleaseReturns, SchedNext, TypeOK, ChannelTypeOK
  <2> QED BY <1>2, <1>7, <2>1, ReturnsTypes
          DEF Keeps, TypeOK, ChannelTypeOK, ReleaseReturns, histVars
<1>8. CASE ReleaseIncrements(me, s)
  <2>1. calls' \in 0..MaxCalls
    BY <1>8, CallsTypes DEF ReleaseIncrements
  <2>2. counter' \in [Semaphores -> Nat] /\ ret' \in Int
        /\ outstanding' \in [Semaphores -> Int]
    BY <1>8 DEF ReleaseIncrements, TypeOK, ChannelTypeOK
  <2>3. SchedNext
    BY <1>8 DEF ReleaseIncrements, SchedNext
  <2> QED BY <1>2, <1>8, <2>1, <2>2, <2>3
          DEF Keeps, TypeOK, ChannelTypeOK, ReleaseIncrements
<1> QED BY <1>3, <1>4, <1>5, <1>6, <1>7, <1>8 DEF SemaphoreStep

-----------------------------------------------------------------------------
LEMMA SpawnKeeps ==
  ASSUME TypeOK, NEW me \in Threads, NEW t \in Cothreads, Spawn(me, t)
  PROVE  Keeps
<1>1. current = me /\ calls' \in 0..MaxCalls
  BY CallsTypes DEF Spawn
<1>2. SchedNext
  BY <1>1, HandoffIsSched DEF Spawn, Threads
<1> QED BY <1>1, <1>2
        DEF Spawn, Keeps, TypeOK, ChannelTypeOK, LoopTypeOK, chanVars,
            histVars, timerVars, reqVars

LEMMA CothreadInitKeeps ==
  ASSUME TypeOK, NEW me \in Threads, NEW t \in Cothreads, CothreadInit(me, t)
  PROVE  Keeps
<1>1. calls' \in 0..MaxCalls
  BY CallsTypes DEF CothreadInit
<1>2. SchedNext
  BY DEF CothreadInit, SchedNext, ReinitStep
<1>3. 0 \in 0..MaxCalls /\ value' = [value EXCEPT ![t] = 0]
  BY CallsAssumption DEF CothreadInit
<1>4. value' \in [Threads -> 0..MaxCalls]
  BY <1>3 DEF TypeOK, ChannelTypeOK
<1> QED BY <1>1, <1>2, <1>4
        DEF CothreadInit, Keeps, TypeOK, ChannelTypeOK, LoopTypeOK,
            histVars, timerVars, reqVars

LEMMA LeaveKeepsTypes ==
  ASSUME TypeOK, NEW me \in Contexts \ {Main}, current = me, Leave(me),
         UNCHANGED <<chanVars, histVars, call, ret, calls, timerVars, reqVars>>
  PROVE  Keeps
<1>1. SchedNext
  BY DEF SchedNext, LeaveStep
<1> QED BY <1>1 DEF Keeps, TypeOK, ChannelTypeOK, LoopTypeOK, chanVars,
                    histVars, timerVars, reqVars

LEMMA SleepKeeps ==
  ASSUME TypeOK, NEW me \in Threads, NEW op, op # "yield", Calls(me, op),
         NEW zero \in BOOLEAN, NEW ref \in BOOLEAN,
         SleepInternal(me, zero, ref)
  PROVE  Keeps
<1>1. current = me /\ calls' \in 0..MaxCalls
  BY CallsTypes
<1>2. SchedNext
  BY <1>1, YieldIsSched DEF SleepInternal, States
<1>3. value' \in [Threads -> 0..MaxCalls] /\ call' \in [Threads -> Pending]
  BY CallsAssumption
     DEF SleepInternal, StartTimer, TypeOK, ChannelTypeOK, Pending
<1>4. /\ timers' \subseteq Threads /\ due' \subseteq timers'
      /\ refd' \subseteq Threads
  BY DEF SleepInternal, StartTimer, TypeOK, LoopTypeOK
<1> QED BY <1>1, <1>2, <1>3, <1>4
        DEF SleepInternal, StartTimer, Keeps, TypeOK, ChannelTypeOK,
            LoopTypeOK, histVars, reqVars

LEMMA ReturnsKeeps ==
  ASSUME TypeOK, NEW me \in Threads, Returns(me), ret' \in Int,
         UNCHANGED <<hubVars, receivers, senders, value, counter, histVars,
                     refd, reqVars>>,
         timers' \subseteq Threads, due' \subseteq timers'
  PROVE  Keeps
  BY ReturnsTypes DEF Keeps, SchedNext, TypeOK, ChannelTypeOK, LoopTypeOK,
     histVars, reqVars

LEMMA WaitForLoopKeeps ==
  ASSUME TypeOK, SchedInv, NEW me \in Threads, WaitForLoop(me)
  PROVE  Keeps
<1>1. current = me /\ calls' \in 0..MaxCalls
  BY CallsTypes DEF WaitForLoop
<1>2. state = [state EXCEPT ![me] = "CURRENT"]
  BY <1>1 DEF SchedInv, HubTypeOK, CurrentIsCurrent
<1>3. Yield(me, [state EXCEPT ![me] = "CURRENT"])
  BY <1>2 DEF WaitForLoop
<1>4. SchedNext
  BY <1>1, <1>3, YieldIsSched DEF States
<1>5. call' \in [Threads -> Pending]
  BY DEF WaitForLoop, TypeOK, ChannelTypeOK, Pending
<1> QED BY <1>1, <1>4, <1>5
        DEF WaitForLoop, Keeps, TypeOK, ChannelTypeOK, LoopTypeOK, chanVars,
            histVars, timerVars, reqVars

LEMMA GetaddrinfoKeeps ==
  ASSUME TypeOK, NEW me \in Threads, Getaddrinfo(me)
  PROVE  Keeps
<1>1. /\ current = me /\ calls' \in 0..MaxCalls
      /\ calls + 1 \in 1..MaxCalls
  BY CallsTypes DEF Getaddrinfo
<1>2. SchedNext
  BY <1>1, YieldIsSched DEF Getaddrinfo, States
<1>3. call' \in [Threads -> Pending]
  BY DEF Getaddrinfo, TypeOK, ChannelTypeOK, Pending
<1>4. /\ queued' \subseteq Requests
      /\ request' \in [Threads -> 0..MaxCalls]
      /\ answer' \in [Threads -> 0..MaxCalls]
  BY <1>1, CallsAssumption DEF Getaddrinfo, TypeOK, LoopTypeOK, Requests
<1> QED BY <1>1, <1>2, <1>3, <1>4
        DEF Getaddrinfo, Keeps, TypeOK, ChannelTypeOK, LoopTypeOK, chanVars,
            histVars, timerVars

LEMMA LoopStepKeeps ==
  ASSUME TypeOK, SchedInv, NEW me \in Threads, LoopStep(me)
  PROVE  Keeps
<1>1. CASE Sleep(me)
  BY <1>1, SleepKeeps DEF Sleep
<1>2. CASE WaitTimeout(me)
  BY <1>2, SleepKeeps DEF WaitTimeout
<1>3. CASE SleepReturns(me)
  BY <1>3, ReturnsKeeps DEF SleepReturns, TypeOK, LoopTypeOK
<1>4. CASE WaitReturns(me)
  BY <1>4, ReturnsKeeps DEF WaitReturns, TypeOK, LoopTypeOK, timerVars
<1>5. CASE GetaddrinfoReturns(me)
  <2>1. ret' \in Int
    BY <1>5 DEF GetaddrinfoReturns, EaiError
  <2>2. timers' \subseteq Threads /\ due' \subseteq timers'
    BY <1>5 DEF GetaddrinfoReturns, TypeOK, LoopTypeOK, timerVars
  <2> QED BY <1>5, <2>1, <2>2, ReturnsKeeps
          DEF GetaddrinfoReturns, timerVars
<1>6. CASE GetaddrinfoFails(me)
  <2>1. calls' \in 0..MaxCalls
    BY <1>6, CallsTypes DEF GetaddrinfoFails
  <2>2. SchedNext /\ ret' \in Int
    BY <1>6 DEF GetaddrinfoFails, SchedNext
  <2> QED BY <1>6, <2>1, <2>2
          DEF GetaddrinfoFails, Keeps, TypeOK, ChannelTypeOK,
              LoopTypeOK, chanVars, histVars, timerVars, reqVars
<1> QED BY <1>1, <1>2, <1>3, <1>4, <1>5, <1>6, WaitForLoopKeeps,
           GetaddrinfoKeeps DEF LoopStep

LEMMA CothreadStepKeeps ==
  ASSUME TypeOK, SchedInv, NEW me \in Threads, CothreadStep(me)
  PROVE  Keeps
<1>1. CASE me # Main /\ Finish(me)
  BY <1>1, LeaveKeepsTypes DEF Finish, Contexts
<1>2. CASE \E c \in Channels :
              ChannelStep(me, c) /\ UNCHANGED <<timerVars, reqVars>>
  BY <1>2, ChannelStepKeeps
<1>3. CASE \E s \in Semaphores :
              SemaphoreStep(me, s) /\ UNCHANGED <<timerVars, reqVars>>
  BY <1>3, SemaphoreStepKeeps
<1> QED BY <1>1, <1>2, <1>3, SpawnKeeps, CothreadInitKeeps, LoopStepKeeps
        DEF CothreadStep
-----------------------------------------------------------------------------
(* The event loop's side.                                                  *)
LEMMA StartIterationKeeps ==
  ASSUME TypeOK, NEW phase \in HubPhases \ {"off"}, StartIteration(phase)
  PROVE  Keeps
<1>1. SchedNext
  BY DEF StartIteration, SchedNext, PhaseStep
<1>2. due' \subseteq timers'
  BY DEF StartIteration, TypeOK, LoopTypeOK
<1> QED BY <1>1, <1>2
        DEF StartIteration, Keeps, TypeOK, ChannelTypeOK, LoopTypeOK, chanVars,
            histVars, reqVars

LEMMA PollKeeps ==
  ASSUME TypeOK, Poll PROVE Keeps
<1>1. SchedNext
  BY DEF Poll, SchedNext, PhaseStep
<1>2. batch' \in Seq(Requests) /\ done' \in Seq(Requests)
  BY DEF Poll, TypeOK, LoopTypeOK
<1> QED BY <1>1, <1>2
        DEF Poll, Keeps, TypeOK, ChannelTypeOK, LoopTypeOK, chanVars,
            histVars, timerVars

LEMMA TimerFiresKeeps ==
  ASSUME TypeOK, NEW t \in Threads, TimerFires(t) PROVE Keeps
<1>1. SchedNext
  BY DEF TimerFires, SchedNext, CallbackStep
<1>2. timers' \subseteq Threads /\ due' \subseteq timers'
  BY DEF TimerFires, TypeOK, LoopTypeOK
<1> QED BY <1>1, <1>2
        DEF TimerFires, Keeps, TypeOK, ChannelTypeOK, LoopTypeOK, chanVars,
            histVars, reqVars

LEMMA AnswerKeeps ==
  ASSUME TypeOK, Answer PROVE Keeps
<1>1. Head(batch) \in Requests /\ Tail(batch) \in Seq(Requests)
  BY HeadTailProperties DEF Answer, TypeOK, LoopTypeOK
<1> DEFINE id == Head(batch)[1]
           my == Head(batch)[2]
<1>2. id \in 1..MaxCalls /\ my \in Threads
  BY <1>1 DEF Requests
<1>3. /\ current = Hub /\ hubpc = "poll"
      /\ state[my] = "GETADDRINFO"
      /\ answer' = [answer EXCEPT ![my] = id]
      /\ value'  = [value EXCEPT ![my] = 0]
      /\ Switch(Hub, my, state, ready)
  BY DEF Answer
<1> HIDE DEF id, my
<1>4. SchedNext
  BY <1>2, <1>3 DEF SchedNext, CallbackStep
<1>5. /\ answer' \in [Threads -> 0..MaxCalls]
      /\ value' \in [Threads -> 0..MaxCalls]
  BY <1>2, <1>3, CallsAssumption DEF TypeOK, ChannelTypeOK, LoopTypeOK
<1> QED BY <1>1, <1>4, <1>5
        DEF Answer, Keeps, TypeOK, ChannelTypeOK, LoopTypeOK, histVars,
            timerVars

LEMMA HubStepKeeps ==
  ASSUME TypeOK, HubStep PROVE Keeps
<1>1. CASE HubStops
  BY <1>1, LeaveKeepsTypes DEF HubStops, Contexts
<1>2. CASE LoopEnter \/ LoopAgain
  BY <1>2, StartIterationKeeps DEF LoopEnter, LoopAgain, HubPhases
<1> QED BY <1>1, <1>2, PollKeeps, AnswerKeeps, TimerFiresKeeps DEF HubStep

LEMMA WorkerFinishesKeeps ==
  ASSUME TypeOK, NEW r \in Requests, WorkerFinishes(r) PROVE Keeps
<1>1. queued' \subseteq Requests /\ done' \in Seq(Requests)
  BY DEF WorkerFinishes, TypeOK, LoopTypeOK
<1>2. SchedNext
  BY DEF WorkerFinishes, SchedNext
<1> QED BY <1>1, <1>2
        DEF WorkerFinishes, Keeps, TypeOK, ChannelTypeOK, LoopTypeOK, chanVars,
            histVars, timerVars

-----------------------------------------------------------------------------
(* The inductive invariant: the types of all variables and the scheduler's *)
(* invariant.                                                              *)
IInv == TypeOK /\ SchedInv

LEMMA InitEstablishes == Init => IInv
<1> SUFFICES ASSUME Init PROVE IInv
  OBVIOUS
<1> USE DEF Threads, Contexts
<1>1. HubTypeOK
  BY DEF Init, HubInit, HubTypeOK, States, HubPhases
<1>2. ChannelTypeOK
  BY CallsAssumption DEF Init, ChannelInit, ChannelTypeOK, Pending
<1>3. LoopTypeOK
  BY CallsAssumption DEF Init, LoopTypeOK
<1>4. SchedInv
  BY <1>1 DEF Init, HubInit, SchedInv, CurrentIsCurrent, MainIsAlive,
     ReadyAreReady, ReadyOnce, HandlesAreFresh, HubRunsWhenIdle
<1> QED BY <1>1, <1>2, <1>3, <1>4 DEF IInv, TypeOK

LEMMA StepKeeps == IInv /\ [Next]_vars => IInv'
<1> SUFFICES ASSUME TypeOK, SchedInv, [Next]_vars PROVE IInv'
  BY DEF IInv
<1>1. CASE UNCHANGED vars
  <2>1. SchedNext
    BY <1>1 DEF vars, SchedNext
  <2>2. SchedInv'
    BY <2>1, SchedNextKeeps
  <2>3. TypeOK'
    BY <1>1 DEF vars, TypeOK, HubTypeOK, ChannelTypeOK, LoopTypeOK, hubVars,
       chanVars, histVars, timerVars, reqVars
  <2> QED BY <2>2, <2>3 DEF IInv
<1>2. CASE Next
  <2>1. Keeps
    BY <1>2, CothreadStepKeeps, HubStepKeeps, WorkerFinishesKeeps DEF Next
  <2>2. SchedInv'
    BY <2>1, SchedNextKeeps DEF Keeps
  <2> QED BY <2>1, <2>2 DEF IInv, Keeps, TypeOK, SchedInv
<1> QED BY <1>1, <1>2

(* Every behaviour of gevent keeps the inductive invariant.                *)
THEOREM SchedulerInvariant == Spec => []IInv
  BY InitEstablishes, StepKeeps, PTL DEF Spec

(* Type correctness: every variable, in particular every link, handle and  *)
(* request, stays in its range, whatever the program calls.                *)
THEOREM TypeCorrect == Spec => []TypeOK
<1>1. IInv => TypeOK
  BY DEF IInv
<1> QED BY <1>1, SchedulerInvariant, PTL

(* gevent_switch() and _get_next_stacklet() never resume a handle twice    *)
(* nor one of a context that is gone: a suspended context, and only a      *)
(* suspended context, has the handle of its own stack.                     *)
THEOREM FreshHandles == Spec => []HandlesAreFresh
<1>1. IInv => HandlesAreFresh
  BY DEF IInv, SchedInv
<1> QED BY <1>1, SchedulerInvariant, PTL

(* gevent_yield() enters the event loop only when no cothread is ready,    *)
(* and no callback of the loop leaves one behind.                          *)
THEOREM HubIsIdle == Spec => []HubRunsWhenIdle
<1>1. IInv => HubRunsWhenIdle
  BY DEF IInv, SchedInv
<1> QED BY <1>1, SchedulerInvariant, PTL

(* Whatever API functions a program calls, and in whatever order, every    *)
(* step of gevent.c moves the processor in one of the ways of SchedNext.   *)
THEOREM StepsAreScheduled == Spec => [][SchedNext]_hubVars
<1>1. IInv /\ [Next]_vars => [SchedNext]_hubVars
  <2> SUFFICES ASSUME TypeOK, SchedInv, [Next]_vars PROVE [SchedNext]_hubVars
    BY DEF IInv
  <2>1. CASE UNCHANGED vars
    BY <2>1 DEF vars
  <2>2. CASE Next
    BY <2>2, CothreadStepKeeps, HubStepKeeps, WorkerFinishesKeeps
       DEF Next, Keeps
  <2> QED BY <2>1, <2>2
<1> QED BY <1>1, SchedulerInvariant, PTL DEF Spec

-----------------------------------------------------------------------------
(* Waiting: no wakeup is lost, nobody wakes up without his reason, and the *)
(* asserts of gevent.c hold.  The argument: the function a cothread has a  *)
(* frame of (call) says where it is linked.  It is linked there from the   *)
(* moment it blocks until the second half of that function runs, whoever   *)
(* resumed it; and while it is suspended its state tells the same as its   *)
(* frame.                                                                  *)
USE CallsAssumption

(* The state s of a suspended cothread fits the function c it is in.       *)
Fits(s, c) ==
  \/ s \in {"NEW", "DEAD"} /\ c = "none"
  \/ s = "READY"           /\ c \in {"none", "release"}
  \/ s = "CHANNEL_R"       /\ c \in {"receive", "acquire"}
  \/ s = "CHANNEL_S"       /\ c = "send"
  \/ s = "TIMER"           /\ c = "sleep"
  \/ s = "GETADDRINFO"     /\ c = "getaddrinfo"
  \/ s = "CURRENT"         /\ c = "yield"

CallInv ==
  /\ \A t \in Threads : t # current => Fits(state[t], call[t])
  /\ \A t \in Threads : state[t] = "READY" => t \in ToSet(ready)

(* Who is in a queue is in the function that put him there, and            *)
(* conversely.                                                             *)
PlaceFits(c, q) ==
  /\ c \in {"receive", "send"}    => q \in Channels
  /\ c \in {"acquire", "release"} => q \in Semaphores
  /\ c \in {"none", "sleep", "yield", "getaddrinfo"} => q = Null

LinksMatch(links, cl, ch, ops) ==
  \A q \in Queues :
     /\ IsInjective(links[q])
     /\ \A t \in Threads : t \in ToSet(links[q]) <=> cl[t] \in ops /\ ch[t] = q

Receiving == {"receive", "acquire"}
Sending   == {"send"}

QueueInv ==
  /\ \A t \in Threads : PlaceFits(call[t], chan[t])
  /\ LinksMatch(receivers, call, chan, Receiving)
  /\ LinksMatch(senders, call, chan, Sending)

TimerInv ==
  /\ \A t \in timers : call[t] = "sleep"
  /\ \A t \in Threads : t # current /\ call[t] = "sleep" => t \in timers

(* A request is in one place.  Whoever waits for a lookup has one, and a   *)
(* cothread other than main has none but that.                             *)
Lookups == queued \cup ToSet(done) \cup ToSet(batch)

LookupInv ==
  /\ IsInjective(done) /\ IsInjective(batch)
  /\ queued \cap ToSet(done) = {} /\ queued \cap ToSet(batch) = {}
  /\ ToSet(done) \cap ToSet(batch) = {}
  /\ hubpc # "poll" => batch = <<>>
  /\ \A r \in Lookups : r[1] <= calls
  /\ \A t \in Threads : t # current /\ call[t] = "getaddrinfo" =>
        <<request[t], t>> \in Lookups
  /\ \A r \in Lookups : r[2] # Main =>
        /\ r[2] # current /\ call[r[2]] = "getaddrinfo"
        /\ r[1] = request[r[2]] /\ answer[r[2]] = 0

WaitInv == CallInv /\ QueueInv /\ TimerInv /\ LookupInv

-----------------------------------------------------------------------------
(* me, in the state s from now on, hands the processor to another context. *)
Passes(me, to, s) ==
  /\ me = current /\ current' = to
  /\ me \in Contexts /\ to \in Contexts \ {me}
  /\ \A x \in Threads \ {me, to} : state'[x] = state[x]
  /\ me \in Threads => state'[me] = s
  /\ \A x \in Threads \ {to} : x \in ToSet(ready) => x \in ToSet(ready')
  /\ me \in Threads /\ s = "READY" => me \in ToSet(ready')
  /\ to \in Threads => state'[to] = "CURRENT"

LEMMA EnteredStates ==
  ASSUME NEW st \in [Threads -> States], NEW to
  PROVE  /\ \A x \in Threads \ {to} : Entered(st, to)[x] = st[x]
         /\ to \in Threads => Entered(st, to)[to] = "CURRENT"
  BY DEF Entered, Threads

LEMMA ReadyElements ==
  ASSUME SchedInv
  PROVE  /\ ready \in Seq(Threads)
         /\ \A x \in ToSet(ready) : x \in Threads /\ state[x] = "READY"
         /\ ready # <<>> => /\ Head(ready) \in ToSet(ready)
                            /\ ToSet(ready) = ToSet(Tail(ready)) \cup {Head(ready)}
<1>1. ready \in Seq(Threads)
  BY DEF SchedInv, HubTypeOK
<1>2. \A x \in ToSet(ready) : x \in Threads /\ \E i \in DOMAIN ready : ready[i] = x
  BY <1>1, QueueElements, LenProperties
<1>3. \A x \in ToSet(ready) : state[x] = "READY"
  BY <1>2 DEF SchedInv, ReadyAreReady
<1>4. ready # <<>> => ToSet(ready) = ToSet(Tail(ready)) \cup {Head(ready)}
  BY <1>1, TailElements
<1> QED BY <1>1, <1>2, <1>3, <1>4

(* gevent_yield() goes to a ready cothread or to the hub.                  *)
LEMMA YieldPasses ==
  ASSUME SchedInv, NEW me \in Threads, current = me,
         NEW s \in States \ {"NEW", "READY", "DEAD"},
         Yield(me, [state EXCEPT ![me] = s])
  PROVE  \E to \in Contexts :
            /\ Passes(me, to, s)
            /\ to \in Threads => state[to] = "READY"
            /\ hubpc = "poll" => hubpc' = "poll"
<1> USE DEF Threads, Contexts
<1> DEFINE st == [state EXCEPT ![me] = s]
<1>1. /\ state \in [Threads -> States] /\ st \in [Threads -> States]
      /\ me # Hub
  BY DEF SchedInv, HubTypeOK
<1>2. CASE ready # <<>>
  <2> DEFINE to == Head(ready)
  <2>1. /\ to \in Threads /\ state[to] = "READY" /\ to # me /\ stacklet[to] = to
    BY <1>2, ReadyHead
  <2>2. st[to] = "READY"
    BY <1>1, <2>1
  <2>3. SwitchTo(me, to, st, Tail(ready))
    BY <1>2, <2>1, <2>2 DEF Yield, Switch
  <2>4. /\ current' = to /\ state' = Entered(st, to) /\ ready' = Tail(ready)
        /\ hubpc' = hubpc
    BY <2>1, <2>3 DEF SwitchTo
  <2> HIDE DEF st
  <2>5. /\ \A x \in Threads \ {to} : state'[x] = st[x]
        /\ state'[to] = "CURRENT"
    BY <1>1, <2>1, <2>4, EnteredStates
  <2>6. \A x \in Threads \ {to} : x \in ToSet(ready) => x \in ToSet(ready')
    BY <1>2, <2>4, ReadyElements
  <2>7. /\ \A x \in Threads \ {me} : st[x] = state[x]
        /\ st[me] = s
    BY <1>1 DEF st
  <2>8. Passes(me, to, s)
    BY <2>1, <2>4, <2>5, <2>6, <2>7 DEF Passes
  <2> QED BY <2>1, <2>4, <2>8
<1>3. CASE ready = <<>>
  <2>1. SwitchTo(me, Hub, st, ready)
    BY <1>1, <1>3 DEF Yield, SwitchToHub, SchedInv, HandlesAreFresh
  <2>2. /\ current' = Hub /\ state' = st /\ ready' = ready
        /\ hubpc = "poll" => hubpc' = "poll"
    BY <2>1 DEF SwitchTo, Entered
  <2>3. Passes(me, Hub, s)
    BY <1>1, <2>2 DEF Passes
  <2> QED BY <2>2, <2>3
<1> QED BY <1>2, <1>3

(* The partner of a channel runs at once, a new cothread too.              *)
LEMMA HandoffPasses ==
  ASSUME SchedInv, NEW me \in Threads, current = me, NEW t \in Threads,
         state[t] \in {"NEW", "CHANNEL_R", "CHANNEL_S"}, Handoff(me, t)
  PROVE  /\ Passes(me, t, "READY")
         /\ hubpc' = hubpc
<1> USE DEF Threads, Contexts
<1> DEFINE st == [state EXCEPT ![me] = "READY"]
<1>1. /\ state \in [Threads -> States] /\ st \in [Threads -> States]
      /\ me # Hub /\ t # Hub /\ ready \in Seq(Threads)
  BY DEF SchedInv, HubTypeOK, States
<1>2. t # me
  BY DEF SchedInv, CurrentIsCurrent
<1>3. state[t] # "NEW" => stacklet[t] = t
  BY <1>1, <1>2 DEF SchedInv, HandlesAreFresh
<1>4. SwitchTo(me, t, st, Append(ready, me))
  BY <1>1, <1>2, <1>3 DEF Handoff, Activate, Enqueue, Switch
<1>5. /\ current' = t /\ state' = Entered(st, t) /\ ready' = Append(ready, me)
      /\ hubpc' = hubpc
  BY <1>1, <1>4 DEF SwitchTo
<1>6. ToSet(ready') = ToSet(ready) \cup {me}
  BY <1>1, <1>5, AppendElements
<1>7. /\ \A x \in Threads \ {t} : state'[x] = st[x]
      /\ state'[t] = "CURRENT"
  BY <1>1, <1>5, EnteredStates
<1> QED BY <1>1, <1>2, <1>5, <1>6, <1>7 DEF Passes

(* A callback of the loop goes to the cothread it is for.                  *)
LEMMA CallbackPasses ==
  ASSUME SchedInv, NEW t \in Threads, current = Hub,
         state[t] \in {"TIMER", "GETADDRINFO"}, Switch(Hub, t, state, ready)
  PROVE  Passes(Hub, t, "CURRENT") /\ hubpc' = hubpc
<1> USE DEF Threads, Contexts
<1>1. state \in [Threads -> States] /\ t # Hub /\ Hub \notin Threads /\ stacklet[t] = t
  BY DEF SchedInv, HubTypeOK, HandlesAreFresh
<1>2. SwitchTo(Hub, t, state, ready)
  BY <1>1 DEF Switch
<1>3. /\ current' = t /\ state' = Entered(state, t) /\ ready' = ready /\ hubpc' = hubpc
  BY <1>1, <1>2 DEF SwitchTo
<1> QED BY <1>1, <1>3, EnteredStates DEF Passes

(* A context that ends goes to a ready cothread, the hub or main.          *)
LEMMA LeavePasses ==
  ASSUME SchedInv, NEW me \in Contexts \ {Main}, current = me, Leave(me)
  PROVE  \E to \in Contexts :
            /\ Passes(me, to, "DEAD")
            /\ to \in Cothreads => state[to] = "READY"
            /\ to = Main => state[to] = "READY" \/ (ready = <<>> /\ stacklet[Hub] = Null)
            /\ me # Hub => hubpc' = hubpc
            /\ me = Hub => hubpc' = "off"
<1> USE DEF Threads, Contexts
<1> DEFINE to == NextContext
           st == IF me = Hub THEN state ELSE [state EXCEPT ![me] = "DEAD"]
<1>1. state \in [Threads -> States] /\ ready \in Seq(Threads) /\ Hub \notin Threads
  BY DEF SchedInv, HubTypeOK
<1>2. /\ to \in Contexts \ {me} /\ stacklet[to] = to
      /\ ready # <<>> => to = Head(ready)
      /\ to = Hub => ready = <<>>
  BY NextIsSuspended
<1>3. /\ to \in Cothreads => state[to] = "READY"
      /\ to = Main => state[to] = "READY" \/ (ready = <<>> /\ stacklet[Hub] = Null)
  <2>1. CASE ready # <<>>
    BY <1>2, <2>1, ReadyHead
  <2>2. CASE ready = <<>>
    BY <2>2 DEF NextContext
  <2> QED BY <2>1, <2>2
<1>4. /\ st \in [Threads -> States]
      /\ \A x \in Threads \ {me} : st[x] = state[x]
      /\ me \in Threads => st[me] = "DEAD"
  BY <1>1 DEF States
<1>5. /\ current' = to /\ state' = Entered(st, to)
      /\ ready' = IF ready # <<>> THEN Tail(ready) ELSE ready
      /\ hubpc' = IF me = Hub THEN "off" ELSE hubpc
  BY <1>2 DEF Leave
<1> HIDE DEF st
<1>6. /\ \A x \in Threads \ {to} : state'[x] = st[x]
      /\ to \in Threads => state'[to] = "CURRENT"
  <2>1. state' = Entered(st, to) /\ st \in [Threads -> States]
    BY <1>4, <1>5
  <2> QED BY <2>1, EnteredStates
<1> HIDE DEF to
<1>7. \A x \in Threads \ {to} : x \in ToSet(ready) => x \in ToSet(ready')
  BY <1>2, <1>5, ReadyElements
<1>8. Passes(me, to, "DEAD")
  BY <1>2, <1>4, <1>5, <1>6, <1>7 DEF Passes
<1> QED BY <1>2, <1>3, <1>5, <1>8

-----------------------------------------------------------------------------
(* The calls: a step changes that of the context that was running.         *)
LEMMA PassKeepsCalls ==
  ASSUME CallInv, NEW me, NEW to, NEW s, Passes(me, to, s),
         \A x \in Threads \ {me} : call'[x] = call[x],
         me \in Threads => Fits(s, call'[me])
  PROVE  CallInv'
<1>1. ASSUME NEW t \in Threads, t # to PROVE Fits(state'[t], call'[t])
  BY <1>1 DEF CallInv, Passes
<1>2. ASSUME NEW t \in Threads, state'[t] = "READY" PROVE t \in ToSet(ready')
  BY <1>2 DEF CallInv, Passes
<1> QED BY <1>1, <1>2 DEF CallInv, Passes

LEMMA StayKeepsCalls ==
  ASSUME CallInv, UNCHANGED <<current, state, ready>>,
         \A x \in Threads \ {current} : call'[x] = call[x]
  PROVE  CallInv'
  BY DEF CallInv

(* The queues.                                                             *)
LEMMA LinkedMatch ==
  ASSUME NEW links \in [Queues -> Seq(Threads)], NEW cl \in [Threads -> Pending],
         NEW ch \in [Threads -> Queues \cup {Null}], NEW ops,
         LinksMatch(links, cl, ch, ops),
         NEW me \in Threads, NEW q \in Queues, NEW op \in ops, cl[me] \notin ops
  PROVE  LinksMatch([links EXCEPT ![q] = Enqueue(@, me)],
                    [cl EXCEPT ![me] = op], [ch EXCEPT ![me] = q], ops)
<1> DEFINE new == [links EXCEPT ![q] = Enqueue(@, me)]
<1>1. \A p \in Queues : new[p] = IF p = q THEN Append(links[q], me) ELSE links[p]
  BY DEF Enqueue
<1>2. /\ links[q] \in Seq(Threads) /\ IsInjective(links[q])
      /\ \A p \in Queues : me \notin ToSet(links[p])
  BY DEF LinksMatch
<1>3. /\ ToSet(Append(links[q], me)) = ToSet(links[q]) \cup {me}
      /\ IsInjective(Append(links[q], me))
  BY <1>2, AppendElements
<1> HIDE DEF new
<1> QED BY <1>1, <1>2, <1>3 DEF LinksMatch, new

LEMMA UnlinkedMatch ==
  ASSUME NEW links \in [Queues -> Seq(Threads)], NEW cl \in [Threads -> Pending],
         NEW ch \in [Threads -> Queues \cup {Null}], NEW ops,
         LinksMatch(links, cl, ch, ops),
         NEW me \in Threads, NEW q \in Queues, cl[me] \in ops, ch[me] = q,
         NEW op, op \notin ops, NEW place
  PROVE  LinksMatch([links EXCEPT ![q] = Unlink(@, me)],
                    [cl EXCEPT ![me] = op], [ch EXCEPT ![me] = place], ops)
<1> DEFINE new == [links EXCEPT ![q] = Unlink(@, me)]
<1>1. \A p \in Queues : new[p] = IF p = q THEN RemoveFirst(links[q], me) ELSE links[p]
  BY DEF Unlink
<1>2. /\ links[q] \in Seq(Threads) /\ IsInjective(links[q])
      /\ \A p \in Queues : p # q => me \notin ToSet(links[p])
  BY DEF LinksMatch
<1>3. /\ ToSet(RemoveFirst(links[q], me)) = ToSet(links[q]) \ {me}
      /\ IsInjective(RemoveFirst(links[q], me))
  BY <1>2, RemoveFirstElements
<1> HIDE DEF new
<1> QED BY <1>1, <1>2, <1>3 DEF LinksMatch, new

LEMMA OthersMatch ==
  ASSUME NEW links, NEW cl, NEW ch, NEW ops, LinksMatch(links, cl, ch, ops),
         NEW cl2, NEW ch2,
         \A t \in Threads : \/ cl2[t] = cl[t] /\ ch2[t] = ch[t]
                            \/ cl[t] \notin ops /\ cl2[t] \notin ops
  PROVE  LinksMatch(links, cl2, ch2, ops)
  BY DEF LinksMatch

(* A step that links and unlinks nobody.                                   *)
QuietQueues ==
  /\ UNCHANGED <<receivers, senders>>
  /\ \A t \in Threads :
       \/ call'[t] = call[t] /\ chan'[t] = chan[t]
       \/ /\ {call[t], call'[t]} \cap (Receiving \cup Sending) = {}
          /\ PlaceFits(call'[t], chan'[t])

LEMMA QuietKeepsQueues ==
  ASSUME QueueInv, QuietQueues
  PROVE  QueueInv'
<1>1. LinksMatch(receivers, call', chan', Receiving)
  BY OthersMatch DEF QueueInv, QuietQueues
<1>2. LinksMatch(senders, call', chan', Sending)
  BY OthersMatch DEF QueueInv, QuietQueues
<1> QED BY <1>1, <1>2 DEF QueueInv, QuietQueues

LEMMA LinkReceiverKeeps ==
  ASSUME TypeOK, QueueInv, NEW me \in Threads, NEW q \in Queues,
         NEW op \in Receiving, call[me] = "none", PlaceFits(op, q),
         receivers' = [receivers EXCEPT ![q] = Enqueue(@, me)],
         UNCHANGED senders,
         call' = [call EXCEPT ![me] = op], chan' = [chan EXCEPT ![me] = q]
  PROVE  QueueInv'
<1>1. /\ receivers \in [Queues -> Seq(Threads)] /\ call \in [Threads -> Pending]
      /\ chan \in [Threads -> Queues \cup {Null}]
      /\ op \notin Sending /\ "none" \notin Receiving \cup Sending
  BY DEF TypeOK, ChannelTypeOK, Receiving, Sending
<1>2. LinksMatch(receivers', call', chan', Receiving)
  BY <1>1, LinkedMatch DEF QueueInv
<1>3. LinksMatch(senders, call', chan', Sending)
  <2>1. \A t \in Threads : \/ call'[t] = call[t] /\ chan'[t] = chan[t]
                           \/ call[t] \notin Sending /\ call'[t] \notin Sending
    BY <1>1
  <2>2. LinksMatch(senders, call, chan, Sending)
    BY DEF QueueInv
  <2> QED BY <2>1, <2>2, OthersMatch
<1>4. \A t \in Threads : PlaceFits(call'[t], chan'[t])
  BY <1>1 DEF QueueInv
<1> QED BY <1>2, <1>3, <1>4 DEF QueueInv

LEMMA LinkSenderKeeps ==
  ASSUME TypeOK, QueueInv, NEW me \in Threads, NEW q \in Channels,
         call[me] = "none",
         senders' = [senders EXCEPT ![q] = Enqueue(@, me)],
         UNCHANGED receivers,
         call' = [call EXCEPT ![me] = "send"], chan' = [chan EXCEPT ![me] = q]
  PROVE  QueueInv'
<1>1. /\ senders \in [Queues -> Seq(Threads)] /\ call \in [Threads -> Pending]
      /\ chan \in [Threads -> Queues \cup {Null}]
      /\ "send" \in Sending /\ "send" \notin Receiving
      /\ "none" \notin Receiving \cup Sending /\ q \in Queues
  BY DEF TypeOK, ChannelTypeOK, Receiving, Sending, Queues
<1>2. LinksMatch(senders', call', chan', Sending)
  BY <1>1, LinkedMatch DEF QueueInv
<1>3. LinksMatch(receivers, call', chan', Receiving)
  <2>1. \A t \in Threads : \/ call'[t] = call[t] /\ chan'[t] = chan[t]
                           \/ call[t] \notin Receiving /\ call'[t] \notin Receiving
    BY <1>1
  <2>2. LinksMatch(receivers, call, chan, Receiving)
    BY DEF QueueInv
  <2> QED BY <2>1, <2>2, OthersMatch
<1>4. \A t \in Threads : PlaceFits(call'[t], chan'[t])
  BY <1>1 DEF QueueInv, PlaceFits
<1> QED BY <1>2, <1>3, <1>4 DEF QueueInv

LEMMA UnlinkReceiverKeeps ==
  ASSUME TypeOK, QueueInv, NEW me \in Threads, NEW q \in Queues,
         call[me] \in Receiving, chan[me] = q,
         receivers' = [receivers EXCEPT ![q] = Unlink(@, me)],
         UNCHANGED senders, Returns(me)
  PROVE  QueueInv'
<1>1. /\ receivers \in [Queues -> Seq(Threads)] /\ call \in [Threads -> Pending]
      /\ chan \in [Threads -> Queues \cup {Null}]
      /\ call[me] \notin Sending /\ "none" \notin Receiving /\ "none" \notin Sending
      /\ call' = [call EXCEPT ![me] = "none"] /\ chan' = [chan EXCEPT ![me] = Null]
  BY DEF TypeOK, ChannelTypeOK, Receiving, Sending, Returns
<1>2. LinksMatch(receivers', call', chan', Receiving)
  BY <1>1, UnlinkedMatch DEF QueueInv
<1>3. LinksMatch(senders, call', chan', Sending)
  <2>1. \A t \in Threads : \/ call'[t] = call[t] /\ chan'[t] = chan[t]
                           \/ call[t] \notin Sending /\ call'[t] \notin Sending
    BY <1>1
  <2>2. LinksMatch(senders, call, chan, Sending)
    BY DEF QueueInv
  <2> QED BY <2>1, <2>2, OthersMatch
<1>4. \A t \in Threads : PlaceFits(call'[t], chan'[t])
  BY <1>1 DEF QueueInv, PlaceFits
<1> QED BY <1>2, <1>3, <1>4 DEF QueueInv

LEMMA UnlinkSenderKeeps ==
  ASSUME TypeOK, QueueInv, NEW me \in Threads, NEW q \in Queues,
         call[me] \in Sending, chan[me] = q,
         senders' = [senders EXCEPT ![q] = Unlink(@, me)],
         UNCHANGED receivers, Returns(me)
  PROVE  QueueInv'
<1>1. /\ senders \in [Queues -> Seq(Threads)] /\ call \in [Threads -> Pending]
      /\ chan \in [Threads -> Queues \cup {Null}]
      /\ call[me] \notin Receiving /\ "none" \notin Receiving /\ "none" \notin Sending
      /\ call' = [call EXCEPT ![me] = "none"] /\ chan' = [chan EXCEPT ![me] = Null]
  BY DEF TypeOK, ChannelTypeOK, Receiving, Sending, Returns
<1>2. LinksMatch(senders', call', chan', Sending)
  BY <1>1, UnlinkedMatch DEF QueueInv
<1>3. LinksMatch(receivers, call', chan', Receiving)
  <2>1. \A t \in Threads : \/ call'[t] = call[t] /\ chan'[t] = chan[t]
                           \/ call[t] \notin Receiving /\ call'[t] \notin Receiving
    BY <1>1
  <2>2. LinksMatch(receivers, call, chan, Receiving)
    BY DEF QueueInv
  <2> QED BY <2>1, <2>2, OthersMatch
<1>4. \A t \in Threads : PlaceFits(call'[t], chan'[t])
  BY <1>1 DEF QueueInv, PlaceFits
<1> QED BY <1>2, <1>3, <1>4 DEF QueueInv

(* A step that has nothing to do with timers, or with lookups.  The        *)
(* running thread does not go to sleep in it.                              *)
QuietTimers ==
  /\ UNCHANGED timers
  /\ \A t \in Threads :
       /\ call'[t] = call[t] \/ "sleep" \notin {call[t], call'[t]}
       /\ t = current /\ t # current' => call'[t] # "sleep"

LEMMA QuietKeepsTimers ==
  ASSUME TypeOK, TimerInv, QuietTimers
  PROVE  TimerInv'
  BY DEF TypeOK, LoopTypeOK, TimerInv, QuietTimers

QuietLookups ==
  /\ UNCHANGED <<queued, done, batch, request, answer>>
  /\ calls \in Nat /\ calls' \in Nat /\ calls <= calls'
  /\ hubpc = "poll" => hubpc' = "poll"
  /\ \A t \in Threads :
       /\ call'[t] = call[t] \/ "getaddrinfo" \notin {call[t], call'[t]}
       /\ t = current /\ t # current' => call'[t] # "getaddrinfo"
  /\ current' \in Cothreads => current' = current \/ call[current'] # "getaddrinfo"

LEMMA LookupTypes ==
  ASSUME TypeOK
  PROVE  /\ done \in Seq(Requests) /\ batch \in Seq(Requests)
         /\ queued \subseteq Requests /\ ToSet(done) \subseteq Requests
         /\ ToSet(batch) \subseteq Requests
         /\ Lookups \subseteq Requests
         /\ \A r \in Requests : /\ r[1] \in Nat /\ r[2] \in Threads
                               /\ r = <<r[1], r[2]>>
         /\ calls \in Nat
  BY QueueElements DEF TypeOK, LoopTypeOK, ChannelTypeOK, Lookups, Requests

LEMMA QuietKeepsLookups ==
  ASSUME TypeOK, LookupInv, QuietLookups
  PROVE  LookupInv'
<1>1. Lookups' = Lookups
  BY DEF QuietLookups, Lookups
<1>2. \A r \in Lookups : r[1] \in Nat /\ r[2] \in Threads
  BY LookupTypes
<1>3. \A r \in Lookups : r[1] <= calls'
  BY <1>2 DEF LookupInv, QuietLookups
<1>4. \A t \in Threads : t # current' /\ call'[t] = "getaddrinfo" =>
         <<request'[t], t>> \in Lookups
  BY DEF LookupInv, QuietLookups
<1>5. \A r \in Lookups : r[2] # Main =>
        /\ r[2] # current' /\ call'[r[2]] = "getaddrinfo"
        /\ r[1] = request'[r[2]] /\ answer'[r[2]] = 0
  BY <1>2 DEF LookupInv, QuietLookups, Threads
<1> QED BY <1>1, <1>3, <1>4, <1>5 DEF LookupInv, QuietLookups

-----------------------------------------------------------------------------
(* Why a cothread is resumed: for what it waits for, or it is main and     *)
(* nothing else can run, or main waits for a lookup.                       *)
MainIsForced == ready = <<>> /\ (hubpc = "off" \/ (current = Hub /\ ~LoopAlive))

Reasons ==
  \A t \in Threads : current # t /\ current' = t =>
     ForItsReason(t) \/ (t = Main /\ (MainIsForced \/ call[Main] = "getaddrinfo"))

Good == WaitInv' /\ Reasons

LEMMA ReadyIsAReason ==
  ASSUME NEW t, state[t] \in {"READY", "NEW"}
  PROVE  ForItsReason(t)
  BY DEF ForItsReason

LEMMA CallsFacts ==
  ASSUME IInv, NEW me \in Threads, NEW op, Calls(me, op)
  PROVE  /\ current = me /\ call[me] = "none" /\ state[me] = "CURRENT"
         /\ calls \in Nat /\ calls' \in Nat /\ calls <= calls'
         /\ op # "yield" => calls' = calls + 1 /\ op \in Ops[me]
  BY DEF IInv, TypeOK, ChannelTypeOK, Calls, SchedInv, CurrentIsCurrent

(* The running thread yields in the function c.                            *)
LEMMA YieldKeepsCalls ==
  ASSUME IInv, WaitInv, NEW me \in Threads, current = me, call[me] = "none",
         NEW s \in States \ {"NEW", "READY", "DEAD"}, NEW c, Fits(s, c),
         Yield(me, [state EXCEPT ![me] = s]),
         call' = [call EXCEPT ![me] = c]
  PROVE  /\ CallInv' /\ Reasons
         /\ current' # me /\ (current' \in Threads => call[current'] \in {"none", "release"})
         /\ c # "sleep" /\ UNCHANGED timers => QuietTimers
         /\ /\ c # "getaddrinfo" /\ calls \in Nat /\ calls' \in Nat /\ calls <= calls'
            /\ UNCHANGED <<queued, done, batch, request, answer>>
            => QuietLookups
         /\ hubpc = "poll" => hubpc' = "poll"
<1>1. PICK to \in Contexts : /\ Passes(me, to, s)
                             /\ to \in Threads => state[to] = "READY"
                             /\ hubpc = "poll" => hubpc' = "poll"
  BY YieldPasses DEF IInv
<1>2. call \in [Threads -> Pending]
  BY DEF IInv, TypeOK, ChannelTypeOK
<1>3. /\ \A x \in Threads \ {me} : call'[x] = call[x]
      /\ call'[me] = c
  BY <1>2
<1>4. CallInv'
  BY <1>1, <1>3, PassKeepsCalls DEF WaitInv
<1>5. /\ current' = to /\ to # me
      /\ to \in Threads => call[to] \in {"none", "release"}
  BY <1>1 DEF Passes, WaitInv, CallInv, Fits
<1>6. Reasons
  BY <1>1, <1>5, ReadyIsAReason DEF Reasons
<1>7. c # "sleep" /\ UNCHANGED timers => QuietTimers
  BY <1>3, <1>5 DEF QuietTimers
<1>8. /\ c # "getaddrinfo" /\ calls \in Nat /\ calls' \in Nat /\ calls <= calls'
      /\ UNCHANGED <<queued, done, batch, request, answer>>
      => QuietLookups
  BY <1>1, <1>3, <1>5 DEF QuietLookups, Threads
<1> QED BY <1>1, <1>4, <1>5, <1>6, <1>7, <1>8

(* The running thread lets t run and becomes ready, in the function c.     *)
LEMMA HandoffKeepsCalls ==
  ASSUME IInv, WaitInv, NEW me \in Threads, current = me, call[me] = "none",
         NEW t \in Threads, state[t] \in {"NEW", "CHANNEL_R", "CHANNEL_S"},
         Handoff(me, t),
         state[t] = "CHANNEL_R" => t = Head(receivers[chan[t]]),
         state[t] = "CHANNEL_S" => t = Head(senders[chan[t]]),
         NEW c \in {"none", "release"}, call' = [call EXCEPT ![me] = c],
         UNCHANGED <<timers, queued, done, batch, request, answer>>,
         calls \in Nat, calls' \in Nat, calls <= calls'
  PROVE  /\ CallInv' /\ Reasons /\ QuietTimers /\ QuietLookups
         /\ current' = t /\ t # me
<1>1. Passes(me, t, "READY") /\ hubpc' = hubpc
  BY HandoffPasses DEF IInv
<1>2. call \in [Threads -> Pending]
  BY DEF IInv, TypeOK, ChannelTypeOK
<1>3. /\ \A x \in Threads \ {me} : call'[x] = call[x]
      /\ call'[me] = c
  BY <1>2
<1>4. CallInv'
  BY <1>1, <1>3, PassKeepsCalls DEF WaitInv, Fits
<1>5. /\ current' = t /\ t # me /\ state'[me] = "READY"
      /\ call[t] \notin {"sleep", "getaddrinfo"}
  BY <1>1 DEF Passes, WaitInv, CallInv, Fits
<1>6. Reasons
  <2>1. ForItsReason(t)
    BY <1>5 DEF ForItsReason
  <2> QED BY <1>5, <2>1 DEF Reasons
<1>7. QuietTimers
  BY <1>3, <1>5 DEF QuietTimers
<1>8. QuietLookups
  BY <1>1, <1>3, <1>5 DEF QuietLookups
<1> QED BY <1>4, <1>5, <1>6, <1>7, <1>8

(* The running thread stays where it is and is in the function c.          *)
LEMMA StayKeepsAll ==
  ASSUME IInv, WaitInv, NEW me \in Threads, current = me, UNCHANGED hubVars,
         NEW c, call' = [call EXCEPT ![me] = c],
         calls \in Nat, calls' \in Nat, calls <= calls'
  PROVE  /\ CallInv' /\ Reasons
         /\ c # "sleep" /\ call[me] # "sleep" /\ UNCHANGED timers => QuietTimers
         /\ /\ c # "getaddrinfo" /\ call[me] # "getaddrinfo"
            /\ UNCHANGED <<queued, done, batch, request, answer>>
            => QuietLookups
<1>1. call \in [Threads -> Pending] /\ UNCHANGED <<current, state, ready, hubpc>>
  BY DEF IInv, TypeOK, ChannelTypeOK, hubVars
<1>2. /\ \A x \in Threads \ {me} : call'[x] = call[x]
      /\ call'[me] = c
  BY <1>1
<1>3. CallInv'
  BY <1>1, <1>2, StayKeepsCalls DEF WaitInv
<1>4. Reasons
  BY <1>1 DEF Reasons
<1>5. c # "sleep" /\ call[me] # "sleep" /\ UNCHANGED timers => QuietTimers
  BY <1>1, <1>2 DEF QuietTimers
<1>6. /\ c # "getaddrinfo" /\ call[me] # "getaddrinfo"
      /\ UNCHANGED <<queued, done, batch, request, answer>>
      => QuietLookups
  BY <1>1, <1>2 DEF QuietLookups
<1> QED BY <1>3, <1>4, <1>5, <1>6

(* The parts together.                                                     *)
LEMMA PartsAreGood ==
  ASSUME IInv, WaitInv, CallInv', Reasons,
         QuietQueues \/ QueueInv', QuietTimers \/ TimerInv', QuietLookups \/ LookupInv'
  PROVE  Good
  BY QuietKeepsQueues, QuietKeepsTimers, QuietKeepsLookups DEF Good, WaitInv, IInv

(* Queues are untouched when me goes from one function to another.         *)
LEMMA FunctionIsQuiet ==
  ASSUME IInv, NEW me \in Threads, NEW c, NEW q,
         call' = [call EXCEPT ![me] = c], chan' = [chan EXCEPT ![me] = q],
         {call[me], c} \cap (Receiving \cup Sending) = {}, PlaceFits(c, q),
         UNCHANGED <<receivers, senders>>
  PROVE  QuietQueues
  BY DEF QuietQueues, IInv, TypeOK, ChannelTypeOK

(* Who is at the head of a queue is in it.                                 *)
LEMMA HeadsAreIn ==
  ASSUME IInv, WaitInv, NEW q \in Queues
  PROVE  /\ receivers[q] # <<>> =>
              LET t == Head(receivers[q]) IN
              t \in Threads /\ call[t] \in Receiving /\ chan[t] = q
         /\ senders[q] # <<>> =>
              LET t == Head(senders[q]) IN
              t \in Threads /\ call[t] \in Sending /\ chan[t] = q
<1>1. receivers[q] \in Seq(Threads) /\ senders[q] \in Seq(Threads)
  BY DEF IInv, TypeOK, ChannelTypeOK
<1>2. receivers[q] # <<>> => Head(receivers[q]) \in Threads /\ Head(receivers[q]) \in ToSet(receivers[q])
  BY <1>1, TailElements
<1>3. senders[q] # <<>> => Head(senders[q]) \in Threads /\ Head(senders[q]) \in ToSet(senders[q])
  BY <1>1, TailElements
<1> QED BY <1>2, <1>3 DEF WaitInv, QueueInv, LinksMatch

-----------------------------------------------------------------------------
(* Channels.                                                               *)
LEMMA BlockReceiveGood ==
  ASSUME IInv, WaitInv, NEW me \in Threads, NEW q \in Queues,
         NEW api, NEW op \in Receiving, PlaceFits(op, q), api # "yield",
         Calls(me, api), BlockReceive(me, q, op), UNCHANGED <<timerVars, reqVars>>
  PROVE  Good
<1>1. /\ current = me /\ call[me] = "none"
      /\ calls \in Nat /\ calls' \in Nat /\ calls <= calls'
  BY CallsFacts
<1>2. /\ receivers' = [receivers EXCEPT ![q] = Enqueue(@, me)] /\ UNCHANGED senders
      /\ call' = [call EXCEPT ![me] = op] /\ chan' = [chan EXCEPT ![me] = q]
      /\ Yield(me, [state EXCEPT ![me] = "CHANNEL_R"])
      /\ UNCHANGED <<timers, queued, done, batch, request, answer>>
  BY DEF BlockReceive, Block, timerVars, reqVars
<1>3. /\ "CHANNEL_R" \in States \ {"NEW", "READY", "DEAD"} /\ Fits("CHANNEL_R", op)
      /\ op \notin {"sleep", "getaddrinfo"}
  BY DEF States, Fits, Receiving
<1>4. QueueInv'
  BY <1>1, <1>2, LinkReceiverKeeps DEF IInv, WaitInv
<1>5. CallInv' /\ Reasons /\ QuietTimers /\ QuietLookups
  BY <1>1, <1>2, <1>3, YieldKeepsCalls
<1> QED BY <1>4, <1>5, PartsAreGood

LEMMA SendBlocksGood ==
  ASSUME IInv, WaitInv, NEW me \in Threads, NEW c \in Channels,
         SendBlocks(me, c), UNCHANGED <<timerVars, reqVars>>
  PROVE  Good
<1>1. /\ current = me /\ call[me] = "none"
      /\ calls \in Nat /\ calls' \in Nat /\ calls <= calls'
  BY CallsFacts DEF SendBlocks
<1>2. /\ senders' = [senders EXCEPT ![c] = Enqueue(@, me)] /\ UNCHANGED receivers
      /\ call' = [call EXCEPT ![me] = "send"] /\ chan' = [chan EXCEPT ![me] = c]
      /\ Yield(me, [state EXCEPT ![me] = "CHANNEL_S"])
      /\ UNCHANGED <<timers, queued, done, batch, request, answer>>
  BY DEF SendBlocks, Block, timerVars, reqVars
<1>3. /\ "CHANNEL_S" \in States \ {"NEW", "READY", "DEAD"} /\ Fits("CHANNEL_S", "send")
      /\ "send" \notin {"sleep", "getaddrinfo"}
  BY DEF States, Fits
<1>4. QueueInv'
  BY <1>1, <1>2, LinkSenderKeeps DEF IInv, WaitInv
<1>5. CallInv' /\ Reasons /\ QuietTimers /\ QuietLookups
  BY <1>1, <1>2, <1>3, YieldKeepsCalls
<1> QED BY <1>4, <1>5, PartsAreGood

LEMMA ReceiveFromSenderGood ==
  ASSUME IInv, WaitInv, NEW me \in Threads, NEW c \in Channels,
         ReceiveFromSender(me, c), UNCHANGED <<timerVars, reqVars>>
  PROVE  Good
<1> DEFINE s == Head(senders[c])
<1>1. /\ current = me /\ call[me] = "none"
      /\ calls \in Nat /\ calls' \in Nat /\ calls <= calls'
  BY CallsFacts DEF ReceiveFromSender
<1>2. /\ senders[c] # <<>> /\ state[s] = "CHANNEL_S" /\ Handoff(me, s)
      /\ UNCHANGED <<receivers, senders, call, chan>>
      /\ UNCHANGED <<timers, queued, done, batch, request, answer>>
  BY DEF ReceiveFromSender, timerVars, reqVars
<1>3. s \in Threads /\ s = Head(senders[chan[s]])
  BY <1>2, HeadsAreIn DEF Queues
<1>4. call' = [call EXCEPT ![me] = "none"]
  BY <1>1, <1>2 DEF IInv, TypeOK, ChannelTypeOK
<1>5. CallInv' /\ Reasons /\ QuietTimers /\ QuietLookups
  BY <1>1, <1>2, <1>3, <1>4, HandoffKeepsCalls
<1>6. QuietQueues
  BY <1>2 DEF QuietQueues
<1> QED BY <1>5, <1>6, PartsAreGood

(* HandoffSend() leaves all queues alone.                                  *)
LEMMA HandoffSendGood ==
  ASSUME IInv, WaitInv, NEW me \in Threads, NEW q \in Queues, NEW v, NEW api,
         Calls(me, api), HandoffSend(me, q, v), UNCHANGED <<timerVars, reqVars>>,
         NEW c \in {"none", "release"}, NEW place, PlaceFits(c, place),
         call' = [call EXCEPT ![me] = c], chan' = [chan EXCEPT ![me] = place]
  PROVE  Good
<1> DEFINE r == Head(receivers[q])
<1>1. /\ current = me /\ call[me] = "none"
      /\ calls \in Nat /\ calls' \in Nat /\ calls <= calls'
  BY CallsFacts
<1>2. /\ receivers[q] # <<>> /\ state[r] = "CHANNEL_R" /\ Handoff(me, r)
      /\ UNCHANGED <<receivers, senders>>
      /\ UNCHANGED <<timers, queued, done, batch, request, answer>>
  BY DEF HandoffSend, timerVars, reqVars
<1>3. r \in Threads /\ r = Head(receivers[chan[r]])
  BY <1>2, HeadsAreIn
<1>4. CallInv' /\ Reasons /\ QuietTimers /\ QuietLookups
  BY <1>1, <1>2, <1>3, HandoffKeepsCalls
<1>5. QuietQueues
  <2>1. {call[me], c} \cap (Receiving \cup Sending) = {}
    BY <1>1 DEF Receiving, Sending
  <2> QED BY <1>2, <2>1, FunctionIsQuiet
<1> QED BY <1>4, <1>5, PartsAreGood

LEMMA SendToReceiverGood ==
  ASSUME IInv, WaitInv, NEW me \in Threads, NEW c \in Channels,
         SendToReceiver(me, c), UNCHANGED <<timerVars, reqVars>>
  PROVE  Good
<1>1. /\ Calls(me, "send") /\ HandoffSend(me, c, calls + 1) /\ UNCHANGED <<call, chan>>
      /\ c \in Queues /\ call[me] = "none"
  BY DEF SendToReceiver, Calls, Queues
<1>2. PlaceFits("none", chan[me])
  BY <1>1 DEF WaitInv, QueueInv
<1>3. call' = [call EXCEPT ![me] = "none"] /\ chan' = [chan EXCEPT ![me] = chan[me]]
  BY <1>1 DEF IInv, TypeOK, ChannelTypeOK
<1> QED BY <1>1, <1>2, <1>3, HandoffSendGood

(* The second half of a function that had linked its caller.               *)
LEMMA ReceiverReturnsGood ==
  ASSUME IInv, WaitInv, NEW me \in Threads, NEW q \in Queues,
         NEW op \in Receiving, Resumed(me, op), chan[me] = q,
         receivers' = [receivers EXCEPT ![q] = Unlink(@, me)],
         UNCHANGED <<senders, hubVars>>, Returns(me), UNCHANGED <<timerVars, reqVars>>
  PROVE  Good
<1>1. /\ current = me /\ call[me] \in Receiving
      /\ call' = [call EXCEPT ![me] = "none"] /\ calls' = calls
      /\ call[me] \notin {"sleep", "getaddrinfo"}
      /\ UNCHANGED <<timers, queued, done, batch, request, answer>>
      /\ UNCHANGED hubVars
  BY DEF Resumed, Returns, timerVars, reqVars, Receiving
<1>2. QueueInv'
  BY <1>1, UnlinkReceiverKeeps DEF IInv, WaitInv
<1>3. calls \in Nat /\ calls' \in Nat /\ calls <= calls' /\ "none" \notin {"sleep", "getaddrinfo"}
  BY <1>1 DEF IInv, TypeOK, ChannelTypeOK
<1>4. CallInv' /\ Reasons /\ QuietTimers /\ QuietLookups
  BY <1>1, <1>3, StayKeepsAll
<1> QED BY <1>2, <1>4, PartsAreGood

LEMMA SendReturnsGood ==
  ASSUME IInv, WaitInv, NEW me \in Threads, NEW c \in Channels,
         SendReturns(me, c), UNCHANGED <<timerVars, reqVars>>
  PROVE  Good
<1>1. /\ current = me /\ call[me] \in Sending /\ chan[me] = c /\ c \in Queues
      /\ call' = [call EXCEPT ![me] = "none"] /\ calls' = calls
      /\ call[me] \notin {"sleep", "getaddrinfo"}
      /\ UNCHANGED <<timers, queued, done, batch, request, answer>>
      /\ senders' = [senders EXCEPT ![c] = Unlink(@, me)]
      /\ UNCHANGED receivers /\ UNCHANGED hubVars /\ Returns(me)
  BY DEF SendReturns, Resumed, Returns, timerVars, reqVars, Sending, Queues
<1>2. QueueInv'
  BY <1>1, UnlinkSenderKeeps DEF IInv, WaitInv
<1>3. calls \in Nat /\ calls' \in Nat /\ calls <= calls' /\ "none" \notin {"sleep", "getaddrinfo"}
  BY <1>1 DEF IInv, TypeOK, ChannelTypeOK
<1>4. CallInv' /\ Reasons /\ QuietTimers /\ QuietLookups
  BY <1>1, <1>3, StayKeepsAll
<1> QED BY <1>2, <1>4, PartsAreGood

LEMMA ChannelStepGood ==
  ASSUME IInv, WaitInv, NEW me \in Threads, NEW c \in Channels,
         ChannelStep(me, c), UNCHANGED <<timerVars, reqVars>>
  PROVE  Good
<1>1. /\ c \in Queues /\ "receive" \in Receiving /\ PlaceFits("receive", c)
      /\ "receive" # "yield"
  BY DEF Queues, Receiving, PlaceFits
<1>2. CASE ReceiveBlocks(me, c)
  BY <1>1, <1>2, BlockReceiveGood DEF ReceiveBlocks
<1>3. CASE ReceiveReturns(me, c)
  BY <1>1, <1>3, ReceiverReturnsGood DEF ReceiveReturns
<1> QED BY <1>2, <1>3, ReceiveFromSenderGood, SendToReceiverGood, SendBlocksGood,
           SendReturnsGood DEF ChannelStep

-----------------------------------------------------------------------------
(* Semaphores.                                                             *)

(* A call that neither switches nor links.                                 *)
LEMMA PlainCallGood ==
  ASSUME IInv, WaitInv, NEW me \in Threads, NEW api, Calls(me, api),
         UNCHANGED <<hubVars, receivers, senders, call, chan, timerVars, reqVars>>
  PROVE  Good
<1>1. /\ current = me /\ call[me] = "none"
      /\ calls \in Nat /\ calls' \in Nat /\ calls <= calls'
  BY CallsFacts
<1>2. /\ UNCHANGED <<receivers, senders, call, chan>> /\ UNCHANGED hubVars
      /\ UNCHANGED <<timers, queued, done, batch, request, answer>>
  BY DEF timerVars, reqVars
<1>3. call' = [call EXCEPT ![me] = "none"]
  BY <1>1, <1>2 DEF IInv, TypeOK, ChannelTypeOK
<1>4. CallInv' /\ Reasons /\ QuietTimers /\ QuietLookups
  BY <1>1, <1>2, <1>3, StayKeepsAll
<1>5. QuietQueues
  BY <1>2 DEF QuietQueues
<1> QED BY <1>4, <1>5, PartsAreGood

(* The second half of a function that had not linked its caller.           *)
LEMMA PlainReturnGood ==
  ASSUME IInv, WaitInv, NEW me \in Threads, NEW op \in {"release", "yield"},
         Resumed(me, op), Returns(me),
         UNCHANGED <<hubVars, receivers, senders, timerVars, reqVars>>
  PROVE  Good
<1>1. /\ current = me /\ call[me] = op
      /\ call' = [call EXCEPT ![me] = "none"] /\ chan' = [chan EXCEPT ![me] = Null]
      /\ calls' = calls /\ UNCHANGED hubVars
      /\ UNCHANGED <<receivers, senders, timers, queued, done, batch, request, answer>>
  BY DEF Resumed, Returns, timerVars, reqVars
<1>2. /\ calls \in Nat /\ calls' \in Nat /\ calls <= calls'
      /\ {"none", op} \cap {"sleep", "getaddrinfo"} = {}
  BY <1>1 DEF IInv, TypeOK, ChannelTypeOK
<1>3. CallInv' /\ Reasons /\ QuietTimers /\ QuietLookups
  BY <1>1, <1>2, StayKeepsAll
<1>4. QuietQueues
  <2>1. {call[me], "none"} \cap (Receiving \cup Sending) = {} /\ PlaceFits("none", Null)
    BY <1>1 DEF Receiving, Sending, PlaceFits
  <2> QED BY <1>1, <2>1, FunctionIsQuiet
<1> QED BY <1>3, <1>4, PartsAreGood

LEMMA SemaphoreStepGood ==
  ASSUME IInv, WaitInv, NEW me \in Threads, NEW s \in Semaphores,
         SemaphoreStep(me, s), UNCHANGED <<timerVars, reqVars>>
  PROVE  Good
<1>1. /\ s \in Queues /\ "acquire" \in Receiving
      /\ PlaceFits("acquire", s) /\ PlaceFits("release", s)
      /\ "acquire" # "yield"
  BY DEF Queues, Receiving, PlaceFits
<1>2. CASE AcquireAtOnce(me, s) \/ ReleaseIncrements(me, s)
  BY <1>2, PlainCallGood DEF AcquireAtOnce, ReleaseIncrements
<1>3. CASE AcquireBlocks(me, s)
  BY <1>1, <1>3, BlockReceiveGood DEF AcquireBlocks
<1>4. CASE AcquireReturns(me, s)
  BY <1>1, <1>4, ReceiverReturnsGood DEF AcquireReturns
<1>5. CASE ReleaseToWaiter(me, s)
  BY <1>1, <1>5, HandoffSendGood DEF ReleaseToWaiter
<1>6. CASE ReleaseReturns(me, s)
  BY <1>6, PlainReturnGood DEF ReleaseReturns
<1> QED BY <1>2, <1>3, <1>4, <1>5, <1>6 DEF SemaphoreStep

-----------------------------------------------------------------------------
(* Cothreads.                                                              *)
LEMMA SpawnGood ==
  ASSUME IInv, WaitInv, NEW me \in Threads, NEW t \in Cothreads, Spawn(me, t)
  PROVE  Good
<1>1. /\ current = me /\ call[me] = "none" /\ t \in Threads
      /\ calls \in Nat /\ calls' \in Nat /\ calls <= calls'
  BY CallsFacts DEF Spawn, Threads
<1>2. /\ state[t] = "NEW" /\ Handoff(me, t)
      /\ UNCHANGED <<receivers, senders, call, chan>>
      /\ UNCHANGED <<timers, queued, done, batch, request, answer>>
  BY DEF Spawn, chanVars, timerVars, reqVars
<1>3. call' = [call EXCEPT ![me] = "none"]
  BY <1>1, <1>2 DEF IInv, TypeOK, ChannelTypeOK
<1>4. CallInv' /\ Reasons /\ QuietTimers /\ QuietLookups
  BY <1>1, <1>2, <1>3, HandoffKeepsCalls
<1>5. QuietQueues
  BY <1>2 DEF QuietQueues
<1> QED BY <1>4, <1>5, PartsAreGood

LEMMA CothreadInitGood ==
  ASSUME IInv, WaitInv, NEW me \in Threads, NEW t \in Cothreads, CothreadInit(me, t)
  PROVE  Good
<1>1. calls \in Nat /\ calls' \in Nat /\ calls <= calls'
  BY CallsFacts DEF CothreadInit
<1>2. /\ state[t] = "DEAD" /\ state' = [state EXCEPT ![t] = "NEW"]
      /\ UNCHANGED <<current, ready, hubpc>>
      /\ UNCHANGED <<receivers, senders, call, chan>>
      /\ UNCHANGED <<timers, queued, done, batch, request, answer>>
  BY DEF CothreadInit, timerVars, reqVars
<1>3. state \in [Threads -> States]
  BY DEF IInv, TypeOK, HubTypeOK
<1>4. CallInv'
  <2>1. \A x \in Threads : \/ state'[x] = state[x]
                           \/ state[x] = "DEAD" /\ state'[x] = "NEW"
    BY <1>2, <1>3
  <2> QED BY <1>2, <2>1 DEF WaitInv, CallInv, Fits
<1>5. Reasons
  BY <1>2 DEF Reasons
<1>6. QuietQueues /\ QuietTimers /\ QuietLookups
  BY <1>1, <1>2 DEF QuietQueues, QuietTimers, QuietLookups
<1> QED BY <1>4, <1>5, <1>6, PartsAreGood

LEMMA FinishGood ==
  ASSUME IInv, WaitInv, NEW me \in Threads \ {Main}, Finish(me)
  PROVE  Good
<1>1. /\ current = me /\ call[me] = "none" /\ Leave(me) /\ me # Hub
      /\ me \in Contexts \ {Main}
      /\ UNCHANGED <<receivers, senders, call, chan, calls>>
      /\ UNCHANGED <<timers, queued, done, batch, request, answer>>
  BY DEF Finish, chanVars, timerVars, reqVars, Contexts, Threads
<1>2. PICK to \in Contexts :
         /\ Passes(me, to, "DEAD")
         /\ to \in Cothreads => state[to] = "READY"
         /\ to = Main => state[to] = "READY" \/ (ready = <<>> /\ stacklet[Hub] = Null)
         /\ hubpc' = hubpc
  BY <1>1, LeavePasses DEF IInv
<1>3. CallInv'
  BY <1>1, <1>2, PassKeepsCalls DEF WaitInv, Fits
<1>4. /\ current' = to /\ to # me
      /\ to \in Cothreads => call[to] \in {"none", "release"}
      /\ calls \in Nat
  <2>1. calls \in Nat
    BY DEF IInv, TypeOK, ChannelTypeOK
  <2>2. to \in Cothreads => to \in Threads
    BY DEF Threads
  <2> QED BY <1>2, <2>1, <2>2 DEF Passes, WaitInv, CallInv, Fits
<1>5. Reasons
  <2>1. ASSUME to = Main, state[to] # "READY" PROVE MainIsForced
    <3>1. ready = <<>> /\ stacklet[Hub] = Null
      BY <1>2, <2>1
    <3>2. hubpc = "off"
      BY <1>1, <3>1 DEF IInv, SchedInv, HandlesAreFresh, Contexts, Threads
    <3> QED BY <3>1, <3>2 DEF MainIsForced
  <2> QED BY <1>2, <1>4, <2>1, ReadyIsAReason DEF Reasons, Threads
<1>6. QuietQueues /\ QuietTimers
  BY <1>1, <1>4 DEF QuietQueues, QuietTimers
<1>7. QuietLookups
  BY <1>1, <1>2, <1>4 DEF QuietLookups
<1> QED BY <1>3, <1>5, <1>6, <1>7, PartsAreGood

-----------------------------------------------------------------------------
(* Sleeping and waiting.                                                   *)
LEMMA SleepInternalGood ==
  ASSUME IInv, WaitInv, NEW me \in Threads, NEW api, api # "yield",
         Calls(me, api), NEW zero, NEW ref, SleepInternal(me, zero, ref)
  PROVE  Good
<1>1. /\ current = me /\ call[me] = "none"
      /\ calls \in Nat /\ calls' \in Nat /\ calls <= calls'
  BY CallsFacts
<1>2. /\ timers' = timers \cup {me} /\ call' = [call EXCEPT ![me] = "sleep"]
      /\ Yield(me, [state EXCEPT ![me] = "TIMER"])
      /\ UNCHANGED <<receivers, senders, chan>>
      /\ UNCHANGED <<queued, done, batch, request, answer>>
  BY DEF SleepInternal, StartTimer, reqVars
<1>3. "TIMER" \in States \ {"NEW", "READY", "DEAD"} /\ Fits("TIMER", "sleep")
  BY DEF States, Fits
<1>4. CallInv' /\ Reasons /\ QuietLookups
  BY <1>1, <1>2, <1>3, YieldKeepsCalls
<1>5. /\ call \in [Threads -> Pending] /\ chan \in [Threads -> Queues \cup {Null}]
      /\ timers \subseteq Threads
  BY DEF IInv, TypeOK, ChannelTypeOK, LoopTypeOK
<1>6. QuietQueues
  <2>1. PlaceFits("sleep", chan[me])
    BY <1>1 DEF WaitInv, QueueInv, PlaceFits
  <2>2. {call[me], "sleep"} \cap (Receiving \cup Sending) = {}
    BY <1>1 DEF Receiving, Sending
  <2>3. chan' = [chan EXCEPT ![me] = chan[me]]
    BY <1>2, <1>5
  <2> QED BY <1>2, <2>1, <2>2, <2>3, FunctionIsQuiet
<1>7. TimerInv'
  <2>1. \A t \in timers' : call'[t] = "sleep"
    BY <1>2, <1>5 DEF WaitInv, TimerInv
  <2>2. \A t \in Threads : t # current' /\ call'[t] = "sleep" => t \in timers'
    BY <1>1, <1>2, <1>5 DEF WaitInv, TimerInv
  <2> QED BY <2>1, <2>2 DEF TimerInv
<1> QED BY <1>4, <1>6, <1>7, PartsAreGood

LEMMA SleepReturnsGood ==
  ASSUME IInv, WaitInv, NEW me \in Threads, SleepReturns(me)
  PROVE  Good
<1>1. /\ current = me /\ call[me] = "sleep" /\ timers' = timers \ {me}
      /\ call' = [call EXCEPT ![me] = "none"] /\ chan' = [chan EXCEPT ![me] = Null]
      /\ calls' = calls /\ UNCHANGED hubVars /\ current' = current
      /\ UNCHANGED <<receivers, senders, queued, done, batch, request, answer>>
  BY DEF SleepReturns, Resumed, Returns, reqVars, hubVars
<1>2. /\ calls \in Nat /\ calls' \in Nat /\ calls <= calls'
      /\ call \in [Threads -> Pending] /\ timers \subseteq Threads
      /\ "none" # "getaddrinfo" /\ call[me] # "getaddrinfo"
  BY <1>1 DEF IInv, TypeOK, ChannelTypeOK, LoopTypeOK
<1>3. CallInv' /\ Reasons /\ QuietLookups
  BY <1>1, <1>2, StayKeepsAll
<1>4. QuietQueues
  <2>1. {call[me], "none"} \cap (Receiving \cup Sending) = {} /\ PlaceFits("none", Null)
    BY <1>1 DEF Receiving, Sending, PlaceFits
  <2> QED BY <1>1, <2>1, FunctionIsQuiet
<1>5. TimerInv'
  BY <1>1, <1>2 DEF WaitInv, TimerInv
<1> QED BY <1>3, <1>4, <1>5, PartsAreGood

LEMMA WaitForLoopGood ==
  ASSUME IInv, WaitInv, NEW me \in Threads, WaitForLoop(me)
  PROVE  Good
<1>1. /\ current = me /\ call[me] = "none" /\ state[me] = "CURRENT"
      /\ calls \in Nat /\ calls' \in Nat /\ calls <= calls'
  BY CallsFacts DEF WaitForLoop
<1>2. /\ call' = [call EXCEPT ![me] = "yield"] /\ Yield(me, state)
      /\ UNCHANGED <<receivers, senders, chan>>
      /\ UNCHANGED <<timers, queued, done, batch, request, answer>>
  BY DEF WaitForLoop, chanVars, timerVars, reqVars
<1>3. /\ "CURRENT" \in States \ {"NEW", "READY", "DEAD"} /\ Fits("CURRENT", "yield")
      /\ "yield" \notin {"sleep", "getaddrinfo"}
  BY DEF States, Fits
<1>4. state = [state EXCEPT ![me] = "CURRENT"] /\ chan' = [chan EXCEPT ![me] = chan[me]]
  BY <1>1, <1>2 DEF IInv, TypeOK, HubTypeOK, ChannelTypeOK
<1>5. CallInv' /\ Reasons /\ QuietTimers /\ QuietLookups
  <2>1. Yield(me, [state EXCEPT ![me] = "CURRENT"])
    BY <1>2, <1>4
  <2> QED BY <1>1, <1>2, <1>3, <2>1, YieldKeepsCalls
<1>6. QuietQueues
  <2>1. PlaceFits("yield", chan[me])
    BY <1>1 DEF WaitInv, QueueInv, PlaceFits
  <2>2. {call[me], "yield"} \cap (Receiving \cup Sending) = {}
    BY <1>1 DEF Receiving, Sending
  <2> QED BY <1>2, <1>4, <2>1, <2>2, FunctionIsQuiet
<1> QED BY <1>5, <1>6, PartsAreGood

-----------------------------------------------------------------------------
(* Lookups.                                                                *)
LEMMA GetaddrinfoGood ==
  ASSUME IInv, WaitInv, NEW me \in Threads, Getaddrinfo(me)
  PROVE  Good
<1> DEFINE new == <<calls + 1, me>>
<1>1. /\ current = me /\ call[me] = "none"
      /\ calls \in Nat /\ calls' \in Nat /\ calls <= calls' /\ calls' = calls + 1
  BY CallsFacts DEF Getaddrinfo
<1>2. /\ queued' = queued \cup {new}
      /\ request' = [request EXCEPT ![me] = calls + 1]
      /\ answer'  = [answer EXCEPT ![me] = 0]
      /\ call'    = [call EXCEPT ![me] = "getaddrinfo"]
      /\ Yield(me, [state EXCEPT ![me] = "GETADDRINFO"])
      /\ UNCHANGED <<receivers, senders, chan, timers, done, batch>>
  BY DEF Getaddrinfo, chanVars, timerVars
<1>3. /\ "GETADDRINFO" \in States \ {"NEW", "READY", "DEAD"}
      /\ Fits("GETADDRINFO", "getaddrinfo") /\ "getaddrinfo" # "sleep"
  BY DEF States, Fits
<1>4. /\ CallInv' /\ Reasons /\ QuietTimers /\ current' # me
      /\ current' \in Threads => call[current'] \in {"none", "release"}
      /\ hubpc = "poll" => hubpc' = "poll"
  BY <1>1, <1>2, <1>3, YieldKeepsCalls
<1>5. /\ call \in [Threads -> Pending] /\ chan \in [Threads -> Queues \cup {Null}]
      /\ request \in [Threads -> 0..MaxCalls] /\ answer \in [Threads -> 0..MaxCalls]
  BY DEF IInv, TypeOK, ChannelTypeOK, LoopTypeOK
<1>6. QuietQueues
  <2>1. PlaceFits("getaddrinfo", chan[me])
    BY <1>1 DEF WaitInv, QueueInv, PlaceFits
  <2>2. {call[me], "getaddrinfo"} \cap (Receiving \cup Sending) = {}
    BY <1>1 DEF Receiving, Sending
  <2>3. chan' = [chan EXCEPT ![me] = chan[me]]
    BY <1>2, <1>5
  <2> QED BY <1>2, <2>1, <2>2, <2>3, FunctionIsQuiet
<1>7. /\ \A r \in Lookups : r[1] \in Nat /\ r[2] \in Threads /\ r[1] <= calls
      /\ Lookups' = Lookups \cup {new}
  BY <1>2, LookupTypes DEF IInv, WaitInv, LookupInv, Lookups
<1>8. new \notin Lookups
  BY <1>1, <1>7
<1>9. /\ \A r \in Lookups : r[2] # Main => r[2] # me
      /\ \A x \in Threads \ {me} : /\ call'[x] = call[x] /\ request'[x] = request[x]
                                    /\ answer'[x] = answer[x]
      /\ call'[me] = "getaddrinfo" /\ request'[me] = calls + 1 /\ answer'[me] = 0
  BY <1>1, <1>2, <1>5 DEF WaitInv, LookupInv
<1>10. LookupInv'
  <2>1. /\ queued' \cap ToSet(done') = {} /\ queued' \cap ToSet(batch') = {}
        /\ IsInjective(done') /\ IsInjective(batch') /\ ToSet(done') \cap ToSet(batch') = {}
    BY <1>2, <1>8 DEF WaitInv, LookupInv, Lookups
  <2>2. hubpc' # "poll" => batch' = <<>>
    BY <1>2, <1>4 DEF WaitInv, LookupInv
  <2>3. \A r \in Lookups' : r[1] <= calls'
    BY <1>1, <1>7
  <2>4. \A t \in Threads : t # current' /\ call'[t] = "getaddrinfo" =>
          <<request'[t], t>> \in Lookups'
    BY <1>1, <1>7, <1>9 DEF WaitInv, LookupInv
  <2>5. ASSUME NEW r \in Lookups', r[2] # Main
        PROVE  /\ r[2] # current' /\ call'[r[2]] = "getaddrinfo"
               /\ r[1] = request'[r[2]] /\ answer'[r[2]] = 0
    <3>1. CASE r = new
      BY <1>4, <1>9, <3>1
    <3>2. CASE r \in Lookups
      BY <1>4, <1>7, <1>9, <2>5, <3>2 DEF WaitInv, LookupInv
    <3> QED BY <1>7, <3>1, <3>2
  <2> QED BY <2>1, <2>2, <2>3, <2>4, <2>5 DEF LookupInv
<1> QED BY <1>4, <1>6, <1>10, PartsAreGood

LEMMA GetaddrinfoReturnsGood ==
  ASSUME IInv, WaitInv, NEW me \in Threads, GetaddrinfoReturns(me)
  PROVE  Good
<1>1. /\ current = me /\ call[me] = "getaddrinfo"
      /\ call' = [call EXCEPT ![me] = "none"] /\ chan' = [chan EXCEPT ![me] = Null]
      /\ calls' = calls /\ UNCHANGED hubVars /\ current' = current /\ hubpc' = hubpc
      /\ UNCHANGED <<receivers, senders, timers, queued, done, batch, request, answer>>
  BY DEF GetaddrinfoReturns, Resumed, Returns, reqVars, timerVars, hubVars
<1>2. /\ calls \in Nat /\ calls' \in Nat /\ calls <= calls'
      /\ call \in [Threads -> Pending]
      /\ "none" # "sleep" /\ call[me] # "sleep"
  BY <1>1 DEF IInv, TypeOK, ChannelTypeOK
<1>3. CallInv' /\ Reasons /\ QuietTimers
  BY <1>1, <1>2, StayKeepsAll
<1>4. QuietQueues
  <2>1. {call[me], "none"} \cap (Receiving \cup Sending) = {} /\ PlaceFits("none", Null)
    BY <1>1 DEF Receiving, Sending, PlaceFits
  <2> QED BY <1>1, <2>1, FunctionIsQuiet
<1>5. LookupInv'
  <2>1. Lookups' = Lookups /\ \A r \in Lookups : r[2] \in Threads
    BY <1>1, LookupTypes DEF Lookups, IInv
  <2>2. \A t \in Threads : t # me => call'[t] = call[t]
    BY <1>1
  <2> QED BY <1>1, <1>2, <2>1, <2>2 DEF WaitInv, LookupInv
<1> QED BY <1>3, <1>4, <1>5, PartsAreGood

LEMMA CothreadStepGood ==
  ASSUME IInv, WaitInv, NEW me \in Threads, CothreadStep(me)
  PROVE  Good
<1>1. CASE \E t \in Cothreads : Spawn(me, t) \/ CothreadInit(me, t)
  BY <1>1, SpawnGood, CothreadInitGood
<1>2. CASE me # Main /\ Finish(me)
  BY <1>2, FinishGood
<1>3. CASE \E c \in Channels : ChannelStep(me, c) /\ UNCHANGED <<timerVars, reqVars>>
  BY <1>3, ChannelStepGood
<1>4. CASE \E s \in Semaphores : SemaphoreStep(me, s) /\ UNCHANGED <<timerVars, reqVars>>
  BY <1>4, SemaphoreStepGood
<1>5. CASE LoopStep(me)
  <2>1. CASE Sleep(me)
    BY <2>1, SleepInternalGood DEF Sleep
  <2>2. CASE WaitTimeout(me)
    BY <2>2, SleepInternalGood DEF WaitTimeout
  <2>3. CASE WaitReturns(me)
    BY <2>3, PlainReturnGood DEF WaitReturns
  <2>4. CASE GetaddrinfoFails(me)
    BY <2>4, PlainCallGood DEF GetaddrinfoFails, chanVars
  <2> QED BY <1>5, <2>1, <2>2, <2>3, <2>4, SleepReturnsGood, WaitForLoopGood,
             GetaddrinfoGood, GetaddrinfoReturnsGood DEF LoopStep
<1> QED BY <1>1, <1>2, <1>3, <1>4, <1>5 DEF CothreadStep

-----------------------------------------------------------------------------
(* The hub.                                                                *)
LEMMA StartIterationGood ==
  ASSUME IInv, WaitInv, LoopEnter \/ LoopAgain
  PROVE  Good
<1>1. /\ UNCHANGED <<current, state, ready, receivers, senders, call, chan, calls>>
      /\ UNCHANGED <<timers, queued, done, batch, request, answer>>
      /\ batch = <<>>
  BY DEF LoopEnter, LoopAgain, StartIteration, WaitInv, LookupInv, chanVars, reqVars
<1>2. CallInv' /\ Reasons
  BY <1>1 DEF Reasons, WaitInv, CallInv
<1>3. QuietQueues /\ QuietTimers
  BY <1>1 DEF QuietQueues, QuietTimers
<1>4. LookupInv'
  <2>1. Lookups' = Lookups
    BY <1>1 DEF Lookups
  <2> QED BY <1>1, <2>1 DEF WaitInv, LookupInv
<1> QED BY <1>2, <1>3, <1>4, PartsAreGood

LEMMA PollGood ==
  ASSUME IInv, WaitInv, Poll
  PROVE  Good
<1>1. /\ UNCHANGED <<current, state, ready, receivers, senders, call, chan, calls>>
      /\ UNCHANGED <<timers, queued, request, answer>>
      /\ batch' = done /\ done' = <<>> /\ hubpc' = "poll" /\ batch = <<>>
  BY DEF Poll, WaitInv, LookupInv, chanVars, timerVars
<1>2. CallInv' /\ Reasons
  BY <1>1 DEF Reasons, WaitInv, CallInv
<1>3. QuietQueues /\ QuietTimers
  BY <1>1 DEF QuietQueues, QuietTimers
<1>4. LookupInv'
  <2>1. ToSet(<<>>) = {} /\ IsInjective(<<>>)
    BY DEF ToSet, IsInjective
  <2>2. Lookups' = Lookups
    BY <1>1, <2>1 DEF Lookups
  <2> QED BY <1>1, <2>1, <2>2 DEF WaitInv, LookupInv
<1> QED BY <1>2, <1>3, <1>4, PartsAreGood

LEMMA TimerFiresGood ==
  ASSUME IInv, WaitInv, NEW t \in Threads, TimerFires(t)
  PROVE  Good
<1>1. /\ current = Hub /\ t \in due /\ timers' = timers \ {t}
      /\ state[t] = "TIMER" /\ Switch(Hub, t, state, ready)
      /\ UNCHANGED <<receivers, senders, call, chan, calls>>
      /\ UNCHANGED <<queued, done, batch, request, answer>>
  BY DEF TimerFires, chanVars, reqVars
<1>2. Passes(Hub, t, "CURRENT") /\ hubpc' = hubpc
  BY <1>1, CallbackPasses DEF IInv
<1>3. Hub \notin Threads /\ timers \subseteq Threads /\ calls \in Nat
  BY DEF Threads, IInv, TypeOK, LoopTypeOK, ChannelTypeOK
<1>4. CallInv'
  BY <1>1, <1>2, <1>3, PassKeepsCalls DEF WaitInv
<1>5. current' = t /\ current # t /\ call[t] = "sleep"
  BY <1>1, <1>2, <1>3 DEF Passes, WaitInv, CallInv, Fits
<1>6. Reasons
  <2>1. ForItsReason(t)
    BY <1>1 DEF ForItsReason
  <2> QED BY <1>5, <2>1 DEF Reasons
<1>7. TimerInv'
  BY <1>1, <1>3, <1>5 DEF WaitInv, TimerInv
<1>8. QuietQueues
  BY <1>1 DEF QuietQueues
<1>9. QuietLookups
  BY <1>1, <1>2, <1>3, <1>5 DEF QuietLookups
<1> QED BY <1>4, <1>6, <1>7, <1>8, <1>9, PartsAreGood

LEMMA AnswerGood ==
  ASSUME IInv, WaitInv, Answer
  PROVE  Good
<1> DEFINE r  == Head(batch)
           my == Head(batch)[2]
<1>1. /\ current = Hub /\ batch # <<>> /\ batch' = Tail(batch) /\ hubpc = "poll"
      /\ state[my] = "GETADDRINFO" /\ Switch(Hub, my, state, ready)
      /\ answer' = [answer EXCEPT ![my] = r[1]]
      /\ UNCHANGED <<receivers, senders, call, chan, calls>>
      /\ UNCHANGED <<timers, queued, done, request>>
  BY DEF Answer, histVars, timerVars
<1>2. /\ batch \in Seq(Requests) /\ answer \in [Threads -> 0..MaxCalls]
      /\ request \in [Threads -> 0..MaxCalls] /\ Hub \notin Threads
      /\ \A x \in Lookups : x[2] \in Threads /\ x = <<x[1], x[2]>>
      /\ Main \in Threads
  BY LookupTypes DEF IInv, TypeOK, LoopTypeOK, Threads
<1>3. /\ r \in ToSet(batch) /\ r \in Lookups /\ my \in Threads
      /\ ToSet(batch) = ToSet(batch') \cup {r}
      /\ IsInjective(batch') /\ r \notin ToSet(batch')
  BY <1>1, <1>2, TailElements DEF WaitInv, LookupInv, Lookups
<1>4. Passes(Hub, my, "CURRENT") /\ hubpc' = hubpc
  BY <1>1, <1>3, CallbackPasses DEF IInv
<1>5. CallInv'
  BY <1>1, <1>2, <1>4, PassKeepsCalls DEF WaitInv
<1>6. current' = my /\ current # my /\ call[my] = "getaddrinfo"
  BY <1>1, <1>2, <1>3, <1>4 DEF Passes, WaitInv, CallInv, Fits
<1>7. Reasons
  <2>1. ASSUME my # Main PROVE ForItsReason(my)
    <3>1. answer[my] = 0 /\ request[my] = r[1]
      BY <1>3, <2>1 DEF WaitInv, LookupInv
    <3>2. answer'[my] = r[1]
      BY <1>1, <1>2, <1>3
    <3> QED BY <1>1, <3>1, <3>2 DEF ForItsReason
  <2> QED BY <1>6, <2>1 DEF Reasons
<1>8. QuietQueues /\ QuietTimers
  BY <1>1, <1>2, <1>6 DEF QuietQueues, QuietTimers
<1>9. LookupInv'
  <2>1. /\ Lookups' = Lookups \ {r}
    BY <1>1, <1>3 DEF WaitInv, LookupInv, Lookups
  <2>2. ASSUME NEW t \in Threads, t # current', call'[t] = "getaddrinfo"
        PROVE  <<request'[t], t>> \in Lookups'
    <3>1. t # my /\ <<request[t], t>> \in Lookups
      BY <1>1, <1>2, <1>6, <2>2 DEF WaitInv, LookupInv
    <3>2. <<request[t], t>> # r
      BY <3>1
    <3> QED BY <1>1, <2>1, <3>1, <3>2
  <2>3. ASSUME NEW x \in Lookups', x[2] # Main
        PROVE  /\ x[2] # current' /\ call'[x[2]] = "getaddrinfo"
               /\ x[1] = request'[x[2]] /\ answer'[x[2]] = 0
    <3>1. /\ x \in Lookups /\ x # r /\ x[2] \in Threads /\ call[x[2]] = "getaddrinfo"
          /\ x[1] = request[x[2]] /\ answer[x[2]] = 0
      BY <1>2, <2>1, <2>3 DEF WaitInv, LookupInv
    <3>2. x[2] # my
      <4>1. SUFFICES ASSUME x[2] = my PROVE FALSE
        OBVIOUS
      <4>2. r[1] = request[my] /\ x[1] = request[my]
        BY <1>3, <2>3, <3>1, <4>1 DEF WaitInv, LookupInv
      <4>3. x = <<x[1], x[2]>> /\ r = <<r[1], r[2]>>
        BY <1>2, <1>3, <3>1
      <4> QED BY <3>1, <4>1, <4>2, <4>3
    <3> QED BY <1>1, <1>2, <1>3, <1>6, <3>1, <3>2
  <2>4. /\ queued' \cap ToSet(done') = {} /\ queued' \cap ToSet(batch') = {}
        /\ IsInjective(done') /\ IsInjective(batch') /\ ToSet(done') \cap ToSet(batch') = {}
        /\ \A x \in Lookups' : x[1] <= calls' 
    BY <1>1, <1>3, <2>1 DEF WaitInv, LookupInv
  <2> QED BY <1>1, <1>4, <2>2, <2>3, <2>4 DEF LookupInv
<1> QED BY <1>5, <1>7, <1>8, <1>9, PartsAreGood

LEMMA HubStopsGood ==
  ASSUME IInv, WaitInv, HubStops
  PROVE  Good
<1>1. /\ current = Hub /\ Leave(Hub) /\ ~LoopAlive /\ batch = <<>>
      /\ UNCHANGED <<receivers, senders, call, chan, calls>>
      /\ UNCHANGED <<timers, queued, done, batch, request, answer>>
      /\ Hub \in Contexts \ {Main} /\ Hub \notin Threads
  BY DEF HubStops, chanVars, timerVars, reqVars, Contexts, Threads, WaitInv, LookupInv
<1>2. PICK to \in Contexts :
         /\ Passes(Hub, to, "DEAD")
         /\ to \in Cothreads => state[to] = "READY"
         /\ to = Main => state[to] = "READY" \/ (ready = <<>> /\ stacklet[Hub] = Null)
  BY <1>1, LeavePasses DEF IInv
<1>3. CallInv'
  BY <1>1, <1>2, PassKeepsCalls DEF WaitInv
<1>4. /\ current' = to /\ to # Hub
      /\ to \in Cothreads => call[to] \in {"none", "release"}
  <2>1. to \in Cothreads => to \in Threads
    BY DEF Threads
  <2> QED BY <1>1, <1>2, <2>1 DEF Passes, WaitInv, CallInv, Fits
<1>5. Reasons
  BY <1>1, <1>2, <1>4, ReadyIsAReason DEF Reasons, Threads, MainIsForced
<1>6. QuietQueues /\ QuietTimers
  BY <1>1, <1>4 DEF QuietQueues, QuietTimers
<1>7. LookupInv'
  <2>1. Lookups' = Lookups /\ \A r \in Lookups : r[2] \in Threads /\ r[2] # Hub
    BY <1>1, LookupTypes DEF Lookups, IInv
  <2>2. \A r \in Lookups : r[2] # Main => r[2] # to
    BY <1>4, <2>1 DEF WaitInv, LookupInv, Threads
  <2>3. \A t \in Threads : t # current
    BY <1>1
  <2> QED BY <1>1, <1>4, <2>1, <2>2, <2>3 DEF WaitInv, LookupInv
<1> QED BY <1>3, <1>5, <1>6, <1>7, PartsAreGood

LEMMA WorkerFinishesGood ==
  ASSUME IInv, WaitInv, NEW r \in Requests, WorkerFinishes(r)
  PROVE  Good
<1>1. /\ UNCHANGED <<current, state, ready, hubpc, receivers, senders, call, chan, calls>>
      /\ UNCHANGED <<timers, batch, request, answer>>
      /\ r \in queued /\ queued' = queued \ {r} /\ done' = Append(done, r)
  BY DEF WorkerFinishes, hubVars, chanVars, timerVars
<1>2. CallInv' /\ Reasons
  BY <1>1 DEF Reasons, WaitInv, CallInv
<1>3. QuietQueues /\ QuietTimers
  BY <1>1 DEF QuietQueues, QuietTimers
<1>4. LookupInv'
  <2>1. r \notin ToSet(done) /\ r \notin ToSet(batch) /\ done \in Seq(Requests)
    BY <1>1, LookupTypes DEF WaitInv, LookupInv, IInv
  <2>2. ToSet(done') = ToSet(done) \cup {r} /\ IsInjective(done')
    BY <1>1, <2>1, AppendElements DEF WaitInv, LookupInv
  <2>3. Lookups' = Lookups
    BY <1>1, <2>2 DEF Lookups
  <2> QED BY <1>1, <2>1, <2>2, <2>3 DEF WaitInv, LookupInv
<1> QED BY <1>2, <1>3, <1>4, PartsAreGood

-----------------------------------------------------------------------------
LEMMA NextIsGood ==
  ASSUME IInv, WaitInv, Next
  PROVE  Good
<1>1. CASE HubStep
  BY <1>1, StartIterationGood, PollGood, TimerFiresGood, AnswerGood, HubStopsGood
     DEF HubStep
<1> QED BY <1>1, CothreadStepGood, WorkerFinishesGood DEF Next

LEMMA StutterKeepsWait ==
  ASSUME WaitInv, UNCHANGED vars
  PROVE  WaitInv'
<1>1. CallInv' /\ TimerInv'
  BY DEF WaitInv, CallInv, TimerInv, vars, hubVars, timerVars
<1>2. QueueInv'
  BY DEF WaitInv, QueueInv, LinksMatch, vars, chanVars
<1>3. LookupInv'
  BY DEF WaitInv, LookupInv, Lookups, vars, hubVars, reqVars
<1> QED BY <1>1, <1>2, <1>3 DEF WaitInv

LEMMA WaitInit == Init => WaitInv
<1> SUFFICES ASSUME Init PROVE WaitInv
  OBVIOUS
<1>1. ToSet(<<>>) = {} /\ IsInjective(<<>>)
  BY DEF ToSet, IsInjective
<1>2. CallInv /\ TimerInv
  BY <1>1 DEF Init, HubInit, ChannelInit, CallInv, TimerInv, Fits
<1>3. QueueInv
  BY <1>1 DEF Init, ChannelInit, QueueInv, LinksMatch, PlaceFits, Receiving, Sending
<1>4. LookupInv
  BY <1>1 DEF Init, HubInit, ChannelInit, LookupInv, Lookups
<1> QED BY <1>2, <1>3, <1>4 DEF WaitInv

(* Every behaviour of gevent keeps the invariant: whoever is suspended is  *)
(* linked where the function he is in has linked him.                      *)
THEOREM WaitersAreLinked == Spec => []WaitInv
<1>1. IInv /\ WaitInv /\ [Next]_vars => WaitInv'
  BY NextIsGood, StutterKeepsWait DEF Good
<1> QED BY <1>1, WaitInit, SchedulerInvariant, PTL DEF Spec

-----------------------------------------------------------------------------
(* The members of op are used one at a time.                               *)
LEMMA AtMostOne ==
  ASSUME NEW S, \A x, y \in S : x = y
  PROVE  Cardinality(S) <= 1 /\ (S = {} => Cardinality(S) = 0)
<1>1. CASE S = {}
  BY <1>1, FS_EmptySet
<1>2. CASE S # {}
  <2>1. PICK x \in S : S = {x}
    BY <1>2
  <2>2. Cardinality({x}) = 1
    BY FS_Singleton
  <2> QED BY <1>2, <2>1, <2>2
<1> QED BY <1>1, <1>2

LEMMA OneLink ==
  ASSUME IInv, WaitInv
  PROVE  OneLinkAtATime
<1> SUFFICES ASSUME NEW t \in Threads
             PROVE  Cardinality(Links(t))
                      <= IF state[t] \in {"NEW", "DEAD"} THEN 0 ELSE 1
  BY DEF OneLinkAtATime
<1> DEFINE InReady(x)   == \E i \in DOMAIN ready : ready[i] = t /\ x = <<"ready", Null, i>>
           Received(x)  == \E q \in Queues : \E i \in DOMAIN receivers[q] :
                              receivers[q][i] = t /\ x = <<"receivers", q, i>>
           Sent(x)      == \E q \in Queues : \E i \in DOMAIN senders[q] :
                              senders[q][i] = t /\ x = <<"senders", q, i>>
           Timed(x)     == t \in timers /\ x = <<"timer", Null, 0>>
<1>1. \A x \in Links(t) : InReady(x) \/ Received(x) \/ Sent(x) \/ Timed(x)
  <2> SUFFICES ASSUME NEW x \in Links(t)
               PROVE  InReady(x) \/ Received(x) \/ Sent(x) \/ Timed(x)
    OBVIOUS
  <2>1. CASE x \in {"ready"} \X {Null} \X Positions(ready, t)
    BY <2>1 DEF Positions
  <2>2. CASE \E q \in Queues : x \in {"receivers"} \X {q} \X Positions(receivers[q], t)
    BY <2>2 DEF Positions
  <2>3. CASE \E q \in Queues : x \in {"senders"} \X {q} \X Positions(senders[q], t)
    BY <2>3 DEF Positions
  <2>4. CASE x \in {"timer"} \X {Null} \X {0 : y \in timers \cap {t}}
    BY <2>4
  <2> QED BY <2>1, <2>2, <2>3, <2>4 DEF Links
(* What each of the links says about the function t is in.                 *)
<1>2. \A x : InReady(x) => state[t] = "READY" /\ call[t] \in {"none", "release"}
  BY DEF IInv, SchedInv, ReadyAreReady, CurrentIsCurrent, WaitInv, CallInv, Fits
<1>3. /\ receivers \in [Queues -> Seq(Threads)] /\ senders \in [Queues -> Seq(Threads)]
  BY DEF IInv, TypeOK, ChannelTypeOK
<1>4. \A q \in Queues : \A i \in DOMAIN receivers[q] : receivers[q][i] = t =>
         call[t] \in Receiving /\ chan[t] = q
  <2> SUFFICES ASSUME NEW q \in Queues, NEW i \in DOMAIN receivers[q], receivers[q][i] = t
               PROVE  call[t] \in Receiving /\ chan[t] = q
    OBVIOUS
  <2>1. t \in ToSet(receivers[q])
    BY <1>3, QueueElements, LenProperties
  <2> QED BY <2>1 DEF WaitInv, QueueInv, LinksMatch
<1>5. \A q \in Queues : \A i \in DOMAIN senders[q] : senders[q][i] = t =>
         call[t] \in Sending /\ chan[t] = q
  <2> SUFFICES ASSUME NEW q \in Queues, NEW i \in DOMAIN senders[q], senders[q][i] = t
               PROVE  call[t] \in Sending /\ chan[t] = q
    OBVIOUS
  <2>1. t \in ToSet(senders[q])
    BY <1>3, QueueElements, LenProperties
  <2> QED BY <2>1 DEF WaitInv, QueueInv, LinksMatch
<1>6. \A x : Received(x) => call[t] \in Receiving
  BY <1>4
<1>7. \A x : Sent(x) => call[t] \in Sending
  BY <1>5
<1>8. \A x : Timed(x) => call[t] = "sleep"
  BY DEF WaitInv, TimerInv
(* No two links of the same kind.                                          *)
<1>9. \A x, y : InReady(x) /\ InReady(y) => x = y
  BY DEF IInv, SchedInv, ReadyOnce
<1>10. \A x, y : Received(x) /\ Received(y) => x = y
  BY <1>4 DEF WaitInv, QueueInv, LinksMatch, IsInjective
<1>11. \A x, y : Sent(x) /\ Sent(y) => x = y
  BY <1>5 DEF WaitInv, QueueInv, LinksMatch, IsInjective
<1>12. \A x, y : Timed(x) /\ Timed(y) => x = y
  OBVIOUS
<1>13. state[t] \in {"NEW", "DEAD"} => call[t] = "none"
  BY DEF IInv, SchedInv, CurrentIsCurrent, WaitInv, CallInv, Fits
<1> HIDE DEF InReady, Received, Sent, Timed
<1>14. \A x, y \in Links(t) : x = y
  BY <1>1, <1>2, <1>6, <1>7, <1>8, <1>9, <1>10, <1>11, <1>12 DEF Receiving, Sending
<1>15. state[t] \in {"NEW", "DEAD"} => Links(t) = {}
  BY <1>1, <1>2, <1>6, <1>7, <1>8, <1>13 DEF Receiving, Sending
<1> QED BY <1>14, <1>15, AtMostOne

(* No wakeup is lost: whoever has lost the processor is linked where the   *)
(* event his state names will find him, once, or his lookup is under way.  *)
THEOREM NoWakeupIsLost == Spec => []WaitingWhereItsStateSays
<1>1. ASSUME IInv, WaitInv PROVE WaitingWhereItsStateSays
  <2>1. ASSUME NEW t \in Threads, Suspended(t)
        PROVE  \/ state[t] = "READY"     /\ Positions(ready, t) # {}
               \/ state[t] = "CHANNEL_R" /\ Positions(receivers[chan[t]], t) # {}
               \/ state[t] = "CHANNEL_S" /\ Positions(senders[chan[t]], t) # {}
               \/ state[t] = "TIMER"     /\ t \in timers
               \/ state[t] = "GETADDRINFO" /\ Answerable(t)
               \/ state[t] = "CURRENT"   /\ call[t] = "yield"
    <3>1. t # current /\ state[t] \notin {"NEW", "DEAD"} /\ Fits(state[t], call[t])
      BY <1>1, <2>1 DEF Suspended, WaitInv, CallInv
    <3>2. CASE state[t] = "READY"
      <4>1. ready \in Seq(Threads) /\ t \in ToSet(ready)
        BY <1>1, <3>2 DEF IInv, TypeOK, HubTypeOK, WaitInv, CallInv
      <4>2. \E i \in DOMAIN ready : ready[i] = t
        BY <4>1, QueueElements, LenProperties
      <4> QED BY <3>2, <4>2 DEF Positions
    <3>3. CASE call[t] \in Receiving
      <4>1. state[t] = "CHANNEL_R" /\ chan[t] \in Queues
        BY <1>1, <3>1, <3>3 DEF Fits, Receiving, WaitInv, QueueInv, PlaceFits, Queues
      <4>2. receivers[chan[t]] \in Seq(Threads) /\ t \in ToSet(receivers[chan[t]])
        BY <1>1, <3>3, <4>1 DEF IInv, TypeOK, ChannelTypeOK, WaitInv, QueueInv, LinksMatch
      <4>3. \E i \in DOMAIN receivers[chan[t]] : receivers[chan[t]][i] = t
        BY <4>2, QueueElements, LenProperties
      <4> QED BY <4>1, <4>3 DEF Positions
    <3>4. CASE call[t] \in Sending
      <4>1. state[t] = "CHANNEL_S" /\ chan[t] \in Queues
        BY <1>1, <3>1, <3>4 DEF Fits, Sending, WaitInv, QueueInv, PlaceFits, Queues
      <4>2. senders[chan[t]] \in Seq(Threads) /\ t \in ToSet(senders[chan[t]])
        BY <1>1, <3>4, <4>1 DEF IInv, TypeOK, ChannelTypeOK, WaitInv, QueueInv, LinksMatch
      <4>3. \E i \in DOMAIN senders[chan[t]] : senders[chan[t]][i] = t
        BY <4>2, QueueElements, LenProperties
      <4> QED BY <4>1, <4>3 DEF Positions
    <3>5. CASE state[t] = "TIMER"
      BY <1>1, <3>1, <3>5 DEF Fits, WaitInv, TimerInv
    <3>6. CASE state[t] = "GETADDRINFO"
      <4>1. call[t] = "getaddrinfo" /\ <<request[t], t>> \in Lookups
        BY <1>1, <3>1, <3>6 DEF Fits, WaitInv, LookupInv
      <4>2. done \in Seq(Requests) /\ batch \in Seq(Requests)
        BY <1>1 DEF IInv, TypeOK, LoopTypeOK
      <4>3. \A q \in {done, batch} : \A x \in ToSet(q) : \E i \in DOMAIN q : q[i] = x
        BY <4>2, QueueElements, LenProperties
      <4>4. Answerable(t)
        BY <4>1, <4>3 DEF Lookups, Answerable
      <4> QED BY <3>6, <4>4
    <3>7. CASE state[t] = "CURRENT"
      BY <3>1, <3>7 DEF Fits
    <3> QED BY <3>1, <3>2, <3>3, <3>4, <3>5, <3>6, <3>7 DEF Fits, Receiving, Sending
  <2> QED BY <1>1, <2>1, OneLink DEF WaitingWhereItsStateSays
<1> QED BY <1>1, SchedulerInvariant, WaitersAreLinked, PTL

(* The asserts of gevent.c hold where they are evaluated, the one of       *)
(* getaddrinfo_cb() for cothreads other than main.                         *)
THEOREM NoAssertFails == Spec => []AssertsHold
<1>1. ASSUME IInv, WaitInv PROVE AssertsHold
  <2>1. current # Main => stacklet[Main] = Main
    BY <1>1 DEF IInv, SchedInv, HandlesAreFresh, MainIsAlive, Contexts, Threads
  <2>2. ASSUME Settled, NEW t \in Threads, call[t] # "none" PROVE t # current
    BY <2>2 DEF Settled, Threads
  <2>3. ASSUME Settled, NEW q \in Queues
        PROVE  /\ receivers[q] # <<>> => state[Head(receivers[q])] = "CHANNEL_R"
               /\ senders[q]   # <<>> => state[Head(senders[q])]   = "CHANNEL_S"
    <3>1. ASSUME receivers[q] # <<>> PROVE state[Head(receivers[q])] = "CHANNEL_R"
      <4>1. Head(receivers[q]) \in Threads /\ call[Head(receivers[q])] \in Receiving
        BY <1>1, <3>1, HeadsAreIn
      <4> QED BY <1>1, <2>2, <2>3, <4>1 DEF WaitInv, CallInv, Fits, Receiving
    <3>2. ASSUME senders[q] # <<>> PROVE state[Head(senders[q])] = "CHANNEL_S"
      <4>1. Head(senders[q]) \in Threads /\ call[Head(senders[q])] \in Sending
        BY <1>1, <3>2, HeadsAreIn
      <4> QED BY <1>1, <2>2, <2>3, <4>1 DEF WaitInv, CallInv, Fits, Sending
    <3> QED BY <3>1, <3>2
  <2>4. ASSUME current = Hub, NEW t \in due PROVE state[t] = "TIMER"
    <3>1. t \in timers /\ t \in Threads /\ t # current
      BY <1>1, <2>4 DEF IInv, TypeOK, LoopTypeOK, Threads
    <3> QED BY <1>1, <3>1 DEF WaitInv, TimerInv, CallInv, Fits
  <2>5. ASSUME current = Hub, batch # <<>>, Head(batch)[2] # Main
        PROVE  state[Head(batch)[2]] = "GETADDRINFO"
    <3>1. Head(batch) \in Lookups /\ Head(batch)[2] \in Threads
      BY <1>1, <2>5, LookupTypes, TailElements DEF IInv, Lookups
    <3> QED BY <1>1, <2>5, <3>1 DEF WaitInv, LookupInv, CallInv, Fits
  <2>6. \A i \in DOMAIN ready : state[ready[i]] = "READY"
    BY <1>1 DEF IInv, SchedInv, ReadyAreReady
  <2> QED BY <2>1, <2>3, <2>4, <2>5, <2>6 DEF AssertsHold
<1> QED BY <1>1, SchedulerInvariant, WaitersAreLinked, PTL

(* A cothread other than main leaves a blocking call only for what it      *)
(* waits for: its partner, its timer, its lookup.                          *)
THEOREM WakeupsHaveReasons == Spec => WokenForItsReason
<1> DEFINE Step == \A t \in Cothreads : current # t /\ current' = t => ForItsReason(t)
<1>1. ASSUME IInv, WaitInv, Next PROVE Step
  <2>1. \A t \in Cothreads : t \in Threads /\ t # Main
    BY DEF Threads
  <2> QED BY <1>1, <2>1, NextIsGood DEF Good, Reasons
<1>2. IInv /\ WaitInv /\ [Next]_vars => [Step]_vars
  BY <1>1
<1> QED BY <1>2, SchedulerInvariant, WaitersAreLinked, PTL DEF Spec, WokenForItsReason

-----------------------------------------------------------------------------
(***************************************************************************)
(* Semaphores neither make nor lose permits, channels neither lose,        *)
(* repeat, invent nor reorder values, and main is resumed without its      *)
(* reason only when nothing else can run.                                  *)
(*                                                                         *)
(* The argument: who is blocked on a queue, which value he holds and who   *)
(* is about to return from it change only in the steps of channels and     *)
(* semaphores; every other step is a Bystander.  A value passes from its   *)
(* sender to a receiver that runs next, and a permit from a releaser to    *)
(* an acquirer that runs next, so at most one of each is on its way.       *)
(***************************************************************************)
(* A cothread is in a function the program calls from it; gevent_sleep()   *)
(* and gevent_wait() with a timeout share one.                             *)
OwnCalls == \A t \in Threads : call[t] \in {"none", "sleep"} \cup Ops[t]

(* The permit on its way to the acquirer that release() has woken.         *)
Woken(s) ==
  IF current \in Threads /\ call[current] = "acquire" /\ chan[current] = s
  THEN 1 ELSE 0

PermitInv ==
  \A s \in Semaphores :
     /\ receivers[s] # <<>> => counter[s] = 0
     /\ "acquire" \notin Ops[Main] =>
           counter[s] + outstanding[s] + Woken(s) = SemInit

(* The value v is later than everything received on c so far.              *)
Later(v, c, got) ==
  \A i \in DOMAIN got : got[i][2] = c /\ got[i][3] # Main => got[i][1] < v

(* The values on their way: that of a blocked sender, which his channel's  *)
(* queue keeps in order, and the one that a woken receiver is about to     *)
(* return, were sent and come after what was received.                     *)
OneSided == \A q \in Queues : receivers[q] = <<>> \/ senders[q] = <<>>

SentByNow == \A m \in sent : m[1] <= calls

BlockedHold ==
  \A t \in Threads : t # current /\ call[t] = "send" =>
     <<value[t], chan[t], t>> \in sent /\ Later(value[t], chan[t], receipts)

SendersInOrder ==
  \A q \in Queues : \A i, j \in DOMAIN senders[q] :
     i < j => value[senders[q][i]] < value[senders[q][j]]

ReturningHolds ==
  current \in Cothreads /\ call[current] = "receive" =>
     /\ \E t \in Threads : <<value[current], chan[current], t>> \in sent
     /\ Later(value[current], chan[current], receipts)

(* Where a sent value is.                                                  *)
Got(m)       == \E i \in DOMAIN receipts : receipts[i][1] = m[1] /\ receipts[i][2] = m[2]
HeldBack(m)  == m[3] # current /\ call[m[3]] = "send" /\ value[m[3]] = m[1] /\ chan[m[3]] = m[2]
Returning(m) == /\ current \in Threads /\ call[current] = "receive"
                /\ value[current] = m[1] /\ chan[current] = m[2]

NoneLost == \A m \in sent : m[3] # Main => Got(m) \/ HeldBack(m) \/ Returning(m)

DeliverInv ==
  /\ OneSided /\ SentByNow /\ BlockedHold /\ SendersInOrder /\ ReturningHolds
  /\ NoneLost /\ ReceivedInOrder /\ ReceivedWasSent

-----------------------------------------------------------------------------
LEMMA StepKeepsOwnCalls ==
  ASSUME TypeOK, OwnCalls,
         \/ UNCHANGED call
         \/ \E me \in Threads : \E c \in {"none", "sleep"} \cup Ops[me] :
               call' = [call EXCEPT ![me] = c]
  PROVE  OwnCalls'
  BY DEF OwnCalls, TypeOK, ChannelTypeOK

LEMMA NextKeepsOwnCalls ==
  ASSUME TypeOK, OwnCalls, [Next]_vars
  PROVE  OwnCalls'
<1> DEFINE Sets == \/ UNCHANGED call
                   \/ \E me \in Threads : \E c \in {"none", "sleep"} \cup Ops[me] :
                         call' = [call EXCEPT ![me] = c]
<1>1. ASSUME NEW me \in Threads, CothreadStep(me) PROVE Sets
  <2>1. CASE \E t \in Cothreads : Spawn(me, t) \/ CothreadInit(me, t)
    BY <2>1 DEF Spawn, CothreadInit
  <2>2. CASE Finish(me)
    BY <2>2 DEF Finish
  <2>3. CASE \E c \in Channels : ChannelStep(me, c)
    BY <2>3 DEF ChannelStep, ReceiveBlocks, ReceiveFromSender, ReceiveReturns,
                SendBlocks, SendToReceiver, SendReturns, Calls, Returns,
                BlockReceive, Block
  <2>4. CASE \E s \in Semaphores : SemaphoreStep(me, s)
    BY <2>4 DEF SemaphoreStep, AcquireAtOnce, AcquireBlocks, AcquireReturns,
                ReleaseToWaiter, ReleaseReturns, ReleaseIncrements, Calls, Returns,
                BlockReceive, Block
  <2>5. CASE LoopStep(me)
    BY <2>5 DEF LoopStep, Sleep, WaitTimeout, SleepInternal, SleepReturns,
                WaitForLoop, WaitReturns, Getaddrinfo, GetaddrinfoFails,
                GetaddrinfoReturns, Calls, Returns
  <2> QED BY <1>1, <2>1, <2>2, <2>3, <2>4, <2>5 DEF CothreadStep
<1>2. CASE HubStep
  <2>1. UNCHANGED call
    BY <1>2 DEF HubStep, LoopEnter, LoopAgain, StartIteration, Poll, Answer,
                HubStops, TimerFires
  <2> QED BY <2>1, StepKeepsOwnCalls
<1>3. CASE UNCHANGED vars \/ \E r \in Requests : WorkerFinishes(r)
  <2>1. UNCHANGED call
    BY <1>3 DEF WorkerFinishes, vars
  <2> QED BY <2>1, StepKeepsOwnCalls
<1> QED BY <1>1, <1>2, <1>3, StepKeepsOwnCalls DEF Next

(* Every cothread is in a function of its own.                             *)
LEMMA CallsAreOwn == Spec => []OwnCalls
<1>1. Init => OwnCalls
  BY DEF Init, ChannelInit, OwnCalls
<1>2. IInv /\ OwnCalls /\ [Next]_vars => OwnCalls'
  BY NextKeepsOwnCalls DEF IInv
<1> QED BY <1>1, <1>2, SchedulerInvariant, PTL DEF Spec

(* Main is resumed without its reason only when no cothread is ready and   *)
(* the loop is off or has nothing left to do, in programs whose main does  *)
(* no lookup: a late answer to a lookup that main was forced out of would  *)
(* resume it from the next one.                                            *)
THEOREM MainIsForcedWhenIdle ==
  ASSUME "getaddrinfo" \notin Ops[Main]
  PROVE  Spec => MainForcedOnlyWhenIdle
<1> DEFINE Step == current # Main /\ current' = Main /\ ~ForItsReason(Main) =>
                      ready = <<>> /\ (hubpc = "off" \/ (current = Hub /\ ~LoopAlive))
<1>1. ASSUME IInv, WaitInv, OwnCalls, Next PROVE Step
  <2>1. Main \in Threads /\ call[Main] # "getaddrinfo"
    BY <1>1 DEF OwnCalls, Threads
  <2>2. Reasons
    BY <1>1, NextIsGood DEF Good
  <2> QED BY <2>1, <2>2 DEF Reasons, MainIsForced
<1>2. IInv /\ WaitInv /\ OwnCalls /\ [Next]_vars => [Step]_vars
  BY <1>1
<1> QED BY <1>2, SchedulerInvariant, WaitersAreLinked, CallsAreOwn, PTL
        DEF Spec, MainForcedOnlyWhenIdle

-----------------------------------------------------------------------------
(* The steps that are not of a channel or a semaphore.  None touches what  *)
(* is blocked on a queue, and whoever they resume was not blocked on one,  *)
(* unless he is main.                                                      *)
Linking == Receiving \cup Sending

Bystander ==
  /\ UNCHANGED <<receivers, senders, counter, histVars>>
  /\ calls \in Nat /\ calls' \in Nat /\ calls <= calls'
  /\ \A t \in Threads :
       /\ \/ call'[t] = call[t] /\ chan'[t] = chan[t]
          \/ {call[t], call'[t]} \cap Linking = {}
       /\ call[t] = "send" => value'[t] = value[t]
  /\ \/ UNCHANGED <<current, call, chan, value>>
     \/ /\ current \in Threads => call[current] \notin Linking
        /\ current' \in Cothreads => call'[current'] \notin Linking

(* A thread that is in no function of a channel calls one of another kind  *)
(* or returns from it, and perhaps somebody else runs then.                *)
LEMMA CallerIsBystander ==
  ASSUME IInv, NEW me \in Threads, current = me, call[me] \notin Linking,
         NEW c, c \notin Linking, call' = [call EXCEPT ![me] = c],
         UNCHANGED <<receivers, senders, counter, histVars>>,
         calls \in Nat, calls' \in Nat, calls <= calls',
         UNCHANGED chan \/ chan' = [chan EXCEPT ![me] = Null],
         \A t \in Threads : call[t] = "send" => value'[t] = value[t],
         \/ current' = current
         \/ current' \in Cothreads => call[current'] \notin Linking
  PROVE  Bystander
<1>1. call \in [Threads -> Pending] /\ chan \in [Threads -> Queues \cup {Null}]
  BY DEF IInv, TypeOK, ChannelTypeOK
<1>2. \A t \in Threads \ {me} : call'[t] = call[t] /\ chan'[t] = chan[t]
  BY <1>1
<1>3. call'[me] = c
  BY <1>1
<1>4. current' \in Cothreads => call'[current'] \notin Linking
  BY <1>2, <1>3 DEF Threads
<1> QED BY <1>2, <1>3, <1>4 DEF Bystander

(* The cothreads that run after a switch were not blocked on a queue.      *)
LEMMA YieldWakesNoneLinked ==
  ASSUME IInv, WaitInv, NEW me \in Threads, current = me,
         NEW s \in States \ {"NEW", "READY", "DEAD"},
         Yield(me, [state EXCEPT ![me] = s])
  PROVE  /\ current' # me
         /\ current' \in Threads => call[current'] \notin Linking
<1>1. PICK to \in Contexts : Passes(me, to, s) /\ (to \in Threads => state[to] = "READY")
  BY YieldPasses DEF IInv
<1> QED BY <1>1 DEF Passes, WaitInv, CallInv, Fits, Linking, Receiving, Sending

LEMMA LeaveWakesNoneLinked ==
  ASSUME IInv, WaitInv, NEW me \in Contexts \ {Main}, current = me, Leave(me)
  PROVE  current' \in Cothreads => call[current'] \notin Linking
<1>1. PICK to \in Contexts : Passes(me, to, "DEAD") /\ (to \in Cothreads => state[to] = "READY")
  BY LeavePasses DEF IInv
<1> QED BY <1>1 DEF Passes, WaitInv, CallInv, Fits, Linking, Receiving, Sending, Threads

LEMMA CallbackWakesNoneLinked ==
  ASSUME IInv, WaitInv, NEW t \in Threads, current = Hub,
         state[t] \in {"TIMER", "GETADDRINFO"}, Switch(Hub, t, state, ready)
  PROVE  current' = t /\ call[t] \notin Linking
<1>1. Passes(Hub, t, "CURRENT") /\ t # Hub
  BY CallbackPasses DEF IInv, Threads
<1> QED BY <1>1 DEF Passes, WaitInv, CallInv, Fits, Linking, Receiving, Sending

(* What a call of the program leaves alone.                                *)
LEMMA CallerFacts ==
  ASSUME IInv
  PROVE  /\ call \in [Threads -> Pending] /\ chan \in [Threads -> Queues \cup {Null}]
         /\ value \in [Threads -> 0..MaxCalls] /\ calls \in Nat
         /\ \A me \in Threads : call[me] = "none" => call = [call EXCEPT ![me] = "none"]
         /\ {"none", "release", "sleep", "yield", "getaddrinfo"} \cap Linking = {}
  BY DEF IInv, TypeOK, ChannelTypeOK, Linking, Receiving, Sending

LEMMA SpawnBystander ==
  ASSUME IInv, WaitInv, NEW me \in Threads, NEW t \in Cothreads, Spawn(me, t)
  PROVE  Bystander
<1>1. /\ current = me /\ call[me] = "none"
      /\ calls \in Nat /\ calls' \in Nat /\ calls <= calls'
  BY CallsFacts DEF Spawn
<1>2. /\ state[t] = "NEW" /\ Handoff(me, t) /\ t \in Threads
      /\ UNCHANGED <<receivers, senders, counter, histVars>>
      /\ UNCHANGED <<call, chan, value>>
  BY DEF Spawn, chanVars, Threads
<1>3. current' = t /\ t # me
  BY <1>1, <1>2, HandoffPasses DEF IInv, Passes
<1>4. call[t] = "none"
  BY <1>1, <1>2, <1>3 DEF WaitInv, CallInv, Fits
<1> QED BY <1>1, <1>2, <1>3, <1>4, CallerFacts, CallerIsBystander

LEMMA CothreadInitBystander ==
  ASSUME IInv, WaitInv, NEW me \in Threads, NEW t \in Cothreads, CothreadInit(me, t)
  PROVE  Bystander
<1>1. /\ current = me /\ call[me] = "none"
      /\ calls \in Nat /\ calls' \in Nat /\ calls <= calls'
  BY CallsFacts DEF CothreadInit
<1>2. /\ state[t] = "DEAD" /\ t \in Threads /\ current' = current
      /\ UNCHANGED <<receivers, senders, counter, histVars>>
      /\ UNCHANGED <<call, chan>> /\ value' = [value EXCEPT ![t] = 0]
  BY DEF CothreadInit, Threads
<1>3. call[t] = "none"
  BY <1>1, <1>2 DEF IInv, SchedInv, CurrentIsCurrent, WaitInv, CallInv, Fits
<1>4. \A x \in Threads : call[x] = "send" => value'[x] = value[x]
  BY <1>2, <1>3, CallerFacts
<1> QED BY <1>1, <1>2, <1>4, CallerFacts, CallerIsBystander

LEMMA FinishBystander ==
  ASSUME IInv, WaitInv, NEW me \in Threads \ {Main}, Finish(me)
  PROVE  Bystander
<1>1. /\ current = me /\ call[me] = "none" /\ Leave(me) /\ me \in Contexts \ {Main}
      /\ UNCHANGED <<receivers, senders, counter, histVars>>
      /\ UNCHANGED <<call, chan, value, calls>>
  BY DEF Finish, chanVars, Contexts
<1>2. current' \in Cothreads => call[current'] \notin Linking
  BY <1>1, LeaveWakesNoneLinked
<1>3. calls' \in Nat /\ calls <= calls'
  BY <1>1, CallerFacts
<1> QED BY <1>1, <1>2, <1>3, CallerFacts, CallerIsBystander

LEMMA SleepInternalBystander ==
  ASSUME IInv, WaitInv, NEW me \in Threads, NEW api, Calls(me, api),
         NEW zero, NEW ref, SleepInternal(me, zero, ref)
  PROVE  Bystander
<1>1. /\ current = me /\ call[me] = "none"
      /\ calls \in Nat /\ calls' \in Nat /\ calls <= calls'
  BY CallsFacts
<1>2. /\ Yield(me, [state EXCEPT ![me] = "TIMER"])
      /\ UNCHANGED <<receivers, senders, counter, histVars>> /\ UNCHANGED chan
      /\ call' = [call EXCEPT ![me] = "sleep"] /\ value' = [value EXCEPT ![me] = 0]
  BY DEF SleepInternal, StartTimer
<1>3. current' \in Cothreads => call[current'] \notin Linking
  BY <1>1, <1>2, YieldWakesNoneLinked DEF States, Threads
<1>4. \A x \in Threads : call[x] = "send" => value'[x] = value[x]
  BY <1>1, <1>2, CallerFacts
<1> QED BY <1>1, <1>2, <1>3, <1>4, CallerFacts, CallerIsBystander

LEMMA WaitForLoopBystander ==
  ASSUME IInv, WaitInv, NEW me \in Threads, WaitForLoop(me)
  PROVE  Bystander
<1>1. /\ current = me /\ call[me] = "none" /\ state[me] = "CURRENT"
      /\ calls \in Nat /\ calls' \in Nat /\ calls <= calls'
  BY CallsFacts DEF WaitForLoop
<1>2. /\ Yield(me, state)
      /\ UNCHANGED <<receivers, senders, counter, histVars>> /\ UNCHANGED <<chan, value>>
      /\ call' = [call EXCEPT ![me] = "yield"]
  BY DEF WaitForLoop, chanVars
<1>3. state = [state EXCEPT ![me] = "CURRENT"]
  BY <1>1 DEF IInv, TypeOK, HubTypeOK
<1>4. Yield(me, [state EXCEPT ![me] = "CURRENT"])
  BY <1>2, <1>3
<1>5. current' \in Cothreads => call[current'] \notin Linking
  BY <1>1, <1>4, YieldWakesNoneLinked DEF States, Threads
<1> QED BY <1>1, <1>2, <1>5, CallerFacts, CallerIsBystander

LEMMA GetaddrinfoBystander ==
  ASSUME IInv, WaitInv, NEW me \in Threads, Getaddrinfo(me)
  PROVE  Bystander
<1>1. /\ current = me /\ call[me] = "none"
      /\ calls \in Nat /\ calls' \in Nat /\ calls <= calls'
  BY CallsFacts DEF Getaddrinfo
<1>2. /\ Yield(me, [state EXCEPT ![me] = "GETADDRINFO"])
      /\ UNCHANGED <<receivers, senders, counter, histVars>> /\ UNCHANGED <<chan, value>>
      /\ call' = [call EXCEPT ![me] = "getaddrinfo"]
  BY DEF Getaddrinfo, chanVars
<1>3. current' \in Cothreads => call[current'] \notin Linking
  BY <1>1, <1>2, YieldWakesNoneLinked DEF States, Threads
<1> QED BY <1>1, <1>2, <1>3, CallerFacts, CallerIsBystander

LEMMA GetaddrinfoFailsBystander ==
  ASSUME IInv, WaitInv, NEW me \in Threads, GetaddrinfoFails(me)
  PROVE  Bystander
<1>1. /\ current = me /\ call[me] = "none"
      /\ calls \in Nat /\ calls' \in Nat /\ calls <= calls'
  BY CallsFacts DEF GetaddrinfoFails
<1>2. /\ UNCHANGED <<receivers, senders, counter, histVars>>
      /\ UNCHANGED <<call, chan, value, current>>
  BY DEF GetaddrinfoFails, chanVars, hubVars
<1> QED BY <1>1, <1>2, CallerFacts, CallerIsBystander

(* The second halves of functions that link nobody in a queue.             *)
LEMMA ReturnIsBystander ==
  ASSUME IInv, WaitInv, NEW me \in Threads,
         NEW op \in {"release", "sleep", "yield", "getaddrinfo"},
         Resumed(me, op), Returns(me),
         UNCHANGED <<hubVars, receivers, senders, value, counter, histVars>>
  PROVE  Bystander
<1>1. /\ current = me /\ call[me] = op /\ current' = current
      /\ call' = [call EXCEPT ![me] = "none"] /\ chan' = [chan EXCEPT ![me] = Null]
      /\ UNCHANGED calls
  BY DEF Resumed, Returns, hubVars
<1>2. op \notin Linking /\ calls' \in Nat /\ calls <= calls'
  BY <1>1, CallerFacts
<1> QED BY <1>1, <1>2, CallerFacts, CallerIsBystander

LEMMA LoopStepBystander ==
  ASSUME IInv, WaitInv, NEW me \in Threads, LoopStep(me)
  PROVE  Bystander
<1>1. CASE Sleep(me) \/ WaitTimeout(me)
  BY <1>1, SleepInternalBystander DEF Sleep, WaitTimeout
<1>2. CASE SleepReturns(me)
  BY <1>2, ReturnIsBystander DEF SleepReturns
<1>3. CASE WaitReturns(me)
  BY <1>3, ReturnIsBystander DEF WaitReturns
<1>4. CASE GetaddrinfoReturns(me)
  BY <1>4, ReturnIsBystander DEF GetaddrinfoReturns
<1> QED BY <1>1, <1>2, <1>3, <1>4, WaitForLoopBystander, GetaddrinfoBystander,
           GetaddrinfoFailsBystander DEF LoopStep

LEMMA ReleaseReturnsBystander ==
  ASSUME IInv, WaitInv, NEW me \in Threads, NEW s \in Semaphores, ReleaseReturns(me, s)
  PROVE  Bystander
  BY ReturnIsBystander DEF ReleaseReturns

LEMMA TimerFiresBystander ==
  ASSUME IInv, WaitInv, NEW t \in Threads, TimerFires(t)
  PROVE  Bystander
<1>1. /\ current = Hub /\ state[t] = "TIMER" /\ Switch(Hub, t, state, ready)
      /\ UNCHANGED <<receivers, senders, counter, histVars>>
      /\ UNCHANGED <<call, chan, value, calls>>
  BY DEF TimerFires, chanVars
<1>2. current' = t /\ call[t] \notin Linking /\ Hub \notin Threads
  BY <1>1, CallbackWakesNoneLinked DEF Threads
<1> QED BY <1>1, <1>2, CallerFacts DEF Bystander

LEMMA AnswerBystander ==
  ASSUME IInv, WaitInv, Answer
  PROVE  Bystander
<1> DEFINE my == Head(batch)[2]
<1>1. /\ current = Hub /\ batch # <<>> /\ state[my] = "GETADDRINFO"
      /\ Switch(Hub, my, state, ready) /\ value' = [value EXCEPT ![my] = 0]
      /\ UNCHANGED <<receivers, senders, counter, histVars>>
      /\ UNCHANGED <<call, chan, calls>>
  BY DEF Answer
<1>2. my \in Threads
  BY <1>1, LookupTypes, TailElements DEF IInv
<1>3. current' = my /\ call[my] \notin Linking /\ Hub \notin Threads
  BY <1>1, <1>2, CallbackWakesNoneLinked DEF Threads
<1>4. \A x \in Threads : call[x] = "send" => value'[x] = value[x]
  BY <1>1, <1>2, <1>3, CallerFacts DEF Linking, Sending
<1> QED BY <1>1, <1>3, <1>4, CallerFacts DEF Bystander

LEMMA HubStopsBystander ==
  ASSUME IInv, WaitInv, HubStops
  PROVE  Bystander
<1>1. /\ current = Hub /\ Leave(Hub) /\ Hub \in Contexts \ {Main} /\ Hub \notin Threads
      /\ UNCHANGED <<receivers, senders, counter, histVars>>
      /\ UNCHANGED <<call, chan, value, calls>>
  BY DEF HubStops, chanVars, Contexts, Threads
<1>2. current' \in Cothreads => call[current'] \notin Linking
  BY <1>1, LeaveWakesNoneLinked
<1> QED BY <1>1, <1>2, CallerFacts DEF Bystander

LEMMA HubStepBystander ==
  ASSUME IInv, WaitInv, HubStep
  PROVE  Bystander
<1>1. CASE LoopEnter \/ LoopAgain \/ Poll
  <2>1. /\ UNCHANGED <<receivers, senders, counter, histVars>>
        /\ UNCHANGED <<current, call, chan, value, calls>>
    BY <1>1 DEF LoopEnter, LoopAgain, StartIteration, Poll, chanVars
  <2> QED BY <2>1, CallerFacts DEF Bystander
<1> QED BY <1>1, TimerFiresBystander, AnswerBystander, HubStopsBystander DEF HubStep

LEMMA OthersAreBystanders ==
  ASSUME IInv, WaitInv, [Next]_vars
  PROVE  \/ \E me \in Threads :
               \/ \E c \in Channels : ChannelStep(me, c)
               \/ \E s \in Semaphores : SemaphoreStep(me, s)
         \/ Bystander
<1>1. ASSUME NEW me \in Threads, CothreadStep(me)
      PROVE  \/ \E c \in Channels : ChannelStep(me, c)
             \/ \E s \in Semaphores : SemaphoreStep(me, s)
             \/ Bystander
  BY <1>1, SpawnBystander, CothreadInitBystander, FinishBystander, LoopStepBystander
     DEF CothreadStep
<1>2. CASE UNCHANGED vars \/ \E r \in Requests : WorkerFinishes(r)
  <2>1. /\ UNCHANGED <<receivers, senders, counter, histVars>>
        /\ UNCHANGED <<current, call, chan, value, calls>>
    BY <1>2 DEF WorkerFinishes, vars, hubVars, chanVars
  <2> QED BY <2>1, CallerFacts DEF Bystander
<1> QED BY <1>1, <1>2, HubStepBystander DEF Next

-----------------------------------------------------------------------------
(* Permits.  A step that neither counts nor wakes an acquirer.             *)
Acquires(cur, cl) == cur \in Threads /\ cl[cur] = "acquire"

PermitsAlone ==
  /\ UNCHANGED <<counter, outstanding>>
  /\ \A s \in Semaphores : receivers'[s] = receivers[s]
  /\ "acquire" \notin Ops[Main] =>
       \/ UNCHANGED <<current, call, chan>>
       \/ ~Acquires(current, call) /\ ~Acquires(current', call')

LEMMA AloneKeepsPermits ==
  ASSUME PermitInv, PermitsAlone
  PROVE  PermitInv'
<1> SUFFICES ASSUME NEW s \in Semaphores
             PROVE  /\ receivers'[s] # <<>> => counter'[s] = 0
                    /\ "acquire" \notin Ops[Main] =>
                         counter'[s] + outstanding'[s] + Woken(s)' = SemInit
  BY DEF PermitInv
<1>1. "acquire" \notin Ops[Main] => Woken(s)' = Woken(s)
  BY DEF PermitsAlone, Woken, Acquires
<1> QED BY <1>1 DEF PermitInv, PermitsAlone

LEMMA BystanderKeepsPermits ==
  ASSUME PermitInv, OwnCalls, OwnCalls', Bystander
  PROVE  PermitInv'
<1>1. UNCHANGED <<counter, outstanding, receivers>>
  BY DEF Bystander, histVars
<1>2. ASSUME "acquire" \notin Ops[Main], ~UNCHANGED <<current, call, chan>>
      PROVE  ~Acquires(current, call) /\ ~Acquires(current', call')
  <2>1. ~Acquires(current, call)
    BY <1>2 DEF Bystander, Acquires, Linking, Receiving
  <2>2. call'[Main] # "acquire"
    BY <1>2 DEF OwnCalls, Threads
  <2>3. ~Acquires(current', call')
    BY <1>2, <2>2 DEF Bystander, Acquires, Linking, Receiving, Threads
  <2> QED BY <2>1, <2>3
<1> QED BY <1>1, <1>2, AloneKeepsPermits DEF PermitsAlone

LEMMA ChannelStepKeepsPermits ==
  ASSUME IInv, WaitInv, PermitInv, NEW me \in Threads, NEW c \in Channels,
         ChannelStep(me, c)
  PROVE  PermitInv'
<1>1. /\ UNCHANGED <<counter, outstanding>> /\ c \in Queues
      /\ \A s \in Semaphores : s \in Queues /\ s # c
      /\ receivers \in [Queues -> Seq(Threads)] /\ call \in [Threads -> Pending]
  BY DEF ChannelStep, ReceiveBlocks, ReceiveFromSender, ReceiveReturns, SendBlocks,
         SendToReceiver, SendReturns, histVars, Queues, IInv, TypeOK, ChannelTypeOK
<1>2. ASSUME NEW op, Calls(me, op) PROVE current = me /\ call[me] = "none"
  BY <1>2 DEF Calls
<1>3. CASE ReceiveBlocks(me, c)
  <2>1. /\ current = me /\ call[me] = "none" /\ call' = [call EXCEPT ![me] = "receive"]
        /\ Yield(me, [state EXCEPT ![me] = "CHANNEL_R"])
        /\ receivers' = [receivers EXCEPT ![c] = Enqueue(@, me)]
    BY <1>2, <1>3 DEF ReceiveBlocks, BlockReceive, Block
  <2>2. ~Acquires(current, call) /\ ~Acquires(current', call')
    BY <1>1, <2>1, YieldWakesNoneLinked DEF Acquires, States, Linking, Receiving
  <2> QED BY <1>1, <2>1, <2>2, AloneKeepsPermits DEF PermitsAlone
<1>4. CASE SendBlocks(me, c)
  <2>1. /\ current = me /\ call[me] = "none" /\ call' = [call EXCEPT ![me] = "send"]
        /\ Yield(me, [state EXCEPT ![me] = "CHANNEL_S"]) /\ UNCHANGED receivers
    BY <1>2, <1>4 DEF SendBlocks, Block
  <2>2. ~Acquires(current, call) /\ ~Acquires(current', call')
    BY <1>1, <2>1, YieldWakesNoneLinked DEF Acquires, States, Linking, Receiving
  <2> QED BY <1>1, <2>1, <2>2, AloneKeepsPermits DEF PermitsAlone
<1>5. CASE ReceiveFromSender(me, c)
  <2> DEFINE t == Head(senders[c])
  <2>1. /\ current = me /\ call[me] = "none" /\ senders[c] # <<>>
        /\ state[t] = "CHANNEL_S" /\ Handoff(me, t) /\ UNCHANGED <<receivers, call>>
    BY <1>2, <1>5 DEF ReceiveFromSender
  <2>2. t \in Threads /\ call[t] = "send"
    BY <1>1, <2>1, HeadsAreIn DEF Sending
  <2>3. current' = t
    BY <2>1, <2>2, HandoffPasses DEF IInv, Passes
  <2> QED BY <1>1, <2>1, <2>2, <2>3, AloneKeepsPermits DEF PermitsAlone, Acquires
<1>6. CASE SendToReceiver(me, c)
  <2> DEFINE t == Head(receivers[c])
  <2>1. /\ current = me /\ call[me] = "none" /\ receivers[c] # <<>>
        /\ state[t] = "CHANNEL_R" /\ Handoff(me, t) /\ UNCHANGED <<receivers, call>>
    BY <1>2, <1>6 DEF SendToReceiver, HandoffSend
  <2>2. t \in Threads /\ call[t] \in Receiving /\ chan[t] = c
    BY <1>1, <2>1, HeadsAreIn
  <2>3. call[t] = "receive"
    BY <1>1, <2>2 DEF WaitInv, QueueInv, PlaceFits, Receiving
  <2>4. current' = t
    BY <2>1, <2>2, HandoffPasses DEF IInv, Passes
  <2> QED BY <1>1, <2>1, <2>2, <2>3, <2>4, AloneKeepsPermits DEF PermitsAlone, Acquires
<1>7. CASE ReceiveReturns(me, c) \/ SendReturns(me, c)
  <2>1. /\ current = me /\ call[me] # "acquire" /\ current' = current
        /\ call' = [call EXCEPT ![me] = "none"]
        /\ \A s \in Queues : s # c => receivers'[s] = receivers[s]
    BY <1>1, <1>7 DEF ReceiveReturns, SendReturns, Resumed, Returns, hubVars
  <2>2. ~Acquires(current, call) /\ ~Acquires(current', call')
    BY <1>1, <2>1 DEF Acquires
  <2> QED BY <1>1, <2>1, <2>2, AloneKeepsPermits DEF PermitsAlone
<1> QED BY <1>3, <1>4, <1>5, <1>6, <1>7 DEF ChannelStep

(* The steps of a semaphore s: they leave the other semaphores alone.      *)
LEMMA OnePermitChanges ==
  ASSUME PermitInv, NEW s \in Semaphores,
         \A q \in Semaphores \ {s} :
            /\ counter'[q] = counter[q] /\ outstanding'[q] = outstanding[q]
            /\ receivers'[q] = receivers[q]
            /\ "acquire" \notin Ops[Main] => Woken(q)' = Woken(q),
         receivers'[s] # <<>> => counter'[s] = 0,
         "acquire" \notin Ops[Main] =>
            counter'[s] + outstanding'[s] + Woken(s)'
              = counter[s] + outstanding[s] + Woken(s)
  PROVE  PermitInv'
<1> SUFFICES ASSUME NEW q \in Semaphores
             PROVE  /\ receivers'[q] # <<>> => counter'[q] = 0
                    /\ "acquire" \notin Ops[Main] =>
                         counter'[q] + outstanding'[q] + Woken(q)' = SemInit
  BY DEF PermitInv
<1>1. CASE q = s
  BY <1>1 DEF PermitInv
<1>2. CASE q # s
  BY <1>2 DEF PermitInv
<1> QED BY <1>1, <1>2

LEMMA SemaphoreTypes ==
  ASSUME TypeOK
  PROVE  /\ counter \in [Semaphores -> Nat] /\ outstanding \in [Semaphores -> Int]
         /\ receivers \in [Queues -> Seq(Threads)] /\ Semaphores \subseteq Queues
         /\ call \in [Threads -> Pending] /\ chan \in [Threads -> Queues \cup {Null}]
         /\ \A s \in Semaphores : Woken(s) \in {0, 1}
  BY DEF TypeOK, ChannelTypeOK, Queues, Woken

(* A semaphore that is only counted.                                       *)
LEMMA CountingKeepsPermits ==
  ASSUME IInv, PermitInv, NEW me \in Threads, NEW s \in Semaphores,
         AcquireAtOnce(me, s) \/ ReleaseIncrements(me, s)
  PROVE  PermitInv'
<1>1. /\ UNCHANGED <<receivers, call, chan>> /\ UNCHANGED current
      /\ \/ /\ counter' = [counter EXCEPT ![s] = @ - 1] /\ counter[s] > 0
            /\ outstanding' = [outstanding EXCEPT ![s] = @ + 1]
         \/ /\ counter' = [counter EXCEPT ![s] = @ + 1] /\ receivers[s] = <<>>
            /\ outstanding' = [outstanding EXCEPT ![s] = @ - 1]
  BY DEF AcquireAtOnce, ReleaseIncrements, hubVars
<1>2. \A q \in Semaphores : Woken(q)' = Woken(q) /\ Woken(q) \in {0, 1}
  BY <1>1, SemaphoreTypes DEF Woken, IInv
<1>3. receivers[s] = <<>>
  BY <1>1 DEF PermitInv
<1>4. \A q \in Semaphores \ {s} : counter'[q] = counter[q] /\ outstanding'[q] = outstanding[q]
  BY <1>1, SemaphoreTypes DEF IInv
<1>5. counter'[s] + outstanding'[s] = counter[s] + outstanding[s]
  <2>1. counter[s] \in Nat /\ outstanding[s] \in Int
    BY SemaphoreTypes DEF IInv
  <2>2. \/ counter'[s] = counter[s] - 1 /\ outstanding'[s] = outstanding[s] + 1
        \/ counter'[s] = counter[s] + 1 /\ outstanding'[s] = outstanding[s] - 1
    BY <1>1, SemaphoreTypes DEF IInv
  <2> QED BY <2>1, <2>2
<1>6. counter'[s] + outstanding'[s] + Woken(s)' = counter[s] + outstanding[s] + Woken(s)
  BY <1>2, <1>5
<1> QED BY <1>1, <1>2, <1>3, <1>4, <1>6, OnePermitChanges

LEMMA AcquireBlocksKeepsPermits ==
  ASSUME IInv, WaitInv, PermitInv, NEW me \in Threads, NEW s \in Semaphores,
         AcquireBlocks(me, s)
  PROVE  PermitInv'
<1>1. /\ current = me /\ call[me] = "none" /\ call' = [call EXCEPT ![me] = "acquire"]
      /\ Yield(me, [state EXCEPT ![me] = "CHANNEL_R"])
      /\ receivers' = [receivers EXCEPT ![s] = Enqueue(@, me)]
      /\ counter[s] <= 0 /\ counter' = counter /\ outstanding' = outstanding
  BY DEF AcquireBlocks, BlockReceive, Block, Calls, histVars
<1>2. /\ current' # me
      /\ current' \in Threads => call[current'] \notin Linking
  BY <1>1, YieldWakesNoneLinked DEF States
<1>3. ~Acquires(current, call) /\ ~Acquires(current', call')
  BY <1>1, <1>2, SemaphoreTypes DEF Acquires, Linking, Receiving, IInv
<1>4. \A q \in Semaphores : Woken(q)' = 0 /\ Woken(q) = 0
  BY <1>3 DEF Woken, Acquires
<1>5. counter'[s] = 0
  BY <1>1, SemaphoreTypes DEF IInv
<1>6. \A q \in Semaphores \ {s} : receivers'[q] = receivers[q]
  BY <1>1, SemaphoreTypes DEF IInv
<1> QED BY <1>1, <1>4, <1>5, <1>6, OnePermitChanges

LEMMA AcquireReturnsKeepsPermits ==
  ASSUME IInv, WaitInv, PermitInv, NEW me \in Threads, NEW s \in Semaphores,
         AcquireReturns(me, s)
  PROVE  PermitInv'
<1>1. /\ current = me /\ call[me] = "acquire" /\ chan[me] = s /\ current' = me
      /\ receivers' = [receivers EXCEPT ![s] = Unlink(@, me)]
      /\ outstanding' = [outstanding EXCEPT ![s] = @ + 1] /\ counter' = counter
      /\ call' = [call EXCEPT ![me] = "none"]
  BY DEF AcquireReturns, Resumed, Returns, hubVars
<1>2. /\ Woken(s) = 1
      /\ \A q \in Semaphores : Woken(q)' = 0
      /\ \A q \in Semaphores \ {s} : Woken(q) = 0
  <2>1. call'[me] = "none"
    BY <1>1, SemaphoreTypes DEF IInv
  <2> QED BY <1>1, <2>1 DEF Woken
<1>3. counter'[s] = 0
  <2>1. me \in ToSet(receivers[s])
    BY <1>1, SemaphoreTypes DEF WaitInv, QueueInv, LinksMatch, Receiving, IInv
  <2>2. receivers[s] # <<>>
    BY <2>1 DEF ToSet
  <2> QED BY <1>1, <2>2 DEF PermitInv
<1>4. \A q \in Semaphores \ {s} : receivers'[q] = receivers[q] /\ outstanding'[q] = outstanding[q]
  BY <1>1, SemaphoreTypes DEF IInv
<1>5. outstanding'[s] = outstanding[s] + 1
  BY <1>1, SemaphoreTypes DEF IInv
<1>6. counter'[s] + outstanding'[s] + Woken(s)' = counter[s] + outstanding[s] + Woken(s)
  BY <1>1, <1>2, <1>5, SemaphoreTypes DEF IInv
<1> QED BY <1>1, <1>2, <1>3, <1>4, <1>6, OnePermitChanges

LEMMA ReleaseToWaiterKeepsPermits ==
  ASSUME IInv, WaitInv, PermitInv, NEW me \in Threads, NEW s \in Semaphores,
         ReleaseToWaiter(me, s)
  PROVE  PermitInv'
<1> DEFINE t == Head(receivers[s])
<1>1. /\ current = me /\ call[me] = "none" /\ receivers[s] # <<>>
      /\ state[t] = "CHANNEL_R" /\ Handoff(me, t) /\ UNCHANGED <<receivers, counter>>
      /\ call' = [call EXCEPT ![me] = "release"] /\ chan' = [chan EXCEPT ![me] = s]
      /\ outstanding' = [outstanding EXCEPT ![s] = @ - 1]
  BY DEF ReleaseToWaiter, HandoffSend, Calls
<1>2. t \in Threads /\ call[t] \in Receiving /\ chan[t] = s
  BY <1>1, HeadsAreIn, SemaphoreTypes DEF IInv
<1>3. call[t] = "acquire"
  BY <1>2 DEF WaitInv, QueueInv, PlaceFits, Receiving
<1>4. current' = t /\ t # me
  BY <1>1, <1>2, HandoffPasses DEF IInv, Passes
<1>5. call'[t] = "acquire" /\ chan'[t] = s
  BY <1>1, <1>2, <1>3, <1>4, SemaphoreTypes DEF IInv
<1>6. /\ Woken(s)' = 1
      /\ \A q \in Semaphores : Woken(q) = 0
      /\ \A q \in Semaphores \ {s} : Woken(q)' = 0
  BY <1>1, <1>2, <1>4, <1>5 DEF Woken
<1>7. \A q \in Semaphores \ {s} : outstanding'[q] = outstanding[q]
  BY <1>1, SemaphoreTypes DEF IInv
<1>8. outstanding'[s] = outstanding[s] - 1
  BY <1>1, SemaphoreTypes DEF IInv
<1>9. counter'[s] + outstanding'[s] + Woken(s)' = counter[s] + outstanding[s] + Woken(s)
  BY <1>1, <1>6, <1>8, SemaphoreTypes DEF IInv
<1>10. counter'[s] = 0
  BY <1>1 DEF PermitInv
<1> QED BY <1>1, <1>6, <1>7, <1>9, <1>10, OnePermitChanges

LEMMA NextKeepsPermits ==
  ASSUME IInv, WaitInv, OwnCalls, OwnCalls', PermitInv, [Next]_vars
  PROVE  PermitInv'
<1>1. ASSUME NEW me \in Threads, NEW s \in Semaphores, SemaphoreStep(me, s)
      PROVE  PermitInv'
  BY <1>1, CountingKeepsPermits, AcquireBlocksKeepsPermits, AcquireReturnsKeepsPermits,
     ReleaseToWaiterKeepsPermits, ReleaseReturnsBystander, BystanderKeepsPermits
     DEF SemaphoreStep
<1> QED BY <1>1, OthersAreBystanders, ChannelStepKeepsPermits, BystanderKeepsPermits

(* Semaphores: the free permits, those held and the one on its way to a    *)
(* woken acquirer are those the semaphore began with, if main does not     *)
(* acquire, and nobody is blocked on a semaphore that has permits.         *)
THEOREM PermitsAreConserved == Spec => []PermitsConserved
<1>1. Init => PermitInv
  <2> SUFFICES ASSUME Init, NEW s \in Semaphores
               PROVE  receivers[s] = <<>> /\ counter[s] + outstanding[s] + Woken(s) = SemInit
    BY DEF PermitInv
  <2>1. /\ receivers[s] = <<>> /\ counter[s] = SemInit /\ outstanding[s] = 0
        /\ current = Main /\ call[Main] = "none"
    BY DEF Init, HubInit, ChannelInit, Queues, Threads
  <2> QED BY <2>1 DEF Woken
<1>2. IInv /\ WaitInv /\ OwnCalls /\ OwnCalls' /\ PermitInv /\ [Next]_vars => PermitInv'
  BY NextKeepsPermits
<1>3. ASSUME IInv, OwnCalls, PermitInv PROVE PermitsConserved
  <2> SUFFICES ASSUME NEW s \in Semaphores, "acquire" \notin Ops[Main]
               PROVE  Woken(s) = Cardinality({t \in Cothreads :
                         current = t /\ call[t] = "acquire" /\ chan[t] = s})
    BY <1>3 DEF PermitInv, PermitsConserved
  <2> DEFINE W == {t \in Cothreads : current = t /\ call[t] = "acquire" /\ chan[t] = s}
  <2>1. call[Main] # "acquire"
    BY <1>3 DEF OwnCalls, Threads
  <2>2. CASE current \in Threads /\ call[current] = "acquire" /\ chan[current] = s
    <3>1. W = {current} /\ Woken(s) = 1
      BY <2>1, <2>2 DEF Threads, Woken
    <3> QED BY <3>1, FS_Singleton
  <2>3. CASE ~(current \in Threads /\ call[current] = "acquire" /\ chan[current] = s)
    <3>1. W = {} /\ Woken(s) = 0
      BY <2>3 DEF Threads, Woken
    <3> QED BY <3>1, FS_EmptySet
  <2> QED BY <2>2, <2>3
<1> QED BY <1>1, <1>2, <1>3, SchedulerInvariant, WaitersAreLinked, CallsAreOwn, PTL
        DEF Spec

-----------------------------------------------------------------------------
(* Values.                                                                 *)
LEMMA DeliverTypes ==
  ASSUME IInv
  PROVE  /\ \A m \in sent : /\ m = <<m[1], m[2], m[3]>> /\ m[1] \in 1..MaxCalls
                           /\ m[2] \in Channels /\ m[3] \in Threads
         /\ receipts \in Seq((0..MaxCalls) \X Channels \X Threads)
         /\ \A i \in DOMAIN receipts : receipts[i][1] \in Nat /\ receipts[i][2] \in Channels
         /\ value \in [Threads -> 0..MaxCalls] /\ calls \in Nat /\ calls <= MaxCalls
         /\ call \in [Threads -> Pending] /\ chan \in [Threads -> Queues \cup {Null}]
         /\ receivers \in [Queues -> Seq(Threads)] /\ senders \in [Queues -> Seq(Threads)]
         /\ Channels \subseteq Queues
<1>1. /\ sent \subseteq (1..MaxCalls) \X Channels \X Threads
      /\ receipts \in Seq((0..MaxCalls) \X Channels \X Threads)
      /\ value \in [Threads -> 0..MaxCalls] /\ calls \in 0..MaxCalls
      /\ call \in [Threads -> Pending] /\ chan \in [Threads -> Queues \cup {Null}]
      /\ receivers \in [Queues -> Seq(Threads)] /\ senders \in [Queues -> Seq(Threads)]
  BY DEF IInv, TypeOK, ChannelTypeOK
<1>2. \A m \in sent : /\ m = <<m[1], m[2], m[3]>> /\ m[1] \in 1..MaxCalls
                      /\ m[2] \in Channels /\ m[3] \in Threads
  BY <1>1
<1>3. ASSUME NEW i \in DOMAIN receipts
      PROVE  receipts[i][1] \in Nat /\ receipts[i][2] \in Channels
  <2>1. receipts[i] \in (0..MaxCalls) \X Channels \X Threads
    BY <1>1, <1>3
  <2> QED BY <2>1
<1> QED BY <1>1, <1>2, <1>3 DEF Queues

(* Who is in a queue of senders is sending there, and conversely.          *)
LEMMA SendersSend ==
  ASSUME IInv, WaitInv
  PROVE  /\ \A q \in Queues : \A i \in DOMAIN senders[q] :
               /\ senders[q][i] \in Threads /\ call[senders[q][i]] = "send"
               /\ chan[senders[q][i]] = q
         /\ \A t \in Threads : call[t] = "send" =>
               chan[t] \in Channels /\ \E i \in DOMAIN senders[chan[t]] : senders[chan[t]][i] = t
         /\ \A t \in Threads : call[t] \in Receiving => receivers[chan[t]] # <<>>
<1>1. \A q \in Queues : \A t \in ToSet(senders[q]) :
         t \in Threads /\ call[t] = "send" /\ chan[t] = q
  BY DeliverTypes, QueueElements DEF WaitInv, QueueInv, LinksMatch, Sending
<1>2. ASSUME NEW q \in Queues, NEW i \in DOMAIN senders[q] PROVE senders[q][i] \in ToSet(senders[q])
  <2>1. senders[q] \in Seq(Threads)
    BY DeliverTypes
  <2> QED BY <1>2, <2>1, QueueElements, LenProperties
<1>3. ASSUME NEW t \in Threads, call[t] = "send"
      PROVE  chan[t] \in Channels /\ \E i \in DOMAIN senders[chan[t]] : senders[chan[t]][i] = t
  <2>1. chan[t] \in Channels /\ chan[t] \in Queues
    BY <1>3 DEF WaitInv, QueueInv, PlaceFits, Queues
  <2>2. t \in ToSet(senders[chan[t]])
    BY <1>3, <2>1 DEF WaitInv, QueueInv, LinksMatch, Sending
  <2>3. senders[chan[t]] \in Seq(Threads)
    BY <2>1, DeliverTypes
  <2> QED BY <2>1, <2>2, <2>3, QueueElements, LenProperties
<1>4. ASSUME NEW t \in Threads, call[t] \in Receiving PROVE receivers[chan[t]] # <<>>
  <2>1. chan[t] \in Queues
    BY <1>4 DEF WaitInv, QueueInv, PlaceFits, Queues, Receiving
  <2>2. t \in ToSet(receivers[chan[t]])
    BY <1>4, <2>1 DEF WaitInv, QueueInv, LinksMatch
  <2> QED BY <2>2 DEF ToSet
<1> QED BY <1>1, <1>2, <1>3, <1>4

(* A step in which no value moves.                                         *)
Valued == {"receive", "send"}

DeliveriesAlone ==
  /\ UNCHANGED <<senders, sent, receipts>>
  /\ \A q \in Queues : receivers'[q] = receivers[q] \/ senders[q] = <<>>
  /\ calls \in Nat /\ calls' \in Nat /\ calls <= calls'
  /\ \A t \in Threads :
       /\ \/ call'[t] = call[t] /\ chan'[t] = chan[t]
          \/ "send" \notin {call[t], call'[t]}
       /\ call[t] = "send" => value'[t] = value[t]
  /\ \/ UNCHANGED <<current, call, chan, value>>
     \/ /\ current \in Threads => call[current] \notin Valued
        /\ current' \in Cothreads => call'[current'] \notin Valued

LEMMA AloneKeepsDeliveries ==
  ASSUME IInv, WaitInv, DeliverInv, DeliveriesAlone
  PROVE  DeliverInv'
<1>1. OneSided'
  BY DEF DeliverInv, OneSided, DeliveriesAlone
<1>2. SentByNow'
  <2> SUFFICES ASSUME NEW m \in sent PROVE m[1] <= calls'
    BY DEF SentByNow, DeliveriesAlone
  <2>1. m[1] \in Nat /\ m[1] <= calls
    BY DeliverTypes DEF DeliverInv, SentByNow
  <2> QED BY <2>1 DEF DeliveriesAlone
<1>3. BlockedHold'
  <2> SUFFICES ASSUME NEW t \in Threads, t # current', call'[t] = "send"
               PROVE  <<value'[t], chan'[t], t>> \in sent
                      /\ Later(value'[t], chan'[t], receipts)
    BY DEF BlockedHold, DeliveriesAlone
  <2>1. /\ t # current /\ call[t] = "send"
        /\ value'[t] = value[t] /\ chan'[t] = chan[t]
    BY DEF DeliveriesAlone, Valued
  <2> QED BY <2>1 DEF DeliverInv, BlockedHold
<1>4. SendersInOrder'
  BY SendersSend DEF DeliverInv, SendersInOrder, DeliveriesAlone
<1>5. ReturningHolds'
  BY DEF DeliverInv, ReturningHolds, DeliveriesAlone, Valued
<1>6. NoneLost'
  <2> SUFFICES ASSUME NEW m \in sent, m[3] # Main
               PROVE  Got(m)' \/ HeldBack(m)' \/ Returning(m)'
    BY DEF NoneLost, DeliveriesAlone
  <2>1. m[3] \in Cothreads
    BY DeliverTypes DEF Threads
  <2>2. CASE Got(m)
    BY <2>2 DEF Got, DeliveriesAlone
  <2>3. CASE HeldBack(m)
    BY <2>1, <2>3 DEF HeldBack, DeliveriesAlone, Valued, Threads
  <2>4. CASE Returning(m)
    BY <2>4 DEF Returning, DeliveriesAlone, Valued
  <2> QED BY <2>2, <2>3, <2>4 DEF DeliverInv, NoneLost
<1>7. ReceivedInOrder' /\ ReceivedWasSent'
  BY DEF DeliverInv, ReceivedInOrder, ReceivedWasSent, DeliveriesAlone
<1> QED BY <1>1, <1>2, <1>3, <1>4, <1>5, <1>6, <1>7 DEF DeliverInv

LEMMA BystanderKeepsDeliveries ==
  ASSUME IInv, WaitInv, DeliverInv, Bystander
  PROVE  DeliverInv'
<1>1. DeliveriesAlone
  BY DEF DeliveriesAlone, Bystander, histVars, Valued, Linking, Receiving, Sending
<1> QED BY <1>1, AloneKeepsDeliveries

(* No value moves on a semaphore, or when a receiver blocks.               *)
LEMMA BlockReceiveKeepsDeliveries ==
  ASSUME IInv, WaitInv, DeliverInv, NEW me \in Threads, NEW q \in Queues,
         NEW op \in Receiving, NEW api, Calls(me, api), BlockReceive(me, q, op),
         UNCHANGED <<sent, receipts>>
  PROVE  DeliverInv'
<1>1. /\ current = me /\ call[me] = "none"
      /\ calls \in Nat /\ calls' \in Nat /\ calls <= calls'
  BY CallsFacts
<1>2. /\ senders[q] = <<>> /\ UNCHANGED <<senders, value>>
      /\ receivers' = [receivers EXCEPT ![q] = Enqueue(@, me)]
      /\ call' = [call EXCEPT ![me] = op] /\ chan' = [chan EXCEPT ![me] = q]
      /\ Yield(me, [state EXCEPT ![me] = "CHANNEL_R"])
  BY DEF BlockReceive, Block
<1>3. /\ current' # me
      /\ current' \in Threads => call[current'] \notin Linking
  BY <1>1, <1>2, YieldWakesNoneLinked DEF States
<1>4. \A p \in Queues : receivers'[p] = receivers[p] \/ senders[p] = <<>>
  BY <1>2, DeliverTypes
<1>5. \A t \in Threads : t # me => call'[t] = call[t] /\ chan'[t] = chan[t]
  BY <1>2, DeliverTypes
<1>6. call'[me] = op /\ op # "send"
  BY <1>2, DeliverTypes DEF Receiving
<1>7. DeliveriesAlone
  BY <1>1, <1>2, <1>3, <1>4, <1>5, <1>6
     DEF DeliveriesAlone, Valued, Linking, Receiving, Sending, Threads
<1> QED BY <1>7, AloneKeepsDeliveries

LEMMA SemaphoreStepKeepsDeliveries ==
  ASSUME IInv, WaitInv, DeliverInv, NEW me \in Threads, NEW s \in Semaphores,
         SemaphoreStep(me, s)
  PROVE  DeliverInv'
<1>1. s \in Queues /\ s \notin Channels
  BY DEF Queues
<1>2. CASE AcquireBlocks(me, s)
  BY <1>1, <1>2, BlockReceiveKeepsDeliveries DEF AcquireBlocks, Receiving, histVars
<1>3. CASE AcquireAtOnce(me, s) \/ ReleaseIncrements(me, s)
  <2>1. /\ UNCHANGED <<receivers, senders, sent, receipts>>
        /\ UNCHANGED <<current, call, chan, value>>
        /\ calls \in Nat /\ calls' \in Nat /\ calls <= calls'
    BY <1>3, CallsFacts DEF AcquireAtOnce, ReleaseIncrements, hubVars
  <2>2. DeliveriesAlone
    BY <2>1 DEF DeliveriesAlone
  <2> QED BY <2>2, AloneKeepsDeliveries
<1>4. CASE AcquireReturns(me, s)
  <2>1. /\ current = me /\ call[me] = "acquire" /\ chan[me] = s /\ current' = me
        /\ receivers' = [receivers EXCEPT ![s] = Unlink(@, me)]
        /\ call' = [call EXCEPT ![me] = "none"] /\ chan' = [chan EXCEPT ![me] = Null]
        /\ UNCHANGED <<senders, sent, receipts>> /\ UNCHANGED <<value, calls>>
    BY <1>4 DEF AcquireReturns, Resumed, Returns, hubVars
  <2>2. senders[s] = <<>>
    BY <1>1, <2>1, SendersSend DEF DeliverInv, OneSided, Receiving
  <2>3. \A p \in Queues : receivers'[p] = receivers[p] \/ senders[p] = <<>>
    BY <2>1, <2>2, DeliverTypes
  <2>4. \A t \in Threads : t # me => call'[t] = call[t] /\ chan'[t] = chan[t]
    BY <2>1, DeliverTypes
  <2>5. call'[me] = "none" /\ calls \in Nat /\ calls <= calls
    BY <2>1, DeliverTypes
  <2>6. DeliveriesAlone
    BY <2>1, <2>3, <2>4, <2>5 DEF DeliveriesAlone, Valued
  <2> QED BY <2>6, AloneKeepsDeliveries
<1>5. CASE ReleaseToWaiter(me, s)
  <2> DEFINE t == Head(receivers[s])
  <2>1. /\ current = me /\ call[me] = "none"
        /\ calls \in Nat /\ calls' \in Nat /\ calls <= calls'
    BY <1>5, CallsFacts DEF ReleaseToWaiter
  <2>2. /\ receivers[s] # <<>> /\ state[t] = "CHANNEL_R" /\ Handoff(me, t)
        /\ UNCHANGED <<receivers, senders, sent, receipts>>
        /\ call' = [call EXCEPT ![me] = "release"] /\ chan' = [chan EXCEPT ![me] = s]
        /\ value' = [value EXCEPT ![t] = 0]
    BY <1>5 DEF ReleaseToWaiter, HandoffSend
  <2>3. t \in Threads /\ call[t] = "acquire"
    <3>1. t \in Threads /\ call[t] \in Receiving /\ chan[t] = s
      BY <1>1, <2>2, HeadsAreIn
    <3> QED BY <1>1, <3>1 DEF WaitInv, QueueInv, PlaceFits, Receiving
  <2>4. current' = t /\ t # me
    BY <2>1, <2>2, <2>3, HandoffPasses DEF IInv, Passes
  <2>5. \A x \in Threads : /\ x # me => call'[x] = call[x] /\ chan'[x] = chan[x]
                           /\ x # t => value'[x] = value[x]
    BY <2>2, <2>3, DeliverTypes
  <2>6. call'[me] = "release"
    BY <2>2, DeliverTypes
  <2>7. DeliveriesAlone
    BY <2>1, <2>2, <2>3, <2>4, <2>5, <2>6 DEF DeliveriesAlone, Valued
  <2> QED BY <2>7, AloneKeepsDeliveries
<1> QED BY <1>2, <1>3, <1>4, <1>5, ReleaseReturnsBystander, BystanderKeepsDeliveries
        DEF SemaphoreStep

-----------------------------------------------------------------------------
(* A new value is later than all received, a new receipt keeps the order.  *)
LEMMA NewValueIsLater ==
  ASSUME IInv, DeliverInv, NEW c
  PROVE  Later(calls + 1, c, receipts)
<1> SUFFICES ASSUME NEW i \in DOMAIN receipts, receipts[i][3] # Main
             PROVE  receipts[i][1] < calls + 1
  BY DEF Later
<1>1. PICK t \in Threads : <<receipts[i][1], receipts[i][2], t>> \in sent
  BY DEF DeliverInv, ReceivedWasSent
<1>2. receipts[i][1] <= calls
  BY <1>1 DEF DeliverInv, SentByNow
<1>3. receipts[i][1] \in Nat /\ calls \in Nat
  BY DeliverTypes
<1> QED BY <1>2, <1>3

LEMMA ReceiptAppended ==
  ASSUME IInv, NEW v \in Nat, NEW c \in Channels, NEW me \in Threads,
         receipts' = Append(receipts, <<v, c, me>>)
  PROVE  /\ \A i \in DOMAIN receipts : i \in DOMAIN receipts' /\ receipts'[i] = receipts[i]
         /\ \E n \in DOMAIN receipts' :
              /\ receipts'[n] = <<v, c, me>>
              /\ \A i \in DOMAIN receipts' : i \in DOMAIN receipts \/ i = n
              /\ \A i \in DOMAIN receipts : ~(n < i) /\ n # i
         /\ \A i \in DOMAIN receipts' : ~(i < i)
<1>1. receipts \in Seq((0..MaxCalls) \X Channels \X Threads)
  BY DeliverTypes
<1> DEFINE n == Len(receipts) + 1
<1>2. /\ Len(receipts) \in Nat /\ DOMAIN receipts = 1..Len(receipts)
      /\ DOMAIN receipts' = 1..n /\ receipts'[n] = <<v, c, me>>
      /\ \A i \in 1..Len(receipts) : receipts'[i] = receipts[i]
  BY <1>1
<1>3. n \in 1..n /\ \A i \in 1..n : i \in 1..Len(receipts) \/ i = n
  BY <1>2
<1>4. \A i \in 1..Len(receipts) : i \in 1..n /\ ~(n < i) /\ n # i
  BY <1>2
<1> QED BY <1>2, <1>3, <1>4

LEMMA ReceiptKeepsOrder ==
  ASSUME IInv, DeliverInv, NEW v \in Nat, NEW c \in Channels, NEW me \in Threads,
         receipts' = Append(receipts, <<v, c, me>>), UNCHANGED sent,
         me # Main => /\ Later(v, c, receipts)
                      /\ \E t \in Threads : <<v, c, t>> \in sent
  PROVE  /\ ReceivedInOrder' /\ ReceivedWasSent'
         /\ \A m : Got(m) \/ (m[1] = v /\ m[2] = c) => Got(m)'
         /\ \A w, d : Later(w, d, receipts) /\ (d = c => v < w) => Later(w, d, receipts')
<1>1. PICK n \in DOMAIN receipts' :
         /\ receipts'[n] = <<v, c, me>>
         /\ \A i \in DOMAIN receipts' : i \in DOMAIN receipts \/ i = n
         /\ \A i \in DOMAIN receipts : ~(n < i) /\ n # i
  BY ReceiptAppended
<1>2. /\ \A i \in DOMAIN receipts : i \in DOMAIN receipts' /\ receipts'[i] = receipts[i]
      /\ \A i \in DOMAIN receipts' : ~(i < i)
  BY ReceiptAppended
<1>3. ReceivedInOrder'
  <2> SUFFICES ASSUME NEW i \in DOMAIN receipts', NEW j \in DOMAIN receipts', i < j,
                      receipts'[i][2] = receipts'[j][2],
                      Main \notin {receipts'[i][3], receipts'[j][3]}
               PROVE  receipts'[i][1] < receipts'[j][1]
    BY DEF ReceivedInOrder
  <2>1. CASE j \in DOMAIN receipts
    BY <1>1, <1>2, <2>1 DEF DeliverInv, ReceivedInOrder
  <2>2. CASE j = n /\ i \in DOMAIN receipts
    BY <1>1, <1>2, <2>2 DEF Later
  <2>3. CASE j = n /\ i = n
    BY <1>2, <2>3
  <2> QED BY <1>1, <2>1, <2>2, <2>3
<1>4. ReceivedWasSent'
  <2> SUFFICES ASSUME NEW i \in DOMAIN receipts', receipts'[i][3] # Main
               PROVE  \E t \in Threads : <<receipts'[i][1], receipts'[i][2], t>> \in sent
    BY DEF ReceivedWasSent
  <2>1. CASE i \in DOMAIN receipts
    <3>1. receipts[i] = receipts'[i]
      BY <1>2, <2>1
    <3>2. PICK t \in Threads : <<receipts[i][1], receipts[i][2], t>> \in sent
      BY <2>1, <3>1 DEF DeliverInv, ReceivedWasSent
    <3> QED BY <3>1, <3>2
  <2>2. CASE i = n
    <3>1. receipts'[i] = <<v, c, me>>
      BY <1>1, <2>2
    <3>2. receipts'[i][1] = v /\ receipts'[i][2] = c /\ receipts'[i][3] = me
      BY <3>1
    <3>3. \E t \in Threads : <<v, c, t>> \in sent
      BY <3>2
    <3> QED BY <3>2, <3>3
  <2> QED BY <1>1, <2>1, <2>2
<1>5. ASSUME NEW m, Got(m) \/ (m[1] = v /\ m[2] = c) PROVE Got(m)'
  BY <1>1, <1>2, <1>5 DEF Got
<1>6. ASSUME NEW w, NEW d, Later(w, d, receipts), d = c => v < w
      PROVE  Later(w, d, receipts')
  BY <1>1, <1>2, <1>6 DEF Later
<1> QED BY <1>3, <1>4, <1>5, <1>6

LEMMA ReceiveReturnsKeepsDeliveries ==
  ASSUME IInv, WaitInv, DeliverInv, NEW me \in Threads, NEW c \in Channels,
         ReceiveReturns(me, c)
  PROVE  DeliverInv'
<1>1. /\ current = me /\ call[me] = "receive" /\ chan[me] = c /\ current' = me
      /\ receivers' = [receivers EXCEPT ![c] = Unlink(@, me)]
      /\ receipts' = Append(receipts, <<value[me], c, me>>)
      /\ call' = [call EXCEPT ![me] = "none"] /\ chan' = [chan EXCEPT ![me] = Null]
      /\ UNCHANGED <<senders, value, sent, calls>>
  BY DEF ReceiveReturns, Resumed, Returns, hubVars
<1>2. senders[c] = <<>>
  BY <1>1, SendersSend, DeliverTypes DEF DeliverInv, OneSided, Receiving
<1>3. /\ value[me] \in Nat
      /\ call'[me] = "none"
      /\ \A t \in Threads \ {me} : call'[t] = call[t] /\ chan'[t] = chan[t]
  BY <1>1, DeliverTypes
<1>4. me # Main => /\ Later(value[me], c, receipts)
                   /\ \E t \in Threads : <<value[me], c, t>> \in sent
  BY <1>1 DEF DeliverInv, ReturningHolds, Threads
<1>5. /\ ReceivedInOrder' /\ ReceivedWasSent'
      /\ \A m : Got(m) \/ (m[1] = value[me] /\ m[2] = c) => Got(m)'
      /\ \A w, d : Later(w, d, receipts) /\ (d = c => value[me] < w) => Later(w, d, receipts')
  BY <1>1, <1>3, <1>4, ReceiptKeepsOrder
<1>6. OneSided'
  BY <1>1, <1>2, DeliverTypes DEF DeliverInv, OneSided
<1>7. SentByNow' /\ SendersInOrder'
  BY <1>1 DEF DeliverInv, SentByNow, SendersInOrder
<1>8. BlockedHold'
  <2> SUFFICES ASSUME NEW t \in Threads, t # current', call'[t] = "send"
               PROVE  <<value'[t], chan'[t], t>> \in sent'
                      /\ Later(value'[t], chan'[t], receipts')
    BY DEF BlockedHold
  <2>1. /\ t # me /\ call[t] = "send" /\ chan'[t] = chan[t] /\ value'[t] = value[t]
    BY <1>1, <1>3
  <2>2. chan[t] # c
    BY <1>2, <2>1, SendersSend
  <2> QED BY <1>1, <1>5, <2>1, <2>2 DEF DeliverInv, BlockedHold
<1>9. ReturningHolds'
  BY <1>1, <1>3 DEF ReturningHolds
<1>10. NoneLost'
  <2> SUFFICES ASSUME NEW m \in sent, m[3] # Main
               PROVE  Got(m)' \/ HeldBack(m)' \/ Returning(m)'
    BY <1>1 DEF NoneLost
  <2>1. m[3] \in Threads
    BY DeliverTypes
  <2>2. CASE Got(m) \/ Returning(m)
    BY <1>1, <1>5, <2>2 DEF Returning
  <2>3. CASE HeldBack(m)
    BY <1>1, <1>3, <2>1, <2>3 DEF HeldBack
  <2> QED BY <2>2, <2>3 DEF DeliverInv, NoneLost
<1> QED BY <1>5, <1>6, <1>7, <1>8, <1>9, <1>10 DEF DeliverInv

LEMMA ReceiveFromSenderKeepsDeliveries ==
  ASSUME IInv, WaitInv, DeliverInv, NEW me \in Threads, NEW c \in Channels,
         ReceiveFromSender(me, c)
  PROVE  DeliverInv'
<1> DEFINE s == Head(senders[c])
<1>1. /\ current = me /\ call[me] = "none"
      /\ calls \in Nat /\ calls' \in Nat /\ calls <= calls'
  BY CallsFacts DEF ReceiveFromSender
<1>2. /\ senders[c] # <<>> /\ state[s] = "CHANNEL_S" /\ Handoff(me, s)
      /\ receipts' = Append(receipts, <<value[s], c, me>>)
      /\ UNCHANGED <<receivers, senders, value, call, chan, sent>>
  BY DEF ReceiveFromSender
<1>3. s \in Threads /\ call[s] = "send" /\ chan[s] = c /\ c \in Queues
  BY <1>2, HeadsAreIn DEF Queues, Sending
<1>4. current' = s /\ s # me
  BY <1>1, <1>2, <1>3, HandoffPasses DEF IInv, Passes
<1> HIDE DEF s
<1>5. value[s] \in Nat
  BY <1>3, DeliverTypes
<1>6. Later(value[s], c, receipts) /\ \E t \in Threads : <<value[s], c, t>> \in sent
  BY <1>1, <1>3, <1>4 DEF DeliverInv, BlockedHold
<1>7. /\ ReceivedInOrder' /\ ReceivedWasSent'
      /\ \A m : Got(m) \/ (m[1] = value[s] /\ m[2] = c) => Got(m)'
      /\ \A w, d : Later(w, d, receipts) /\ (d = c => value[s] < w) => Later(w, d, receipts')
  BY <1>2, <1>5, <1>6, ReceiptKeepsOrder
<1>8. OneSided' /\ SendersInOrder'
  BY <1>2 DEF DeliverInv, OneSided, SendersInOrder
<1>9. SentByNow'
  <2> SUFFICES ASSUME NEW m \in sent PROVE m[1] <= calls'
    BY <1>2 DEF SentByNow
  <2>1. m[1] \in Nat /\ m[1] <= calls
    BY DeliverTypes DEF DeliverInv, SentByNow
  <2> QED BY <1>1, <2>1
<1>10. BlockedHold'
  <2> SUFFICES ASSUME NEW t \in Threads, t # s, call[t] = "send"
               PROVE  <<value[t], chan[t], t>> \in sent
                      /\ Later(value[t], chan[t], receipts')
    BY <1>2, <1>4 DEF BlockedHold
  <2>1. <<value[t], chan[t], t>> \in sent /\ Later(value[t], chan[t], receipts)
    BY <1>1 DEF DeliverInv, BlockedHold
  <2>2. ASSUME chan[t] = c PROVE value[s] < value[t]
    <3>1. PICK j \in DOMAIN senders[c] : senders[c][j] = t
      BY <2>2, SendersSend
    <3>2. senders[c] \in Seq(Threads)
      BY <1>3, DeliverTypes
    <3>3. 1 \in DOMAIN senders[c] /\ s = senders[c][1] /\ (j = 1 \/ 1 < j)
      BY <1>2, <3>1, <3>2 DEF s
    <3> QED BY <1>3, <3>1, <3>3 DEF DeliverInv, SendersInOrder
  <2> QED BY <1>7, <2>1, <2>2
<1>11. ReturningHolds'
  BY <1>2, <1>3, <1>4 DEF ReturningHolds
<1>12. NoneLost'
  <2> SUFFICES ASSUME NEW m \in sent, m[3] # Main
               PROVE  Got(m)' \/ HeldBack(m)' \/ Returning(m)'
    BY <1>2 DEF NoneLost
  <2>1. CASE Got(m)
    BY <1>7, <2>1
  <2>2. CASE HeldBack(m) /\ m[3] = s
    BY <1>3, <1>7, <2>2 DEF HeldBack
  <2>3. CASE HeldBack(m) /\ m[3] # s
    BY <1>2, <1>4, <2>3 DEF HeldBack
  <2>4. CASE Returning(m)
    BY <1>1, <2>4 DEF Returning
  <2> QED BY <2>1, <2>2, <2>3, <2>4 DEF DeliverInv, NoneLost
<1> QED BY <1>7, <1>8, <1>9, <1>10, <1>11, <1>12 DEF DeliverInv

LEMMA SendToReceiverKeepsDeliveries ==
  ASSUME IInv, WaitInv, DeliverInv, NEW me \in Threads, NEW c \in Channels,
         SendToReceiver(me, c)
  PROVE  DeliverInv'
<1> DEFINE r == Head(receivers[c])
<1>1. /\ current = me /\ call[me] = "none" /\ calls \in Nat /\ calls' = calls + 1
  BY CallsFacts DEF SendToReceiver
<1>2. /\ receivers[c] # <<>> /\ state[r] = "CHANNEL_R" /\ Handoff(me, r)
      /\ value' = [value EXCEPT ![r] = calls + 1]
      /\ sent' = sent \cup {<<calls + 1, c, me>>}
      /\ UNCHANGED <<receivers, senders, call, chan, receipts>>
  BY DEF SendToReceiver, HandoffSend
<1>3. r \in Threads /\ call[r] = "receive" /\ chan[r] = c /\ c \in Queues
  <2>1. r \in Threads /\ call[r] \in Receiving /\ chan[r] = c /\ c \in Queues
    BY <1>2, HeadsAreIn DEF Queues
  <2> QED BY <2>1 DEF WaitInv, QueueInv, PlaceFits, Receiving
<1>4. current' = r /\ r # me
  BY <1>1, <1>2, <1>3, HandoffPasses DEF IInv, Passes
<1> HIDE DEF r
<1>5. value'[r] = calls + 1 /\ \A t \in Threads \ {r} : value'[t] = value[t]
  BY <1>2, <1>3, DeliverTypes
<1>6. Later(calls + 1, c, receipts)
  BY NewValueIsLater
<1>7. OneSided'
  BY <1>2 DEF DeliverInv, OneSided
<1>8. SendersInOrder'
  BY <1>2, <1>3, <1>5, SendersSend DEF DeliverInv, SendersInOrder
<1>9. SentByNow'
  <2> SUFFICES ASSUME NEW m \in sent' PROVE m[1] <= calls + 1
    BY <1>1 DEF SentByNow
  <2>1. CASE m \in sent
    <3>1. m[1] \in Nat /\ m[1] <= calls
      BY <2>1, DeliverTypes DEF DeliverInv, SentByNow
    <3> QED BY <1>1, <3>1
  <2>2. CASE m = <<calls + 1, c, me>>
    BY <1>1, <2>2
  <2> QED BY <1>2, <2>1, <2>2
<1>10. BlockedHold'
  BY <1>1, <1>2, <1>3, <1>4, <1>5 DEF DeliverInv, BlockedHold
<1>11. ReturningHolds'
  BY <1>2, <1>3, <1>4, <1>5, <1>6 DEF ReturningHolds
<1>12. NoneLost'
  <2> SUFFICES ASSUME NEW m \in sent', m[3] # Main
               PROVE  Got(m)' \/ HeldBack(m)' \/ Returning(m)'
    BY DEF NoneLost
  <2>1. CASE m = <<calls + 1, c, me>>
    BY <1>2, <1>3, <1>4, <1>5, <2>1 DEF Returning
  <2>2. CASE m \in sent /\ Got(m)
    BY <1>2, <2>2 DEF Got
  <2>3. CASE m \in sent /\ HeldBack(m)
    BY <1>2, <1>3, <1>4, <1>5, <2>3, DeliverTypes DEF HeldBack
  <2>4. CASE m \in sent /\ Returning(m)
    BY <1>1, <2>4 DEF Returning
  <2> QED BY <1>2, <2>1, <2>2, <2>3, <2>4 DEF DeliverInv, NoneLost
<1>13. ReceivedInOrder' /\ ReceivedWasSent'
  BY <1>2 DEF DeliverInv, ReceivedInOrder, ReceivedWasSent
<1> QED BY <1>7, <1>8, <1>9, <1>10, <1>11, <1>12, <1>13 DEF DeliverInv

LEMMA SendBlocksKeepsDeliveries ==
  ASSUME IInv, WaitInv, DeliverInv, NEW me \in Threads, NEW c \in Channels,
         SendBlocks(me, c)
  PROVE  DeliverInv'
<1>1. /\ current = me /\ call[me] = "none" /\ calls \in Nat /\ calls' = calls + 1
  BY CallsFacts DEF SendBlocks
<1>2. /\ receivers[c] = <<>> /\ UNCHANGED <<receivers, receipts>>
      /\ senders' = [senders EXCEPT ![c] = Append(@, me)]
      /\ value' = [value EXCEPT ![me] = calls + 1]
      /\ call' = [call EXCEPT ![me] = "send"] /\ chan' = [chan EXCEPT ![me] = c]
      /\ Yield(me, [state EXCEPT ![me] = "CHANNEL_S"])
      /\ sent' = sent \cup {<<calls + 1, c, me>>}
  BY DEF SendBlocks, Block, Enqueue
<1>3. /\ current' # me
      /\ current' \in Threads => call[current'] \notin Linking
  BY <1>1, <1>2, YieldWakesNoneLinked DEF States
<1>4. /\ value'[me] = calls + 1 /\ call'[me] = "send" /\ chan'[me] = c
      /\ \A t \in Threads \ {me} :
           value'[t] = value[t] /\ call'[t] = call[t] /\ chan'[t] = chan[t]
  BY <1>2, DeliverTypes
<1>5. Later(calls + 1, c, receipts)
  BY NewValueIsLater
<1>6. ASSUME NEW q \in Queues, NEW i \in DOMAIN senders[q]
      PROVE  /\ senders[q][i] \in Threads \ {me}
             /\ value'[senders[q][i]] = value[senders[q][i]]
             /\ value[senders[q][i]] < calls + 1
  <2> DEFINE t == senders[q][i]
  <2>1. t \in Threads /\ t # me /\ call[t] = "send"
    BY <1>1, SendersSend
  <2>2. <<value[t], chan[t], t>> \in sent
    BY <1>1, <2>1 DEF DeliverInv, BlockedHold
  <2>3. value[t] <= calls /\ value[t] \in Nat
    BY <2>1, <2>2, DeliverTypes DEF DeliverInv, SentByNow
  <2> QED BY <1>1, <1>4, <2>1, <2>3
<1>7. OneSided'
  BY <1>2, DeliverTypes DEF DeliverInv, OneSided
<1>8. SendersInOrder'
  <2> SUFFICES ASSUME NEW q \in Queues, NEW i \in DOMAIN senders'[q],
                      NEW j \in DOMAIN senders'[q], i < j
               PROVE  value'[senders'[q][i]] < value'[senders'[q][j]]
    BY DEF SendersInOrder
  <2>1. CASE q # c
    BY <1>2, <1>6, <2>1, DeliverTypes DEF DeliverInv, SendersInOrder
  <2>2. CASE q = c
    <3>1. senders[c] \in Seq(Threads) /\ senders'[c] = Append(senders[c], me)
      BY <1>2, <2>2, DeliverTypes
    <3>2. /\ DOMAIN senders[c] = 1..Len(senders[c]) /\ Len(senders[c]) \in Nat
          /\ DOMAIN senders'[c] = 1..Len(senders[c]) + 1
          /\ senders'[c][Len(senders[c]) + 1] = me
          /\ \A k \in 1..Len(senders[c]) : senders'[c][k] = senders[c][k]
      BY <3>1
    <3>3. i \in DOMAIN senders[c] /\ senders'[c][i] = senders[c][i]
      BY <2>2, <3>2
    <3>4. CASE j \in DOMAIN senders[c]
      BY <1>6, <2>2, <3>2, <3>3, <3>4 DEF DeliverInv, SendersInOrder
    <3>5. CASE j = Len(senders[c]) + 1
      BY <1>4, <1>6, <2>2, <3>2, <3>3, <3>5
    <3> QED BY <2>2, <3>2, <3>4, <3>5
  <2> QED BY <2>1, <2>2
<1>9. SentByNow'
  <2> SUFFICES ASSUME NEW m \in sent' PROVE m[1] <= calls + 1
    BY <1>1 DEF SentByNow
  <2>1. CASE m \in sent
    <3>1. m[1] \in Nat /\ m[1] <= calls
      BY <2>1, DeliverTypes DEF DeliverInv, SentByNow
    <3> QED BY <1>1, <3>1
  <2>2. CASE m = <<calls + 1, c, me>>
    BY <1>1, <2>2
  <2> QED BY <1>2, <2>1, <2>2
<1>10. BlockedHold'
  <2> SUFFICES ASSUME NEW t \in Threads, t # current', call'[t] = "send"
               PROVE  <<value'[t], chan'[t], t>> \in sent'
                      /\ Later(value'[t], chan'[t], receipts)
    BY <1>2 DEF BlockedHold
  <2>1. CASE t = me
    BY <1>2, <1>4, <1>5, <2>1
  <2>2. CASE t # me
    BY <1>1, <1>2, <1>4, <2>2 DEF DeliverInv, BlockedHold
  <2> QED BY <2>1, <2>2
<1>11. ReturningHolds'
  BY <1>3, <1>4 DEF ReturningHolds, Linking, Receiving, Threads
<1>12. NoneLost'
  <2> SUFFICES ASSUME NEW m \in sent', m[3] # Main
               PROVE  Got(m)' \/ HeldBack(m)' \/ Returning(m)'
    BY DEF NoneLost
  <2>1. CASE m = <<calls + 1, c, me>>
    BY <1>3, <1>4, <2>1 DEF HeldBack
  <2>2. CASE m \in sent /\ Got(m)
    BY <1>2, <2>2 DEF Got
  <2>3. CASE m \in sent /\ HeldBack(m)
    <3>1. m[3] \in Threads \ {me} /\ m[3] # current'
      BY <1>1, <1>3, <2>3, DeliverTypes DEF HeldBack, Linking, Sending
    <3> QED BY <1>4, <2>3, <3>1 DEF HeldBack
  <2>4. CASE m \in sent /\ Returning(m)
    BY <1>1, <2>4 DEF Returning
  <2> QED BY <1>2, <2>1, <2>2, <2>3, <2>4 DEF DeliverInv, NoneLost
<1>13. ReceivedInOrder' /\ ReceivedWasSent'
  BY <1>2 DEF DeliverInv, ReceivedInOrder, ReceivedWasSent
<1> QED BY <1>7, <1>8, <1>9, <1>10, <1>11, <1>12, <1>13 DEF DeliverInv

LEMMA SendReturnsKeepsDeliveries ==
  ASSUME IInv, WaitInv, DeliverInv, NEW me \in Threads, NEW c \in Channels,
         SendReturns(me, c)
  PROVE  DeliverInv'
<1>1. /\ current = me /\ call[me] = "send" /\ chan[me] = c /\ current' = me
      /\ senders' = [senders EXCEPT ![c] = RemoveFirst(@, me)]
      /\ call' = [call EXCEPT ![me] = "none"] /\ chan' = [chan EXCEPT ![me] = Null]
      /\ UNCHANGED <<receivers, value, sent, receipts, calls>>
  BY DEF SendReturns, Resumed, Returns, hubVars, histVars, Unlink
<1>2. /\ call'[me] = "none"
      /\ \A t \in Threads \ {me} : call'[t] = call[t] /\ chan'[t] = chan[t]
      /\ c \in Queues /\ senders[c] \in Seq(Threads)
      /\ senders'[c] = RemoveFirst(senders[c], me)
      /\ \A q \in Queues : q # c => senders'[q] = senders[q]
  BY <1>1, DeliverTypes
<1>3. PICK i \in DOMAIN senders[c] : senders[c][i] = me
  BY <1>1, SendersSend
<1>4. me \in ToSet(senders[c]) /\ senders[c] # <<>>
  BY <1>2, <1>3, QueueElements, LenProperties
<1>5. PICK k \in 1..Len(senders[c]) : RemoveFirst(senders[c], me) = RemoveAt(senders[c], k)
  BY <1>2, <1>4, RemoveFirstAt
<1>6. /\ Len(senders'[c]) = Len(senders[c]) - 1 /\ senders'[c] \in Seq(Threads)
      /\ \A j \in 1..Len(senders[c]) - 1 :
           senders'[c][j] = IF j < k THEN senders[c][j] ELSE senders[c][j + 1]
  <2> DEFINE q == senders[c]
  <2> SUFFICES /\ RemoveAt(q, k) \in Seq(Threads) /\ Len(RemoveAt(q, k)) = Len(q) - 1
               /\ \A j \in 1..Len(q) - 1 : RemoveAt(q, k)[j] = IF j < k THEN q[j] ELSE q[j + 1]
    BY <1>2, <1>5
  <2>1. q \in Seq(Threads) /\ k \in 1..Len(q)
    BY <1>2
  <2> HIDE DEF q
  <2> QED BY <2>1, RemoveAtPositions
<1>7. OneSided'
  BY <1>1, <1>2, <1>4 DEF DeliverInv, OneSided
<1>8. SendersInOrder'
  <2> SUFFICES ASSUME NEW q \in Queues, NEW x \in DOMAIN senders'[q],
                      NEW y \in DOMAIN senders'[q], x < y
               PROVE  value[senders'[q][x]] < value[senders'[q][y]]
    BY <1>1 DEF SendersInOrder
  <2>1. CASE q # c
    BY <1>2, <2>1 DEF DeliverInv, SendersInOrder
  <2>2. CASE q = c
    <3> DEFINE At(j) == IF j < k THEN j ELSE j + 1
    <3>1. /\ DOMAIN senders[c] = 1..Len(senders[c]) /\ Len(senders[c]) \in Nat
          /\ DOMAIN senders'[c] = 1..Len(senders[c]) - 1
      BY <1>2, <1>6
    <3>2. /\ At(x) \in DOMAIN senders[c] /\ At(y) \in DOMAIN senders[c] /\ At(x) < At(y)
      BY <1>5, <2>2, <3>1
    <3>3. senders'[c][x] = senders[c][At(x)] /\ senders'[c][y] = senders[c][At(y)]
      BY <1>6, <2>2, <3>1
    <3> HIDE DEF At
    <3> QED BY <1>2, <2>2, <3>2, <3>3 DEF DeliverInv, SendersInOrder
  <2> QED BY <2>1, <2>2
<1>9. SentByNow' /\ ReceivedInOrder' /\ ReceivedWasSent'
  BY <1>1 DEF DeliverInv, SentByNow, ReceivedInOrder, ReceivedWasSent
<1>10. BlockedHold' /\ ReturningHolds'
  BY <1>1, <1>2 DEF DeliverInv, BlockedHold, ReturningHolds
<1>11. NoneLost'
  <2> SUFFICES ASSUME NEW m \in sent, m[3] # Main
               PROVE  Got(m)' \/ HeldBack(m)' \/ Returning(m)'
    BY <1>1 DEF NoneLost
  <2>1. m[3] \in Threads
    BY DeliverTypes
  <2>2. CASE Got(m)
    BY <1>1, <2>2 DEF Got
  <2>3. CASE HeldBack(m)
    BY <1>1, <1>2, <2>1, <2>3 DEF HeldBack
  <2>4. CASE Returning(m)
    BY <1>1, <2>4 DEF Returning
  <2> QED BY <2>2, <2>3, <2>4 DEF DeliverInv, NoneLost
<1> QED BY <1>7, <1>8, <1>9, <1>10, <1>11 DEF DeliverInv

LEMMA NextKeepsDeliveries ==
  ASSUME IInv, WaitInv, DeliverInv, [Next]_vars
  PROVE  DeliverInv'
<1>1. ASSUME NEW me \in Threads, NEW c \in Channels, ReceiveBlocks(me, c) PROVE DeliverInv'
  BY <1>1, BlockReceiveKeepsDeliveries DEF ReceiveBlocks, Receiving, Queues, histVars
<1>2. ASSUME NEW me \in Threads, NEW c \in Channels, ChannelStep(me, c) PROVE DeliverInv'
  BY <1>1, <1>2, ReceiveFromSenderKeepsDeliveries, ReceiveReturnsKeepsDeliveries,
     SendToReceiverKeepsDeliveries, SendBlocksKeepsDeliveries, SendReturnsKeepsDeliveries
     DEF ChannelStep
<1> QED BY <1>2, OthersAreBystanders, SemaphoreStepKeepsDeliveries, BystanderKeepsDeliveries

(* Channels: what is received was sent on the channel and comes after what *)
(* was received before, and no value is lost, but for those that main      *)
(* sends or receives; and nobody waits for whom he could be served by.     *)
THEOREM ChannelsAreReliable == Spec => []ChannelsDeliver
<1>1. Init => DeliverInv
  BY DEF Init, HubInit, ChannelInit, DeliverInv, OneSided, SentByNow, BlockedHold,
         SendersInOrder, ReturningHolds, NoneLost, ReceivedInOrder, ReceivedWasSent
<1>2. IInv /\ WaitInv /\ DeliverInv /\ [Next]_vars => DeliverInv'
  BY NextKeepsDeliveries
<1>3. ASSUME IInv, WaitInv, DeliverInv PROVE ChannelsDeliver
  <2>1. NoValueLost
    <3> SUFFICES ASSUME NEW m \in sent, m[3] # Main
                 PROVE  \/ \E i \in DOMAIN receipts :
                              <<receipts[i][1], receipts[i][2]>> = <<m[1], m[2]>>
                        \/ value[m[3]] = m[1] /\ state[m[3]] = "CHANNEL_S" /\ chan[m[3]] = m[2]
                        \/ current \in Threads /\ value[current] = m[1] /\ chan[current] = m[2]
      BY DEF NoValueLost
    <3>1. CASE Got(m)
      BY <3>1 DEF Got
    <3>2. CASE HeldBack(m)
      <4>1. m[3] \in Threads
        BY <1>3, DeliverTypes
      <4>2. state[m[3]] = "CHANNEL_S"
        BY <1>3, <3>2, <4>1 DEF HeldBack, WaitInv, CallInv, Fits
      <4> QED BY <3>2, <4>2 DEF HeldBack
    <3>3. CASE Returning(m)
      BY <3>3 DEF Returning
    <3> QED BY <1>3, <3>1, <3>2, <3>3 DEF DeliverInv, NoneLost
  <2> QED BY <1>3, <2>1 DEF ChannelsDeliver, DeliverInv, OneSided
<1> QED BY <1>1, <1>2, <1>3, SchedulerInvariant, WaitersAreLinked, PTL DEF Spec
=============================================================================
