----------------------------- MODULE GeventHub -----------------------------
(***************************************************************************)
(* The scheduler core of gevent.c: which context (a cothread, the main     *)
(* cothread or the hub that runs the libuv loop) has the processor, the    *)
(* ready queue, the stacklet handles by which suspended contexts are       *)
(* resumed, and the four ways the code leaves a context.                   *)
(*                                                                         *)
(* The module has no next-state relation of its own: GeventChannel and     *)
(* Gevent build the API calls from these operators.  One operator stands   *)
(* for everything from the decision to switch up to the end of             *)
(* _after_switch() in the context switched to, because no user code runs   *)
(* in between.                                                             *)
(***************************************************************************)
EXTENDS Integers, SequencesExt

CONSTANTS
  Cothreads,  \* the gevent_cothread structs the program spawns
  Main,       \* hub->main, the initial thread of execution
  Hub,        \* the context inside uv_run(); hub->current = NULL
  Null        \* a NULL pointer

ASSUME ContextsAssumption ==
  /\ Main \notin Cothreads
  /\ Hub \notin Cothreads \cup {Main}
  /\ Null \notin Cothreads \cup {Main, Hub}

Threads  == Cothreads \cup {Main}
Contexts == Threads \cup {Hub}

(* gevent_cothread_state, without the values no function assigns.          *)
States == {"CURRENT", "NEW", "READY", "DEAD", "CHANNEL_R", "CHANNEL_S",
           "TIMER", "GETADDRINFO"}

(* Where the hub stands: "off" before hub_starter_fn and after it returned,*)
(* "enter" at the top of uv_run(), then the two phases of a loop iteration *)
(* in which gevent callbacks run.                                          *)
HubPhases == {"off", "enter", "timers", "poll"}

VARIABLES
  state,      \* t->state
  current,    \* hub->current, Hub standing for NULL
  ready,      \* hub->ready, linked through op.ready
  stacklet,   \* t->stacklet and, at Hub, hub->stacklet; the context whose
              \* suspended stack the handle holds, or Null
  hubpc       \* HubPhases

hubVars == <<state, current, ready, stacklet, hubpc>>

HubTypeOK ==
  /\ state    \in [Threads -> States]
  /\ current  \in Contexts
  /\ ready    \in Seq(Threads)
  /\ stacklet \in [Contexts -> Contexts \cup {Null}]
  /\ hubpc    \in HubPhases

(* gevent_hub_init(): main is the current cothread, the hub has no stack.  *)
HubInit ==
  /\ state    = [t \in Threads |-> IF t = Main THEN "CURRENT" ELSE "NEW"]
  /\ current  = Main
  /\ ready    = <<>>
  /\ stacklet = [x \in Contexts |-> Null]
  /\ hubpc    = "off"

-----------------------------------------------------------------------------
(* ngx_queue_insert_tail() and ngx_queue_remove(); an element is linked at *)
(* most once (OneLinkAtATime in GeventProperties).                         *)
Enqueue_Front(q, t) == <<t>> \o q                 \* mutant
Enqueue(q, t) == Append(q, t)

Unlink(q, t) == RemoveFirst(q, t)

(* _activate(): the running cothread goes to the tail of the ready queue.  *)
Activate(me) ==
  [st |-> [state EXCEPT ![me] = "READY"], rdy |-> Enqueue(ready, me)]

(* What the resumed side of a switch makes of the cothread states: the     *)
(* hub has no gevent_cothread_state.                                       *)
Entered(st, to) ==
  IF to = Hub THEN st ELSE [st EXCEPT ![to] = "CURRENT"]

(* me is suspended and `to` runs: stacklet_switch()/stacklet_new() and     *)
(* _after_switch(hub, to, source) with source = the handle of me.          *)
SwitchTo_KeepsHandle(me, to, st, rdy) ==          \* mutant
  /\ current'  = to
  /\ state'    = Entered(st, to)
  /\ ready'    = rdy
  /\ stacklet' = [stacklet EXCEPT ![me] = me]
  /\ hubpc'    = IF to = Hub /\ hubpc = "off" THEN "enter" ELSE hubpc
SwitchTo(me, to, st, rdy) ==
  /\ current'  = to
  /\ state'    = Entered(st, to)
  /\ ready'    = rdy
  /\ stacklet' = [stacklet EXCEPT ![me] = me, ![to] = Null]
  /\ hubpc'    = IF to = Hub /\ hubpc = "off" THEN "enter" ELSE hubpc

(* gevent_switch(): a NEW cothread gets a fresh stack, any other is        *)
(* resumed through its handle.                                             *)
Switch(me, t, st, rdy) ==
  SwitchTo(me, IF st[t] = "NEW" THEN t ELSE stacklet[t], st, rdy)

(* gevent_switch_to_hub(): hub_starter_fn on a fresh stack when there is   *)
(* no suspended hub.                                                       *)
SwitchToHub(me, st) ==
  SwitchTo(me, IF stacklet[Hub] = Null THEN Hub ELSE stacklet[Hub], st, ready)

(* gevent_yield(): the first ready cothread, else the hub.                 *)
Yield_ToHub(me, st) == SwitchToHub(me, st)        \* mutant
Yield(me, st) ==
  IF ready # <<>> THEN Switch(me, Head(ready), st, Tail(ready))
                  ELSE SwitchToHub(me, st)

(* _get_next_stacklet(): whom a context that ends hands the processor to.  *)
NextContext_MainFirst ==                          \* mutant
  IF ready # <<>> THEN Head(ready) ELSE Main
NextContext ==
  IF ready # <<>> THEN Head(ready)
  ELSE IF stacklet[Hub] # Null THEN Hub ELSE Main

(* A context returns from its starter function: _get_next_stacklet(), then *)
(* _after_switch() with source = EMPTY_STACKLET_HANDLE in the next one.    *)
(* A cothread becomes DEAD; the hub leaves no handle behind.               *)
Leave(me) ==
  LET to == stacklet[NextContext] IN
  /\ current'  = to
  /\ state'    = Entered(IF me = Hub THEN state
                         ELSE [state EXCEPT ![me] = "DEAD"], to)
  /\ ready'    = IF ready # <<>> THEN Tail(ready) ELSE ready
  /\ stacklet' = [stacklet EXCEPT ![me] = Null, ![to] = Null]
  /\ hubpc'    = IF me = Hub THEN "off" ELSE hubpc
=============================================================================
