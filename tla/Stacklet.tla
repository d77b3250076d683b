------------------------------ MODULE Stacklet ------------------------------
(***************************************************************************)
(* stacklet.c, which gives every context of gevent its stack by copying    *)
(* parts of the one C stack to the heap and back.                          *)
(*                                                                         *)
(* The C stack is mem, addresses 1..N; it grows towards 1.  An address     *)
(* stands for one frame.  What lies below the stack pointer may be         *)
(* overwritten at any time (by the frames of save_state(), restore_state() *)
(* and signal handlers), which Junk stands for.  A suspended context has   *)
(* one stacklet, so stacklets are named by their contexts.                 *)
(***************************************************************************)
EXTENDS Integers, SequencesExt

CONSTANTS
  Main,   \* the context that runs at first
  Tasks,  \* the contexts stacklet_new() makes
  N,      \* size of the C stack
  Vals,   \* what programs keep in a frame
  Junk    \* anything else

ASSUME StackletAssumption ==
  /\ Main \notin Tasks
  /\ N \in Nat \ {0}
  /\ Vals # {} /\ Junk \notin Vals

Contexts == Tasks \cup {Main}
Addr  == 1..N
Cells == Vals \cup {Junk}

VARIABLES
  mem,      \* the C stack
  running,  \* the context that runs
  sp,       \* its stack pointer, the lowest address in use
  curStop,  \* thrd->g_current_stack_stop, 0 for NULL
  chain,    \* thrd->g_stack_chain_head and the stack_prev links
  g         \* the struct stacklet_s of each context, Free if it has none

vars == <<mem, running, sp, curStop, chain, g>>

(* stack_start, stack_stop, stack_saved, and the heap area behind the      *)
(* struct with each frame under the address it came from.  frames is       *)
(* history: the stack as it was when the context was suspended.            *)
Stacklets ==
  [start : 0..N, stop : 0..(N + 1), saved : 0..N,
   copy : [Addr -> Cells], frames : [Addr -> Cells]]

AllJunk == [a \in Addr |-> Junk]
Free == [start |-> 0, stop |-> 0, saved |-> 0, copy |-> AllJunk,
         frames |-> AllJunk]

Suspended == {c \in Contexts : g[c].stop # 0}

TypeOK ==
  /\ mem     \in [Addr -> Cells]
  /\ running \in Contexts
  /\ sp      \in Addr
  /\ curStop \in 0..(N + 1)
  /\ chain   \in Seq(Contexts)
  /\ g       \in [Contexts -> Stacklets]

Init ==
  /\ \E v \in Vals : mem = [AllJunk EXCEPT ![N] = v]
  /\ running = Main
  /\ sp = N
  /\ curStop = 0
  /\ chain = <<>>
  /\ g = [c \in Contexts |-> Free]

-----------------------------------------------------------------------------
(* The oldest frame of the running context: that of main(), or that of     *)
(* g_initialstub(), just below the marker.                                 *)
Top == IF running = Main THEN N ELSE curStop - 1

(* The running context calls a function, returns from one, or writes to a  *)
(* variable in one of its frames.                                          *)
Push(v) ==
  /\ sp > 1
  /\ sp'  = sp - 1
  /\ mem' = [mem EXCEPT ![sp - 1] = v]
  /\ UNCHANGED <<running, curStop, chain, g>>

Pop ==
  /\ sp < Top
  /\ sp'  = sp + 1
  /\ mem' = [mem EXCEPT ![sp] = Junk]
  /\ UNCHANGED <<running, curStop, chain, g>>

Write(a, v) ==
  /\ a \in sp..Top
  /\ mem' = [mem EXCEPT ![a] = v]
  /\ UNCHANGED <<running, sp, curStop, chain, g>>

-----------------------------------------------------------------------------
(* The first lines of stacklet_new() and stacklet_switch(): main may have  *)
(* returned past the end of the stack that was known so far.               *)
StopAt_FirstTime(marker) ==                       \* mutant
  IF curStop = 0 THEN marker + 1 ELSE curStop
StopAt(marker) == IF curStop <= marker THEN marker + 1 ELSE curStop

(* g_allocate_source_stacklet(): a stacklet of the stack from low to high, *)
(* nothing of it saved, of which m is what the context must find again.    *)
Source(low, high, m) ==
  [start |-> low, stop |-> high, saved |-> 0, copy |-> AllJunk,
   frames |-> [a \in Addr |-> IF a \in low..(high - 1) THEN m[a] ELSE Junk]]

(* g_save(): more of the stack m of the stacklet s, up to the address upto.*)
Save(s, upto, m) ==
  IF upto - s.start > s.saved
  THEN [s EXCEPT !.saved = upto - s.start,
                 !.copy  = [a \in Addr |->
                    IF a \in (s.start + s.saved)..(upto - 1)
                    THEN m[a] ELSE s.copy[a]]]
  ELSE s

(* stacklet_new(): v is what its own frame, with the marker, and that of   *)
(* g_initialstub() hold when the caller is suspended, and w what run() and *)
(* the rest of g_initialstub() make of the latter, which becomes the       *)
(* oldest frame of t.  Only that frame is copied to the heap for now.      *)
New(t, v, w) ==
  LET marker == sp - 1
      stub   == sp - 2
      m      == [mem EXCEPT ![marker] = v, ![stub] = v]
  IN
  /\ t # running /\ t \notin Suspended
  /\ stub >= 1
  /\ g' = [g EXCEPT ![running] =
              Save(Source(stub, StopAt(marker), m), marker, m)]
  /\ chain'   = <<running>> \o chain
  /\ running' = t
  /\ curStop' = marker
  /\ sp'      = stub
  /\ mem'     = [m EXCEPT ![stub] = w]

(* malloc() fails in g_allocate_source_stacklet(): the caller gets NULL.   *)
NoMemory ==
  /\ sp > 1
  /\ curStop' = StopAt(sp - 1)
  /\ UNCHANGED <<mem, running, sp, chain, g>>

-----------------------------------------------------------------------------
(* g_clear_stack() for a target that ends at address end walks the chain   *)
(* ch up to the first stacklet that ends later.                            *)
FirstLater(gs, ch, end) ==
  LET later == {i \in DOMAIN ch : gs[ch[i]].stop > end}
  IN IF later = {} THEN Len(ch) + 1 ELSE Min(later)

(* What it makes of the stacklets gs: those passed by are saved, except    *)
(* for the target, and of the first later one what lies below end.         *)
Cleared_NoPartialSave(gs, ch, target, m) ==       \* mutant
  LET first == FirstLater(gs, ch, gs[target].stop)
  IN [c \in Contexts |->
        IF c # target /\ \E i \in 1..(first - 1) : ch[i] = c
        THEN Save(gs[c], gs[c].stop, m) ELSE gs[c]]
Cleared(gs, ch, target, m) ==
  LET end   == gs[target].stop
      first == FirstLater(gs, ch, end)
  IN [c \in Contexts |->
        IF c # target /\ \E i \in 1..(first - 1) : ch[i] = c
        THEN Save(gs[c], gs[c].stop, m)
        ELSE IF first \in DOMAIN ch /\ ch[first] = c /\ gs[c].start < end
        THEN Save(gs[c], end, m)
        ELSE gs[c]]

(* slp_switch() moves the stack pointer to where the target's stack begins *)
(* and g_restore_state() copies the saved part back and frees the struct.  *)
Restored(s, m) ==
  [a \in Addr |-> IF a < s.start THEN Junk
                  ELSE IF a < s.start + s.saved THEN s.copy[a] ELSE m[a]]

(* A switch to the suspended context t, gs and ch being the stacklets and  *)
(* the chain when the area of t is cleared, m the stack.                   *)
Resume(t, gs, ch, m) ==
  /\ g'       = [Cleared(gs, ch, t, m) EXCEPT ![t] = Free]
  /\ chain'   = SubSeq(ch, FirstLater(gs, ch, gs[t].stop), Len(ch))
  /\ running' = t
  /\ sp'      = gs[t].start
  /\ curStop' = gs[t].stop
  /\ mem'     = Restored(gs[t], m)

(* stacklet_switch(), its own frame holding v: save_state() is             *)
(* g_save_state(), which makes a stacklet of the caller.                   *)
Switch(t, v) ==
  LET low == sp - 1
      m   == [mem EXCEPT ![low] = v]
  IN
  /\ t \in Suspended
  /\ low >= 1
  /\ Resume(t, [g EXCEPT ![running] = Source(low, StopAt(low), m)],
            <<running>> \o chain, m)

(* run() has returned the handle of t: g_destroy_state().                  *)
Finish(t) ==
  /\ running # Main /\ sp = Top
  /\ t \in Suspended
  /\ Resume(t, g, chain, mem)

(* stacklet_destroy()                                                      *)
Destroy(t) ==
  /\ t \in Suspended \ {Main}
  /\ g' = [g EXCEPT ![t] = Free]
  /\ \/ \E i \in DOMAIN chain : chain[i] = t /\ chain' = RemoveAt(chain, i)
     \/ (\A i \in DOMAIN chain : chain[i] # t) /\ chain' = chain
  /\ UNCHANGED <<mem, running, sp, curStop>>

Next ==
  \/ \E v \in Vals : Push(v)
  \/ Pop
  \/ \E a \in Addr, v \in Vals : Write(a, v)
  \/ \E t \in Tasks, v, w \in Vals : New(t, v, w)
  \/ NoMemory
  \/ \E t \in Contexts, v \in Vals : Switch(t, v)
  \/ \E t \in Contexts : Finish(t) \/ Destroy(t)

Spec == Init /\ [][Next]_vars

-----------------------------------------------------------------------------
(* Every frame of a suspended context is, as it was when the context was   *)
(* suspended, in the heap if it was saved and else still on the C stack.   *)
(* There it is out of reach of the running context and in the order of the *)
(* chain, which holds all stacklets that have such frames.                 *)
FramesAreKept ==
  \A c \in Suspended : \A a \in g[c].start..(g[c].stop - 1) :
     g[c].frames[a] = IF a < g[c].start + g[c].saved THEN g[c].copy[a]
                                                     ELSE mem[a]

UnsavedOutOfReach ==
  \A c \in Suspended : g[c].start + g[c].saved < g[c].stop =>
     /\ g[c].start + g[c].saved >= curStop
     /\ \E i \in DOMAIN chain : chain[i] = c

ChainInOrder ==
  \A i, j \in DOMAIN chain : i < j =>
     g[chain[i]].stop <= g[chain[j]].start + g[chain[j]].saved

StacksIntact == FramesAreKept /\ UnsavedOutOfReach /\ ChainInOrder

(* A context that is resumed has the stack it was suspended with.          *)
ResumedWithItsStack ==
  [][\A c \in Suspended : running' = c =>
        \A a \in sp'..(curStop' - 1) : mem'[a] = g[c].frames[a]]_vars
=============================================================================
