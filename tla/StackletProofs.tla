--------------------------- MODULE StackletProofs ---------------------------
(***************************************************************************)
(* Proofs about Stacklet for every number of contexts and every size of    *)
(* the C stack: no frame of a suspended context is ever lost, and each     *)
(* context is resumed with the stack it was suspended with.                *)
(*                                                                         *)
(* The argument: what is not saved of the suspended contexts lies above    *)
(* the stack of the running one, in the order of the chain.  When the      *)
(* target of a switch takes its place, g_clear_stack() has saved exactly   *)
(* what lies below the end of its stack.                                   *)
(***************************************************************************)
EXTENDS Stacklet, SharedLemmas

USE StackletAssumption

(* The stacklets gs of a chain ch are consistent with the C stack m when   *)
(* the part that may be overwritten ends below the address low.            *)
Unsaved(s) == s.start + s.saved < s.stop

Shaped(s) == 1 <= s.start /\ s.start < s.stop /\ s.start + s.saved <= s.stop

Taken(gs) == {c \in Contexts : gs[c].stop # 0}

Kept(s, m) ==
  \A a \in s.start..(s.stop - 1) :
     s.frames[a] = IF a < s.start + s.saved THEN s.copy[a] ELSE m[a]

InOrder(gs, ch) ==
  \A i, j \in DOMAIN ch : i < j =>
     gs[ch[i]].stop <= gs[ch[j]].start + gs[ch[j]].saved

Consistent(gs, ch, m, low) ==
  /\ gs \in [Contexts -> Stacklets] /\ ch \in Seq(Contexts) /\ m \in [Addr -> Cells]
  /\ \A c \in Taken(gs) : Shaped(gs[c]) /\ Kept(gs[c], m)
  /\ \A c \in Taken(gs) : Unsaved(gs[c]) =>
        gs[c].start + gs[c].saved >= low /\ \E i \in DOMAIN ch : ch[i] = c
  /\ \A i \in DOMAIN ch : ch[i] \in Taken(gs) /\ Unsaved(gs[ch[i]])
  /\ InOrder(gs, ch)

(* Main's stack ends above all others.                                     *)
MainIsOldest(gs, run, stop) ==
  /\ run = Main => \A c \in Taken(gs) : gs[c].stop <= stop
  /\ run # Main => /\ Main \in Taken(gs) /\ stop <= gs[Main].stop
                   /\ \A c \in Taken(gs) : gs[c].stop <= gs[Main].stop

IInv ==
  /\ TypeOK
  /\ Consistent(g, chain, mem, curStop)
  /\ running \notin Suspended
  /\ running # Main => sp < curStop
  /\ MainIsOldest(g, running, curStop)

-----------------------------------------------------------------------------
LEMMA Numbers ==
  ASSUME NEW s \in Stacklets
  PROVE  /\ s.start \in 0..N /\ s.stop \in 0..(N + 1) /\ s.saved \in 0..N
         /\ s.start \in Nat /\ s.stop \in Nat /\ s.saved \in Nat
         /\ s.copy \in [Addr -> Cells] /\ s.frames \in [Addr -> Cells]
         /\ N \in Nat \ {0}
BY DEF Stacklets

(* g_save() copies what is not saved yet below the address upto.           *)
LEMMA SaveCopies ==
  ASSUME NEW s \in Stacklets, Shaped(s), NEW m \in [Addr -> Cells],
         NEW upto \in Nat, upto <= s.stop
  PROVE  LET n == Save(s, upto, m) IN
         /\ n \in Stacklets
         /\ n.start = s.start /\ n.stop = s.stop /\ n.frames = s.frames
         /\ n.saved = IF upto - s.start > s.saved THEN upto - s.start ELSE s.saved
         /\ \A a \in Addr : n.copy[a] = IF a \in (s.start + s.saved)..(upto - 1)
                                        THEN m[a] ELSE s.copy[a]
<1> USE DEF Addr
<1>1. /\ s.start \in 0..N /\ s.stop \in 0..(N + 1) /\ s.saved \in 0..N
      /\ s.copy \in [Addr -> Cells] /\ s.frames \in [Addr -> Cells]
      /\ N \in Nat \ {0}
  BY Numbers
<1> DEFINE copied == [a \in Addr |-> IF a \in (s.start + s.saved)..(upto - 1)
                                     THEN m[a] ELSE s.copy[a]]
           n == Save(s, upto, m)
<1>2. copied \in [Addr -> Cells]
  BY <1>1
<1>3. CASE upto - s.start > s.saved
  <2>1. n = [s EXCEPT !.saved = upto - s.start, !.copy = copied]
    BY <1>3 DEF Save
  <2>2. upto - s.start \in 0..N
    BY <1>1, <1>3 DEF Shaped
  <2> HIDE DEF copied
  <2>3. /\ n \in Stacklets
        /\ n.start = s.start /\ n.stop = s.stop /\ n.frames = s.frames
        /\ n.saved = upto - s.start /\ n.copy = copied
    BY <1>2, <2>1, <2>2 DEF Stacklets
  <2> QED BY <1>3, <2>3 DEF copied
<1>4. CASE ~(upto - s.start > s.saved)
  <2>1. n = s
    BY <1>4 DEF Save
  <2>2. (s.start + s.saved)..(upto - 1) = {}
    BY <1>1, <1>4
  <2> QED BY <1>4, <2>1, <2>2
<1> QED BY <1>3, <1>4

(* It copies the frames of the stacklet when they are still on the stack.  *)
LEMMA SaveKeeps ==
  ASSUME NEW s \in Stacklets, Shaped(s), NEW m \in [Addr -> Cells], Kept(s, m),
         NEW upto \in Nat, upto <= s.stop
  PROVE  Shaped(Save(s, upto, m)) /\ Kept(Save(s, upto, m), m)
<1> DEFINE n == Save(s, upto, m)
<1>1. /\ n.start = s.start /\ n.stop = s.stop /\ n.frames = s.frames
      /\ n.saved = IF upto - s.start > s.saved THEN upto - s.start ELSE s.saved
      /\ \A a \in Addr : n.copy[a] = IF a \in (s.start + s.saved)..(upto - 1)
                                     THEN m[a] ELSE s.copy[a]
  BY SaveCopies
<1>2. s.start \in Nat /\ s.stop \in Nat /\ s.saved \in Nat /\ s.stop <= N + 1 /\ N \in Nat
  BY DEF Stacklets
<1> HIDE DEF n
<1>3. Shaped(n)
  BY <1>1, <1>2 DEF Shaped
<1>4. ASSUME NEW a \in n.start..(n.stop - 1)
      PROVE  n.frames[a] = IF a < n.start + n.saved THEN n.copy[a] ELSE m[a]
  <2>1. a \in Addr /\ a \in s.start..(s.stop - 1)
    BY <1>1, <1>2 DEF Shaped, Addr
  <2>2. s.frames[a] = IF a < s.start + s.saved THEN s.copy[a] ELSE m[a]
    BY <2>1 DEF Kept
  <2>3. n.copy[a] = IF a \in (s.start + s.saved)..(upto - 1) THEN m[a] ELSE s.copy[a]
    BY <1>1, <2>1
  <2> QED BY <1>1, <1>2, <2>1, <2>2, <2>3
<1> QED BY <1>3, <1>4 DEF Kept, n

(* g_clear_stack() stops at the first stacklet that ends later.            *)
LEMMA FirstLaterStops ==
  ASSUME NEW gs, NEW ch \in Seq(Contexts), NEW end \in Nat,
         \A i \in DOMAIN ch : gs[ch[i]].stop \in Nat
  PROVE  /\ FirstLater(gs, ch, end) \in 1..(Len(ch) + 1)
         /\ \A i \in DOMAIN ch : i < FirstLater(gs, ch, end) => gs[ch[i]].stop <= end
         /\ FirstLater(gs, ch, end) \in DOMAIN ch =>
              gs[ch[FirstLater(gs, ch, end)]].stop > end
<1> DEFINE later == {i \in DOMAIN ch : gs[ch[i]].stop > end}
<1>1. DOMAIN ch = 1..Len(ch) /\ Len(ch) \in Nat
  BY LenProperties
<1>2. CASE later = {}
  <2>1. FirstLater(gs, ch, end) = Len(ch) + 1
    BY <1>2 DEF FirstLater
  <2>2. ASSUME NEW i \in DOMAIN ch PROVE gs[ch[i]].stop <= end
    BY <1>2
  <2> QED BY <1>1, <2>1, <2>2
<1>3. CASE later # {}
  <2>1. FirstLater(gs, ch, end) = Min(later)
    BY <1>3 DEF FirstLater
  <2>2. later \in SUBSET Nat
    BY <1>1
  <2>3. Min(later) \in later /\ \A i \in later : Min(later) <= i
    BY <1>3, <2>2, MinIsElement
  <2> DEFINE f == FirstLater(gs, ch, end)
  <2>4. f \in later /\ \A i \in later : f <= i
    BY <2>1, <2>3
  <2> HIDE DEF f
  <2>5. f \in 1..(Len(ch) + 1) /\ gs[ch[f]].stop > end
    BY <1>1, <2>4
  <2>6. ASSUME NEW i \in DOMAIN ch, i < f PROVE gs[ch[i]].stop <= end
    BY <1>1, <2>4, <2>6
  <2> QED BY <2>5, <2>6 DEF f
<1> QED BY <1>2, <1>3

Saved(s, upto, m, n) ==
  /\ n \in Stacklets /\ Shaped(n) /\ Kept(n, m)
  /\ n.start = s.start /\ n.stop = s.stop /\ n.frames = s.frames
  /\ n.saved = IF upto - s.start > s.saved THEN upto - s.start ELSE s.saved

LEMMA SaveSaves ==
  ASSUME NEW s \in Stacklets, Shaped(s), NEW m \in [Addr -> Cells], Kept(s, m),
         NEW upto \in Nat, upto <= s.stop
  PROVE  Saved(s, upto, m, Save(s, upto, m))
<1> DEFINE n == Save(s, upto, m)
<1>1. /\ n \in Stacklets /\ n.start = s.start /\ n.stop = s.stop /\ n.frames = s.frames
      /\ n.saved = IF upto - s.start > s.saved THEN upto - s.start ELSE s.saved
  BY SaveCopies
<1>2. Shaped(n) /\ Kept(n, m)
  BY SaveKeeps
<1> HIDE DEF n
<1>3. Saved(s, upto, m, n)
  BY <1>1, <1>2 DEF Saved
<1> QED BY <1>3 DEF n

(* What g_clear_stack() makes of the stacklets.                            *)
LEMMA ClearedStacklets ==
  ASSUME NEW gs, NEW ch, NEW m, Consistent(gs, ch, m, 0),
         NEW t \in Taken(gs), NEW c \in Taken(gs) \ {t}
  PROVE  LET end == gs[t].stop
             n   == Cleared(gs, ch, t, m)[c]
         IN /\ n \in Stacklets /\ Shaped(n) /\ Kept(n, m)
            /\ n.start = gs[c].start /\ n.stop = gs[c].stop
            /\ n.frames = gs[c].frames
            /\ n.saved >= gs[c].saved
            /\ Unsaved(n) =>
                 /\ n.start + n.saved >= end
                 /\ \E i \in FirstLater(gs, ch, end)..Len(ch) : ch[i] = c
            /\ gs[c].stop > end /\ Unsaved(gs[c]) => Unsaved(n)
<1> DEFINE end == gs[t].stop
           f == FirstLater(gs, ch, end)
           s == gs[c]
           n == Cleared(gs, ch, t, m)[c]
<1>1. /\ gs \in [Contexts -> Stacklets] /\ ch \in Seq(Contexts)
      /\ m \in [Addr -> Cells]
      /\ DOMAIN ch = 1..Len(ch) /\ Len(ch) \in Nat
      /\ c \in Contexts /\ t \in Contexts /\ c # t
      /\ s \in Stacklets /\ Shaped(s) /\ Kept(s, m)
      /\ \A i \in DOMAIN ch : gs[ch[i]] \in Stacklets
  BY LenProperties DEF Consistent, Taken
<1>2. /\ s.start \in Nat /\ s.stop \in Nat /\ s.saved \in Nat /\ end \in Nat
      /\ \A i \in DOMAIN ch : /\ gs[ch[i]].stop \in Nat /\ gs[ch[i]].start \in Nat
                              /\ gs[ch[i]].saved \in Nat
  BY <1>1, Numbers
<1>3. /\ f \in 1..(Len(ch) + 1)
      /\ \A i \in DOMAIN ch : i < f => gs[ch[i]].stop <= end
      /\ f \in DOMAIN ch => gs[ch[f]].stop > end
  BY <1>1, <1>2, FirstLaterStops
<1> HIDE DEF end
<1> DEFINE before == \E i \in 1..(f - 1) : ch[i] = c
           partly == f \in DOMAIN ch /\ ch[f] = c /\ gs[c].start < end
<1>4. n = IF before THEN Save(s, s.stop, m)
          ELSE IF partly THEN Save(s, end, m) ELSE s
  BY <1>1 DEF Cleared, end
<1> HIDE DEF n
<1>5. CASE before
  <2>1. s.stop <= s.stop
    BY <1>2
  <2>2. /\ n \in Stacklets /\ Shaped(n) /\ Kept(n, m)
        /\ n.start = s.start /\ n.stop = s.stop /\ n.frames = s.frames
        /\ n.saved = IF s.stop - s.start > s.saved THEN s.stop - s.start ELSE s.saved
    BY <1>1, <1>2, <1>4, <1>5, <2>1, SaveSaves DEF Saved
  <2>3. n.saved \in Nat /\ ~Unsaved(n)
    BY <1>2, <2>2 DEF Unsaved, Shaped
  <2>4. ~(s.stop > end)
    BY <1>1, <1>2, <1>3, <1>5
  <2> QED BY <1>2, <2>2, <2>3, <2>4 DEF end, n
<1>6. CASE ~before /\ partly
  <2>1. s.stop > end
    BY <1>3, <1>6
  <2>2. /\ n \in Stacklets /\ Shaped(n) /\ Kept(n, m)
        /\ n.start = s.start /\ n.stop = s.stop /\ n.frames = s.frames
        /\ n.saved = IF end - s.start > s.saved THEN end - s.start ELSE s.saved
    <3>1. end \in Nat /\ end <= s.stop /\ n = Save(s, end, m)
      BY <1>2, <1>4, <1>6, <2>1
    <3>2. Saved(s, end, m, n)
      BY <1>1, <3>1, SaveSaves
    <3> QED BY <3>2 DEF Saved
  <2>3. n.start + n.saved >= end /\ n.saved >= s.saved
    BY <1>2, <2>2
  <2>4. Unsaved(s) => Unsaved(n)
    BY <1>2, <2>1, <2>2 DEF Unsaved
  <2>5. \E i \in f..Len(ch) : ch[i] = c
    BY <1>1, <1>6
  <2> QED BY <2>2, <2>3, <2>4, <2>5 DEF end, n
<1>7. CASE ~before /\ ~partly
  <2>1. n = s
    BY <1>4, <1>7
  <2>2. ASSUME Unsaved(s)
        PROVE  s.start + s.saved >= end /\ \E i \in f..Len(ch) : ch[i] = c
    <3>1. PICK i \in DOMAIN ch : ch[i] = c
      BY <2>2 DEF Consistent
    <3>2. i >= f
      BY <1>1, <1>3, <1>7, <3>1
    <3>3. f \in DOMAIN ch
      BY <1>1, <1>3, <3>1, <3>2
    <3>4. CASE i = f
      BY <1>1, <1>2, <1>3, <1>7, <3>1, <3>3, <3>4
    <3>5. CASE f < i
      <4>1. gs[ch[f]].stop <= s.start + s.saved
        BY <3>1, <3>3, <3>5 DEF Consistent, InOrder
      <4> QED BY <1>1, <1>2, <1>3, <3>1, <3>2, <3>3, <4>1
    <3> QED BY <1>1, <1>3, <3>1, <3>2, <3>4, <3>5
  <2> QED BY <1>1, <1>2, <2>1, <2>2 DEF end, n
<1> QED BY <1>5, <1>6, <1>7

(* A stacklet that does not exist is left alone.                           *)
LEMMA ClearedOthers ==
  ASSUME NEW gs, NEW ch, NEW m, Consistent(gs, ch, m, 0),
         NEW t \in Taken(gs), NEW c \in Contexts \ Taken(gs)
  PROVE  Cleared(gs, ch, t, m)[c] = gs[c]
<1>1. \A i \in DOMAIN ch : ch[i] # c
  BY DEF Consistent
<1>2. /\ ch \in Seq(Contexts) /\ DOMAIN ch = 1..Len(ch) /\ Len(ch) \in Nat
      /\ gs[t] \in Stacklets /\ \A i \in DOMAIN ch : gs[ch[i]] \in Stacklets
  BY LenProperties DEF Consistent, Taken
<1>3. gs[t].stop \in Nat /\ \A i \in DOMAIN ch : gs[ch[i]].stop \in Nat
  BY <1>2, Numbers
<1> DEFINE f == FirstLater(gs, ch, gs[t].stop)
<1>4. ASSUME NEW i \in 1..(f - 1), ch[i] = c PROVE i \in DOMAIN ch
  <2>1. f \in 1..(Len(ch) + 1)
    BY <1>2, <1>3, FirstLaterStops
  <2> QED BY <1>2, <2>1
<1> HIDE DEF f
<1>5. Cleared(gs, ch, t, m)[c] =
        IF c # t /\ \E i \in 1..(f - 1) : ch[i] = c
        THEN Save(gs[c], gs[c].stop, m)
        ELSE IF f \in DOMAIN ch /\ ch[f] = c /\ gs[c].start < gs[t].stop
        THEN Save(gs[c], gs[t].stop, m)
        ELSE gs[c]
  BY DEF Cleared, f
<1> QED BY <1>1, <1>4, <1>5

-----------------------------------------------------------------------------
(* A switch: the target gets its stack, and all others keep theirs.        *)
LEMMA ResumeKeeps ==
  ASSUME NEW gs, NEW ch, NEW m, Consistent(gs, ch, m, 0),
         NEW t \in Taken(gs), Main \in Taken(gs),
         \A c \in Taken(gs) : gs[c].stop <= gs[Main].stop,
         Resume(t, gs, ch, m)
  PROVE  IInv' /\ \A a \in sp'..(curStop' - 1) : mem'[a] = gs[t].frames[a]
<1> DEFINE end == gs[t].stop
           f == FirstLater(gs, ch, end)
           cl == Cleared(gs, ch, t, m)
<1>1. /\ g' = [cl EXCEPT ![t] = Free]
      /\ chain' = SubSeq(ch, f, Len(ch))
      /\ running' = t /\ sp' = gs[t].start /\ curStop' = end
      /\ mem' = Restored(gs[t], m)
  BY DEF Resume
<1>2. /\ gs \in [Contexts -> Stacklets] /\ ch \in Seq(Contexts)
      /\ m \in [Addr -> Cells]
      /\ DOMAIN ch = 1..Len(ch) /\ Len(ch) \in Nat
      /\ t \in Contexts /\ gs[t] \in Stacklets /\ Shaped(gs[t]) /\ Kept(gs[t], m)
      /\ \A i \in DOMAIN ch : ch[i] \in Contexts /\ gs[ch[i]] \in Stacklets
  BY LenProperties DEF Consistent, Taken
<1>3. /\ \A c \in Contexts : /\ gs[c].stop \in Nat /\ gs[c].start \in Nat
                             /\ gs[c].saved \in Nat
                             /\ gs[c].start <= N /\ gs[c].stop <= N + 1
      /\ end \in Nat /\ N \in Nat \ {0}
  BY <1>2, Numbers
<1>4. /\ f \in 1..(Len(ch) + 1)
      /\ \A i \in DOMAIN ch : i < f => gs[ch[i]].stop <= end
      /\ f \in DOMAIN ch => gs[ch[f]].stop > end
  BY <1>2, <1>3, FirstLaterStops
<1>5. ASSUME NEW c \in Taken(gs) \ {t}
      PROVE  /\ cl[c] \in Stacklets /\ Shaped(cl[c]) /\ Kept(cl[c], m)
             /\ cl[c].start = gs[c].start /\ cl[c].stop = gs[c].stop
             /\ cl[c].saved >= gs[c].saved
             /\ Unsaved(cl[c]) => /\ cl[c].start + cl[c].saved >= end
                                  /\ \E i \in f..Len(ch) : ch[i] = c
             /\ gs[c].stop > end /\ Unsaved(gs[c]) => Unsaved(cl[c])
  BY ClearedStacklets
<1>6. \A c \in Contexts \ Taken(gs) : cl[c] = gs[c]
  BY ClearedOthers
<1>7. DOMAIN cl = Contexts
  BY DEF Cleared
<1>8. /\ \A c \in Contexts : g'[c] = IF c = t THEN Free ELSE cl[c]
      /\ DOMAIN g' = Contexts
  BY <1>1, <1>2, <1>7
<1> HIDE DEF cl, f, end
<1>9. Free \in Stacklets /\ Free.stop = 0
  BY DEF Free, Stacklets, AllJunk, Cells
<1>10. g' \in [Contexts -> Stacklets]
  <2>1. \A c \in Contexts : g'[c] \in Stacklets
    BY <1>2, <1>5, <1>6, <1>8, <1>9
  <2>2. g' = [c \in Contexts |-> g'[c]]
    BY <1>1, <1>7
  <2> QED BY <2>1, <2>2
<1>11. Taken(g') = Taken(gs) \ {t}
  <2>1. \A c \in Taken(gs) \ {t} : g'[c].stop = gs[c].stop /\ gs[c].stop # 0 /\ c \in Contexts
    BY <1>5, <1>8 DEF Taken
  <2>2. \A c \in Contexts \ Taken(gs) : g'[c].stop = 0
    BY <1>6, <1>8, <1>9 DEF Taken
  <2>3. g'[t].stop = 0
    BY <1>2, <1>8, <1>9
  <2> QED BY <2>1, <2>2, <2>3 DEF Taken
<1>12. \A c \in Taken(g') : c \in Taken(gs) \ {t} /\ c \in Contexts /\ g'[c] = cl[c]
  BY <1>8, <1>11 DEF Taken
<1>13. mem' \in [Addr -> Cells]
       /\ \A a \in Addr : mem'[a] =
            IF a < gs[t].start THEN Junk
            ELSE IF a < gs[t].start + gs[t].saved THEN gs[t].copy[a] ELSE m[a]
  BY <1>1, <1>2, Numbers DEF Restored, Cells
(* The chain goes on with the first stacklet that ends later.              *)
<1>14. /\ chain' \in Seq(Contexts) /\ DOMAIN chain' = 1..(Len(ch) - f + 1)
       /\ \A i \in DOMAIN chain' : i + f - 1 \in f..Len(ch) /\ chain'[i] = ch[i + f - 1]
       /\ \A j \in f..Len(ch) : j - f + 1 \in DOMAIN chain' /\ chain'[j - f + 1] = ch[j]
  <2>1. /\ f \in Int /\ Len(ch) \in Int /\ \A i \in f..Len(ch) : ch[i] \in Contexts
    BY <1>2, <1>4
  <2>2. /\ chain' \in Seq(Contexts)
        /\ Len(chain') = IF f <= Len(ch) THEN Len(ch) - f + 1 ELSE 0
        /\ \A i \in 1..(Len(ch) - f + 1) : chain'[i] = ch[f + i - 1]
    BY <1>1, <2>1, SubSeqProperties
  <2>3. DOMAIN chain' = 1..(Len(ch) - f + 1)
    <3>1. DOMAIN chain' = 1..Len(chain')
      BY <2>2, LenProperties
    <3> QED BY <1>2, <1>4, <2>2, <3>1
  <2>4. ASSUME NEW i \in DOMAIN chain'
        PROVE  i + f - 1 \in f..Len(ch) /\ chain'[i] = ch[i + f - 1]
    <3>1. f + i - 1 = i + f - 1
      BY <1>2, <1>4, <2>3
    <3>2. i \in 1..(Len(ch) - f + 1)
      BY <2>3
    <3>3. chain'[i] = ch[i + f - 1]
      BY <2>2, <3>1, <3>2
    <3>4. i + f - 1 \in f..Len(ch)
      BY <1>2, <1>4, <3>2
    <3> QED BY <3>3, <3>4
  <2>5. ASSUME NEW j \in f..Len(ch)
        PROVE  j - f + 1 \in DOMAIN chain' /\ chain'[j - f + 1] = ch[j]
    <3>1. f + (j - f + 1) - 1 = j /\ j - f + 1 \in 1..(Len(ch) - f + 1)
      BY <1>2, <1>4
    <3> QED BY <2>2, <2>3, <3>1
  <2> QED BY <2>2, <2>3, <2>4, <2>5
<1>15. ASSUME NEW j \in f..Len(ch)
       PROVE  j \in DOMAIN ch /\ ch[j] \in Taken(gs) \ {t} /\ Unsaved(cl[ch[j]])
  <2>1. /\ j \in DOMAIN ch /\ f \in DOMAIN ch /\ j >= f
        /\ ch[j] \in Taken(gs) /\ ch[f] \in Taken(gs) /\ Unsaved(gs[ch[j]])
    BY <1>2, <1>4 DEF Consistent
  <2>2. gs[ch[j]].stop > end
    <3>1. CASE j = f
      BY <1>4, <2>1, <3>1
    <3>2. CASE f < j
      <4>1. gs[ch[f]].stop <= gs[ch[j]].start + gs[ch[j]].saved
        BY <2>1, <3>2 DEF Consistent, InOrder
      <4> QED BY <1>2, <1>3, <1>4, <2>1, <4>1 DEF Unsaved
    <3> QED BY <1>2, <1>4, <2>1, <3>1, <3>2
  <2>3. ch[j] # t
    BY <1>3, <2>2 DEF end
  <2> QED BY <1>5, <2>1, <2>2, <2>3
<1>16. Consistent(g', chain', mem', curStop')
  <2>1. ASSUME NEW c \in Taken(g')
        PROVE  Shaped(g'[c]) /\ Kept(g'[c], mem')
    <3>1. /\ g'[c] = cl[c] /\ cl[c] \in Stacklets /\ Shaped(cl[c]) /\ Kept(cl[c], m)
          /\ Unsaved(cl[c]) => cl[c].start + cl[c].saved >= end
      BY <1>5, <1>12
    <3>2. /\ cl[c].start \in Nat /\ cl[c].stop \in Nat /\ cl[c].saved \in Nat
          /\ cl[c].stop <= N + 1
      BY <3>1, Numbers
    <3>3. ASSUME NEW a \in cl[c].start..(cl[c].stop - 1)
          PROVE  cl[c].frames[a] = IF a < cl[c].start + cl[c].saved
                                   THEN cl[c].copy[a] ELSE mem'[a]
      <4>1. a \in Addr /\ a \in Nat
        BY <1>3, <3>1, <3>2 DEF Addr, Shaped
      <4>2. cl[c].frames[a] = IF a < cl[c].start + cl[c].saved
                              THEN cl[c].copy[a] ELSE m[a]
        BY <3>1 DEF Kept
      <4>3. ASSUME ~(a < cl[c].start + cl[c].saved) PROVE mem'[a] = m[a]
        <5>1. a >= end
          BY <3>1, <3>2, <4>1, <4>3, <1>3 DEF Unsaved
        <5>2. gs[t].start + gs[t].saved <= end /\ gs[t].start <= end
          BY <1>2, <1>3 DEF Shaped, end
        <5> QED BY <1>2, <1>3, <1>13, <4>1, <5>1, <5>2
      <4> QED BY <4>2, <4>3
    <3> QED BY <3>1, <3>3 DEF Kept
  <2>2. ASSUME NEW c \in Taken(g'), Unsaved(g'[c])
        PROVE  /\ g'[c].start + g'[c].saved >= curStop'
               /\ \E i \in DOMAIN chain' : chain'[i] = c
    <3>1. /\ g'[c] = cl[c] /\ cl[c].start + cl[c].saved >= end
          /\ \E j \in f..Len(ch) : ch[j] = c
      BY <1>5, <1>12, <2>2
    <3>2. PICK j \in f..Len(ch) : ch[j] = c
      BY <3>1
    <3>3. j - f + 1 \in DOMAIN chain' /\ chain'[j - f + 1] = c
      BY <1>14, <3>2
    <3> QED BY <1>1, <3>1, <3>3
  <2>3. ASSUME NEW i \in DOMAIN chain'
        PROVE  chain'[i] \in Taken(g') /\ Unsaved(g'[chain'[i]])
    BY <1>11, <1>12, <1>14, <1>15
  <2>4. ASSUME NEW i \in DOMAIN chain', NEW j \in DOMAIN chain', i < j
        PROVE  g'[chain'[i]].stop <= g'[chain'[j]].start + g'[chain'[j]].saved
    <3> DEFINE c == chain'[i]
               d == chain'[j]
               p == i + f - 1
               q == j + f - 1
    <3>1. /\ p \in f..Len(ch) /\ q \in f..Len(ch) /\ p < q
          /\ c = ch[p] /\ d = ch[q]
      BY <1>2, <1>4, <1>14, <2>4
    <3>2. /\ p \in DOMAIN ch /\ q \in DOMAIN ch
          /\ c \in Taken(gs) \ {t} /\ d \in Taken(gs) \ {t}
      BY <1>15, <3>1
    <3> HIDE DEF p, q
    <3>3. gs[c].stop <= gs[d].start + gs[d].saved
      BY <3>1, <3>2 DEF Consistent, InOrder
    <3> HIDE DEF c, d
    <3>4. /\ g'[c] = cl[c] /\ g'[d] = cl[d]
          /\ cl[c].stop = gs[c].stop /\ cl[d].start = gs[d].start
          /\ cl[d].saved >= gs[d].saved /\ cl[d] \in Stacklets
      BY <1>5, <1>11, <1>12, <3>2
    <3>5. cl[d].saved \in Nat /\ gs[c].stop \in Nat /\ gs[d].start \in Nat /\ gs[d].saved \in Nat
      BY <1>3, <3>2, <3>4, Numbers DEF Taken
    <3>6. g'[c].stop <= g'[d].start + g'[d].saved
      BY <3>3, <3>4, <3>5
    <3> QED BY <3>6 DEF c, d
  <2> QED BY <1>10, <1>13, <1>14, <2>1, <2>2, <2>3, <2>4 DEF Consistent, InOrder
<1>17. /\ TypeOK' /\ (running # Main => sp < curStop)'
       /\ running' \notin Suspended'
  <2>1. sp' \in Addr /\ curStop' \in 0..(N + 1) /\ sp' < curStop'
    BY <1>1, <1>2, <1>3 DEF Shaped, Addr, end
  <2>2. Suspended' = Taken(g')
    BY DEF Suspended, Taken
  <2> QED BY <1>1, <1>2, <1>10, <1>11, <1>13, <1>14, <2>1, <2>2 DEF TypeOK
<1>18. MainIsOldest(g', running', curStop')
  <2>1. \A c \in Taken(g') : g'[c].stop = gs[c].stop
    BY <1>5, <1>12
  <2> QED BY <1>1, <1>11, <2>1 DEF MainIsOldest, end
<1>19. ASSUME NEW a \in sp'..(curStop' - 1)
       PROVE  mem'[a] = gs[t].frames[a]
  <2>1. a \in gs[t].start..(gs[t].stop - 1)
    BY <1>1, <1>19 DEF end
  <2>2. a \in Addr /\ ~(a < gs[t].start)
    BY <1>2, <1>3, <2>1 DEF Shaped, Addr
  <2>3. gs[t].frames[a] = IF a < gs[t].start + gs[t].saved THEN gs[t].copy[a] ELSE m[a]
    BY <1>2, <2>1 DEF Kept
  <2> QED BY <1>13, <2>2, <2>3
<1> QED BY <1>16, <1>17, <1>18, <1>19 DEF IInv

-----------------------------------------------------------------------------
(* Nothing unsaved lies in the stack of the running context.               *)
LEMMA OutOfReach ==
  ASSUME IInv
  PROVE  Consistent(g, chain, mem, Top + 1)
<1>1. /\ Consistent(g, chain, mem, curStop) /\ curStop \in Nat
      /\ \A c \in Taken(g) : g[c] \in Stacklets
  BY DEF IInv, TypeOK, Taken
<1>2. CASE running # Main
  <2>1. Top + 1 = curStop
    BY <1>1, <1>2 DEF Top
  <2> QED BY <1>1, <2>1
<1>3. CASE running = Main
  <2>1. \A c \in Taken(g) : g[c].stop <= curStop
    BY <1>3 DEF IInv, MainIsOldest
  <2>2. ASSUME NEW c \in Taken(g) PROVE ~Unsaved(g[c])
    <3>1. Unsaved(g[c]) => g[c].start + g[c].saved >= curStop
      BY <1>1 DEF Consistent
    <3> QED BY <1>1, <2>1, <3>1, Numbers DEF Unsaved
  <2> QED BY <1>1, <2>2 DEF Consistent
<1> QED BY <1>2, <1>3

LEMMA StackMayChange ==
  ASSUME NEW gs, NEW ch, NEW m, NEW low \in Nat, Consistent(gs, ch, m, low),
         NEW n \in [Addr -> Cells],
         \A a \in Addr : a >= low => n[a] = m[a]
  PROVE  Consistent(gs, ch, n, low)
<1>1. ASSUME NEW c \in Taken(gs) PROVE Kept(gs[c], n)
  <2> DEFINE s == gs[c]
  <2>1. /\ s \in Stacklets /\ Shaped(s) /\ Kept(s, m)
        /\ Unsaved(s) => s.start + s.saved >= low
    BY DEF Consistent, Taken
  <2>2. /\ s.start \in Nat /\ s.stop \in Nat /\ s.saved \in Nat
        /\ s.stop <= N + 1 /\ N \in Nat
    BY <2>1, Numbers
  <2> HIDE DEF s
  <2>3. ASSUME NEW a \in s.start..(s.stop - 1)
        PROVE  s.frames[a] = IF a < s.start + s.saved THEN s.copy[a] ELSE n[a]
    <3>1. a \in Addr /\ a \in Nat
      BY <2>1, <2>2 DEF Addr, Shaped
    <3>2. s.frames[a] = IF a < s.start + s.saved THEN s.copy[a] ELSE m[a]
      BY <2>1 DEF Kept
    <3>3. ASSUME ~(a < s.start + s.saved) PROVE n[a] = m[a]
      <4>1. a >= low
        BY <2>1, <2>2, <3>1, <3>3 DEF Unsaved
      <4> QED BY <3>1, <4>1
    <3> QED BY <3>2, <3>3
  <2>4. Kept(s, n)
    BY <2>3 DEF Kept
  <2> QED BY <2>4 DEF s
<1> QED BY <1>1 DEF Consistent

(* The running context calls, returns, and writes in its own frames.       *)
LEMMA FrameStepKeeps ==
  ASSUME IInv,
         \/ \E v \in Vals : Push(v)
         \/ Pop
         \/ \E a \in Addr, v \in Vals : Write(a, v)
  PROVE  IInv'
<1>1. /\ mem \in [Addr -> Cells] /\ sp \in Addr /\ N \in Nat \ {0}
      /\ curStop \in 0..(N + 1) /\ sp <= Top /\ Top \in Nat /\ Top <= N
  BY DEF IInv, TypeOK, Top, Addr
<1>2. /\ UNCHANGED <<running, curStop, chain, g>>
      /\ sp' \in Addr /\ sp' <= Top
      /\ mem' \in [Addr -> Cells]
      /\ \A a \in Addr : a > Top => mem'[a] = mem[a]
  BY <1>1 DEF Push, Pop, Write, Addr, Cells
<1>3. Consistent(g, chain, mem', Top + 1)
  BY <1>1, <1>2, OutOfReach, StackMayChange DEF Addr
<1>4. Consistent(g', chain', mem', curStop')
  <2>1. curStop <= Top + 1
    BY <1>1 DEF Top
  <2>2. \A c \in Taken(g) : g[c] \in Stacklets
    BY DEF IInv, TypeOK, Taken
  <2>3. \A c \in Taken(g) : g[c].start + g[c].saved >= Top + 1
                            => g[c].start + g[c].saved >= curStop
    BY <1>1, <2>1, <2>2, Numbers
  <2> QED BY <1>2, <1>3, <2>3 DEF Consistent
<1>5. running' # Main => sp' < curStop'
  <2>1. ASSUME running # Main PROVE sp' < curStop
    <3>1. Top = curStop - 1
      BY <2>1 DEF Top
    <3> QED BY <1>1, <1>2, <3>1 DEF Addr
  <2> QED BY <1>2, <2>1
<1>6. TypeOK' /\ running' \notin Suspended' /\ MainIsOldest(g', running', curStop')
  BY <1>2 DEF IInv, TypeOK, Suspended
<1> QED BY <1>4, <1>5, <1>6 DEF IInv

-----------------------------------------------------------------------------
(* Where the stack of the caller of a switch ends.                         *)
LEMMA StopFacts ==
  ASSUME IInv, sp > 1
  PROVE  /\ StopAt(sp - 1) \in Nat /\ sp - 1 < StopAt(sp - 1)
         /\ StopAt(sp - 1) <= Top + 1 /\ StopAt(sp - 1) <= N + 1
         /\ curStop <= StopAt(sp - 1)
         /\ running # Main => StopAt(sp - 1) = curStop
BY DEF StopAt, IInv, TypeOK, Addr, Top

LEMMA SourceIsKept ==
  ASSUME NEW m \in [Addr -> Cells], NEW low \in Nat, NEW high \in Nat,
         1 <= low, low < high, high <= N + 1
  PROVE  LET s == Source(low, high, m) IN
         /\ s \in Stacklets /\ Shaped(s) /\ Kept(s, m) /\ Unsaved(s)
         /\ s.start = low /\ s.stop = high /\ s.saved = 0
<1> DEFINE fr == [a \in Addr |-> IF a \in low..(high - 1) THEN m[a] ELSE Junk]
           s == Source(low, high, m)
<1>1. /\ s.start = low /\ s.stop = high /\ s.saved = 0 /\ s.frames = fr
      /\ s \in [start : {low}, stop : {high}, saved : {0}, copy : {AllJunk},
                frames : {fr}]
  BY DEF Source
<1>2. fr \in [Addr -> Cells] /\ AllJunk \in [Addr -> Cells]
  BY DEF Cells, AllJunk
<1>3. \A a \in low..(high - 1) : fr[a] = m[a]
  BY DEF Addr
<1> HIDE DEF fr, s
<1>4. s \in Stacklets
  BY <1>1, <1>2 DEF Stacklets
<1>5. Shaped(s) /\ Unsaved(s)
  BY <1>1 DEF Shaped, Unsaved
<1>6. Kept(s, m)
  BY <1>1, <1>3 DEF Kept
<1> QED BY <1>1, <1>4, <1>5, <1>6 DEF s

(* What the saving of the caller leaves: its stacklet in the chain.        *)
Suspends(gs, ch, m, low) ==
  /\ Consistent(gs, ch, m, low)
  /\ Taken(gs) = Taken(g) \cup {running}
  /\ Main \in Taken(gs)
  /\ \A c \in Taken(gs) : gs[c].stop <= gs[Main].stop

(* The caller becomes the first of the chain.                              *)
LEMMA SuspendKeeps ==
  ASSUME IInv, NEW s \in Stacklets, NEW m \in [Addr -> Cells], NEW low \in Nat,
         Shaped(s), Kept(s, m), Unsaved(s),
         curStop <= s.stop, s.stop <= Top + 1,
         running # Main => s.stop = curStop,
         \A a \in Addr : a > Top => m[a] = mem[a],
         low <= s.start + s.saved, low <= Top + 1
  PROVE  Suspends([g EXCEPT ![running] = s], <<running>> \o chain, m, low)
<1> DEFINE gs == [g EXCEPT ![running] = s]
           ch == <<running>> \o chain
<1>1. /\ g \in [Contexts -> Stacklets] /\ running \in Contexts
      /\ chain \in Seq(Contexts) /\ Main \in Contexts
      /\ curStop \in Nat /\ Top \in Nat /\ Top + 1 \in Nat
      /\ running \notin Taken(g)
  BY DEF IInv, TypeOK, Addr, Top, Contexts, Suspended, Taken
<1>2. /\ gs \in [Contexts -> Stacklets] /\ gs[running] = s
      /\ \A c \in Contexts : c # running => gs[c] = g[c]
  BY <1>1
<1>3. s.stop # 0 /\ s.start \in Nat /\ s.stop \in Nat /\ s.saved \in Nat
  BY Numbers DEF Shaped
<1>4. Taken(gs) = Taken(g) \cup {running}
  BY <1>1, <1>2, <1>3 DEF Taken
<1>5. /\ ch \in Seq(Contexts) /\ DOMAIN ch = 1..(Len(chain) + 1) /\ ch[1] = running
      /\ \A i \in DOMAIN ch : i # 1 => i - 1 \in DOMAIN chain /\ ch[i] = chain[i - 1]
      /\ \A i \in DOMAIN chain : i + 1 \in DOMAIN ch /\ ch[i + 1] = chain[i]
  <2>1. /\ <<running>> \in Seq(Contexts) /\ Len(<<running>>) = 1
        /\ <<running>>[1] = running
    BY <1>1
  <2>2. /\ ch \in Seq(Contexts) /\ Len(ch) = 1 + Len(chain)
        /\ \A i \in 1..1 + Len(chain) : ch[i] = IF i <= 1 THEN <<running>>[i]
                                                ELSE chain[i - 1]
    BY <1>1, <2>1, ConcatProperties
  <2>3. /\ DOMAIN ch = 1..(Len(chain) + 1) /\ DOMAIN chain = 1..Len(chain)
        /\ Len(chain) \in Nat
    BY <1>1, <2>2, LenProperties
  <2> QED BY <2>1, <2>2, <2>3
<1> HIDE DEF gs, ch
<1>6. Consistent(g, chain, m, Top + 1)
  <2>1. \A a \in Addr : a >= Top + 1 => m[a] = mem[a]
    BY <1>1 DEF Addr
  <2> QED BY <1>1, <2>1, OutOfReach, StackMayChange
<1>7. \A c \in Taken(g) : c \in Contexts /\ c # running /\ gs[c] = g[c]
  BY <1>1, <1>2 DEF Taken
<1>8. \A i \in DOMAIN chain : /\ chain[i] \in Taken(g) /\ Unsaved(g[chain[i]])
                              /\ gs[chain[i]] = g[chain[i]]
                              /\ g[chain[i]].start + g[chain[i]].saved >= Top + 1
  BY <1>6, <1>7 DEF Consistent
<1>9. ASSUME NEW c \in Taken(gs) PROVE Shaped(gs[c]) /\ Kept(gs[c], m)
  BY <1>2, <1>4, <1>6, <1>7 DEF Consistent
<1>10. ASSUME NEW c \in Taken(gs), Unsaved(gs[c])
       PROVE  gs[c].start + gs[c].saved >= low /\ \E i \in DOMAIN ch : ch[i] = c
  <2>1. CASE c = running
    <3>1. 1 \in DOMAIN ch
      BY <1>1, <1>5, LenProperties
    <3> QED BY <1>2, <1>3, <1>5, <2>1, <3>1
  <2>2. CASE c # running
    <3>1. /\ c \in Taken(g) /\ gs[c] = g[c] /\ g[c] \in Stacklets
          /\ g[c].start + g[c].saved >= Top + 1 /\ \E i \in DOMAIN chain : chain[i] = c
      BY <1>1, <1>4, <1>6, <1>7, <1>10, <2>2 DEF Consistent
    <3>2. g[c].start + g[c].saved >= low
      BY <1>1, <3>1, Numbers
    <3> QED BY <1>5, <3>1, <3>2
  <2> QED BY <2>1, <2>2
<1>11. ASSUME NEW i \in DOMAIN ch PROVE ch[i] \in Taken(gs) /\ Unsaved(gs[ch[i]])
  BY <1>2, <1>4, <1>5, <1>8
<1>12. ASSUME NEW i \in DOMAIN ch, NEW j \in DOMAIN ch, i < j
       PROVE  gs[ch[i]].stop <= gs[ch[j]].start + gs[ch[j]].saved
  <2>1. /\ j # 1 /\ j - 1 \in DOMAIN chain /\ ch[j] = chain[j - 1]
        /\ g[ch[j]].start + g[ch[j]].saved >= Top + 1
        /\ gs[ch[j]] = g[ch[j]]
        /\ ch[j] \in Taken(g)
    BY <1>1, <1>5, <1>8, <1>12, LenProperties
  <2>2. CASE i = 1
    <3>1. gs[ch[i]].stop = s.stop
      BY <1>2, <1>5, <2>2
    <3>2. g[ch[j]].start \in Nat /\ g[ch[j]].saved \in Nat
      BY <1>1, <2>1, Numbers DEF Taken
    <3> QED BY <1>1, <1>3, <2>1, <3>1, <3>2
  <2>3. CASE i # 1
    <3>1. i - 1 \in DOMAIN chain /\ ch[i] = chain[i - 1] /\ i - 1 < j - 1
      <4>1. /\ i \in Nat /\ j \in Nat /\ i >= 1 /\ j <= Len(chain) + 1
            /\ DOMAIN chain = 1..Len(chain) /\ Len(chain) \in Nat
        BY <1>1, <1>5, LenProperties
      <4>2. i - 1 \in DOMAIN chain /\ i - 1 < j - 1
        BY <1>12, <2>3, <4>1
      <4> QED BY <1>5, <2>3, <4>2
    <3>2. g[chain[i - 1]].stop <= g[chain[j - 1]].start + g[chain[j - 1]].saved
      BY <1>6, <2>1, <3>1 DEF Consistent, InOrder
    <3> QED BY <1>8, <2>1, <3>1, <3>2
  <2> QED BY <2>2, <2>3
<1>13. Consistent(gs, ch, m, low)
  BY <1>2, <1>5, <1>9, <1>10, <1>11, <1>12 DEF Consistent, InOrder
<1>14. Main \in Taken(gs) /\ \A c \in Taken(gs) : gs[c].stop <= gs[Main].stop
  <2>1. MainIsOldest(g, running, curStop)
    BY DEF IInv
  <2>2. \A c \in Taken(g) : g[c].stop \in Nat
    BY <1>1, Numbers DEF Taken
  <2>3. CASE running = Main
    BY <1>1, <1>2, <1>3, <1>4, <1>7, <2>1, <2>2, <2>3 DEF MainIsOldest
  <2>4. CASE running # Main
    BY <1>1, <1>2, <1>3, <1>4, <1>7, <2>1, <2>2, <2>4 DEF MainIsOldest
  <2> QED BY <2>3, <2>4
<1>15. Suspends(gs, ch, m, low)
  BY <1>4, <1>13, <1>14 DEF Suspends
<1> QED BY <1>15 DEF gs, ch

(* stacklet_new(): of the caller only g_initialstub()'s frame is saved.    *)
LEMMA NewKeeps ==
  ASSUME IInv, NEW t \in Tasks, NEW v \in Vals, NEW w \in Vals, New(t, v, w)
  PROVE  IInv' /\ t \notin Suspended
<1> DEFINE marker == sp - 1
           stub   == sp - 2
           stop   == StopAt(marker)
           m      == [mem EXCEPT ![marker] = v, ![stub] = v]
           src    == Source(stub, stop, m)
           s      == Save(src, marker, m)
<1>1. /\ mem \in [Addr -> Cells] /\ sp \in Addr /\ N \in Nat \ {0}
      /\ running \in Contexts /\ Main \in Contexts /\ t \in Contexts
      /\ curStop \in Nat /\ Top \in Nat /\ Top <= N
      /\ v \in Cells /\ w \in Cells
  BY DEF IInv, TypeOK, Top, Addr, Contexts, Cells
<1>2. /\ t # running /\ t \notin Suspended /\ stub >= 1
      /\ g' = [g EXCEPT ![running] = s] /\ chain' = <<running>> \o chain
      /\ running' = t /\ curStop' = marker /\ sp' = stub
      /\ mem' = [m EXCEPT ![stub] = w]
  BY DEF New
<1>3. /\ stop \in Nat /\ marker < stop /\ stop <= Top + 1 /\ stop <= N + 1
      /\ curStop <= stop /\ (running # Main => stop = curStop)
  BY <1>1, <1>2, StopFacts DEF Addr
<1>4. /\ marker \in Nat /\ stub \in Nat /\ 1 <= stub /\ stub < marker /\ marker = stub + 1
      /\ stub \in Addr /\ marker \in Addr
  BY <1>1, <1>2 DEF Addr
<1> HIDE DEF stop, marker, stub
<1>5. /\ m \in [Addr -> Cells] /\ mem' \in [Addr -> Cells]
      /\ \A a \in Addr : a > marker => m[a] = mem[a]
      /\ \A a \in Addr : a >= marker => mem'[a] = m[a]
  <2>1. m \in [Addr -> Cells] /\ mem' \in [Addr -> Cells]
    BY <1>1, <1>2, <1>4
  <2>2. ASSUME NEW a \in Addr, a > marker PROVE m[a] = mem[a]
    <3>1. a # marker /\ a # stub
      BY <1>1, <1>4, <2>2 DEF Addr
    <3> QED BY <1>1, <1>4, <3>1
  <2>3. ASSUME NEW a \in Addr, a >= marker PROVE mem'[a] = m[a]
    <3>1. a # stub
      BY <1>1, <1>4, <2>3 DEF Addr
    <3> HIDE DEF m
    <3> QED BY <1>2, <2>1, <3>1
  <2> QED BY <2>1, <2>2, <2>3
<1> HIDE DEF m
<1>6. /\ src \in Stacklets /\ Shaped(src) /\ Kept(src, m)
      /\ src.start = stub /\ src.stop = stop /\ src.saved = 0
  BY <1>3, <1>4, <1>5, SourceIsKept
<1> HIDE DEF src
<1>7. /\ s \in Stacklets /\ Shaped(s) /\ Kept(s, m)
      /\ s.start = stub /\ s.stop = stop /\ s.saved = 1
  <2>1. marker <= src.stop
    BY <1>3, <1>4, <1>6
  <2>2. marker \in Nat /\ m \in [Addr -> Cells] /\ s = Save(src, marker, m)
    BY <1>4, <1>5
  <2>3. Saved(src, marker, m, s)
    BY <1>6, <2>1, <2>2, SaveSaves
  <2> QED BY <1>4, <1>6, <2>3 DEF Saved
<1> HIDE DEF s
<1>8. /\ Unsaved(s) /\ marker <= s.start + s.saved /\ marker <= Top + 1
      /\ curStop <= s.stop /\ s.stop <= Top + 1 /\ (running # Main => s.stop = curStop)
      /\ \A a \in Addr : a > Top => m[a] = mem[a]
  BY <1>1, <1>3, <1>4, <1>5, <1>7 DEF Unsaved, Addr
<1>9. /\ Consistent(g', chain', m, marker)
      /\ Taken(g') = Taken(g) \cup {running}
      /\ Main \in Taken(g')
      /\ \A c \in Taken(g') : g'[c].stop <= g'[Main].stop
  <2>1. Suspends([g EXCEPT ![running] = s], <<running>> \o chain, m, marker)
    BY <1>4, <1>5, <1>7, <1>8, SuspendKeeps
  <2> QED BY <1>2, <2>1 DEF Suspends
<1>10. Consistent(g', chain', mem', curStop')
  BY <1>2, <1>4, <1>5, <1>9, StackMayChange
<1>11. TypeOK' /\ running' \notin Suspended' /\ sp' < curStop'
  <2>1. g' \in [Contexts -> Stacklets] /\ chain' \in Seq(Contexts)
    BY <1>9 DEF Consistent
  <2>2. t \notin Taken(g')
    BY <1>2, <1>9 DEF Suspended, Taken
  <2>3. curStop' \in 0..(N + 1)
    BY <1>1, <1>2, <1>3, <1>4
  <2> QED BY <1>1, <1>2, <1>4, <1>5, <2>1, <2>2, <2>3 DEF TypeOK, Suspended, Taken
<1>12. MainIsOldest(g', running', curStop')
  <2>1. t # Main
    OBVIOUS
  <2>2. marker <= g'[Main].stop
    <3>1. g'[running].stop = stop /\ running \in Taken(g')
      BY <1>1, <1>2, <1>7, <1>9 DEF IInv, TypeOK
    <3>2. stop <= g'[Main].stop /\ g'[Main] \in Stacklets
      BY <1>1, <1>9, <3>1 DEF Consistent
    <3> QED BY <1>3, <1>4, <3>2, Numbers
  <2> QED BY <1>2, <1>9, <2>1, <2>2 DEF MainIsOldest
<1> QED BY <1>2, <1>10, <1>11, <1>12 DEF IInv

(* Without memory only the end of main's stack may be found to be later.   *)
LEMMA NoMemoryKeeps ==
  ASSUME IInv, NoMemory
  PROVE  IInv'
<1> DEFINE stop == StopAt(sp - 1)
<1>1. /\ UNCHANGED <<mem, running, sp, chain, g>> /\ curStop' = stop
      /\ stop \in Nat /\ sp - 1 < stop /\ stop <= Top + 1 /\ stop <= N + 1
      /\ curStop <= stop /\ (running # Main => stop = curStop)
  BY StopFacts DEF NoMemory
<1> HIDE DEF stop
<1>2. /\ N \in Nat \ {0} /\ Top \in Nat /\ curStop \in Nat
      /\ \A c \in Taken(g) : g[c] \in Stacklets
  BY DEF IInv, TypeOK, Top, Addr, Taken
<1>3. \A c \in Taken(g) : /\ g[c].start \in Nat /\ g[c].saved \in Nat
                          /\ g[c].stop \in Nat
  BY <1>2, Numbers
<1>4. Consistent(g', chain', mem', curStop')
  <2>1. Consistent(g, chain, mem, Top + 1)
    BY OutOfReach
  <2>2. \A c \in Taken(g) : g[c].start + g[c].saved >= Top + 1
                            => g[c].start + g[c].saved >= stop
    BY <1>1, <1>2, <1>3
  <2> QED BY <1>1, <2>1, <2>2 DEF Consistent
<1>5. MainIsOldest(g', running', curStop')
  <2>1. MainIsOldest(g, running, curStop)
    BY DEF IInv
  <2> QED BY <1>1, <1>2, <1>3, <2>1 DEF MainIsOldest
<1>6. TypeOK' /\ running' \notin Suspended' /\ (running' # Main => sp' < curStop')
  BY <1>1, <1>2 DEF IInv, TypeOK, Suspended
<1> QED BY <1>4, <1>5, <1>6 DEF IInv

(* stacklet_switch(): the caller joins the chain, then the target's area   *)
(* of the stack is cleared and restored.                                   *)
LEMMA SwitchKeeps ==
  ASSUME IInv, NEW t \in Contexts, NEW v \in Vals, Switch(t, v)
  PROVE  IInv' /\ \A a \in sp'..(curStop' - 1) : mem'[a] = g[t].frames[a]
<1> DEFINE low  == sp - 1
           stop == StopAt(low)
           m    == [mem EXCEPT ![low] = v]
           s    == Source(low, stop, m)
           gs   == [g EXCEPT ![running] = s]
           ch   == <<running>> \o chain
<1>1. /\ mem \in [Addr -> Cells] /\ sp \in Addr /\ N \in Nat \ {0}
      /\ running \in Contexts /\ g \in [Contexts -> Stacklets]
      /\ curStop \in Nat /\ Top \in Nat /\ Top <= N /\ sp <= Top
      /\ v \in Cells /\ running \notin Suspended
  BY DEF IInv, TypeOK, Top, Addr, Cells
<1>2. t \in Suspended /\ low >= 1 /\ Resume(t, gs, ch, m)
  BY DEF Switch
<1>3. /\ stop \in Nat /\ low < stop /\ stop <= Top + 1 /\ stop <= N + 1
      /\ curStop <= stop /\ (running # Main => stop = curStop)
  BY <1>1, <1>2, StopFacts DEF Addr
<1>4. /\ low \in Nat /\ low \in Addr
      /\ m \in [Addr -> Cells] /\ \A a \in Addr : a > Top => m[a] = mem[a]
  BY <1>1, <1>2 DEF Addr
<1> HIDE DEF m, low, stop
<1>5. /\ s \in Stacklets /\ Shaped(s) /\ Kept(s, m) /\ Unsaved(s)
      /\ s.start = low /\ s.stop = stop /\ s.saved = 0
  BY <1>2, <1>3, <1>4, SourceIsKept
<1> HIDE DEF s
<1>6. 0 \in Nat /\ 0 <= s.start + s.saved /\ 0 <= Top + 1
  BY <1>1, <1>4, <1>5
<1>7. /\ Consistent(gs, ch, m, 0) /\ Taken(gs) = Taken(g) \cup {running}
      /\ Main \in Taken(gs)
      /\ \A c \in Taken(gs) : gs[c].stop <= gs[Main].stop
  <2>1. Suspends(gs, ch, m, 0)
    BY <1>3, <1>4, <1>5, <1>6, SuspendKeeps
  <2> QED BY <2>1 DEF Suspends
<1>8. t \in Taken(gs) /\ gs[t] = g[t]
  BY <1>1, <1>2, <1>7 DEF Suspended, Taken
<1> HIDE DEF gs, ch
<1> QED BY <1>2, <1>7, <1>8, ResumeKeeps

(* run() has returned: the stacklet of the caller is not needed.           *)
LEMMA FinishKeeps ==
  ASSUME IInv, NEW t \in Contexts, Finish(t)
  PROVE  IInv' /\ \A a \in sp'..(curStop' - 1) : mem'[a] = g[t].frames[a]
<1>1. running # Main /\ t \in Taken(g) /\ Resume(t, g, chain, mem)
  BY DEF Finish, Suspended, Taken
<1>2. \A c \in Taken(g) : g[c].start \in Nat /\ g[c].saved \in Nat
  BY Numbers DEF IInv, TypeOK, Taken
<1>3. Consistent(g, chain, mem, 0)
  BY <1>2 DEF IInv, Consistent
<1>4. Main \in Taken(g) /\ \A c \in Taken(g) : g[c].stop <= g[Main].stop
  BY <1>1 DEF IInv, MainIsOldest
<1> QED BY <1>1, <1>3, <1>4, ResumeKeeps

(* stacklet_destroy() takes one stacklet out of the chain.                 *)
LEMMA DestroyKeeps ==
  ASSUME IInv, NEW t \in Contexts, Destroy(t)
  PROVE  IInv'
<1>1. /\ t \in Taken(g) /\ t # Main /\ g' = [g EXCEPT ![t] = Free]
      /\ UNCHANGED <<mem, running, sp, curStop>>
  BY DEF Destroy, Suspended, Taken
<1>2. /\ g \in [Contexts -> Stacklets] /\ chain \in Seq(Contexts)
      /\ mem \in [Addr -> Cells]
      /\ Consistent(g, chain, mem, curStop)
      /\ DOMAIN chain = 1..Len(chain) /\ Len(chain) \in Nat
  BY LenProperties DEF IInv, TypeOK
<1>3. Free \in Stacklets /\ Free.stop = 0
  BY DEF Free, Stacklets, AllJunk, Cells
<1>4. /\ g' \in [Contexts -> Stacklets] /\ Taken(g') = Taken(g) \ {t}
      /\ \A c \in Contexts \ {t} : g'[c] = g[c]
  BY <1>1, <1>2, <1>3 DEF Taken
(* A stacklet is in the chain at most once: what lies below it is saved.   *)
<1>5. ASSUME NEW i \in DOMAIN chain, NEW j \in DOMAIN chain, chain[i] = chain[j]
      PROVE  i = j
  <2>1. /\ \A p, q \in DOMAIN chain : p < q =>
             g[chain[p]].stop <= g[chain[q]].start + g[chain[q]].saved
        /\ g[chain[i]].start + g[chain[i]].saved < g[chain[i]].stop
        /\ g[chain[i]] \in Stacklets
    BY <1>2 DEF Consistent, InOrder, Unsaved, Taken
  <2>2. /\ g[chain[i]].start \in Nat /\ g[chain[i]].saved \in Nat
        /\ g[chain[i]].stop \in Nat
    BY <2>1, Numbers
  <2>3. ~(i < j) /\ ~(j < i)
    BY <1>5, <2>1, <2>2
  <2> QED BY <1>2, <2>3
<1>6. /\ chain' \in Seq(Contexts)
      /\ \A i \in DOMAIN chain' : \E p \in DOMAIN chain : chain[p] = chain'[i] /\ chain[p] # t
      /\ \A i, j \in DOMAIN chain' : i < j =>
           \E p, q \in DOMAIN chain : p < q /\ chain[p] = chain'[i] /\ chain[q] = chain'[j]
      /\ \A p \in DOMAIN chain : chain[p] # t => \E i \in DOMAIN chain' : chain'[i] = chain[p]
  <2>1. CASE \E k \in DOMAIN chain : chain[k] = t /\ chain' = RemoveAt(chain, k)
    <3>1. PICK k \in DOMAIN chain : chain[k] = t /\ chain' = RemoveAt(chain, k)
      BY <2>1
    <3>2. /\ chain' \in Seq(Contexts) /\ Len(chain') = Len(chain) - 1
          /\ \A i \in 1..(Len(chain) - 1) :
               chain'[i] = IF i < k THEN chain[i] ELSE chain[i + 1]
      <4>1. chain \in Seq(Contexts) /\ k \in 1..Len(chain)
        BY <1>2, <3>1, LenProperties
      <4> QED BY <3>1, <4>1, RemoveAtPositions
    <3>3. DOMAIN chain' = 1..(Len(chain) - 1)
      BY <3>2, LenProperties
    <3>4. \A p \in DOMAIN chain : p # k => chain[p] # t
      BY <1>5, <3>1
    <3> DEFINE at(i) == IF i < k THEN i ELSE i + 1
    <3>5. \A i \in DOMAIN chain' : /\ at(i) \in DOMAIN chain /\ at(i) # k
                                   /\ chain[at(i)] = chain'[i]
      BY <1>2, <3>1, <3>2, <3>3
    <3>6. \A i, j \in DOMAIN chain' : i < j => at(i) < at(j)
      BY <1>2, <3>1, <3>3
    <3>7. \A p \in DOMAIN chain : p # k => \E i \in DOMAIN chain' : at(i) = p
      <4>1. ASSUME NEW p \in DOMAIN chain, p < k
            PROVE  p \in DOMAIN chain' /\ at(p) = p
        BY <1>2, <3>1, <3>3, <4>1
      <4>2. ASSUME NEW p \in DOMAIN chain, p > k
            PROVE  p - 1 \in DOMAIN chain' /\ at(p - 1) = p
        BY <1>2, <3>1, <3>3, <4>2
      <4> QED BY <1>2, <3>1, <4>1, <4>2
    <3> HIDE DEF at
    <3> QED BY <3>2, <3>4, <3>5, <3>6, <3>7, <3>1
  <2>2. CASE (\A i \in DOMAIN chain : chain[i] # t) /\ chain' = chain
    BY <1>2, <2>2
  <2> QED BY <2>1, <2>2 DEF Destroy
<1>7. Consistent(g', chain', mem', curStop')
  <2>1. \A c \in Taken(g') : c \in Taken(g) /\ c # t /\ g'[c] = g[c]
    BY <1>4 DEF Taken
  <2>2. \A c \in Taken(g') : Shaped(g'[c]) /\ Kept(g'[c], mem')
    BY <1>1, <1>2, <2>1 DEF Consistent
  <2>3. \A c \in Taken(g') : Unsaved(g'[c]) =>
          g'[c].start + g'[c].saved >= curStop' /\ \E i \in DOMAIN chain' : chain'[i] = c
    BY <1>1, <1>2, <1>6, <2>1 DEF Consistent
  <2>4. \A i \in DOMAIN chain' : chain'[i] \in Taken(g') /\ Unsaved(g'[chain'[i]])
    BY <1>2, <1>4, <1>6, <2>1 DEF Consistent
  <2>5. InOrder(g', chain')
    <3>1. ASSUME NEW i \in DOMAIN chain', NEW j \in DOMAIN chain', i < j
          PROVE  g'[chain'[i]].stop <= g'[chain'[j]].start + g'[chain'[j]].saved
      <4>1. PICK p, q \in DOMAIN chain : p < q /\ chain[p] = chain'[i] /\ chain[q] = chain'[j]
        BY <1>6, <3>1
      <4>2. g[chain[p]].stop <= g[chain[q]].start + g[chain[q]].saved
        BY <1>2, <4>1 DEF Consistent, InOrder
      <4>3. g'[chain'[i]] = g[chain[p]] /\ g'[chain'[j]] = g[chain[q]]
        BY <2>1, <2>4, <4>1
      <4> QED BY <4>2, <4>3
    <3> QED BY <3>1 DEF InOrder
  <2> QED BY <1>1, <1>2, <1>4, <1>6, <2>2, <2>3, <2>4, <2>5 DEF Consistent
<1>8. MainIsOldest(g', running', curStop')
  <2>1. MainIsOldest(g, running, curStop) /\ Main \in Contexts
    BY DEF IInv, Contexts
  <2>2. \A c \in Taken(g') : c \in Taken(g) /\ g'[c] = g[c]
    BY <1>4 DEF Taken
  <2>3. g'[Main] = g[Main] /\ (Main \in Taken(g) => Main \in Taken(g'))
    BY <1>1, <1>4, <2>1
  <2> QED BY <1>1, <2>1, <2>2, <2>3 DEF MainIsOldest
<1>9. TypeOK' /\ running' \notin Suspended' /\ (running' # Main => sp' < curStop')
  <2>1. Suspended' = Taken(g') /\ Suspended = Taken(g)
    BY DEF Suspended, Taken
  <2> QED BY <1>1, <1>4, <1>6, <2>1 DEF IInv, TypeOK
<1> QED BY <1>7, <1>8, <1>9 DEF IInv

-----------------------------------------------------------------------------
LEMMA InitHolds == Init => IInv
<1> SUFFICES ASSUME Init PROVE IInv
  OBVIOUS
<1>1. /\ Free \in Stacklets /\ Free.stop = 0 /\ AllJunk \in [Addr -> Cells]
  BY DEF Free, Stacklets, AllJunk, Cells
<1>2. mem \in [Addr -> Cells]
  BY <1>1 DEF Init, Cells
<1>3. /\ running = Main /\ sp = N /\ curStop = 0 /\ chain = <<>>
      /\ g = [c \in Contexts |-> Free]
  BY DEF Init
<1>4. TypeOK
  BY <1>1, <1>2, <1>3 DEF TypeOK, Addr, Contexts
<1>5. Taken(g) = {}
  BY <1>1, <1>3 DEF Taken
<1> QED BY <1>2, <1>3, <1>4, <1>5 DEF IInv, Consistent, InOrder, MainIsOldest,
                                     Suspended, Taken, TypeOK

LEMMA StepKeeps == IInv /\ [Next]_vars => IInv'
<1> SUFFICES ASSUME IInv, [Next]_vars PROVE IInv'
  OBVIOUS
<1>1. CASE \/ \E v \in Vals : Push(v)
           \/ Pop
           \/ \E a \in Addr, v \in Vals : Write(a, v)
  BY <1>1, FrameStepKeeps
<1>2. CASE \E t \in Tasks, v, w \in Vals : New(t, v, w)
  BY <1>2, NewKeeps
<1>3. CASE NoMemory
  BY <1>3, NoMemoryKeeps
<1>4. CASE \E t \in Contexts, v \in Vals : Switch(t, v)
  BY <1>4, SwitchKeeps
<1>5. CASE \E t \in Contexts : Finish(t) \/ Destroy(t)
  BY <1>5, FinishKeeps, DestroyKeeps
<1>6. CASE UNCHANGED vars
  BY <1>6 DEF vars, IInv, TypeOK, Consistent, Taken, InOrder, MainIsOldest, Suspended,
              Kept, Unsaved, Shaped
<1> QED BY <1>1, <1>2, <1>3, <1>4, <1>5, <1>6 DEF Next

(* What is not saved of the suspended contexts stays out of reach.         *)
THEOREM StackletsAreConsistent == Spec => []IInv
<1> QED BY InitHolds, StepKeeps, PTL DEF Spec

(* No frame of a suspended context is lost, whatever the others do with    *)
(* the C stack and in whatever order g_clear_stack() saves them.           *)
THEOREM NoFrameIsLost == Spec => []StacksIntact
<1>1. IInv => StacksIntact
  BY DEF IInv, StacksIntact, FramesAreKept, UnsavedOutOfReach, ChainInOrder,
         Consistent, Suspended, Taken, Kept, Unsaved, InOrder
<1> QED BY <1>1, StackletsAreConsistent, PTL

(* g_restore_state() gives a context the stack it was suspended with.      *)
THEOREM ContextsGetTheirStack == Spec => ResumedWithItsStack
<1> DEFINE Restores == \A c \in Suspended : running' = c =>
                         \A a \in sp'..(curStop' - 1) : mem'[a] = g[c].frames[a]
<1>1. ASSUME IInv, Next PROVE Restores
  <2>1. running \notin Suspended
    BY <1>1 DEF IInv
  <2>2. CASE \/ \E v \in Vals : Push(v)
             \/ Pop
             \/ \E a \in Addr, v \in Vals : Write(a, v)
             \/ NoMemory
             \/ \E t \in Contexts : Destroy(t)
    BY <2>1, <2>2 DEF Push, Pop, Write, NoMemory, Destroy
  <2>3. CASE \E t \in Tasks, v, w \in Vals : New(t, v, w)
    BY <2>3 DEF New
  <2>4. CASE \E t \in Contexts, v \in Vals : Switch(t, v)
    <3>1. PICK t \in Contexts, v \in Vals : Switch(t, v)
      BY <2>4
    <3>2. running' = t
      BY <3>1 DEF Switch, Resume
    <3> QED BY <1>1, <3>1, <3>2, SwitchKeeps
  <2>5. CASE \E t \in Contexts : Finish(t)
    <3>1. PICK t \in Contexts : Finish(t)
      BY <2>5
    <3>2. running' = t
      BY <3>1 DEF Finish, Resume
    <3> QED BY <1>1, <3>1, <3>2, FinishKeeps
  <2> QED BY <1>1, <2>2, <2>3, <2>4, <2>5 DEF Next
<1>2. IInv /\ [Next]_vars => [Restores]_vars
  BY <1>1
<1> QED BY <1>2, StackletsAreConsistent, PTL DEF Spec, ResumedWithItsStack
=============================================================================
