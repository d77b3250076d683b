CONSTANTS
  Workers = {w1, w2}
  Reqs = {r1, r2, r3}
  Loop = loop
  Exit = exit
  None = none
SPECIFICATION FairSpec
INVARIANTS OneOwner
PROPERTIES ImplementsWorkQueue EveryRequestIsAnswered ExitEnds
