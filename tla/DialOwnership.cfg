\* Memory is reused: more messages are handed out than there are.
SPECIFICATION Spec
CONSTANTS
  Messages = {m1, m2, m3, m4}
  Workers = {w1, w2}
  Threads = {t1}
  DoubleFree = FALSE
  None = None
INVARIANTS
  TypeOK
  FreesOnlyOwn
  OnlyFaultsLeak
  NoSharing
SYMMETRY Symmetry
CHECK_DEADLOCK FALSE
