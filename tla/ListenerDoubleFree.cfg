\* What the listener frees.
SPECIFICATION Spec
CONSTANTS
  Messages = {m1, m2, m3, m4}
  Workers = {w1, w2}
  Threads = {t1}
  DoubleFree = TRUE
  None = None
INVARIANT
  FreesOnlyOwn
SYMMETRY Symmetry
CHECK_DEADLOCK FALSE
