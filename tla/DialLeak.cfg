\* What the dialing peer leaks.
SPECIFICATION Spec
CONSTANTS
  Messages = {m1, m2, m3, m4}
  Workers = {w1, w2}
  Threads = {t1}
  DoubleFree = FALSE
  None = None
INVARIANT
  NoLeak
SYMMETRY Symmetry
CHECK_DEADLOCK FALSE
