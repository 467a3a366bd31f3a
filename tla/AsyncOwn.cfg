\* Two threads; MaxCalls = IdModulus, so every id value is used once, 0 included.
SPECIFICATION Spec
CONSTANTS
  dial = dial
  Peers = {dial}
  Callers = {d1, d2}
  Home <- OnDial
  Methods = {"m"}
  IdModulus = 3
  DialCalls = 3
  MaxCalls <- CallsOnDial
  NoCaller = NoCaller
  Unset = Unset
  Broken = Broken
  NoCall = NoCall
INVARIANTS
  TypeOK
  TableExact
  AnswersOwnCall
  NeverThrows
PROPERTY
  KeepsPromise
CHECK_DEADLOCK FALSE
