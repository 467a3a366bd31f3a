\* A call of each side has arguments that do not verify, one answer is spoilt
\* and the connection is lost once.
SPECIFICATION Spec
CONSTANTS
  dial = dial
  listener = listener
  Peers = {dial, listener}
  Callers = {d1, l1}
  DialCallers = {d1}
  Home <- HomeOf
  Workers = {dw, lw}
  DialWorkers = {dw}
  Server <- ServerOf
  Methods = {"m"}
  Unknown = {}
  Registered <- RegisteredAt
  Malformed = {2}
  WellFormed <- WellFormedCalls
  SpoilsReply = {dial, listener}
  IdModulus = 3
  DialCalls = 2
  ListenerCalls = 2
  MaxCalls <- CallsOf
  Capacity = 1
  MaxDrops = 1
  MaxGarbled = 1
  MaxCrashes = 0
  NoCaller = NoCaller
  NoMessage = NoMessage
  Unset = Unset
  Broken = Broken
INVARIANT
  TypeOK
PROPERTY
  ImplementsNetwork
CHECK_DEADLOCK FALSE
