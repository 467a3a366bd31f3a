\* Two threads share ids that are used twice, and one process is killed and restarted.
SPECIFICATION Spec
CONSTANTS
  dial = dial
  listener = listener
  Peers = {dial, listener}
  Callers = {d1, d2}
  DialCallers = {d1, d2}
  Home <- HomeOf
  Workers = {dw, lw}
  DialWorkers = {dw}
  Server <- ServerOf
  Methods = {"m"}
  Unknown = {}
  Registered <- RegisteredAt
  Malformed = {}
  WellFormed <- WellFormedCalls
  SpoilsReply = {listener}
  IdModulus = 2
  DialCalls = 3
  ListenerCalls = 0
  MaxCalls <- CallsOf
  Capacity = 1
  MaxDrops = 0
  MaxGarbled = 0
  MaxCrashes = 1
  NoCaller = NoCaller
  NoMessage = NoMessage
  Unset = Unset
  Broken = Broken
INVARIANTS
  TableExact
  WrongAnswersCollide
CHECK_DEADLOCK FALSE
