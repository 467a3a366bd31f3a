\* Only the listener calls on its own; a handler of the dialing peer calls it back.
SPECIFICATION FairSpec
CONSTANTS
  dial = dial
  listener = listener
  Peers = {dial, listener}
  Callers = {l1, dw1}
  DialCallers = {dw1}
  Home <- HomeOf
  Workers = {dw1, dw2, lw}
  DialWorkers = {dw1, dw2}
  Server <- ServerOf
  Methods = {"m", "x"}
  Unknown = {"x"}
  Registered <- RegisteredAt
  Malformed = {}
  WellFormed <- WellFormedCalls
  SpoilsReply = {listener}
  IdModulus = 3
  DialCalls = 2
  ListenerCalls = 2
  MaxCalls <- CallsOf
  Capacity = 1
  MaxDrops = 1
  MaxGarbled = 1
  MaxCrashes = 0
  NoCaller = NoCaller
  NoMessage = NoMessage
  Unset = Unset
  Broken = Broken
PROPERTIES
  CallReturns
  NestedNeedsSecondWorker
CHECK_DEADLOCK FALSE
