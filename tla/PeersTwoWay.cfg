\* Both sides call, and the only worker of the dialing peer calls from its handler; one answer may arrive spoilt.
SPECIFICATION FairSpec
CONSTANTS
  dial = dial
  listener = listener
  Peers = {dial, listener}
  Callers = {d1, l1, dw}
  DialCallers = {d1, dw}
  Home <- HomeOf
  Workers = {dw, lw}
  DialWorkers = {dw}
  Server <- ServerOf
  Methods = {"m"}
  Unknown = {}
  Registered <- RegisteredAt
  Malformed = {}
  WellFormed <- WellFormedCalls
  SpoilsReply = {dial, listener}
  IdModulus = 4
  DialCalls = 2
  ListenerCalls = 2
  MaxCalls <- CallsOf
  Capacity = 1
  MaxDrops = 0
  MaxGarbled = 1
  MaxCrashes = 0
  NoCaller = NoCaller
  NoMessage = NoMessage
  Unset = Unset
  Broken = Broken
INVARIANT
  StuckOnlyTogether
PROPERTY
  CallReturnsUnlessWedged
CHECK_DEADLOCK FALSE
