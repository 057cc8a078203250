\* One CPU with two lines, driven by one device thread or by the CPU itself.
SPECIFICATION FairSpec
CONSTANTS
  NumCPUs = 1
  Device = {nicThread}
  Line = {nic, disk}
  OneDriver = TRUE
  Delay = 2
  TickPeriod = 3
INVARIANTS
  DrirHoldsRequests
  PinReportedByCpu
  ExactBetweenCalls
PROPERTIES
  LevelSettles
  CountdownSeen
