\* Two device threads inside interrupt() at once.
SPECIFICATION Spec
CONSTANTS
  NumCPUs = 1
  Device = {nicThread, diskThread}
  Line = {nic, disk}
  OneDriver = FALSE
  Delay = 2
  TickPeriod = 2
INVARIANT DrirHoldsRequests
