\* Every disk controller: see MCStorage for its bounds.
SPECIFICATION StorageSpec
CONSTANTS
  Parts = {"ide", "53C895", "53C810"}
  IdeDriver = "aligned"
  IdeCounts = {0, 2}
  IdeMultiple = 2
  IdeSecMax = 2
  IdeCountMax = 3
  IdeSectors = 4
  MaxJobs = 2
  MaxTimers = 1
  IdeCommands = {"read", "write", "readMultiple", "writeMultiple", "readDma", "writeDma",
                 "packet", "packetDma", "identify", "recalibrate", "seek", "flush",
                 "parameters", "nop", "deviceReset"}
INVARIANTS
  DataIntact
  HandedOver
PROPERTY CommandsEnd
CHECK_DEADLOCK FALSE
