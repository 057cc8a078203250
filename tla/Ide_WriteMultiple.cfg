\* WRITE MULTIPLE of more sectors than a block.
SPECIFICATION StorageSpec
CONSTANTS
  Parts = {"ide"}
  IdeDriver = "any"
  IdeCounts = {0, 1, 3}
  IdeMultiple = 2
  IdeSecMax = 2
  IdeCountMax = 4
  IdeSectors = 4
  MaxJobs = 2
  MaxTimers = 1
  IdeCommands = {"writeMultiple"}
INVARIANT DataIntact
CHECK_DEADLOCK FALSE
