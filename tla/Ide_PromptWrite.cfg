\* A WRITE given as soon as the last command's interrupt has come.
SPECIFICATION StorageSpec
CONSTANTS
  Parts = {"ide"}
  IdeDriver = "aligned"
  IdeCounts = {0, 2}
  IdeMultiple = 2
  IdeSecMax = 2
  IdeCountMax = 3
  IdeSectors = 4
  MaxJobs = 2
  MaxTimers = 1
  IdeCommands = {"write"}
PROPERTY BufferFull
CHECK_DEADLOCK FALSE
