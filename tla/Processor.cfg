\* One CPU with lines and masks; two CPUs that interrupt each other and arbitrate;
\* and the other parts: see MCProcessor for the parts and their bounds.
SPECIFICATION FairProcessorSpec
CONSTANTS
  c0 = c0
  c1 = c1
  nic = nic
  nxm = nxm
  TbEntries = 2
  TbSpaces = {0, 1}
  TbPages = {0, 1, 2, 3}
  TbGlobal = {2, 3}
  TbVersions = {0}
  TbChanging = 1
  FetchLines = 2
  FetchPageSize = 2
  FetchSpaces = {0, 1}
  FetchPal = {4}
  FetchCode = {4}
  CPU <- OneCpu
  Primary = c0
  DeviceLine = {nic}
  ErrorLine = {nxm}
  Delay = 2
  TickPeriod = 3
  MiscWrites <- ClearClock
  DimWrites <- AllMasks
  IerWrites <- AllEnabled
INVARIANTS
  TypeOK
  CountdownSound
  NoLostCheck
  PinsShown
  OneWins
  NothingStale
  NumbersRight
  PalRight
PROPERTIES
  LevelAfterCall
  LevelSettles
  InterruptTaken
CHECK_DEADLOCK FALSE
