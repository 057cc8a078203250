\* What must never go wrong: see MCResults for the parts and their bounds.
SPECIFICATION ResultsSpec
CONSTANTS
  disk = disk
  block1 = block1
  block2 = block2
  NumCPUs = 2
  Device = {disk}
  Block = {block1, block2}
INVARIANTS
  NotOvertaken
  AddressesRight
  Restored
  OnlyGuestMisleads
  ClocksRight
  RegistersRight
PROPERTY PictureRight
CHECK_DEADLOCK FALSE
