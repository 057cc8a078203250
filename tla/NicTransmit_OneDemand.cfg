\* A driver that writes one poll demand for a frame.
SPECIFICATION FairSpec
CONSTANTS
  RingSize = 3
  Threshold = 1
  Layouts = {"one"}
  Modes = {"normal"}
  MaxFrames = 2
  Repeats = FALSE
  Resets = FALSE
PROPERTIES
  QueuedIsSent
