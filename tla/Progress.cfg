\* What must come about: see MCProgress for the parts and their bounds.
SPECIFICATION ProgressSpec
CONSTANTS
  Parts = {"pic served", "pit runs", "toy polled", "serial",
           "keyboard", "floppy", "vga drawn", "threads", "locks"}
  Callers = {"cpu"}
  WorkFirst = {"pio", "scripts"}
INVARIANTS
  InputRight
  ThreadsRun
PROPERTIES
  InterruptsCome
  DevicesAnswer
  ThreadsWork
  SomeLockSucceeds
CHECK_DEADLOCK FALSE
