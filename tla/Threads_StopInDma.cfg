\* The CPU is stopped while a DMA transfer waits for it.
SPECIFICATION ProgressSpec
CONSTANTS
  Parts = {"threads"}
  Callers = {"cpu"}
  WorkFirst = {"pio", "dma", "scripts"}
PROPERTY StopsEnd
CHECK_DEADLOCK FALSE
