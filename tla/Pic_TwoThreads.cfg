\* The CPU's thread ends interrupts while a device's thread requests them.
SPECIFICATION ProgressSpec
CONSTANTS
  Parts = {"pic served"}
  Callers = {"cpu", "device"}
  WorkFirst = {"pio", "dma", "scripts"}
INVARIANT LineCovers
CHECK_DEADLOCK FALSE
