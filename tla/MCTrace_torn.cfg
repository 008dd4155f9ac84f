SPECIFICATION LogSpec
CONSTANTS
  LogTasks <- TaskNames
  Lengths = {2, 3}
  kTraceBufferSize = 8
  HeapBuffers = 1
  MaxMessages = 3
CHECK_DEADLOCK FALSE
INVARIANTS TraceWholeAlways
