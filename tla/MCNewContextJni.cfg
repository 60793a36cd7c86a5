\* As MCNewContext, with NewGlobalRef and NewDirectByteBuffer able to fail
\* as the JVM runs out of memory.
CONSTANTS
  c1 = c1  c2 = c2  c3 = c3
  Contexts <- MCContexts
  QueueSize = 3
  AioMaxNr = 7
  MallocMayFail = TRUE
  MutexInitMayFail = TRUE
  JniMayFail = TRUE
SYMMETRY MCSymmetry
SPECIFICATION Spec
INVARIANT CreateAllOrNothing
