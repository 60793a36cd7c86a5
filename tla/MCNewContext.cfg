\* Three contexts created, deleted and created again concurrently, with a
\* kernel aio budget for two queues, and every malloc and
\* pthread_mutex_init able to fail.
CONSTANTS
  c1 = c1  c2 = c2  c3 = c3
  Contexts <- MCContexts
  QueueSize = 3
  AioMaxNr = 7
  MallocMayFail = TRUE
  MutexInitMayFail = TRUE
  JniMayFail = FALSE
SYMMETRY MCSymmetry
SPECIFICATION Spec
INVARIANT TypeOK
INVARIANT CreateAllOrNothing
INVARIANT NoDoubleFree
