\* poll harvesting while the JVM runs shutdownHook and the application
\* opens a second journal file, which gets the fd the hook closed; io_getevents
\* may fail.  On the syscall path, so that the failing syscall is reached.
CONSTANTS
  s1 = s1  s2 = s2  bp = bp  p1 = p1  p2 = p2  del = del
  Submitters <- MCSubmitters
  BlockedPollers = {}
  Pollers <- MCPollers
  Deleter = del
  QueueSize = 2
  RingSize = 3
  MaxSubmits = 2
  PollMins = {0}
  PollMaxes = {1, 2}
  SubmitMayFail = FALSE
  NStd = 3
  MaxFiles = 2
  HookRuns = TRUE
  SysCallMayFail = TRUE
  PollerStartsLocked = TRUE
  NoThread = NoThread
  RingUsable = {FALSE}
SPECIFICATION Spec
INVARIANT TypeOK
INVARIANT CallbackOnce
PROPERTY PoolRefinement
