\* blockedPoll on the io_getevents syscall (no usable ring), started before
\* its pthread_mutex_lock, with io_submit failing as well as succeeding (for
\* the submitters and for the dumb write) and io_getevents able to fail.
CONSTANTS
  s1 = s1  s2 = s2  bp = bp  p1 = p1  p2 = p2  del = del
  Submitters <- MCSubmitters
  BlockedPollers <- MCBlockedPoller
  Pollers = {}
  Deleter = del
  QueueSize = 2
  RingSize = 3
  MaxSubmits = 2
  PollMins = {0}
  PollMaxes = {1, 2}
  SubmitMayFail = TRUE
  NStd = 3
  MaxFiles = 1
  HookRuns = FALSE
  SysCallMayFail = TRUE
  PollerStartsLocked = FALSE
  NoThread = NoThread
  RingUsable = {FALSE}
SPECIFICATION Spec
INVARIANT TypeOK
INVARIANT NoIocbAliasing
INVARIANT CallbackOnce
INVARIANT NoInvalidJNICall
PROPERTY PoolRefinement
PROPERTY DeleteCompletes
