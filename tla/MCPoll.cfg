\* poll(min, max) from one thread instead of blockedPoll, on the fast path
\* and on the syscall, with io_submit failing as well as succeeding; max 3
\* is above queueSize.
CONSTANTS
  s1 = s1  s2 = s2  bp = bp  p1 = p1  p2 = p2  del = del
  Submitters <- MCSubmitters
  BlockedPollers = {}
  Pollers <- MCPollers
  Deleter = del
  QueueSize = 2
  RingSize = 3
  MaxSubmits = 2
  PollMins = {0}
  PollMaxes = {1, 3}
  SubmitMayFail = TRUE
  NStd = 3
  MaxFiles = 1
  HookRuns = FALSE
  SysCallMayFail = FALSE
  PollerStartsLocked = TRUE
  NoThread = NoThread
  RingUsable = {TRUE, FALSE}
SPECIFICATION Spec
INVARIANT TypeOK
INVARIANT NoIocbAliasing
INVARIANT CallbackOnce
INVARIANT HarvestInKernelOrder
PROPERTY PoolRefinement
PROPERTY CompletionDelivered
