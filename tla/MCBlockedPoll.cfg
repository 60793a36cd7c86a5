\* blockedPoll on the user-space fast path: two submitters, the blockedPoll
\* thread and deleteContext; queueSize 2, a ring of 3 slots, three submit
\* calls, so that with the dumb write four events pass through the ring
\* and a batch can cross its end.
CONSTANTS
  s1 = s1  s2 = s2  bp = bp  p1 = p1  p2 = p2  del = del
  Submitters <- MCSubmitters
  BlockedPollers <- MCBlockedPoller
  Pollers = {}
  Deleter = del
  QueueSize = 2
  RingSize = 3
  MaxSubmits = 3
  PollMins = {0}
  PollMaxes = {1, 2}
  SubmitMayFail = FALSE
  NStd = 3
  MaxFiles = 1
  HookRuns = FALSE
  SysCallMayFail = FALSE
  PollerStartsLocked = TRUE
  NoThread = NoThread
  RingUsable = {TRUE}
SPECIFICATION Spec
INVARIANT TypeOK
INVARIANT NoIocbAliasing
INVARIANT CallbackOnce
INVARIANT NoInvalidJNICall
INVARIANT HarvestInKernelOrder
PROPERTY PoolRefinement
PROPERTY DeleteCompletes
PROPERTY CompletionDelivered
