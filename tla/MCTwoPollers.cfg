\* Two threads calling poll at once (poll takes no pollLock).
CONSTANTS
  s1 = s1  s2 = s2  bp = bp  p1 = p1  p2 = p2  del = del
  Submitters <- MCSubmitters
  BlockedPollers = {}
  Pollers <- MCTwoPollers
  Deleter = del
  QueueSize = 2
  RingSize = 3
  MaxSubmits = 2
  PollMins = {0}
  PollMaxes = {1, 2}
  SubmitMayFail = TRUE
  NStd = 3
  MaxFiles = 1
  HookRuns = FALSE
  SysCallMayFail = FALSE
  PollerStartsLocked = TRUE
  NoThread = NoThread
  RingUsable = {TRUE}
SPECIFICATION Spec
INVARIANT NoIocbAliasing
