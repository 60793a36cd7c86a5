\* blockedPoll and deleteContext with completions still outstanding when the
\* dumb write is submitted: are all harvested events delivered?
CONSTANTS
  s1 = s1  s2 = s2  bp = bp  p1 = p1  p2 = p2  del = del
  Submitters <- MCSubmitters
  BlockedPollers <- MCBlockedPoller
  Pollers = {}
  Deleter = del
  QueueSize = 2
  RingSize = 3
  MaxSubmits = 2
  PollMins = {0}
  PollMaxes = {1, 2}
  SubmitMayFail = FALSE
  NStd = 3
  MaxFiles = 1
  HookRuns = FALSE
  SysCallMayFail = FALSE
  PollerStartsLocked = TRUE
  NoThread = NoThread
  RingUsable = {TRUE}
SPECIFICATION Spec
INVARIANT HarvestedEventDelivered
