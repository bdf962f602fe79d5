\* Two callers of one process that overlap, and three frames; two questions of a
\* participant with two cameras that may leave and return, and frames that come late.
SPECIFICATION MCSpec
CONSTANTS
  agent = agent
  video = video
  ask1 = ask1
  ask2 = ask2
  ask3 = ask3
  Processors = {agent}
  Calls = {ask1, ask2}
  ProcOf <- AgentAndVideo
  MaxFrame = 3
  MaxQueue = 3
  MaxRequests = 1
  FaultSets = {{}, {"loss", "cancellation", "absence"}}
  Participants = {p1}
  Tracks = {t1, t2}
  Kinds = {"ask", "perceive"}
  FrameMaxAge = 1
  FrameTimeout = 2
  WaitSlice = 1
  Lags = {0, 1}
  Sizes = {2, 3}
  MaxAsks = 2
  MaxSessions = 2
INVARIANTS
  WaitersRegistered
  SnapshotNotOlder
  UnavailableIsTrue
  LeaveCancelsOwn
PROPERTIES
  ImplementsSnapshots
  KeyIsFreed
  EveryAskEnds
CHECK_DEADLOCK FALSE
