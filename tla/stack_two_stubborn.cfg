\* The hub and the worker ignore SIGTERM; the other parts do nothing here.
SPECIFICATION MCSpec
CONSTANTS
  vlm = vlm
  hub = hub
  llm = llm
  stt = stt
  worker = worker
  Processes = {vlm, hub, llm, stt, worker}
  Items <- StackItems
  Mode <- StackModes
  Backend <- StackBackends
  ExitAfterReady = FALSE
  Stubborn = {hub, worker}
  Faults = {}
  MaxLaunches = 1
  Addresses = {lan}
  MaxRuns = 0
  MaxMoves = 0
  MaxLines = 0
  PipeRoom = 1
  Servers = {stt}
  Tooled = {}
  MaxLapses = 0
  Starts = {first}
  Requests = {}
  PollLimit = 1
  Nobody = Nobody
INVARIANTS
  StubbornAreKilled
CHECK_DEADLOCK FALSE
