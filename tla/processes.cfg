\* Two starts of a stack with two model servers that persist, a hub and
\* a worker that ignore SIGTERM; three starts of the hub on a host that moves between two
\* networks; a child with two lines for each of its pipes, which hold one; a worker
\* of either sample whose servers go down twice; two starts of one of the services
\* on models, with two requests.
SPECIFICATION MCSpec
CONSTANTS
  vlm = vlm
  hub = hub
  llm = llm
  stt = stt
  worker = worker
  Processes = {vlm, hub, llm, stt, worker}
  Items <- StackItems
  Mode <- StackModes
  Backend <- StackBackends
  ExitAfterReady = FALSE
  Stubborn = {hub, worker}
  Faults = {"term", "untracked", "mash", "escape", "late"}
  MaxLaunches = 2
  Addresses = {lan, wifi}
  MaxRuns = 3
  MaxMoves = 2
  MaxLines = 2
  PipeRoom = 1
  Servers = {stt, render, oxr}
  Tooled = {render, oxr}
  MaxLapses = 2
  Starts = {first, second}
  Requests = {r1, r2}
  PollLimit = 2
  Nobody = Nobody
INVARIANTS
  OwnProcessesStopped
  LeakNeedsTimeout
  ToolsLostToLapse
PROPERTIES
  FailFast
  StuckNeedsHugeLine
  GoneIsNoticed
CHECK_DEADLOCK FALSE
