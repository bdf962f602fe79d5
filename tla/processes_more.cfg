\* More about the instance of processes.cfg.
SPECIFICATION MCSpec
CONSTANTS
  vlm = vlm
  hub = hub
  llm = llm
  stt = stt
  worker = worker
  Processes = {vlm, hub, llm, stt, worker}
  Items <- StackItems
  Mode <- StackModes
  Backend <- StackBackends
  ExitAfterReady = FALSE
  Stubborn = {hub, worker}
  Faults = {"term", "untracked", "mash", "escape", "late"}
  MaxLaunches = 2
  Addresses = {lan, wifi}
  MaxRuns = 3
  MaxMoves = 2
  MaxLines = 2
  PipeRoom = 1
  Servers = {stt, render, oxr}
  Tooled = {render, oxr}
  MaxLapses = 2
  Starts = {first, second}
  Requests = {r1, r2}
  PollLimit = 2
  Nobody = Nobody
INVARIANTS
  TypeOK
  ContainersTornDown
  PersistOutlives
  HubTypeOK
  MismatchNeedsMove
  ChildTypeOK
  FileIsComplete
  WorkerTypeOK
  EachIsClosed
  ServicesTypeOK
  OneInModel
  RuntimeStopped
PROPERTIES
  ReadyMeansServed
  EndsWhenAsked
  StartsAndStops
  ClosingEnds
CHECK_DEADLOCK FALSE
