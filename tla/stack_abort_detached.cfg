\* The STT server, and a worker; the other parts do nothing here.
SPECIFICATION MCSpec
CONSTANTS
  vlm = vlm
  hub = hub
  llm = llm
  stt = stt
  worker = worker
  Processes = {stt, worker}
  Items <- SpeechItems
  Mode <- SpeechModes
  Backend <- SpeechBackends
  ExitAfterReady = TRUE
  Stubborn = {}
  Faults = {}
  MaxLaunches = 1
  Addresses = {lan}
  MaxRuns = 0
  MaxMoves = 0
  MaxLines = 0
  PipeRoom = 1
  Servers = {stt}
  Tooled = {}
  MaxLapses = 0
  Starts = {first}
  Requests = {}
  PollLimit = 1
  Nobody = Nobody
INVARIANTS
  NothingHalfStarted
CHECK_DEADLOCK FALSE
