\* More about the instance of hub_media.cfg.
SPECIFICATION MCSpec
CONSTANTS
  alice = alice
  bob = bob
  Participants = {alice, bob}
  MaxSent = 4
  MaxTracks = 3
  MaxEvents = 2
  FaultSets = {{}, {"race", "failure"}}
  Pids = {"alice", "bob"}
  Plain = {"alice"}
  Sizes <- OneChanges
  ChunkFrames = 2
  MaxBytes = 2
  MinInterval = 1
  MaxTime = 2
  MaxEncoders = 2
  Instants = {2}
  Queries <- OneWindow
  RecorderFaults = {"disk", "encoder", "end", "stop"}
SYMMETRY Symmetry
INVARIANTS
  TypeOK
  RecorderTypeOK
  WithinLimit
  SteadyIsNear
CHECK_DEADLOCK FALSE
