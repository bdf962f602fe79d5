\* More about the instance of render_demo.cfg.
SPECIFICATION MCSpec
CONSTANTS
  Types = {"box", "ball"}
  Vals = {1, 2, 3}
  MaxIds = 1
  HighWater = 1
  MaxLaunches = 1
  MaxStarts = 1
  Participants = {"alice", "bob"}
  MaxAsks = 2
  MaxLoop = 2
  MaxOrphans = 1
  MovesMax = 1
  HistoryMax = 1
  MaxTurns = 2
  MaxShown = 2
INVARIANTS
  SceneTypeOK
  TypeOK
  DriftNeedsMiss
  GoneIsNoticed
  FeedbackTypeOK
  TurnInOrder
CHECK_DEADLOCK FALSE
