\* Two queries, of one participant or of two, over one object that has three places to be, and
\* one launch of LOVR; two turns that show two lines of progress each.
SPECIFICATION MCSpec
CONSTANTS
  Types = {"box", "ball"}
  Vals = {1, 2, 3}
  MaxIds = 1
  HighWater = 1
  MaxLaunches = 1
  MaxStarts = 1
  Participants = {"alice", "bob"}
  MaxAsks = 2
  MaxLoop = 2
  MaxOrphans = 1
  MovesMax = 1
  HistoryMax = 1
  MaxTurns = 2
  MaxShown = 2
PROPERTIES
  MovesTruthful
  LaunchAnswered
  SilencedUnlessSwallowed
  AnsweredAloud
CHECK_DEADLOCK FALSE
