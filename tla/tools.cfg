\* The OpenXR session's life, and every tool call for every pose read in it; three
\* records of four names, two faults, files of an earlier version or none; every
\* prompt of three lines, every choice of three cases, two steps each.
SPECIFICATION MCSpec
CONSTANTS
  r1 = r1
  r2 = r2
  Requests = {r1, r2}
  Turns <- HeadTurns
  Nods <- HeadNods
  Tilts <- HeadTilts
  Points <- TwoPoints
  Distances <- Metres
  Deltas <- Steps
  Absent = Absent
  Null = Null
  LogAt <- Schedule
  MaxAttempts = 6
  Callers = {c1}
  Sources <- Names
  Safe <- FileNames
  Strip <- Stripped
  Stem <- StemTable
  ByName <- Paths
  Legacy = {"a_b"}
  Timestamps = {1, 2}
  MaxAdds = 3
  MaxFaults = 2
  CaseList <- MCCases
  ModelReplies <- MCReplies
  Prompts <- MCPrompts
  MaxSteps = 2
  Attempts = 3
SYMMETRY Symmetry
INVARIANTS
  AnswersFaceUser
  LossesNeedFaults
PROPERTIES
  SurvivorNeedsOrphan
  PassedMeansMet
CHECK_DEADLOCK FALSE
