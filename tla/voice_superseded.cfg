\* A follow-up query while a sentence is unfinished.
SPECIFICATION Spec
CONSTANTS
  Participants = {alice}
  Nobody = Nobody
  MaxTurns = 2
  MaxChunks = 2
  MaxQueued = 3
  Settings = {{}}
INVARIANTS
  OneTurnPerSentence
CHECK_DEADLOCK FALSE
