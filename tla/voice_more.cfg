\* More about the instance of voice.cfg.
SPECIFICATION MCSpec
CONSTANTS
  alice = alice
  bob = bob
  Participants = {alice, bob}
  Nobody = Nobody
  MaxTurns = 2
  MaxChunks = 2
  MaxQueued = 3
  Settings = {{}, {"drain"}, {"leave"}}
  Speakers = {alice, bob}
  MinSpeech = 1
  Silence = 1
  MaxLength = 4
  PreRoll = 0
  MaxUtterances = 2
  MaxRoster = 2
  Conditions <- MCConditions
INVARIANTS
  TypeOK
  SpeechInOrder
  DrainsKeepTurnsApart
  HearingTypeOK
  SuppressedWasHeard
  StartsBeforeItStops
  LeaversForgotten
  WindowFollowsPhrase
CHECK_DEADLOCK FALSE
