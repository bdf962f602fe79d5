\* Two participants ask, follow up and stop, one of them alone while it is spoken
\* to, with a brain that drains or when it may leave; two
\* participants speak one utterance each and leave and come back, or there is a
\* burst, or pushes suspend.
SPECIFICATION MCSpec
CONSTANTS
  alice = alice
  bob = bob
  Participants = {alice, bob}
  Nobody = Nobody
  MaxTurns = 2
  MaxChunks = 2
  MaxQueued = 3
  Settings = {{}, {"drain"}, {"leave"}}
  Speakers = {alice, bob}
  MinSpeech = 1
  Silence = 1
  MaxLength = 4
  PreRoll = 0
  MaxUtterances = 2
  MaxRoster = 2
  Conditions <- MCConditions
INVARIANTS
  OneQueryInFlight
  StopSilencesTurn
  EchoMatchesSpeech
  HeardOnce
PROPERTIES
  SentencesLeave
  StopsAreAcknowledged
CHECK_DEADLOCK FALSE
