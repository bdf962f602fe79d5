\* A participant leaves while its return track is being published.
SPECIFICATION Spec
CONSTANTS
  Participants = {alice, bob}
  MaxSent = 2
  MaxTracks = 2
  MaxEvents = 2
  FaultSets = {{"race"}}
INVARIANTS
  LeaversUnpublished
CHECK_DEADLOCK FALSE
