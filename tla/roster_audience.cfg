\* A processor that starts, exits and starts again; the hub is restarted once.
SPECIFICATION FairSpec
CONSTANTS
  alice = alice
  bob = bob
  agent = agent
  video = video
  Presence = Presence
  Participants = {alice, bob}
  Processors = {agent}
  HandshakeInTime = TRUE
  MaxRestarts = 1
  MaxInbox = 4
  MaxControl = 3
INVARIANTS
  AgreesUntilRestart
  AudienceFollowsRoster
PROPERTIES
  AudienceSettles
CHECK_DEADLOCK FALSE
