\* The hub is restarted while a processor runs.
SPECIFICATION Spec
CONSTANTS
  alice = alice
  bob = bob
  agent = agent
  video = video
  Presence = Presence
  Participants = {alice, bob}
  Processors = {agent}
  HandshakeInTime = TRUE
  MaxRestarts = 1
  MaxInbox = 3
  MaxControl = 2
INVARIANTS
  RosterAgrees
