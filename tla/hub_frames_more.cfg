\* More about the instance of hub_frames.cfg.
SPECIFICATION FairSpec
CONSTANTS
  alice = alice
  bob = bob
  cam1 = cam1
  cam2 = cam2
  e1 = e1
  e2 = e2
  c1 = c1
  c2 = c2
  None = None
  Endpoints = {e1}
  ConnectorIds = {c1}
  Participants = {alice, bob}
  Tracks = {cam1, cam2}
  IdOf <- OneId
  Home <- OneHome
  Owner <- OwnCams
  NumSlots = 2
  PushHWM = 1
  MaxSeq = 2
  MaxPush = 2
  FaultSets = {{}, {"late frame", "cancelled send"}}
INVARIANTS
  TypeOK
  ViewsIntact
PROPERTIES
  NewerFrameOnly
CHECK_DEADLOCK FALSE
