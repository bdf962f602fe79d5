------------------------------ MODULE MediaHub ------------------------------
(***************************************************************************)
(* The video path of XR-Media-Hub: the LiveKit room client and the         *)
(* ConnectorEndpoint that write decoded frames into a shared-memory ring,  *)
(* the PUSH/PULL socket that carries registrations, join/leave events and  *)
(* frame signals to the hub, and the HubEndpoint dispatch that keeps the   *)
(* latest slot of every track.                                             *)
(*                                                                         *)
(* An endpoint is one incarnation of a connector: its ring and its PUSH    *)
(* socket.  A restarted connector is a second endpoint with the same       *)
(* connector id, and so with the same shared-memory name.                  *)
(***************************************************************************)
EXTENDS Integers, Sequences, SequencesExt

CONSTANTS
  Endpoints,     \* connector incarnations
  ConnectorIds,  \* the ids they register with
  IdOf,          \* [Endpoints -> ConnectorIds]
  Participants,  \* LiveKit identities
  Home,          \* [Participants -> SUBSET Endpoints]: where each may appear
  Tracks,        \* video track SIDs
  Owner,         \* [Tracks -> Participants]
  NumSlots,      \* slots of a ring
  PushHWM,       \* ZMQ high-water mark: later sends suspend their task
  MaxSeq,        \* bound: frames a track sends between two leaves
  MaxPush,       \* bound: messages waiting at a socket
  FaultSets,     \* the combinations of Faults a behaviour may have
  None           \* a model value: nobody, nothing

Slots == 0 .. NumSlots - 1
Frame == [track : Tracks, seq : 1 .. MaxSeq]
Slot  == [state : {"free"}, frame : {None}] \union [state : {"writing", "ready"}, frame : Frame]

\* A SlotView: the ring and slot it looks into and the signal it came with.
\* "origin" is a history field, the endpoint that sent the signal.
View == [ring : Endpoints, slot : Slots, frame : Frame, origin : Endpoints]

RegisterMsg == [type |-> "register"]
JoinMsg(p)  == [type |-> "join", pid |-> p]
LeaveMsg(p) == [type |-> "leave", pid |-> p]
FrameMsg(s, f) == [type |-> "frame", slot |-> s, frame |-> f]

Message ==
  {RegisterMsg}
    \union [type : {"join", "leave"}, pid : Participants]
    \union [type : {"frame"}, slot : Slots, frame : Frame]

\* "late frame": a track task may outlive the departure of its participant;
\* "cancelled send": it may be cancelled while it is suspended in send().
Faults == {"late frame", "cancelled send"}

ASSUME ConstantsAssumption ==
  /\ FaultSets \subseteq SUBSET Faults
  /\ IdOf \in [Endpoints -> ConnectorIds]
  /\ Owner \in [Tracks -> Participants]
  /\ Home \in [Participants -> SUBSET Endpoints]
  /\ NumSlots \in Nat \ {0}
  /\ MaxSeq \in Nat
  /\ MaxPush \in Nat
  /\ PushHWM \in Nat

ASSUME NoneAssumption ==
  /\ None \notin Endpoints \union ConnectorIds
  /\ None \notin Frame
  /\ None \notin View

VARIABLES
  status,     \* "new", "open" or "closed", of each endpoint
  slots,      \* slots[e][s]: the state byte of a slot and the frame in it
  writePos,   \* the producer's private scan position
  seq,        \* per-track counter of the connector
  room,       \* participants an endpoint has announced and not retired
  task,       \* the endpoint whose track task streams the track, or None
  push,       \* messages on an endpoint's PUSH socket, oldest first; those
              \* beyond PushHWM belong to tasks suspended in send()
  registry,   \* ring_registry: connector id -> the ring the hub has opened
  ringOpen,   \* FALSE when that ring object was closed by a failed re-open
  connector,  \* participant_connector: participant -> connector id
  held,       \* latest_slots: track -> the view the hub holds
  running,    \* FALSE once the hub is closed
  faults      \* what may go wrong in this behaviour

producerVars == <<status, writePos, seq, room, task>>
rosterVars   == <<registry, ringOpen, connector, running>>
vars == <<producerVars, slots, push, rosterVars, held, faults>>

TypeOK ==
  /\ status \in [Endpoints -> {"new", "open", "closed"}]
  /\ slots \in [Endpoints -> [Slots -> Slot]]
  /\ writePos \in [Endpoints -> Slots]
  /\ seq \in [Endpoints -> [Tracks -> 0 .. MaxSeq]]
  /\ room \in [Endpoints -> SUBSET Participants]
  /\ task \in [Tracks -> Endpoints \union {None}]
  /\ push \in [Endpoints -> Seq(Message)]
  /\ registry \in [ConnectorIds -> Endpoints \union {None}]
  /\ ringOpen \in [ConnectorIds -> BOOLEAN]
  /\ connector \in [Participants -> ConnectorIds \union {None}]
  /\ held \in [Tracks -> View \union {None}]
  /\ running \in BOOLEAN
  /\ faults \in FaultSets

FreeSlot == [state |-> "free", frame |-> None]

Init ==
  /\ status = [e \in Endpoints |-> "new"]
  /\ slots = [e \in Endpoints |-> [s \in Slots |-> FreeSlot]]
  /\ writePos = [e \in Endpoints |-> 0]
  /\ seq = [e \in Endpoints |-> [t \in Tracks |-> 0]]
  /\ room = [e \in Endpoints |-> {}]
  /\ task = [t \in Tracks |-> None]
  /\ push = [e \in Endpoints |-> <<>>]
  /\ registry = [c \in ConnectorIds |-> None]
  /\ ringOpen = [c \in ConnectorIds |-> FALSE]
  /\ connector = [p \in Participants |-> None]
  /\ held = [t \in Tracks |-> None]
  /\ running = TRUE
  /\ faults \in FaultSets

-----------------------------------------------------------------------------
(* The connector process.  Its coroutines share one event loop, so nothing *)
(* of an endpoint runs while it copies pixels into a slot; the hub, which  *)
(* may be another process, does.                                           *)

Writing(e) == {s \in Slots : slots[e][s].state = "writing"}
Ready(e) == status[e] = "open" /\ Writing(e) = {}

CanSend(e) == Len(push[e]) < MaxPush
Send(e, m) == push' = [push EXCEPT ![e] = Append(@, m)]

\* The task of track t is suspended in send(), its signal above the mark.
Suspended(e, t) ==
  {i \in PushHWM + 1 .. Len(push[e]) :
     push[e][i].type = "frame" /\ push[e][i].frame.track = t}

\* The endpoint creates its ring and registers.  The name of the segment is
\* derived from the id: creating it fails while another incarnation has it.
StartEndpoint(e) ==
  /\ status[e] = "new"
  /\ \A x \in Endpoints : IdOf[x] = IdOf[e] => status[x] # "open"
  /\ status' = [status EXCEPT ![e] = "open"]
  /\ Send(e, RegisterMsg)
  /\ UNCHANGED <<faults, writePos, seq, room, task, slots, rosterVars, held>>

\* The connector announces the ring it already has once more.
Register(e) ==
  /\ Ready(e) /\ CanSend(e)
  /\ Send(e, RegisterMsg)
  /\ UNCHANGED <<faults, producerVars, slots, rosterVars, held>>

\* participant_connected: an identity is in one room at a time.
ParticipantJoined(e, p) ==
  /\ Ready(e) /\ CanSend(e)
  /\ e \in Home[p]
  /\ \A x \in Endpoints : p \notin room[x]
  /\ room' = [room EXCEPT ![e] = @ \union {p}]
  /\ Send(e, JoinMsg(p))
  /\ UNCHANGED <<faults, status, writePos, seq, task, slots, rosterVars, held>>

\* participant_disconnected: the counters of the participant's tracks go, the
\* track tasks do not; LiveKit ends those with track_unsubscribed.
ParticipantLeft(e, p) ==
  /\ Ready(e) /\ CanSend(e)
  /\ p \in room[e]
  /\ "late frame" \in faults \/ \A t \in Tracks : Owner[t] = p => task[t] = None
  /\ room' = [room EXCEPT ![e] = @ \ {p}]
  /\ seq' = [seq EXCEPT ![e] = [t \in Tracks |-> IF Owner[t] = p THEN 0 ELSE @[t]]]
  /\ Send(e, LeaveMsg(p))
  /\ UNCHANGED <<faults, status, writePos, task, slots, rosterVars, held>>

\* track_subscribed
StartTrack(e, t) ==
  /\ Ready(e)
  /\ Owner[t] \in room[e]
  /\ task[t] = None
  /\ task' = [task EXCEPT ![t] = e]
  /\ UNCHANGED <<faults, status, writePos, seq, room, slots, push, rosterVars, held>>

\* track_unsubscribed cancels the task; a send() it was suspended in never
\* happens.  No message tells the hub that the track is over.
EndTrack(e, t) ==
  /\ Ready(e)
  /\ task[t] = e
  /\ task' = [task EXCEPT ![t] = None]
  /\ \/ Suspended(e, t) = {} /\ UNCHANGED push
     \/ /\ "cancelled send" \in faults
        /\ \E i \in Suspended(e, t) : push' = [push EXCEPT ![e] = RemoveAt(@, i)]
  /\ UNCHANGED <<faults, status, writePos, seq, room, slots, rosterVars, held>>

\* The k-th slot the producer's scan looks at.
Scan(e, k) == (writePos[e] + k) % NumSlots

\* mutant: the slot at the scan position is taken, whoever has it
BeginWriteOverwrites(e, t) ==
  /\ Ready(e) /\ CanSend(e)
  /\ task[t] = e /\ Suspended(e, t) = {} /\ seq[e][t] < MaxSeq
  /\ slots' = [slots EXCEPT ![e][Scan(e, 0)] =
                 [state |-> "writing", frame |-> [track |-> t, seq |-> seq[e][t] + 1]]]
  /\ writePos' = [writePos EXCEPT ![e] = Scan(e, 1)]
  /\ seq' = [seq EXCEPT ![e][t] = @ + 1]
  /\ UNCHANGED <<faults, status, room, task, push, rosterVars, held>>

\* push_frame, up to the state byte: count the frame, claim the first free
\* slot from the scan position on and mark it WRITING.
BeginWrite(e, t) ==
  /\ Ready(e) /\ CanSend(e)
  /\ task[t] = e /\ Suspended(e, t) = {}
  /\ seq[e][t] < MaxSeq
  /\ \E k \in Slots :
       /\ slots[e][Scan(e, k)].state = "free"
       /\ \A j \in 0 .. k - 1 : slots[e][Scan(e, j)].state # "free"
       /\ slots' = [slots EXCEPT ![e][Scan(e, k)] =
                      [state |-> "writing", frame |-> [track |-> t, seq |-> seq[e][t] + 1]]]
       /\ writePos' = [writePos EXCEPT ![e] = Scan(e, k + 1)]
  /\ seq' = [seq EXCEPT ![e][t] = @ + 1]
  /\ UNCHANGED <<faults, status, room, task, push, rosterVars, held>>

\* push_frame when no slot is free: counted, and dropped by the track task.
DropFrame(e, t) ==
  /\ Ready(e) /\ CanSend(e)
  /\ task[t] = e /\ Suspended(e, t) = {}
  /\ seq[e][t] < MaxSeq
  /\ \A s \in Slots : slots[e][s].state # "free"
  /\ seq' = [seq EXCEPT ![e][t] = @ + 1]
  /\ UNCHANGED <<faults, status, writePos, room, task, slots, push, rosterVars, held>>

\* The pixels are in: mark the slot READY and signal the hub.
FinishWrite(e) ==
  /\ status[e] = "open"
  /\ \E s \in Writing(e) :
       /\ slots' = [slots EXCEPT ![e][s].state = "ready"]
       /\ Send(e, FrameMsg(s, slots[e][s].frame))
  /\ UNCHANGED <<faults, producerVars, rosterVars, held>>

\* stop() or a crash: the tasks die, nobody is said to have left, and the
\* socket closes without lingering, so a suffix of what it holds is lost.
CloseEndpoint(e) ==
  /\ status[e] = "open"
  /\ status' = [status EXCEPT ![e] = "closed"]
  /\ room' = [room EXCEPT ![e] = {}]
  /\ task' = [t \in Tracks |-> IF task[t] = e THEN None ELSE task[t]]
  /\ \E n \in 0 .. Len(push[e]) : push' = [push EXCEPT ![e] = SubSeq(@, 1, n)]
  /\ UNCHANGED <<faults, writePos, seq, slots, rosterVars, held>>

-----------------------------------------------------------------------------
(* The hub: one message at a time, from any socket that has one.           *)

\* mutant: the views are forgotten before their slots are given back
ReleaseForgets(T) ==
  held' = [t \in Tracks |-> IF t \in T THEN None ELSE held[t]] /\ UNCHANGED slots

\* Give back the slots of the views of the tracks in T and forget them.
Release(T) ==
  /\ slots' = [e \in Endpoints |-> [s \in Slots |->
                 IF \E t \in T : held[t] # None /\ held[t].ring = e /\ held[t].slot = s
                 THEN FreeSlot ELSE slots[e][s]]]
  /\ held' = [t \in Tracks |-> IF t \in T THEN None ELSE held[t]]

\* mutant: a message may be handled a second time
ReceiveAgain(e, type) ==
  /\ running /\ push[e] # <<>> /\ Head(push[e]).type = type
  /\ push' = [push EXCEPT ![e] = Tail(@)] \/ UNCHANGED push

Receive(e, type) ==
  /\ running
  /\ push[e] # <<>>
  /\ Head(push[e]).type = type
  /\ push' = [push EXCEPT ![e] = Tail(@)]

\* CONNECTOR_REGISTER: drop the views into the ring registered before, close
\* it, and open the segment that has the connector's name now, if any.
HandleRegistration(e) ==
  LET c == IdOf[e]
      old == registry[c]
      segment == {x \in Endpoints : IdOf[x] = c /\ status[x] = "open"}
  IN  /\ Receive(e, "register")
      /\ Release({t \in Tracks : held[t] # None /\ held[t].ring = old})
      /\ \/ /\ segment = {}
            /\ ringOpen' = [ringOpen EXCEPT ![c] = FALSE]
            /\ UNCHANGED registry
         \/ /\ ringOpen' = [ringOpen EXCEPT ![c] = TRUE]
            /\ \E x \in segment : registry' = [registry EXCEPT ![c] = x]
      /\ UNCHANGED <<faults, producerVars, connector, running>>

\* PARTICIPANT_EVENT(joined=True)
HandleJoined(e) ==
  /\ Receive(e, "join")
  /\ connector' = [connector EXCEPT ![Head(push[e]).pid] = IdOf[e]]
  /\ UNCHANGED <<faults, producerVars, slots, registry, ringOpen, held, running>>

\* mutant: a leave keeps the views of the participant's tracks
HandleLeftKeepsViews(e) ==
  /\ Receive(e, "leave")
  /\ connector' = [connector EXCEPT ![Head(push[e]).pid] = None]
  /\ UNCHANGED <<faults, slots, held, producerVars, registry, ringOpen, running>>

\* PARTICIPANT_EVENT(joined=False): whichever connector says so.
HandleLeft(e) ==
  /\ Receive(e, "leave")
  /\ LET p == Head(push[e]).pid
     IN  /\ connector' = [connector EXCEPT ![p] = None]
         /\ Release({t \in Tracks : Owner[t] = p})
  /\ UNCHANGED <<faults, producerVars, registry, ringOpen, running>>

\* The ring the hub looks a frame of track t up in, or None.
RingOf(t) ==
  LET c == connector[Owner[t]] IN IF c = None THEN None ELSE registry[c]

\* FRAME_SIGNAL of an unknown participant, or of one whose connector has no
\* ring: dropped, and the slot it names is left as it is.
DropSignal(e) ==
  /\ Receive(e, "frame")
  /\ RingOf(Head(push[e]).frame.track) = None
  /\ UNCHANGED <<faults, producerVars, slots, rosterVars, held>>

\* FRAME_SIGNAL: give the previous view of the track back, then look into the
\* slot; when it is not READY, or the ring is closed, read_slot raises and the
\* track has no view any more.
HandleFrame(e) ==
  /\ Receive(e, "frame")
  /\ LET m == Head(push[e])
         t == m.frame.track
         r == RingOf(t)
         prev == held[t]
         freed(x, s) == prev # None /\ prev.ring = x /\ prev.slot = s
         readable == /\ ringOpen[connector[Owner[t]]]
                     /\ slots[r][m.slot].state = "ready" /\ ~freed(r, m.slot)
     IN  /\ r # None
         /\ slots' = [x \in Endpoints |-> [s \in Slots |->
                        IF freed(x, s) THEN FreeSlot ELSE slots[x][s]]]
         /\ held' = [held EXCEPT ![t] =
                       IF readable
                       THEN [ring |-> r, slot |-> m.slot, frame |-> m.frame, origin |-> e]
                       ELSE None]
  /\ UNCHANGED <<faults, producerVars, rosterVars>>

\* close(): every view is given back and every ring closed.
CloseHub ==
  /\ running
  /\ running' = FALSE
  /\ Release(Tracks)
  /\ registry' = [c \in ConnectorIds |-> None]
  /\ UNCHANGED <<faults, producerVars, push, ringOpen, connector>>

-----------------------------------------------------------------------------
Connector(e) ==
  \/ StartEndpoint(e) \/ Register(e) \/ FinishWrite(e) \/ CloseEndpoint(e)
  \/ \E p \in Participants : ParticipantJoined(e, p) \/ ParticipantLeft(e, p)
  \/ \E t \in Tracks :
       StartTrack(e, t) \/ EndTrack(e, t) \/ BeginWrite(e, t) \/ DropFrame(e, t)

Dispatch(e) ==
  HandleRegistration(e) \/ HandleJoined(e) \/ HandleLeft(e)
    \/ DropSignal(e) \/ HandleFrame(e)

Next == (\E e \in Endpoints : Connector(e) \/ Dispatch(e)) \/ CloseHub

Spec == Init /\ [][Next]_vars

\* run() keeps receiving, fair-queued over its peers, and a write that has
\* begun is straight-line code.
Fairness ==
  \A e \in Endpoints : WF_vars(Dispatch(e)) /\ WF_vars(FinishWrite(e))

FairSpec == Spec /\ Fairness

-----------------------------------------------------------------------------
(* Properties.                                                             *)

Signals(e) == {i \in 1 .. Len(push[e]) : push[e][i].type = "frame"}

InFlight(e, s) == \E i \in Signals(e) : push[e][i].slot = s

ViewedBy(e, s) ==
  {t \in Tracks : held[t] # None /\ held[t].ring = e /\ held[t].slot = s}

\* The pixels behind a view the hub holds are those of the frame the view was
\* taken for: no producer overwrites them and nobody frees the slot, so the
\* copy FRAME_REQUEST makes is that frame (_hub.py, _latest_slots).
ViewsIntact ==
  \A t \in Tracks : held[t] # None =>
    slots[held[t].ring][held[t].slot] = [state |-> "ready", frame |-> held[t].frame]

\* A view is always into the ring that is registered for its participant now,
\* and that ring is open: no use after close, no view for somebody who left.
ViewsInRegisteredRing ==
  \A t \in Tracks : held[t] # None =>
    held[t].ring = RingOf(t) /\ ringOpen[connector[Owner[t]]]

\* Every participant has one connector, and a connector one incarnation.
OneConnector ==
  /\ \A e, f \in Endpoints : IdOf[e] = IdOf[f] => e = f
  /\ \A p \in Participants : \A e, f \in Home[p] : e = f

\* A signal in flight names a READY slot of its sender's ring with the frame
\* it was sent for.
SignalsIntact ==
  \A e \in Endpoints : \A i \in Signals(e) :
    slots[e][push[e][i].slot] = [state |-> "ready", frame |-> push[e][i].frame]

\* Two signals in flight, a signal and a view, or two views never share a slot.
Unshared ==
  /\ \A e \in Endpoints : \A i, j \in Signals(e) :
       i # j => push[e][i].slot # push[e][j].slot
  /\ \A t \in Tracks : held[t] # None => ~InFlight(held[t].ring, held[t].slot)
  /\ \A t, u \in Tracks :
       held[t] # None /\ held[u] # None /\ t # u
         => held[t].ring # held[u].ring \/ held[t].slot # held[u].slot

\* What concerns a participant stays at a connector the participant may use,
\* and the hub's tables agree with the ids.
AtHome ==
  /\ \A e \in Endpoints : \A p \in room[e] : e \in Home[p]
  /\ \A t \in Tracks : task[t] # None => task[t] \in Home[Owner[t]]
  /\ \A e \in Endpoints : \A s \in Writing(e) : e \in Home[Owner[slots[e][s].frame.track]]
  /\ \A e \in Endpoints : \A i \in Signals(e) : e \in Home[Owner[push[e][i].frame.track]]
  /\ \A e \in Endpoints : \A i \in 1 .. Len(push[e]) :
       push[e][i].type = "join" => e \in Home[push[e][i].pid]
  /\ \A p \in Participants : connector[p] # None =>
       \E e \in Home[p] : connector[p] = IdOf[e]
  /\ \A c \in ConnectorIds : registry[c] # None => IdOf[registry[c]] = c
  /\ \A t \in Tracks : held[t] # None => held[t].frame.track = t

\* The inductive invariant of the frame path: no slot is ever in two hands.
SlotOwnership ==
  /\ SignalsIntact
  /\ Unshared
  /\ AtHome
  /\ ViewsIntact
  /\ ViewsInRegisteredRing

\* A view looks into the ring of the connector that sent the signal.
ViewFromOriginatingConnector ==
  \A t \in Tracks : held[t] # None => held[t].ring = held[t].origin

\* Once everybody has left an open connector and the hub has seen all its
\* messages, the ring is as empty as it was at the start: connect, publish and
\* disconnect cycles use no slot up (issue #143).
ChurnLeavesNoResidue ==
  \A e \in Endpoints :
    status[e] = "open" /\ running /\ room[e] = {} /\ push[e] = <<>>
      /\ (\A t \in Tracks : task[t] # e)
      => \A s \in Slots : slots[e][s] = FreeSlot

\* Nothing but a late frame or a cancelled send can leave a residue.
ResidueNeedsFault == faults = {} => ChurnLeavesNoResidue

\* Once the hub has seen all messages of an open connector, it holds views
\* only of tracks that are still streamed there.
EndedTrackReleased ==
  \A e \in Endpoints : status[e] = "open" /\ push[e] = <<>> =>
    \A t \in Tracks : held[t] # None /\ held[t].ring = e => task[t] = e

\* While the hub goes on holding a view of a track, a newer frame may replace
\* it and an older one never does, although leave resets the counter.
NewerFrameOnly ==
  [][\A t \in Tracks :
       held[t] # None /\ held'[t] # None /\ held'[t] # held[t]
         => held'[t].frame.seq > held[t].frame.seq]_vars

TwoOfOneTrack(e) ==
  \E s, x \in Slots : s # x /\ slots[e][s].frame.track = slots[e][x].frame.track

Full(e) == \A s \in Slots : slots[e][s].state # "free"

\* Back-pressure drops frames, it does not end the stream: a full ring in which
\* two slots have frames of one track gets a free slot again as long as hub and
\* connector run and no slot was lost to a fault.  (A ring whose slots are the
\* latest frames of as many tracks stays full until one of them is let go.)
RingRecovers ==
  \A e \in Endpoints :
    (faults = {} /\ Full(e) /\ TwoOfOneTrack(e)) ~> ~Full(e) \/ status[e] = "closed" \/ ~running

\* The custody of a slot, as its state byte, the signals in flight and the
\* hub's views have it.
CustodianOf(c) ==
  LET e == c[1] s == c[2]
  IN  CASE slots[e][s].state = "free" -> "free"
        [] slots[e][s].state = "writing" -> "writing"
        [] slots[e][s].state = "ready" /\ ViewedBy(e, s) # {} -> "held"
        [] slots[e][s].state = "ready" /\ ViewedBy(e, s) = {} /\ InFlight(e, s) -> "transit"
        [] OTHER -> "lost"

Custody == INSTANCE FrameCustody WITH
  Cells     <- Endpoints \X Slots,
  Frames    <- Frame,
  NoFrame   <- None,
  custodian <- [c \in Endpoints \X Slots |-> CustodianOf(c)],
  pixels    <- [c \in Endpoints \X Slots |-> slots[c[1]][c[2]].frame]

\* The frame path implements FrameCustody: a slot is the producer's, in
\* transit, or the hub's, one at a time, and only the producer fills it.
ImplementsCustody == Custody!Spec
=============================================================================
