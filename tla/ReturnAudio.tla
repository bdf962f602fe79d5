------------------------------ MODULE ReturnAudio ------------------------------
(***************************************************************************)
(* The way back: audio an agent sends to a participant, through the hub's  *)
(* connectivity check and PUB socket, the connector's serial receive loop, *)
(* and RoomClient, which publishes a LiveKit track per participant at the  *)
(* first chunk and takes it away when the participant leaves.              *)
(*                                                                         *)
(* The coroutines of RoomClient share one event loop; they interleave      *)
(* where they wait for LiveKit: publish_track in the receive loop,         *)
(* capture_frame in the drainer of a pipe, and pipe.close and              *)
(* unpublish_track in the handler of a departure.                          *)
(***************************************************************************)
EXTENDS Integers, Sequences

CONSTANTS
  Participants,
  MaxSent,      \* bound: chunks and flushes the agent sends
  MaxTracks,    \* bound: return tracks published
  MaxEvents,    \* bound: joins and leaves on their way to the hub
  FaultSets     \* the combinations of Faults a behaviour may have

\* "race": a participant may leave while its track is being published;
\* "failure": LiveKit may fail to unpublish a track.
Faults == {"race", "failure"}

ASSUME ConstantsAssumption ==
  /\ FaultSets \subseteq SUBSET Faults
  /\ MaxSent \in Nat /\ MaxTracks \in Nat /\ MaxEvents \in Nat

Sids  == 1 .. MaxTracks
NoSid == 0

\* A chunk, or a flush, with its number in the order in which the agent sent
\* them.
Message == [type : {"audio", "flush"}, pid : Participants, n : 1 .. MaxSent]
Event   == [pid : Participants, joined : BOOLEAN]

VARIABLES
  room,      \* the LiveKit room; the connector subscribes to return traffic of
             \* exactly these participants
  events,    \* joins and leaves the hub has not handled
  connected, \* the hub's _participant_connector
  sent,      \* messages the agent has sent
  wire,      \* messages the connector's SUB socket has
  publishing,\* the chunk whose track the receive loop is publishing, or <<>>
  entry,     \* _return_audio: the participant's track, or NoSid
  pipe,      \* pipe[p]: chunks in the queue of the participant's pipe
  source,    \* source[p]: chunks in LiveKit's queue behind it
  leaving,   \* departures whose track has been popped and not yet unpublished
  tracks,    \* tracks that are published in LiveKit, with their owners
  allowed,   \* the subscription permissions last given to LiveKit
  flushed,   \* history: the last flush handled for a participant
  faults     \* what may go wrong in this behaviour

hubVars   == <<events, connected, sent>>
queues    == <<pipe, source>>
livekit   == <<leaving, tracks, allowed>>
vars == <<room, hubVars, wire, publishing, entry, queues, livekit, flushed, faults>>

TypeOK ==
  /\ room \subseteq Participants
  /\ events \in Seq(Event)
  /\ connected \subseteq Participants
  /\ sent \in 0 .. MaxSent
  /\ wire \in Seq(Message)
  /\ publishing \in {<<>>} \union {<<m>> : m \in Message}
  /\ entry \in [Participants -> Sids \union {NoSid}]
  /\ pipe \in [Participants -> Seq(1 .. MaxSent)]
  /\ source \in [Participants -> Seq(1 .. MaxSent)]
  /\ leaving \subseteq [pid : Participants, sid : Sids]
  /\ tracks \subseteq [pid : Participants, sid : Sids]
  /\ allowed \in [Participants -> Sids \union {NoSid}]
  /\ flushed \in [Participants -> 0 .. MaxSent]
  /\ faults \in FaultSets

Empty == [p \in Participants |-> <<>>]

Init ==
  /\ room = {} /\ events = <<>> /\ connected = {} /\ sent = 0 /\ wire = <<>>
  /\ publishing = <<>> /\ pipe = Empty /\ source = Empty /\ leaving = {} /\ tracks = {}
  /\ entry = [p \in Participants |-> NoSid]
  /\ allowed = [p \in Participants |-> NoSid]
  /\ flushed = [p \in Participants |-> 0]
  /\ faults \in FaultSets

-----------------------------------------------------------------------------
(* Participants, the hub and the agent.                                    *)

\* _handle_joined
Joined(p) ==
  /\ p \notin room /\ Len(events) < MaxEvents
  /\ room' = room \union {p}
  /\ events' = Append(events, [pid |-> p, joined |-> TRUE])
  /\ UNCHANGED <<faults, connected, sent, wire, publishing, entry, queues, livekit, flushed>>

\* mutant: the track is taken out of the table and not unpublished
LeftUnpublishesNothing(p) ==
  /\ p \in room /\ Len(events) < MaxEvents
  /\ "race" \in faults \/ \A i \in DOMAIN publishing : publishing[i].pid # p
  /\ room' = room \ {p}
  /\ events' = Append(events, [pid |-> p, joined |-> FALSE])
  /\ entry' = [entry EXCEPT ![p] = NoSid]
  /\ pipe' = [pipe EXCEPT ![p] = <<>>] /\ source' = [source EXCEPT ![p] = <<>>]
  /\ UNCHANGED <<faults, connected, sent, wire, publishing, livekit, flushed>>

\* _handle_left, up to the wait for LiveKit: tell the hub, take the track out
\* of the table and cancel its drainer.
Left(p) ==
  /\ p \in room /\ Len(events) < MaxEvents
  /\ "race" \in faults \/ \A i \in DOMAIN publishing : publishing[i].pid # p
  /\ room' = room \ {p}
  /\ events' = Append(events, [pid |-> p, joined |-> FALSE])
  /\ entry' = [entry EXCEPT ![p] = NoSid]
  /\ pipe' = [pipe EXCEPT ![p] = <<>>] /\ source' = [source EXCEPT ![p] = <<>>]
  /\ leaving' = leaving \union {l \in {[pid |-> p, sid |-> entry[p]]} : l.sid # NoSid}
  /\ UNCHANGED <<faults, connected, sent, wire, publishing, tracks, allowed, flushed>>

\* PARTICIPANT_EVENT at the hub.
HubEvent ==
  /\ events # <<>>
  /\ connected' = IF Head(events).joined THEN connected \union {Head(events).pid}
                  ELSE connected \ {Head(events).pid}
  /\ events' = Tail(events)
  /\ UNCHANGED <<faults, room, sent, wire, publishing, entry, queues, livekit, flushed>>

\* RETURN_AUDIO or RETURN_AUDIO_FLUSH from an agent. The hub drops it for
\* somebody it does not know; the PUB socket, when the connector's SUBSCRIBE for
\* the participant has not arrived.
Send(p, type) ==
  /\ sent < MaxSent
  /\ sent' = sent + 1
  /\ \/ /\ p \in connected
        /\ wire' = Append(wire, [type |-> type, pid |-> p, n |-> sent + 1])
     \/ wire' = wire
  /\ UNCHANGED <<faults, room, events, connected, publishing, entry, queues, livekit, flushed>>

-----------------------------------------------------------------------------
(* The receive loop of the connector.                                      *)

\* mutant: the loop goes on while a track is being published
ReceiveConcurrently(type) ==
  /\ wire # <<>> /\ Head(wire).type = type
  /\ wire' = Tail(wire)

\* One message at a time; the next is not looked at while a track is being
\* published.
Receive(type) ==
  /\ publishing = <<>>
  /\ wire # <<>> /\ Head(wire).type = type
  /\ wire' = Tail(wire)

\* The socket no longer subscribes to the participant.
DropMessage ==
  /\ wire # <<>> /\ Head(wire).pid \notin room
  /\ Receive(Head(wire).type)
  /\ UNCHANGED <<faults, room, hubVars, publishing, entry, queues, livekit, flushed>>

\* send_return_audio, with a track: the chunk goes into its pipe.
PushChunk ==
  /\ Receive("audio")
  /\ LET m == Head(wire)
     IN  /\ m.pid \in room /\ entry[m.pid] # NoSid
         /\ pipe' = [pipe EXCEPT ![m.pid] = Append(@, m.n)]
  /\ UNCHANGED <<faults, room, hubVars, publishing, entry, source, livekit, flushed>>

\* send_return_audio, without: a track is published, and the loop waits.
BeginPublish ==
  /\ Receive("audio")
  /\ LET m == Head(wire)
     IN  m.pid \in room /\ entry[m.pid] = NoSid /\ publishing' = <<m>>
  /\ UNCHANGED <<faults, room, hubVars, entry, queues, livekit, flushed>>

\* Every participant in the table may subscribe to its own track, to no other.
RefreshPermissions == allowed' = entry'

\* mutant: the permissions are recomputed at departures only
PublishedNoRefresh(s) ==
  /\ publishing # <<>>
  /\ \A t \in tracks \union leaving : t.sid < s
  /\ LET m == Head(publishing)
     IN  /\ tracks' = tracks \union {[pid |-> m.pid, sid |-> s]}
         /\ entry' = [entry EXCEPT ![m.pid] = s]
         /\ pipe' = [pipe EXCEPT ![m.pid] = <<m.n>>]
  /\ publishing' = <<>>
  /\ UNCHANGED <<faults, allowed, room, hubVars, wire, source, leaving, flushed>>

\* publish_track returned: the table, the permissions, a pipe with the chunk.
Published(s) ==
  /\ publishing # <<>>
  /\ \A t \in tracks \union leaving : t.sid < s
  /\ LET m == Head(publishing)
     IN  /\ tracks' = tracks \union {[pid |-> m.pid, sid |-> s]}
         /\ entry' = [entry EXCEPT ![m.pid] = s]
         /\ pipe' = [pipe EXCEPT ![m.pid] = <<m.n>>]
  /\ RefreshPermissions
  /\ publishing' = <<>>
  /\ UNCHANGED <<faults, room, hubVars, wire, source, leaving, flushed>>

\* publish_track raised: the chunk is lost, and the next will try again.
PublishFailed ==
  /\ publishing # <<>>
  /\ publishing' = <<>>
  /\ UNCHANGED <<faults, room, hubVars, wire, entry, queues, livekit, flushed>>

\* flush_return_audio: the pipe and LiveKit's queue are emptied.
Flush ==
  /\ Receive("flush")
  /\ LET p == Head(wire).pid
     IN  /\ p \in room
         /\ pipe' = [pipe EXCEPT ![p] = <<>>] /\ source' = [source EXCEPT ![p] = <<>>]
         /\ flushed' = [flushed EXCEPT ![p] = Head(wire).n]
  /\ UNCHANGED <<faults, room, hubVars, publishing, entry, livekit>>

\* _drain: capture_frame takes a chunk into LiveKit's queue.
Capture(p) ==
  /\ pipe[p] # <<>>
  /\ pipe' = [pipe EXCEPT ![p] = Tail(@)]
  /\ source' = [source EXCEPT ![p] = Append(@, Head(pipe[p]))]
  /\ UNCHANGED <<faults, room, hubVars, wire, publishing, entry, livekit, flushed>>

\* LiveKit plays a chunk.
Play(p) ==
  /\ source[p] # <<>>
  /\ source' = [source EXCEPT ![p] = Tail(@)]
  /\ UNCHANGED <<faults, room, hubVars, wire, publishing, entry, pipe, livekit, flushed>>

\* _handle_left, to the end: unpublish, whose failure is only logged, and the
\* permissions of whoever is in the table by now.
Unpublish(l) ==
  /\ l \in leaving
  /\ leaving' = leaving \ {l}
  /\ tracks' = tracks \ {l} \/ ("failure" \in faults /\ tracks' = tracks)
  /\ UNCHANGED <<faults, room, hubVars, wire, publishing, entry, queues, flushed>>
  /\ RefreshPermissions

-----------------------------------------------------------------------------
Next ==
  \/ \E p \in Participants :
       \/ Joined(p) \/ Left(p) \/ Capture(p) \/ Play(p)
       \/ \E type \in {"audio", "flush"} : Send(p, type)
  \/ HubEvent \/ DropMessage \/ PushChunk \/ BeginPublish \/ PublishFailed \/ Flush
  \/ \E s \in Sids : Published(s)
  \/ \E l \in leaving : Unpublish(l)

Spec == Init /\ [][Next]_vars

-----------------------------------------------------------------------------
(* Properties.                                                             *)

\* While handlers of departures wait, chunks arrive and others join, every
\* participant with a track may subscribe to it, nobody may subscribe to a
\* track of somebody else, and once the handlers are done nobody may subscribe
\* to anything that is not in the table.
PermissionsFollowTracks ==
  /\ \A p \in Participants : entry[p] # NoSid => allowed[p] = entry[p]
  /\ \A p \in Participants : \A t \in tracks : t.sid = allowed[p] => t.pid = p
  /\ leaving = {} => allowed = entry

\* Interrupting an agent: whatever waits to be played, in the pipe and in
\* LiveKit's queue, was sent after the last flush that was handled, also the
\* chunk whose track was being published when the flush was sent; and it is
\* played in the order it was sent in.
FlushDropsBacklog ==
  \A p \in Participants :
    LET waiting == source[p] \o pipe[p]
    IN  \A i \in DOMAIN waiting :
          /\ waiting[i] > flushed[p]
          /\ \A j \in DOMAIN waiting : i < j => waiting[i] < waiting[j]

\* When nothing is under way, a participant who is not in the room has no
\* return track, and one who is has at most one.
LeaversUnpublished ==
  leaving = {} /\ publishing = <<>> =>
    \A t \in tracks : t.pid \in room /\ entry[t.pid] = t.sid

\* Tracks outlive their participants only when they were being published as the
\* participant left, or LiveKit failed.
StaleTrackNeedsFault == faults = {} => LeaversUnpublished
===============================================================================
