----------------------------- MODULE HubMedia_proof -----------------------------
(***************************************************************************)
(* Proofs about what the hub does with media beside the frame path.        *)
(* Return audio: TypeOK is inductive; with it go three invariants, about   *)
(* permissions (TracksInv), about whose the tracks are (OwnedInv), and     *)
(* about the order of the chunks on their way (OrderInv).                  *)
(* The recorder: the types of its variables (RecorderTypes), whose         *)
(* directory everything is in (OwnerInv), that what is finished is written *)
(* no more (NamesInv), what a tool call knows of it (FoundInv, KnownInv),  *)
(* and, until something goes wrong that loses frames, the order of what is *)
(* kept (OrderedInv); and the bytes of the files (LimitInv).               *)
(***************************************************************************)
EXTENDS ReturnAudio, Recording, SequenceTheorems, FiniteSetTheorems,
        WellFoundedInduction, TLAPS

-----------------------------------------------------------------------------
(* Tracks and permissions.                                                 *)

Track(p, sid) == [pid |-> p, sid |-> sid]

\* A track has one owner.  What is in the table is published and not on its way
\* out; what is allowed is published or on its way out, so that its number is not
\* given to another track before the permissions are renewed.
TracksInv ==
  /\ \A t, u \in tracks \union leaving : t.sid = u.sid => t = u
  /\ \A p \in Participants : entry[p] # NoSid => Track(p, entry[p]) \in tracks \ leaving
  /\ \A p \in Participants : allowed[p] # NoSid => Track(p, allowed[p]) \in tracks \union leaving
  /\ \A p \in Participants : entry[p] # NoSid => allowed[p] = entry[p]
  /\ leaving = {} => allowed = entry
  /\ publishing # <<>> => entry[Head(publishing).pid] = NoSid

LEMMA ReturnStarts == Init => TypeOK /\ TracksInv
  BY ConstantsAssumption DEF Init, TypeOK, TracksInv, NoSid, Empty

LEMMA MessageParts ==
  ASSUME NEW m \in Message
  PROVE  m.pid \in Participants /\ m.n \in 1 .. MaxSent /\ m.type \in {"audio", "flush"}
  BY DEF Message

\* The message the loop looks at, and what is left of the wire.
LEMMA Received ==
  ASSUME TypeOK, NEW type, Receive(type)
  PROVE  /\ Head(wire) \in Message /\ wire' \in Seq(Message)
         /\ Head(wire).pid \in Participants /\ Head(wire).n \in 1 .. MaxSent
<1>1. Head(wire) \in Message /\ wire' \in Seq(Message)
  BY DEF TypeOK, Receive
<1> QED BY <1>1, MessageParts

LEMMA ReturnTypes ==
  ASSUME TypeOK, [Next]_vars
  PROVE  TypeOK'
<1>1. ASSUME NEW p \in Participants, Joined(p) PROVE TypeOK'
  <2>1. events' \in Seq(Event) /\ room' \subseteq Participants
    BY <1>1 DEF Joined, TypeOK, Event
  <2> QED BY <1>1, <2>1 DEF Joined, TypeOK, queues, livekit
<1>2. ASSUME NEW p \in Participants, Left(p) PROVE TypeOK'
  <2>1. events' \in Seq(Event) /\ room' \subseteq Participants
    BY <1>2 DEF Left, TypeOK, Event
  <2>2. entry' \in [Participants -> Sids \union {NoSid}]
    BY <1>2 DEF Left, TypeOK
  <2>3. pipe' \in [Participants -> Seq(1 .. MaxSent)] /\ source' \in [Participants -> Seq(1 .. MaxSent)]
    <3>1. /\ <<>> \in Seq(1 .. MaxSent)
          /\ pipe \in [Participants -> Seq(1 .. MaxSent)]
          /\ source \in [Participants -> Seq(1 .. MaxSent)]
      BY DEF TypeOK
    <3>2. pipe' = [pipe EXCEPT ![p] = <<>>] /\ source' = [source EXCEPT ![p] = <<>>]
      BY <1>2 DEF Left
    <3> QED BY <3>1, <3>2
  <2>4. leaving' \subseteq [pid : Participants, sid : Sids]
    BY <1>2 DEF Left, TypeOK
  <2> QED BY <1>2, <2>1, <2>2, <2>3, <2>4 DEF Left, TypeOK
<1>3. ASSUME NEW p \in Participants, Capture(p) PROVE TypeOK'
  <2>1. pipe' \in [Participants -> Seq(1 .. MaxSent)] /\ source' \in [Participants -> Seq(1 .. MaxSent)]
    <3>1. /\ pipe[p] \in Seq(1 .. MaxSent) /\ pipe[p] # <<>> /\ source[p] \in Seq(1 .. MaxSent)
          /\ pipe' = [pipe EXCEPT ![p] = Tail(pipe[p])]
          /\ source' = [source EXCEPT ![p] = Append(source[p], Head(pipe[p]))]
      BY <1>3 DEF Capture, TypeOK
    <3>2. Tail(pipe[p]) \in Seq(1 .. MaxSent) /\ Append(source[p], Head(pipe[p])) \in Seq(1 .. MaxSent)
      BY <3>1, HeadTailProperties, AppendProperties
    <3> QED BY <3>1, <3>2 DEF TypeOK
  <2> QED BY <1>3, <2>1 DEF Capture, TypeOK, hubVars, livekit
<1>4. ASSUME NEW p \in Participants, Play(p) PROVE TypeOK'
  <2>1. source' \in [Participants -> Seq(1 .. MaxSent)]
    BY <1>4 DEF Play, TypeOK
  <2> QED BY <1>4, <2>1 DEF Play, TypeOK, hubVars, livekit
<1>5. ASSUME NEW p \in Participants, NEW type \in {"audio", "flush"}, Send(p, type) PROVE TypeOK'
  <2>1. sent' \in 0 .. MaxSent
    BY <1>5, ConstantsAssumption DEF Send, TypeOK
  <2>2. [type |-> type, pid |-> p, n |-> sent + 1] \in Message
    BY <1>5, ConstantsAssumption DEF Send, TypeOK, Message
  <2>3. wire' \in Seq(Message)
    <3> DEFINE m == [type |-> type, pid |-> p, n |-> sent + 1]
    <3>1. wire' \in {wire, Append(wire, m)} /\ wire \in Seq(Message)
      BY <1>5 DEF Send, TypeOK
    <3> HIDE DEF m
    <3> QED BY <2>2, <3>1 DEF m
  <2> QED BY <1>5, <2>1, <2>3 DEF Send, TypeOK, queues, livekit
<1>6. CASE HubEvent
  <2>1. Head(events) \in Event /\ events' \in Seq(Event)
    BY <1>6 DEF HubEvent, TypeOK
  <2>2. Head(events).pid \in Participants
    BY <2>1 DEF Event
  <2>3. connected' \subseteq Participants
    BY <1>6, <2>2 DEF HubEvent, TypeOK
  <2> QED BY <1>6, <2>1, <2>3 DEF HubEvent, TypeOK, queues, livekit
<1>7. CASE DropMessage
  <2>1. wire' \in Seq(Message)
    BY <1>7, Received DEF DropMessage
  <2> QED BY <1>7, <2>1 DEF DropMessage, TypeOK, hubVars, queues, livekit
<1>8. CASE PushChunk
  <2>1. wire' \in Seq(Message) /\ pipe' \in [Participants -> Seq(1 .. MaxSent)]
    BY <1>8, Received DEF PushChunk, TypeOK
  <2> QED BY <1>8, <2>1 DEF PushChunk, TypeOK, hubVars, livekit
<1>9. CASE BeginPublish
  <2>1. wire' \in Seq(Message) /\ publishing' \in {<<>>} \union {<<m>> : m \in Message}
    BY <1>9, Received DEF BeginPublish
  <2> QED BY <1>9, <2>1 DEF BeginPublish, TypeOK, hubVars, queues, livekit
<1>10. CASE PublishFailed
  BY <1>10 DEF PublishFailed, TypeOK, hubVars, queues, livekit
<1>11. CASE Flush
  <2>1. /\ wire' \in Seq(Message)
        /\ pipe' \in [Participants -> Seq(1 .. MaxSent)] /\ source' \in [Participants -> Seq(1 .. MaxSent)]
        /\ flushed' \in [Participants -> 0 .. MaxSent]
    BY SMTT(20), <1>11, Received DEF Flush, TypeOK
  <2> QED BY <1>11, <2>1 DEF Flush, TypeOK, hubVars, livekit
<1>12. ASSUME NEW s \in Sids, Published(s) PROVE TypeOK'
  <2>1. PICK m \in Message : publishing = <<m>>
    BY <1>12 DEF Published, TypeOK
  <2>2. m.pid \in Participants /\ m.n \in 1 .. MaxSent /\ Head(publishing) = m
    BY <2>1, MessageParts
  <2>3. entry' \in [Participants -> Sids \union {NoSid}] /\ allowed' = entry'
    BY <1>12, <2>2 DEF Published, RefreshPermissions, TypeOK
  <2>4. pipe' \in [Participants -> Seq(1 .. MaxSent)]
    BY <1>12, <2>2 DEF Published, TypeOK
  <2>5. tracks' \subseteq [pid : Participants, sid : Sids]
    BY <1>12, <2>2 DEF Published, TypeOK
  <2> QED BY <1>12, <2>3, <2>4, <2>5 DEF Published, TypeOK, hubVars
<1>13. ASSUME NEW l \in leaving, Unpublish(l) PROVE TypeOK'
  BY <1>13 DEF Unpublish, RefreshPermissions, TypeOK, hubVars, queues
<1>14. CASE UNCHANGED vars
  BY <1>14 DEF vars, TypeOK, hubVars, queues, livekit
<1> QED
  BY <1>1, <1>2, <1>3, <1>4, <1>5, <1>6, <1>7, <1>8, <1>9, <1>10, <1>11, <1>12, <1>13, <1>14 DEF Next

\* The variables of ReturnAudio keep their types.
THEOREM ReturnTypesHold == Spec => []TypeOK
  BY ReturnStarts, ReturnTypes, PTL DEF Spec

LEMMA SidOfTrack ==
  ASSUME TypeOK, NEW t \in tracks \union leaving
  PROVE  t.sid \in Sids /\ t.sid \in Nat \ {0}
<1>1. t \in [pid : Participants, sid : Sids]
  BY DEF TypeOK
<1> QED BY <1>1, ConstantsAssumption DEF Sids

LEMMA TracksKeep ==
  ASSUME TypeOK, TracksInv, [Next]_vars
  PROVE  TracksInv'
<1>1. ASSUME NEW p \in Participants, Left(p) PROVE TracksInv'
  <2>1. /\ entry' = [entry EXCEPT ![p] = NoSid]
        /\ leaving' = IF entry[p] = NoSid THEN leaving ELSE leaving \union {Track(p, entry[p])}
        /\ UNCHANGED <<tracks, allowed, publishing>>
    BY <1>1 DEF Left, Track
  <2>2. \A t, u \in tracks' \union leaving' : t.sid = u.sid => t = u
    BY <2>1 DEF TracksInv
  <2>3. \A q \in Participants : entry'[q] # NoSid => Track(q, entry'[q]) \in tracks' \ leaving'
    BY <2>1 DEF TracksInv, TypeOK, Track
  <2>4. leaving' = {} => allowed' = entry'
    BY <2>1 DEF TracksInv, TypeOK
  <2>5. publishing' # <<>> => entry'[Head(publishing').pid] = NoSid
    BY <2>1 DEF TracksInv, TypeOK
  <2> QED BY <2>1, <2>2, <2>3, <2>4, <2>5 DEF TracksInv, TypeOK
<1>2. CASE BeginPublish
  <2>1. entry[Head(wire).pid] = NoSid /\ publishing' = <<Head(wire)>> /\ UNCHANGED <<entry, livekit>>
    BY <1>2 DEF BeginPublish
  <2> QED BY <2>1 DEF TracksInv, livekit
<1>3. ASSUME NEW s \in Sids, Published(s) PROVE TracksInv'
  <2>1. PICK m \in Message : publishing = <<m>>
    BY <1>3 DEF Published, TypeOK
  <2>2. m.pid \in Participants /\ Head(publishing) = m
    BY <2>1, MessageParts
  <2>3. \A t \in tracks \union leaving : t.sid < s /\ t.sid \in Nat
    BY <1>3, SidOfTrack DEF Published, Sids
  <2>4. /\ s \in Nat \ {0}
        /\ tracks' = tracks \union {Track(m.pid, s)}
        /\ entry' = [entry EXCEPT ![m.pid] = s] /\ allowed' = entry'
        /\ leaving' = leaving /\ publishing' = <<>>
    <3>1. s \in Nat \ {0}
      BY ConstantsAssumption DEF Sids
    <3> QED BY <1>3, <2>2, <3>1 DEF Published, RefreshPermissions, Track
  <2>5. \A t, u \in tracks' \union leaving' : t.sid = u.sid => t = u
    BY <2>3, <2>4 DEF TracksInv, Track
  <2>6. \A q \in Participants : entry'[q] # NoSid => Track(q, entry'[q]) \in tracks' \ leaving'
    BY SMTT(20), <2>2, <2>3, <2>4 DEF TracksInv, TypeOK, Track
  <2> QED BY <2>4, <2>5, <2>6 DEF TracksInv
<1>4. ASSUME NEW l \in leaving, Unpublish(l) PROVE TracksInv'
  <2>1. /\ leaving' = leaving \ {l} /\ tracks' \in {tracks, tracks \ {l}}
        /\ allowed' = entry /\ UNCHANGED <<entry, publishing>>
    BY <1>4 DEF Unpublish, RefreshPermissions
  <2>2. \A q \in Participants : entry[q] # NoSid => Track(q, entry[q]) \in tracks' \ leaving'
    BY <1>4, <2>1 DEF TracksInv
  <2> QED BY <2>1, <2>2 DEF TracksInv
<1>5. CASE UNCHANGED <<entry, livekit>> /\ (publishing' = publishing \/ publishing' = <<>>)
  BY <1>5 DEF TracksInv, livekit
<1> QED
  BY <1>1, <1>2, <1>3, <1>4, <1>5
  DEF Next, vars, Joined, Capture, Play, Send, HubEvent, DropMessage, PushChunk, PublishFailed, Flush

\* While departures wait for LiveKit, chunks arrive and tracks are published,
\* whoever has a track may subscribe to it and nobody to another's: for any number
\* of participants, and although LiveKit's failures leave tracks behind.
THEOREM Permissions == Spec => []PermissionsFollowTracks
<1>1. TypeOK /\ TracksInv => PermissionsFollowTracks
  <2> SUFFICES ASSUME TypeOK, TracksInv, NEW p \in Participants, NEW t \in tracks, t.sid = allowed[p]
               PROVE  t.pid = p
    BY DEF PermissionsFollowTracks, TracksInv
  <2>1. allowed[p] # NoSid
    BY SidOfTrack DEF NoSid
  <2>2. t = Track(p, allowed[p])
    BY <2>1 DEF TracksInv, Track
  <2> QED BY <2>2 DEF Track
<1> QED BY <1>1, ReturnStarts, ReturnTypes, TracksKeep, PTL DEF Spec

-----------------------------------------------------------------------------
(* No track outlives its participant.                                      *)

\* Without a race and without a failure of LiveKit, a published track is in the
\* table, of somebody who is there, or on its way out; and a track is being
\* published for nobody but who is there.
OwnedInv ==
  faults = {} =>
    /\ \A t \in tracks : t \in leaving \/ (t.pid \in room /\ entry[t.pid] = t.sid)
    /\ \A i \in DOMAIN publishing : publishing[i].pid \in room

LEMMA OwnedStarts == Init => OwnedInv
  BY DEF Init, OwnedInv

LEMMA OwnedKeeps ==
  ASSUME TypeOK, TracksInv, OwnedInv, [Next]_vars
  PROVE  OwnedInv'
<1> SUFFICES ASSUME faults' = {} PROVE OwnedInv'
  BY DEF OwnedInv
<1>0. /\ faults = {} /\ tracks \subseteq [pid : Participants, sid : Sids]
      /\ entry \in [Participants -> Sids \union {NoSid}]
  BY DEF TypeOK, Next, vars, Joined, Left, Capture, Play, Send, HubEvent, DropMessage, PushChunk,
         BeginPublish, PublishFailed, Flush, Published, Unpublish
<1>1. ASSUME NEW p \in Participants, Left(p) PROVE OwnedInv'
  <2>1. /\ room' = room \ {p} /\ entry' = [entry EXCEPT ![p] = NoSid]
        /\ \A i \in DOMAIN publishing : publishing[i].pid # p
        /\ UNCHANGED <<tracks, publishing>>
    BY <1>0, <1>1 DEF Left
  <2>2. \A t \in tracks : t.pid = p /\ entry[p] = t.sid => t \in leaving'
    <3> SUFFICES ASSUME NEW t \in tracks, t.pid = p, entry[p] = t.sid PROVE t \in leaving'
      OBVIOUS
    <3>1. t = [pid |-> p, sid |-> entry[p]] /\ t.sid # NoSid
      BY <1>0, SidOfTrack DEF NoSid
    <3> QED BY <1>1, <3>1 DEF Left
  <2>3. \A t \in tracks' : t \in leaving' \/ (t.pid \in room' /\ entry'[t.pid] = t.sid)
    <3> SUFFICES ASSUME NEW t \in tracks, t \notin leaving'
                 PROVE  t.pid \in room' /\ entry'[t.pid] = t.sid
      BY <2>1
    <3>1. t \notin leaving
      BY <1>1 DEF Left
    <3>2. t.pid \in room /\ entry[t.pid] = t.sid /\ t.pid \in Participants
      BY <1>0, <3>1 DEF OwnedInv
    <3> QED BY <1>0, <2>1, <2>2, <3>2
  <2> QED BY <1>0, <2>1, <2>3 DEF OwnedInv
<1>2. CASE BeginPublish
  <2>1. publishing' = <<Head(wire)>> /\ Head(wire).pid \in room /\ UNCHANGED <<room, entry, livekit>>
    BY <1>2 DEF BeginPublish
  <2> QED BY <1>0, <2>1 DEF OwnedInv, livekit
<1>3. ASSUME NEW s \in Sids, Published(s) PROVE OwnedInv'
  <2>1. PICK m \in Message : publishing = <<m>>
    BY <1>3 DEF Published, TypeOK
  <2>2. m.pid \in Participants /\ Head(publishing) = m /\ m.pid \in room /\ entry[m.pid] = NoSid
    BY <1>0, <2>1, MessageParts DEF OwnedInv, TracksInv
  <2>3. /\ tracks' = tracks \union {[pid |-> m.pid, sid |-> s]}
        /\ entry' = [entry EXCEPT ![m.pid] = s] /\ publishing' = <<>> /\ UNCHANGED <<room, leaving>>
    BY <1>3, <2>2 DEF Published
  <2>4. \A t \in tracks : t.pid = m.pid => t \in leaving
    BY <1>0, <2>2, SidOfTrack DEF OwnedInv, NoSid
  <2> QED BY <1>0, <2>2, <2>3, <2>4 DEF OwnedInv
<1>4. ASSUME NEW l \in leaving, Unpublish(l) PROVE OwnedInv'
  <2>1. leaving' = leaving \ {l} /\ tracks' = tracks \ {l} /\ UNCHANGED <<room, entry, publishing>>
    BY <1>0, <1>4 DEF Unpublish
  <2> QED BY <1>0, <2>1 DEF OwnedInv
<1>5. CASE /\ UNCHANGED <<entry, livekit>> /\ room \subseteq room'
           /\ publishing' = publishing \/ publishing' = <<>>
  BY <1>0, <1>5 DEF OwnedInv, livekit
<1> QED
  BY <1>1, <1>2, <1>3, <1>4, <1>5
  DEF Next, vars, Joined, Capture, Play, Send, HubEvent, DropMessage, PushChunk, PublishFailed, Flush

\* Departures that wait for LiveKit, publications that end or fail in between, and
\* participants who come back before their old track is gone leave no track
\* behind: once the handlers are done each track is the one in the table of
\* somebody in the room, unless a publication raced a departure or LiveKit failed.
THEOREM TracksOwned == Spec => []StaleTrackNeedsFault
<1>1. TypeOK /\ OwnedInv => StaleTrackNeedsFault
  BY DEF OwnedInv, StaleTrackNeedsFault, LeaversUnpublished
<1> QED BY <1>1, ReturnStarts, ReturnTypes, TracksKeep, OwnedStarts, OwnedKeeps, PTL DEF Spec

-----------------------------------------------------------------------------
(* The order of the chunks.                                                *)

Ascending(q) == \A i, j \in DOMAIN q : i < j => q[i] < q[j]

\* The message of number n is behind the agent: it was sent, and before whatever
\* the connector has still to look at.
Past(n) == n <= sent /\ \A i \in DOMAIN wire : n < wire[i].n

WireInOrder ==
  \A i \in DOMAIN wire :
    /\ wire[i].n <= sent
    /\ \A j \in DOMAIN wire : i < j => wire[i].n < wire[j].n

\* The chunks of p: those in LiveKit's queue before those in the pipe, all after
\* its last flush.
ChunksInOrder(p) ==
  /\ Past(flushed[p])
  /\ entry[p] = NoSid => source[p] = <<>> /\ pipe[p] = <<>>
  /\ Ascending(source[p]) /\ Ascending(pipe[p])
  /\ \A i \in DOMAIN source[p] : flushed[p] < source[p][i] /\ Past(source[p][i])
  /\ \A j \in DOMAIN pipe[p] : flushed[p] < pipe[p][j] /\ Past(pipe[p][j])
  /\ \A i \in DOMAIN source[p], j \in DOMAIN pipe[p] : source[p][i] < pipe[p][j]

OrderInv ==
  /\ WireInOrder
  /\ publishing # <<>> =>
       Past(Head(publishing).n) /\ \A p \in Participants : flushed[p] < Head(publishing).n
  /\ \A p \in Participants : ChunksInOrder(p)

LEMMA OrderStarts == Init => OrderInv
  BY DEF Init, OrderInv, WireInOrder, ChunksInOrder, Past, Ascending, Empty

\* What a message on the wire is to a number that is past.
LEMMA WireFacts ==
  ASSUME TypeOK
  PROVE  /\ sent \in Nat /\ Len(wire) \in Nat /\ DOMAIN wire = 1 .. Len(wire)
         /\ \A i \in DOMAIN wire : wire[i].n \in Nat /\ wire[i].pid \in Participants
<1>1. \A i \in DOMAIN wire : wire[i] \in Message
  BY DEF TypeOK
<1> QED BY <1>1, MessageParts, ConstantsAssumption DEF TypeOK

LEMMA SendKeepsPast ==
  ASSUME TypeOK, WireInOrder, NEW p \in Participants, NEW type, Send(p, type)
  PROVE  WireInOrder' /\ \A n \in Nat : Past(n) => Past(n)'
<1> DEFINE m == [type |-> type, pid |-> p, n |-> sent + 1]
<1>1. sent' = sent + 1 /\ m.n = sent + 1 /\ (wire' = wire \/ wire' = Append(wire, m))
  BY DEF Send
<1> HIDE DEF m
<1>2. CASE wire' = wire
  BY <1>1, <1>2, WireFacts DEF WireInOrder, Past
<1>3. CASE wire' = Append(wire, m)
  <2>1. /\ DOMAIN wire' = 1 .. Len(wire) + 1 /\ wire'[Len(wire) + 1] = m
        /\ \A i \in 1 .. Len(wire) : wire'[i] = wire[i]
    BY <1>3 DEF TypeOK
  <2> QED BY SMTT(20), <1>1, <2>1, WireFacts DEF WireInOrder, Past
<1> QED BY <1>1, <1>2, <1>3

LEMMA ReceiveKeepsPast ==
  ASSUME TypeOK, WireInOrder, NEW type, Receive(type), UNCHANGED sent
  PROVE  /\ WireInOrder' /\ \A n \in Nat : Past(n) => Past(n)'
         /\ Head(wire).n \in Nat /\ \A n \in Nat : n = Head(wire).n => Past(n)'
         /\ \A n \in Nat : Past(n) => n < Head(wire).n
<1>1. /\ Len(wire) \in Nat \ {0} /\ Head(wire) = wire[1]
      /\ DOMAIN wire' = 1 .. Len(wire) - 1
      /\ \A i \in 1 .. Len(wire) - 1 : wire'[i] = wire[i + 1]
  BY HeadTailProperties DEF Receive, TypeOK
<1>2. \A i \in DOMAIN wire' : i \in Nat /\ i + 1 \in DOMAIN wire /\ 1 < i + 1 /\ wire'[i] = wire[i + 1]
  BY <1>1, WireFacts
<1>3. 1 \in DOMAIN wire
  BY <1>1, WireFacts
<1>4. WireInOrder'
  <2>1. \A i, j \in DOMAIN wire' : i < j => i + 1 < j + 1
    BY <1>2
  <2> QED BY <1>2, <2>1 DEF WireInOrder
<1>5. \A n \in Nat : Past(n) => Past(n)' /\ n < Head(wire).n
  BY <1>1, <1>2, <1>3 DEF Past
<1>6. Head(wire).n \in Nat /\ \A n \in Nat : n = Head(wire).n => Past(n)'
  BY <1>1, <1>2, <1>3, WireFacts DEF Past, WireInOrder
<1> QED BY <1>4, <1>5, <1>6

\* Taking from the one queue and putting into the other.
LEMMA MoveChunk ==
  ASSUME NEW q \in Seq(Nat), NEW r \in Seq(Nat), q # <<>>,
         Ascending(q), Ascending(r), \A i \in DOMAIN r, j \in DOMAIN q : r[i] < q[j]
  PROVE  /\ Ascending(Tail(q)) /\ Ascending(Append(r, Head(q)))
         /\ \A j \in DOMAIN Tail(q) : Tail(q)[j] \in {q[i] : i \in DOMAIN q}
         /\ \A i \in DOMAIN Append(r, Head(q)) :
              Append(r, Head(q))[i] \in {r[k] : k \in DOMAIN r} \union {q[k] : k \in DOMAIN q}
         /\ \A i \in DOMAIN Append(r, Head(q)), j \in DOMAIN Tail(q) :
              Append(r, Head(q))[i] < Tail(q)[j]
<1> DEFINE t == Tail(q)  a == Append(r, Head(q))
<1>1. /\ Len(q) \in Nat \ {0} /\ Head(q) = q[1] /\ DOMAIN q = 1 .. Len(q)
      /\ DOMAIN t = 1 .. Len(q) - 1
      /\ \A i \in 1 .. Len(q) - 1 : t[i] = q[i + 1]
  BY HeadTailProperties
<1>2. /\ Len(r) \in Nat /\ DOMAIN r = 1 .. Len(r) /\ DOMAIN a = 1 .. Len(r) + 1
      /\ a[Len(r) + 1] = q[1]
      /\ \A i \in 1 .. Len(r) : a[i] = r[i]
  BY <1>1, AppendProperties
<1> HIDE DEF t, a
<1>3. Ascending(t) /\ \A j \in DOMAIN t : t[j] \in {q[i] : i \in DOMAIN q}
  <2>1. \A i \in DOMAIN t : i \in Nat /\ i + 1 \in DOMAIN q /\ t[i] = q[i + 1]
    BY <1>1
  <2>2. \A i, j \in DOMAIN t : i < j => i + 1 < j + 1
    BY <2>1
  <2> QED BY <2>1, <2>2 DEF Ascending
<1>4. \A i \in DOMAIN a : a[i] \in {r[k] : k \in DOMAIN r} \union {q[k] : k \in DOMAIN q}
  BY <1>1, <1>2
<1>5. Ascending(a)
  <2> SUFFICES ASSUME NEW i \in DOMAIN a, NEW j \in DOMAIN a, i < j PROVE a[i] < a[j]
    BY DEF Ascending
  <2>1. i \in DOMAIN r /\ 1 \in DOMAIN q
    BY <1>1, <1>2
  <2>2. CASE j \in DOMAIN r
    BY <1>2, <2>1, <2>2 DEF Ascending
  <2>3. CASE j = Len(r) + 1
    BY <1>2, <2>1, <2>3
  <2> QED BY <1>2, <2>2, <2>3
<1>6. \A i \in DOMAIN a, j \in DOMAIN t : a[i] < t[j]
  <2> SUFFICES ASSUME NEW i \in DOMAIN a, NEW j \in DOMAIN t PROVE a[i] < t[j]
    OBVIOUS
  <2>1. j + 1 \in DOMAIN q /\ 1 \in DOMAIN q /\ 1 < j + 1 /\ t[j] = q[j + 1]
    BY <1>1
  <2>2. CASE i \in DOMAIN r
    BY <1>2, <2>1, <2>2
  <2>3. CASE i = Len(r) + 1
    BY <1>2, <2>1, <2>3 DEF Ascending
  <2> QED BY <1>2, <2>2, <2>3
<1> QED BY <1>3, <1>4, <1>5, <1>6 DEF t, a

\* Numbers in the queues are numbers.
LEMMA QueueFacts ==
  ASSUME TypeOK, NEW p \in Participants
  PROVE  /\ pipe[p] \in Seq(Nat) /\ source[p] \in Seq(Nat) /\ flushed[p] \in Nat
         /\ \A i \in DOMAIN pipe[p] : pipe[p][i] \in Nat
         /\ \A i \in DOMAIN source[p] : source[p][i] \in Nat
<1>1. pipe[p] \in Seq(1 .. MaxSent) /\ source[p] \in Seq(1 .. MaxSent) /\ flushed[p] \in 0 .. MaxSent
  BY DEF TypeOK
<1>2. 1 .. MaxSent \subseteq Nat /\ 0 .. MaxSent \subseteq Nat
  BY ConstantsAssumption
<1>3. pipe[p] \in Seq(Nat) /\ source[p] \in Seq(Nat)
  BY <1>1, <1>2, SeqMonotonic
<1> QED BY <1>1, <1>2, <1>3

\* The chunks of somebody to whom nothing happens.
LEMMA OthersKeep ==
  ASSUME TypeOK, NEW p \in Participants, ChunksInOrder(p), \A n \in Nat : Past(n) => Past(n)',
         pipe'[p] = pipe[p], source'[p] = source[p], flushed'[p] = flushed[p], entry'[p] = entry[p]
  PROVE  ChunksInOrder(p)'
  BY QueueFacts DEF ChunksInOrder, Ascending

LEMMA CaptureKeeps ==
  ASSUME TypeOK, OrderInv, NEW p \in Participants, Capture(p)
  PROVE  OrderInv'
<1>1. /\ UNCHANGED <<sent, wire, publishing, entry, flushed>>
      /\ \A q \in Participants \ {p} : pipe'[q] = pipe[q] /\ source'[q] = source[q]
      /\ pipe[p] # <<>> /\ pipe'[p] = Tail(pipe[p])
      /\ source'[p] = Append(source[p], Head(pipe[p]))
  BY DEF Capture, TypeOK, hubVars
<1>2. \A n \in Nat : Past(n) => Past(n)'
  BY <1>1 DEF Past
<1>3. /\ pipe[p] \in Seq(Nat) /\ source[p] \in Seq(Nat)
      /\ ChunksInOrder(p)
  BY QueueFacts DEF OrderInv
<1>4. /\ Ascending(pipe'[p]) /\ Ascending(source'[p])
      /\ \A j \in DOMAIN pipe'[p] : pipe'[p][j] \in {pipe[p][i] : i \in DOMAIN pipe[p]}
      /\ \A i \in DOMAIN source'[p] :
           source'[p][i] \in {source[p][k] : k \in DOMAIN source[p]} \union {pipe[p][k] : k \in DOMAIN pipe[p]}
      /\ \A i \in DOMAIN source'[p], j \in DOMAIN pipe'[p] : source'[p][i] < pipe'[p][j]
  BY <1>1, <1>3, MoveChunk DEF ChunksInOrder
<1>5. entry[p] # NoSid
  BY <1>1, <1>3 DEF ChunksInOrder
<1>6. ChunksInOrder(p)'
  BY <1>1, <1>2, <1>3, <1>4, <1>5, QueueFacts DEF ChunksInOrder, Ascending
<1>7. \A q \in Participants \ {p} : ChunksInOrder(q)'
  BY <1>1, <1>2, OthersKeep DEF OrderInv
<1> QED BY <1>1, <1>2, <1>6, <1>7 DEF OrderInv, WireInOrder, Past

LEMMA PlayKeeps ==
  ASSUME TypeOK, OrderInv, NEW p \in Participants, Play(p)
  PROVE  OrderInv'
<1>1. /\ UNCHANGED <<sent, wire, publishing, entry, flushed, pipe>>
      /\ \A q \in Participants \ {p} : source'[q] = source[q]
      /\ source[p] # <<>> /\ source'[p] = Tail(source[p])
  BY DEF Play, TypeOK, hubVars, livekit
<1>2. \A n \in Nat : Past(n) => Past(n)'
  BY <1>1 DEF Past
<1>3. ChunksInOrder(p) /\ source[p] \in Seq(Nat)
  BY QueueFacts DEF OrderInv
<1>4. /\ \A i \in DOMAIN source'[p] : i \in Nat /\ i + 1 \in DOMAIN source[p] /\ source'[p][i] = source[p][i + 1]
      /\ \A i, j \in DOMAIN source'[p] : i < j => i + 1 < j + 1
  BY SMTT(20), <1>1, <1>3, HeadTailProperties
<1>5. ChunksInOrder(p)'
  BY <1>1, <1>2, <1>3, <1>4, QueueFacts DEF ChunksInOrder, Ascending
<1>6. \A q \in Participants \ {p} : ChunksInOrder(q)'
  BY <1>1, <1>2, OthersKeep DEF OrderInv
<1> QED BY <1>1, <1>2, <1>5, <1>6 DEF OrderInv, WireInOrder, Past

\* The steps of the receive loop that take a message.
LEMMA ReceiveKeeps ==
  ASSUME TypeOK, TracksInv, OrderInv, DropMessage \/ PushChunk \/ BeginPublish \/ Flush
  PROVE  OrderInv'
<1> DEFINE Now(n) == n <= sent' /\ \A i \in DOMAIN wire' : n < wire'[i].n
<1>1. PICK type : Receive(type) /\ UNCHANGED sent
  BY DEF DropMessage, PushChunk, BeginPublish, Flush, hubVars
<1>2. PICK m \in Message : m = Head(wire)
  BY <1>1, Received
<1>8. publishing = <<>> /\ m.pid \in Participants
  BY <1>1, <1>2, Received DEF Receive
<1>3. /\ WireInOrder' /\ m.n \in Nat
      /\ \A n \in Nat : Past(n) => Past(n)' /\ n < m.n
      /\ Now(m.n)
      /\ \A n \in Nat : Past(n) => Now(n)
  <2>1. /\ WireInOrder' /\ m.n \in Nat
        /\ \A n \in Nat : Past(n) => Past(n)' /\ n < m.n
        /\ \A n \in Nat : n = m.n => Past(n)'
    BY <1>1, <1>2, ReceiveKeepsPast DEF OrderInv
  <2> QED BY <2>1 DEF Past
<1> HIDE DEF Now
<1>4. CASE DropMessage
  <2>1. UNCHANGED <<publishing, entry, pipe, source, flushed>>
    BY <1>4 DEF DropMessage, queues, livekit
  <2>2. \A p \in Participants : ChunksInOrder(p)'
    BY <1>3, <2>1, OthersKeep DEF OrderInv
  <2> QED BY <1>2, <1>8, <1>3, <2>1, <2>2 DEF OrderInv
<1>5. CASE BeginPublish
  <2>1. UNCHANGED <<entry, pipe, source, flushed>> /\ publishing' = <<m>>
    BY <1>2, <1>5 DEF BeginPublish, queues, livekit
  <2>2. \A p \in Participants : ChunksInOrder(p)'
    BY <1>3, <2>1, OthersKeep DEF OrderInv
  <2>3. \A p \in Participants : flushed'[p] < m.n
    BY <1>3, <2>1, QueueFacts DEF OrderInv, ChunksInOrder
  <2>4. Past(Head(publishing).n)'
    BY <1>3, <2>1 DEF Past, Now
  <2> QED BY <1>3, <2>1, <2>2, <2>3, <2>4 DEF OrderInv
<1>6. CASE PushChunk
  <2>1. /\ UNCHANGED <<publishing, entry, source, flushed>> /\ entry[m.pid] # NoSid
        /\ \A q \in Participants \ {m.pid} : pipe'[q] = pipe[q]
        /\ pipe'[m.pid] = Append(pipe[m.pid], m.n)
    BY <1>2, <1>6, <1>8 DEF PushChunk, livekit, TypeOK
  <2>2. ChunksInOrder(m.pid) /\ pipe[m.pid] \in Seq(Nat)
    BY <1>8, QueueFacts DEF OrderInv
  <2>3. /\ DOMAIN pipe'[m.pid] = (DOMAIN pipe[m.pid]) \union {Len(pipe[m.pid]) + 1}
        /\ DOMAIN pipe[m.pid] = 1 .. Len(pipe[m.pid]) /\ Len(pipe[m.pid]) \in Nat
        /\ \A i \in DOMAIN pipe[m.pid] : pipe'[m.pid][i] = pipe[m.pid][i]
        /\ pipe'[m.pid][Len(pipe[m.pid]) + 1] = m.n
    BY SMTT(20), <1>3, <2>1, <2>2, AppendProperties
  <2>4. /\ \A i \in DOMAIN pipe[m.pid] : pipe[m.pid][i] < m.n
        /\ \A i \in DOMAIN source[m.pid] : source[m.pid][i] < m.n
        /\ flushed[m.pid] < m.n
    BY <1>2, <1>8, <1>3, <2>2, QueueFacts DEF ChunksInOrder
  <2>5. ChunksInOrder(m.pid)'
    <3>1. Ascending(pipe'[m.pid])
      <4>1. SUFFICES ASSUME NEW i \in DOMAIN pipe'[m.pid], NEW j \in DOMAIN pipe'[m.pid], i < j
                     PROVE  pipe'[m.pid][i] < pipe'[m.pid][j]
        BY DEF Ascending
      <4>2. i \in DOMAIN pipe[m.pid] /\ pipe'[m.pid][i] = pipe[m.pid][i]
        BY <2>3, <4>1
      <4>3. CASE j = Len(pipe[m.pid]) + 1
        BY <2>3, <2>4, <4>2, <4>3
      <4>4. CASE j \in DOMAIN pipe[m.pid]
        <5>1. pipe[m.pid][i] < pipe[m.pid][j]
          BY <2>2, <4>1, <4>2, <4>4 DEF ChunksInOrder, Ascending
        <5> QED BY <2>3, <4>2, <4>4, <5>1
      <4> QED BY <2>3, <4>3, <4>4
    <3>2. /\ \A j \in DOMAIN pipe'[m.pid] : flushed[m.pid] < pipe'[m.pid][j] /\ Now(pipe'[m.pid][j])
          /\ \A i \in DOMAIN source[m.pid], j \in DOMAIN pipe'[m.pid] : source[m.pid][i] < pipe'[m.pid][j]
      <4>1. ASSUME NEW j \in DOMAIN pipe'[m.pid]
            PROVE  (j \in DOMAIN pipe[m.pid] /\ pipe'[m.pid][j] = pipe[m.pid][j]) \/ pipe'[m.pid][j] = m.n
        BY <2>3
      <4>2. /\ \A j \in DOMAIN pipe[m.pid] : flushed[m.pid] < pipe[m.pid][j] /\ Now(pipe[m.pid][j])
            /\ \A i \in DOMAIN source[m.pid], j \in DOMAIN pipe[m.pid] : source[m.pid][i] < pipe[m.pid][j]
        BY <1>2, <1>3, <1>8, <2>2, QueueFacts DEF ChunksInOrder
      <4>3. Now(m.n)
        BY <1>3
      <4> QED BY <2>4, <4>1, <4>2, <4>3, Zenon
    <3>3. /\ \A i \in DOMAIN source[m.pid] : flushed[m.pid] < source[m.pid][i] /\ Now(source[m.pid][i])
          /\ Now(flushed[m.pid])
      BY <1>2, <1>8, <1>3, <2>1, <2>2, QueueFacts DEF ChunksInOrder
    <3> QED BY <2>1, <2>2, <3>1, <3>2, <3>3 DEF ChunksInOrder, Ascending, Past, Now
  <2>6. \A q \in Participants \ {m.pid} : ChunksInOrder(q)'
    BY <1>3, <2>1, OthersKeep DEF OrderInv
  <2> QED BY <1>2, <1>8, <1>3, <2>1, <2>5, <2>6 DEF OrderInv
<1>7. CASE Flush
  <2>1. /\ UNCHANGED <<publishing, entry>>
        /\ \A q \in Participants \ {m.pid} :
             pipe'[q] = pipe[q] /\ source'[q] = source[q] /\ flushed'[q] = flushed[q]
        /\ pipe'[m.pid] = <<>> /\ source'[m.pid] = <<>> /\ flushed'[m.pid] = m.n
    BY <1>2, <1>7, <1>8 DEF Flush, livekit, TypeOK
  <2>2. ChunksInOrder(m.pid)'
    BY <1>3, <2>1 DEF ChunksInOrder, Ascending, Past, Now
  <2>3. \A q \in Participants \ {m.pid} : ChunksInOrder(q)'
    BY <1>3, <2>1, OthersKeep DEF OrderInv
  <2> QED BY <1>2, <1>8, <1>3, <2>1, <2>2, <2>3 DEF OrderInv
<1> QED BY <1>4, <1>5, <1>6, <1>7

\* Two queues, one after the other.
LEMMA ConcatAscending ==
  ASSUME NEW s \in Seq(Nat), NEW q \in Seq(Nat), NEW n \in Nat,
         Ascending(s), Ascending(q), \A i \in DOMAIN s, j \in DOMAIN q : s[i] < q[j],
         \A i \in DOMAIN s : n < s[i], \A j \in DOMAIN q : n < q[j]
  PROVE  Ascending(s \o q) /\ \A k \in DOMAIN (s \o q) : (s \o q)[k] > n
<1> DEFINE w == s \o q
<1>1. /\ Len(s) \in Nat /\ DOMAIN s = 1 .. Len(s) /\ Len(q) \in Nat /\ DOMAIN q = 1 .. Len(q)
      /\ w \in Seq(Nat) /\ Len(w) = Len(s) + Len(q) /\ DOMAIN w = 1 .. Len(w)
      /\ \A k \in DOMAIN s : s[k] \in Nat
      /\ \A k \in DOMAIN q : q[k] \in Nat
  OBVIOUS
<1>2. \A k \in 1 .. Len(s) + Len(q) : w[k] = IF k <= Len(s) THEN s[k] ELSE q[k - Len(s)]
  BY ConcatProperties
<1> HIDE DEF w
<1>3. /\ \A k \in DOMAIN w : k \in Nat
      /\ \A k \in DOMAIN s : k \in DOMAIN w => w[k] = s[k]
      /\ \A k \in DOMAIN w \ DOMAIN s :
           k > Len(s) /\ k - Len(s) \in DOMAIN q /\ w[k] = q[k - Len(s)]
  BY SMTT(20), <1>1, <1>2
<1>4. \A k \in DOMAIN w : w[k] > n
  BY <1>1, <1>3
<1>5. ASSUME NEW i \in DOMAIN w, NEW j \in DOMAIN w, i < j PROVE w[i] < w[j]
  <2>1. CASE i \in DOMAIN s /\ j \in DOMAIN s
    BY <1>3, <1>5, <2>1 DEF Ascending
  <2>2. CASE i \in DOMAIN s /\ j \notin DOMAIN s
    <3>1. w[i] = s[i] /\ j - Len(s) \in DOMAIN q /\ w[j] = q[j - Len(s)]
      BY <1>3, <2>2
    <3> QED BY <2>2, <3>1
  <2>3. CASE i \notin DOMAIN s
    <3>1. i \in Nat /\ j \in Nat /\ i > Len(s)
      BY <1>3, <2>3
    <3>2. j \notin DOMAIN s /\ i - Len(s) < j - Len(s)
      BY <1>1, <1>5, <3>1
    <3>3. /\ i - Len(s) \in DOMAIN q /\ w[i] = q[i - Len(s)]
          /\ j - Len(s) \in DOMAIN q /\ w[j] = q[j - Len(s)]
      BY <1>3, <2>3, <3>2
    <3> QED BY <3>2, <3>3 DEF Ascending
  <2> QED BY <2>1, <2>2, <2>3
<1> QED BY <1>4, <1>5 DEF Ascending, w

LEMMA PublishedKeeps ==
  ASSUME TypeOK, TracksInv, OrderInv, NEW s \in Sids, Published(s)
  PROVE  OrderInv'
<1>1. PICK m \in Message : publishing = <<m>>
  BY DEF Published, TypeOK
<1>2. m.pid \in Participants /\ Head(publishing) = m /\ m.n \in Nat
  BY <1>1, MessageParts, ConstantsAssumption
<1>3. /\ UNCHANGED <<sent, wire, source, flushed>> /\ publishing' = <<>>
      /\ \A q \in Participants \ {m.pid} : pipe'[q] = pipe[q] /\ entry'[q] = entry[q]
      /\ pipe'[m.pid] = <<m.n>> /\ entry'[m.pid] = s
  BY <1>2 DEF Published, hubVars, TypeOK
<1>4. source[m.pid] = <<>> /\ s # NoSid
  BY <1>1, <1>2, ConstantsAssumption DEF TracksInv, OrderInv, ChunksInOrder, Sids, NoSid
<1>5. Past(m.n) /\ flushed[m.pid] < m.n
  BY <1>1, <1>2 DEF OrderInv
<1>6. ChunksInOrder(m.pid)'
  BY <1>2, <1>3, <1>4, <1>5 DEF OrderInv, ChunksInOrder, Ascending, Past
<1>7. \A q \in Participants \ {m.pid} : ChunksInOrder(q)'
  <2>1. \A n \in Nat : Past(n) => Past(n)'
    BY <1>3 DEF Past
  <2> QED BY <1>3, <2>1, OthersKeep DEF OrderInv
<1> QED BY <1>2, <1>3, <1>6, <1>7 DEF OrderInv, WireInOrder

LEMMA OrderKeeps ==
  ASSUME TypeOK, TracksInv, OrderInv, [Next]_vars
  PROVE  OrderInv'
<1>1. ASSUME NEW p \in Participants, Left(p) PROVE OrderInv'
  <2>1. /\ UNCHANGED <<sent, wire, publishing, flushed>>
        /\ \A q \in Participants \ {p} :
             pipe'[q] = pipe[q] /\ source'[q] = source[q] /\ entry'[q] = entry[q]
        /\ pipe'[p] = <<>> /\ source'[p] = <<>>
    BY <1>1 DEF Left, TypeOK
  <2>2. \A n \in Nat : Past(n) => Past(n)'
    BY <2>1 DEF Past
  <2>3. ChunksInOrder(p)'
    BY <2>1 DEF OrderInv, ChunksInOrder, Ascending, Past
  <2>4. \A q \in Participants \ {p} : ChunksInOrder(q)'
    BY <2>1, <2>2, OthersKeep DEF OrderInv
  <2> QED BY <2>1, <2>3, <2>4 DEF OrderInv, WireInOrder, Past
<1>2. ASSUME NEW p \in Participants, NEW type \in {"audio", "flush"}, Send(p, type) PROVE OrderInv'
  <2>1. UNCHANGED <<publishing, entry, pipe, source, flushed>>
    BY <1>2 DEF Send, queues, livekit
  <2>2. WireInOrder' /\ \A n \in Nat : Past(n) => Past(n)'
    BY <1>2, SendKeepsPast DEF OrderInv
  <2>3. \A q \in Participants : ChunksInOrder(q)'
    BY <2>1, <2>2, OthersKeep DEF OrderInv
  <2>4. publishing # <<>> => Past(Head(publishing).n)'
    <3>1. publishing # <<>> => Head(publishing).n \in Nat
      BY MessageParts, ConstantsAssumption DEF TypeOK
    <3> QED BY <2>1, <2>2, <3>1 DEF OrderInv, Past
  <2> QED BY <2>1, <2>2, <2>3, <2>4 DEF OrderInv
<1>3. CASE UNCHANGED <<sent, wire, entry, pipe, source, flushed>> /\ publishing' \in {publishing, <<>>}
  BY <1>3 DEF OrderInv, WireInOrder, ChunksInOrder, Past, Ascending
<1> QED
  BY <1>1, <1>2, <1>3, CaptureKeeps, PlayKeeps, ReceiveKeeps, PublishedKeeps
  DEF Next, vars, hubVars, queues, livekit, Joined, HubEvent, PublishFailed, Unpublish

\* Interrupting an agent: what waits to be played to a participant was sent after
\* the last flush for it that was handled, and is in the order it was sent in, also
\* when the flush arrives while the track is being published or the participant has
\* left and come back.
THEOREM FlushedBacklog == Spec => []FlushDropsBacklog
<1>1. TypeOK /\ OrderInv => FlushDropsBacklog
  <2> SUFFICES ASSUME TypeOK, OrderInv, NEW p \in Participants,
                      NEW i \in DOMAIN (source[p] \o pipe[p])
               PROVE  /\ (source[p] \o pipe[p])[i] > flushed[p]
                      /\ \A j \in DOMAIN (source[p] \o pipe[p]) :
                           i < j => (source[p] \o pipe[p])[i] < (source[p] \o pipe[p])[j]
    BY DEF FlushDropsBacklog
  <2>1. /\ source[p] \in Seq(Nat) /\ pipe[p] \in Seq(Nat) /\ flushed[p] \in Nat
        /\ ChunksInOrder(p)
    BY QueueFacts DEF OrderInv
  <2>2. /\ Ascending(source[p] \o pipe[p])
        /\ \A k \in DOMAIN (source[p] \o pipe[p]) : (source[p] \o pipe[p])[k] > flushed[p]
    BY <2>1, ConcatAscending DEF ChunksInOrder
  <2> QED BY <2>2 DEF Ascending
<1> QED
  BY <1>1, ReturnStarts, ReturnTypes, TracksKeep, OrderStarts, OrderKeeps, PTL DEF Spec

-----------------------------------------------------------------------------
(* The recorder: whose directory a chunk is in.                            *)

Resolution == {"none"} \union UNION {Sizes[p] : p \in Pids}
EncoderTrack == [enc : BOOLEAN, failed : BOOLEAN, buf : Seq(Nat), frames : Nat, start : Nat,
          size : Resolution, last : Int, dir : Nat]
ChunkFile == [pid : Pids, dir : Nat, start : Nat, frames : Seq(Nat),
              data : BOOLEAN, meta : BOOLEAN, end : Nat, num : Nat]
FlushJobs == [at : {"data", "fill", "meta", "prune"}, pid : Pids, chunk : EncoderTrack, size : Resolution, now : Nat]

CallFields == {"at", "op", "pid", "dir", "from", "to", "left", "metas", "got", "sure"}

RecorderTypes ==
  /\ clock \in Nat
  /\ encoders \in [Pids -> EncoderTrack]
  /\ dirs \in Seq(Pids \union {"none"})
  /\ files \subseteq ChunkFile
  /\ job \in FlushJobs \union {NoJob}
  /\ recorded \subseteq Pids \X Nat
  /\ reader.at # "idle" => CallFields \subseteq DOMAIN reader

OwnedBy(d, p) == d \in DOMAIN dirs /\ dirs[d] = p

\* What a track, a flush, a file and a call at the server say of a directory is what
\* its .identity says.
OwnerInv ==
  /\ \A p \in Pids : encoders[p] # NoTrack => OwnedBy(encoders[p].dir, p)
  /\ job.at # "idle" =>
       /\ OwnedBy(job.chunk.dir, job.pid)
       /\ job.size # "none" => OwnedBy(encoders[job.pid].dir, job.pid)
  /\ \A f \in files : OwnedBy(f.dir, f.pid)
  /\ reader.at # "idle" => reader.pid \in Pids /\ OwnedBy(reader.dir, reader.pid)

\* A set of numbers has a least one where it has any.
LEMMA LeastOfAll ==
  ASSUME NEW S \in SUBSET Nat, NEW n \in S
  PROVE  \E x \in S : \A y \in S : x <= y
<1> DEFINE Less == OpToRel(<, Nat)
<1>1. IsWellFoundedOn(Less, Nat)
  BY NatLessThanWellFounded
<1>2. \A x, y \in Nat : y < x => << y, x >> \in Less
  BY DEF OpToRel
<1> HIDE DEF Less
<1>3. PICK x \in S : \A y \in S : << y, x >> \notin Less
  BY <1>1, WFMin
<1>4. ASSUME NEW y \in S PROVE x <= y
  <2>1. x \in Nat /\ y \in Nat
    OBVIOUS
  <2>2. ~ (y < x)
    BY <1>2, <1>3, <2>1
  <2> QED BY <2>1, <2>2
<1> QED BY <1>4

LEMMA LeastNumber ==
  ASSUME NEW S \in SUBSET Nat, NEW n \in S
  PROVE  Min(S) \in S
BY LeastOfAll DEF Min

\* _resolve_or_create_subdir gives p a directory, and takes none from anybody.
LEMMA Resolved ==
  ASSUME dirs \in Seq(Pids \union {"none"}), NEW p \in Pids
  PROVE  /\ Resolve(p)[1] \in Nat
         /\ Resolve(p)[2] \in Seq(Pids \union {"none"})
         /\ Resolve(p)[1] \in DOMAIN Resolve(p)[2]
         /\ Resolve(p)[2][Resolve(p)[1]] = p
         /\ \A i \in DOMAIN dirs : i \in DOMAIN Resolve(p)[2] /\ (dirs[i] \in Pids => Resolve(p)[2][i] = dirs[i])
<1> DEFINE ok(k) == dirs[k] = p \/ (k = 1 /\ dirs[k] = "none" /\ p \in Plain)
           fit   == {i \in Dirs : ok(i)}
           k     == IF \E i \in Dirs : ok(i) THEN Min(fit) ELSE Len(dirs) + 1
           new   == IF k \in Dirs THEN [dirs EXCEPT ![k] = p] ELSE Append(dirs, p)
<1>1. Resolve(p) = << k, new >>
  BY DEF Resolve
<1>2. Dirs = 1 .. Len(dirs) /\ Len(dirs) \in Nat
  BY DEF Dirs
<1>3. CASE \E i \in Dirs : ok(i)
  <2>1. Min(fit) \in fit
    <3>1. fit \in SUBSET Nat /\ \E i : i \in fit
      BY <1>2, <1>3
    <3> HIDE DEF fit
    <3> QED BY <3>1, LeastNumber
  <2>2. k = Min(fit)
    BY <1>3
  <2>3. k \in Dirs /\ (dirs[k] = p \/ dirs[k] = "none")
    BY <2>1, <2>2
  <2> HIDE DEF k
  <2>4. new = [dirs EXCEPT ![k] = p]
    BY <2>3
  <2>5. "none" \notin Pids
    BY RecordingAssumption
  <2>6. /\ new \in Seq(Pids \union {"none"}) /\ DOMAIN new = DOMAIN dirs /\ new[k] = p
        /\ \A i \in DOMAIN dirs : i # k => new[i] = dirs[i]
    BY <1>2, <2>3, <2>4 DEF Dirs
  <2> QED BY <1>1, <1>2, <2>3, <2>5, <2>6 DEF Dirs
<1>4. CASE ~ \E i \in Dirs : ok(i)
  <2>1. k = Len(dirs) + 1
    BY <1>4
  <2>2. new = Append(dirs, p)
    BY <1>2, <2>1
  <2> HIDE DEF k, new
  <2>3. /\ new \in Seq(Pids \union {"none"}) /\ DOMAIN new = 1 .. Len(dirs) + 1 /\ new[Len(dirs) + 1] = p
        /\ \A i \in DOMAIN dirs : new[i] = dirs[i]
    BY <2>2
  <2> QED BY <1>1, <1>2, <2>1, <2>3 DEF Dirs
<1> QED BY <1>3, <1>4

LEMMA TracksTyped == NoTrack \in EncoderTrack /\ NoTrack.buf = << >> /\ NoTrack.last < 0 /\ NoTrack.enc = FALSE
  BY RecordingAssumption DEF NoTrack, EncoderTrack, Resolution

\* A track with one field changed is a track; several are changed one after another.
LEMMA FieldTyped ==
  ASSUME NEW t \in EncoderTrack
  PROVE  /\ \A v \in BOOLEAN : [t EXCEPT !.enc = v] \in EncoderTrack /\ [t EXCEPT !.failed = v] \in EncoderTrack
         /\ \A v \in Seq(Nat) : [t EXCEPT !.buf = v] \in EncoderTrack
         /\ \A v \in Nat : [t EXCEPT !.frames = v] \in EncoderTrack /\ [t EXCEPT !.start = v] \in EncoderTrack
         /\ \A v \in Nat : [t EXCEPT !.dir = v] \in EncoderTrack
         /\ \A v \in Int : [t EXCEPT !.last = v] \in EncoderTrack
         /\ \A v \in Resolution : [t EXCEPT !.size = v] \in EncoderTrack
         /\ t.buf \in Seq(Nat) /\ t.enc \in BOOLEAN /\ {t.frames, t.start, t.dir} \subseteq Nat
         /\ t.last \in Int
<1> USE DEF EncoderTrack
<1>1. \A v \in BOOLEAN : [t EXCEPT !.enc = v] \in EncoderTrack
  OBVIOUS
<1>2. \A v \in BOOLEAN : [t EXCEPT !.failed = v] \in EncoderTrack
  OBVIOUS
<1>3. \A v \in Seq(Nat) : [t EXCEPT !.buf = v] \in EncoderTrack
  OBVIOUS
<1>4. \A v \in Nat : [t EXCEPT !.frames = v] \in EncoderTrack
  OBVIOUS
<1>5. \A v \in Nat : [t EXCEPT !.start = v] \in EncoderTrack
  OBVIOUS
<1>6. \A v \in Nat : [t EXCEPT !.dir = v] \in EncoderTrack
  OBVIOUS
<1>7. \A v \in Int : [t EXCEPT !.last = v] \in EncoderTrack
  OBVIOUS
<1>8. \A v \in Resolution : [t EXCEPT !.size = v] \in EncoderTrack
  OBVIOUS
<1>9. t.buf \in Seq(Nat) /\ t.enc \in BOOLEAN /\ {t.frames, t.start, t.dir} \subseteq Nat /\ t.last \in Int
  OBVIOUS
<1> HIDE DEF EncoderTrack
<1> QED BY <1>1, <1>2, <1>3, <1>4, <1>5, <1>6, <1>7, <1>8, <1>9

LEMMA StartedTyped ==
  ASSUME clock \in Nat, NEW t \in EncoderTrack, NEW size \in Resolution, NEW now \in Nat
  PROVE  /\ Started(t, size, now) \in EncoderTrack
         /\ Started(t, size, now).buf = << now >> /\ Started(t, size, now).start = clock
         /\ Started(t, size, now).dir = t.dir /\ Started(t, size, now).last = t.last
         /\ Started(t, size, now).enc = TRUE
<1> DEFINE t1 == [t EXCEPT !.enc = TRUE]
           t2 == [t1 EXCEPT !.size = size]
           t3 == [t2 EXCEPT !.start = clock]
           t4 == [t3 EXCEPT !.buf = << now >>]
           t5 == [t4 EXCEPT !.frames = 1]
<1>1. Started(t, size, now) = t5
  BY DEF Started
<1>2. t1 \in EncoderTrack
  BY FieldTyped
<1>3. t2 \in EncoderTrack
  BY <1>2, FieldTyped
<1>4. t3 \in EncoderTrack
  BY <1>3, FieldTyped
<1>5. t4 \in EncoderTrack
  <2>1. << now >> \in Seq(Nat)
    OBVIOUS
  <2> HIDE DEF t3
  <2> QED BY <1>4, <2>1, FieldTyped
<1>6. t5 \in EncoderTrack
  <2> HIDE DEF t4
  <2> QED BY <1>5, FieldTyped
<1>7. /\ Started(t, size, now).buf = << now >> /\ Started(t, size, now).start = clock
      /\ Started(t, size, now).dir = t.dir /\ Started(t, size, now).last = t.last
      /\ Started(t, size, now).enc = TRUE
  BY DEF Started, EncoderTrack
<1> QED BY <1>1, <1>6, <1>7

\* The track of p becomes t: its directory is the one it had, or none.
Becomes(p, t) ==
  /\ encoders' = [encoders EXCEPT ![p] = t]
  /\ t \in EncoderTrack
  /\ t = NoTrack \/ (encoders[p] # NoTrack /\ t.dir = encoders[p].dir)

LEMMA EncodeBecomes ==
  ASSUME RecorderTypes, NEW p \in Pids, NEW s, Encode(p, s)
  PROVE  Becomes(p, encoders'[p])
<1>1. encoders[p] \in EncoderTrack /\ encoders[p] # NoTrack /\ clock \in Nat
  BY DEF RecorderTypes, Encode, Sampled
<1>2. CASE encoders[p].enc
  <2> DEFINE t == [encoders[p] EXCEPT !.buf = Append(@, clock), !.frames = @ + 1, !.last = clock]
  <2>1. encoders' = [encoders EXCEPT ![p] = t]
    BY <1>2 DEF Encode
  <2>2. t \in EncoderTrack /\ t.dir = encoders[p].dir
    <3> DEFINE u == [encoders[p] EXCEPT !.buf = Append(@, clock)]
               v == [u EXCEPT !.frames = @ + 1]
    <3>1. Append(encoders[p].buf, clock) \in Seq(Nat) /\ encoders[p].frames + 1 \in Nat
      BY <1>1, FieldTyped
    <3>2. u \in EncoderTrack /\ u.frames = encoders[p].frames
      BY <1>1, <3>1, FieldTyped DEF EncoderTrack
    <3>3. v \in EncoderTrack
      BY <3>1, <3>2, FieldTyped
    <3>4. t = [v EXCEPT !.last = clock] /\ clock \in Int
      BY <1>1
    <3>5. t \in EncoderTrack
      <4> HIDE DEF v, t
      <4> QED BY <3>3, <3>4, FieldTyped
    <3>6. t.dir = encoders[p].dir
      BY <1>1 DEF EncoderTrack
    <3> QED BY <3>5, <3>6
  <2> HIDE DEF t
  <2> QED BY <1>1, <2>1, <2>2 DEF Becomes, RecorderTypes
<1>3. CASE ~ encoders[p].enc
  <2> DEFINE t == [encoders[p] EXCEPT !.last = clock]
  <2>1. encoders' = [encoders EXCEPT ![p] = t]
    BY <1>3 DEF Encode
  <2>2. t \in EncoderTrack /\ t.dir = encoders[p].dir
    <3>1. t \in EncoderTrack
      BY <1>1, FieldTyped
    <3> QED BY <1>1, <3>1 DEF EncoderTrack
  <2> HIDE DEF t
  <2> QED BY <1>1, <2>1, <2>2 DEF Becomes, RecorderTypes
<1> QED BY <1>2, <1>3

LEMMA CloseBecomes ==
  ASSUME RecorderTypes, NEW p \in Pids, NEW s \in Sizes[p], Close(p, s)
  PROVE  /\ Becomes(p, encoders'[p])
         /\ job' \in FlushJobs /\ job'.pid = p /\ job'.chunk = encoders'[p]
         /\ job'.at = "data" /\ job'.size = s /\ job'.now = clock
         /\ encoders'[p].start = encoders[p].start /\ encoders'[p].last = clock
         /\ wentWrong' \subseteq {"encoder"} => encoders'[p].buf = encoders[p].buf /\ wentWrong' = wentWrong
         /\ encoders[p].buf # << >> /\ encoders'[p].buf # << >>
<1>1. PICK k \in DOMAIN encoders[p].buf :
        LET t == [encoders[p] EXCEPT !.buf = SubSeq(@, 1, k), !.last = clock, !.enc = @ /\ encoders[p].size = s] IN
        /\ EndEncode(encoders[p], t.buf)
        /\ encoders' = [encoders EXCEPT ![p] = t]
        /\ job' = FlushJob(p, t, s)
  BY DEF Close
<1> DEFINE t == [encoders[p] EXCEPT !.buf = SubSeq(@, 1, k), !.last = clock, !.enc = @ /\ encoders[p].size = s]
<1>2. encoders[p] \in EncoderTrack /\ encoders[p] # NoTrack /\ clock \in Nat /\ s \in Resolution
  BY DEF RecorderTypes, Close, Sampled, Resolution
<1>3. SubSeq(encoders[p].buf, 1, k) \in Seq(Nat) /\ encoders[p].buf \in Seq(Nat) /\ encoders[p].enc \in BOOLEAN
  <2>1. encoders[p].buf \in Seq(Nat) /\ encoders[p].enc \in BOOLEAN
    BY <1>2 DEF EncoderTrack
  <2> QED BY <2>1
<1>4. /\ t \in EncoderTrack /\ t.dir = encoders[p].dir /\ t.start = encoders[p].start /\ t.last = clock
      /\ t.buf = SubSeq(encoders[p].buf, 1, k)
  <2> DEFINE u == [encoders[p] EXCEPT !.buf = SubSeq(@, 1, k)]
             v == [u EXCEPT !.last = clock]
             same == encoders[p].enc /\ encoders[p].size = s
  <2>1. u \in EncoderTrack /\ u.enc = encoders[p].enc
    BY <1>2, <1>3, FieldTyped DEF EncoderTrack
  <2>2. v \in EncoderTrack /\ v.enc = encoders[p].enc
    <3>1. clock \in Int
      BY <1>2
    <3> HIDE DEF u
    <3> QED BY <2>1, <3>1, FieldTyped DEF EncoderTrack
  <2>3. t = [v EXCEPT !.enc = same]
    BY <1>2, <2>2
  <2>4. t \in EncoderTrack
    <3>1. same \in BOOLEAN
      OBVIOUS
    <3> HIDE DEF v, same, t
    <3> QED BY <2>2, <2>3, <3>1, FieldTyped
  <2>5. /\ t.dir = encoders[p].dir /\ t.start = encoders[p].start /\ t.last = clock
        /\ t.buf = SubSeq(encoders[p].buf, 1, k)
    BY <1>2 DEF EncoderTrack
  <2> QED BY <2>4, <2>5
<1>5. EndEncode(encoders[p], t.buf) /\ encoders' = [encoders EXCEPT ![p] = t] /\ job' = FlushJob(p, t, s)
  BY <1>1
<1> HIDE DEF t
<1>6. encoders'[p] = t
  BY <1>5 DEF RecorderTypes
<1>7. Becomes(p, encoders'[p])
  BY <1>2, <1>4, <1>5, <1>6 DEF Becomes
<1>8. /\ job' \in FlushJobs /\ job'.pid = p /\ job'.chunk = t
      /\ job'.at = "data" /\ job'.size = s /\ job'.now = clock
  BY <1>2, <1>4, <1>5 DEF FlushJob, FlushJobs
<1>9. wentWrong' \subseteq {"encoder"} => t.buf = encoders[p].buf /\ wentWrong' = wentWrong
  BY <1>5 DEF EndEncode, Fault
<1>10. encoders[p].buf # << >> /\ SubSeq(encoders[p].buf, 1, k) # << >>
  BY <1>1, <1>3
<1> QED BY <1>4, <1>6, <1>7, <1>8, <1>9, <1>10

LEMMA LeaveBecomes ==
  ASSUME RecorderTypes, NEW p \in Pids, Leave(p)
  PROVE  /\ Becomes(p, NoTrack)
         /\ \/ encoders[p].buf = << >> /\ UNCHANGED <<job, wentWrong>>
            \/ /\ job' \in FlushJobs /\ job'.pid = p /\ job'.at = "data" /\ job'.size = "none"
               /\ job'.chunk.dir = encoders[p].dir /\ job'.chunk.start = encoders[p].start
               /\ encoders[p].buf # << >>
               /\ wentWrong' \subseteq {"encoder"} => job'.chunk.buf = encoders[p].buf /\ wentWrong' = wentWrong
<1>1. Becomes(p, NoTrack)
  BY TracksTyped DEF Leave, Becomes
<1>2. CASE encoders[p].buf # << >>
  <2>1. PICK k \in DOMAIN encoders[p].buf :
          LET t == [encoders[p] EXCEPT !.buf = SubSeq(@, 1, k)] IN
          EndEncode(encoders[p], t.buf) /\ job' = FlushJob(p, t, "none")
    BY <1>2 DEF Leave
  <2> DEFINE t == [encoders[p] EXCEPT !.buf = SubSeq(@, 1, k)]
  <2>2. encoders[p] \in EncoderTrack /\ clock \in Nat /\ "none" \in Resolution
    BY DEF RecorderTypes, Resolution
  <2>3. SubSeq(encoders[p].buf, 1, k) \in Seq(Nat)
    <3>1. encoders[p].buf \in Seq(Nat)
      BY <2>2 DEF EncoderTrack
    <3> QED BY <3>1
  <2>4. t \in EncoderTrack /\ t.dir = encoders[p].dir /\ t.start = encoders[p].start
    BY <2>2, <2>3 DEF EncoderTrack
  <2>5. EndEncode(encoders[p], t.buf) /\ job' = FlushJob(p, t, "none")
    BY <2>1
  <2> HIDE DEF t
  <2>6. job' \in FlushJobs /\ job'.pid = p /\ job'.at = "data" /\ job'.size = "none" /\ job'.chunk = t
    BY <2>2, <2>4, <2>5 DEF FlushJob, FlushJobs
  <2>7. wentWrong' \subseteq {"encoder"} => t.buf = encoders[p].buf /\ wentWrong' = wentWrong
    BY <2>5 DEF EndEncode, Fault
  <2> QED BY <1>1, <1>2, <2>4, <2>6, <2>7
<1> QED BY <1>1, <1>2 DEF Leave

LEMMA NewTrackBecomes ==
  ASSUME RecorderTypes, NEW p \in Pids, NEW s \in Sizes[p], NewTrack(p, s)
  PROVE  /\ encoders' = [encoders EXCEPT ![p] = encoders'[p]]
         /\ encoders'[p] \in EncoderTrack /\ encoders'[p].dir = Resolve(p)[1]
         /\ encoders'[p].buf = << clock >> /\ encoders'[p].start = clock /\ encoders'[p].last = clock
<1> DEFINE old == [NoTrack EXCEPT !.dir = Resolve(p)[1], !.last = clock]
<1>1. clock \in Nat /\ s \in Resolution /\ Resolve(p)[1] \in Nat
  BY Resolved DEF RecorderTypes, Resolution
<1>2. old \in EncoderTrack /\ old.dir = Resolve(p)[1] /\ old.last = clock
  <2> DEFINE u == [NoTrack EXCEPT !.dir = Resolve(p)[1]]
  <2>1. u \in EncoderTrack /\ u.dir = Resolve(p)[1]
    BY <1>1, TracksTyped, FieldTyped DEF EncoderTrack
  <2>2. old = [u EXCEPT !.last = clock] /\ clock \in Int
    BY <1>1
  <2> HIDE DEF u, old
  <2> QED BY <2>1, <2>2, FieldTyped DEF EncoderTrack
<1>3. encoders' = [encoders EXCEPT ![p] = Started(old, s, clock)]
  BY DEF NewTrack
<1> HIDE DEF old
<1>4. encoders'[p] = Started(old, s, clock)
  BY <1>3 DEF RecorderTypes
<1>5. encoders' = [encoders EXCEPT ![p] = encoders'[p]]
  <2> DEFINE t == Started(old, s, clock)
  <2> HIDE DEF t
  <2> QED BY <1>3, <1>4 DEF t
<1>6. /\ Started(old, s, clock) \in EncoderTrack /\ Started(old, s, clock).dir = old.dir
      /\ Started(old, s, clock).buf = << clock >> /\ Started(old, s, clock).start = clock
      /\ Started(old, s, clock).last = old.last
  BY <1>1, <1>2, StartedTyped
<1> QED BY <1>2, <1>4, <1>5, <1>6

\* The end of a flush: the track has a new encoder with the frame that waited, or it
\* is out of use, or there is no track.
LEMMA FlushedBecomes ==
  ASSUME RecorderTypes, Flushed
  PROVE  /\ job.at = "prune" /\ job \in FlushJobs /\ job' = NoJob
         /\ \/ job.size = "none" /\ UNCHANGED <<encoders, recorded, started, wentWrong>>
            \/ /\ job.size # "none"
               /\ encoders' = [encoders EXCEPT ![job.pid] = encoders'[job.pid]]
               /\ encoders'[job.pid] \in EncoderTrack
               /\ encoders'[job.pid].dir = encoders[job.pid].dir
               /\ encoders'[job.pid].last = encoders[job.pid].last
               /\ \/ /\ Fresh(job.pid) /\ UNCHANGED wentWrong
                     /\ encoders'[job.pid].buf = << job.now >> /\ encoders'[job.pid].start = clock
                     /\ recorded' = recorded \union {<< job.pid, job.now >>}
                  \/ /\ UNCHANGED <<recorded, started>> /\ wentWrong \subseteq {"encoder"}
                     /\ encoders'[job.pid].buf = encoders[job.pid].buf
                     /\ encoders'[job.pid].start = encoders[job.pid].start
                     /\ encoders'[job.pid].enc = FALSE
<1>1. job.at = "prune" /\ job \in FlushJobs /\ job' = NoJob
  BY DEF Flushed, RecorderTypes, NoJob
<1>2. CASE job.size # "none"
  <2> DEFINE p == job.pid
             t == encoders[p]
             on == Started(t, job.size, job.now)
             off == [t EXCEPT !.enc = FALSE, !.failed = TRUE, !.size = job.size]
  <2>1. p \in Pids /\ t \in EncoderTrack /\ job.size \in Resolution /\ job.now \in Nat /\ clock \in Nat
    BY <1>1 DEF RecorderTypes, FlushJobs
  <2>2. /\ on \in EncoderTrack /\ on.dir = t.dir /\ on.last = t.last
        /\ on.buf = << job.now >> /\ on.start = clock
    BY ZenonT(40), <2>1, StartedTyped
  <2>3. /\ off \in EncoderTrack /\ off.dir = t.dir /\ off.last = t.last
        /\ off.buf = t.buf /\ off.start = t.start /\ off.enc = FALSE
    BY <2>1 DEF EncoderTrack
  <2>4. \/ /\ Fresh(p) /\ encoders' = [encoders EXCEPT ![p] = on]
           /\ recorded' = recorded \union {<< p, job.now >>} /\ UNCHANGED wentWrong
        \/ /\ encoders' = [encoders EXCEPT ![p] = off]
           /\ UNCHANGED <<recorded, started>> /\ wentWrong = {}
    BY <1>2 DEF Flushed, Reopen, Fault
  <2> HIDE DEF on, off
  <2>5. CASE encoders' = [encoders EXCEPT ![p] = on] /\ Fresh(p) /\ recorded' = recorded \union {<< p, job.now >>} /\ UNCHANGED wentWrong
    <3>1. encoders'[p] = on
      BY <2>1, <2>5 DEF RecorderTypes
    <3> QED BY <1>1, <1>2, <2>2, <2>5, <3>1
  <2>6. CASE encoders' = [encoders EXCEPT ![p] = off] /\ UNCHANGED <<recorded, started>> /\ wentWrong = {}
    <3>1. encoders'[p] = off
      BY <2>1, <2>6 DEF RecorderTypes
    <3> QED BY <1>1, <1>2, <2>3, <2>6, <3>1
  <2> QED BY <2>4, <2>5, <2>6
<1>3. CASE job.size = "none"
  BY <1>1, <1>3 DEF Flushed, history
<1> QED BY <1>2, <1>3

\* A file that is complete, or described, is a file.
LEMMA FileTyped ==
  ASSUME NEW f \in ChunkFile
  PROVE  /\ [f EXCEPT !["data"] = TRUE] \in ChunkFile /\ [f EXCEPT !["meta"] = TRUE] \in ChunkFile
         /\ \A field \in {"data", "meta"} :
              /\ [f EXCEPT ![field] = TRUE].dir = f.dir /\ [f EXCEPT ![field] = TRUE].pid = f.pid
              /\ [f EXCEPT ![field] = TRUE].start = f.start /\ [f EXCEPT ![field] = TRUE].frames = f.frames
<1>1. [f EXCEPT !["data"] = TRUE] \in ChunkFile
  BY DEF ChunkFile
<1>2. [f EXCEPT !["meta"] = TRUE] \in ChunkFile
  BY DEF ChunkFile
<1>3. ASSUME NEW field \in {"data", "meta"}
      PROVE  /\ [f EXCEPT ![field] = TRUE].dir = f.dir /\ [f EXCEPT ![field] = TRUE].pid = f.pid
             /\ [f EXCEPT ![field] = TRUE].start = f.start /\ [f EXCEPT ![field] = TRUE].frames = f.frames
  BY DEF ChunkFile
<1> QED BY <1>1, <1>2, <1>3

\* The file that open() of a flush makes.
Opened ==
  [pid |-> job.pid, dir |-> job.chunk.dir, start |-> job.chunk.start, frames |-> job.chunk.buf,
   data |-> FALSE, meta |-> \E f \in files : Named(f) /\ f.meta, end |-> clock, num |-> job.chunk.frames]

LEMMA JobTyped ==
  ASSUME RecorderTypes, job.at # "idle"
  PROVE  /\ job \in FlushJobs /\ job.pid \in Pids /\ job.chunk \in EncoderTrack
         /\ job.size \in Resolution /\ job.now \in Nat
         /\ \A at \in {"fill", "meta", "prune"} :
              /\ [job EXCEPT !.at = at] \in FlushJobs
              /\ [job EXCEPT !.at = at].at = at /\ [job EXCEPT !.at = at].pid = job.pid
              /\ [job EXCEPT !.at = at].chunk = job.chunk /\ [job EXCEPT !.at = at].size = job.size
              /\ [job EXCEPT !.at = at].now = job.now
<1>1. job \in FlushJobs
  BY DEF RecorderTypes, NoJob
<1> QED BY <1>1 DEF FlushJobs

\* The steps of a flush that write files.
LEMMA FlushWrites ==
  ASSUME RecorderTypes, OpenData \/ FillData \/ WriteMeta
  PROVE  /\ job \in FlushJobs /\ job' \in FlushJobs
         /\ job'.pid = job.pid /\ job'.chunk = job.chunk /\ job'.size = job.size /\ job'.now = job.now
         /\ files' \subseteq ChunkFile
         /\ UNCHANGED <<clock, dirs, reader, recorded, started, wentWrong>>
         /\ \/ job.at = "data" /\ job'.at = "fill" /\ files' = {f \in files : ~ Named(f)} \union {Opened}
            \/ /\ job.at = "fill" /\ job'.at = "meta"
               /\ \E f \in files : Named(f) /\ files' = Mark(f, "data", TRUE)
            \/ /\ job.at = "meta" /\ job'.at = "prune"
               /\ \E f \in files : Named(f) /\ files' = Mark(f, "meta", TRUE)
         /\ (job'.at # "prune" \/ job.size = "none") => UNCHANGED encoders
         /\ job'.at = "prune" /\ job.size # "none" =>
              \E t \in EncoderTrack :
                /\ encoders' = [encoders EXCEPT ![job.pid] = t]
                /\ t.buf = << >> /\ t.dir = encoders[job.pid].dir /\ t.start = encoders[job.pid].start
                /\ t.last = encoders[job.pid].last
<1>1. job.at # "idle"
  BY DEF OpenData, FillData, WriteMeta
<1>2. UNCHANGED <<clock, dirs, reader, recorded, started, wentWrong>>
  BY DEF OpenData, FillData, WriteMeta, history
<1>3. CASE OpenData
  <2>1. /\ job.at = "data" /\ job' = [job EXCEPT !.at = "fill"] /\ UNCHANGED encoders
        /\ files' = {f \in files : ~ Named(f)} \union {Opened}
    BY <1>3 DEF OpenData, Step, Opened
  <2>2. Opened \in ChunkFile
    <3>1. /\ job.pid \in Pids /\ job.chunk.dir \in Nat /\ job.chunk.start \in Nat /\ job.chunk.buf \in Seq(Nat)
          /\ job.chunk.frames \in Nat /\ clock \in Nat
      BY <1>1, JobTyped, FieldTyped DEF RecorderTypes
    <3>2. (\E f \in files : Named(f) /\ f.meta) \in BOOLEAN
      OBVIOUS
    <3> QED BY <3>1, <3>2 DEF Opened, ChunkFile
  <2>3. files' \subseteq ChunkFile
    BY <2>1, <2>2 DEF RecorderTypes
  <2> QED BY <1>1, <1>2, <2>1, <2>3, JobTyped
<1>4. CASE FillData
  <2>1. job.at = "fill" /\ job' = [job EXCEPT !.at = "meta"] /\ UNCHANGED encoders
    BY <1>4 DEF FillData, Step
  <2>2. PICK f \in files : Named(f) /\ files' = Mark(f, "data", TRUE)
    BY <1>4 DEF FillData
  <2>3. files' \subseteq ChunkFile
    BY <2>2, FileTyped DEF Mark, RecorderTypes
  <2> QED BY <1>1, <1>2, <2>1, <2>2, <2>3, JobTyped
<1>5. CASE WriteMeta
  <2>1. /\ job.at = "meta" /\ job' = [job EXCEPT !.at = "prune"]
        /\ job.size = "none" => UNCHANGED encoders
        /\ job.size # "none" => encoders' = [encoders EXCEPT ![job.pid].buf = << >>]
    BY <1>5 DEF WriteMeta, Step
  <2>2. PICK f \in files : Named(f) /\ files' = Mark(f, "meta", TRUE)
    BY <1>5 DEF WriteMeta
  <2>3. files' \subseteq ChunkFile
    BY <2>2, FileTyped DEF Mark, RecorderTypes
  <2>4. CASE job.size # "none"
    <3> DEFINE t == [encoders[job.pid] EXCEPT !.buf = << >>]
    <3>1. encoders' = [encoders EXCEPT ![job.pid] = t]
      BY <2>1, <2>4
    <3>2. encoders[job.pid] \in EncoderTrack
      BY <1>1, JobTyped DEF RecorderTypes
    <3>3. /\ t \in EncoderTrack /\ t.dir = encoders[job.pid].dir /\ t.buf = << >>
          /\ t.start = encoders[job.pid].start /\ t.last = encoders[job.pid].last
      <4>1. << >> \in Seq(Nat)
        OBVIOUS
      <4>2. t \in EncoderTrack
        BY <3>2, <4>1, FieldTyped
      <4> QED BY <3>2, <4>2 DEF EncoderTrack
    <3> HIDE DEF t
    <3> QED BY <1>1, <1>2, <2>1, <2>2, <2>3, <2>4, <3>1, <3>3, JobTyped
  <2> QED BY <1>1, <1>2, <2>1, <2>2, <2>3, <2>4, JobTyped
<1> QED BY <1>3, <1>4, <1>5

-----------------------------------------------------------------------------
(* Everything is in the directory of its owner.                            *)

\* Directories are added, and a legacy one is taken; nobody loses his.
DirsGrow ==
  /\ dirs' \in Seq(Pids \union {"none"})
  /\ \A i \in DOMAIN dirs : i \in DOMAIN dirs' /\ (dirs[i] \in Pids => dirs'[i] = dirs[i])

\* OwnedBy in the next state, for a directory that is given.
OwnedNext(d, p) == d \in DOMAIN dirs' /\ dirs'[d] = p

LEMMA OwnersStay ==
  ASSUME DirsGrow, NEW d, NEW p \in Pids, OwnedBy(d, p) PROVE OwnedNext(d, p)
BY DEF DirsGrow, OwnedBy, OwnedNext

LEMMA OwnersStart == RecorderInit => RecorderTypes /\ OwnerInv
<1> SUFFICES ASSUME RecorderInit PROVE RecorderTypes /\ OwnerInv
  OBVIOUS
<1>1. dirs \in Seq(Pids \union {"none"})
  <2>1. << >> \in Seq(Pids \union {"none"}) /\ << "none" >> \in Seq(Pids \union {"none"})
    OBVIOUS
  <2> QED BY <2>1 DEF RecorderInit
<1>2. clock \in Nat /\ encoders \in [Pids -> EncoderTrack] /\ files = {} /\ job = NoJob /\ recorded = {} /\ reader.at = "idle"
  BY TracksTyped DEF RecorderInit, NoReader
<1> QED BY <1>1, <1>2 DEF RecorderInit, RecorderTypes, OwnerInv, NoJob

\* A step that leaves files, flush and reader alone, and changes one track at most.
LEMMA TrackOwned ==
  ASSUME RecorderTypes, OwnerInv, DirsGrow, NEW p \in Pids, NEW t \in EncoderTrack,
         encoders' = [encoders EXCEPT ![p] = t],
         t = NoTrack \/ OwnedNext(t.dir, p) \/ (encoders[p] # NoTrack /\ t.dir = encoders[p].dir),
         clock' \in Nat, recorded' \subseteq Pids \X Nat,
         \/ job' = NoJob \/ (UNCHANGED job /\ (job.at # "idle" => job.pid # p))
         \/ job' \in FlushJobs /\ job'.pid = p /\ OwnedNext(job'.chunk.dir, p) /\ (job'.size = "none" \/ OwnedNext(t.dir, p)),
         UNCHANGED <<files, reader>>
  PROVE  RecorderTypes' /\ OwnerInv'
<1>1. /\ encoders \in [Pids -> EncoderTrack] /\ encoders' \in [Pids -> EncoderTrack]
      /\ encoders'[p] = t /\ \A q \in Pids : q # p => encoders'[q] = encoders[q]
  BY DEF RecorderTypes
<1>2. RecorderTypes'
  BY <1>1 DEF RecorderTypes, DirsGrow
<1>3. ASSUME NEW q \in Pids, encoders'[q] # NoTrack PROVE OwnedNext(encoders'[q].dir, q)
  BY <1>1, <1>3, OwnersStay DEF OwnerInv
<1>4. ASSUME job'.at # "idle"
      PROVE  OwnedNext(job'.chunk.dir, job'.pid) /\ (job'.size # "none" => OwnedNext(encoders'[job'.pid].dir, job'.pid))
  <2>1. CASE UNCHANGED job /\ job.pid # p
    <3>1. job.pid \in Pids
      BY <1>4, <2>1, JobTyped
    <3> QED BY <1>1, <1>4, <2>1, <3>1, OwnersStay DEF OwnerInv
  <2>2. CASE job' \in FlushJobs /\ job'.pid = p /\ OwnedNext(job'.chunk.dir, p) /\ (job'.size = "none" \/ OwnedNext(t.dir, p))
    BY <1>1, <2>2
  <2> QED BY <1>4, <2>1, <2>2 DEF NoJob
<1>5. \A f \in files' : OwnedNext(f.dir, f.pid)
  <2>1. \A f \in files : f.pid \in Pids
    BY DEF RecorderTypes, ChunkFile
  <2> QED BY <2>1, OwnersStay DEF OwnerInv
<1>6. reader'.at # "idle" => reader'.pid \in Pids /\ OwnedNext(reader'.dir, reader'.pid)
  BY OwnersStay DEF OwnerInv
<1> QED BY <1>2, <1>3, <1>4, <1>5, <1>6 DEF OwnerInv, OwnedBy, OwnedNext

LEMMA SameDirs == ASSUME RecorderTypes, UNCHANGED dirs PROVE DirsGrow /\ \A d, p : OwnedNext(d, p) <=> OwnedBy(d, p)
BY DEF DirsGrow, RecorderTypes, OwnedBy, OwnedNext

LEMMA NewTrackOwned ==
  ASSUME RecorderTypes, OwnerInv, NEW p \in Pids, NEW s \in Sizes[p], NewTrack(p, s)
  PROVE  RecorderTypes' /\ OwnerInv'
<1>1. DirsGrow /\ OwnedNext(Resolve(p)[1], p)
  BY Resolved DEF RecorderTypes, NewTrack, DirsGrow, OwnedNext
<1>2. /\ clock' \in Nat /\ recorded' \subseteq Pids \X Nat /\ UNCHANGED <<job, files, reader>> /\ job.at = "idle"
  BY DEF NewTrack, RecorderTypes
<1>3. /\ encoders' = [encoders EXCEPT ![p] = encoders'[p]]
      /\ encoders'[p] \in EncoderTrack /\ encoders'[p].dir = Resolve(p)[1]
  BY NewTrackBecomes
<1> DEFINE t == encoders'[p]
<1> HIDE DEF t
<1>4. encoders' = [encoders EXCEPT ![p] = t] /\ t \in EncoderTrack /\ OwnedNext(t.dir, p)
  BY <1>1, <1>3 DEF t
<1> QED BY <1>1, <1>2, <1>4, TrackOwned

LEMMA NewTrackFailsOwned ==
  ASSUME RecorderTypes, OwnerInv, NEW p \in Pids, NewTrackFails(p)
  PROVE  RecorderTypes' /\ OwnerInv'
<1>1. DirsGrow
  BY Resolved DEF RecorderTypes, NewTrackFails, DirsGrow
<1>2. clock' \in Nat /\ recorded' \subseteq Pids \X Nat /\ UNCHANGED <<job, files, reader, encoders>> /\ job.at = "idle"
  BY DEF NewTrackFails, RecorderTypes
<1>3. encoders' = [encoders EXCEPT ![p] = NoTrack] /\ NoTrack \in EncoderTrack
  BY <1>2, TracksTyped DEF NewTrackFails, RecorderTypes
<1> QED BY <1>1, <1>2, <1>3, TrackOwned

LEMMA EncodeOwned ==
  ASSUME RecorderTypes, OwnerInv, NEW p \in Pids, NEW s \in Sizes[p], Encode(p, s)
  PROVE  RecorderTypes' /\ OwnerInv'
<1>1. DirsGrow /\ clock' \in Nat /\ UNCHANGED <<job, files, reader>> /\ job.at = "idle"
  BY SameDirs DEF Encode, RecorderTypes, Sampled
<1>2. recorded' \subseteq Pids \X Nat
  BY DEF Encode, RecorderTypes
<1>3. PICK t \in EncoderTrack : Becomes(p, t)
  BY EncodeBecomes DEF Becomes
<1> QED BY <1>1, <1>2, <1>3, TrackOwned DEF Becomes

LEMMA CloseOwned ==
  ASSUME RecorderTypes, OwnerInv, NEW p \in Pids, NEW s \in Sizes[p], Close(p, s)
  PROVE  RecorderTypes' /\ OwnerInv'
<1>1. DirsGrow /\ clock' \in Nat /\ UNCHANGED <<files, reader, recorded, dirs>> /\ encoders[p] # NoTrack
  BY SameDirs DEF Close, RecorderTypes, Sampled
<1>2. PICK t \in EncoderTrack : t = encoders'[p] /\ Becomes(p, t)
  BY CloseBecomes DEF Becomes
<1>3. job' \in FlushJobs /\ job'.pid = p /\ job'.chunk = t /\ t.dir = encoders[p].dir
  <2>1. job' \in FlushJobs /\ job'.pid = p /\ job'.chunk = encoders'[p]
    BY CloseBecomes
  <2>2. t = NoTrack \/ t.dir = encoders[p].dir
    BY <1>2 DEF Becomes
  <2>3. t # NoTrack
    <3>1. t.last = clock
      BY <1>2, CloseBecomes
    <3> QED BY <3>1, TracksTyped DEF RecorderTypes
  <2> QED BY <1>2, <2>1, <2>2, <2>3
<1>4. OwnedNext(t.dir, p)
  BY <1>1, <1>3, OwnersStay DEF OwnerInv
<1>5. recorded' \subseteq Pids \X Nat
  BY <1>1 DEF RecorderTypes
<1> QED BY <1>1, <1>2, <1>3, <1>4, <1>5, TrackOwned DEF Becomes

LEMMA LeaveOwned ==
  ASSUME RecorderTypes, OwnerInv, NEW p \in Pids, Leave(p)
  PROVE  RecorderTypes' /\ OwnerInv'
<1>1. DirsGrow /\ clock' \in Nat /\ UNCHANGED <<files, reader, recorded, dirs>> /\ encoders[p] # NoTrack /\ job.at = "idle"
  BY SameDirs DEF Leave, RecorderTypes
<1>2. Becomes(p, NoTrack)
  BY LeaveBecomes
<1>3. \/ UNCHANGED job
      \/ job' \in FlushJobs /\ job'.pid = p /\ job'.size = "none" /\ OwnedNext(job'.chunk.dir, p)
  <2>1. OwnedNext(encoders[p].dir, p)
    BY <1>1, OwnersStay DEF OwnerInv
  <2> QED BY <2>1, LeaveBecomes
<1>4. recorded' \subseteq Pids \X Nat
  BY <1>1 DEF RecorderTypes
<1> QED BY <1>1, <1>2, <1>3, <1>4, TrackOwned DEF Becomes

LEMMA FlushedOwned ==
  ASSUME RecorderTypes, OwnerInv, Flushed
  PROVE  RecorderTypes' /\ OwnerInv'
<1>1. /\ DirsGrow /\ clock' \in Nat /\ UNCHANGED <<files, reader, dirs>>
      /\ job.pid \in Pids /\ job.now \in Nat /\ job.at # "idle" /\ job' = NoJob
  BY SameDirs, FlushedBecomes DEF Flushed, RecorderTypes, FlushJobs
<1>2. recorded' \subseteq Pids \X Nat
  <2>1. recorded' = recorded \/ recorded' = recorded \union {<< job.pid, job.now >>}
    BY FlushedBecomes
  <2> QED BY <1>1, <2>1 DEF RecorderTypes
<1>3. CASE UNCHANGED encoders
  <2>1. encoders' = [encoders EXCEPT ![job.pid] = encoders[job.pid]] /\ encoders[job.pid] \in EncoderTrack
    BY <1>1, <1>3 DEF RecorderTypes
  <2>2. encoders[job.pid] = NoTrack \/ OwnedNext(encoders[job.pid].dir, job.pid)
    BY <1>1, OwnersStay DEF OwnerInv
  <2> QED BY <1>1, <1>2, <2>1, <2>2, TrackOwned
<1>4. CASE job.size # "none"
  <2>1. PICK t \in EncoderTrack : encoders' = [encoders EXCEPT ![job.pid] = t] /\ t.dir = encoders[job.pid].dir
    BY <1>4, FlushedBecomes
  <2>2. OwnedNext(t.dir, job.pid)
    BY <1>1, <1>4, <2>1, OwnersStay DEF OwnerInv
  <2> QED BY <1>1, <1>2, <2>1, <2>2, TrackOwned
<1> QED BY <1>3, <1>4, FlushedBecomes

LEMMA FlushWritesOwned ==
  ASSUME RecorderTypes, OwnerInv, OpenData \/ FillData \/ WriteMeta
  PROVE  RecorderTypes' /\ OwnerInv'
<1>1. /\ job \in FlushJobs /\ job' \in FlushJobs /\ job.pid \in Pids
      /\ job'.pid = job.pid /\ job'.chunk = job.chunk /\ job'.size = job.size
      /\ files' \subseteq ChunkFile /\ UNCHANGED <<clock, dirs, reader, recorded>>
      /\ job.at # "idle"
  BY FlushWrites DEF FlushJobs
<1>2. /\ encoders' \in [Pids -> EncoderTrack]
      /\ \A q \in Pids : encoders'[q] = encoders[q] \/ (q = job.pid /\ job.size # "none" /\ encoders'[q].dir = encoders[q].dir)
  <2>1. CASE UNCHANGED encoders
    BY <2>1 DEF RecorderTypes
  <2>2. CASE job.size # "none" /\ \E t \in EncoderTrack : encoders' = [encoders EXCEPT ![job.pid] = t] /\ t.dir = encoders[job.pid].dir
    BY <1>1, <2>2 DEF RecorderTypes
  <2> QED BY <2>1, <2>2, FlushWrites
<1>3. RecorderTypes'
  BY <1>1, <1>2 DEF RecorderTypes
<1>4. \A d, p : OwnedNext(d, p) <=> OwnedBy(d, p)
  BY <1>1, SameDirs
<1>5. \A f \in files' : OwnedBy(f.dir, f.pid)
  <2>1. OwnedBy(Opened.dir, Opened.pid)
    BY <1>1 DEF OwnerInv, Opened
  <2>2. ASSUME NEW f \in files, NEW field \in {"data", "meta"}
        PROVE  OwnedBy([f EXCEPT ![field] = TRUE].dir, [f EXCEPT ![field] = TRUE].pid)
    <3>1. f \in ChunkFile
      BY DEF RecorderTypes
    <3> QED BY <3>1, FileTyped DEF OwnerInv
  <2>3. \/ files' = {f \in files : ~ Named(f)} \union {Opened}
        \/ \E f \in files : files' = Mark(f, "data", TRUE) \/ files' = Mark(f, "meta", TRUE)
    BY FlushWrites
  <2>4. CASE files' = {f \in files : ~ Named(f)} \union {Opened}
    BY <2>1, <2>4 DEF OwnerInv
  <2>5. ASSUME NEW f \in files, NEW field \in {"data", "meta"}, files' = Mark(f, field, TRUE)
        PROVE  \A g \in files' : OwnedBy(g.dir, g.pid)
    BY <2>2, <2>5 DEF OwnerInv, Mark
  <2> QED BY <2>3, <2>4, <2>5
<1>6. \A p \in Pids : encoders'[p] # NoTrack => OwnedBy(encoders'[p].dir, p)
  BY <1>1, <1>2 DEF OwnerInv
<1>7. OwnedBy(job.chunk.dir, job.pid) /\ (job.size # "none" => OwnedBy(encoders'[job.pid].dir, job.pid))
  BY <1>1, <1>2 DEF OwnerInv
<1>8. reader.at # "idle" => reader.pid \in Pids /\ OwnedBy(reader.dir, reader.pid)
  BY DEF OwnerInv
<1> QED BY <1>1, <1>3, <1>4, <1>5, <1>6, <1>7, <1>8 DEF OwnerInv, OwnedBy, OwnedNext

\* Files go, or a flush or all tracks are given up.
LEMMA LossOwned ==
  ASSUME RecorderTypes, OwnerInv, UNCHANGED <<dirs, reader, recorded>>, clock' \in Nat, files' \subseteq files,
         job' \in {job, NoJob},
         UNCHANGED encoders \/ (encoders' = [p \in Pids |-> NoTrack] /\ job' = NoJob)
  PROVE  RecorderTypes' /\ OwnerInv'
<1>1. \A d, p : OwnedNext(d, p) <=> OwnedBy(d, p)
  BY SameDirs
<1>2. RecorderTypes'
  BY TracksTyped DEF RecorderTypes
<1> QED BY <1>1, <1>2 DEF OwnerInv, NoJob, OwnedBy, OwnedNext

\* What a call is about does not change.
LEMMA CallGoesOn ==
  ASSUME RecorderTypes, LoadMeta \/ Select \/ Read
  PROVE  /\ reader.at # "idle" /\ CallFields \subseteq DOMAIN reader
         /\ \/ reader' = NoReader
            \/ /\ reader'.at # "idle" /\ CallFields \subseteq DOMAIN reader'
               /\ reader'.op = reader.op /\ reader'.pid = reader.pid /\ reader'.dir = reader.dir
               /\ reader'.from = reader.from /\ reader'.to = reader.to /\ reader'.sure = reader.sure
<1>1. /\ reader.at # "idle"
      /\ \/ reader' = NoReader
         \/ \E v, w : \/ reader' = [reader EXCEPT !.left = v, !.metas = w]
                      \/ reader' = [reader EXCEPT !.at = "read", !.left = v]
                      \/ reader' = [reader EXCEPT !.left = v, !.got = w]
  BY DEF LoadMeta, Select, Read
<1>2. CallFields \subseteq DOMAIN reader
  BY <1>1 DEF RecorderTypes
<1>3. ASSUME NEW v, NEW w, \/ reader' = [reader EXCEPT !.left = v, !.metas = w]
                           \/ reader' = [reader EXCEPT !.at = "read", !.left = v]
                           \/ reader' = [reader EXCEPT !.left = v, !.got = w]
      PROVE  /\ reader'.at # "idle" /\ CallFields \subseteq DOMAIN reader'
             /\ reader'.op = reader.op /\ reader'.pid = reader.pid /\ reader'.dir = reader.dir
             /\ reader'.from = reader.from /\ reader'.to = reader.to /\ reader'.sure = reader.sure
  BY <1>1, <1>2, <1>3 DEF CallFields
<1> QED BY <1>1, <1>2, <1>3

\* A call looks into the directory of the participant it is about.
LEMMA ReaderOwned ==
  ASSUME RecorderTypes, OwnerInv, UNCHANGED <<clock, recorder, history>>,
         \/ LoadMeta \/ Select \/ Read \/ Return
         \/ \E p \in Pids : \E op, from, to : Ask(p, op, from, to)
  PROVE  RecorderTypes' /\ OwnerInv'
<1>1. /\ UNCHANGED <<clock, encoders, dirs, files, job, recorded>>
      /\ \A d, p : OwnedNext(d, p) <=> OwnedBy(d, p)
  BY SameDirs DEF recorder, history
<1>2. ASSUME reader'.at # "idle" PROVE CallFields \subseteq DOMAIN reader' /\ reader'.pid \in Pids /\ OwnedBy(reader'.dir, reader'.pid)
  <2>1. CASE LoadMeta \/ Select \/ Read \/ Return
    <3>1. LoadMeta \/ Select \/ Read
      BY <1>2, <2>1 DEF Return, NoReader
    <3>2. /\ reader.at # "idle" /\ CallFields \subseteq DOMAIN reader'
          /\ reader'.pid = reader.pid /\ reader'.dir = reader.dir
      BY <1>2, <3>1, CallGoesOn DEF NoReader
    <3> QED BY <3>2 DEF OwnerInv
  <2>2. ASSUME NEW p \in Pids, NEW op, NEW from, NEW to, Ask(p, op, from, to)
        PROVE  CallFields \subseteq DOMAIN reader' /\ reader'.pid \in Pids /\ OwnedBy(reader'.dir, reader'.pid)
    <3>1. InDir(PidDir(p)) # {} /\ reader'.pid = p /\ reader'.dir = PidDir(p) /\ CallFields \subseteq DOMAIN reader'
      BY <2>2 DEF Ask, CallFields
    <3>2. PICK f \in files : f.dir = PidDir(p)
      BY <3>1 DEF InDir
    <3>3. OwnedBy(f.dir, f.pid) /\ f.pid \in Pids
      BY DEF OwnerInv, RecorderTypes, ChunkFile
    <3> DEFINE ok == {i \in Dirs : dirs[i] = p \/ (i = 1 /\ dirs[i] = "none" /\ p \in Plain)}
    <3>4. Dirs = 1 .. Len(dirs) /\ Len(dirs) \in Nat /\ PidDir(p) \in DOMAIN dirs
      BY <3>2, <3>3 DEF Dirs, RecorderTypes, OwnedBy
    <3>5. ok # {} /\ PidDir(p) = Min(ok)
      BY <3>4 DEF PidDir
    <3>6. Min(ok) \in ok
      <4>1. ok \in SUBSET Nat /\ \E i : i \in ok
        BY <3>4, <3>5
      <4> HIDE DEF ok
      <4> QED BY <4>1, LeastNumber
    <3>7. dirs[PidDir(p)] = p \/ dirs[PidDir(p)] = "none"
      BY <3>5, <3>6
    <3>8. dirs[PidDir(p)] # "none"
      BY <3>2, <3>3, RecordingAssumption DEF OwnedBy
    <3> QED BY <3>1, <3>4, <3>7, <3>8 DEF OwnedBy
  <2> QED BY <2>1, <2>2
<1>3. RecorderTypes'
  BY <1>1, <1>2 DEF RecorderTypes
<1> QED BY <1>1, <1>2, <1>3 DEF OwnerInv, OwnedBy, OwnedNext

LEMMA OwnersKeep == RecorderTypes /\ OwnerInv /\ [RecorderNext]_recorderVars => RecorderTypes' /\ OwnerInv'
<1> SUFFICES ASSUME RecorderTypes, OwnerInv, [RecorderNext]_recorderVars PROVE RecorderTypes' /\ OwnerInv'
  OBVIOUS
<1>1. CASE Tick \/ Prune \/ WriteFails \/ Restart \/ UNCHANGED recorderVars
  <2>1. clock' \in Nat
    BY <1>1 DEF Tick, Prune, WriteFails, Restart, recorderVars, RecorderTypes
  <2>2. UNCHANGED <<dirs, reader, recorded>> /\ files' \subseteq files
    BY <1>1 DEF Tick, Prune, WriteFails, Restart, recorderVars, recorder, history
  <2>3. /\ job' \in {job, NoJob}
        /\ UNCHANGED encoders \/ (encoders' = [p \in Pids |-> NoTrack] /\ job' = NoJob)
    <3>1. CASE Restart
      <4>1. job.at = "idle" /\ UNCHANGED job /\ encoders' = [p \in Pids |-> NoTrack]
        BY <3>1 DEF Restart
      <4>2. job = NoJob
        BY <4>1 DEF RecorderTypes, FlushJobs
      <4> QED BY <4>1, <4>2
    <3>2. CASE ~ Restart
      BY <1>1, <3>2 DEF Tick, Prune, WriteFails, recorderVars, recorder
    <3> QED BY <3>1, <3>2
  <2> QED BY <2>1, <2>2, <2>3, LossOwned
<1>2. CASE LoadMeta \/ Select \/ Read \/ Return
  <2>1. UNCHANGED <<clock, recorder, history>>
    BY <1>2 DEF LoadMeta, Select, Read, Return
  <2> QED BY <1>2, <2>1, ReaderOwned
<1>3. CASE \E p \in Pids : \E op, from, to : Ask(p, op, from, to)
  <2>1. UNCHANGED <<clock, recorder, history>>
    BY <1>3 DEF Ask
  <2> QED BY <1>3, <2>1, ReaderOwned
<1> QED
  BY <1>1, <1>2, <1>3, NewTrackOwned, NewTrackFailsOwned, EncodeOwned, CloseOwned, LeaveOwned, FlushedOwned, FlushWritesOwned
  DEF RecorderNext, FlushChunk

\* get_frame_from_time and query_video never read a file with what the camera of
\* another participant saw, though the two share a sanitized name.
THEOREM OwnRecordings == RecorderSpec => []OwnFramesOnly
<1>1. RecorderTypes /\ OwnerInv => OwnFramesOnly
  BY DEF RecorderTypes, OwnerInv, OwnFramesOnly, NextFile, OwnedBy, ChunkFile
<1> QED BY <1>1, OwnersStart, OwnersKeep, PTL DEF RecorderSpec

-----------------------------------------------------------------------------
(* Names of chunks, and which of them are finished.                        *)

\* What a call at the server counts on: complete when it began.
Sure == IF reader.at = "idle" THEN {} ELSE reader.sure
Finished == {f \in files : f.meta} \union Sure

\* No chunk starts when another one of its participant has.
StartsInv ==
  /\ started \subseteq Pids \X Nat
  /\ \A e \in started : e[2] <= clock

FilesNamed ==
  /\ \A f \in files : << f.pid, f.start >> \in started /\ f.start <= f.end /\ f.end <= clock
  /\ \A f, g \in files : f.dir = g.dir /\ f.start = g.start => f = g
  /\ \A f \in Sure : f \in ChunkFile /\ f.data /\ f.meta /\ << f.pid, f.start >> \in started

\* What an encoder holds is not of a finished chunk; a running one holds something,
\* but for the end of a flush.
TracksNamed ==
  \A p \in Pids :
    /\ encoders[p].buf # << >> => << p, encoders[p].start >> \in started
    /\ encoders[p].buf # << >> => \A f \in Finished : ~ (f.pid = p /\ f.start = encoders[p].start)
    /\ encoders[p].enc => encoders[p].buf # << >> \/ (job.at = "prune" /\ job.pid = p)

\* Nor is what a flush has still to write.
FlushNamed ==
  job.at # "idle" =>
    /\ << job.pid, job.chunk.start >> \in started
    /\ job.size = "none" => encoders[job.pid] = NoTrack
    /\ job.at # "prune" => \A f \in Finished : ~ (f.pid = job.pid /\ f.start = job.chunk.start)

NamesInv == StartsInv /\ FilesNamed /\ TracksNamed /\ FlushNamed

LEMMA NamesStart == RecorderInit => NamesInv
<1> SUFFICES ASSUME RecorderInit PROVE NamesInv
  OBVIOUS
<1>1. /\ encoders = [p \in Pids |-> NoTrack] /\ files = {} /\ started = {} /\ job.at = "idle" /\ reader.at = "idle"
  BY DEF RecorderInit, NoJob, NoReader
<1>2. TracksNamed
  BY <1>1, TracksTyped DEF TracksNamed
<1> QED BY <1>1, <1>2 DEF NamesInv, StartsInv, FilesNamed, FlushNamed, Sure

\* A step that changes one track: it keeps its chunk, or begins a new one, or has none.
TrackStep(p, t) ==
  /\ encoders' = [encoders EXCEPT ![p] = t] /\ UNCHANGED <<clock, files, reader>>
  /\ t.enc => t.buf # << >>
  /\ \/ UNCHANGED started /\ (t.buf # << >> => encoders[p].buf # << >> /\ t.start = encoders[p].start)
     \/ << p, clock >> \notin started /\ started' = started \union {<< p, clock >>} /\ t.start = clock
  /\ job.at = "idle" \/ (job.at = "prune" /\ job.pid = p)
  /\ \/ job' = NoJob
     \/ /\ job'.at = "data" /\ job'.pid = p /\ job'.chunk.start = encoders[p].start /\ encoders[p].buf # << >>
        /\ job'.size = "none" => t = NoTrack

LEMMA TrackNamed ==
  ASSUME RecorderTypes, NamesInv, NEW p \in Pids, NEW t \in EncoderTrack, TrackStep(p, t)
  PROVE  NamesInv'
<1> USE DEF TrackStep
<1>1. /\ encoders'[p] = t /\ \A q \in Pids : q # p => encoders'[q] = encoders[q]
      /\ Finished' = Finished /\ Sure' = Sure /\ clock \in Nat
      /\ started \subseteq started'
  BY DEF RecorderTypes, Finished, Sure
<1>2. StartsInv'
  BY <1>1 DEF NamesInv, StartsInv
<1>3. FilesNamed'
  BY <1>1 DEF NamesInv, FilesNamed
<1>4. \A f \in Finished : << f.pid, f.start >> \in started
  BY DEF NamesInv, FilesNamed, Finished
<1>5. TracksNamed'
  <2> SUFFICES ASSUME NEW q \in Pids
               PROVE  /\ encoders'[q].buf # << >> => << q, encoders'[q].start >> \in started'
                      /\ encoders'[q].buf # << >> => \A f \in Finished : ~ (f.pid = q /\ f.start = encoders'[q].start)
                      /\ encoders'[q].enc => encoders'[q].buf # << >>
    BY <1>1 DEF TracksNamed
  <2>1. CASE q # p
    BY <1>1, <2>1 DEF NamesInv, TracksNamed
  <2>2. CASE q = p /\ UNCHANGED started /\ (t.buf # << >> => encoders[p].buf # << >> /\ t.start = encoders[p].start)
    BY <1>1, <2>2 DEF NamesInv, TracksNamed
  <2>3. CASE q = p /\ << p, clock >> \notin started /\ started' = started \union {<< p, clock >>} /\ t.start = clock
    BY <1>1, <1>4, <2>3
  <2> QED BY <2>1, <2>2, <2>3
<1>6. FlushNamed'
  <2>1. CASE job' = NoJob
    BY <2>1 DEF FlushNamed, NoJob
  <2>2. CASE /\ job'.at = "data" /\ job'.pid = p /\ job'.chunk.start = encoders[p].start /\ encoders[p].buf # << >>
             /\ job'.size = "none" => t = NoTrack
    BY <1>1, <2>2 DEF NamesInv, TracksNamed, FlushNamed
  <2> QED BY <2>1, <2>2
<1> QED BY <1>2, <1>3, <1>5, <1>6 DEF NamesInv

\* Time passes, files go, or a flush or all tracks are given up.
LEMMA LossNamed ==
  ASSUME RecorderTypes, NamesInv, UNCHANGED <<reader, started>>, clock' \in Nat, clock <= clock', files' \subseteq files,
         UNCHANGED job \/ (job' = NoJob /\ job.at # "prune"),
         UNCHANGED encoders \/ (encoders' = [p \in Pids |-> NoTrack] /\ job' = NoJob)
  PROVE  NamesInv'
<1>1. Finished' \subseteq Finished /\ Sure' = Sure
  BY DEF Finished, Sure
<1>2. StartsInv'
  <2>1. \A e \in started : e[2] \in Nat /\ e[2] <= clock
    BY DEF NamesInv, StartsInv
  <2> QED BY <2>1 DEF NamesInv, StartsInv, RecorderTypes
<1>3. FilesNamed'
  <2>1. \A f \in files : f.end \in Nat /\ f.end <= clock /\ clock \in Nat
    BY DEF NamesInv, FilesNamed, RecorderTypes, ChunkFile
  <2> QED BY <1>1, <2>1 DEF NamesInv, FilesNamed
<1>4. TracksNamed'
  <2>1. CASE UNCHANGED encoders
    BY <1>1, <2>1 DEF NamesInv, TracksNamed, NoJob
  <2>2. CASE encoders' = [p \in Pids |-> NoTrack]
    BY <2>2, TracksTyped DEF TracksNamed
  <2> QED BY <2>1, <2>2
<1>5. FlushNamed'
  <2>1. CASE job' = NoJob
    BY <2>1 DEF FlushNamed, NoJob
  <2>2. CASE UNCHANGED <<job, encoders>>
    BY <1>1, <2>2 DEF NamesInv, FlushNamed
  <2> QED BY <2>1, <2>2
<1> QED BY <1>2, <1>3, <1>4, <1>5 DEF NamesInv

\* The reader counts on finished chunks only.
LEMMA ReaderNamed ==
  ASSUME RecorderTypes, NamesInv, UNCHANGED <<clock, encoders, files, job, started>>,
         \A f \in Sure' : f \in Sure \/ (f \in files /\ f.data /\ f.meta)
  PROVE  NamesInv'
<1>1. \A f \in Finished' : f \in Finished
  BY DEF Finished
<1>2. StartsInv' /\ FlushNamed' /\ TracksNamed'
  BY <1>1 DEF NamesInv, StartsInv, FlushNamed, TracksNamed
<1>3. FilesNamed'
  BY DEF NamesInv, FilesNamed, RecorderTypes
<1> QED BY <1>2, <1>3 DEF NamesInv

\* The steps of a flush that write files: the name is its own, and the file is finished
\* with the .json.
LEMMA FlushWritesNamed ==
  ASSUME RecorderTypes, OwnerInv, NamesInv, OpenData \/ FillData \/ WriteMeta
  PROVE  /\ NamesInv'
         /\ \A f \in files' :
              (\E g \in files : g.dir = f.dir /\ g.start = f.start /\ g.end = f.end) \/ f.end = clock
         /\ \A f \in Sure : f \in files' => f \in files
<1>1. /\ job.at \in {"data", "fill", "meta"} /\ job'.at \in {"fill", "meta", "prune"}
      /\ job.pid \in Pids /\ job.chunk.start \in Nat /\ clock \in Nat
      /\ job'.pid = job.pid /\ job'.chunk = job.chunk /\ job'.size = job.size
      /\ UNCHANGED <<clock, dirs, reader, started>> /\ Sure' = Sure
  <2>1. job.at # "idle"
    BY DEF OpenData, FillData, WriteMeta
  <2>2. job.pid \in Pids /\ job.chunk \in EncoderTrack
    BY <2>1, JobTyped
  <2> QED BY <2>2, FlushWrites, FieldTyped DEF Sure, RecorderTypes
<1>2. PICK p \in Pids : job.pid = p
  BY <1>1
<1>3. /\ OwnedBy(job.chunk.dir, p) /\ << p, job.chunk.start >> \in started /\ job.chunk.start <= clock
      /\ \A f \in Finished : ~ (f.pid = p /\ f.start = job.chunk.start)
  <2>1. << p, job.chunk.start >> \in started /\ \A f \in Finished : ~ (f.pid = p /\ f.start = job.chunk.start)
    BY <1>1, <1>2 DEF NamesInv, FlushNamed
  <2> QED BY <1>1, <1>2, <2>1 DEF OwnerInv, NamesInv, StartsInv
\* A file of the name of the flush is its own, and not finished.
<1>4. ASSUME NEW f \in files, Named(f)
      PROVE  f.pid = p /\ f.start = job.chunk.start /\ ~ f.meta
  <2>1. f.pid = p /\ f.start = job.chunk.start
    BY <1>3, <1>4 DEF Named, OwnerInv, OwnedBy
  <2> QED BY <1>3, <2>1 DEF Finished
\* The new file stands for one of the name, or is new.
<1>5. PICK new \in ChunkFile :
        /\ Named(new) /\ new.pid = p /\ new.start <= new.end /\ new.end <= clock
        /\ \A g \in files' : g = new \/ (g \in files /\ ~ Named(g))
        /\ new.meta => job'.at = "prune"
        /\ new.data /\ new.meta => job.at = "meta"
        /\ (\E g \in files : g.dir = new.dir /\ g.start = new.start /\ g.end = new.end) \/ new.end = clock
  <2>1. CASE files' = {f \in files : ~ Named(f)} \union {Opened}
    <3>1. Opened \in ChunkFile
      <4>1. /\ job.pid \in Pids /\ job.chunk.dir \in Nat /\ job.chunk.start \in Nat /\ job.chunk.buf \in Seq(Nat)
            /\ job.chunk.frames \in Nat /\ clock \in Nat
        BY <1>1, JobTyped, FieldTyped DEF RecorderTypes
      <4>2. (\E f \in files : Named(f) /\ f.meta) \in BOOLEAN
        OBVIOUS
      <4> QED BY <4>1, <4>2 DEF Opened, ChunkFile
    <3>2. /\ Named(Opened) /\ Opened.pid = p /\ Opened.start = job.chunk.start /\ Opened.end = clock
      BY <1>2 DEF Named, Opened
    <3>3. Opened.meta = FALSE
      <4>1. ~ \E f \in files : Named(f) /\ f.meta
        BY <1>4
      <4> QED BY <4>1 DEF Opened
    <3> QED BY <1>1, <1>3, <2>1, <3>1, <3>2, <3>3
  <2>2. ASSUME NEW f \in files, Named(f), NEW field \in {"data", "meta"}, files' = Mark(f, field, TRUE),
               field = "meta" => job.at = "meta" /\ job'.at = "prune"
        PROVE  \E new \in ChunkFile :
                 /\ Named(new) /\ new.pid = p /\ new.start <= new.end /\ new.end <= clock
                 /\ \A g \in files' : g = new \/ (g \in files /\ ~ Named(g))
                 /\ new.meta => job'.at = "prune"
                 /\ new.data /\ new.meta => job.at = "meta"
                 /\ (\E g \in files : g.dir = new.dir /\ g.start = new.start /\ g.end = new.end) \/ new.end = clock
    <3> DEFINE new == [f EXCEPT ![field] = TRUE]
    <3>1. f \in ChunkFile /\ f.start <= f.end /\ f.end <= clock /\ f.pid = p /\ ~ f.meta
      BY <1>4, <2>2 DEF RecorderTypes, NamesInv, FilesNamed
    <3>2. /\ new \in ChunkFile /\ new.dir = f.dir /\ new.pid = f.pid /\ new.start = f.start
      BY <3>1, FileTyped
    <3>3. new.end = f.end /\ (field = "data" => ~ new.meta)
      BY <3>1 DEF ChunkFile
    <3>4. \A g \in files : Named(g) => g = f
      BY <2>2 DEF Named, NamesInv, FilesNamed
    <3>5. files' = (files \ {f}) \union {new}
      BY <2>2 DEF Mark
    <3> HIDE DEF new
    <3>6. Named(new)
      BY <2>2, <3>2 DEF Named
    <3> QED BY <2>2, <3>1, <3>2, <3>3, <3>4, <3>5, <3>6
  <2>3. \/ files' = {f \in files : ~ Named(f)} \union {Opened}
        \/ \E f \in files, field \in {"data", "meta"} :
             /\ Named(f) /\ files' = Mark(f, field, TRUE)
             /\ field = "meta" => job.at = "meta" /\ job'.at = "prune"
    BY FlushWrites
  <2> QED BY <2>1, <2>2, <2>3
<1>6. new.start = job.chunk.start /\ new.dir = job.chunk.dir
  BY <1>5 DEF Named
<1>7. \A f \in Finished' : f \in Finished \/ (f = new /\ job'.at = "prune")
  BY <1>1, <1>5 DEF Finished
<1>8. StartsInv'
  BY <1>1 DEF NamesInv, StartsInv
<1>9. FilesNamed'
  <2>1. \A f \in files' : << f.pid, f.start >> \in started' /\ f.start <= f.end /\ f.end <= clock'
    BY <1>1, <1>3, <1>5, <1>6 DEF NamesInv, FilesNamed
  <2>2. \A f, g \in files' : f.dir = g.dir /\ f.start = g.start => f = g
    BY <1>5, <1>6 DEF NamesInv, FilesNamed, Named
  <2> QED BY <1>1, <2>1, <2>2 DEF NamesInv, FilesNamed
<1>10. FlushNamed'
  <2>1. job'.at # "prune" => \A f \in Finished' : ~ (f.pid = p /\ f.start = job.chunk.start)
    BY <1>3, <1>7
  <2>2. job.size = "none" => encoders'[p] = NoTrack
    <3>1. job.size = "none" => UNCHANGED encoders /\ encoders[p] = NoTrack
      BY <1>1, <1>2, FlushWrites DEF NamesInv, FlushNamed
    <3> QED BY <3>1
  <2> QED BY <1>1, <1>2, <1>3, <2>1, <2>2 DEF FlushNamed
<1>11. TracksNamed'
  <2>1. ASSUME UNCHANGED encoders, job'.at # "prune" PROVE TracksNamed'
    <3>1. \A f \in Finished' : f \in Finished
      BY <1>7, <2>1
    <3> QED BY <1>1, <2>1, <3>1 DEF NamesInv, TracksNamed
  <2>2. ASSUME job'.at = "prune" PROVE TracksNamed'
    <3>1. encoders'[p].buf = << >> /\ \A q \in Pids : q # p => encoders'[q] = encoders[q]
      <4>1. CASE job.size = "none"
        <5>1. UNCHANGED encoders /\ encoders[p] = NoTrack
          BY <1>1, <1>2, <4>1, FlushWrites DEF NamesInv, FlushNamed
        <5> QED BY <5>1, TracksTyped
      <4>2. CASE job.size # "none"
        BY <1>2, <2>2, <4>2, FlushWrites DEF RecorderTypes
      <4> QED BY <4>1, <4>2
    <3>2. \A q \in Pids : q # p => /\ encoders[q].enc => encoders[q].buf # << >>
                                   /\ \A f \in Finished' : ~ (f.pid = q /\ f.start = encoders[q].start) \/ encoders[q].buf = << >>
      BY <1>1, <1>5, <1>7 DEF NamesInv, TracksNamed
    <3>3. \A q \in Pids : encoders[q].buf # << >> => << q, encoders[q].start >> \in started'
      BY <1>1 DEF NamesInv, TracksNamed
    <3> QED BY <1>1, <1>2, <2>2, <3>1, <3>2, <3>3 DEF TracksNamed
  <2> QED BY <2>1, <2>2, FlushWrites
<1>12. ASSUME NEW f \in Sure, f \in files' PROVE f \in files
  <2>1. f \in Finished /\ f.data /\ f.meta
    BY DEF Finished, NamesInv, FilesNamed
  <2>2. f # new
    BY <1>3, <1>5, <1>6, <2>1
  <2> QED BY <1>5, <1>12, <2>2
<1>13. \A f \in files' : (\E g \in files : g.dir = f.dir /\ g.start = f.start /\ g.end = f.end) \/ f.end = clock
  BY <1>5
<1> QED BY <1>8, <1>9, <1>10, <1>11, <1>12, <1>13 DEF NamesInv

\* What a frame, a departure and the end of a flush do to a track.
LEMMA TrackSteps ==
  ASSUME RecorderTypes, NamesInv,
         \/ Flushed \/ \E p \in Pids : Leave(p)
         \/ \E p \in Pids : \E s \in Sizes[p] : NewTrack(p, s) \/ Encode(p, s) \/ Close(p, s)
  PROVE  \E p \in Pids, t \in EncoderTrack : TrackStep(p, t)
<1> DEFINE Stepped == \E p \in Pids, t \in EncoderTrack : TrackStep(p, t)
<1>1. ASSUME NEW p \in Pids, NEW s \in Sizes[p], NewTrack(p, s) PROVE Stepped
  <2>1. /\ UNCHANGED <<clock, files, reader, job>> /\ job.at = "idle" /\ job' = NoJob
        /\ << p, clock >> \notin started /\ started' = started \union {<< p, clock >>}
    BY <1>1 DEF NewTrack, Fresh, RecorderTypes, FlushJobs
  <2>2. PICK t \in EncoderTrack : encoders' = [encoders EXCEPT ![p] = t] /\ t.buf = << clock >> /\ t.start = clock
    BY <1>1, NewTrackBecomes
  <2>3. t.buf # << >>
    BY <2>2
  <2> QED BY <2>1, <2>2, <2>3 DEF TrackStep
<1>2. ASSUME NEW p \in Pids, NEW s \in Sizes[p], Encode(p, s) PROVE Stepped
  <2>1. /\ UNCHANGED <<clock, files, reader, job, started>> /\ job.at = "idle" /\ job' = NoJob
        /\ encoders[p] \in EncoderTrack
    BY <1>2 DEF Encode, Sampled, RecorderTypes, FlushJobs
  <2>2. encoders[p].buf \in Seq(Nat) /\ clock \in Nat
    BY <2>1, FieldTyped DEF RecorderTypes
  <2>3. PICK t \in EncoderTrack : encoders' = [encoders EXCEPT ![p] = t] /\ t = encoders'[p]
    BY <1>2, EncodeBecomes DEF Becomes
  <2>4. t.start = encoders[p].start /\ (t.enc => t.buf # << >>) /\ (t.buf # << >> => encoders[p].buf # << >>)
    <3>1. CASE encoders[p].enc
      <4>1. encoders[p].buf # << >>
        BY <2>1, <3>1 DEF NamesInv, TracksNamed
      <4>2. t = [encoders[p] EXCEPT !.buf = Append(@, clock), !.frames = @ + 1, !.last = clock]
        BY <1>2, <2>3, <3>1 DEF Encode, RecorderTypes
      <4>3. t.start = encoders[p].start /\ t.buf = Append(encoders[p].buf, clock)
        BY <2>1, <4>2 DEF EncoderTrack
      <4> QED BY <2>2, <4>1, <4>3
    <3>2. CASE ~ encoders[p].enc
      <4>1. t = [encoders[p] EXCEPT !.last = clock]
        BY <1>2, <2>3, <3>2 DEF Encode, RecorderTypes
      <4> QED BY <2>1, <3>2, <4>1 DEF EncoderTrack
    <3> QED BY <3>1, <3>2
  <2> QED BY <2>1, <2>3, <2>4 DEF TrackStep
<1>3. ASSUME NEW p \in Pids, NEW s \in Sizes[p], Close(p, s) PROVE Stepped
  <2>1. UNCHANGED <<clock, files, reader, started>> /\ job.at = "idle"
    BY <1>3 DEF Close, Sampled
  <2>2. PICK t \in EncoderTrack : encoders' = [encoders EXCEPT ![p] = t] /\ t = encoders'[p]
    BY <1>3, CloseBecomes DEF Becomes
  <2>3. /\ t.start = encoders[p].start /\ t.buf # << >> /\ encoders[p].buf # << >>
        /\ job'.at = "data" /\ job'.pid = p /\ job'.chunk.start = encoders[p].start /\ job'.size # "none"
    BY <1>3, <2>2, CloseBecomes, RecordingAssumption
  <2> QED BY <2>1, <2>2, <2>3 DEF TrackStep
<1>4. ASSUME NEW p \in Pids, Leave(p) PROVE Stepped
  <2>1. UNCHANGED <<clock, files, reader, started>> /\ job.at = "idle" /\ job = NoJob
    BY <1>4 DEF Leave, RecorderTypes, FlushJobs
  <2>2. encoders' = [encoders EXCEPT ![p] = NoTrack]
    BY <1>4, LeaveBecomes DEF Becomes
  <2>3. \/ job' = NoJob
        \/ job'.at = "data" /\ job'.pid = p /\ job'.chunk.start = encoders[p].start /\ encoders[p].buf # << >>
    BY <1>4, <2>1, LeaveBecomes
  <2> QED BY <2>1, <2>2, <2>3, TracksTyped DEF TrackStep
<1>5. CASE Flushed
  <2>1. /\ UNCHANGED <<clock, files, reader>> /\ job.at = "prune" /\ job' = NoJob /\ job.pid \in Pids
    BY <1>5, FlushedBecomes DEF Flushed, FlushJobs
  <2>2. CASE job.size = "none"
    <3>1. encoders' = [encoders EXCEPT ![job.pid] = NoTrack] /\ UNCHANGED started
      <4>1. UNCHANGED <<encoders, started>> /\ encoders[job.pid] = NoTrack
        BY <1>5, <2>1, <2>2, FlushedBecomes DEF NamesInv, FlushNamed
      <4> QED BY <4>1 DEF RecorderTypes
    <3> QED BY <2>1, <3>1, TracksTyped DEF TrackStep
  <2>3. CASE job.size # "none"
    <3>1. PICK t \in EncoderTrack : encoders' = [encoders EXCEPT ![job.pid] = t] /\ t = encoders'[job.pid]
      BY <1>5, <2>3, FlushedBecomes
    <3>2. /\ t.enc => t.buf # << >>
          /\ \/ UNCHANGED started /\ t.buf = encoders[job.pid].buf /\ t.start = encoders[job.pid].start
             \/ << job.pid, clock >> \notin started /\ started' = started \union {<< job.pid, clock >>} /\ t.start = clock
      <4>1. << job.now >> # << >>
        OBVIOUS
      <4> QED BY <1>5, <2>3, <3>1, <4>1, FlushedBecomes DEF Fresh
    <3> QED BY <2>1, <3>1, <3>2 DEF TrackStep
  <2> QED BY <2>2, <2>3
<1> QED BY <1>1, <1>2, <1>3, <1>4, <1>5

LEMMA NamesKeep == RecorderTypes /\ OwnerInv /\ NamesInv /\ [RecorderNext]_recorderVars => NamesInv'
<1> SUFFICES ASSUME RecorderTypes, OwnerInv, NamesInv, [RecorderNext]_recorderVars PROVE NamesInv'
  OBVIOUS
<1>1. CASE \/ Flushed \/ \E p \in Pids : Leave(p)
           \/ \E p \in Pids : \E s \in Sizes[p] : NewTrack(p, s) \/ Encode(p, s) \/ Close(p, s)
  BY <1>1, TrackSteps, TrackNamed
<1>2. CASE Tick \/ Prune \/ WriteFails \/ Restart \/ UNCHANGED recorderVars \/ \E p \in Pids : NewTrackFails(p)
  <2>1. clock' = clock \/ clock' = clock + 1
    BY <1>2 DEF Tick, Prune, WriteFails, Restart, recorderVars, NewTrackFails
  <2>2. UNCHANGED <<reader, started>> /\ files' \subseteq files
    BY <1>2 DEF Tick, Prune, WriteFails, Restart, recorderVars, recorder, history, NewTrackFails
  <2>3. /\ UNCHANGED job \/ (job' = NoJob /\ job.at # "prune")
        /\ UNCHANGED encoders \/ (encoders' = [p \in Pids |-> NoTrack] /\ job' = NoJob)
    <3>1. CASE Restart
      <4>1. job.at = "idle" /\ UNCHANGED job /\ encoders' = [p \in Pids |-> NoTrack]
        BY <3>1 DEF Restart
      <4>2. job = NoJob
        BY <4>1 DEF RecorderTypes, FlushJobs
      <4> QED BY <4>1, <4>2
    <3>2. CASE ~ Restart
      BY <1>2, <3>2 DEF Tick, Prune, WriteFails, recorderVars, recorder, NewTrackFails
    <3> QED BY <3>1, <3>2
  <2>4. clock' \in Nat /\ clock <= clock'
    BY <2>1 DEF RecorderTypes
  <2> QED BY <2>2, <2>3, <2>4, LossNamed
<1>3. CASE LoadMeta \/ Select \/ Read \/ Return \/ \E p \in Pids : \E op, from, to : Ask(p, op, from, to)
  <2>1. UNCHANGED <<clock, encoders, files, job, started>>
    BY <1>3 DEF LoadMeta, Select, Read, Return, Ask, recorder, history
  <2>2. \A f \in Sure' : f \in Sure \/ (f \in files /\ f.data /\ f.meta)
    <3>1. CASE LoadMeta \/ Select \/ Read \/ Return
      <4>1. reader.at # "idle" /\ (reader' = NoReader \/ (reader'.at # "idle" /\ reader'.sure = reader.sure))
        BY <3>1, CallGoesOn DEF Return
      <4> QED BY <4>1 DEF Sure, NoReader
    <3>2. CASE \E p \in Pids : \E op, from, to : Ask(p, op, from, to)
      BY <3>2 DEF Ask, Sure, InDir
    <3> QED BY <1>3, <3>1, <3>2
  <2> QED BY <2>1, <2>2, ReaderNamed
<1> QED BY <1>1, <1>2, <1>3, FlushWritesNamed DEF RecorderNext, FlushChunk

-----------------------------------------------------------------------------
(* What a call finds.                                                      *)

MetaOf(f) == [start |-> f.start, end |-> f.end, num |-> f.num]
ChunkMeta == [start : Nat, end : Nat, num : Nat]

\* What is known of a chunk ends no later than the chunk.
MetasTrue(M) ==
  /\ M \subseteq ChunkMeta
  /\ \A m \in M : m.end <= clock /\ \A f \in InDir(reader.dir) : f.start = m.start => m.end <= f.end

\* The complete chunks that are still there.
SureFiles == reader.sure \intersect files

\* A complete chunk waits to be looked at or is known as it is; later the one chunk
\* for the frame covers its time if any complete one is left, and each complete chunk
\* of a query waits to be read or has been.
LoadFound ==
  /\ MetasTrue(reader.metas)
  /\ \A f \in SureFiles : f.start \in reader.left \/ MetaOf(f) \in reader.metas

FrameFound ==
  SureFiles # {} => \E m \in ChunkMeta :
    reader.left = {m} /\ MetasTrue(reader.left) /\ Overlaps(m, reader.from, reader.to)

QueryFound ==
  /\ reader.got \in Seq(Nat)
  /\ \A f \in SureFiles : MetaOf(f) \in reader.left \/ ToSet(f.frames) \subseteq ToSet(reader.got)

CallKnown ==
  /\ reader.op \in {"frame", "query"} /\ reader.from \in Nat /\ reader.to \in Nat
  /\ reader.op = "frame" => reader.from = reader.to
  /\ \A f \in reader.sure : f.dir = reader.dir /\ Overlaps(f, reader.from, reader.to)

FoundInv ==
  reader.at # "idle" =>
    /\ CallKnown
    /\ reader.at = "load" => LoadFound /\ reader.got = << >>
    /\ reader.at = "read" => IF reader.op = "frame" THEN FrameFound ELSE QueryFound

LEMMA FoundStarts == RecorderInit => FoundInv
BY DEF RecorderInit, NoReader, FoundInv

LEMMA FirstIsOne ==
  ASSUME NEW M, NEW m \in M, \A o \in M : o.start \in Nat
  PROVE  First(M) \in M
<1>1. {o.start : o \in M} \in SUBSET Nat /\ m.start \in {o.start : o \in M}
  OBVIOUS
<1>2. PICK x \in {o.start : o \in M} : \A y \in {o.start : o \in M} : x <= y
  BY <1>1, LeastOfAll
<1>3. \E f \in M : \A o \in M : f.start <= o.start
  BY <1>2
<1> QED BY <1>3 DEF First

\* The recorder works on while a call is under way.
LEMMA FilesFound ==
  ASSUME RecorderTypes, NamesInv, FoundInv, UNCHANGED reader, clock' \in Nat, clock <= clock',
         \A f \in files' : (\E g \in files : g.dir = f.dir /\ g.start = f.start /\ g.end = f.end) \/ f.end = clock,
         \A f \in Sure : f \in files' => f \in files
  PROVE  FoundInv'
<1> SUFFICES ASSUME reader.at # "idle" PROVE FoundInv'
  BY DEF FoundInv
<1>1. SureFiles' \subseteq SureFiles
  BY DEF SureFiles, Sure
<1>2. ASSUME NEW M, MetasTrue(M)
      PROVE  M \subseteq ChunkMeta /\ \A m \in M : m.end <= clock' /\ \A f \in InDir(reader.dir)' : f.start = m.start => m.end <= f.end
  <2>1. ASSUME NEW m \in M PROVE m.end <= clock' /\ m.end <= clock
    <3>1. m.end \in Nat /\ m.end <= clock /\ clock \in Nat
      BY <1>2 DEF MetasTrue, ChunkMeta, RecorderTypes
    <3> QED BY <3>1
  <2>2. ASSUME NEW m \in M, NEW f \in files', f.dir = reader.dir, f.start = m.start PROVE m.end <= f.end
    <3>1. CASE f.end = clock
      BY <2>1, <3>1
    <3>2. CASE \E g \in files : g.dir = f.dir /\ g.start = f.start /\ g.end = f.end
      BY <1>2, <2>2, <3>2 DEF MetasTrue, InDir
    <3> QED BY <3>1, <3>2
  <2> QED BY <1>2, <2>1, <2>2 DEF MetasTrue, InDir
<1>3. CallKnown'
  BY DEF FoundInv, CallKnown, Overlaps
<1>4. CASE reader.at = "load"
  <2>1. LoadFound /\ reader.got = << >>
    BY <1>4 DEF FoundInv
  <2>2. LoadFound'
    BY <1>1, <1>2, <2>1 DEF LoadFound, MetasTrue, MetaOf
  <2> QED BY <1>3, <1>4, <2>1, <2>2 DEF FoundInv
<1>5. CASE reader.at = "read" /\ reader.op = "frame"
  <2>1. FrameFound
    BY <1>5 DEF FoundInv
  <2>2. FrameFound'
    BY <1>1, <1>2, <2>1 DEF FrameFound, MetasTrue, Overlaps
  <2> QED BY <1>3, <1>5, <2>2 DEF FoundInv
<1>6. CASE reader.at = "read" /\ reader.op # "frame"
  <2>1. QueryFound
    BY <1>6 DEF FoundInv
  <2>2. QueryFound'
    BY <1>1, <2>1 DEF QueryFound, MetaOf
  <2> QED BY <1>3, <1>6, <2>2 DEF FoundInv
<1> QED BY <1>3, <1>4, <1>5, <1>6 DEF FoundInv

LEMMA AskFound ==
  ASSUME RecorderTypes, NamesInv, NEW p, NEW op \in {"frame", "query"}, NEW from \in Nat, NEW to \in Nat,
         op = "frame" => from = to, Ask(p, op, from, to)
  PROVE  FoundInv'
<1>1. reader' = [at |-> "load", op |-> op, pid |-> p, dir |-> PidDir(p), from |-> from, to |-> to,
                 left |-> {f.start : f \in InDir(PidDir(p))}, metas |-> {}, got |-> << >>,
                 sure |-> {f \in InDir(PidDir(p)) : f.data /\ f.meta /\ Overlaps(f, from, to)}]
      /\ UNCHANGED files
  BY DEF Ask, recorder
<1>2. CallKnown'
  BY <1>1 DEF CallKnown, InDir, Overlaps
<1>3. LoadFound'
  BY <1>1 DEF LoadFound, MetasTrue, SureFiles
<1> QED BY <1>1, <1>2, <1>3 DEF FoundInv

\* A complete chunk is known by its .json.
LEMMA LoadKnows ==
  ASSUME RecorderTypes, NamesInv, FoundInv, LoadMeta
  PROVE  FoundInv'
<1> SUFFICES ASSUME reader' # NoReader PROVE FoundInv'
  BY DEF FoundInv, NoReader
<1>1. /\ reader.at = "load" /\ UNCHANGED <<files, clock>> /\ CallKnown /\ LoadFound /\ reader.got = << >>
  BY DEF LoadMeta, FoundInv, recorder
<1>2. PICK next : next = Min(reader.left)
  OBVIOUS
<1>3. PICK f \in files :
        /\ f.dir = reader.dir /\ f.start = next
        /\ reader' = [reader EXCEPT !.left = @ \ {next},
                        !.metas = @ \union {IF f.meta THEN MetaOf(f) ELSE [start |-> f.start, end |-> f.start, num |-> 0]}]
  <2> DEFINE found == {f \in files : f.dir = reader.dir /\ f.start = next}
             after(f) == [reader EXCEPT !.left = @ \ {next},
                            !.metas = @ \union {IF f.meta THEN MetaOf(f) ELSE [start |-> f.start, end |-> f.start, num |-> 0]}]
  <2>1. IF found # {} THEN \E f \in found : reader' = after(f) ELSE reader' = NoReader
    BY <1>2, Zenon DEF LoadMeta, MetaOf
  <2> HIDE DEF after
  <2>2. PICK f \in files : f.dir = reader.dir /\ f.start = next /\ reader' = after(f)
    BY <2>1
  <2> QED BY <2>2 DEF after
<1> DEFINE new == IF f.meta THEN MetaOf(f) ELSE [start |-> f.start, end |-> f.start, num |-> 0]
<1>4. /\ reader'.left = reader.left \ {next} /\ reader'.metas = reader.metas \union {new}
      /\ reader'.at = "load" /\ reader'.got = << >>
      /\ reader'.op = reader.op /\ reader'.pid = reader.pid /\ reader'.dir = reader.dir
      /\ reader'.from = reader.from /\ reader'.to = reader.to /\ reader'.sure = reader.sure
  <2>1. CallFields \subseteq DOMAIN reader
    BY <1>1 DEF RecorderTypes
  <2> QED BY <1>1, <1>3, <2>1 DEF CallFields
<1>5. f \in ChunkFile /\ f.start <= f.end /\ f.end <= clock /\ clock \in Nat
  BY DEF RecorderTypes, NamesInv, FilesNamed
<1>6. new \in ChunkMeta /\ new.start = f.start /\ new.end <= f.end /\ new.end <= clock
  BY <1>5 DEF MetaOf, ChunkMeta, ChunkFile
<1> HIDE DEF new
<1>7. \A g \in files : g.dir = reader.dir /\ g.start = new.start => g = f
  BY <1>3, <1>6 DEF NamesInv, FilesNamed
<1>8. MetasTrue(reader.metas \union {new})
  BY <1>1, <1>6, <1>7 DEF LoadFound, MetasTrue, InDir
<1>9. MetasTrue(reader.metas)'
  BY <1>1, <1>4, <1>8 DEF MetasTrue, InDir
<1>10. ASSUME NEW g \in SureFiles PROVE g.start \in reader'.left \/ MetaOf(g) \in reader'.metas
  <2>1. g \in files /\ g.dir = reader.dir /\ g.meta
    BY <1>1 DEF SureFiles, CallKnown, NamesInv, FilesNamed, Sure
  <2>2. CASE g.start = next
    <3>1. g = f
      BY <1>3, <2>1, <2>2 DEF NamesInv, FilesNamed
    <3> QED BY <1>4, <2>1, <3>1 DEF new
  <2>3. CASE g.start # next
    BY <1>1, <1>4, <2>3 DEF LoadFound
  <2> QED BY <2>2, <2>3
<1>11. LoadFound'
  BY <1>1, <1>4, <1>9, <1>10 DEF LoadFound, SureFiles, MetaOf
<1>12. CallKnown'
  BY <1>1, <1>4 DEF CallKnown, Overlaps
<1> QED BY <1>4, <1>11, <1>12 DEF FoundInv

\* What covers the time asked for is selected if there is any.
LEMMA SelectFinds ==
  ASSUME RecorderTypes, NamesInv, FoundInv, Select
  PROVE  FoundInv'
<1> SUFFICES ASSUME reader' # NoReader PROVE FoundInv'
  BY DEF FoundInv, NoReader
<1>1. /\ reader.at = "load" /\ reader.left = {} /\ UNCHANGED <<files, clock>> /\ CallKnown /\ LoadFound
      /\ reader.got = << >>
  BY DEF Select, FoundInv, recorder
<1> DEFINE sel == IF reader.op = "frame" THEN ChunkAt(reader.metas, reader.from)
                  ELSE Window(reader.metas, reader.from, reader.to)
           in  == {m \in reader.metas : Overlaps(m, reader.from, reader.to)}
<1>2. reader' = [reader EXCEPT !.at = "read", !.left = sel]
  BY DEF Select
<1> HIDE DEF sel
<1>3. /\ reader'.left = sel /\ reader'.at = "read" /\ reader'.got = << >>
      /\ reader'.op = reader.op /\ reader'.pid = reader.pid /\ reader'.dir = reader.dir
      /\ reader'.from = reader.from /\ reader'.to = reader.to /\ reader'.sure = reader.sure
  <2>1. CallFields \subseteq DOMAIN reader
    BY <1>1 DEF RecorderTypes
  <2> QED BY <1>1, <1>2, <2>1 DEF CallFields
<1>4. ASSUME NEW f \in SureFiles PROVE MetaOf(f) \in in
  <2>1. MetaOf(f) \in reader.metas /\ Overlaps(f, reader.from, reader.to)
    BY <1>1 DEF LoadFound, CallKnown, SureFiles
  <2> QED BY <2>1 DEF MetaOf, Overlaps
<1>5. CallKnown'
  BY <1>1, <1>3 DEF CallKnown, Overlaps
<1>6. CASE reader.op = "frame"
  <2>1. ASSUME SureFiles # {} PROVE sel = {First(in)} /\ First(in) \in in
    <3>1. in # {}
      BY <1>4, <2>1
    <3>2. sel = {First(in)}
      <4>1. reader.from = reader.to
        BY <1>1, <1>6 DEF CallKnown
      <4> QED BY <1>6, <3>1, <4>1 DEF sel, ChunkAt
    <3>3. PICK m : m \in in
      BY <3>1
    <3>4. \A o \in in : o.start \in Nat
      BY <1>1 DEF LoadFound, MetasTrue, ChunkMeta
    <3>5. First(in) \in in
      <4> HIDE DEF in
      <4> QED BY <3>3, <3>4, FirstIsOne
    <3> QED BY <3>2, <3>5
  <2>2. ASSUME SureFiles # {}
        PROVE  \E m \in ChunkMeta : sel = {m} /\ MetasTrue(sel) /\ Overlaps(m, reader.from, reader.to)
    <3>1. First(in) \in reader.metas /\ Overlaps(First(in), reader.from, reader.to)
      BY <2>1, <2>2
    <3>2. PICK m : m = First(in)
      OBVIOUS
    <3>3. m \in ChunkMeta /\ MetasTrue({m})
      BY <1>1, <3>1, <3>2 DEF LoadFound, MetasTrue
    <3> QED BY <2>1, <2>2, <3>1, <3>2, <3>3
  <2>3. FrameFound'
    BY <1>1, <1>3, <2>2 DEF FrameFound, SureFiles, MetasTrue, InDir, Overlaps
  <2> QED BY <1>3, <1>5, <1>6, <2>3 DEF FoundInv
<1>7. CASE reader.op # "frame"
  <2>1. \A f \in SureFiles : MetaOf(f) \in sel
    <3>1. SureFiles # {} => sel = in
      BY <1>4, <1>7 DEF sel, Window
    <3> QED BY <1>4, <3>1
  <2>2. QueryFound'
    BY <1>1, <1>3, <2>1 DEF QueryFound, SureFiles, MetaOf
  <2> QED BY <1>3, <1>5, <1>7, <2>2 DEF FoundInv
<1> QED BY <1>6, <1>7

LEMMA FramesJoin ==
  ASSUME NEW s \in Seq(Nat), NEW u \in Seq(Nat)
  PROVE  s \o u \in Seq(Nat) /\ ToSet(s) \subseteq ToSet(s \o u) /\ ToSet(u) \subseteq ToSet(s \o u)
<1>1. /\ s \o u \in Seq(Nat) /\ Len(s \o u) = Len(s) + Len(u) /\ Len(s) \in Nat /\ Len(u) \in Nat
      /\ \A i \in 1 .. Len(s) : (s \o u)[i] = s[i]
      /\ \A i \in 1 .. Len(u) : (s \o u)[Len(s) + i] = u[i]
  OBVIOUS
<1>2. ToSet(s) \subseteq ToSet(s \o u)
  BY <1>1 DEF ToSet
<1>3. ToSet(u) \subseteq ToSet(s \o u)
  <2>1. DOMAIN u = 1 .. Len(u) /\ DOMAIN (s \o u) = 1 .. Len(s \o u)
    BY <1>1
  <2>2. ASSUME NEW i \in DOMAIN u PROVE \E j \in DOMAIN (s \o u) : u[i] = (s \o u)[j]
    <3>1. Len(s) + i \in DOMAIN (s \o u) /\ u[i] = (s \o u)[Len(s) + i]
      BY <1>1, <2>1
    <3> QED BY <3>1
  <2> QED BY <2>2, Zenon DEF ToSet
<1> QED BY <1>1, <1>2, <1>3

\* The file of a complete chunk gives all of its frames.
LEMMA CompleteContents ==
  ASSUME RecorderTypes, NamesInv, FoundInv, reader.at = "read", NEW f \in SureFiles, MetaOf(f) = Due,
         NEW g \in NextFile, NEW c \in Contents(g)
  PROVE  c = f.frames
<1>1. f \in files /\ f.dir = reader.dir /\ f.data
  BY DEF SureFiles, FoundInv, CallKnown, NamesInv, FilesNamed, Sure
<1>2. g \in files /\ g.dir = reader.dir /\ g.start = f.start
  BY DEF NextFile, MetaOf
<1>3. g = f
  BY <1>1, <1>2 DEF NamesInv, FilesNamed
<1> QED BY <1>1, <1>3 DEF Contents

LEMMA ContentsTyped == ASSUME RecorderTypes, NEW g \in files, NEW c \in Contents(g) PROVE c \in Seq(Nat)
<1>1. g.frames \in Seq(Nat)
  BY DEF RecorderTypes, ChunkFile
<1>2. CASE g.data
  BY <1>1, <1>2 DEF Contents
<1>3. CASE ~ g.data
  <2>1. PICK k \in 0 .. Len(g.frames) : c = SubSeq(g.frames, 1, k)
    BY <1>3 DEF Contents
  <2> QED BY <1>1, <2>1
<1> QED BY <1>2, <1>3

\* A call reads one chunk after another.
LEMMA ReadKeeps ==
  ASSUME RecorderTypes, NamesInv, FoundInv, Read
  PROVE  FoundInv'
<1>1. reader.at = "read" /\ ~ LastOne /\ UNCHANGED <<files, clock>> /\ CallKnown
  BY DEF Read, FoundInv, recorder
<1>2. PICK g \in NextFile : \E c \in Contents(g) : reader' = [reader EXCEPT !.left = @ \ {Due}, !.got = @ \o c]
  BY DEF Read
<1>3. PICK c \in Contents(g) : reader' = [reader EXCEPT !.left = @ \ {Due}, !.got = @ \o c]
  BY <1>2
<1>4. PICK due : due = Due
  OBVIOUS
<1>5. /\ reader'.left = reader.left \ {due} /\ reader'.got = reader.got \o c /\ reader'.at = "read"
      /\ reader'.op = reader.op /\ reader'.pid = reader.pid /\ reader'.dir = reader.dir
      /\ reader'.from = reader.from /\ reader'.to = reader.to /\ reader'.sure = reader.sure
  <2>1. CallFields \subseteq DOMAIN reader
    BY <1>1 DEF RecorderTypes
  <2> QED BY <1>1, <1>3, <1>4, <2>1 DEF CallFields
<1>6. CallKnown'
  BY <1>1, <1>5 DEF CallKnown, Overlaps
<1>7. SureFiles' = SureFiles
  BY <1>1, <1>5 DEF SureFiles
<1>8. CASE reader.op = "frame"
  <2>1. SureFiles = {}
    <3> SUFFICES ASSUME SureFiles # {} PROVE FALSE
      OBVIOUS
    <3>1. PICK m \in ChunkMeta : reader.left = {m}
      BY <1>1, <1>8 DEF FoundInv, FrameFound
    <3>2. First({m}) \in {m}
      <4>1. m \in {m} /\ \A o \in {m} : o.start \in Nat
        BY DEF ChunkMeta
      <4> QED BY <4>1, FirstIsOne
    <3> QED BY <1>1, <3>1, <3>2 DEF LastOne, Due
  <2>2. FrameFound'
    BY <1>7, <2>1 DEF FrameFound
  <2> QED BY <1>5, <1>6, <1>8, <2>2 DEF FoundInv
<1>9. CASE reader.op # "frame"
  <2>1. QueryFound
    BY <1>1, <1>9 DEF FoundInv
  <2>2. g \in files /\ c \in Seq(Nat) /\ reader.got \in Seq(Nat)
    BY <2>1, ContentsTyped DEF NextFile, QueryFound
  <2>3. /\ reader.got \o c \in Seq(Nat)
        /\ ToSet(reader.got) \subseteq ToSet(reader.got \o c) /\ ToSet(c) \subseteq ToSet(reader.got \o c)
    <3>1. PICK s \in Seq(Nat) : s = reader.got
      BY <2>2
    <3> QED BY <2>2, <3>1, FramesJoin
  <2>4. ASSUME NEW f \in SureFiles
        PROVE  MetaOf(f) \in reader.left \ {due} \/ ToSet(f.frames) \subseteq ToSet(reader.got \o c)
    <3>1. CASE MetaOf(f) = due
      BY <1>1, <1>4, <2>3, <3>1, CompleteContents
    <3>2. CASE MetaOf(f) # due
      BY <2>1, <2>3, <3>2 DEF QueryFound
    <3> QED BY <3>1, <3>2
  <2>5. QueryFound'
    BY <1>5, <1>7, <2>3, <2>4 DEF QueryFound, MetaOf
  <2> QED BY <1>5, <1>6, <1>9, <2>5 DEF FoundInv
<1> QED BY <1>8, <1>9

LEMMA FoundKeeps ==
  RecorderTypes /\ OwnerInv /\ NamesInv /\ FoundInv /\ [RecorderNext]_recorderVars => FoundInv'
<1> SUFFICES ASSUME RecorderTypes, OwnerInv, NamesInv, FoundInv, [RecorderNext]_recorderVars PROVE FoundInv'
  OBVIOUS
<1>1. CASE OpenData \/ FillData \/ WriteMeta
  <2>1. UNCHANGED <<reader, clock>> /\ clock \in Nat
    BY <1>1 DEF OpenData, FillData, WriteMeta, RecorderTypes
  <2>2. clock' \in Nat /\ clock <= clock'
    BY <2>1
  <2> QED BY <1>1, <2>1, <2>2, FlushWritesNamed, FilesFound
<1>2. ASSUME UNCHANGED reader, files' \subseteq files, clock' = clock \/ clock' = clock + 1 PROVE FoundInv'
  <2>1. clock' \in Nat /\ clock <= clock'
    BY <1>2 DEF RecorderTypes
  <2> QED BY <1>2, <2>1, FilesFound
<1>3. CASE Tick \/ WriteFails \/ Prune \/ Flushed \/ Restart \/ UNCHANGED recorderVars
  BY <1>2, <1>3 DEF Tick, WriteFails, Prune, Flushed, Restart, recorderVars, recorder
<1>4. CASE \E p \in Pids : NewTrackFails(p) \/ Leave(p) \/ \E s \in Sizes[p] : NewTrack(p, s) \/ Encode(p, s) \/ Close(p, s)
  <2>1. PICK p \in Pids : NewTrackFails(p) \/ Leave(p) \/ \E s \in Sizes[p] : NewTrack(p, s) \/ Encode(p, s) \/ Close(p, s)
    BY <1>4
  <2>2. CASE NewTrackFails(p) \/ Leave(p)
    BY <1>2, <2>2 DEF NewTrackFails, Leave
  <2>3. ASSUME NEW s \in Sizes[p], NewTrack(p, s) \/ Encode(p, s) \/ Close(p, s) PROVE FoundInv'
    BY <1>2, <2>3 DEF NewTrack, Encode, Close
  <2> QED BY <2>1, <2>2, <2>3
<1>5. CASE Return
  BY <1>5 DEF Return, FoundInv, NoReader
<1>6. CASE \E p \in Pids : (\E t \in Instants : Ask(p, "frame", t, t)) \/ \E q \in Queries : Ask(p, "query", q[1], q[2])
  BY <1>6, AskFound, RecordingAssumption
<1> QED BY <1>1, <1>3, <1>4, <1>5, <1>6, LoadKnows, SelectFinds, ReadKeeps DEF RecorderNext, FlushChunk

\* get_frame_from_time and query_video find what was there: a chunk that was complete
\* when the call began, covers the time asked for and has not been evicted since is in
\* the answer to a query, and a frame is from a chunk that covers its time if one is left.
THEOREM FinishedAreFound == RecorderSpec => []CompleteChunksFound
<1>1. RecorderTypes /\ NamesInv /\ FoundInv => CompleteChunksFound
  <2> SUFFICES ASSUME RecorderTypes, NamesInv, FoundInv, NEW a \in Answers, NEW f \in SureFiles
               PROVE  IF a.kind = "frame" THEN Overlaps(a.chunk, reader.from, reader.to)
                      ELSE ToSet(f.frames) \subseteq ToSet(a.frames)
    BY DEF CompleteChunksFound, SureFiles
  <2>1. reader.at = "read" /\ LastOne /\ CallKnown
    BY DEF Answers, FoundInv
  <2>2. PICK g \in NextFile :
          IF reader.op = "frame" THEN \E c : a = FrameAnswer(g, Due, c)
          ELSE \E c \in Contents(g) : a = [kind |-> "video", frames |-> reader.got \o c]
    BY <2>1 DEF Answers
  <2>3. g \in files /\ g.dir = reader.dir /\ g.start = Due.start /\ g \in ChunkFile
    BY DEF NextFile, RecorderTypes
  <2>4. CASE reader.op = "frame"
    <3>1. a.kind = "frame" /\ a.chunk = g
      <4>1. PICK c : a = FrameAnswer(g, Due, c)
        BY <2>2, <2>4
      <4>2. FrameAnswer(g, Due, c).kind = "frame" /\ FrameAnswer(g, Due, c).chunk = g
        BY DEF FrameAnswer
      <4> QED BY <4>1, <4>2
    <3>2. PICK m \in ChunkMeta : reader.left = {m} /\ MetasTrue(reader.left) /\ Overlaps(m, reader.from, reader.to)
      BY <2>1, <2>4 DEF FoundInv, FrameFound
    <3>3. Due = m
      BY <2>1, <3>2 DEF LastOne
    <3>4. m.end <= g.end
      BY <2>3, <3>2, <3>3 DEF MetasTrue, InDir
    <3>5. Overlaps(g, reader.from, reader.to)
      <4>1. reader.from \in Nat /\ g.end \in Nat /\ m.end \in Nat
        BY <2>1, <2>3 DEF CallKnown, ChunkFile, ChunkMeta
      <4> QED BY <2>3, <3>2, <3>3, <3>4, <4>1 DEF Overlaps
    <3> QED BY <3>1, <3>5
  <2>5. CASE reader.op # "frame"
    <3>1. PICK c \in Contents(g) : a = [kind |-> "video", frames |-> reader.got \o c]
      BY <2>2, <2>5
    <3>2. QueryFound
      BY <2>1, <2>5 DEF FoundInv
    <3>3. c \in Seq(Nat) /\ reader.got \in Seq(Nat)
      BY <2>3, <3>2, ContentsTyped DEF QueryFound
    <3>4. ToSet(reader.got) \subseteq ToSet(reader.got \o c) /\ ToSet(c) \subseteq ToSet(reader.got \o c)
      <4>1. PICK s \in Seq(Nat) : s = reader.got
        BY <3>3
      <4> QED BY <3>3, <4>1, FramesJoin
    <3>5. ToSet(f.frames) \subseteq ToSet(reader.got \o c)
      <4>1. CASE MetaOf(f) \in reader.left
        <5>1. MetaOf(f) = Due
          BY <2>1, <4>1 DEF LastOne
        <5> QED BY <2>1, <3>4, <5>1, CompleteContents
      <4>2. CASE MetaOf(f) \notin reader.left
        BY <3>2, <3>4, <4>2 DEF QueryFound
      <4> QED BY <4>1, <4>2
    <3> QED BY <3>1, <3>5
  <2> QED BY <2>4, <2>5
<1> QED BY <1>1, OwnersStart, NamesStart, FoundStarts, OwnersKeep, NamesKeep, FoundKeeps, PTL DEF RecorderSpec

-----------------------------------------------------------------------------
(* Which frame a call answers with.                                        *)

\* A chunk of p that started then is no longer in the hands of its track or of a flush.
Settled(p, start) ==
  /\ << p, start >> \in started
  /\ encoders[p].buf # << >> => encoders[p].start # start
  /\ job.at \notin {"idle", "prune"} /\ job.pid = p => job.chunk.start # start

\* What a .json says of a chunk in the directory d of p, the file of the chunk says as long
\* as there is one.
Described(d, p, m) ==
  m.num > 0 =>
    /\ Settled(p, m.start)
    /\ \A f \in files : f.dir = d /\ f.start = m.start => f.data /\ MetaOf(f) = m

\* A call for a frame goes by what the files say.
KnownInv ==
  /\ reader.at = "load" =>
       /\ reader.metas \subseteq ChunkMeta /\ (reader.left # {} \/ reader.metas # {})
       /\ \A m \in reader.metas : Described(reader.dir, reader.pid, m)
  /\ reader.at = "read" /\ reader.op = "frame" =>
       \E m \in ChunkMeta : reader.left = {m} /\ Described(reader.dir, reader.pid, m)

\* The .json comes after the .264 file.
DataInv ==
  /\ \A f \in files : f.meta => f.data
  /\ job.at = "meta" => \A f \in files : Named(f) => f.data

LEMMA SettledByTrack ==
  ASSUME RecorderTypes, NEW p \in Pids, NEW start, Settled(p, start),
         NEW q \in Pids, NEW t \in EncoderTrack, TrackStep(q, t)
  PROVE  Settled(p, start)'
<1>1. /\ encoders'[q] = t /\ \A o \in Pids : o # q => encoders'[o] = encoders[o]
      /\ started \subseteq started'
  BY DEF RecorderTypes, TrackStep
<1>2. encoders'[p].buf # << >> => encoders'[p].start # start
  BY <1>1 DEF Settled, TrackStep
<1>3. job'.at \notin {"idle", "prune"} /\ job'.pid = p => job'.chunk.start # start
  BY DEF Settled, TrackStep, NoJob
<1> QED BY <1>1, <1>2, <1>3 DEF Settled

\* A flush writes under the name of its chunk.
LEMMA FlushWritesOther ==
  ASSUME RecorderTypes, OwnerInv, NamesInv, OpenData \/ FillData \/ WriteMeta,
         NEW p \in Pids, NEW d, OwnedBy(d, p), NEW start, Settled(p, start)
  PROVE  /\ Settled(p, start)'
         /\ \A f \in files' : f.dir = d /\ f.start = start => f \in files
<1>1. /\ job.at \in {"data", "fill", "meta"} /\ job.pid \in Pids
      /\ job'.pid = job.pid /\ job'.chunk = job.chunk /\ UNCHANGED started
      /\ OwnedBy(job.chunk.dir, job.pid)
  <2>1. job.at # "idle"
    BY DEF OpenData, FillData, WriteMeta
  <2> QED BY <2>1, JobTyped, FlushWrites DEF OwnerInv
<1>2. ~ (job.chunk.dir = d /\ job.chunk.start = start)
  BY <1>1 DEF OwnedBy, Settled
<1>3. \A o \in Pids : encoders'[o].buf = << >> \/ encoders'[o] = encoders[o]
  <2>1. CASE job'.at # "prune" \/ job.size = "none"
    BY <2>1, FlushWrites
  <2>2. CASE job'.at = "prune" /\ job.size # "none"
    <3>1. PICK t \in EncoderTrack : encoders' = [encoders EXCEPT ![job.pid] = t] /\ t.buf = << >>
      BY <2>2, FlushWrites
    <3> QED BY <3>1 DEF RecorderTypes
  <2> QED BY <2>1, <2>2
<1>4. Settled(p, start)'
  BY <1>1, <1>3 DEF Settled
<1>5. ASSUME NEW f \in files' PROVE f \in files \/ (f.dir = job.chunk.dir /\ f.start = job.chunk.start)
  <2>1. CASE f = Opened
    BY <2>1 DEF Opened
  <2>2. CASE \E g \in files, field \in {"data", "meta"} : Named(g) /\ f = [g EXCEPT ![field] = TRUE]
    <3>1. PICK g \in files, field \in {"data", "meta"} : Named(g) /\ f = [g EXCEPT ![field] = TRUE]
      BY <2>2
    <3>2. g \in ChunkFile
      BY DEF RecorderTypes
    <3> QED BY <3>1, <3>2, FileTyped DEF Named
  <2> QED BY <2>1, <2>2, FlushWrites DEF Mark
<1> QED BY <1>2, <1>4, <1>5

\* A step of the recorder leaves what is settled alone.
LEMMA DescribedStays ==
  ASSUME RecorderTypes, OwnerInv, NamesInv, [RecorderNext]_recorderVars,
         NEW p \in Pids, NEW d, OwnedBy(d, p), NEW m \in ChunkMeta, Described(d, p, m)
  PROVE  Described(d, p, m)'
<1> SUFFICES ASSUME m.num > 0 PROVE Described(d, p, m)'
  BY DEF Described
<1>1. Settled(p, m.start) /\ \A f \in files : f.dir = d /\ f.start = m.start => f.data /\ MetaOf(f) = m
  BY DEF Described
<1>2. ASSUME Settled(p, m.start)', \A f \in files' : f.dir = d /\ f.start = m.start => f \in files
      PROVE  Described(d, p, m)'
  BY <1>1, <1>2 DEF Described, MetaOf
<1>3. CASE \/ Flushed \/ \E q \in Pids : Leave(q)
           \/ \E q \in Pids : \E s \in Sizes[q] : NewTrack(q, s) \/ Encode(q, s) \/ Close(q, s)
  <2>1. PICK q \in Pids, t \in EncoderTrack : TrackStep(q, t)
    BY <1>3, TrackSteps
  <2>2. PICK start : start = m.start
    OBVIOUS
  <2>3. Settled(p, start)'
    BY <1>1, <2>1, <2>2, SettledByTrack
  <2> QED BY <1>2, <2>1, <2>2, <2>3 DEF TrackStep
<1>4. CASE OpenData \/ FillData \/ WriteMeta
  <2>1. PICK start : start = m.start
    OBVIOUS
  <2>2. Settled(p, start)' /\ \A f \in files' : f.dir = d /\ f.start = start => f \in files
    BY <1>1, <1>4, <2>1, FlushWritesOther
  <2> QED BY <1>2, <2>1, <2>2
<1>5. CASE \/ Tick \/ Prune \/ WriteFails \/ Restart \/ UNCHANGED recorderVars \/ \E q \in Pids : NewTrackFails(q)
           \/ LoadMeta \/ Select \/ Read \/ Return \/ \E q \in Pids : \E op, from, to : Ask(q, op, from, to)
  <2>1. /\ UNCHANGED started /\ files' \subseteq files
        /\ UNCHANGED job \/ job' = NoJob
        /\ UNCHANGED encoders \/ encoders' = [q \in Pids |-> NoTrack]
    BY <1>5 DEF Tick, Prune, WriteFails, Restart, recorderVars, recorder, history, NewTrackFails,
                LoadMeta, Select, Read, Return, Ask
  <2>2. Settled(p, m.start)'
    BY <1>1, <2>1, TracksTyped DEF Settled, NoJob
  <2> QED BY <1>2, <2>1, <2>2
<1> QED BY <1>3, <1>4, <1>5 DEF RecorderNext, FlushChunk

LEMMA DataKeeps ==
  ASSUME RecorderTypes, OwnerInv, NamesInv, DataInv, [RecorderNext]_recorderVars
  PROVE  DataInv'
<1>1. CASE OpenData \/ FillData \/ WriteMeta
  <2>1. /\ job.at # "idle" /\ job.pid \in Pids /\ OwnedBy(job.chunk.dir, job.pid)
        /\ job'.chunk = job.chunk
    <3>1. job.at # "idle"
      BY <1>1 DEF OpenData, FillData, WriteMeta
    <3> QED BY <1>1, <3>1, JobTyped, FlushWrites DEF OwnerInv
  <2>2. \A f \in files : Named(f)' <=> Named(f)
    BY <2>1 DEF Named
  <2>3. CASE job.at = "data" /\ job'.at = "fill" /\ files' = {f \in files : ~ Named(f)} \union {Opened}
    <3>1. ASSUME NEW f \in files, Named(f) PROVE ~ f.meta
      <4>1. f.pid = job.pid
        BY <2>1, <3>1 DEF Named, OwnerInv, OwnedBy
      <4> QED BY <2>1, <2>3, <3>1, <4>1 DEF Named, NamesInv, FlushNamed, Finished
    <3>2. Opened.meta = FALSE
      BY <3>1 DEF Opened
    <3> QED BY <2>3, <3>2 DEF DataInv
  <2>4. CASE \E f \in files : Named(f) /\ files' = Mark(f, "data", TRUE)
    <3>1. PICK f \in files : Named(f) /\ files' = Mark(f, "data", TRUE)
      BY <2>4
    <3>2. PICK new : new = [f EXCEPT !["data"] = TRUE]
      OBVIOUS
    <3>3. new.data = TRUE /\ files' = (files \ {f}) \union {new}
      BY <3>1, <3>2 DEF Mark, RecorderTypes, ChunkFile
    <3>4. \A g \in files : Named(g) => g = f
      BY <3>1 DEF Named, NamesInv, FilesNamed
    <3> QED BY <2>1, <3>3, <3>4 DEF DataInv, Named
  <2>5. CASE job.at = "meta" /\ job'.at = "prune" /\ \E f \in files : Named(f) /\ files' = Mark(f, "meta", TRUE)
    <3>1. PICK f \in files : Named(f) /\ files' = Mark(f, "meta", TRUE)
      BY <2>5
    <3>2. PICK new : new = [f EXCEPT !["meta"] = TRUE]
      OBVIOUS
    <3>3. new.data /\ files' = (files \ {f}) \union {new}
      <4>1. f.data /\ f \in ChunkFile
        BY <2>5, <3>1 DEF DataInv, RecorderTypes
      <4>2. new.data = f.data
        BY <3>2, <4>1 DEF ChunkFile
      <4> QED BY <3>1, <3>2, <4>1, <4>2 DEF Mark
    <3> QED BY <2>5, <3>3 DEF DataInv
  <2> QED BY <1>1, <2>3, <2>4, <2>5, FlushWrites
<1>2. CASE ~ (OpenData \/ FillData \/ WriteMeta)
  <2>1. files' \subseteq files /\ (job'.at = "meta" => UNCHANGED job)
    <3>1. CASE \/ Flushed \/ \E q \in Pids : Leave(q)
               \/ \E q \in Pids : \E s \in Sizes[q] : NewTrack(q, s) \/ Encode(q, s) \/ Close(q, s)
      <4>1. PICK q \in Pids, t \in EncoderTrack : TrackStep(q, t)
        BY <3>1, TrackSteps
      <4>2. job'.at # "meta"
        BY <4>1 DEF TrackStep, NoJob
      <4> QED BY <4>1, <4>2 DEF TrackStep
    <3>2. CASE \/ Tick \/ Prune \/ WriteFails \/ Restart \/ UNCHANGED recorderVars \/ \E q \in Pids : NewTrackFails(q)
               \/ LoadMeta \/ Select \/ Read \/ Return \/ \E q \in Pids : \E op, from, to : Ask(q, op, from, to)
      <4>1. files' \subseteq files /\ (UNCHANGED job \/ job' = NoJob)
        BY <3>2 DEF Tick, Prune, WriteFails, Restart, recorderVars, recorder, history, NewTrackFails,
                  LoadMeta, Select, Read, Return, Ask
      <4> QED BY <4>1 DEF NoJob
    <3> QED BY <1>2, <3>1, <3>2 DEF RecorderNext, FlushChunk
  <2> QED BY <2>1 DEF DataInv, Named
<1> QED BY <1>1, <1>2

\* A .json tells of a file that is complete and that nobody writes to any more.
LEMMA MetaDescribes ==
  ASSUME RecorderTypes, OwnerInv, NamesInv, DataInv, NEW p \in Pids, NEW d, OwnedBy(d, p),
         NEW f \in files, f.dir = d, f.meta
  PROVE  Described(d, p, MetaOf(f))
<1>1. f.pid = p /\ f \in Finished /\ f.data
  BY DEF OwnerInv, OwnedBy, Finished, DataInv
<1>2. << p, f.start >> \in started
  BY <1>1 DEF NamesInv, FilesNamed
<1>3. encoders[p].buf # << >> => encoders[p].start # f.start
  BY <1>1 DEF NamesInv, TracksNamed
<1>4. job.at \notin {"idle", "prune"} /\ job.pid = p => job.chunk.start # f.start
  BY <1>1 DEF NamesInv, FlushNamed
<1>5. \A g \in files : g.dir = d /\ g.start = f.start => g = f
  BY DEF NamesInv, FilesNamed
<1> QED BY <1>1, <1>2, <1>3, <1>4, <1>5 DEF Described, Settled, MetaOf

\* What a call knows of the next chunk is what its .json says, or nothing.
LEMMA LoadDescribes ==
  ASSUME RecorderTypes, OwnerInv, NamesInv, DataInv, KnownInv, LoadMeta
  PROVE  KnownInv'
<1> SUFFICES ASSUME reader' # NoReader PROVE KnownInv'
  BY DEF KnownInv, NoReader
<1>1. reader.at = "load" /\ UNCHANGED <<clock, recorder, history>> /\ CallFields \subseteq DOMAIN reader
  <2>1. reader.at = "load" /\ UNCHANGED <<clock, recorder, history>>
    BY Zenon DEF LoadMeta
  <2> QED BY <2>1 DEF RecorderTypes
<1>2. PICK d, p : reader.dir = d /\ reader.pid = p /\ p \in Pids /\ OwnedBy(d, p)
  BY <1>1 DEF OwnerInv
<1>3. PICK f, next, new :
        /\ f \in files /\ f.dir = d /\ new = IF f.meta THEN MetaOf(f) ELSE [start |-> f.start, end |-> f.start, num |-> 0]
        /\ reader' = [reader EXCEPT !.left = @ \ {next}, !.metas = @ \union {new}]
  <2> DEFINE found == {f \in files : f.dir = reader.dir /\ f.start = Min(reader.left)}
             news(f) == IF f.meta THEN MetaOf(f) ELSE [start |-> f.start, end |-> f.start, num |-> 0]
             after(f) == [reader EXCEPT !.left = @ \ {Min(reader.left)}, !.metas = @ \union {news(f)}]
  <2>1. IF found # {} THEN \E f \in found : reader' = after(f) ELSE reader' = NoReader
    BY Zenon DEF LoadMeta, MetaOf
  <2> HIDE DEF after
  <2>2. PICK f \in files : f.dir = reader.dir /\ reader' = after(f)
    BY <2>1
  <2>3. PICK next, new : next = Min(reader.left) /\ new = news(f)
    OBVIOUS
  <2>4. reader' = [reader EXCEPT !.left = @ \ {next}, !.metas = @ \union {new}]
    BY <2>2, <2>3 DEF after
  <2> HIDE DEF found
  <2>5. f \in files /\ f.dir = d /\ new = IF f.meta THEN MetaOf(f) ELSE [start |-> f.start, end |-> f.start, num |-> 0]
    BY <1>2, <2>2, <2>3
  <2> QED BY <2>4, <2>5
<1>4. /\ reader'.at = "load" /\ reader'.metas = reader.metas \union {new}
      /\ reader'.dir = d /\ reader'.pid = p
  BY <1>1, <1>2, <1>3 DEF CallFields
<1>5. new \in ChunkMeta /\ Described(d, p, new)
  <2>1. f \in ChunkFile
    BY <1>3 DEF RecorderTypes
  <2>2. CASE f.meta
    BY <1>2, <1>3, <2>1, <2>2, MetaDescribes DEF MetaOf, ChunkMeta, ChunkFile
  <2>3. CASE ~ f.meta
    BY <1>3, <2>1, <2>3 DEF Described, ChunkMeta, ChunkFile
  <2> QED BY <2>2, <2>3
<1>6. \A m \in ChunkMeta : Described(d, p, m)' <=> Described(d, p, m)
  BY <1>1 DEF Described, Settled, recorder, history
<1>7. \A m \in reader'.metas : m \in ChunkMeta /\ Described(d, p, m)'
  BY <1>1, <1>2, <1>4, <1>5, <1>6 DEF KnownInv
<1> QED BY <1>4, <1>7 DEF KnownInv

\* A set of what is known has one that starts nearest, and the earliest of those.
LEMMA NearestIsOne ==
  ASSUME NEW M \in SUBSET ChunkMeta, M # {}, NEW ts \in Nat, NEW c \in ChunkAt(M, ts)
  PROVE  c \in M
<1> DEFINE in   == {m \in M : Overlaps(m, ts, ts)}
           near == {m \in M : \A o \in M : Abs(m.start - ts) <= Abs(o.start - ts)}
<1>1. \A m \in M : m.start \in Nat /\ Abs(m.start - ts) \in Nat
  BY DEF ChunkMeta, Abs
<1>2. near # {}
  <2> DEFINE S == {Abs(m.start - ts) : m \in M}
  <2>1. S \in SUBSET Nat /\ S # {}
    BY <1>1
  <2>2. PICK x \in S : \A y \in S : x <= y
    BY <2>1, LeastOfAll
  <2>3. PICK m \in M : x = Abs(m.start - ts)
    OBVIOUS
  <2> QED BY <2>2, <2>3
<1>3. PICK T \in SUBSET M : T # {} /\ T = IF in # {} THEN in ELSE near
  BY <1>2
<1>4. c = First(T)
  BY <1>3 DEF ChunkAt
<1>5. First(T) \in T
  <2>1. PICK m : m \in T
    BY <1>3
  <2>2. \A o \in T : o.start \in Nat
    BY <1>1
  <2> QED BY <2>1, <2>2, FirstIsOne
<1> QED BY <1>4, <1>5

LEMMA SelectDescribes ==
  ASSUME RecorderTypes, OwnerInv, FoundInv, KnownInv, Select
  PROVE  KnownInv'
<1> SUFFICES ASSUME reader' # NoReader, reader.op = "frame" PROVE KnownInv'
  <2>1. reader' # NoReader => reader'.at = "read" /\ reader'.op = reader.op
    BY DEF Select, RecorderTypes, CallFields
  <2> QED BY <2>1 DEF KnownInv, NoReader
<1>1. /\ reader.at = "load" /\ reader.left = {} /\ UNCHANGED <<clock, recorder, history>>
      /\ CallFields \subseteq DOMAIN reader
      /\ reader' = [reader EXCEPT !.at = "read", !.left = ChunkAt(reader.metas, reader.from)]
  BY DEF Select, RecorderTypes
<1>2. PICK M, ts, d, p : M = reader.metas /\ ts = reader.from /\ d = reader.dir /\ p = reader.pid
  OBVIOUS
<1>3. /\ M \in SUBSET ChunkMeta /\ M # {} /\ ts \in Nat /\ \A m \in M : Described(d, p, m)
  BY <1>1, <1>2 DEF KnownInv, FoundInv, CallKnown
<1>4. PICK c : ChunkAt(M, ts) = {c}
  BY DEF ChunkAt
<1>5. c \in M
  BY <1>3, <1>4, NearestIsOne
<1>6. reader'.at = "read" /\ reader'.left = {c} /\ reader'.dir = d /\ reader'.pid = p
  <2> HIDE DEF ChunkAt
  <2> QED BY <1>1, <1>2, <1>4 DEF CallFields
<1>7. Described(d, p, c)'
  BY <1>1, <1>3, <1>5 DEF Described, Settled, recorder, history
<1> QED BY <1>3, <1>5, <1>6, <1>7 DEF KnownInv

LEMMA KnownKeeps ==
  ASSUME RecorderTypes, OwnerInv, NamesInv, FoundInv, DataInv, KnownInv, [RecorderNext]_recorderVars
  PROVE  KnownInv'
<1>1. CASE UNCHANGED reader
  <2>1. CASE reader.at = "idle"
    BY <1>1, <2>1 DEF KnownInv
  <2>2. CASE reader.at # "idle"
    <3>1. PICK d, p : reader.dir = d /\ reader.pid = p /\ p \in Pids /\ OwnedBy(d, p)
      BY <2>2 DEF OwnerInv
    <3>2. \A m \in ChunkMeta : Described(d, p, m) => Described(d, p, m)'
      BY <3>1, DescribedStays
    <3> QED BY <1>1, <3>1, <3>2 DEF KnownInv
  <2> QED BY <2>1, <2>2
<1>2. CASE Read
  <2> SUFFICES ASSUME reader.op = "frame" PROVE FALSE
    <3>1. reader.at = "read" /\ reader'.at = "read" /\ reader'.op = reader.op
      BY <1>2 DEF Read, RecorderTypes, CallFields
    <3> QED BY <3>1 DEF KnownInv
  <2>1. reader.at = "read" /\ ~ LastOne
    BY <1>2, Zenon DEF Read
  <2>2. PICK m \in ChunkMeta : reader.left = {m}
    BY <2>1 DEF KnownInv
  <2>3. First({m}) \in {m}
    <3>1. m \in {m} /\ \A o \in {m} : o.start \in Nat
      BY DEF ChunkMeta
    <3> QED BY <3>1, FirstIsOne
  <2> QED BY <2>1, <2>2, <2>3 DEF LastOne, Due
<1>3. CASE Return
  BY <1>3 DEF Return, KnownInv, NoReader
<1>4. CASE \E p \in Pids : \E op, from, to : Ask(p, op, from, to)
  <2>1. PICK p, op, from, to : Ask(p, op, from, to)
    BY <1>4
  <2>2. InDir(PidDir(p)) # {} /\ reader'.at = "load" /\ reader'.metas = {}
        /\ reader'.left = {f.start : f \in InDir(PidDir(p))}
    BY <2>1 DEF Ask
  <2>3. reader'.left # {}
    <3> HIDE DEF InDir
    <3>1. PICK f : f \in InDir(PidDir(p))
      BY <2>2
    <3> QED BY <2>2, <3>1
  <2> QED BY <2>2, <2>3 DEF KnownInv
<1>5. UNCHANGED reader \/ LoadMeta \/ Select \/ Read \/ Return \/ \E p \in Pids : \E op, from, to : Ask(p, op, from, to)
  <2>1. CASE \/ Flushed \/ \E q \in Pids : Leave(q)
             \/ \E q \in Pids : \E s \in Sizes[q] : NewTrack(q, s) \/ Encode(q, s) \/ Close(q, s)
    <3>1. PICK q \in Pids, t \in EncoderTrack : TrackStep(q, t)
      BY <2>1, TrackSteps
    <3> QED BY <3>1 DEF TrackStep
  <2>2. CASE OpenData \/ FillData \/ WriteMeta
    BY <2>2, FlushWrites
  <2>3. CASE Tick \/ Prune \/ WriteFails \/ Restart \/ UNCHANGED recorderVars \/ \E q \in Pids : NewTrackFails(q)
    BY <2>3 DEF Tick, Prune, WriteFails, Restart, recorderVars, NewTrackFails
  <2> QED BY <2>1, <2>2, <2>3 DEF RecorderNext, FlushChunk
<1> QED BY <1>1, <1>2, <1>3, <1>4, <1>5, LoadDescribes, SelectDescribes

\* What is multiplied by the same is compared.
LEMMA Cancel ==
  ASSUME NEW b \in Nat \ {0}, NEW u \in Int, NEW v \in Int
  PROVE  /\ b * u <= b * v => u <= v
         /\ b * u < b * v => u < v
<1>1. u > v => b * (u - v) >= b
  OBVIOUS
<1>2. u >= v => b * (u - v) >= 0
  OBVIOUS
<1>3. b * (u - v) = b * u - b * v
  OBVIOUS
<1> QED BY <1>1, <1>2, <1>3

\* Quotient and rest.
LEMMA Division ==
  ASSUME NEW a \in Nat, NEW b \in Nat \ {0}
  PROVE  \E q, r \in Nat : q = a \div b /\ r = a % b /\ r < b /\ a = b * q + r
<1>1. a % b \in 0 .. b - 1 /\ a \div b \in Int
  OBVIOUS
<1>2. PICK q \in Int, r \in Int : q = a \div b /\ r = a % b
  BY <1>1
<1>3. a = b * q + r /\ r \in Nat /\ r < b
  BY <1>1, <1>2
<1>4. q >= 0
  <2>1. b * (-1) < b * q
    BY <1>3
  <2>2. -1 < q
    BY <2>1, Cancel
  <2> QED BY <2>2
<1> QED BY <1>2, <1>3, <1>4

\* Rounding: no more than half away.
LEMMA Rounded ==
  ASSUME NEW a \in Nat, NEW b \in Nat \ {0}
  PROVE  /\ RoundHalfEven(a, b) \in Nat
         /\ 2 * a - b <= 2 * (b * RoundHalfEven(a, b)) /\ 2 * (b * RoundHalfEven(a, b)) <= 2 * a + b
<1>1. PICK q, r \in Nat : q = a \div b /\ r = a % b /\ r < b /\ a = b * q + r
  BY Division
<1>2. RoundHalfEven(a, b) = IF 2 * r > b \/ (2 * r = b /\ q % 2 = 1) THEN q + 1 ELSE q
  BY <1>1 DEF RoundHalfEven
<1>3. b * (q + 1) = b * q + b
  BY <1>1
<1>4. CASE RoundHalfEven(a, b) = q + 1 /\ 2 * r >= b
  BY <1>1, <1>3, <1>4
<1>5. CASE RoundHalfEven(a, b) = q /\ 2 * r <= b
  BY <1>1, <1>5
<1> QED BY <1>1, <1>2, <1>4, <1>5

\* Of n frames, one every w, the one that is the nearest when n - 1 of them are taken to
\* span n * w is no more than one and a half off; and its time stamp no more than one.
LEMMA NearFrame ==
  ASSUME NEW n \in Nat \ {0, 1}, NEW w \in Nat \ {0}, NEW x \in 0 .. n * w,
         NEW i \in Nat, i = RoundHalfEven(x * (n - 1), n * w)
  PROVE  /\ i <= n - 1
         /\ 2 * (i * w - x) <= w /\ 2 * (x - i * w) <= 3 * w
<1>1. n * w \in Nat \ {0} /\ x \in Nat /\ x * (n - 1) \in Nat
  OBVIOUS
<1>2. 2 * (x * (n - 1)) - n * w <= 2 * ((n * w) * i) /\ 2 * ((n * w) * i) <= 2 * (x * (n - 1)) + n * w
  BY <1>1, Rounded
<1>3. i <= n - 1
  <2>1. x * (n - 1) <= (n * w) * (n - 1)
    BY <1>1
  <2>2. (n * w) * (2 * i) <= (n * w) * (2 * (n - 1) + 1)
    <3>1. (n * w) * (2 * i) = 2 * ((n * w) * i)
      OBVIOUS
    <3>2. (n * w) * (2 * (n - 1) + 1) = 2 * ((n * w) * (n - 1)) + n * w
      OBVIOUS
    <3> QED BY <1>2, <2>1, <3>1, <3>2
  <2>3. 2 * i <= 2 * (n - 1) + 1
    BY <1>1, <2>2, Cancel
  <2> QED BY <2>3
<1>4. (n * w) * i = n * (i * w) /\ x * (n - 1) = n * x - x
  OBVIOUS
<1>5. n * (2 * (i * w - x)) = 2 * (n * (i * w)) - 2 * (n * x)
  OBVIOUS
<1>6. 2 * (i * w - x) <= w
  <2>1. n * (2 * (i * w - x)) <= n * w
    BY <1>1, <1>2, <1>4, <1>5
  <2> QED BY <2>1, Cancel
<1>7. 2 * (x - i * w) <= 3 * w
  <2>1. n * (2 * (x - i * w)) = 2 * (n * x) - 2 * (n * (i * w)) /\ n * (3 * w) = 3 * (n * w)
    OBVIOUS
  <2>2. n * (2 * (x - i * w)) <= n * (3 * w)
    BY <1>1, <1>2, <1>4, <2>1
  <2> QED BY <2>2, Cancel
<1> QED BY <1>3, <1>6, <1>7

\* The time stamp of frame i counts in steps that are longer.
LEMMA NearStamp ==
  ASSUME NEW n \in Nat \ {0, 1}, NEW w \in Nat \ {0}, NEW i \in 0 .. n - 1,
         NEW y \in Int, y = (i * (n * w)) \div (n - 1)
  PROVE  i * w <= y /\ y - i * w <= w
<1>1. i * (n * w) \in Nat /\ n - 1 \in Nat \ {0}
  OBVIOUS
<1>2. \E r \in Nat : y \in Nat /\ r < n - 1 /\ i * (n * w) = (n - 1) * y + r
  <2> DEFINE a == i * (n * w)  b == n - 1
  <2>1. \E q, r \in Nat : q = a \div b /\ r = a % b /\ r < b /\ a = b * q + r
    <3> HIDE DEF a, b
    <3> QED BY <1>1, Division DEF a, b
  <2> QED BY <2>1
<1> PICK r \in Nat : y \in Nat /\ r < n - 1 /\ i * (n * w) = (n - 1) * y + r
  BY <1>2
<1>3. i * (n * w) = (n - 1) * (i * w) + i * w
  OBVIOUS
<1>4. i * w <= (n - 1) * w
  OBVIOUS
<1>5. (n - 1) * (y - i * w) = (n - 1) * y - (n - 1) * (i * w)
  OBVIOUS
<1>6. y - i * w <= w
  <2>1. (n - 1) * (y - i * w) <= (n - 1) * w
    BY <1>2, <1>3, <1>4, <1>5
  <2> QED BY <1>1, <2>1, Cancel
<1>7. i * w <= y
  <2>1. (n - 1) * ((- 1)) < (n - 1) * (y - i * w)
    BY <1>2, <1>3, <1>5
  <2>2. - 1 < y - i * w
    BY <1>1, <2>1, Cancel
  <2> QED BY <2>2
<1> QED BY <1>6, <1>7

\* Which frame of a chunk of n frames is given, and what time.
LEMMA LessOfTwo ==
  ASSUME NEW x \in Int, NEW y \in Int
  PROVE  /\ x <= y => Min({x, y}) = x /\ Max({x, y}) = y
         /\ y <= x => Min({x, y}) = y /\ Max({x, y}) = x
BY DEF Min, Max

LEMMA IndexNear ==
  ASSUME NEW m \in ChunkMeta, NEW n \in Nat \ {0, 1}, NEW w \in Nat \ {0}, m.end = m.start + n * w,
         NEW ts \in Nat, Overlaps(m, ts, ts), NEW i, i = Index(m, n, ts)
  PROVE  /\ i \in 0 .. n - 1
         /\ \A t : t = m.start + i * w => 2 * Abs(t - ts) <= 3 * w /\ Abs(t - StampOf(m, n, i)) <= w
<1>1. m.start \in Nat /\ m.end \in Nat /\ m.start <= ts /\ ts <= m.end /\ n * w \in Nat \ {0}
  BY DEF ChunkMeta, Overlaps
<1>2. PICK x \in 0 .. n * w : x = ts - m.start
  BY <1>1
<1>3. x * (n - 1) \in Nat /\ m.end - m.start = n * w /\ ~ (n <= 1 \/ m.end <= m.start)
  BY <1>1
<1>4. PICK k \in Nat : k = RoundHalfEven(x * (n - 1), n * w)
  BY <1>1, <1>3, Rounded
<1>5. k <= n - 1 /\ 2 * (k * w - x) <= w /\ 2 * (x - k * w) <= 3 * w
  BY <1>4, NearFrame
<1>6. i = k
  <2>1. Index(m, n, ts) = Max({0, Min({n - 1, RoundHalfEven((ts - m.start) * (n - 1), m.end - m.start)})})
    BY <1>3 DEF Index
  <2>4. k = RoundHalfEven((ts - m.start) * (n - 1), m.end - m.start)
    BY <1>2, <1>3, <1>4
  <2>2. Min({n - 1, k}) = k
    BY <1>5, LessOfTwo
  <2>3. Max({0, k}) = k
    <3>1. 0 \in Int /\ k \in Int /\ 0 <= k
      OBVIOUS
    <3> QED BY <3>1, LessOfTwo, Zenon
  <2> QED BY <2>1, <2>2, <2>3, <2>4
<1>7. PICK y \in Int : y = (k * (n * w)) \div (n - 1)
  OBVIOUS
<1>8. k \in 0 .. n - 1 /\ k * w \in Nat
  BY <1>5
<1>9. k * w <= y /\ y - k * w <= w
  BY <1>7, <1>8, NearStamp
<1>10. StampOf(m, n, k) = m.start + y
  BY <1>3, <1>7 DEF StampOf
<1> SUFFICES ASSUME NEW t, t = m.start + i * w
             PROVE  2 * Abs(t - ts) <= 3 * w /\ Abs(t - StampOf(m, n, i)) <= w
  BY <1>6, <1>8
<1>11. t \in Nat /\ t - ts = k * w - x /\ t - (m.start + y) = k * w - y
  BY <1>1, <1>2, <1>6, <1>8
<1>12. 2 * Abs(t - ts) <= 3 * w
  BY <1>1, <1>5, <1>8, <1>11 DEF Abs
<1>13. Abs(t - (m.start + y)) <= w
  BY <1>1, <1>8, <1>9, <1>11 DEF Abs
<1>14. StampOf(m, n, i) = m.start + y
  BY <1>6, <1>10
<1> QED BY <1>12, <1>13, <1>14, Zenon

\* get_frame_from_time on what was recorded at a steady rate, while the recorder goes on
\* writing and evicting: the frame is at most one and a half intervals from the time asked
\* for, and its timestamp one from its own, for any number of frames and any rate.
THEOREM SteadyFramesNear == RecorderSpec => []SteadyIsNear
<1>1. RecorderTypes /\ FoundInv /\ KnownInv => SteadyIsNear
  <2> SUFFICES ASSUME RecorderTypes, FoundInv, KnownInv, NEW a \in Answers, a.kind = "frame",
                      Steady(a.chunk), a.meta.num = a.chunk.num, Overlaps(a.chunk, reader.from, reader.from)
               PROVE  /\ 2 * Abs(a.time - reader.from) <= 3 * MinInterval
                      /\ Abs(a.time - a.stamp) <= MinInterval
    BY DEF SteadyIsNear
  <2>1. reader.at = "read" /\ LastOne /\ reader.from \in Nat
    BY DEF Answers, FoundInv, CallKnown
  <2>2. reader.op = "frame" /\ \E f \in NextFile : \E c \in Contents(f) \ {<< >>} : a = FrameAnswer(f, Due, c)
    BY <2>1 DEF Answers
  <2>3. PICK f, c, m : f \in NextFile /\ c \in Contents(f) /\ c # << >> /\ m = Due /\ a = FrameAnswer(f, m, c)
    BY <2>2
  <2>4. f \in files /\ f.dir = reader.dir /\ f.start = m.start /\ f \in ChunkFile
    BY <2>3 DEF NextFile, RecorderTypes
  <2>5. m \in ChunkMeta /\ Described(reader.dir, reader.pid, m)
    BY <2>1, <2>2, <2>3 DEF KnownInv, LastOne
  <2>6. a.chunk = f /\ a.meta = m
    BY <2>3 DEF FrameAnswer
  <2>7. f.frames \in Seq(Nat) /\ f.num \in Nat /\ Len(f.frames) = f.num /\ m.num = f.num
    BY <2>4, <2>6 DEF ChunkFile, Steady
  <2>8. f.num # 0
    <3> SUFFICES ASSUME f.num = 0 PROVE FALSE
      OBVIOUS
    <3>1. f.frames = << >>
      BY <2>7
    <3> QED BY <2>3, <3>1 DEF Contents
  <2>9. f.data /\ MetaOf(f) = m
    BY <2>4, <2>5, <2>7, <2>8 DEF Described, ChunkMeta
  <2>10. PICK n \in Nat \ {0}, w \in Nat \ {0} : n = f.num /\ w = MinInterval
    BY <2>7, <2>8, RecordingAssumption
  <2>11. c = f.frames /\ Len(c) = n
    BY <2>3, <2>7, <2>9, <2>10 DEF Contents
  <2>12. m.start \in Nat /\ m.end = m.start + n * w /\ \A k \in 1 .. n : c[k] = m.start + (k - 1) * w
    BY <2>4, <2>6, <2>7, <2>9, <2>10, <2>11 DEF Steady, MetaOf, ChunkFile
  <2>13. PICK i : i = Min({Index(m, n, reader.from), n - 1})
    OBVIOUS
  <2>14. a.time = c[i + 1] /\ a.stamp = StampOf(m, n, i)
    BY <2>3, <2>7, <2>10, <2>11, <2>13 DEF FrameAnswer
  <2>15. Overlaps(m, reader.from, reader.from)
    BY <2>4, <2>6, <2>9 DEF Overlaps, MetaOf
  <2>16. CASE n = 1
    <3>1. Index(m, n, reader.from) = 0
      BY <2>16 DEF Index
    <3>2. i = 0
      BY <2>13, <2>16, <3>1, LessOfTwo
    <3>3. a.time = m.start /\ a.stamp = m.start
      BY <2>12, <2>14, <2>16, <3>2 DEF StampOf
    <3>4. reader.from - m.start \in 0 .. w
      BY <2>1, <2>12, <2>15, <2>16 DEF Overlaps
    <3> QED BY <2>1, <2>10, <2>12, <3>3, <3>4 DEF Abs
  <2>17. CASE n # 1
    <3>1. PICK j : j = Index(m, n, reader.from)
      OBVIOUS
    <3>2. /\ j \in 0 .. n - 1
          /\ \A t : t = m.start + j * w =>
               2 * Abs(t - reader.from) <= 3 * w /\ Abs(t - StampOf(m, n, j)) <= w
      BY <2>1, <2>5, <2>12, <2>15, <2>17, <3>1, IndexNear
    <3>3. i = j
      BY <2>13, <3>1, <3>2, LessOfTwo
    <3>4. a.time = m.start + j * w
      <4>1. j + 1 \in 1 .. n /\ (j + 1) - 1 = j
        BY <3>2
      <4> QED BY <2>12, <2>14, <3>3, <4>1
    <3>5. a.stamp = StampOf(m, n, j)
      BY <2>14, <3>3
    <3>6. 2 * Abs(a.time - reader.from) <= 3 * w /\ Abs(a.time - StampOf(m, n, j)) <= w
      BY <3>2, <3>4, Zenon
    <3> QED BY <2>10, <3>5, <3>6, Zenon
  <2> QED BY <2>16, <2>17
<1>2. RecorderInit => DataInv /\ KnownInv
  BY DEF RecorderInit, DataInv, KnownInv, NoJob, NoReader
<1> QED
  BY <1>1, <1>2, OwnersStart, NamesStart, FoundStarts, OwnersKeep, NamesKeep, FoundKeeps, DataKeeps, KnownKeeps, PTL
  DEF RecorderSpec

-----------------------------------------------------------------------------
(* The order of what the recorder keeps.                                   *)

Earlier(s, u) == \A x \in ToSet(s), y \in ToSet(u) : x < y

Busy(p) == job.at # "idle" /\ job.pid = p

\* The file of the flush in progress.
OwnFile(f) == f.pid = job.pid /\ f.start = job.chunk.start

\* The frame of p of time t is in memory, in a flush, or in a file.
KeptTime(p, t) ==
  \/ t \in ToSet(encoders[p].buf)
  \/ Busy(p) /\ t \in ToSet(job.chunk.buf)
  \/ \E f \in files : f.pid = p /\ t \in ToSet(f.frames)

\* A time is recorded when it comes, and a track remembers the last one.
RecordedInv ==
  /\ \A p \in Pids, t \in Nat : << p, t >> \in recorded =>
       t <= clock /\ (encoders[p] # NoTrack => t <= encoders[p].last)
  /\ \A p \in Pids, t \in Nat : KeptTime(p, t) => << p, t >> \in recorded

\* The files of a participant follow one another.
FilesInOrder ==
  \A f \in files :
    /\ f.start <= clock
    /\ \A g \in files : f.pid = g.pid =>
         /\ f.start = g.start => f = g
         /\ f.start < g.start => Earlier(f.frames, g.frames)

\* What an encoder holds comes after them, but for the file it is flushed to.
MemoryInOrder ==
  \A p \in Pids :
    /\ encoders[p].enc /\ ~ Busy(p) => encoders[p].buf # << >>
    /\ encoders[p].start <= clock
    /\ encoders[p].buf # << >> =>
         \A f \in files : f.pid = p =>
           \/ f.start < encoders[p].start /\ Earlier(f.frames, encoders[p].buf)
           \/ Busy(p) /\ OwnFile(f)

\* The flush of a track that goes on: its buffer is cleared when both files are there,
\* and the frame that waits is newer than all recorded ones.
FlushOfTrack ==
  LET t == encoders[job.pid] IN
  /\ t # NoTrack /\ t.start = job.chunk.start
  /\ t.buf = IF job.at = "prune" THEN << >> ELSE job.chunk.buf
  /\ job.now <= t.last /\ job.now <= clock
  /\ \A u \in Nat : << job.pid, u >> \in recorded => u < job.now

\* A flush goes to a file of its own, behind the others; once that is evicted, none
\* is left.
FlushInOrder ==
  job.at # "idle" =>
    /\ \A f \in files : f.pid = job.pid =>
         \/ f.start < job.chunk.start /\ Earlier(f.frames, job.chunk.buf)
         \/ job.at # "data" /\ OwnFile(f) /\ f.frames = job.chunk.buf
    /\ job.at = "prune" => (\E f \in files : OwnFile(f)) \/ (\A f \in files : f.pid # job.pid)
    /\ job.chunk.start <= clock
    /\ IF job.size = "none" THEN encoders[job.pid] = NoTrack ELSE FlushOfTrack

\* What is lost is older than what is kept.
OnlyOldLost ==
  \A p \in Pids, t, u \in Nat :
    << p, t >> \in recorded /\ ~ KeptTime(p, t) /\ KeptTime(p, u) => t < u

OrderedInv == RecordedInv /\ FilesInOrder /\ MemoryInOrder /\ FlushInOrder /\ OnlyOldLost

LEMMA Times ==
  /\ ToSet(<< >>) = {}
  /\ \A n \in Nat : ToSet(<< n >>) = {n}
  /\ \A s \in Seq(Nat), n \in Nat : ToSet(Append(s, n)) = ToSet(s) \union {n}
  /\ \A s \in Seq(Nat) : ToSet(s) \subseteq Nat /\ (s = << >> <=> ToSet(s) = {})
<1>1. ToSet(<< >>) = {}
  BY DEF ToSet
<1>2. ASSUME NEW n \in Nat PROVE ToSet(<< n >>) = {n}
  <2>1. DOMAIN << n >> = {1} /\ << n >>[1] = n
    OBVIOUS
  <2> QED BY <2>1 DEF ToSet
<1>3. ASSUME NEW s \in Seq(Nat), NEW n \in Nat PROVE ToSet(Append(s, n)) = ToSet(s) \union {n}
  <2>1. /\ DOMAIN s = 1 .. Len(s) /\ Len(s) \in Nat /\ DOMAIN Append(s, n) = 1 .. Len(s) + 1
        /\ Append(s, n)[Len(s) + 1] = n /\ \A i \in 1 .. Len(s) : Append(s, n)[i] = s[i]
    OBVIOUS
  <2>2. ToSet(Append(s, n)) \subseteq ToSet(s) \union {n}
    BY <2>1 DEF ToSet
  <2>3. ToSet(s) \subseteq ToSet(Append(s, n))
    BY <2>1 DEF ToSet
  <2>4. n \in ToSet(Append(s, n))
    <3>1. Len(s) + 1 \in DOMAIN Append(s, n)
      BY <2>1
    <3> QED BY <2>1, <3>1 DEF ToSet
  <2> QED BY <2>2, <2>3, <2>4
<1>4. ASSUME NEW s \in Seq(Nat) PROVE ToSet(s) \subseteq Nat /\ (s = << >> <=> ToSet(s) = {})
  <2>1. ToSet(s) \subseteq Nat
    BY DEF ToSet
  <2>2. ASSUME s # << >> PROVE s[1] \in ToSet(s)
    BY <2>2 DEF ToSet
  <2> QED BY <1>1, <2>1, <2>2
<1> QED BY <1>1, <1>2, <1>3, <1>4

\* The numbers the arguments below are about.
LEMMA Numbers ==
  ASSUME RecorderTypes
  PROVE  /\ clock \in Nat
         /\ \A p \in Pids : /\ encoders[p] \in EncoderTrack /\ encoders[p].buf \in Seq(Nat)
                            /\ encoders[p].start \in Nat /\ encoders[p].last \in Int /\ encoders[p].enc \in BOOLEAN
         /\ \A f \in files : f.pid \in Pids /\ f.start \in Nat /\ f.frames \in Seq(Nat) /\ ToSet(f.frames) \subseteq Nat
         /\ job.at # "idle" => job.pid \in Pids /\ job.chunk.start \in Nat /\ job.chunk.buf \in Seq(Nat) /\ job.now \in Nat
<1>1. /\ clock \in Nat
      /\ \A f \in files : f.pid \in Pids /\ f.start \in Nat /\ f.frames \in Seq(Nat)
  BY DEF RecorderTypes, ChunkFile
<1>2. \A p \in Pids : encoders[p] \in EncoderTrack
  BY DEF RecorderTypes
<1>3. job.at # "idle" => job.pid \in Pids /\ job.chunk \in EncoderTrack /\ job.now \in Nat
  BY JobTyped
<1> QED BY <1>1, <1>2, <1>3, FieldTyped, Times

\* Frames are added that are newer than all, and others are lost that are older than
\* all that stay.
LEMMA LossStep ==
  ASSUME OnlyOldLost, recorded \subseteq recorded',
         \A p \in Pids, t \in Nat : << p, t >> \in recorded' \ recorded =>
           KeptTime(p, t)' /\ \A u \in Nat : << p, u >> \in recorded => u < t,
         \A p \in Pids, t, u \in Nat : << p, t >> \in recorded' \ recorded /\ << p, u >> \in recorded' \ recorded => t = u,
         \A p \in Pids, t \in Nat : KeptTime(p, t)' => KeptTime(p, t) \/ << p, t >> \in recorded' \ recorded,
         \A p \in Pids, t, u \in Nat :
           << p, t >> \in recorded /\ KeptTime(p, t) /\ ~ KeptTime(p, t)' /\ KeptTime(p, u)' => t < u
  PROVE  OnlyOldLost'
<1> SUFFICES ASSUME NEW p \in Pids, NEW t \in Nat, NEW u \in Nat,
                    << p, t >> \in recorded', ~ KeptTime(p, t)', KeptTime(p, u)'
             PROVE  t < u
  BY DEF OnlyOldLost
<1>1. << p, t >> \in recorded
  OBVIOUS
<1>2. CASE KeptTime(p, t)
  BY <1>1, <1>2
<1>3. CASE ~ KeptTime(p, t) /\ KeptTime(p, u)
  BY <1>1, <1>3 DEF OnlyOldLost
<1>4. CASE << p, u >> \in recorded' \ recorded
  BY <1>1, <1>4
<1> QED BY <1>2, <1>3, <1>4

\* The clock ticks; the reader takes a step; a track cannot be made.
LEMMA QuietOrdered ==
  ASSUME RecorderTypes, OrderedInv, UNCHANGED <<encoders, files, job, recorded>>, clock' \in Nat, clock <= clock'
  PROVE  OrderedInv'
<1>1. \A p, t : KeptTime(p, t)' <=> KeptTime(p, t)
  BY DEF KeptTime, Busy
<1>2. RecordedInv' /\ OnlyOldLost'
  BY <1>1, Numbers DEF OrderedInv, RecordedInv, OnlyOldLost
<1>3. FilesInOrder'
  BY Numbers DEF OrderedInv, FilesInOrder
<1>4. MemoryInOrder'
  BY Numbers DEF OrderedInv, MemoryInOrder, Busy, OwnFile
<1>5. FlushInOrder'
  BY Numbers DEF OrderedInv, FlushInOrder, FlushOfTrack, OwnFile
<1> QED BY <1>2, <1>3, <1>4, <1>5 DEF OrderedInv

\* One frame of p is encoded, newer than all, behind its files.
LEMMA RecordedOne ==
  ASSUME RecorderTypes, OrderedInv, NEW p \in Pids, NEW n \in Nat, NEW t \in EncoderTrack,
         encoders' = [encoders EXCEPT ![p] = t], UNCHANGED <<clock, files>>,
         recorded' = recorded \union {<< p, n >>},
         n <= clock, n <= t.last, \A u \in Nat : << p, u >> \in recorded => u < n,
         n \in ToSet(t.buf), ToSet(t.buf) \subseteq ToSet(encoders[p].buf) \union {n},
         t.start <= clock,
         \A f \in files : f.pid = p => f.start < t.start,
         ToSet(t.buf) # {n} => \A f \in files : f.pid = p => Earlier(f.frames, encoders[p].buf),
         job' = NoJob, job.at = "idle" \/ Busy(p),
         \A u \in Nat, v \in Nat : KeptTime(p, u) /\ ~ KeptTime(p, u)' /\ KeptTime(p, v)' => u < v
  PROVE  OrderedInv'
<1>1. /\ encoders'[p] = t /\ \A q \in Pids : q # p => encoders'[q] = encoders[q]
  BY DEF RecorderTypes
<1>2. \A q \in Pids : q # p => ~ Busy(q)
  BY DEF Busy
<1>3. \A q \in Pids : \A u : q # p => (KeptTime(q, u)' <=> KeptTime(q, u))
  BY <1>1, <1>2 DEF KeptTime, Busy, NoJob
<1>4. KeptTime(p, n)' /\ \A u : KeptTime(p, u)' => KeptTime(p, u) \/ u = n
  BY <1>1 DEF KeptTime, Busy, NoJob
<1>5. RecordedInv'
  <2>1. \A q \in Pids, u \in Nat : << q, u >> \in recorded' => u <= clock /\ (encoders'[q] # NoTrack => u <= encoders'[q].last)
    <3> SUFFICES ASSUME NEW q \in Pids, NEW u \in Nat, << q, u >> \in recorded'
                 PROVE  u <= clock /\ (encoders'[q] # NoTrack => u <= encoders'[q].last)
      OBVIOUS
    <3>1. CASE q = p
      <4>1. u <= n
        BY <3>1
      <4>2. t.last \in Int /\ clock \in Nat
        BY FieldTyped, Numbers
      <4> QED BY <1>1, <3>1, <4>1, <4>2
    <3>2. CASE q # p
      BY <1>1, <3>2 DEF OrderedInv, RecordedInv
    <3> QED BY <3>1, <3>2
  <2>2. \A q \in Pids, u \in Nat : KeptTime(q, u)' => << q, u >> \in recorded'
    BY <1>3, <1>4 DEF OrderedInv, RecordedInv
  <2> QED BY <2>1, <2>2 DEF RecordedInv
<1>6. OnlyOldLost'
  <2>1. \A q \in Pids, u \in Nat : << q, u >> \in recorded' \ recorded => q = p /\ u = n
    OBVIOUS
  <2>2. OnlyOldLost
    BY DEF OrderedInv
  <2>3. \A q \in Pids, u \in Nat : KeptTime(q, u)' => KeptTime(q, u) \/ << q, u >> \in recorded' \ recorded
    <3>1. << p, n >> \notin recorded
      OBVIOUS
    <3> QED BY <1>3, <1>4, <3>1
  <2>4. \A q \in Pids, u, v \in Nat :
          << q, u >> \in recorded /\ KeptTime(q, u) /\ ~ KeptTime(q, u)' /\ KeptTime(q, v)' => u < v
    BY <1>3
  <2>5. \A q \in Pids, u \in Nat : << q, u >> \in recorded' \ recorded =>
          KeptTime(q, u)' /\ \A v \in Nat : << q, v >> \in recorded => v < u
    BY <1>4, <2>1
  <2> QED BY <2>1, <2>2, <2>3, <2>4, <2>5, LossStep
<1>7. FilesInOrder'
  BY DEF OrderedInv, FilesInOrder
<1>8. MemoryInOrder'
  <2> SUFFICES ASSUME NEW q \in Pids
               PROVE  /\ encoders'[q].buf # << >> \/ ~ encoders'[q].enc
                      /\ encoders'[q].start <= clock
                      /\ encoders'[q].buf # << >> =>
                           \A f \in files : f.pid = q => f.start < encoders'[q].start /\ Earlier(f.frames, encoders'[q].buf)
    BY DEF MemoryInOrder, Busy, NoJob
  <2>1. CASE q = p
    <3>1. t.buf # << >>
      BY Times
    <3>2. ASSUME NEW f \in files, f.pid = p PROVE Earlier(f.frames, t.buf)
      <4>1. \A x \in ToSet(f.frames) : x \in Nat /\ KeptTime(p, x)
        BY <3>2, Numbers DEF KeptTime
      <4>2. \A x \in ToSet(f.frames) : x < n
        BY <4>1 DEF OrderedInv, RecordedInv
      <4>3. CASE ToSet(t.buf) = {n}
        BY <4>2, <4>3 DEF Earlier
      <4>4. CASE ToSet(t.buf) # {n}
        <5>1. Earlier(f.frames, encoders[p].buf)
          BY <3>2, <4>4
        <5> QED BY <4>2, <5>1 DEF Earlier
      <4> QED BY <4>3, <4>4
    <3> QED BY <1>1, <2>1, <3>1, <3>2
  <2>2. CASE q # p
    BY <1>1, <1>2, <2>2 DEF OrderedInv, MemoryInOrder
  <2> QED BY <2>1, <2>2
<1>9. FlushInOrder'
  BY DEF FlushInOrder, NoJob
<1> QED BY <1>5, <1>6, <1>7, <1>8, <1>9 DEF OrderedInv

LEMMA NewTrackOrdered ==
  ASSUME RecorderTypes, NamesInv, OrderedInv, NEW p \in Pids, NEW s \in Sizes[p], NewTrack(p, s)
  PROVE  OrderedInv'
<1>1. /\ job.at = "idle" /\ job' = NoJob /\ encoders[p] = NoTrack /\ UNCHANGED <<clock, files>>
      /\ recorded' = recorded \union {<< p, clock >>} /\ << p, clock >> \notin recorded /\ Fresh(p)
  BY DEF NewTrack, RecorderTypes, FlushJobs
<1>2. PICK t \in EncoderTrack :
        /\ encoders' = [encoders EXCEPT ![p] = t]
        /\ t.buf = << clock >> /\ t.start = clock /\ t.last = clock
  <2> DEFINE t == encoders'[p]
  <2>1. /\ encoders' = [encoders EXCEPT ![p] = t] /\ t \in EncoderTrack
        /\ t.buf = << clock >> /\ t.start = clock /\ t.last = clock
    BY NewTrackBecomes
  <2> HIDE DEF t
  <2> QED BY <2>1
<1>3. clock \in Nat /\ ToSet(t.buf) = {clock}
  BY <1>2, Times, Numbers
<1>4. \A u \in Nat : << p, u >> \in recorded => u < clock
  <2>1. \A u \in Nat : << p, u >> \in recorded => u <= clock /\ u # clock
    BY <1>1 DEF OrderedInv, RecordedInv
  <2> QED BY <1>3, <2>1
<1>5. \A f \in files : f.pid = p => f.start < t.start
  <2>1. \A f \in files : f.pid = p => f.start \in Nat /\ f.start <= clock /\ f.start # clock
    BY <1>1, Numbers DEF Fresh, NamesInv, FilesNamed, OrderedInv, FilesInOrder
  <2> QED BY <1>2, <1>3, <2>1
<1>6. \A u : KeptTime(p, u) => KeptTime(p, u)'
  <2>1. ToSet(encoders[p].buf) = {}
    BY <1>1, TracksTyped, Times
  <2> QED BY <1>1, <2>1 DEF KeptTime, Busy
<1>7. clock <= clock
  BY <1>3
<1> QED BY <1>1, <1>2, <1>3, <1>4, <1>5, <1>6, <1>7, RecordedOne

LEMMA EncodeOrdered ==
  ASSUME RecorderTypes, OrderedInv, NEW p \in Pids, NEW s \in Sizes[p], Encode(p, s)
  PROVE  OrderedInv'
<1>1. /\ job.at = "idle" /\ job' = NoJob /\ encoders[p] # NoTrack /\ UNCHANGED <<clock, files, job>>
      /\ clock - encoders[p].last >= MinInterval
  BY DEF Encode, Sampled, RecorderTypes, FlushJobs
<1>2. encoders[p] \in EncoderTrack /\ encoders[p].buf \in Seq(Nat) /\ encoders[p].last \in Int /\ clock \in Nat
  BY Numbers
<1>3. \A u \in Nat : << p, u >> \in recorded => u < clock
  <2>1. \A u \in Nat : << p, u >> \in recorded => u <= encoders[p].last
    BY <1>1 DEF OrderedInv, RecordedInv
  <2>2. encoders[p].last < clock
    BY <1>1, <1>2, RecordingAssumption
  <2> QED BY <1>2, <2>1, <2>2
<1>4. CASE encoders[p].enc
  <2>1. PICK t \in EncoderTrack :
          /\ encoders' = [encoders EXCEPT ![p] = t]
          /\ t.buf = Append(encoders[p].buf, clock) /\ t.start = encoders[p].start /\ t.last = clock
    <3> DEFINE t == [encoders[p] EXCEPT !.buf = Append(@, clock), !.frames = @ + 1, !.last = clock]
    <3>1. encoders' = [encoders EXCEPT ![p] = t]
      BY <1>4 DEF Encode
    <3>2. t.buf = Append(encoders[p].buf, clock) /\ t.start = encoders[p].start /\ t.last = clock
      BY <1>2 DEF EncoderTrack
    <3> HIDE DEF t
    <3>3. t \in EncoderTrack
      <4>1. encoders'[p] = t
        BY <3>1 DEF RecorderTypes
      <4> QED BY <4>1, EncodeBecomes DEF Becomes
    <3> QED BY <3>1, <3>2, <3>3
  <2>2. ToSet(t.buf) = ToSet(encoders[p].buf) \union {clock} /\ encoders[p].buf # << >>
    BY <1>1, <1>2, <1>4, <2>1, Times DEF OrderedInv, MemoryInOrder, Busy
  <2>3. recorded' = recorded \union {<< p, clock >>}
    BY <1>4 DEF Encode
  <2>4. \A f \in files : f.pid = p => f.start < t.start /\ Earlier(f.frames, encoders[p].buf)
    BY <1>1, <2>1, <2>2 DEF OrderedInv, MemoryInOrder, Busy
  <2>5. t.start <= clock /\ clock <= clock /\ clock <= t.last
    BY <1>2, <2>1 DEF OrderedInv, MemoryInOrder
  <2>6. \A u : KeptTime(p, u) => KeptTime(p, u)'
    <3>1. encoders'[p] = t
      BY <2>1 DEF RecorderTypes
    <3> QED BY <1>1, <2>2, <3>1 DEF KeptTime, Busy
  <2> QED BY <1>1, <1>2, <1>3, <2>1, <2>2, <2>3, <2>4, <2>5, <2>6, RecordedOne
<1>5. CASE ~ encoders[p].enc
  <2>1. PICK t \in EncoderTrack :
          /\ encoders' = [encoders EXCEPT ![p] = t]
          /\ t.buf = encoders[p].buf /\ t.start = encoders[p].start /\ t.last = clock /\ t.enc = encoders[p].enc
    <3> DEFINE t == [encoders[p] EXCEPT !.last = clock]
    <3>1. encoders' = [encoders EXCEPT ![p] = t]
      BY <1>5 DEF Encode
    <3>2. t \in EncoderTrack
      BY <1>2, FieldTyped
    <3>3. t.buf = encoders[p].buf /\ t.start = encoders[p].start /\ t.last = clock /\ t.enc = encoders[p].enc
      BY <1>2 DEF EncoderTrack
    <3> HIDE DEF t
    <3> QED BY <3>1, <3>2, <3>3
  <2>2. /\ encoders'[p] = t /\ \A q \in Pids : q # p => encoders'[q] = encoders[q]
    BY <2>1 DEF RecorderTypes
  <2>3. UNCHANGED recorded
    BY <1>5 DEF Encode
  <2>4. \A q \in Pids : encoders'[q].buf = encoders[q].buf /\ encoders'[q].start = encoders[q].start /\ encoders'[q].enc = encoders[q].enc
    BY <2>1, <2>2
  <2>5. \A q \in Pids : \A u : KeptTime(q, u)' <=> KeptTime(q, u)
    BY <1>1, <2>4 DEF KeptTime, Busy
  <2>6. RecordedInv' /\ OnlyOldLost'
    <3>1. \A q \in Pids, u \in Nat : << q, u >> \in recorded => u <= clock /\ (encoders'[q] # NoTrack => u <= encoders'[q].last)
      BY <1>2, <1>3, <2>1, <2>2 DEF OrderedInv, RecordedInv
    <3> QED BY <1>1, <2>3, <2>5, <3>1 DEF OrderedInv, RecordedInv, OnlyOldLost
  <2>7. FilesInOrder' /\ MemoryInOrder' /\ FlushInOrder'
    BY <1>1, <2>4 DEF OrderedInv, FilesInOrder, MemoryInOrder, FlushInOrder, Busy, OwnFile
  <2> QED BY <2>6, <2>7 DEF OrderedInv
<1> QED BY <1>2, <1>4, <1>5, FieldTyped

\* A chunk is closed, and nothing goes wrong with it.
LEMMA CloseOrdered ==
  ASSUME RecorderTypes, OrderedInv, NEW p \in Pids, NEW s \in Sizes[p], Close(p, s), wentWrong' \subseteq {"encoder"}
  PROVE  OrderedInv'
<1>1. /\ job.at = "idle" /\ encoders[p] # NoTrack /\ UNCHANGED <<clock, files, recorded>>
      /\ clock - encoders[p].last >= MinInterval
  BY DEF Close, Sampled
<1>2. encoders[p] \in EncoderTrack /\ encoders[p].buf \in Seq(Nat) /\ encoders[p].last \in Int /\ clock \in Nat
  BY Numbers
<1>3. \A u \in Nat : << p, u >> \in recorded => u < clock
  <2>1. \A u \in Nat : << p, u >> \in recorded => u <= encoders[p].last
    BY <1>1 DEF OrderedInv, RecordedInv
  <2>2. encoders[p].last < clock
    BY <1>1, <1>2, RecordingAssumption
  <2> QED BY <1>2, <2>1, <2>2
<1>4. PICK t \in EncoderTrack :
        /\ encoders' = [encoders EXCEPT ![p] = t]
        /\ t.buf = encoders[p].buf /\ t.start = encoders[p].start /\ t.last = clock /\ t.buf # << >>
        /\ job' \in FlushJobs /\ job'.pid = p /\ job'.chunk = t /\ job'.at = "data" /\ job'.size = s /\ job'.now = clock
  <2> DEFINE t == encoders'[p]
  <2>1. t \in EncoderTrack /\ encoders' = [encoders EXCEPT ![p] = t]
    BY CloseBecomes DEF Becomes
  <2>2. /\ t.buf = encoders[p].buf /\ t.start = encoders[p].start /\ t.last = clock /\ t.buf # << >>
        /\ job' \in FlushJobs /\ job'.pid = p /\ job'.chunk = t /\ job'.at = "data" /\ job'.size = s /\ job'.now = clock
    BY CloseBecomes
  <2> HIDE DEF t
  <2> QED BY <2>1, <2>2
<1>5. encoders'[p] = t /\ \A q \in Pids : q # p => encoders'[q] = encoders[q]
  BY <1>4 DEF RecorderTypes
<1>6. \A q \in Pids : encoders'[q].buf = encoders[q].buf /\ encoders'[q].start = encoders[q].start
  BY <1>4, <1>5
<1>7. /\ \A q \in Pids : ~ Busy(q) /\ (Busy(q)' <=> q = p)
      /\ job'.at # "idle"
  BY <1>1, <1>4 DEF Busy
<1>8. \A q \in Pids : \A u : KeptTime(q, u)' <=> KeptTime(q, u)
  BY <1>1, <1>4, <1>6, <1>7 DEF KeptTime
<1>9. RecordedInv' /\ OnlyOldLost'
  <2>1. \A q \in Pids, u \in Nat : << q, u >> \in recorded => u <= clock /\ (encoders'[q] # NoTrack => u <= encoders'[q].last)
    BY <1>2, <1>3, <1>4, <1>5 DEF OrderedInv, RecordedInv
  <2> QED BY <1>1, <1>8, <2>1 DEF OrderedInv, RecordedInv, OnlyOldLost
<1>10. FilesInOrder'
  BY <1>1 DEF OrderedInv, FilesInOrder
<1>11. MemoryInOrder'
  <2> SUFFICES ASSUME NEW q \in Pids
               PROVE  /\ encoders'[q].enc /\ ~ Busy(q)' => encoders'[q].buf # << >>
                      /\ encoders'[q].start <= clock
                      /\ encoders'[q].buf # << >> =>
                           \A f \in files : f.pid = q => f.start < encoders'[q].start /\ Earlier(f.frames, encoders'[q].buf)
    BY <1>1 DEF MemoryInOrder
  <2> QED BY <1>5, <1>6, <1>7 DEF OrderedInv, MemoryInOrder
<1>12. FlushInOrder'
  <2>1. \A f \in files : f.pid = p => f.start < t.start /\ Earlier(f.frames, t.buf)
    BY <1>4, <1>7 DEF OrderedInv, MemoryInOrder
  <2>2. t.start <= clock /\ clock <= clock
    BY <1>2, <1>4 DEF OrderedInv, MemoryInOrder
  <2>3. t # NoTrack
    BY <1>2, <1>4, TracksTyped
  <2>4. s # "none"
    BY RecordingAssumption
  <2>5. FlushOfTrack'
    BY <1>1, <1>3, <1>4, <1>5, <2>2, <2>3 DEF FlushOfTrack
  <2> QED BY <1>1, <1>4, <2>1, <2>2, <2>4, <2>5 DEF FlushInOrder
<1> QED BY <1>9, <1>10, <1>11, <1>12 DEF OrderedInv

LEMMA LeaveOrdered ==
  ASSUME RecorderTypes, OrderedInv, NEW p \in Pids, Leave(p), wentWrong' \subseteq {"encoder"}
  PROVE  OrderedInv'
<1>1. job.at = "idle" /\ encoders[p] # NoTrack /\ UNCHANGED <<clock, files, recorded>>
  BY DEF Leave
<1>2. /\ encoders'[p] = NoTrack /\ \A q \in Pids : q # p => encoders'[q] = encoders[q]
      /\ NoTrack.buf = << >> /\ NoTrack.enc = FALSE /\ NoTrack.start = 0 /\ ToSet(NoTrack.buf) = {}
  <2>1. encoders' = [encoders EXCEPT ![p] = NoTrack]
    BY DEF Leave
  <2>2. NoTrack.start = 0
    BY DEF NoTrack
  <2>3. NoTrack.buf = << >> /\ NoTrack.enc = FALSE /\ ToSet(NoTrack.buf) = {}
    BY TracksTyped, Times
  <2>4. encoders \in [Pids -> EncoderTrack]
    BY DEF RecorderTypes
  <2> QED BY <2>1, <2>2, <2>3, <2>4
<1>3. \/ ToSet(encoders[p].buf) = {} /\ job'.at = "idle"
      \/ /\ job'.pid = p /\ job'.at = "data" /\ job'.size = "none"
         /\ job'.chunk.start = encoders[p].start /\ job'.chunk.buf = encoders[p].buf /\ encoders[p].buf # << >>
  BY <1>1, LeaveBecomes, Times
<1>4. \A q \in Pids : ~ Busy(q) /\ (q # p => ~ Busy(q)')
  BY <1>1, <1>3 DEF Busy
<1>5. \A q \in Pids : \A u : KeptTime(q, u)' <=> KeptTime(q, u)
  <2> SUFFICES ASSUME NEW q \in Pids, NEW u PROVE KeptTime(q, u)' <=> KeptTime(q, u)
    OBVIOUS
  <2>1. CASE q # p
    BY <1>1, <1>2, <1>4, <2>1 DEF KeptTime
  <2>2. CASE q = p
    BY <1>1, <1>2, <1>3, <2>2 DEF KeptTime, Busy
  <2> QED BY <2>1, <2>2
<1>6. RecordedInv' /\ OnlyOldLost'
  BY <1>1, <1>2, <1>5 DEF OrderedInv, RecordedInv, OnlyOldLost
<1>7. FilesInOrder'
  BY <1>1 DEF OrderedInv, FilesInOrder
<1>8. MemoryInOrder'
  <2> SUFFICES ASSUME NEW q \in Pids
               PROVE  /\ encoders'[q].enc => encoders'[q].buf # << >>
                      /\ encoders'[q].start <= clock
                      /\ encoders'[q].buf # << >> =>
                           \A f \in files : f.pid = q => f.start < encoders'[q].start /\ Earlier(f.frames, encoders'[q].buf)
    BY <1>1 DEF MemoryInOrder
  <2>1. CASE q = p
    BY <1>2, <2>1, Numbers
  <2>2. CASE q # p
    BY <1>2, <1>4, <2>2 DEF OrderedInv, MemoryInOrder
  <2> QED BY <2>1, <2>2
<1>9. FlushInOrder'
  <2>1. CASE job'.at = "idle"
    BY <2>1 DEF FlushInOrder
  <2>2. CASE job'.at # "idle"
    <3>1. \A f \in files : f.pid = p => f.start < encoders[p].start /\ Earlier(f.frames, encoders[p].buf)
      BY <1>3, <1>4, <2>2 DEF OrderedInv, MemoryInOrder
    <3>2. encoders[p].start <= clock
      BY DEF OrderedInv, MemoryInOrder
    <3> QED BY <1>1, <1>2, <1>3, <2>2, <3>1, <3>2 DEF FlushInOrder
  <2> QED BY <2>1, <2>2
<1> QED BY <1>6, <1>7, <1>8, <1>9 DEF OrderedInv

\* open() of the .264 file finds no file of its name: it makes one, the newest of all.
LEMMA OpenDataOrdered ==
  ASSUME RecorderTypes, OwnerInv, OrderedInv, OpenData
  PROVE  OrderedInv'
<1>1. /\ job.at = "data" /\ job'.at = "fill" /\ job'.pid = job.pid /\ job'.chunk = job.chunk
      /\ job'.size = job.size /\ job'.now = job.now
      /\ UNCHANGED <<clock, encoders, recorded>>
      /\ files' = {f \in files : ~ Named(f)} \union {Opened}
  BY FlushWrites DEF OpenData
<1>2. /\ job.pid \in Pids /\ job.chunk.start \in Nat /\ clock \in Nat
      /\ \A f \in files : f.pid \in Pids /\ f.start \in Nat
  BY <1>1, Numbers
<1>3. \A f \in files : f.pid = job.pid => f.start < job.chunk.start /\ Earlier(f.frames, job.chunk.buf)
  BY <1>1 DEF OrderedInv, FlushInOrder
<1>4. \A f \in files : ~ Named(f)
  <2> SUFFICES ASSUME NEW f \in files, Named(f) PROVE FALSE
    OBVIOUS
  <2>1. f.pid = job.pid
    BY <1>1 DEF Named, OwnerInv, OwnedBy
  <2> QED BY <1>2, <1>3, <2>1 DEF Named
<1>5. files' = files \union {Opened}
  BY <1>1, <1>4
<1>6. Opened.pid = job.pid /\ Opened.start = job.chunk.start /\ Opened.frames = job.chunk.buf
  BY DEF Opened
<1>7. \A q : Busy(q)' <=> Busy(q)
  BY <1>1 DEF Busy
<1>8. \A q \in Pids : \A u : KeptTime(q, u)' <=> KeptTime(q, u)
  BY <1>1, <1>5, <1>6, <1>7 DEF KeptTime, Busy
<1>9. RecordedInv' /\ OnlyOldLost'
  BY <1>1, <1>8 DEF OrderedInv, RecordedInv, OnlyOldLost
<1>10. FilesInOrder'
  <2>1. job.chunk.start <= clock
    BY <1>1 DEF OrderedInv, FlushInOrder
  <2>2. \A f \in files' : f.start <= clock
    BY <1>5, <1>6, <2>1 DEF OrderedInv, FilesInOrder
  <2>3. ASSUME NEW f \in files', NEW g \in files', f.pid = g.pid
        PROVE  (f.start = g.start => f = g) /\ (f.start < g.start => Earlier(f.frames, g.frames))
    <3>1. CASE f = Opened
      BY <1>2, <1>3, <1>5, <1>6, <2>3, <3>1
    <3>2. CASE f # Opened /\ g = Opened
      BY <1>2, <1>3, <1>5, <1>6, <2>3, <3>2
    <3>3. CASE f # Opened /\ g # Opened
      BY <1>5, <2>3, <3>3 DEF OrderedInv, FilesInOrder
    <3> QED BY <3>1, <3>2, <3>3
  <2> QED BY <1>1, <2>2, <2>3 DEF FilesInOrder
<1>11. MemoryInOrder'
  BY <1>1, <1>5, <1>6, <1>7 DEF OrderedInv, MemoryInOrder, OwnFile, Busy
<1>12. FlushInOrder'
  <2>1. FlushOfTrack' <=> FlushOfTrack
    BY <1>1 DEF FlushOfTrack
  <2>2. \A f \in files' : f.pid = job'.pid =>
           \/ f.start < job'.chunk.start /\ Earlier(f.frames, job'.chunk.buf)
           \/ job'.at # "data" /\ f.pid = job'.pid /\ f.start = job'.chunk.start /\ f.frames = job'.chunk.buf
    BY <1>1, <1>3, <1>5, <1>6
  <2> QED BY <1>1, <2>1, <2>2 DEF OrderedInv, FlushInOrder, OwnFile
<1> QED BY <1>9, <1>10, <1>11, <1>12 DEF OrderedInv

\* A file of the flush is completed, and the buffer it came from is cleared with the
\* second one.
LEMMA MarkOrdered ==
  ASSUME RecorderTypes, OwnerInv, OrderedInv, FillData \/ WriteMeta
  PROVE  OrderedInv'
<1>1. /\ job'.pid = job.pid /\ job'.chunk = job.chunk
      /\ job'.size = job.size /\ job'.now = job.now /\ job.at # "idle" /\ job.at # "prune" /\ job'.at \notin {"idle", "data"}
      /\ UNCHANGED <<clock, recorded>>
  BY FlushWrites DEF FillData, WriteMeta
<1>2. /\ job.pid \in Pids /\ job.chunk.start \in Nat /\ clock \in Nat /\ job.now \in Nat /\ job.chunk.buf \in Seq(Nat)
      /\ \A f \in files : f.pid \in Pids /\ f.start \in Nat
  BY <1>1, Numbers
<1>3. PICK f \in files, field \in {"data", "meta"} : Named(f) /\ files' = Mark(f, field, TRUE)
  BY FlushWrites DEF FillData, WriteMeta
<1> DEFINE g == [f EXCEPT ![field] = TRUE]
<1>4. /\ g.pid = f.pid /\ g.start = f.start /\ g.frames = f.frames
      /\ files' = (files \ {f}) \union {g}
  BY <1>3, FileTyped DEF RecorderTypes, Mark
<1> HIDE DEF g
<1>5. OwnFile(f)
  BY <1>1, <1>3 DEF Named, OwnerInv, OwnedBy, OwnFile
<1>6. /\ \A q \in Pids : q # job.pid => encoders'[q] = encoders[q]
      /\ \/ encoders'[job.pid] = encoders[job.pid] /\ (job'.at = "prune" => job.size = "none")
         \/ /\ job.size # "none" /\ job'.at = "prune"
            /\ encoders'[job.pid].buf = << >> /\ encoders'[job.pid].start = encoders[job.pid].start
            /\ encoders'[job.pid].last = encoders[job.pid].last
  <2>1. CASE UNCHANGED encoders /\ (job'.at = "prune" => job.size = "none")
    BY <2>1
  <2>2. CASE job'.at = "prune" /\ job.size # "none"
    <3>1. PICK t \in EncoderTrack :
            /\ encoders' = [encoders EXCEPT ![job.pid] = t]
            /\ t.buf = << >> /\ t.start = encoders[job.pid].start /\ t.last = encoders[job.pid].last
      BY <2>2, FlushWrites DEF FillData, WriteMeta
    <3> QED BY <1>2, <2>2, <3>1 DEF RecorderTypes
  <2> QED BY <2>1, <2>2, FlushWrites DEF FillData, WriteMeta
<1>7. \A q : Busy(q)' <=> Busy(q)
  BY <1>1 DEF Busy
<1>8. job.size # "none" => FlushOfTrack /\ encoders[job.pid].buf = job.chunk.buf
  BY <1>1 DEF OrderedInv, FlushInOrder, FlushOfTrack
<1>9. \A q \in Pids : \A u : KeptTime(q, u)' <=> KeptTime(q, u)
  <2> SUFFICES ASSUME NEW q \in Pids, NEW u PROVE KeptTime(q, u)' <=> KeptTime(q, u)
    OBVIOUS
  <2>1. (\E h \in files' : h.pid = q /\ u \in ToSet(h.frames)) <=> (\E h \in files : h.pid = q /\ u \in ToSet(h.frames))
    BY <1>3, <1>4
  <2>2. CASE q # job.pid
    BY <1>6, <1>7, <2>1, <2>2 DEF KeptTime, Busy
  <2>3. CASE q = job.pid
    <3>1. Busy(q) /\ Busy(q)'
      BY <1>1, <2>3 DEF Busy
    <3>2. ToSet(encoders'[q].buf) = ToSet(encoders[q].buf)
          \/ (ToSet(encoders'[q].buf) = {} /\ ToSet(encoders[q].buf) = ToSet(job.chunk.buf))
      BY <1>6, <1>8, <2>3, Times
    <3> QED BY <1>1, <2>1, <3>1, <3>2 DEF KeptTime
  <2> QED BY <2>2, <2>3
<1>10. job.size # "none" => encoders'[job.pid] # NoTrack /\ encoders'[job.pid].last = encoders[job.pid].last
  <2>1. CASE job.size # "none"
    <3>1. encoders'[job.pid].last = encoders[job.pid].last
      BY <1>6
    <3>2. job.now <= encoders[job.pid].last /\ encoders[job.pid].last \in Int
      BY <1>2, <1>8, <2>1, Numbers DEF FlushOfTrack
    <3>3. NoTrack.last < 0 /\ NoTrack.last \in Int
      BY TracksTyped, FieldTyped
    <3> QED BY <1>2, <3>1, <3>2, <3>3
  <2> QED BY <2>1
<1>11. RecordedInv' /\ OnlyOldLost'
  <2>1. \A q \in Pids, u \in Nat : << q, u >> \in recorded => u <= clock /\ (encoders'[q] # NoTrack => u <= encoders'[q].last)
    <3> SUFFICES ASSUME NEW q \in Pids, NEW u \in Nat, << q, u >> \in recorded
                 PROVE  u <= clock /\ (encoders'[q] # NoTrack => u <= encoders'[q].last)
      OBVIOUS
    <3>1. u <= clock /\ (encoders[q] # NoTrack => u <= encoders[q].last)
      BY DEF OrderedInv, RecordedInv
    <3>2. CASE encoders'[q] = encoders[q]
      BY <3>1, <3>2
    <3>3. CASE q = job.pid /\ job.size # "none"
      <4>1. encoders[q] # NoTrack
        BY <1>8, <3>3 DEF FlushOfTrack
      <4> QED BY <1>10, <3>1, <3>3, <4>1
    <3> QED BY <1>6, <3>2, <3>3
  <2> QED BY <1>1, <1>9, <2>1 DEF OrderedInv, RecordedInv, OnlyOldLost
<1>12. FilesInOrder'
  <2> SUFFICES ASSUME NEW x \in files', NEW y \in files', x.pid = y.pid
               PROVE  x.start <= clock /\ (x.start = y.start => x = y)
                      /\ (x.start < y.start => Earlier(x.frames, y.frames))
    BY <1>1 DEF FilesInOrder
  <2> DEFINE old(z) == IF z = g THEN f ELSE z
  <2>1. /\ old(x) \in files /\ old(y) \in files
        /\ old(x).pid = x.pid /\ old(x).start = x.start /\ old(x).frames = x.frames
        /\ old(y).pid = y.pid /\ old(y).start = y.start /\ old(y).frames = y.frames
    BY <1>4
  <2>2. old(x) = old(y) => x = y
    BY <1>4
  <2> HIDE DEF old
  <2>3. old(x).pid = old(y).pid
    BY <2>1
  <2>4. /\ old(x).start <= clock /\ (old(x).start = old(y).start => old(x) = old(y))
        /\ (old(x).start < old(y).start => Earlier(old(x).frames, old(y).frames))
    BY <2>1, <2>3 DEF OrderedInv, FilesInOrder
  <2> QED BY <2>1, <2>2, <2>4
<1>13. MemoryInOrder'
  <2> SUFFICES ASSUME NEW q \in Pids
               PROVE  /\ encoders'[q].enc /\ ~ Busy(q) => encoders'[q].buf # << >>
                      /\ encoders'[q].start <= clock
                      /\ encoders'[q].buf # << >> =>
                           \A h \in files' : h.pid = q =>
                             \/ h.start < encoders'[q].start /\ Earlier(h.frames, encoders'[q].buf)
                             \/ Busy(q) /\ OwnFile(h)
    BY <1>1, <1>7 DEF MemoryInOrder, OwnFile
  <2>1. encoders'[q].start = encoders[q].start /\ (encoders'[q].buf = encoders[q].buf \/ encoders'[q].buf = << >>)
    BY <1>6
  <2>2. encoders'[q].enc /\ ~ Busy(q) => encoders'[q].buf # << >>
    BY <1>1, <1>6 DEF OrderedInv, MemoryInOrder, Busy
  <2>3. ASSUME encoders'[q].buf # << >>, NEW h \in files', h.pid = q
        PROVE  \/ h.start < encoders'[q].start /\ Earlier(h.frames, encoders'[q].buf)
               \/ Busy(q) /\ OwnFile(h)
    <3>1. CASE h = g
      BY <1>1, <1>4, <1>5, <2>3, <3>1 DEF OwnFile, Busy
    <3>2. CASE h # g
      BY <1>4, <2>1, <2>3, <3>2 DEF OrderedInv, MemoryInOrder
    <3> QED BY <3>1, <3>2
  <2> QED BY <2>1, <2>2, <2>3 DEF OrderedInv, MemoryInOrder
<1>14. FlushInOrder'
  <2>1. \A h \in files' : h.pid = job.pid =>
           \/ h.start < job.chunk.start /\ Earlier(h.frames, job.chunk.buf)
           \/ OwnFile(h) /\ h.frames = job.chunk.buf
    BY <1>1, <1>3, <1>4 DEF OrderedInv, FlushInOrder, OwnFile
  <2>2. g \in files' /\ OwnFile(g)
    BY <1>4, <1>5 DEF OwnFile
  <2>3. job.size = "none" => encoders'[job.pid] = NoTrack
    BY <1>1, <1>6 DEF OrderedInv, FlushInOrder
  <2>4. job.size # "none" => FlushOfTrack'
    <3> SUFFICES ASSUME job.size # "none" PROVE FlushOfTrack'
      OBVIOUS
    <3>1. /\ encoders'[job.pid] # NoTrack /\ encoders'[job.pid].last = encoders[job.pid].last
          /\ encoders'[job.pid].start = encoders[job.pid].start
          /\ encoders'[job.pid].buf = IF job'.at = "prune" THEN << >> ELSE job.chunk.buf
      BY <1>6, <1>8, <1>10
    <3> QED BY <1>1, <1>8, <3>1 DEF FlushOfTrack
  <2>5. job.chunk.start <= clock
    BY <1>1 DEF OrderedInv, FlushInOrder
  <2> QED BY <1>1, <2>1, <2>2, <2>3, <2>4, <2>5 DEF FlushInOrder, OwnFile
<1> QED BY <1>11, <1>12, <1>13, <1>14 DEF OrderedInv

\* The oldest chunk of all goes: whatever is kept of its participant is newer.
LEMMA PruneOrdered ==
  ASSUME RecorderTypes, OrderedInv, Prune
  PROVE  OrderedInv'
<1>1. /\ job.at = "prune" /\ UNCHANGED <<clock, encoders, job, recorded>> /\ files' = files \ {Oldest}
  BY DEF Prune, history
<1>2. /\ clock \in Nat /\ job.pid \in Pids /\ job.chunk.start \in Nat
      /\ \A f \in files : f.pid \in Pids /\ f.start \in Nat /\ ToSet(f.frames) \subseteq Nat
  BY <1>1, Numbers
<1>3. files # {} => Oldest \in files /\ \A g \in files : Oldest.start <= g.start
  <2> SUFFICES ASSUME files # {} PROVE \E f \in files : \A g \in files : f.start <= g.start
    BY DEF Oldest
  <2> DEFINE starts == {f.start : f \in files}
  <2>1. starts \in SUBSET Nat /\ \E n : n \in starts
    BY <1>2
  <2> HIDE DEF starts
  <2>2. PICK n \in starts : \A m \in starts : n <= m
    BY <2>1, LeastOfAll
  <2> USE DEF starts
  <2> QED BY <2>2
<1> DEFINE f == Oldest
<1> HIDE DEF f
<1>4. CASE files = {}
  <2>1. files' = files
    BY <1>1, <1>4
  <2> QED BY <1>1, <1>2, <2>1, QuietOrdered
<1>5. CASE files # {}
  <2>1. f \in files /\ (\A g \in files : f.start <= g.start) /\ files' = files \ {f}
    BY <1>1, <1>3, <1>5 DEF f
  <2>2. \A g \in files : g.pid = f.pid /\ g # f => f.start < g.start /\ Earlier(f.frames, g.frames)
    <3> SUFFICES ASSUME NEW g \in files, g.pid = f.pid, g # f
                 PROVE  f.start < g.start /\ Earlier(f.frames, g.frames)
      OBVIOUS
    <3>1. f.start # g.start /\ f.start <= g.start
      BY <2>1 DEF OrderedInv, FilesInOrder
    <3>2. f.start < g.start
      BY <1>2, <2>1, <3>1
    <3> QED BY <2>1, <3>2 DEF OrderedInv, FilesInOrder
  <2>3. \A q : Busy(q)' <=> Busy(q)
    BY <1>1 DEF Busy
  <2>4. \A q \in Pids : \A u : KeptTime(q, u)' => KeptTime(q, u)
    BY <1>1, <2>1, <2>3 DEF KeptTime
  <2>5. RecordedInv'
    BY <1>1, <2>4 DEF OrderedInv, RecordedInv
  <2>6. FilesInOrder'
    BY <1>1, <2>1 DEF OrderedInv, FilesInOrder
  <2>7. MemoryInOrder'
    BY <1>1, <2>1, <2>3 DEF OrderedInv, MemoryInOrder, OwnFile
  <2>8. \A h \in files : h.pid = job.pid =>
           \/ h.start < job.chunk.start /\ Earlier(h.frames, job.chunk.buf)
           \/ OwnFile(h) /\ h.frames = job.chunk.buf
    BY <1>1 DEF OrderedInv, FlushInOrder
  <2>9. FlushInOrder'
    <3>1. ASSUME \A h \in files' : ~ OwnFile(h) PROVE \A h \in files' : h.pid # job.pid
      <4>1. CASE \A h \in files : h.pid # job.pid
        BY <2>1, <4>1
      <4>2. CASE OwnFile(f)
        <5> SUFFICES ASSUME NEW h \in files', h.pid = job.pid PROVE FALSE
          OBVIOUS
        <5>1. h \in files /\ h # f /\ h.pid = f.pid
          BY <2>1, <4>2 DEF OwnFile
        <5>2. f.start < h.start /\ f.start = job.chunk.start
          BY <2>2, <4>2, <5>1 DEF OwnFile
        <5>3. h.start <= job.chunk.start
          BY <1>2, <2>8, <5>1 DEF OwnFile
        <5> QED BY <1>2, <2>1, <5>1, <5>2, <5>3
      <4>3. CASE \E h \in files : OwnFile(h) /\ h # f
        BY <2>1, <3>1, <4>3
      <4> QED BY <1>1, <4>1, <4>2, <4>3 DEF OrderedInv, FlushInOrder
    <3>2. FlushOfTrack' <=> FlushOfTrack
      BY <1>1 DEF FlushOfTrack
    <3>3. \A h : OwnFile(h)' <=> OwnFile(h)
      BY <1>1 DEF OwnFile
    <3> QED BY <1>1, <2>1, <3>1, <3>2, <3>3 DEF OrderedInv, FlushInOrder
  <2>10. OnlyOldLost'
    <3>1. ASSUME NEW q \in Pids, NEW t \in Nat, NEW u \in Nat, KeptTime(q, t), ~ KeptTime(q, t)', KeptTime(q, u)'
          PROVE  t < u
      <4>1. f.pid = q /\ t \in ToSet(f.frames) /\ t \notin ToSet(encoders[q].buf) /\ ~ (Busy(q) /\ t \in ToSet(job.chunk.buf))
        BY <1>1, <2>1, <2>3, <3>1 DEF KeptTime
      <4>2. CASE \E g \in files' : g.pid = q /\ u \in ToSet(g.frames)
        BY <2>1, <2>2, <4>1, <4>2 DEF Earlier
      <4>3. ~ (Busy(q) /\ OwnFile(f))
        <5>1. ASSUME Busy(q), OwnFile(f) PROVE FALSE
          <6>1. f.frames = job.chunk.buf
            BY <1>2, <2>1, <2>8, <4>1, <5>1 DEF OwnFile
          <6> QED BY <4>1, <5>1, <6>1
        <5> QED BY <5>1
      <4>4. CASE u \in ToSet(encoders[q].buf)
        <5>1. encoders[q].buf # << >>
          BY <4>4, Times
        <5> QED BY <2>1, <4>1, <4>3, <4>4, <5>1 DEF OrderedInv, MemoryInOrder, Earlier
      <4>5. CASE Busy(q) /\ u \in ToSet(job.chunk.buf)
        BY <2>1, <2>8, <4>1, <4>3, <4>5 DEF Busy, Earlier
      <4> QED BY <1>1, <2>3, <3>1, <4>2, <4>4, <4>5 DEF KeptTime
    <3>2. OnlyOldLost
      BY DEF OrderedInv
    <3>3. recorded' = recorded
      BY <1>1
    <3> QED BY <2>4, <3>1, <3>2, <3>3, LossStep
  <2> QED BY <2>5, <2>6, <2>7, <2>9, <2>10 DEF OrderedInv
<1> QED BY <1>4, <1>5

\* The flush is over; the frame that waited is the newest.
LEMMA FlushedOrdered ==
  ASSUME RecorderTypes, NamesInv, OrderedInv, Flushed
  PROVE  OrderedInv'
<1>0. PICK p \in Pids : job.pid = p
  BY Numbers DEF Flushed
<1>1. /\ job.at = "prune" /\ job' = NoJob /\ UNCHANGED <<clock, files>> /\ job'.at = "idle" /\ Busy(p)
  BY <1>0, FlushedBecomes DEF Flushed, NoJob, Busy
<1>2. p \in Pids /\ job.now \in Nat /\ clock \in Nat /\ job.chunk.start \in Nat /\ \A f \in files : f.start \in Nat
  BY <1>0, <1>1, Numbers
<1>3. \A q : q # p => ~ Busy(q)
  BY <1>0 DEF Busy
<1>4. \A h \in files : h.pid = p =>
         \/ h.start < job.chunk.start /\ Earlier(h.frames, job.chunk.buf)
         \/ OwnFile(h) /\ h.frames = job.chunk.buf
  BY <1>0, <1>1 DEF OrderedInv, FlushInOrder
\* What of the chunk is in no file is lost, and then no file is left.
<1>5. ASSUME NEW t, t \in ToSet(job.chunk.buf), \A f \in files : ~ (f.pid = p /\ t \in ToSet(f.frames))
      PROVE  \A f \in files : f.pid # p
  <2>1. CASE \E f \in files : OwnFile(f)
    <3>1. PICK f \in files : OwnFile(f)
      BY <2>1
    <3>2. f.frames = job.chunk.buf /\ f.pid = p
      BY <1>0, <1>2, <1>4, <3>1 DEF OwnFile
    <3> QED BY <1>5, <3>2
  <2> QED BY <1>0, <1>1, <2>1 DEF OrderedInv, FlushInOrder
<1>6. \A q \in Pids, u \in Nat : KeptTime(q, u) /\ (\A f \in files : ~ (f.pid = q /\ u \in ToSet(f.frames))) /\ u \notin ToSet(encoders[q].buf)
        => q = p /\ \A f \in files : f.pid # p
  BY <1>0, <1>3, <1>5 DEF KeptTime, Busy
<1>7. ToSet(encoders[p].buf) = {}
  <2>1. encoders[p].buf = << >>
    BY <1>0, <1>1, TracksTyped DEF OrderedInv, FlushInOrder, FlushOfTrack
  <2> QED BY <2>1, Times
<1>8. ASSUME UNCHANGED recorded,
             \A q \in Pids : /\ q # p => encoders'[q] = encoders[q]
                             /\ encoders'[q].buf = encoders[q].buf /\ encoders'[q].start = encoders[q].start,
             ~ encoders'[p].enc, encoders'[p] # NoTrack => encoders[p] # NoTrack /\ encoders'[p].last = encoders[p].last
      PROVE  OrderedInv'
  <2>1. \A q \in Pids : \A u : KeptTime(q, u)' => KeptTime(q, u)
    BY <1>1, <1>8 DEF KeptTime, Busy
  <2>2. RecordedInv'
    <3>1. \A q \in Pids : encoders'[q] # NoTrack => encoders[q] # NoTrack /\ encoders'[q].last = encoders[q].last
      BY <1>8
    <3> QED BY <1>1, <1>8, <2>1, <3>1 DEF OrderedInv, RecordedInv
  <2>3. OnlyOldLost'
    <3>1. ASSUME NEW q \in Pids, NEW t \in Nat, NEW u \in Nat, KeptTime(q, t), ~ KeptTime(q, t)', KeptTime(q, u)'
          PROVE  FALSE
      <4>1. /\ \A f \in files : ~ (f.pid = q /\ t \in ToSet(f.frames))
            /\ t \notin ToSet(encoders[q].buf)
        BY <1>1, <1>8, <3>1 DEF KeptTime
      <4>2. q = p /\ \A f \in files : f.pid # p
        BY <1>6, <3>1, <4>1
      <4> QED BY <1>1, <1>7, <1>8, <3>1, <4>2 DEF KeptTime, Busy
    <3>2. OnlyOldLost
      BY DEF OrderedInv
    <3> QED BY <1>8, <2>1, <3>1, <3>2, LossStep
  <2>4. FilesInOrder'
    BY <1>1 DEF OrderedInv, FilesInOrder
  <2>5. MemoryInOrder'
    <3> SUFFICES ASSUME NEW q \in Pids
                 PROVE  /\ encoders'[q].enc => encoders'[q].buf # << >>
                        /\ encoders'[q].start <= clock
                        /\ encoders'[q].buf # << >> =>
                             \A h \in files : h.pid = q => h.start < encoders'[q].start /\ Earlier(h.frames, encoders'[q].buf)
      BY <1>1 DEF MemoryInOrder
    <3>1. CASE q = p
      <4>1. encoders[p].buf = << >>
        BY <1>2, <1>7, Numbers, Times
      <4> QED BY <1>8, <3>1, <4>1 DEF OrderedInv, MemoryInOrder
    <3>2. CASE q # p
      BY <1>3, <1>8, <3>2 DEF OrderedInv, MemoryInOrder
    <3> QED BY <3>1, <3>2
  <2>6. FlushInOrder'
    BY <1>1 DEF FlushInOrder
  <2> QED BY <2>2, <2>3, <2>4, <2>5, <2>6 DEF OrderedInv
<1>9. CASE job.size = "none"
  <2>1. UNCHANGED <<encoders, recorded>>
    BY <1>9, FlushedBecomes
  <2>2. encoders[p] = NoTrack /\ NoTrack.enc = FALSE
    BY <1>0, <1>1, <1>9, TracksTyped DEF OrderedInv, FlushInOrder
  <2> QED BY <1>8, <2>1, <2>2
<1>10. CASE job.size # "none"
  <2>1. FlushOfTrack
    BY <1>1, <1>10 DEF OrderedInv, FlushInOrder
  <2>2. PICK t \in EncoderTrack :
          /\ encoders' = [encoders EXCEPT ![p] = t] /\ t.last = encoders[p].last
          /\ \/ /\ Fresh(p) /\ t.buf = << job.now >> /\ t.start = clock
                /\ recorded' = recorded \union {<< p, job.now >>}
             \/ /\ UNCHANGED recorded
                /\ t.buf = encoders[p].buf /\ t.start = encoders[p].start /\ t.enc = FALSE
    <3> DEFINE t == encoders'[p]
    <3>1. encoders' = [encoders EXCEPT ![p] = t] /\ t \in EncoderTrack
      BY <1>0, <1>10, FlushedBecomes
    <3>2. /\ t.last = encoders[p].last
          /\ \/ /\ Fresh(p) /\ t.buf = << job.now >> /\ t.start = clock
                /\ recorded' = recorded \union {<< p, job.now >>}
             \/ /\ UNCHANGED recorded
                /\ t.buf = encoders[p].buf /\ t.start = encoders[p].start /\ t.enc = FALSE
      BY <1>0, <1>10, FlushedBecomes
    <3> HIDE DEF t
    <3> QED BY <3>1, <3>2
  <2>3. encoders'[p] = t /\ \A q \in Pids : q # p => encoders'[q] = encoders[q]
    BY <1>2, <2>2 DEF RecorderTypes
  <2>4. CASE /\ UNCHANGED recorded
             /\ t.buf = encoders[p].buf /\ t.start = encoders[p].start /\ t.enc = FALSE
    <3>1. encoders[p] # NoTrack
      BY <1>0, <2>1 DEF FlushOfTrack
    <3> QED BY <1>8, <2>2, <2>3, <2>4, <3>1
  <2>5. CASE /\ Fresh(p) /\ t.buf = << job.now >> /\ t.start = clock
             /\ recorded' = recorded \union {<< p, job.now >>}
    <3>1. ToSet(t.buf) = {job.now}
      BY <1>2, <2>5, Times
    <3>2. job.now <= clock /\ job.now <= t.last /\ \A u \in Nat : << p, u >> \in recorded => u < job.now
      BY <1>0, <2>1, <2>2 DEF FlushOfTrack
    <3>3. \A f \in files : f.pid = p => f.start < t.start
      <4>1. \A f \in files : f.pid = p => f.start <= clock /\ f.start # clock
        BY <2>5 DEF Fresh, NamesInv, FilesNamed, OrderedInv, FilesInOrder
      <4> QED BY <1>2, <2>5, <4>1
    <3>4. ASSUME NEW u \in Nat, NEW v \in Nat, KeptTime(p, u), ~ KeptTime(p, u)', KeptTime(p, v)'
          PROVE  u < v
      <4>1. \A f \in files : ~ (f.pid = p /\ u \in ToSet(f.frames))
        BY <1>1, <3>4 DEF KeptTime
      <4>2. \A f \in files : f.pid # p
        BY <1>2, <1>6, <1>7, <3>4, <4>1
      <4>3. v = job.now
        BY <1>1, <2>3, <3>1, <3>4, <4>2 DEF KeptTime, Busy
      <4>4. << p, u >> \in recorded
        BY <1>2, <3>4 DEF OrderedInv, RecordedInv
      <4> QED BY <3>2, <4>3, <4>4
    <3>5. t.start <= clock
      BY <1>2, <2>5
    <3> QED BY <1>0, <1>1, <1>2, <2>2, <2>5, <3>1, <3>2, <3>3, <3>4, <3>5, RecordedOne
  <2> QED BY <2>2, <2>4, <2>5
<1> QED BY <1>9, <1>10

\* Nothing has gone wrong that loses frames.
Sound == wentWrong \subseteq {"encoder"}

LEMMA SoundBefore == ASSUME [RecorderNext]_recorderVars, Sound' PROVE Sound
<1>1. UNCHANGED wentWrong \/ wentWrong = {}
  <2>1. CASE Tick \/ LoadMeta \/ Select \/ Read \/ Return \/ (\E p, op, from, to : Ask(p, op, from, to))
             \/ UNCHANGED recorderVars
    BY <2>1 DEF Tick, LoadMeta, Select, Read, Return, Ask, recorderVars, history
  <2>2. CASE FlushChunk \/ Restart
    BY <2>2 DEF FlushChunk, OpenData, FillData, WriteMeta, WriteFails, Prune, Flushed, Reopen, Restart, Fault, history
  <2>3. CASE \E p \in Pids : NewTrackFails(p) \/ Leave(p) \/ (\E s \in Sizes[p] : NewTrack(p, s) \/ Encode(p, s) \/ Close(p, s))
    <3>1. \A t, buf : EndEncode(t, buf) => UNCHANGED wentWrong \/ wentWrong = {}
      BY DEF EndEncode, Fault
    <3>2. \A p : NewTrackFails(p) \/ Leave(p) => UNCHANGED wentWrong \/ wentWrong = {}
      BY <3>1, Zenon DEF NewTrackFails, Leave, Fault
    <3>3. \A p, s : NewTrack(p, s) \/ Encode(p, s) => UNCHANGED wentWrong
      BY DEF NewTrack, Encode
    <3>4. ASSUME NEW p, NEW s, Close(p, s) PROVE UNCHANGED wentWrong \/ wentWrong = {}
      <4>1. \E buf : EndEncode(encoders[p], buf)
        BY <3>4, Zenon DEF Close
      <4> QED BY <3>1, <4>1
    <3> QED BY <2>3, <3>2, <3>3, <3>4
  <2> QED BY <2>1, <2>2, <2>3 DEF RecorderNext
<1> QED BY <1>1 DEF Sound

LEMMA OrderStartsRecorder == RecorderInit => OrderedInv
<1> SUFFICES ASSUME RecorderInit PROVE OrderedInv
  OBVIOUS
<1>1. /\ clock = 0 /\ encoders = [p \in Pids |-> NoTrack] /\ files = {} /\ recorded = {} /\ job.at = "idle"
  BY DEF RecorderInit, NoJob
<1>2. /\ NoTrack.buf = << >> /\ NoTrack.enc = FALSE /\ NoTrack.start = 0
  BY DEF NoTrack
<1>3. \A p \in Pids : \A t : ~ KeptTime(p, t)
  BY <1>1, <1>2, Times DEF KeptTime, Busy
<1>4. RecordedInv /\ OnlyOldLost
  BY <1>1, <1>3 DEF RecordedInv, OnlyOldLost
<1>5. FilesInOrder /\ FlushInOrder
  BY <1>1 DEF FilesInOrder, FlushInOrder
<1>6. MemoryInOrder
  BY <1>1, <1>2 DEF MemoryInOrder
<1> QED BY <1>4, <1>5, <1>6 DEF OrderedInv

LEMMA OrderKept ==
  RecorderTypes /\ OwnerInv /\ NamesInv /\ (Sound => OrderedInv) /\ [RecorderNext]_recorderVars => (Sound => OrderedInv)'
<1> SUFFICES ASSUME RecorderTypes, OwnerInv, NamesInv, Sound => OrderedInv, [RecorderNext]_recorderVars, Sound' PROVE OrderedInv'
  OBVIOUS
<1>1. OrderedInv
  BY SoundBefore
<1>2. wentWrong' \subseteq {"encoder"}
  BY DEF Sound
<1>3. CASE Tick \/ LoadMeta \/ Select \/ Read \/ Return \/ (\E p, op, from, to : Ask(p, op, from, to))
           \/ (\E p \in Pids : NewTrackFails(p)) \/ UNCHANGED recorderVars
  <2>1. UNCHANGED <<encoders, files, job, recorded>>
    BY <1>3 DEF Tick, LoadMeta, Select, Read, Return, Ask, NewTrackFails, recorderVars, recorder, history
  <2>2. clock' = clock \/ clock' = clock + 1
    <3>1. CASE Tick
      BY <3>1 DEF Tick
    <3>2. CASE ~ Tick
      BY <1>3, <3>2 DEF LoadMeta, Select, Read, Return, Ask, NewTrackFails, recorderVars
    <3> QED BY <3>1, <3>2
  <2>3. clock' \in Nat /\ clock <= clock'
    BY <2>2, Numbers
  <2> QED BY <1>1, <2>1, <2>3, QuietOrdered
<1>4. CASE FlushChunk
  <2>1. ~ WriteFails
    BY <1>2 DEF WriteFails, Fault
  <2> QED BY <1>1, <1>4, <2>1, OpenDataOrdered, MarkOrdered, PruneOrdered, FlushedOrdered DEF FlushChunk
<1>5. ~ Restart
  BY <1>2 DEF Restart, Fault
<1>6. CASE \E p \in Pids : Leave(p) \/ (\E s \in Sizes[p] : NewTrack(p, s) \/ Encode(p, s) \/ Close(p, s))
  BY <1>1, <1>2, <1>6, LeaveOrdered, NewTrackOrdered, EncodeOrdered, CloseOrdered
<1> QED BY <1>3, <1>4, <1>5, <1>6 DEF RecorderNext

LEMMA KeptTimes ==
  ASSUME RecorderTypes, NEW p \in Pids, NEW t
  PROVE  << p, t >> \in Kept <=> KeptTime(p, t)
<1>1. << p, t >> \in InMemory <=> t \in ToSet(encoders[p].buf)
  BY DEF InMemory, ToSet
<1>2. << p, t >> \in InFlush <=> Busy(p) /\ t \in ToSet(job.chunk.buf)
  BY DEF InFlush, Busy, ToSet
<1>3. << p, t >> \in InFiles <=> \E f \in files : f.pid = p /\ t \in ToSet(f.frames)
  BY DEF InFiles, ToSet
<1> QED BY <1>1, <1>2, <1>3 DEF Kept, KeptTime

\* Until a write fails, EndEncode fails or the hub stops, what the recorder has
\* encoded of a participant is kept from some moment on, in the encoder's buffer, in
\* a flush or on disk: only the oldest frames of it were ever evicted.
THEOREM KeptWithoutHoles == RecorderSpec => []NoHoles
<1>1. RecorderTypes /\ (Sound => OrderedInv) => NoHoles
  <2> SUFFICES ASSUME RecorderTypes, OrderedInv, NEW e \in recorded, e \notin Kept, NEW g \in Kept, e[1] = g[1]
               PROVE  e[2] < g[2]
    BY DEF Sound, NoHoles
  <2>1. PICK p \in Pids, t \in Nat : e = << p, t >>
    BY DEF RecorderTypes
  <2>2. PICK u : g = << p, u >> /\ u \in Nat
    <3>1. g = << g[1], g[2] >>
      BY DEF Kept, InMemory, InFlush, InFiles
    <3>2. KeptTime(p, g[2])
      BY <2>1, <3>1, KeptTimes
    <3>3. g[2] \in Nat
      BY <3>2, Numbers, Times DEF KeptTime, Busy
    <3> QED BY <2>1, <3>1, <3>3
  <2>3. ~ KeptTime(p, t) /\ KeptTime(p, u)
    BY <2>1, <2>2, KeptTimes
  <2> QED BY <2>1, <2>2, <2>3 DEF OrderedInv, OnlyOldLost
<1>2. RecorderInit => RecorderTypes /\ OwnerInv /\ NamesInv /\ (Sound => OrderedInv)
  BY OwnersStart, NamesStart, OrderStartsRecorder
<1> QED BY <1>1, <1>2, OwnersKeep, NamesKeep, OrderKept, PTL DEF RecorderSpec

-----------------------------------------------------------------------------
(* The limit of the recordings' bytes.                                     *)

\* What Total computes, for the sets of files S: a set's total is the length of one of
\* its files and the total of the others.
Adds(it, S) ==
  it = [s \in S |-> IF s = {} THEN 0
                    ELSE LET x == CHOOSE x \in s : TRUE IN Len(x.frames) + it[s \ {x}]]

Picked(s) == CHOOSE x \in s : TRUE

LEMMA FewerFiles ==
  ASSUME IsFiniteSet(files), NEW s \in SUBSET files
  PROVE  /\ Cardinality(s) \in Nat /\ Cardinality(s) <= Cardinality(files) /\ (Cardinality(s) = 0 <=> s = {})
         /\ s # {} => /\ Picked(s) \in files /\ s \ {Picked(s)} \in SUBSET files
                      /\ Cardinality(s \ {Picked(s)}) = Cardinality(s) - 1
<1>1. IsFiniteSet(s) /\ Cardinality(s) <= Cardinality(files)
  BY FS_Subset
<1>2. Cardinality(s) \in Nat /\ (Cardinality(s) = 0 <=> s = {})
  BY <1>1, FS_CardinalityType, FS_EmptySet
<1>3. ASSUME s # {} PROVE Picked(s) \in s
  BY <1>3 DEF Picked
<1>4. \A x \in s : Cardinality(s \ {x}) = Cardinality(s) - 1
  BY <1>1, FS_RemoveElement
<1> QED BY <1>1, <1>2, <1>3, <1>4

\* The sets of at most n files.
Up(n) == {s \in SUBSET files : Cardinality(s) <= n}

\* The totals of larger sets follow from those of smaller ones.
LEMMA TotalsExist ==
  ASSUME IsFiniteSet(files), NEW len \in Nat
  PROVE  \E it : Adds(it, Up(len))
<1> DEFINE S == {n \in Nat : ~ \E it : Adds(it, Up(n))}
<1>1. ASSUME S # {} PROVE FALSE
  <2>1. PICK n \in S : \A m \in S : n <= m
    <3>1. S \in SUBSET Nat /\ \E m : m \in S
      BY <1>1
    <3> HIDE DEF S
    <3> QED BY <3>1, LeastOfAll
  <2>2. n \in Nat
    OBVIOUS
  <2>3. CASE n = 0
    <3> DEFINE it == [s \in Up(0) |-> 0]
    <3>1. ASSUME NEW s \in Up(0) PROVE s = {}
      <4>1. s \in SUBSET files /\ Cardinality(s) <= 0
        BY DEF Up
      <4>2. Cardinality(s) \in Nat
        BY <4>1, FewerFiles
      <4>3. Cardinality(s) = 0
        BY <4>1, <4>2
      <4> QED BY <4>1, <4>3, FewerFiles
    <3>2. Adds(it, Up(0))
      BY <3>1 DEF Adds
    <3> QED BY <2>1, <2>3, <3>2
  <2>4. CASE n # 0
    <3>1. n - 1 \in Nat /\ n - 1 \notin S
      BY <2>1, <2>2, <2>4
    <3>2. PICK less : Adds(less, Up(n - 1))
      BY <3>1
    <3> DEFINE it == [s \in Up(n) |-> IF s = {} THEN 0 ELSE Len(Picked(s).frames) + less[s \ {Picked(s)}]]
    <3>3. \A s \in Up(n - 1) : s \in Up(n) /\ less[s] = IF s = {} THEN 0 ELSE Len(Picked(s).frames) + less[s \ {Picked(s)}]
      <4>1. ASSUME NEW s \in Up(n - 1) PROVE s \in Up(n)
        <5>1. s \in SUBSET files /\ Cardinality(s) <= n - 1
          BY DEF Up
        <5>2. Cardinality(s) \in Nat
          BY <5>1, FewerFiles
        <5>3. Cardinality(s) <= n
          BY <2>2, <5>1, <5>2
        <5> QED BY <5>1, <5>3 DEF Up
      <4> QED BY <3>2, <4>1 DEF Adds, Picked
    <3>4. \A s \in Up(n - 1) : it[s] = less[s]
      BY <3>3
    <3>5. \A s \in Up(n) : s # {} => s \ {Picked(s)} \in Up(n - 1)
      BY <2>2, FewerFiles DEF Up
    <3>6. \A s \in Up(n) : it[s] = IF s = {} THEN 0 ELSE Len(Picked(s).frames) + it[s \ {Picked(s)}]
      <4>1. \A s \in Up(n) : it[s] = IF s = {} THEN 0 ELSE Len(Picked(s).frames) + less[s \ {Picked(s)}]
        OBVIOUS
      <4> HIDE DEF it
      <4> QED BY <3>4, <3>5, <4>1
    <3>7. it = [s \in Up(n) |-> it[s]]
      OBVIOUS
    <3>8. Adds(it, Up(n))
      <4> HIDE DEF it
      <4> QED BY <3>6, <3>7 DEF Adds, Picked
    <3> QED BY <2>1, <3>8
  <2> QED BY <2>3, <2>4
<1> QED BY <1>1

LEMMA TotalsTyped ==
  ASSUME IsFiniteSet(files), \A f \in files : Len(f.frames) \in Nat, NEW it, Adds(it, SUBSET files),
         NEW s \in SUBSET files
  PROVE  it[s] \in Nat
<1> DEFINE S == {n \in Nat : \E r \in SUBSET files : Cardinality(r) = n /\ it[r] \notin Nat}
<1>1. ASSUME S # {} PROVE FALSE
  <2>1. PICK n \in S : \A m \in S : n <= m
    <3>1. S \in SUBSET Nat /\ \E m : m \in S
      BY <1>1
    <3> HIDE DEF S
    <3> QED BY <3>1, LeastOfAll
  <2>2. PICK r \in SUBSET files : Cardinality(r) = n /\ it[r] \notin Nat
    BY <2>1
  <2>3. it[r] = IF r = {} THEN 0 ELSE Len(Picked(r).frames) + it[r \ {Picked(r)}]
    BY DEF Adds, Picked
  <2>4. r # {} /\ n \in Nat
    BY <2>2, <2>3
  <2>9. Cardinality(r) = n
    BY <2>2
  <2> HIDE DEF S
  <2>5. /\ Picked(r) \in files /\ r \ {Picked(r)} \in SUBSET files
        /\ Cardinality(r \ {Picked(r)}) = n - 1 /\ n - 1 \in Nat
    <3>1. Picked(r) \in files /\ r \ {Picked(r)} \in SUBSET files /\ Cardinality(r \ {Picked(r)}) = Cardinality(r) - 1
      BY <2>4, FewerFiles
    <3>2. Cardinality(r) \in Nat /\ Cardinality(r) # 0
      BY <2>4, FewerFiles
    <3> QED BY <2>9, <3>1, <3>2
  <2>6. n - 1 \notin S
    BY <2>1, <2>4
  <2>7. it[r \ {Picked(r)}] \in Nat
    BY <2>5, <2>6 DEF S
  <2>8. Len(Picked(r).frames) \in Nat
    BY <2>5
  <2> QED BY <2>2, <2>3, <2>4, <2>7, <2>8
<1>2. Cardinality(s) \in Nat
  BY FewerFiles
<1> QED BY <1>1, <1>2

\* The total of finitely many files is a number, and that of no file is 0.
LEMMA TotalTyped ==
  ASSUME IsFiniteSet(files), \A f \in files : Len(f.frames) \in Nat
  PROVE  Total \in Nat /\ (files = {} => Total = 0)
<1> DEFINE sum == CHOOSE it : it = [s \in SUBSET files |-> IF s = {} THEN 0
                        ELSE LET x == CHOOSE x \in s : TRUE IN Len(x.frames) + it[s \ {x}]]
<1>1. Total = sum[files]
  BY DEF Total, MapThenSumSet, MapThenFoldSet
<1>2. Up(Cardinality(files)) = SUBSET files /\ Cardinality(files) \in Nat
  BY FewerFiles DEF Up
<1>3. PICK g : Adds(g, SUBSET files)
  BY <1>2, TotalsExist
<1>4. sum = [s \in SUBSET files |-> IF s = {} THEN 0
                        ELSE LET x == CHOOSE x \in s : TRUE IN Len(x.frames) + sum[s \ {x}]]
  BY <1>3 DEF Adds
<1> HIDE DEF sum
<1>5. Adds(sum, SUBSET files)
  BY <1>4 DEF Adds
<1>6. sum[files] \in Nat
  BY <1>5, TotalsTyped
<1>7. files = {} => sum[files] = 0
  BY <1>5 DEF Adds
<1> QED BY <1>1, <1>6, <1>7

\* There are finitely many files, and those of a flush that is over are within the limit.
LimitInv == IsFiniteSet(files) /\ WithinLimit

LEMMA FilesSized == ASSUME RecorderTypes PROVE \A f \in files : Len(f.frames) \in Nat
  BY DEF RecorderTypes, ChunkFile

\* Files are written and evicted by a flush only, one at a time.
LEMMA LimitKeeps ==
  ASSUME RecorderTypes, LimitInv, [RecorderNext]_recorderVars
  PROVE  LimitInv'
<1>1. IsFiniteSet(files)
  BY DEF LimitInv
<1>2. CASE OpenData \/ FillData \/ WriteMeta \/ Prune
  <2>1. job'.at # "idle"
    BY <1>2 DEF OpenData, FillData, WriteMeta, Prune, Step, RecorderTypes, FlushJobs, NoJob
  <2>2. IsFiniteSet(files')
    <3>1. \E S \in SUBSET files : files' = S \/ \E f : files' = S \union {f}
      BY <1>2 DEF OpenData, FillData, WriteMeta, Prune, Mark
    <3>2. \A S \in SUBSET files : IsFiniteSet(S) /\ \A f : IsFiniteSet(S \union {f})
      BY <1>1, FS_Subset, FS_AddElement
    <3> QED BY <3>1, <3>2
  <2> QED BY <2>1, <2>2 DEF LimitInv, WithinLimit
<1>3. CASE WriteFails
  BY <1>1, <1>3 DEF WriteFails, Fault, LimitInv, WithinLimit
<1>4. CASE Flushed
  <2>1. files' = files /\ ~ OverLimit /\ Total' = Total
    BY <1>4 DEF Flushed, Total, MapThenSumSet, MapThenFoldSet
  <2>2. Total \in Nat /\ MaxBytes \in Nat
    BY <1>1, FilesSized, TotalTyped, RecordingAssumption
  <2>3. MaxBytes > 0 => Total <= MaxBytes
    BY <2>1, <2>2 DEF OverLimit
  <2> QED BY <1>1, <2>1, <2>3 DEF LimitInv, WithinLimit
<1>5. ASSUME files' = files, job'.at = "idle" => job.at = "idle", "disk" \in wentWrong => "disk" \in wentWrong'
      PROVE  LimitInv'
  <2>1. Total' = Total
    BY <1>5 DEF Total, MapThenSumSet, MapThenFoldSet
  <2> QED BY <1>5, <2>1 DEF LimitInv, WithinLimit
<1>6. CASE UNCHANGED recorderVars
  BY <1>5, <1>6 DEF recorderVars, recorder, history
<1>7. CASE Tick \/ Restart \/ LoadMeta \/ Select \/ Read \/ Return
  BY <1>5, <1>7 DEF Tick, Restart, LoadMeta, Select, Read, Return, Fault, recorder, history
<1>8. ASSUME NEW p \in Pids, NewTrackFails(p) \/ Leave(p) PROVE LimitInv'
  BY <1>5, <1>8 DEF NewTrackFails, Leave, EndEncode, Fault
<1>9. ASSUME NEW p \in Pids, NEW s \in Sizes[p], NewTrack(p, s) \/ Encode(p, s) \/ Close(p, s) PROVE LimitInv'
  BY <1>5, <1>9 DEF NewTrack, Encode, Close, Sampled, EndEncode, Fault
<1>10. ASSUME NEW p \in Pids, NEW op, NEW from, NEW to, Ask(p, op, from, to) PROVE LimitInv'
  BY <1>5, <1>10 DEF Ask, recorder, history
<1> QED BY <1>2, <1>3, <1>4, <1>6, <1>7, <1>8, <1>9, <1>10 DEF RecorderNext, FlushChunk

\* After a flush the chunks of all participants together are within the limit, unless a
\* write has failed: _prune_by_total_bytes ends a flush, and nothing else leaves files.
THEOREM LimitHolds == RecorderSpec => []WithinLimit
<1>1. RecorderInit => LimitInv
  <2> SUFFICES ASSUME RecorderInit PROVE LimitInv
    OBVIOUS
  <2>1. IsFiniteSet(files) /\ files = {}
    BY FS_EmptySet DEF RecorderInit
  <2>2. Total = 0
    BY <2>1, TotalTyped
  <2> QED BY <2>1, <2>2, RecordingAssumption DEF LimitInv, WithinLimit
<1>2. LimitInv => WithinLimit
  BY DEF LimitInv
<1> QED BY <1>1, <1>2, OwnersStart, OwnersKeep, LimitKeeps, PTL DEF RecorderSpec

=============================================================================
