--------------------------- MODULE MediaHub_proof ---------------------------
(***************************************************************************)
(* Theorems about MediaHub, for every value of its constants.              *)
(***************************************************************************)
EXTENDS MediaHub, SequenceTheorems, TLAPS

(***************************************************************************)
(* What the actions do to queues and slots, in the form the proofs use.    *)
(***************************************************************************)

\* Dropping the oldest message, a suffix, or one message in the middle leaves
\* a subsequence: every message left was there, each at a place of its own.
Shrinks(q, r) ==
  \E g \in [1 .. Len(r) -> 1 .. Len(q)] :
    /\ \A i \in 1 .. Len(r) : r[i] = q[g[i]]
    /\ \A i, j \in 1 .. Len(r) : i # j => g[i] # g[j]

LEMMA TailShrinks ==
  ASSUME NEW S, NEW q \in Seq(S), q # <<>>
  PROVE  Tail(q) \in Seq(S) /\ Shrinks(q, Tail(q))
<1> DEFINE g == [i \in 1 .. Len(Tail(q)) |-> i + 1]
<1>1. /\ Tail(q) \in Seq(S)
      /\ Len(Tail(q)) = Len(q) - 1
      /\ \A i \in 1 .. Len(Tail(q)) : Tail(q)[i] = q[i + 1]
  OBVIOUS
<1>2. g \in [1 .. Len(Tail(q)) -> 1 .. Len(q)]
  BY <1>1
<1>3. \A i \in 1 .. Len(Tail(q)) : Tail(q)[i] = q[g[i]]
  BY <1>1
<1>4. \A i, j \in 1 .. Len(Tail(q)) : i # j => g[i] # g[j]
  OBVIOUS
<1> HIDE DEF g
<1> QED
  BY <1>1, <1>2, <1>3, <1>4 DEF Shrinks

LEMMA PrefixShrinks ==
  ASSUME NEW S, NEW q \in Seq(S), NEW n \in 0 .. Len(q)
  PROVE  SubSeq(q, 1, n) \in Seq(S) /\ Shrinks(q, SubSeq(q, 1, n))
<1> DEFINE r == SubSeq(q, 1, n)
           g == [i \in 1 .. Len(r) |-> i]
<1>1. /\ r \in Seq(S)
      /\ Len(r) = n
      /\ \A i \in 1 .. n : r[i] = q[i]
  OBVIOUS
<1>2. g \in [1 .. Len(r) -> 1 .. Len(q)]
  BY <1>1
<1>3. \A i \in 1 .. Len(r) : r[i] = q[g[i]]
  BY <1>1
<1>4. \A i, j \in 1 .. Len(r) : i # j => g[i] # g[j]
  OBVIOUS
<1> HIDE DEF g, r
<1>5. r \in Seq(S) /\ Shrinks(q, r)
  BY <1>1, <1>2, <1>3, <1>4 DEF Shrinks
<1> QED
  BY <1>5 DEF r

LEMMA RemoveAtShrinks ==
  ASSUME NEW S, NEW q \in Seq(S), NEW k \in 1 .. Len(q)
  PROVE  RemoveAt(q, k) \in Seq(S) /\ Shrinks(q, RemoveAt(q, k))
<1> DEFINE r == RemoveAt(q, k)
           a == SubSeq(q, 1, k - 1)
           b == SubSeq(q, k + 1, Len(q))
           g == [i \in 1 .. Len(r) |-> IF i < k THEN i ELSE i + 1]
<1>1. /\ a \in Seq(S) /\ Len(a) = k - 1
      /\ \A i \in 1 .. k - 1 : a[i] = q[i]
  OBVIOUS
<1>2. /\ b \in Seq(S) /\ Len(b) = Len(q) - k
      /\ \A i \in 1 .. Len(q) - k : b[i] = q[k + i]
  OBVIOUS
<1>3. /\ r \in Seq(S) /\ Len(r) = Len(q) - 1
      /\ \A i \in 1 .. Len(r) : r[i] = IF i < k THEN a[i] ELSE b[i - (k - 1)]
  <2>1. r = a \o b
    BY DEF RemoveAt
  <2> HIDE DEF r, a, b
  <2>2. /\ a \o b \in Seq(S)
        /\ Len(a \o b) = Len(a) + Len(b)
        /\ \A i \in 1 .. Len(a) + Len(b) :
             (a \o b)[i] = IF i <= Len(a) THEN a[i] ELSE b[i - Len(a)]
    BY <1>1, <1>2, ConcatProperties, Zenon
  <2>3. Len(a) = k - 1 /\ Len(a) + Len(b) = Len(q) - 1 /\ k \in Nat /\ Len(q) \in Nat
    BY <1>1, <1>2
  <2>4. r \in Seq(S) /\ Len(r) = Len(q) - 1
    BY <2>1, <2>2, <2>3
  <2>5. \A i \in 1 .. Len(r) : r[i] = IF i < k THEN a[i] ELSE b[i - (k - 1)]
    <3>1. SUFFICES ASSUME NEW i \in 1 .. Len(q) - 1
                   PROVE  r[i] = IF i < k THEN a[i] ELSE b[i - (k - 1)]
      BY <2>4
    <3>2. r[i] = IF i <= k - 1 THEN a[i] ELSE b[i - (k - 1)]
      BY <2>1, <2>2, <2>3
    <3> QED
      BY <2>3, <3>2
  <2> QED
    BY <2>4, <2>5
<1>4. g \in [1 .. Len(r) -> 1 .. Len(q)]
  BY <1>3
<1>5. \A i \in 1 .. Len(r) : r[i] = q[g[i]]
  BY <1>1, <1>2, <1>3
<1>6. \A i, j \in 1 .. Len(r) : i # j => g[i] # g[j]
  BY <1>3
<1> HIDE DEF g, r
<1>7. r \in Seq(S) /\ Shrinks(q, r)
  BY <1>3, <1>4, <1>5, <1>6 DEF Shrinks
<1> QED
  BY <1>7 DEF r

(***************************************************************************)
(* Type correctness.                                                       *)
(***************************************************************************)

LEMMA SendType ==
  ASSUME TypeOK, NEW e \in Endpoints, NEW m \in Message, Send(e, m)
  PROVE  push' \in [Endpoints -> Seq(Message)]
BY DEF TypeOK, Send

LEMMA ReceiveType ==
  ASSUME TypeOK, NEW e \in Endpoints, NEW type, Receive(e, type)
  PROVE  /\ push' \in [Endpoints -> Seq(Message)]
         /\ Head(push[e]) \in Message
         /\ Head(push[e]).type = type
<1>1. push[e] \in Seq(Message) /\ push[e] # <<>>
  BY DEF TypeOK, Receive
<1>2. Tail(push[e]) \in Seq(Message) /\ Head(push[e]) \in Message
  BY <1>1
<1> QED
  BY <1>2 DEF TypeOK, Receive

LEMMA MessageFields ==
  ASSUME NEW m \in Message
  PROVE  /\ m.type \in {"join", "leave"} => m.pid \in Participants
         /\ m.type = "frame" => m.slot \in Slots /\ m.frame \in Frame
BY DEF Message, RegisterMsg

LEMMA ReleaseType ==
  ASSUME TypeOK, NEW T, Release(T)
  PROVE  /\ slots' \in [Endpoints -> [Slots -> Slot]]
         /\ held' \in [Tracks -> View \union {None}]
BY DEF TypeOK, Release, Slot, FreeSlot

LEMMA ScanType ==
  ASSUME TypeOK, NEW e \in Endpoints, NEW k \in Nat
  PROVE  Scan(e, k) \in Slots
<1>1. NumSlots \in Nat /\ NumSlots > 0 /\ writePos[e] + k \in Nat
  BY ConstantsAssumption DEF TypeOK, Slots
<1> QED
  BY <1>1 DEF Scan, Slots

\* Every variable keeps its type (TypeOK), in every deployment.
THEOREM TypeCorrect == Spec => []TypeOK
<1>1. Init => TypeOK
  BY ConstantsAssumption DEF Init, TypeOK, Slots, Slot, FreeSlot
<1>2. TypeOK /\ [Next]_vars => TypeOK'
  <2> SUFFICES ASSUME TypeOK, [Next]_vars
               PROVE  TypeOK'
    OBVIOUS
  <2> USE DEF producerVars, rosterVars
  <2>1. ASSUME NEW e \in Endpoints, StartEndpoint(e)
        PROVE  TypeOK'
    <3>1. push' \in [Endpoints -> Seq(Message)]
      BY <2>1, SendType DEF StartEndpoint, Message
    <3> QED
      BY <2>1, <3>1 DEF TypeOK, StartEndpoint
  <2>2. ASSUME NEW e \in Endpoints, Register(e)
        PROVE  TypeOK'
    <3>1. push' \in [Endpoints -> Seq(Message)]
      BY <2>2, SendType DEF Register, Message
    <3> QED
      BY <2>2, <3>1 DEF TypeOK, Register
  <2>3. ASSUME NEW e \in Endpoints, NEW p \in Participants, ParticipantJoined(e, p)
        PROVE  TypeOK'
    <3>1. push' \in [Endpoints -> Seq(Message)]
      BY <2>3, SendType DEF ParticipantJoined, Message, JoinMsg
    <3> QED
      BY <2>3, <3>1 DEF TypeOK, ParticipantJoined
  <2>4. ASSUME NEW e \in Endpoints, NEW p \in Participants, ParticipantLeft(e, p)
        PROVE  TypeOK'
    <3>1. push' \in [Endpoints -> Seq(Message)]
      BY <2>4, SendType DEF ParticipantLeft, Message, LeaveMsg
    <3>2. seq' \in [Endpoints -> [Tracks -> 0 .. MaxSeq]]
      <4>1. seq \in [Endpoints -> [Tracks -> 0 .. MaxSeq]] /\ MaxSeq \in Nat
        BY ConstantsAssumption DEF TypeOK
      <4>2. seq' = [seq EXCEPT ![e] = [t \in Tracks |-> IF Owner[t] = p THEN 0 ELSE @[t]]]
        BY <2>4 DEF ParticipantLeft
      <4> QED
        BY <4>1, <4>2
    <3> QED
      BY <2>4, <3>1, <3>2 DEF TypeOK, ParticipantLeft
  <2>5. ASSUME NEW e \in Endpoints, NEW t \in Tracks, StartTrack(e, t)
        PROVE  TypeOK'
    BY <2>5 DEF TypeOK, StartTrack
  <2>6. ASSUME NEW e \in Endpoints, NEW t \in Tracks, EndTrack(e, t)
        PROVE  TypeOK'
    <3>1. push' \in [Endpoints -> Seq(Message)]
      <4>1. CASE UNCHANGED push
        BY <4>1 DEF TypeOK
      <4>2. ASSUME NEW i \in Suspended(e, t), push' = [push EXCEPT ![e] = RemoveAt(@, i)]
            PROVE  push' \in [Endpoints -> Seq(Message)]
        <5>1. push[e] \in Seq(Message) /\ i \in 1 .. Len(push[e])
          BY ConstantsAssumption DEF TypeOK, Suspended
        <5>2. RemoveAt(push[e], i) \in Seq(Message)
          BY <5>1, RemoveAtShrinks
        <5> QED
          BY <4>2, <5>2 DEF TypeOK
      <4> QED
        BY <2>6, <4>1, <4>2 DEF EndTrack
    <3> QED
      BY <2>6, <3>1 DEF TypeOK, EndTrack
  <2>7. ASSUME NEW e \in Endpoints, NEW t \in Tracks, BeginWrite(e, t)
        PROVE  TypeOK'
    <3>1. PICK k \in Slots :
            /\ slots' = [slots EXCEPT ![e][Scan(e, k)] =
                           [state |-> "writing",
                            frame |-> [track |-> t, seq |-> seq[e][t] + 1]]]
            /\ writePos' = [writePos EXCEPT ![e] = Scan(e, k + 1)]
      BY <2>7 DEF BeginWrite
    <3>2. Scan(e, k) \in Slots /\ Scan(e, k + 1) \in Slots
      BY ScanType, ConstantsAssumption DEF Slots
    <3>3. seq[e][t] + 1 \in 1 .. MaxSeq
      BY <2>7, ConstantsAssumption DEF TypeOK, BeginWrite
    <3>4. [state |-> "writing", frame |-> [track |-> t, seq |-> seq[e][t] + 1]] \in Slot
      BY <3>3 DEF Slot, Frame
    <3>5. slots' \in [Endpoints -> [Slots -> Slot]]
      BY <3>1, <3>2, <3>4 DEF TypeOK
    <3>6. seq' \in [Endpoints -> [Tracks -> 0 .. MaxSeq]]
      BY <2>7, <3>3 DEF TypeOK, BeginWrite
    <3> QED
      BY <2>7, <3>1, <3>2, <3>5, <3>6 DEF TypeOK, BeginWrite
  <2>8. ASSUME NEW e \in Endpoints, NEW t \in Tracks, DropFrame(e, t)
        PROVE  TypeOK'
    <3>1. seq' \in [Endpoints -> [Tracks -> 0 .. MaxSeq]]
      BY <2>8, ConstantsAssumption DEF TypeOK, DropFrame
    <3> QED
      BY <2>8, <3>1 DEF TypeOK, DropFrame
  <2>9. ASSUME NEW e \in Endpoints, FinishWrite(e)
        PROVE  TypeOK'
    <3>1. PICK s \in Writing(e) :
            /\ slots' = [slots EXCEPT ![e][s].state = "ready"]
            /\ Send(e, FrameMsg(s, slots[e][s].frame))
      BY <2>9 DEF FinishWrite
    <3>2. s \in Slots /\ slots[e][s] \in Slot /\ slots[e][s].state = "writing"
      BY DEF Writing, TypeOK
    <3>3. slots[e][s].frame \in Frame
      BY <3>2 DEF Slot
    <3>4. push' \in [Endpoints -> Seq(Message)]
      BY <3>1, <3>2, <3>3, SendType DEF Message, FrameMsg
    <3>5. [slots[e][s] EXCEPT !.state = "ready"] \in Slot
      BY <3>2, <3>3 DEF Slot
    <3>6. slots' \in [Endpoints -> [Slots -> Slot]]
      BY <3>1, <3>2, <3>5 DEF TypeOK
    <3> QED
      BY <2>9, <3>4, <3>6 DEF TypeOK, FinishWrite
  <2>10. ASSUME NEW e \in Endpoints, CloseEndpoint(e)
         PROVE  TypeOK'
    <3>1. PICK n \in 0 .. Len(push[e]) : push' = [push EXCEPT ![e] = SubSeq(@, 1, n)]
      BY <2>10 DEF CloseEndpoint
    <3>2. SubSeq(push[e], 1, n) \in Seq(Message)
      BY PrefixShrinks DEF TypeOK
    <3>3. push' \in [Endpoints -> Seq(Message)]
      BY <3>1, <3>2 DEF TypeOK
    <3> QED
      BY <2>10, <3>3 DEF TypeOK, CloseEndpoint
  <2>11. ASSUME NEW e \in Endpoints, HandleRegistration(e)
         PROVE  TypeOK'
    <3>1. push' \in [Endpoints -> Seq(Message)]
      BY <2>11, ReceiveType DEF HandleRegistration
    <3>2. /\ slots' \in [Endpoints -> [Slots -> Slot]]
          /\ held' \in [Tracks -> View \union {None}]
      BY <2>11, ReleaseType DEF HandleRegistration
    <3>3. /\ registry' \in [ConnectorIds -> Endpoints \union {None}]
          /\ ringOpen' \in [ConnectorIds -> BOOLEAN]
      BY <2>11 DEF TypeOK, HandleRegistration
    <3> QED
      BY <2>11, <3>1, <3>2, <3>3 DEF TypeOK, HandleRegistration
  <2>12. ASSUME NEW e \in Endpoints, HandleJoined(e)
         PROVE  TypeOK'
    <3>1. push' \in [Endpoints -> Seq(Message)]
      BY <2>12, ReceiveType DEF HandleJoined
    <3>2. connector' \in [Participants -> ConnectorIds \union {None}]
      BY <2>12, ConstantsAssumption DEF TypeOK, HandleJoined
    <3> QED
      BY <2>12, <3>1, <3>2 DEF TypeOK, HandleJoined
  <2>13. ASSUME NEW e \in Endpoints, HandleLeft(e)
         PROVE  TypeOK'
    <3>1. push' \in [Endpoints -> Seq(Message)]
      BY <2>13, ReceiveType DEF HandleLeft
    <3>2. /\ slots' \in [Endpoints -> [Slots -> Slot]]
          /\ held' \in [Tracks -> View \union {None}]
      BY <2>13, ReleaseType DEF HandleLeft
    <3>3. connector' \in [Participants -> ConnectorIds \union {None}]
      BY <2>13 DEF TypeOK, HandleLeft
    <3> QED
      BY <2>13, <3>1, <3>2, <3>3 DEF TypeOK, HandleLeft
  <2>14. ASSUME NEW e \in Endpoints, DropSignal(e)
         PROVE  TypeOK'
    <3>1. push' \in [Endpoints -> Seq(Message)]
      BY <2>14, ReceiveType DEF DropSignal
    <3> QED
      BY <2>14, <3>1 DEF TypeOK, DropSignal
  <2>15. ASSUME NEW e \in Endpoints, HandleFrame(e)
         PROVE  TypeOK'
    <3> DEFINE m == Head(push[e])
               t == m.frame.track
    <3>1. push' \in [Endpoints -> Seq(Message)] /\ m \in Message /\ m.type = "frame"
      BY <2>15, ReceiveType DEF HandleFrame
    <3>2. m.slot \in Slots /\ m.frame \in Frame /\ t \in Tracks
      BY <3>1, MessageFields DEF Frame
    <3>3. RingOf(t) \in Endpoints
      BY <2>15, <3>2, ConstantsAssumption DEF HandleFrame, RingOf, TypeOK
    <3>4. [ring |-> RingOf(t), slot |-> m.slot, frame |-> m.frame, origin |-> e] \in View
      BY <3>2, <3>3 DEF View
    <3>5. held' \in [Tracks -> View \union {None}]
      BY <2>15, <3>2, <3>4 DEF TypeOK, HandleFrame
    <3>6. slots' \in [Endpoints -> [Slots -> Slot]]
      BY ZenonT(40), <2>15 DEF TypeOK, HandleFrame, Slot, FreeSlot
    <3> QED
      BY <2>15, <3>1, <3>5, <3>6 DEF TypeOK, HandleFrame
  <2>16. CASE CloseHub
    <3>1. /\ slots' \in [Endpoints -> [Slots -> Slot]]
          /\ held' \in [Tracks -> View \union {None}]
      BY <2>16, ReleaseType DEF CloseHub
    <3> QED
      BY <2>16, <3>1 DEF TypeOK, CloseHub
  <2>17. CASE UNCHANGED vars
    BY <2>17 DEF TypeOK, vars
  <2> QED
    BY <2>1, <2>2, <2>3, <2>4, <2>5, <2>6, <2>7, <2>8, <2>9, <2>10, <2>11, <2>12,
       <2>13, <2>14, <2>15, <2>16, <2>17 DEF Next, Connector, Dispatch
<1> QED
  BY <1>1, <1>2, PTL DEF Spec

(***************************************************************************)
(* Slot ownership.  Of the actions, only BeginWrite, FinishWrite,          *)
(* HandleFrame and those that Release views touch a slot; the others only  *)
(* move messages.  Inherited says that a step brings no new signal.        *)
(***************************************************************************)

Inherited ==
  /\ \A x \in Endpoints : \A i \in Signals(x)' :
       \E j \in Signals(x) : push'[x][i] = push[x][j]
  /\ \A x \in Endpoints : \A i, j \in Signals(x)' :
       i # j => push'[x][i].slot # push'[x][j].slot

JoinsAtHome ==
  \A e \in Endpoints : \A i \in 1 .. Len(push[e]) :
    push[e][i].type = "join" => e \in Home[push[e][i].pid]

LEMMA ShrinkInherits ==
  ASSUME TypeOK, SlotOwnership, NEW e \in Endpoints, NEW r \in Seq(Message),
         Shrinks(push[e], r), push' = [push EXCEPT ![e] = r]
  PROVE  Inherited /\ JoinsAtHome'
<1>1. PICK g \in [1 .. Len(r) -> 1 .. Len(push[e])] :
        /\ \A i \in 1 .. Len(r) : r[i] = push[e][g[i]]
        /\ \A i, j \in 1 .. Len(r) : i # j => g[i] # g[j]
  BY DEF Shrinks
<1>2. push'[e] = r /\ \A x \in Endpoints : x # e => push'[x] = push[x]
  BY DEF TypeOK
<1>3. ASSUME NEW i \in Signals(e)'
      PROVE  g[i] \in Signals(e) /\ push'[e][i] = push[e][g[i]]
  BY <1>1, <1>2, <1>3 DEF Signals
<1>4. \A i, j \in Signals(e)' : i # j => g[i] # g[j]
  BY <1>1, <1>2 DEF Signals
<1>5. \A x \in Endpoints : x # e => Signals(x)' = Signals(x)
  BY <1>2 DEF Signals
<1>6. Inherited
  <2>1. ASSUME NEW x \in Endpoints, NEW i \in Signals(x)'
        PROVE  \E j \in Signals(x) : push'[x][i] = push[x][j]
    <3>1. CASE x = e
      BY <1>3, <2>1, <3>1
    <3>2. CASE x # e
      BY <1>2, <1>5, <2>1, <3>2
    <3> QED
      BY <3>1, <3>2
  <2>2. ASSUME NEW x \in Endpoints, NEW i \in Signals(x)', NEW j \in Signals(x)', i # j
        PROVE  push'[x][i].slot # push'[x][j].slot
    <3>1. CASE x = e
      <4>1. g[i] \in Signals(e) /\ g[j] \in Signals(e) /\ g[i] # g[j]
        BY <1>3, <1>4, <2>2, <3>1
      <4>2. push[e][g[i]].slot # push[e][g[j]].slot
        BY <4>1 DEF SlotOwnership, Unshared
      <4> QED
        BY <1>3, <2>2, <3>1, <4>2
    <3>2. CASE x # e
      BY <1>2, <1>5, <2>2, <3>2 DEF SlotOwnership, Unshared
    <3> QED
      BY <3>1, <3>2
  <2> QED
    BY <2>1, <2>2 DEF Inherited
<1>7. JoinsAtHome'
  BY SMTT(20), <1>1, <1>2 DEF JoinsAtHome, SlotOwnership, AtHome
<1> QED
  BY <1>6, <1>7

LEMMA ReceiveInherits ==
  ASSUME TypeOK, SlotOwnership, NEW e \in Endpoints, NEW type, Receive(e, type)
  PROVE  Inherited /\ JoinsAtHome'
<1>1. push[e] \in Seq(Message) /\ push[e] # <<>>
  BY DEF TypeOK, Receive
<1>2. Tail(push[e]) \in Seq(Message) /\ Shrinks(push[e], Tail(push[e]))
  BY <1>1, TailShrinks
<1> QED
  BY <1>2, ShrinkInherits DEF Receive

LEMMA SendInherits ==
  ASSUME TypeOK, SlotOwnership, NEW e \in Endpoints, NEW m \in Message,
         m.type # "frame", m.type = "join" => e \in Home[m.pid], Send(e, m)
  PROVE  Inherited /\ JoinsAtHome'
<1>1. push[e] \in Seq(Message) /\ push'[e] = Append(push[e], m)
  BY DEF TypeOK, Send
<1>2. \A x \in Endpoints : x # e => push'[x] = push[x]
  BY DEF TypeOK, Send
<1>3. /\ Len(push'[e]) = Len(push[e]) + 1 /\ Len(push[e]) \in Nat
      /\ \A i \in 1 .. Len(push[e]) : push'[e][i] = push[e][i]
      /\ push'[e][Len(push[e]) + 1] = m
  BY <1>1
<1>4. Signals(e)' = Signals(e) /\ \A i \in Signals(e) : push'[e][i] = push[e][i]
  BY SMTT(20), <1>3 DEF Signals
<1>5. \A x \in Endpoints : Signals(x)' = Signals(x)
  BY <1>2, <1>4 DEF Signals
<1>6. Inherited
  BY <1>2, <1>4, <1>5 DEF Inherited, SlotOwnership, Unshared
<1>7. ASSUME NEW x \in Endpoints, NEW i \in 1 .. Len(push'[x]), push'[x][i].type = "join"
      PROVE  x \in Home[push'[x][i].pid]
  <2>1. CASE x = e /\ i = Len(push[e]) + 1
    BY <1>3, <1>7, <2>1
  <2>2. CASE x = e /\ i # Len(push[e]) + 1
    <3>1. i \in 1 .. Len(push[e]) /\ push'[e][i] = push[e][i]
      BY <1>3, <1>7, <2>2
    <3> QED
      BY <1>7, <2>2, <3>1 DEF SlotOwnership, AtHome
  <2>3. CASE x # e
    BY <1>2, <1>7, <2>3 DEF SlotOwnership, AtHome
  <2> QED
    BY <2>1, <2>2, <2>3
<1> QED
  BY <1>6, <1>7 DEF JoinsAtHome

\* What a signal says survives a step that brings none and leaves the slots
\* alone that signals name.
LEMMA InheritedSignals ==
  ASSUME TypeOK, TypeOK', SlotOwnership, Inherited,
         \A x \in Endpoints : \A i \in Signals(x) :
           slots'[x][push[x][i].slot] = slots[x][push[x][i].slot]
  PROVE  /\ SignalsIntact'
         /\ \A x \in Endpoints, s \in Slots : InFlight(x, s)' => InFlight(x, s)
         /\ \A x \in Endpoints : \A i \in Signals(x)' :
              x \in Home[Owner[push'[x][i].frame.track]]
<1>1. SignalsIntact'
  BY DEF Inherited, SlotOwnership, SignalsIntact
<1>2. \A x \in Endpoints, s \in Slots : InFlight(x, s)' => InFlight(x, s)
  BY DEF Inherited, InFlight
<1>3. \A x \in Endpoints : \A i \in Signals(x)' :
        x \in Home[Owner[push'[x][i].frame.track]]
  BY DEF Inherited, SlotOwnership, AtHome
<1> QED
  BY <1>1, <1>2, <1>3

\* Steps that move messages only, and whatever of room and task stays home.
LEMMA MessagesOnly ==
  ASSUME TypeOK, TypeOK', SlotOwnership, Inherited, JoinsAtHome',
         UNCHANGED <<slots, held, registry, ringOpen, connector>>,
         \A e \in Endpoints : \A p \in room'[e] : e \in Home[p],
         \A t \in Tracks : task'[t] # None => task'[t] \in Home[Owner[t]]
  PROVE  SlotOwnership'
<1>1. /\ SignalsIntact'
      /\ \A x \in Endpoints, s \in Slots : InFlight(x, s)' => InFlight(x, s)
      /\ \A x \in Endpoints : \A i \in Signals(x)' :
           x \in Home[Owner[push'[x][i].frame.track]]
  BY InheritedSignals
<1>2. \A t \in Tracks : held[t] # None => held[t].ring \in Endpoints /\ held[t].slot \in Slots
  BY DEF TypeOK, View
<1>3. Unshared'
  BY <1>1, <1>2 DEF Unshared, SlotOwnership, Inherited
<1>4. AtHome'
  BY <1>1 DEF AtHome, SlotOwnership, JoinsAtHome, Writing
<1>5. ViewsIntact' /\ ViewsInRegisteredRing'
  BY DEF SlotOwnership, ViewsIntact, ViewsInRegisteredRing, RingOf
<1> QED
  BY <1>1, <1>3, <1>4, <1>5 DEF SlotOwnership

\* A step that leaves the queues alone brings no signal.
LEMMA SameInherits ==
  ASSUME TypeOK, SlotOwnership, UNCHANGED push
  PROVE  Inherited /\ JoinsAtHome'
BY DEF Inherited, JoinsAtHome, Signals, SlotOwnership, Unshared, AtHome

\* A step that gives views back: no signal and no other view names the slots
\* it frees, and the views it leaves still look into a registered ring.
LEMMA ReleaseOwnership ==
  ASSUME TypeOK, TypeOK', SlotOwnership, Inherited, JoinsAtHome',
         NEW T \in SUBSET Tracks, Release(T), UNCHANGED <<room, task>>,
         \A p \in Participants : connector'[p] # None =>
           \E e \in Home[p] : connector'[p] = IdOf[e],
         \A c \in ConnectorIds : registry'[c] # None => IdOf[registry'[c]] = c,
         \A t \in Tracks \ T : held[t] # None =>
           held[t].ring = RingOf(t)' /\ ringOpen'[connector'[Owner[t]]]
  PROVE  SlotOwnership'
<1>1. \A t \in Tracks : held[t] # None => held[t].ring \in Endpoints /\ held[t].slot \in Slots
  BY DEF TypeOK, View
<1>2. \A x \in Endpoints : \A i \in Signals(x) :
        push[x][i].slot \in Slots
  BY MessageFields DEF TypeOK, Signals
<1>3. \A x \in Endpoints : \A i \in Signals(x) :
        slots'[x][push[x][i].slot] = slots[x][push[x][i].slot]
  BY <1>2 DEF Release, SlotOwnership, Unshared, InFlight
<1>4. /\ SignalsIntact'
      /\ \A x \in Endpoints, s \in Slots : InFlight(x, s)' => InFlight(x, s)
      /\ \A x \in Endpoints : \A i \in Signals(x)' :
           x \in Home[Owner[push'[x][i].frame.track]]
  BY <1>3, InheritedSignals
<1>5. \A t \in Tracks : held'[t] # None => t \notin T /\ held'[t] = held[t] /\ held[t] # None
  BY DEF Release
<1>6. Unshared'
  BY <1>1, <1>4, <1>5 DEF Unshared, SlotOwnership, Inherited
<1>7. ViewsIntact'
  <2>1. SUFFICES ASSUME NEW t \in Tracks, held'[t] # None
                 PROVE  slots'[held'[t].ring][held'[t].slot]
                          = [state |-> "ready", frame |-> held'[t].frame]
    BY DEF ViewsIntact
  <2>2. held'[t] = held[t] /\ held[t] # None /\ t \notin T
    BY <1>5, <2>1
  <2>3. ~ \E u \in T : held[u] # None /\ held[u].ring = held[t].ring /\ held[u].slot = held[t].slot
    BY <2>2 DEF SlotOwnership, Unshared
  <2>4. slots'[held[t].ring][held[t].slot] = slots[held[t].ring][held[t].slot]
    BY <1>1, <2>2, <2>3 DEF Release
  <2> QED
    BY <2>2, <2>4 DEF SlotOwnership, ViewsIntact
<1>8. ViewsInRegisteredRing'
  BY <1>5 DEF ViewsInRegisteredRing
<1>9. AtHome'
  <2>1. ASSUME NEW x \in Endpoints, NEW s \in Writing(x)'
        PROVE  s \in Writing(x) /\ slots'[x][s] = slots[x][s]
    BY <2>1 DEF Writing, Release, FreeSlot
  <2> QED
    BY <1>4, <1>5, <2>1 DEF AtHome, SlotOwnership, JoinsAtHome
<1> QED
  BY <1>4, <1>6, <1>7, <1>8, <1>9 DEF SlotOwnership

\* Under OneConnector the ring the hub looks a signal up in is its sender's.
LEMMA SenderRing ==
  ASSUME TypeOK, SlotOwnership, OneConnector, NEW t \in Tracks, NEW e \in Home[Owner[t]],
         e \in Endpoints, RingOf(t) # None
  PROVE  RingOf(t) = e /\ connector[Owner[t]] = IdOf[e]
<1>1. Owner[t] \in Participants /\ Home[Owner[t]] \subseteq Endpoints
  BY ConstantsAssumption
<1>2. connector[Owner[t]] # None /\ RingOf(t) = registry[connector[Owner[t]]]
  BY DEF RingOf
<1>3. PICK f \in Home[Owner[t]] : connector[Owner[t]] = IdOf[f]
  BY <1>1, <1>2 DEF SlotOwnership, AtHome
<1>4. f = e
  BY <1>1 DEF OneConnector
<1>5. IdOf[e] \in ConnectorIds
  BY ConstantsAssumption
<1>6. RingOf(t) \in Endpoints /\ IdOf[RingOf(t)] = IdOf[e]
  BY <1>2, <1>3, <1>4, <1>5 DEF TypeOK, SlotOwnership, AtHome
<1> QED
  BY <1>3, <1>4, <1>6 DEF OneConnector

\* What is named by a signal or a view is READY.
LEMMA NamedReady ==
  ASSUME TypeOK, SlotOwnership
  PROVE  /\ \A x \in Endpoints : \A i \in Signals(x) :
              push[x][i].slot \in Slots /\ slots[x][push[x][i].slot].state = "ready"
         /\ \A u \in Tracks : held[u] # None =>
              /\ held[u].ring \in Endpoints /\ held[u].slot \in Slots
              /\ slots[held[u].ring][held[u].slot].state = "ready"
<1>1. \A x \in Endpoints : \A i \in Signals(x) : push[x][i].slot \in Slots
  BY MessageFields DEF TypeOK, Signals
<1>2. ASSUME NEW x \in Endpoints, NEW i \in Signals(x)
      PROVE  slots[x][push[x][i].slot].state = "ready"
  <2>1. slots[x][push[x][i].slot] = [state |-> "ready", frame |-> push[x][i].frame]
    BY DEF SlotOwnership, SignalsIntact
  <2> QED
    BY <2>1
<1>3. ASSUME NEW u \in Tracks, held[u] # None
      PROVE  slots[held[u].ring][held[u].slot].state = "ready"
  <2>1. slots[held[u].ring][held[u].slot] = [state |-> "ready", frame |-> held[u].frame]
    BY <1>3 DEF SlotOwnership, ViewsIntact
  <2> QED
    BY <2>1
<1>4. \A u \in Tracks : held[u] # None => held[u].ring \in Endpoints /\ held[u].slot \in Slots
  BY DEF TypeOK, View
<1> QED
  BY <1>1, <1>2, <1>3, <1>4

\* The producer takes a free slot: nobody names it.
LEMMA BeginWriteOwnership ==
  ASSUME TypeOK, TypeOK', SlotOwnership, NEW e \in Endpoints, NEW t \in Tracks,
         BeginWrite(e, t)
  PROVE  SlotOwnership'
<1>1. PICK k \in Slots :
        /\ slots[e][Scan(e, k)].state = "free"
        /\ slots' = [slots EXCEPT ![e][Scan(e, k)] =
                       [state |-> "writing",
                        frame |-> [track |-> t, seq |-> seq[e][t] + 1]]]
  BY DEF BeginWrite
<1> DEFINE s == Scan(e, k)
<1>2. s \in Slots
  BY ScanType DEF Slots
<1> HIDE DEF s
<1>3. /\ slots[e][s].state = "free"
      /\ slots'[e][s] = [state |-> "writing",
                         frame |-> [track |-> t, seq |-> seq[e][t] + 1]]
      /\ \A x \in Endpoints, j \in Slots : x # e \/ j # s => slots'[x][j] = slots[x][j]
  BY <1>1, <1>2 DEF TypeOK, s
<1>4. UNCHANGED <<room, task, push, registry, ringOpen, connector, held>>
  BY DEF BeginWrite, rosterVars
<1>5. Inherited /\ JoinsAtHome'
  BY <1>4, SameInherits
<1>7. \A x \in Endpoints : \A i \in Signals(x) :
        slots'[x][push[x][i].slot] = slots[x][push[x][i].slot]
  BY <1>3, NamedReady
<1>8. /\ SignalsIntact'
      /\ \A x \in Endpoints, j \in Slots : InFlight(x, j)' => InFlight(x, j)
      /\ \A x \in Endpoints : \A i \in Signals(x)' :
           x \in Home[Owner[push'[x][i].frame.track]]
  BY <1>5, <1>7, InheritedSignals
<1>9. \A u \in Tracks : held[u] # None => held[u].ring \in Endpoints /\ held[u].slot \in Slots
  BY DEF TypeOK, View
<1>10. Unshared'
  BY <1>4, <1>5, <1>8, <1>9 DEF Unshared, SlotOwnership, Inherited
<1>11. ViewsIntact'
  BY <1>3, <1>4, <1>9 DEF SlotOwnership, ViewsIntact
<1>12. ViewsInRegisteredRing'
  BY <1>4 DEF SlotOwnership, ViewsInRegisteredRing, RingOf
<1>13. AtHome'
  <2>1. e \in Home[Owner[t]]
    <3>1. task[t] = e /\ e # None
      BY NoneAssumption DEF BeginWrite
    <3> QED
      BY <3>1 DEF SlotOwnership, AtHome
  <2>2. ASSUME NEW x \in Endpoints, NEW j \in Writing(x)'
        PROVE  x \in Home[Owner[slots'[x][j].frame.track]]
    <3>1. CASE x = e /\ j = s
      BY <1>3, <2>1, <3>1
    <3>2. CASE x # e \/ j # s
      BY <1>3, <2>2, <3>2 DEF Writing, SlotOwnership, AtHome
    <3> QED
      BY <3>1, <3>2
  <2> QED
    BY <1>4, <1>5, <1>8, <2>2 DEF AtHome, SlotOwnership, JoinsAtHome
<1> QED
  BY <1>8, <1>10, <1>11, <1>12, <1>13 DEF SlotOwnership

\* The producer signals the slot it was writing: nobody named it before.
LEMMA FinishWriteOwnership ==
  ASSUME TypeOK, TypeOK', SlotOwnership, NEW e \in Endpoints, FinishWrite(e)
  PROVE  SlotOwnership'
<1>1. PICK s \in Writing(e) :
        /\ slots' = [slots EXCEPT ![e][s].state = "ready"]
        /\ Send(e, FrameMsg(s, slots[e][s].frame))
  BY DEF FinishWrite
<1> DEFINE f == slots[e][s].frame
           n == Len(push[e]) + 1
<1>2. s \in Slots /\ slots[e][s] \in Slot /\ slots[e][s].state = "writing"
  BY DEF Writing, TypeOK
<1>3. /\ slots'[e][s] = [state |-> "ready", frame |-> f]
      /\ \A x \in Endpoints, j \in Slots : x # e \/ j # s => slots'[x][j] = slots[x][j]
  BY <1>1, <1>2 DEF TypeOK, Slot
<1>4. UNCHANGED <<room, task, registry, ringOpen, connector, held>>
  BY DEF FinishWrite, producerVars, rosterVars
<1>5. /\ n \in Nat /\ Len(push'[e]) = n
      /\ \A i \in 1 .. n - 1 : push'[e][i] = push[e][i]
      /\ push'[e][n] = FrameMsg(s, f)
      /\ \A x \in Endpoints : x # e => push'[x] = push[x]
  <2>1. push[e] \in Seq(Message) /\ push'[e] = Append(push[e], FrameMsg(s, f))
    BY <1>1 DEF Send, TypeOK
  <2>2. \A x \in Endpoints : x # e => push'[x] = push[x]
    BY <1>1 DEF Send, TypeOK
  <2> QED
    BY <2>1, <2>2
<1> HIDE DEF f, n
<1>6. FrameMsg(s, f).type = "frame" /\ FrameMsg(s, f).slot = s /\ FrameMsg(s, f).frame = f
  BY DEF FrameMsg
<1>7. ASSUME NEW x \in Endpoints, NEW i \in Signals(x)'
      PROVE  \/ x = e /\ i = n
             \/ (x # e \/ i # n) /\ i \in Signals(x) /\ push'[x][i] = push[x][i]
  <2>1. CASE x = e
    BY <1>5, <1>7, <2>1 DEF Signals, n
  <2>2. CASE x # e
    BY <1>5, <1>7, <2>2 DEF Signals
  <2> QED
    BY <2>1, <2>2
<1>8. \A x \in Endpoints : \A i \in Signals(x) :
        push[x][i].slot \in Slots /\ (x # e \/ push[x][i].slot # s)
  BY <1>2, NamedReady
<1>9. \A u \in Tracks : held[u] # None =>
        /\ held[u].ring \in Endpoints /\ held[u].slot \in Slots
        /\ held[u].ring # e \/ held[u].slot # s
  BY <1>2, NamedReady
<1>10. SignalsIntact'
  <2>1. SUFFICES ASSUME NEW x \in Endpoints, NEW i \in Signals(x)'
                 PROVE  slots'[x][push'[x][i].slot]
                          = [state |-> "ready", frame |-> push'[x][i].frame]
    BY DEF SignalsIntact
  <2>2. CASE x = e /\ i = n
    BY <1>3, <1>5, <1>6, <2>2
  <2>3. CASE i \in Signals(x) /\ push'[x][i] = push[x][i]
    BY <1>3, <1>8, <2>3 DEF SlotOwnership, SignalsIntact
  <2> QED
    BY <1>7, <2>2, <2>3
<1>11. Unshared'
  <2>1. ASSUME NEW x \in Endpoints, NEW i \in Signals(x)', NEW j \in Signals(x)', i # j
        PROVE  push'[x][i].slot # push'[x][j].slot
    BY <1>5, <1>6, <1>7, <1>8, <2>1 DEF SlotOwnership, Unshared
  <2>2. ASSUME NEW u \in Tracks, held'[u] # None
        PROVE  ~ InFlight(held[u].ring, held[u].slot)'
    <3>1. held'[u] = held[u] /\ held[u] # None
      BY <1>4, <2>2
    <3>2. ASSUME NEW i \in Signals(held[u].ring)'
          PROVE  push'[held[u].ring][i].slot # held[u].slot
      <4>1. CASE held[u].ring = e /\ i = n
        BY <1>5, <1>6, <1>9, <3>1, <4>1
      <4>2. CASE i \in Signals(held[u].ring) /\ push'[held[u].ring][i] = push[held[u].ring][i]
        BY <3>1, <4>2 DEF SlotOwnership, Unshared, InFlight
      <4> QED
        BY <1>7, <1>9, <3>1, <3>2, <4>1, <4>2
    <3> QED
      BY <3>1, <3>2 DEF InFlight
  <2>3. \A t, u \in Tracks : held'[t] # None /\ held'[u] # None /\ t # u
          => held'[t].ring # held'[u].ring \/ held'[t].slot # held'[u].slot
    BY <1>4 DEF SlotOwnership, Unshared
  <2> QED
    BY <2>1, <2>2, <2>3 DEF Unshared
<1>12. ViewsIntact'
  BY <1>3, <1>4, <1>9 DEF SlotOwnership, ViewsIntact
<1>13. ViewsInRegisteredRing'
  BY <1>4 DEF SlotOwnership, ViewsInRegisteredRing, RingOf
<1>14. AtHome'
  <2>1. ASSUME NEW x \in Endpoints, NEW j \in Writing(x)'
        PROVE  x \in Home[Owner[slots'[x][j].frame.track]]
    BY <1>3, <2>1 DEF Writing, SlotOwnership, AtHome
  <2>2. ASSUME NEW x \in Endpoints, NEW i \in Signals(x)'
        PROVE  x \in Home[Owner[push'[x][i].frame.track]]
    <3>1. CASE x = e /\ i = n
      <4>1. e \in Home[Owner[f.track]]
        BY DEF SlotOwnership, AtHome, f
      <4> QED
        BY <1>5, <1>6, <3>1, <4>1
    <3>2. CASE i \in Signals(x) /\ push'[x][i] = push[x][i]
      BY <3>2 DEF SlotOwnership, AtHome
    <3> QED
      BY <1>7, <2>2, <3>1, <3>2
  <2>3. ASSUME NEW x \in Endpoints, NEW i \in 1 .. Len(push'[x]), push'[x][i].type = "join"
        PROVE  x \in Home[push'[x][i].pid]
    <3>1. x # e \/ i # n
      BY <1>5, <1>6, <2>3
    <3>2. i \in 1 .. Len(push[x]) /\ push'[x][i] = push[x][i]
      BY <1>5, <2>3, <3>1 DEF n
    <3> QED
      BY <2>3, <3>2 DEF SlotOwnership, AtHome
  <2> QED
    BY <1>4, <2>1, <2>2, <2>3 DEF AtHome, SlotOwnership
<1> QED
  BY <1>10, <1>11, <1>12, <1>13, <1>14 DEF SlotOwnership

\* A frame signal: the track's previous slot goes back, the new one is viewed.
LEMMA HandleFrameOwnership ==
  ASSUME TypeOK, TypeOK', SlotOwnership, OneConnector,
         NEW e \in Endpoints, HandleFrame(e)
  PROVE  SlotOwnership'
<1>0. PICK m : m = Head(push[e])
  OBVIOUS
<1> DEFINE t == m.frame.track
           prev == held[t]
           freed(x, s) == prev # None /\ prev.ring = x /\ prev.slot = s
<1>1. Inherited /\ JoinsAtHome'
  BY ReceiveInherits DEF HandleFrame
<1>2. m \in Message /\ m.type = "frame" /\ m.slot \in Slots /\ m.frame \in Frame
  BY <1>0, ReceiveType, MessageFields DEF HandleFrame
<1>3. t \in Tracks
  BY <1>2 DEF Frame
<1>4. /\ push[e] \in Seq(Message) /\ push[e] # <<>>
      /\ push' = [push EXCEPT ![e] = Tail(@)]
  BY DEF HandleFrame, Receive, TypeOK
<1>5. 1 \in Signals(e) /\ push[e][1] = m
  <2>1. Len(push[e]) \in Nat /\ 1 <= Len(push[e]) /\ Head(push[e]) = push[e][1]
    BY <1>4
  <2> QED
    BY <1>0, <1>2, <2>1 DEF Signals
<1>6. e \in Home[Owner[t]]
  BY <1>5 DEF SlotOwnership, AtHome
<1>7. RingOf(t) = e /\ connector[Owner[t]] = IdOf[e]
  <2>1. RingOf(t) # None
    BY <1>0 DEF HandleFrame
  <2> QED
    BY <1>3, <1>6, <2>1, SenderRing
<1>8. slots[e][m.slot] = [state |-> "ready", frame |-> m.frame]
  BY <1>5 DEF SlotOwnership, SignalsIntact
<1>9. ~ freed(e, m.slot)
  <2>1. InFlight(e, m.slot)
    BY <1>5 DEF InFlight
  <2> QED
    BY <1>3, <2>1 DEF SlotOwnership, Unshared
<1>10. \A x \in Endpoints, s \in Slots :
         slots'[x][s] = IF freed(x, s) THEN FreeSlot ELSE slots[x][s]
  BY <1>0 DEF HandleFrame
<1>11. /\ held' \in [Tracks -> View \union {None}]
       /\ \A u \in Tracks : u # t => held'[u] = held[u]
       /\ held'[t] # None =>
            /\ ringOpen[IdOf[e]]
            /\ held'[t] = [ring |-> e, slot |-> m.slot, frame |-> m.frame, origin |-> e]
  BY <1>0, <1>3, <1>7 DEF HandleFrame, TypeOK
<1>12. UNCHANGED <<room, task, registry, ringOpen, connector>>
  BY DEF HandleFrame, producerVars, rosterVars
<1>13. \A x \in Endpoints : \A i \in Signals(x) :
         slots'[x][push[x][i].slot] = slots[x][push[x][i].slot]
  <2>1. SUFFICES ASSUME NEW x \in Endpoints, NEW i \in Signals(x)
                 PROVE  ~ freed(x, push[x][i].slot)
    BY <1>10, NamedReady
  <2>2. InFlight(x, push[x][i].slot)
    BY DEF InFlight
  <2> QED
    BY <1>3, <2>2 DEF SlotOwnership, Unshared
<1>14. /\ SignalsIntact'
       /\ \A x \in Endpoints, s \in Slots : InFlight(x, s)' => InFlight(x, s)
       /\ \A x \in Endpoints : \A i \in Signals(x)' :
            x \in Home[Owner[push'[x][i].frame.track]]
  BY <1>1, <1>13, InheritedSignals
<1>15. ~ InFlight(e, m.slot)'
  <2>1. SUFFICES ASSUME NEW i \in Signals(e)'
                 PROVE  push'[e][i].slot # m.slot
    BY DEF InFlight
  <2>2. /\ push'[e] = Tail(push[e])
        /\ Len(Tail(push[e])) = Len(push[e]) - 1
        /\ \A j \in 1 .. Len(Tail(push[e])) : Tail(push[e])[j] = push[e][j + 1]
    <3>1. push'[e] = Tail(push[e])
      BY <1>4 DEF TypeOK
    <3>2. push[e] \in Seq(Message) /\ push[e] # <<>>
      BY <1>4
    <3> QED
      BY <3>1, <3>2
  <2>3. i + 1 \in Signals(e) /\ i + 1 # 1 /\ push'[e][i] = push[e][i + 1]
    <3>1. i \in 1 .. Len(Tail(push[e])) /\ Tail(push[e])[i].type = "frame"
      BY <2>1, <2>2 DEF Signals
    <3>2. i \in Nat /\ i >= 1 /\ i + 1 \in 1 .. Len(push[e])
      <4>1. Len(push[e]) \in Nat
        BY <1>4
      <4> QED
        BY <2>2, <3>1, <4>1
    <3> QED
      BY <2>2, <3>1, <3>2 DEF Signals
  <2> QED
    BY <1>5, <2>3 DEF SlotOwnership, Unshared
<1>16. \A u \in Tracks : u # t /\ held[u] # None => ~ freed(held[u].ring, held[u].slot)
  BY <1>3 DEF SlotOwnership, Unshared
<1>17. \A u \in Tracks : held[u] # None =>
         /\ held[u].ring \in Endpoints /\ held[u].slot \in Slots
         /\ ~ (held[u].ring = e /\ held[u].slot = m.slot)
  <2>1. InFlight(e, m.slot)
    BY <1>5 DEF InFlight
  <2> QED
    BY <2>1, NamedReady DEF SlotOwnership, Unshared
<1> HIDE DEF freed, t
<1>18. Unshared'
  <2>1. ASSUME NEW u \in Tracks, held'[u] # None
        PROVE  ~ InFlight(held[u].ring, held[u].slot)'
    <3>1. CASE u = t
      BY <1>11, <1>15, <2>1, <3>1
    <3>2. CASE u # t
      BY <1>11, <1>14, <1>17, <2>1, <3>2 DEF SlotOwnership, Unshared
    <3> QED
      BY <3>1, <3>2
  <2>2. ASSUME NEW u \in Tracks, NEW v \in Tracks, held'[u] # None, held'[v] # None, u # v
        PROVE  held'[u].ring # held'[v].ring \/ held'[u].slot # held'[v].slot
    BY <1>11, <1>17, <2>2 DEF SlotOwnership, Unshared
  <2> QED
    BY <1>1, <2>1, <2>2 DEF Unshared, Inherited
<1>19. ViewsIntact'
  <2>1. SUFFICES ASSUME NEW u \in Tracks, held'[u] # None
                 PROVE  slots'[held'[u].ring][held'[u].slot]
                          = [state |-> "ready", frame |-> held'[u].frame]
    BY DEF ViewsIntact
  <2>2. CASE u = t
    <3>1. slots'[e][m.slot] = [state |-> "ready", frame |-> m.frame]
      BY <1>2, <1>8, <1>9, <1>10
    <3>2. held'[t].ring = e /\ held'[t].slot = m.slot /\ held'[t].frame = m.frame
      BY <1>11, <2>1, <2>2
    <3> QED
      BY <2>2, <3>1, <3>2
  <2>3. CASE u # t
    <3>1. held'[u] = held[u] /\ held[u] # None
      BY <1>11, <2>1, <2>3
    <3>2. slots'[held[u].ring][held[u].slot] = slots[held[u].ring][held[u].slot]
      BY <1>10, <1>16, <1>17, <2>3, <3>1
    <3> QED
      BY <3>1, <3>2 DEF SlotOwnership, ViewsIntact
  <2> QED
    BY <2>2, <2>3
<1>20. ViewsInRegisteredRing'
  <2>1. ASSUME NEW u \in Tracks, held'[u] # None, u # t
        PROVE  held'[u].ring = RingOf(u)' /\ ringOpen'[connector'[Owner[u]]]
    BY <1>11, <1>12, <2>1 DEF SlotOwnership, ViewsInRegisteredRing, RingOf
  <2>2. ASSUME held'[t] # None
        PROVE  held'[t].ring = RingOf(t)' /\ ringOpen'[connector'[Owner[t]]]
    BY <1>7, <1>11, <1>12, <2>2 DEF RingOf
  <2> QED
    BY <2>1, <2>2 DEF ViewsInRegisteredRing
<1>21. AtHome'
  <2>1. ASSUME NEW x \in Endpoints, NEW s \in Writing(x)'
        PROVE  s \in Writing(x) /\ slots'[x][s] = slots[x][s]
    BY <1>10, <2>1 DEF Writing, FreeSlot
  <2>2. \A u \in Tracks : held'[u] # None => held'[u].frame.track = u
    BY <1>11 DEF SlotOwnership, AtHome, t
  <2> QED
    BY <1>1, <1>12, <1>14, <2>1, <2>2 DEF AtHome, SlotOwnership, JoinsAtHome
<1> QED
  BY <1>14, <1>18, <1>19, <1>20, <1>21 DEF SlotOwnership

\* In every deployment where a participant has one connector, and a connector
\* one incarnation, no slot is ever in two hands (SlotOwnership).
THEOREM SlotsOwned ==
  ASSUME OneConnector
  PROVE  Spec => []SlotOwnership
<1>1. Init => SlotOwnership
  <2> SUFFICES ASSUME Init PROVE SlotOwnership
    OBVIOUS
  <2>1. /\ \A e \in Endpoints : push[e] = <<>> /\ Signals(e) = {} /\ Writing(e) = {} /\ room[e] = {}
        /\ \A t \in Tracks : held[t] = None /\ task[t] = None
        /\ \A p \in Participants : connector[p] = None
        /\ \A c \in ConnectorIds : registry[c] = None
    BY DEF Init, Signals, Writing, FreeSlot
  <2> QED
    BY <2>1 DEF SlotOwnership, SignalsIntact, Unshared, AtHome, ViewsIntact,
                ViewsInRegisteredRing
<1>2. TypeOK /\ TypeOK' /\ SlotOwnership /\ [Next]_vars => SlotOwnership'
  <2> SUFFICES ASSUME TypeOK, TypeOK', SlotOwnership, [Next]_vars
               PROVE  SlotOwnership'
    OBVIOUS
  <2> USE DEF producerVars, rosterVars
  <2>0. /\ \A e \in Endpoints : \A p \in room[e] : e \in Home[p]
        /\ \A t \in Tracks : task[t] # None => task[t] \in Home[Owner[t]]
        /\ \A p \in Participants : connector[p] # None =>
             \E e \in Home[p] : connector[p] = IdOf[e]
        /\ \A c \in ConnectorIds : registry[c] # None => IdOf[registry[c]] = c
        /\ \A t \in Tracks : held[t] # None =>
             held[t].ring = RingOf(t) /\ ringOpen[connector[Owner[t]]]
    BY DEF SlotOwnership, AtHome, ViewsInRegisteredRing
  <2>1. ASSUME NEW e \in Endpoints, StartEndpoint(e)
        PROVE  SlotOwnership'
    <3>1. Inherited /\ JoinsAtHome'
      BY <2>1, SendInherits DEF StartEndpoint, RegisterMsg, Message
    <3> QED
      BY <2>0, <2>1, <3>1, MessagesOnly DEF StartEndpoint
  <2>2. ASSUME NEW e \in Endpoints, Register(e)
        PROVE  SlotOwnership'
    <3>1. Inherited /\ JoinsAtHome'
      BY <2>2, SendInherits DEF Register, RegisterMsg, Message
    <3> QED
      BY <2>0, <2>2, <3>1, MessagesOnly DEF Register
  <2>3. ASSUME NEW e \in Endpoints, NEW p \in Participants, ParticipantJoined(e, p)
        PROVE  SlotOwnership'
    <3>1. Inherited /\ JoinsAtHome'
      BY <2>3, SendInherits DEF ParticipantJoined, JoinMsg, Message
    <3>2. \A x \in Endpoints : \A q \in room'[x] : x \in Home[q]
      BY <2>0, <2>3 DEF ParticipantJoined, TypeOK
    <3> QED
      BY <2>0, <2>3, <3>1, <3>2, MessagesOnly DEF ParticipantJoined
  <2>4. ASSUME NEW e \in Endpoints, NEW p \in Participants, ParticipantLeft(e, p)
        PROVE  SlotOwnership'
    <3>1. Inherited /\ JoinsAtHome'
      BY <2>4, SendInherits DEF ParticipantLeft, LeaveMsg, Message
    <3>2. \A x \in Endpoints : \A q \in room'[x] : x \in Home[q]
      BY <2>0, <2>4 DEF ParticipantLeft, TypeOK
    <3> QED
      BY <2>0, <2>4, <3>1, <3>2, MessagesOnly DEF ParticipantLeft
  <2>5. ASSUME NEW e \in Endpoints, NEW t \in Tracks, StartTrack(e, t)
        PROVE  SlotOwnership'
    <3>1. Inherited /\ JoinsAtHome'
      BY <2>5, SameInherits DEF StartTrack
    <3>2. \A u \in Tracks : task'[u] # None => task'[u] \in Home[Owner[u]]
      BY <2>0, <2>5 DEF StartTrack, TypeOK
    <3> QED
      BY <2>0, <2>5, <3>1, <3>2, MessagesOnly DEF StartTrack
  <2>6. ASSUME NEW e \in Endpoints, NEW t \in Tracks, EndTrack(e, t)
        PROVE  SlotOwnership'
    <3>1. Inherited /\ JoinsAtHome'
      <4>1. CASE UNCHANGED push
        BY <4>1, SameInherits
      <4>2. ASSUME NEW i \in Suspended(e, t), push' = [push EXCEPT ![e] = RemoveAt(@, i)]
            PROVE  Inherited /\ JoinsAtHome'
        <5>1. push[e] \in Seq(Message) /\ i \in 1 .. Len(push[e])
          BY ConstantsAssumption DEF TypeOK, Suspended
        <5>2. RemoveAt(push[e], i) \in Seq(Message) /\ Shrinks(push[e], RemoveAt(push[e], i))
          BY <5>1, RemoveAtShrinks
        <5> QED
          BY <4>2, <5>2, ShrinkInherits
      <4> QED
        BY <2>6, <4>1, <4>2 DEF EndTrack
    <3>2. \A u \in Tracks : task'[u] # None => task'[u] \in Home[Owner[u]]
      BY ZenonT(40), <2>0, <2>6 DEF EndTrack, TypeOK
    <3> QED
      BY <2>0, <2>6, <3>1, <3>2, MessagesOnly DEF EndTrack
  <2>7. ASSUME NEW e \in Endpoints, NEW t \in Tracks, BeginWrite(e, t)
        PROVE  SlotOwnership'
    BY <2>7, BeginWriteOwnership
  <2>8. ASSUME NEW e \in Endpoints, NEW t \in Tracks, DropFrame(e, t)
        PROVE  SlotOwnership'
    <3>1. Inherited /\ JoinsAtHome'
      BY <2>8, SameInherits DEF DropFrame
    <3> QED
      BY <2>0, <2>8, <3>1, MessagesOnly DEF DropFrame
  <2>9. ASSUME NEW e \in Endpoints, FinishWrite(e)
        PROVE  SlotOwnership'
    BY <2>9, FinishWriteOwnership
  <2>10. ASSUME NEW e \in Endpoints, CloseEndpoint(e)
         PROVE  SlotOwnership'
    <3>1. Inherited /\ JoinsAtHome'
      <4>1. PICK n \in 0 .. Len(push[e]) : push' = [push EXCEPT ![e] = SubSeq(@, 1, n)]
        BY <2>10 DEF CloseEndpoint
      <4>2. SubSeq(push[e], 1, n) \in Seq(Message) /\ Shrinks(push[e], SubSeq(push[e], 1, n))
        BY PrefixShrinks DEF TypeOK
      <4> QED
        BY <4>1, <4>2, ShrinkInherits
    <3>2. /\ \A x \in Endpoints : \A q \in room'[x] : x \in Home[q]
          /\ \A u \in Tracks : task'[u] # None => task'[u] \in Home[Owner[u]]
      BY <2>0, <2>10 DEF CloseEndpoint, TypeOK
    <3> QED
      BY <2>10, <3>1, <3>2, MessagesOnly DEF CloseEndpoint
  <2>11. ASSUME NEW e \in Endpoints, HandleRegistration(e)
         PROVE  SlotOwnership'
    <3> DEFINE c == IdOf[e]
               T == {t \in Tracks : held[t] # None /\ held[t].ring = registry[c]}
    <3>1. Inherited /\ JoinsAtHome'
      BY <2>11, ReceiveInherits DEF HandleRegistration
    <3>2. /\ Release(T) /\ UNCHANGED <<room, task, connector>>
          /\ c \in ConnectorIds
          /\ \A d \in ConnectorIds : d # c =>
               registry'[d] = registry[d] /\ ringOpen'[d] = ringOpen[d]
      BY <2>11, ConstantsAssumption DEF HandleRegistration, TypeOK
    <3>3. registry'[c] # None => IdOf[registry'[c]] = c
      BY <2>0, <2>11, <3>2 DEF HandleRegistration, TypeOK
    <3>4. ASSUME NEW t \in Tracks \ T, held[t] # None
          PROVE  held[t].ring = RingOf(t)' /\ ringOpen'[connector'[Owner[t]]]
      <4>1. held[t].ring \in Endpoints /\ Owner[t] \in Participants
        BY <3>4, ConstantsAssumption DEF TypeOK, View
      <4>2. connector[Owner[t]] \in ConnectorIds /\ held[t].ring = registry[connector[Owner[t]]]
        BY <2>0, <3>4, <4>1, NoneAssumption DEF RingOf, TypeOK
      <4>3. connector[Owner[t]] # c
        BY <3>4, <4>2
      <4> QED
        BY <2>0, <3>2, <3>4, <4>2, <4>3, NoneAssumption DEF RingOf
    <3> HIDE DEF T, c
    <3>5. /\ T \in SUBSET Tracks
          /\ \A d \in ConnectorIds : registry'[d] # None => IdOf[registry'[d]] = d
      BY <2>0, <3>2, <3>3 DEF T
    <3> QED
      BY <2>0, <3>1, <3>2, <3>4, <3>5, ReleaseOwnership
  <2>12. ASSUME NEW e \in Endpoints, HandleJoined(e)
         PROVE  SlotOwnership'
    <3> DEFINE p == Head(push[e]).pid
    <3>1. Inherited /\ JoinsAtHome'
      BY <2>12, ReceiveInherits DEF HandleJoined
    <3>2. p \in Participants /\ e \in Home[p]
      <4>1. Head(push[e]) \in Message /\ Head(push[e]).type = "join"
        BY <2>12, ReceiveType DEF HandleJoined
      <4>2. p \in Participants
        BY <4>1, MessageFields
      <4>3. 1 \in 1 .. Len(push[e]) /\ Head(push[e]) = push[e][1]
        BY <2>12 DEF HandleJoined, Receive, TypeOK
      <4> QED
        BY <4>1, <4>2, <4>3 DEF SlotOwnership, AtHome
    <3>3. connector' = [connector EXCEPT ![p] = IdOf[e]]
          /\ UNCHANGED <<room, task, slots, held, registry, ringOpen>>
      BY <2>12 DEF HandleJoined
    <3> HIDE DEF p
    <3>4. Release({})
      BY <3>3 DEF Release, TypeOK
    <3>5. \A q \in Participants : connector'[q] # None =>
            \E x \in Home[q] : connector'[q] = IdOf[x]
      BY ZenonT(40), <2>0, <3>2, <3>3 DEF TypeOK
    <3>6. ASSUME NEW t \in Tracks, held[t] # None
          PROVE  held[t].ring = RingOf(t)' /\ ringOpen'[connector'[Owner[t]]]
      <4>1. Owner[t] \in Participants /\ held[t].ring \in Endpoints
        BY <3>6, ConstantsAssumption DEF TypeOK, View
      <4>2. connector'[Owner[t]] = connector[Owner[t]]
        <5>1. CASE Owner[t] = p
          <6>1. RingOf(t) # None
            BY <2>0, <3>6, <4>1, NoneAssumption
          <6>2. connector[Owner[t]] = IdOf[e]
            BY <3>2, <5>1, <6>1, SenderRing
          <6> QED
            BY <3>3, <5>1, <6>2 DEF TypeOK
        <5>2. CASE Owner[t] # p
          BY <3>3, <4>1, <5>2 DEF TypeOK
        <5> QED
          BY <5>1, <5>2
      <4> QED
        BY <2>0, <3>3, <3>6, <4>2 DEF RingOf
    <3> QED
      BY <2>0, <3>1, <3>3, <3>4, <3>5, <3>6, ReleaseOwnership
  <2>13. ASSUME NEW e \in Endpoints, HandleLeft(e)
         PROVE  SlotOwnership'
    <3> DEFINE p == Head(push[e]).pid
               T == {t \in Tracks : Owner[t] = p}
    <3>1. Inherited /\ JoinsAtHome'
      BY <2>13, ReceiveInherits DEF HandleLeft
    <3>2. /\ Release(T) /\ UNCHANGED <<room, task, registry, ringOpen>>
          /\ connector' = [connector EXCEPT ![p] = None]
      BY <2>13 DEF HandleLeft
    <3>3. \A q \in Participants : connector'[q] # None =>
            \E x \in Home[q] : connector'[q] = IdOf[x]
      BY ZenonT(40), <2>0, <3>2 DEF TypeOK
    <3>4. ASSUME NEW t \in Tracks \ T, held[t] # None
          PROVE  held[t].ring = RingOf(t)' /\ ringOpen'[connector'[Owner[t]]]
      <4>1. connector'[Owner[t]] = connector[Owner[t]]
        BY <3>2, <3>4, ConstantsAssumption DEF TypeOK
      <4> QED
        BY <2>0, <3>2, <3>4, <4>1 DEF RingOf
    <3>5. T \in SUBSET Tracks
      OBVIOUS
    <3> HIDE DEF T
    <3> QED
      BY <2>0, <3>1, <3>2, <3>3, <3>4, <3>5, ReleaseOwnership
  <2>14. ASSUME NEW e \in Endpoints, DropSignal(e)
         PROVE  SlotOwnership'
    <3>1. Inherited /\ JoinsAtHome'
      BY <2>14, ReceiveInherits DEF DropSignal
    <3> QED
      BY <2>0, <2>14, <3>1, MessagesOnly DEF DropSignal
  <2>15. ASSUME NEW e \in Endpoints, HandleFrame(e)
         PROVE  SlotOwnership'
    BY <2>15, HandleFrameOwnership
  <2>16. CASE CloseHub
    <3>1. Inherited /\ JoinsAtHome'
      BY <2>16, SameInherits DEF CloseHub
    <3>2. /\ Release(Tracks) /\ UNCHANGED <<room, task, connector>>
          /\ \A c \in ConnectorIds : registry'[c] = None
      BY <2>16 DEF CloseHub
    <3> QED
      BY <2>0, <3>1, <3>2, ReleaseOwnership
  <2>17. CASE UNCHANGED vars
    <3>1. Inherited /\ JoinsAtHome'
      BY <2>17, SameInherits DEF vars
    <3> QED
      BY <2>0, <2>17, <3>1, MessagesOnly DEF vars
  <2> QED
    BY <2>1, <2>2, <2>3, <2>4, <2>5, <2>6, <2>7, <2>8, <2>9, <2>10, <2>11, <2>12,
       <2>13, <2>14, <2>15, <2>16, <2>17 DEF Next, Connector, Dispatch
<1> QED
  BY <1>1, <1>2, TypeCorrect, PTL DEF Spec

\* The copy FRAME_REQUEST makes of a view is the frame it was taken for
\* (ViewsIntact), and no view outlives its ring (ViewsInRegisteredRing).
THEOREM ViewsSafe ==
  ASSUME OneConnector
  PROVE  Spec => [](ViewsIntact /\ ViewsInRegisteredRing)
<1>1. SlotOwnership => ViewsIntact /\ ViewsInRegisteredRing
  BY DEF SlotOwnership
<1> QED
  BY <1>1, SlotsOwned, PTL

(***************************************************************************)
(* The frame path implements FrameCustody, for every value of the          *)
(* constants under OneConnector.                                           *)
(***************************************************************************)

\* The custody of the slots, with the CASE of CustodianOf taken apart.
CustodyTable ==
  \A x \in Endpoints, s \in Slots :
    LET state == slots[x][s].state
        custody == CustodianOf(<<x, s>>)
    IN  /\ state = "free" => custody = "free"
        /\ state = "writing" => custody = "writing"
        /\ state = "ready" /\ ViewedBy(x, s) # {} => custody = "held"
        /\ state = "ready" /\ ViewedBy(x, s) = {} /\ InFlight(x, s) => custody = "transit"
        /\ state = "ready" /\ ViewedBy(x, s) = {} /\ ~ InFlight(x, s) => custody = "lost"

LEMMA TableHolds == CustodyTable /\ CustodyTable'
<1>1. CustodyTable
  BY DEF CustodyTable, CustodianOf
<1>2. CustodyTable'
  BY DEF CustodyTable, CustodianOf
<1> QED
  BY <1>1, <1>2

\* What a step may do to the custody and the pixels of slot s of x.
SlotStep(x, s) ==
  LET from == CustodianOf(<<x, s>>)
      to == CustodianOf(<<x, s>>)'
      keeps == slots'[x][s].frame = slots[x][s].frame
  IN  \/ from = "free" /\ to = "writing" /\ slots'[x][s].frame \in Frame
      \/ from = "writing" /\ to \in {"transit", "lost"} /\ keeps
      \/ from = "transit" /\ to \in {"held", "lost"} /\ keeps
      \/ from = "held" /\ to = "free" /\ slots'[x][s].frame = None
      \/ from = to /\ keeps

LEMMA SlotFrames ==
  ASSUME NEW v \in Slot
  PROVE  /\ v.state \in {"free", "writing", "ready"}
         /\ v.frame \in Frame \union {None}
BY DEF Slot

\* Slots that all step as they may make a step of FrameCustody.
LEMMA SlotStepsImplement ==
  ASSUME TypeOK, TypeOK', \A x \in Endpoints, s \in Slots : SlotStep(x, s)
  PROVE  Custody!Next
<1> DEFINE Cells == Endpoints \X Slots
           cust == [c \in Cells |-> CustodianOf(c)]
           pix == [c \in Cells |-> slots[c[1]][c[2]].frame]
<1>1. ASSUME NEW c \in Cells
      PROVE  CustodianOf(c)' \in {"free", "writing", "transit", "held", "lost"}
  BY DEF CustodianOf
<1>2. ASSUME NEW c \in Cells
      PROVE  slots'[c[1]][c[2]].frame \in Frame \union {None}
  <2>1. slots'[c[1]][c[2]] \in Slot
    BY DEF TypeOK
  <2> QED
    BY <2>1, SlotFrames
<1>3. /\ cust' \in [Cells -> {"free", "writing", "transit", "held", "lost"}]
      /\ pix' \in [Cells -> Frame \union {None}]
  BY <1>1, <1>2
<1>4. ASSUME NEW c \in Cells
      PROVE  Custody!Claim(c) \/ Custody!Publish(c) \/ Custody!Accept(c)
               \/ Custody!Release(c) \/ Custody!Rests(c)
  <2>1. PICK x \in Endpoints, s \in Slots : c = <<x, s>>
    OBVIOUS
  <2>2. /\ cust[c] = CustodianOf(<<x, s>>) /\ cust'[c] = CustodianOf(<<x, s>>)'
        /\ pix[c] = slots[x][s].frame /\ pix'[c] = slots'[x][s].frame
    BY <2>1
  <2>3. SlotStep(x, s)
    OBVIOUS
  <2> HIDE DEF cust, pix
  <2>4. \/ cust[c] = "free" /\ cust'[c] = "writing" /\ pix'[c] \in Frame
        \/ cust[c] = "writing" /\ cust'[c] \in {"transit", "lost"} /\ pix'[c] = pix[c]
        \/ cust[c] = "transit" /\ cust'[c] \in {"held", "lost"} /\ pix'[c] = pix[c]
        \/ cust[c] = "held" /\ cust'[c] = "free" /\ pix'[c] = None
        \/ cust[c] = cust'[c] /\ pix'[c] = pix[c]
    BY <2>2, <2>3 DEF SlotStep
  <2> QED
    BY <2>4 DEF Custody!Claim, Custody!Publish, Custody!Accept, Custody!Release,
                Custody!Rests, Custody!Moves, Custody!Keeps, cust, pix
<1> QED
  BY <1>3, <1>4 DEF Custody!Next, Custody!Custodian

\* A slot nobody touches, whose views stay and whose signal at most goes.
LEMMA UntouchedSlot ==
  ASSUME TypeOK, NEW x \in Endpoints, NEW s \in Slots,
         slots'[x][s] = slots[x][s],
         (ViewedBy(x, s) = {})' <=> ViewedBy(x, s) = {},
         InFlight(x, s)' => InFlight(x, s)
  PROVE  SlotStep(x, s)
<1>1. slots[x][s].state \in {"free", "writing", "ready"}
  <2>1. slots[x][s] \in Slot
    BY DEF TypeOK
  <2> QED
    BY <2>1, SlotFrames
<1> QED
  BY <1>1, TableHolds DEF CustodyTable, SlotStep

LEMMA MessagesOnlySteps ==
  ASSUME TypeOK, SlotOwnership, Inherited, UNCHANGED <<slots, held>>
  PROVE  \A x \in Endpoints, s \in Slots : SlotStep(x, s)
<1>1. ASSUME NEW x \in Endpoints, NEW s \in Slots
      PROVE  SlotStep(x, s)
  <2>1. slots'[x][s] = slots[x][s]
    OBVIOUS
  <2>2. (ViewedBy(x, s) = {})' <=> ViewedBy(x, s) = {}
    BY DEF ViewedBy
  <2>3. InFlight(x, s)' => InFlight(x, s)
    BY DEF Inherited, InFlight
  <2> QED
    BY <2>1, <2>2, <2>3, UntouchedSlot
<1> QED
  BY <1>1

LEMMA ReleaseSteps ==
  ASSUME TypeOK, SlotOwnership, Inherited, NEW T \in SUBSET Tracks, Release(T)
  PROVE  \A x \in Endpoints, s \in Slots : SlotStep(x, s)
<1>1. ASSUME NEW x \in Endpoints, NEW s \in Slots
      PROVE  SlotStep(x, s)
  <2>1. CASE \E t \in T : held[t] # None /\ held[t].ring = x /\ held[t].slot = s
    <3>1. slots'[x][s] = FreeSlot
      BY <2>1 DEF Release
    <3>2. slots[x][s].state = "ready" /\ ViewedBy(x, s) # {}
      BY <2>1, NamedReady DEF ViewedBy
    <3>3. slots'[x][s].state = "free" /\ slots'[x][s].frame = None
      BY <3>1 DEF FreeSlot
    <3> QED
      BY <3>2, <3>3, TableHolds DEF CustodyTable, SlotStep
  <2>2. CASE ~ \E t \in T : held[t] # None /\ held[t].ring = x /\ held[t].slot = s
    <3>1. slots'[x][s] = slots[x][s]
      BY <2>2 DEF Release
    <3>2. (ViewedBy(x, s) = {})' <=> ViewedBy(x, s) = {}
      BY <2>2 DEF ViewedBy, Release
    <3>3. InFlight(x, s)' => InFlight(x, s)
      BY DEF Inherited, InFlight
    <3> QED
      BY <3>1, <3>2, <3>3, UntouchedSlot
  <2> QED
    BY <2>1, <2>2
<1> QED
  BY <1>1

LEMMA BeginWriteSteps ==
  ASSUME TypeOK, TypeOK', SlotOwnership, NEW e \in Endpoints, NEW t \in Tracks,
         BeginWrite(e, t)
  PROVE  \A x \in Endpoints, s \in Slots : SlotStep(x, s)
<1>1. PICK k \in Slots :
        /\ slots[e][Scan(e, k)].state = "free"
        /\ slots' = [slots EXCEPT ![e][Scan(e, k)] =
                       [state |-> "writing",
                        frame |-> [track |-> t, seq |-> seq[e][t] + 1]]]
  BY DEF BeginWrite
<1>2. PICK n \in Slots : n = Scan(e, k)
  BY ScanType DEF Slots
<1>3. /\ slots[e][n].state = "free"
      /\ slots'[e][n] = [state |-> "writing",
                         frame |-> [track |-> t, seq |-> seq[e][t] + 1]]
      /\ \A x \in Endpoints, s \in Slots : x # e \/ s # n => slots'[x][s] = slots[x][s]
  BY <1>1, <1>2 DEF TypeOK
<1>4. UNCHANGED <<push, held>>
  BY DEF BeginWrite
<1>5. ASSUME NEW x \in Endpoints, NEW s \in Slots
      PROVE  SlotStep(x, s)
  <2>1. CASE x = e /\ s = n
    <3>1. slots'[e][n].state = "writing"
      BY <1>3
    <3>2. slots'[e][n].frame \in Frame
      <4>1. slots'[e][n] \in Slot
        BY DEF TypeOK
      <4> QED
        BY <3>1, <4>1 DEF Slot
    <3> QED
      BY <1>3, <2>1, <3>1, <3>2, TableHolds DEF CustodyTable, SlotStep
  <2>2. CASE x # e \/ s # n
    <3>1. slots'[x][s] = slots[x][s]
      BY <1>3, <2>2
    <3>2. ((ViewedBy(x, s) = {})' <=> ViewedBy(x, s) = {}) /\ (InFlight(x, s)' => InFlight(x, s))
      BY <1>4 DEF ViewedBy, InFlight, Signals
    <3> QED
      BY <3>1, <3>2, UntouchedSlot
  <2> QED
    BY <2>1, <2>2
<1> QED
  BY <1>5

LEMMA FinishWriteSteps ==
  ASSUME TypeOK, SlotOwnership, NEW e \in Endpoints, FinishWrite(e)
  PROVE  \A x \in Endpoints, s \in Slots : SlotStep(x, s)
<1>1. PICK n \in Writing(e) :
        /\ slots' = [slots EXCEPT ![e][n].state = "ready"]
        /\ Send(e, FrameMsg(n, slots[e][n].frame))
  BY DEF FinishWrite
<1>2. n \in Slots /\ slots[e][n] \in Slot /\ slots[e][n].state = "writing"
  BY DEF Writing, TypeOK
<1>3. /\ slots'[e][n].state = "ready" /\ slots'[e][n].frame = slots[e][n].frame
      /\ \A x \in Endpoints, s \in Slots : x # e \/ s # n => slots'[x][s] = slots[x][s]
  BY <1>1, <1>2 DEF TypeOK, Slot
<1>4. /\ held' = held
      /\ push[e] \in Seq(Message)
      /\ push'[e] = Append(push[e], FrameMsg(n, slots[e][n].frame))
      /\ \A x \in Endpoints : x # e => push'[x] = push[x]
  BY <1>1 DEF FinishWrite, Send, TypeOK
<1>5. FrameMsg(n, slots[e][n].frame).type = "frame" /\ FrameMsg(n, slots[e][n].frame).slot = n
  BY DEF FrameMsg
<1>6. /\ Len(push[e]) \in Nat /\ Len(push'[e]) = Len(push[e]) + 1
      /\ \A i \in 1 .. Len(push[e]) : push'[e][i] = push[e][i]
      /\ push'[e][Len(push[e]) + 1] = FrameMsg(n, slots[e][n].frame)
  BY <1>4
<1>7. ASSUME NEW x \in Endpoints, NEW s \in Slots
      PROVE  SlotStep(x, s)
  <2>1. CASE x = e /\ s = n
    <3>1. InFlight(e, n)'
      <4>1. Len(push[e]) + 1 \in Signals(e)'
        BY <1>5, <1>6 DEF Signals
      <4> QED
        BY <1>5, <1>6, <4>1 DEF InFlight
    <3>2. (ViewedBy(e, n) = {})'
      <4>1. ViewedBy(e, n) = {}
        BY <1>2, NamedReady DEF ViewedBy
      <4> QED
        BY <1>4, <4>1 DEF ViewedBy
    <3> QED
      BY <1>2, <1>3, <2>1, <3>1, <3>2, TableHolds DEF CustodyTable, SlotStep
  <2>2. CASE x # e \/ s # n
    <3>1. slots'[x][s] = slots[x][s]
      BY <1>3, <2>2
    <3>2. (ViewedBy(x, s) = {})' <=> ViewedBy(x, s) = {}
      BY <1>4 DEF ViewedBy
    <3>3. ASSUME NEW i \in Signals(x)', push'[x][i].slot = s
          PROVE  i \in Signals(x) /\ push[x][i].slot = s
      <4>1. CASE x = e
        BY <1>5, <1>6, <2>2, <3>3, <4>1 DEF Signals
      <4>2. CASE x # e
        BY <1>4, <3>3, <4>2 DEF Signals
      <4> QED
        BY <4>1, <4>2
    <3>4. InFlight(x, s)' => InFlight(x, s)
      BY <3>3 DEF InFlight
    <3> QED
      BY <3>1, <3>2, <3>4, UntouchedSlot
  <2> QED
    BY <2>1, <2>2
<1> QED
  BY <1>7

LEMMA HandleFrameSteps ==
  ASSUME TypeOK, SlotOwnership, OneConnector,
         NEW e \in Endpoints, HandleFrame(e)
  PROVE  \A x \in Endpoints, s \in Slots : SlotStep(x, s)
<1>0. PICK m : m = Head(push[e])
  OBVIOUS
<1> DEFINE t == m.frame.track
           freed(x, s) == held[t] # None /\ held[t].ring = x /\ held[t].slot = s
<1>1. Inherited
  BY ReceiveInherits DEF HandleFrame
<1>2. m \in Message /\ m.type = "frame" /\ m.slot \in Slots /\ m.frame \in Frame /\ t \in Tracks
  BY <1>0, ReceiveType, MessageFields DEF HandleFrame, Frame
<1>3. 1 \in Signals(e) /\ push[e][1] = m
  <2>1. push[e] \in Seq(Message) /\ push[e] # <<>>
    BY DEF HandleFrame, Receive, TypeOK
  <2>2. Len(push[e]) \in Nat /\ 1 <= Len(push[e]) /\ Head(push[e]) = push[e][1]
    BY <2>1
  <2> QED
    BY <1>0, <1>2, <2>2 DEF Signals
<1>4. RingOf(t) = e
  <2>1. RingOf(t) # None /\ e \in Home[Owner[t]]
    BY <1>0, <1>3 DEF HandleFrame, SlotOwnership, AtHome
  <2> QED
    BY <1>2, <2>1, SenderRing
<1>5. \A x \in Endpoints, s \in Slots :
        slots'[x][s] = IF freed(x, s) THEN FreeSlot ELSE slots[x][s]
  BY <1>0 DEF HandleFrame
<1>6. /\ \A u \in Tracks : u # t => held'[u] = held[u]
      /\ held'[t] # None => held'[t].ring = e /\ held'[t].slot = m.slot
  BY <1>0, <1>2, <1>4 DEF HandleFrame, TypeOK
<1>7. InFlight(e, m.slot) /\ slots[e][m.slot].state = "ready" /\ ViewedBy(e, m.slot) = {}
  BY <1>3, NamedReady DEF InFlight, SlotOwnership, Unshared, ViewedBy
<1>8. ASSUME NEW x \in Endpoints, NEW s \in Slots
      PROVE  SlotStep(x, s)
  <2>1. CASE freed(x, s)
    <3>1. slots'[x][s].state = "free" /\ slots'[x][s].frame = None
      BY <1>5, <2>1 DEF FreeSlot
    <3>2. slots[x][s].state = "ready" /\ ViewedBy(x, s) # {}
      BY <1>2, <2>1, NamedReady DEF ViewedBy
    <3> QED
      BY <3>1, <3>2, TableHolds DEF CustodyTable, SlotStep
  <2>2. CASE x = e /\ s = m.slot
    <3>1. slots'[x][s] = slots[x][s]
      BY <1>2, <1>5, <1>7, <2>2 DEF ViewedBy
    <3> QED
      BY <1>7, <2>2, <3>1, TableHolds DEF CustodyTable, SlotStep
  <2>3. CASE ~ freed(x, s) /\ ~ (x = e /\ s = m.slot)
    <3>1. slots'[x][s] = slots[x][s]
      BY <1>5, <2>3
    <3>2. ViewedBy(x, s)' = ViewedBy(x, s)
      BY <1>6, <2>3 DEF ViewedBy
    <3>3. InFlight(x, s)' => InFlight(x, s)
      BY <1>1 DEF Inherited, InFlight
    <3> QED
      BY <3>1, <3>2, <3>3, UntouchedSlot
  <2> QED
    BY <2>1, <2>2, <2>3
<1> QED
  BY <1>8

\* The frame path implements FrameCustody (ImplementsCustody): in every
\* deployment a slot is the producer's, in transit, or the hub's, one at a
\* time, and only the producer fills it.
THEOREM CustodyImplemented ==
  ASSUME OneConnector
  PROVE  Spec => ImplementsCustody
<1>1. Init => Custody!Init
  <2> SUFFICES ASSUME Init PROVE Custody!Init
    OBVIOUS
  <2>1. \A x \in Endpoints, s \in Slots : slots[x][s].state = "free" /\ slots[x][s].frame = None
    BY DEF Init, FreeSlot
  <2>2. \A x \in Endpoints, s \in Slots : CustodianOf(<<x, s>>) = "free"
    BY <2>1, TableHolds DEF CustodyTable
  <2> QED
    BY <2>1, <2>2 DEF Custody!Init
<1>2. TypeOK /\ TypeOK' /\ SlotOwnership /\ [Next]_vars => [Custody!Next]_(Custody!vars)
  <2> SUFFICES ASSUME TypeOK, TypeOK', SlotOwnership, [Next]_vars
               PROVE  Custody!Next
    OBVIOUS
  <2> USE DEF producerVars, rosterVars
  <2> SUFFICES \A x \in Endpoints, s \in Slots : SlotStep(x, s)
    BY SlotStepsImplement
  <2>1. ASSUME NEW e \in Endpoints, NEW m \in Message, m.type # "frame",
               m.type = "join" => e \in Home[m.pid], Send(e, m), UNCHANGED <<slots, held>>
        PROVE  \A x \in Endpoints, s \in Slots : SlotStep(x, s)
    BY <2>1, SendInherits, MessagesOnlySteps
  <2>2. ASSUME NEW e \in Endpoints, Register(e) \/ StartEndpoint(e)
        PROVE  \A x \in Endpoints, s \in Slots : SlotStep(x, s)
    BY <2>1, <2>2 DEF Register, StartEndpoint, RegisterMsg, Message
  <2>3. ASSUME NEW e \in Endpoints, NEW p \in Participants, ParticipantJoined(e, p)
        PROVE  \A x \in Endpoints, s \in Slots : SlotStep(x, s)
    BY <2>1, <2>3 DEF ParticipantJoined, JoinMsg, Message
  <2>4. ASSUME NEW e \in Endpoints, NEW p \in Participants, ParticipantLeft(e, p)
        PROVE  \A x \in Endpoints, s \in Slots : SlotStep(x, s)
    BY <2>1, <2>4 DEF ParticipantLeft, LeaveMsg, Message
  <2>5. ASSUME UNCHANGED <<slots, push, held>>
        PROVE  \A x \in Endpoints, s \in Slots : SlotStep(x, s)
    BY <2>5, SameInherits, MessagesOnlySteps
  <2>6. ASSUME NEW e \in Endpoints, NEW t \in Tracks, StartTrack(e, t) \/ DropFrame(e, t)
        PROVE  \A x \in Endpoints, s \in Slots : SlotStep(x, s)
    BY <2>5, <2>6 DEF StartTrack, DropFrame
  <2>7. ASSUME NEW e \in Endpoints, NEW t \in Tracks, EndTrack(e, t)
        PROVE  \A x \in Endpoints, s \in Slots : SlotStep(x, s)
    <3>1. CASE UNCHANGED push
      BY <2>5, <2>7, <3>1 DEF EndTrack
    <3>2. ASSUME NEW i \in Suspended(e, t), push' = [push EXCEPT ![e] = RemoveAt(@, i)]
          PROVE  Inherited
      <4>1. push[e] \in Seq(Message) /\ i \in 1 .. Len(push[e])
        BY ConstantsAssumption DEF TypeOK, Suspended
      <4>2. RemoveAt(push[e], i) \in Seq(Message) /\ Shrinks(push[e], RemoveAt(push[e], i))
        BY <4>1, RemoveAtShrinks
      <4> QED
        BY <3>2, <4>2, ShrinkInherits
    <3> QED
      BY <2>7, <3>1, <3>2, MessagesOnlySteps DEF EndTrack
  <2>8. ASSUME NEW e \in Endpoints, CloseEndpoint(e)
        PROVE  \A x \in Endpoints, s \in Slots : SlotStep(x, s)
    <3>1. PICK n \in 0 .. Len(push[e]) : push' = [push EXCEPT ![e] = SubSeq(@, 1, n)]
      BY <2>8 DEF CloseEndpoint
    <3>2. SubSeq(push[e], 1, n) \in Seq(Message) /\ Shrinks(push[e], SubSeq(push[e], 1, n))
      BY PrefixShrinks DEF TypeOK
    <3>3. Inherited
      BY <3>1, <3>2, ShrinkInherits
    <3> QED
      BY <2>8, <3>3, MessagesOnlySteps DEF CloseEndpoint
  <2>9. ASSUME NEW e \in Endpoints, HandleJoined(e) \/ DropSignal(e)
        PROVE  \A x \in Endpoints, s \in Slots : SlotStep(x, s)
    <3>1. Inherited
      BY <2>9, ReceiveInherits DEF HandleJoined, DropSignal
    <3> QED
      BY <2>9, <3>1, MessagesOnlySteps DEF HandleJoined, DropSignal
  <2>10. ASSUME NEW e \in Endpoints, HandleRegistration(e)
         PROVE  \A x \in Endpoints, s \in Slots : SlotStep(x, s)
    <3>1. Inherited
      BY <2>10, ReceiveInherits DEF HandleRegistration
    <3>2. Release({t \in Tracks : held[t] # None /\ held[t].ring = registry[IdOf[e]]})
      BY <2>10 DEF HandleRegistration
    <3> QED
      BY <3>1, <3>2, ReleaseSteps
  <2>11. ASSUME NEW e \in Endpoints, HandleLeft(e)
         PROVE  \A x \in Endpoints, s \in Slots : SlotStep(x, s)
    <3>1. Inherited
      BY <2>11, ReceiveInherits DEF HandleLeft
    <3>2. Release({t \in Tracks : Owner[t] = Head(push[e]).pid})
      BY <2>11 DEF HandleLeft
    <3> QED
      BY <3>1, <3>2, ReleaseSteps
  <2>12. CASE CloseHub
    <3>1. Inherited
      BY <2>12, SameInherits DEF CloseHub
    <3> QED
      BY <2>12, <3>1, ReleaseSteps DEF CloseHub
  <2>13. CASE UNCHANGED vars
    BY <2>5, <2>13 DEF vars
  <2> QED
    BY <2>2, <2>3, <2>4, <2>6, <2>7, <2>8, <2>9, <2>10, <2>11, <2>12, <2>13,
       BeginWriteSteps, FinishWriteSteps, HandleFrameSteps DEF Next, Connector, Dispatch
<1> QED
  BY <1>1, <1>2, TypeCorrect, SlotsOwned, PTL DEF Spec, ImplementsCustody, Custody!Spec

(***************************************************************************)
(* Nothing but a fault leaves a residue.  The messages of an endpoint that *)
(* the hub has not seen yet decide what it will know by the time it sees a *)
(* signal: that the ring is registered (Known) and that the owner of the   *)
(* track is there (Present).  So no signal of a live endpoint is dropped,  *)
(* and a READY slot is always in flight or viewed.                         *)
(***************************************************************************)

Registers(q, n) == \E j \in 1 .. n : q[j].type = "register"
Stays(q, p, n)  == \A k \in 1 .. n : q[k] # LeaveMsg(p)
Arrives(q, p, n) ==
  \E j \in 1 .. n : q[j] = JoinMsg(p) /\ \A k \in j + 1 .. n : q[k] # LeaveMsg(p)

\* The hub knows the ring of e, or that p is at e, when it has seen the n
\* oldest messages of e.
Known(e, n) ==
  \/ registry[IdOf[e]] = e /\ ringOpen[IdOf[e]]
  \/ Registers(push[e], n)
Present(e, p, n) ==
  \/ connector[p] = IdOf[e] /\ Stays(push[e], p, n)
  \/ Arrives(push[e], p, n)

KnownAtLast(e)      == Known(e, Len(push[e]))
PresentAtLast(e, p) == Present(e, p, Len(push[e]))

RosterAgrees(e) ==
  /\ status[e] = "new" => push[e] = <<>>
  /\ status[e] = "open" => KnownAtLast(e)
  /\ \A p \in Participants : p \in room[e] <=> PresentAtLast(e, p)

StreamsOfPresent(e) ==
  /\ \A t \in Tracks : task[t] = e => Owner[t] \in room[e]
  /\ \A s \in Writing(e) : Owner[slots[e][s].frame.track] \in room[e]

SignalsExpected(e) ==
  \A i \in Signals(e) :
    Known(e, i - 1) /\ Present(e, Owner[push[e][i].frame.track], i - 1)

Custodian(e, s) == InFlight(e, s) \/ ViewedBy(e, s) # {}

ReadyInCustody(e) ==
  \A s \in Slots : slots[e][s].state = "ready" => Custodian(e, s)

Accounted(e) ==
  RosterAgrees(e) /\ StreamsOfPresent(e) /\ SignalsExpected(e) /\ ReadyInCustody(e)

LeavesAtHome ==
  \A e \in Endpoints : \A i \in 1 .. Len(push[e]) :
    push[e][i].type = "leave" => e \in Home[push[e][i].pid]

AllAccounted ==
  faults = {} /\ running => \A e \in Endpoints : status[e] # "closed" => Accounted(e)

\* What a further message, and the handling of the oldest one, changes.
LEMMA AppendTells ==
  ASSUME NEW q \in Seq(Message), NEW m \in Message
  PROVE  /\ \A n \in 0 .. Len(q) :
              /\ Registers(Append(q, m), n) <=> Registers(q, n)
              /\ \A p : Stays(Append(q, m), p, n) <=> Stays(q, p, n)
              /\ \A p : Arrives(Append(q, m), p, n) <=> Arrives(q, p, n)
         /\ Registers(q, Len(q)) \/ m.type = "register" => Registers(Append(q, m), Len(q) + 1)
         /\ \A p : Stays(Append(q, m), p, Len(q) + 1) <=> Stays(q, p, Len(q)) /\ m # LeaveMsg(p)
         /\ \A p : Arrives(Append(q, m), p, Len(q) + 1)
                     <=> m = JoinMsg(p) \/ (Arrives(q, p, Len(q)) /\ m # LeaveMsg(p))
<1> DEFINE r == Append(q, m)
<1>1. /\ Len(q) \in Nat /\ r[Len(q) + 1] = m
      /\ \A i \in 1 .. Len(q) : r[i] = q[i]
  OBVIOUS
<1> HIDE DEF r
<1>2. ASSUME NEW n \in 0 .. Len(q)
      PROVE  /\ Registers(r, n) <=> Registers(q, n)
             /\ \A p : Stays(r, p, n) <=> Stays(q, p, n)
             /\ \A p : Arrives(r, p, n) <=> Arrives(q, p, n)
  <2>1. \A i \in 1 .. n : r[i] = q[i]
    BY <1>1
  <2>2. \A j \in 1 .. n : \A k \in j + 1 .. n : r[k] = q[k]
    BY <1>1
  <2>3. Registers(r, n) <=> Registers(q, n)
    BY <2>1 DEF Registers
  <2>4. \A p : Stays(r, p, n) <=> Stays(q, p, n)
    BY <2>1 DEF Stays
  <2>5. \A p : Arrives(r, p, n) <=> Arrives(q, p, n)
    BY <2>1, <2>2 DEF Arrives
  <2> QED BY <2>3, <2>4, <2>5
<1> DEFINE n == Len(q)
<1>0. n = Len(q) /\ n \in Nat
  OBVIOUS
<1> HIDE DEF n
<1>3. Registers(q, n) \/ m.type = "register" => Registers(r, n + 1)
  BY <1>1, <1>0 DEF Registers
<1>4. ASSUME NEW p
      PROVE  Stays(r, p, n + 1) <=> Stays(q, p, n) /\ m # LeaveMsg(p)
  <2>1. 1 .. n + 1 = 1 .. n \union {n + 1}
    BY <1>0
  <2> QED BY <1>1, <1>0, <2>1 DEF Stays
<1>5. ASSUME NEW p
      PROVE  Arrives(r, p, n + 1) <=> m = JoinMsg(p) \/ (Arrives(q, p, n) /\ m # LeaveMsg(p))
  <2>1. ASSUME Arrives(r, p, n + 1), m # JoinMsg(p)
        PROVE  Arrives(q, p, n) /\ m # LeaveMsg(p)
    <3>1. PICK j \in 1 .. n + 1 : r[j] = JoinMsg(p) /\ \A k \in j + 1 .. n + 1 : r[k] # LeaveMsg(p)
      BY <2>1 DEF Arrives
    <3>2. j \in 1 .. n
      BY <1>1, <1>0, <2>1, <3>1
    <3>3. m # LeaveMsg(p) /\ q[j] = JoinMsg(p) /\ \A k \in j + 1 .. n : q[k] # LeaveMsg(p)
      BY <1>1, <1>0, <3>1, <3>2
    <3> QED BY <3>2, <3>3 DEF Arrives
  <2>2. ASSUME m = JoinMsg(p)
        PROVE  Arrives(r, p, n + 1)
    <3>1. n + 1 \in 1 .. n + 1 /\ r[n + 1] = JoinMsg(p)
      BY <1>1, <1>0, <2>2
    <3>2. \A k \in (n + 1) + 1 .. n + 1 : r[k] # LeaveMsg(p)
      BY <1>1, <1>0
    <3> QED BY <3>1, <3>2 DEF Arrives
  <2>3. ASSUME Arrives(q, p, n), m # LeaveMsg(p)
        PROVE  Arrives(r, p, n + 1)
    <3>1. PICK j \in 1 .. n : q[j] = JoinMsg(p) /\ \A k \in j + 1 .. n : q[k] # LeaveMsg(p)
      BY <2>3 DEF Arrives
    <3>2. \A k \in j + 1 .. n + 1 : r[k] # LeaveMsg(p)
      BY <1>1, <1>0, <2>3, <3>1
    <3>3. j \in 1 .. n + 1 /\ r[j] = JoinMsg(p)
      BY <1>1, <1>0, <3>1
    <3> QED BY <3>2, <3>3 DEF Arrives
  <2> QED BY <2>1, <2>2, <2>3
<1> QED BY <1>0, <1>2, <1>3, <1>4, <1>5 DEF r

LEMMA TailTells ==
  ASSUME NEW q \in Seq(Message), q # <<>>, NEW n \in 0 .. Len(q) - 1
  PROVE  /\ Registers(q, n + 1) <=> Head(q).type = "register" \/ Registers(Tail(q), n)
         /\ \A p : Stays(q, p, n + 1) <=> Head(q) # LeaveMsg(p) /\ Stays(Tail(q), p, n)
         /\ \A p : Arrives(q, p, n + 1)
                     <=> (Head(q) = JoinMsg(p) /\ Stays(Tail(q), p, n)) \/ Arrives(Tail(q), p, n)
<1> DEFINE r == Tail(q)
           m == Head(q)
<1>1. /\ Len(q) \in Nat /\ Len(r) = Len(q) - 1 /\ q[1] = m
      /\ \A i \in 1 .. Len(q) - 1 : r[i] = q[i + 1]
  OBVIOUS
<1> HIDE DEF r, m
<1>2. \A i \in 1 .. n : r[i] = q[i + 1]
  BY <1>1
<1>3. Registers(q, n + 1) <=> m.type = "register" \/ Registers(r, n)
  <2>1. ASSUME Registers(q, n + 1), m.type # "register" PROVE Registers(r, n)
    <3>1. PICK j \in 1 .. n + 1 : q[j].type = "register"
      BY <2>1 DEF Registers
    <3>2. j - 1 \in 1 .. n /\ r[j - 1] = q[j]
      BY <1>1, <1>2, <2>1, <3>1
    <3> QED BY <3>1, <3>2 DEF Registers
  <2>2. ASSUME Registers(r, n) PROVE Registers(q, n + 1)
    <3>1. PICK j \in 1 .. n : r[j].type = "register"
      BY <2>2 DEF Registers
    <3>2. j + 1 \in 1 .. n + 1 /\ r[j] = q[j + 1]
      BY <1>2
    <3> QED BY <3>1, <3>2 DEF Registers
  <2>3. m.type = "register" => Registers(q, n + 1)
    BY <1>1 DEF Registers
  <2> QED BY <2>1, <2>2, <2>3
<1>4. ASSUME NEW p
      PROVE  Stays(q, p, n + 1) <=> m # LeaveMsg(p) /\ Stays(r, p, n)
  <2>1. ASSUME Stays(q, p, n + 1) PROVE m # LeaveMsg(p) /\ Stays(r, p, n)
    <3>1. \A i \in 1 .. n : i + 1 \in 1 .. n + 1
      OBVIOUS
    <3> QED BY <1>1, <1>2, <2>1, <3>1 DEF Stays
  <2>2. ASSUME m # LeaveMsg(p), Stays(r, p, n), NEW k \in 1 .. n + 1 PROVE q[k] # LeaveMsg(p)
    <3>1. CASE k = 1
      BY <1>1, <2>2, <3>1
    <3>2. CASE k # 1
      <4>1. k - 1 \in 1 .. n /\ r[k - 1] = q[k]
        BY <1>2, <2>2, <3>2
      <4> QED BY <2>2, <4>1 DEF Stays
    <3> QED BY <3>1, <3>2
  <2> QED BY <2>1, <2>2 DEF Stays
<1>5. ASSUME NEW p
      PROVE  Arrives(q, p, n + 1) <=> (m = JoinMsg(p) /\ Stays(r, p, n)) \/ Arrives(r, p, n)
  <2>1. ASSUME Arrives(q, p, n + 1) PROVE (m = JoinMsg(p) /\ Stays(r, p, n)) \/ Arrives(r, p, n)
    <3>1. PICK j \in 1 .. n + 1 : q[j] = JoinMsg(p) /\ \A k \in j + 1 .. n + 1 : q[k] # LeaveMsg(p)
      BY <2>1 DEF Arrives
    <3>2. \A k \in j .. n : k >= 1 => r[k] # LeaveMsg(p)
      <4>1. \A k \in j .. n : k >= 1 => k \in 1 .. n /\ k + 1 \in j + 1 .. n + 1
        OBVIOUS
      <4> QED BY <1>2, <3>1, <4>1
    <3>3. CASE j = 1
      BY <1>1, <3>1, <3>2, <3>3 DEF Stays
    <3>4. CASE j # 1
      <4>1. j - 1 \in 1 .. n /\ r[j - 1] = q[j]
        BY <1>2, <3>4
      <4>2. \A k \in (j - 1) + 1 .. n : r[k] # LeaveMsg(p)
        BY <3>2
      <4> QED BY <3>1, <4>1, <4>2 DEF Arrives
    <3> QED BY <3>3, <3>4
  <2>2. ASSUME m = JoinMsg(p), Stays(r, p, n) PROVE Arrives(q, p, n + 1)
    <3>1. \A k \in 1 + 1 .. n + 1 : k - 1 \in 1 .. n /\ q[k] = r[k - 1]
      BY <1>2
    <3>2. 1 \in 1 .. n + 1 /\ q[1] = JoinMsg(p) /\ \A k \in 1 + 1 .. n + 1 : q[k] # LeaveMsg(p)
      BY <1>1, <2>2, <3>1 DEF Stays
    <3> QED BY <3>2 DEF Arrives
  <2>3. ASSUME Arrives(r, p, n) PROVE Arrives(q, p, n + 1)
    <3>1. PICK j \in 1 .. n : r[j] = JoinMsg(p) /\ \A k \in j + 1 .. n : r[k] # LeaveMsg(p)
      BY <2>3 DEF Arrives
    <3>2. j + 1 \in 1 .. n + 1 /\ q[j + 1] = JoinMsg(p)
      BY <1>2, <3>1
    <3>3. \A k \in (j + 1) + 1 .. n + 1 : k - 1 \in j + 1 .. n /\ q[k] = r[k - 1]
      BY <1>2
    <3>4. \A k \in (j + 1) + 1 .. n + 1 : q[k] # LeaveMsg(p)
      BY <3>1, <3>3
    <3> QED BY <3>2, <3>4 DEF Arrives
  <2> QED BY <2>1, <2>2, <2>3
<1> QED BY <1>3, <1>4, <1>5 DEF r, m

\* A send, seen from its endpoint.
LEMMA SendTells ==
  ASSUME TypeOK, NEW e \in Endpoints, NEW m \in Message, Send(e, m),
         UNCHANGED <<registry, ringOpen, connector>>
  PROVE  /\ KnownAtLast(e) \/ m.type = "register" => KnownAtLast(e)'
         /\ \A p \in Participants :
              PresentAtLast(e, p)' <=> m = JoinMsg(p) \/ (PresentAtLast(e, p) /\ m # LeaveMsg(p))
         /\ SignalsExpected(e)
            /\ (m.type = "frame" => KnownAtLast(e) /\ PresentAtLast(e, Owner[m.frame.track]))
              => SignalsExpected(e)'
         /\ \A x \in Endpoints, s \in Slots : InFlight(x, s) => InFlight(x, s)'
         /\ m.type = "frame" => InFlight(e, m.slot)'
<1> DEFINE q == push[e]
           r == push'[e]
<1>1. q \in Seq(Message) /\ r = Append(q, m) /\ Len(q) \in Nat /\ Len(r) = Len(q) + 1
  BY DEF TypeOK, Send
<1>2. r[Len(q) + 1] = m /\ \A i \in 1 .. Len(q) : r[i] = q[i]
  BY <1>1
<1>3. \A x \in Endpoints : x # e => push'[x] = push[x]
  BY DEF TypeOK, Send
<1>4. /\ \A n \in 0 .. Len(q) :
           /\ Registers(r, n) <=> Registers(q, n)
           /\ \A p : Stays(r, p, n) <=> Stays(q, p, n)
           /\ \A p : Arrives(r, p, n) <=> Arrives(q, p, n)
      /\ Registers(q, Len(q)) \/ m.type = "register" => Registers(r, Len(r))
      /\ \A p : Stays(r, p, Len(r)) <=> Stays(q, p, Len(q)) /\ m # LeaveMsg(p)
      /\ \A p : Arrives(r, p, Len(r))
                  <=> m = JoinMsg(p) \/ (Arrives(q, p, Len(q)) /\ m # LeaveMsg(p))
  BY <1>1, AppendTells
<1> HIDE DEF q, r
<1>5. KnownAtLast(e) \/ m.type = "register" => KnownAtLast(e)'
  BY <1>4 DEF KnownAtLast, Known, q, r
<1>6. ASSUME NEW p \in Participants
      PROVE  PresentAtLast(e, p)' <=> m = JoinMsg(p) \/ (PresentAtLast(e, p) /\ m # LeaveMsg(p))
  <2>1. JoinMsg(p) # LeaveMsg(p)
    BY DEF JoinMsg, LeaveMsg
  <2> QED BY <1>4, <2>1 DEF PresentAtLast, Present, q, r
<1>7. ASSUME SignalsExpected(e),
             m.type = "frame" => KnownAtLast(e) /\ PresentAtLast(e, Owner[m.frame.track]),
             NEW i \in Signals(e)'
      PROVE  (Known(e, i - 1) /\ Present(e, Owner[push[e][i].frame.track], i - 1))'
  <2>0. PICK p : p = Owner[push'[e][i].frame.track]
    OBVIOUS
  <2>1. i \in 1 .. Len(q) + 1 /\ r[i].type = "frame" /\ i - 1 \in 0 .. Len(q) /\ p = Owner[r[i].frame.track]
    BY <1>1, <1>7, <2>0 DEF Signals, r
  <2>2. Known(e, i - 1)' <=> Known(e, i - 1)
    BY <1>4, <2>1 DEF Known, q, r
  <2>3. Present(e, p, i - 1)' <=> Present(e, p, i - 1)
    BY <1>4, <2>1 DEF Present, q, r
  <2>4. Known(e, i - 1) /\ Present(e, p, i - 1)
    <3>1. CASE i = Len(q) + 1
      <4>1. r[i] = m /\ i - 1 = Len(q)
        BY <1>1, <1>2, <3>1
      <4> QED BY <1>7, <2>1, <4>1 DEF KnownAtLast, PresentAtLast, q
    <3>2. CASE i # Len(q) + 1
      <4>1. i \in 1 .. Len(q) /\ r[i] = q[i]
        BY <1>1, <1>2, <2>1, <3>2
      <4> QED BY <1>7, <2>1, <4>1 DEF SignalsExpected, Signals, q
    <3> QED BY <3>1, <3>2
  <2> QED BY <2>0, <2>2, <2>3, <2>4
<1>8. ASSUME NEW x \in Endpoints, NEW s \in Slots, InFlight(x, s)
      PROVE  InFlight(x, s)'
  <2>1. CASE x = e
    <3>1. PICK i \in Signals(e) : q[i].slot = s
      BY <1>8, <2>1 DEF InFlight, q
    <3>2. i \in 1 .. Len(r) /\ r[i] = q[i]
      BY <1>1, <1>2, <3>1 DEF Signals, q
    <3>3. i \in Signals(e)' /\ r[i].slot = s
      BY <3>1, <3>2 DEF Signals, q, r
    <3> QED BY <2>1, <3>3 DEF InFlight, r
  <2>2. CASE x # e
    BY <1>3, <1>8, <2>2 DEF InFlight, Signals
  <2> QED BY <2>1, <2>2
<1>9. ASSUME m.type = "frame" PROVE InFlight(e, m.slot)'
  <2>1. Len(r) \in 1 .. Len(r) /\ r[Len(r)] = m
    BY <1>1, <1>2
  <2> QED BY <1>9, <2>1 DEF InFlight, Signals, r
<1>10. SignalsExpected(e)
       /\ (m.type = "frame" => KnownAtLast(e) /\ PresentAtLast(e, Owner[m.frame.track]))
         => SignalsExpected(e)'
  BY <1>7 DEF SignalsExpected
<1> QED BY <1>5, <1>6, <1>8, <1>9, <1>10

\* The oldest message of e is handled, and the tables hold what it says.
LEMMA ReceiveTells ==
  ASSUME TypeOK, NEW e \in Endpoints, NEW type, Receive(e, type),
         (registry[IdOf[e]] = e /\ ringOpen[IdOf[e]]) \/ type = "register"
           => registry'[IdOf[e]] = e /\ ringOpen'[IdOf[e]],
         \A p \in Participants :
           connector'[p] = IdOf[e]
             <=> Head(push[e]) = JoinMsg(p)
                   \/ (connector[p] = IdOf[e] /\ Head(push[e]) # LeaveMsg(p))
  PROVE  /\ KnownAtLast(e) => KnownAtLast(e)'
         /\ \A p \in Participants : PresentAtLast(e, p)' <=> PresentAtLast(e, p)
         /\ SignalsExpected(e) => SignalsExpected(e)'
<1> DEFINE q == push[e]
           r == push'[e]
           m == Head(q)
<1>1. q \in Seq(Message) /\ q # <<>> /\ r = Tail(q) /\ m.type = type
  BY DEF TypeOK, Receive
<1>2. Len(q) \in Nat /\ Len(r) = Len(q) - 1 /\ \A i \in 1 .. Len(r) : r[i] = q[i + 1]
  BY <1>1
<1>3. ASSUME NEW n \in 0 .. Len(q) - 1
      PROVE  /\ Registers(q, n + 1) <=> type = "register" \/ Registers(r, n)
             /\ \A p : Stays(q, p, n + 1) <=> m # LeaveMsg(p) /\ Stays(r, p, n)
             /\ \A p : Arrives(q, p, n + 1)
                         <=> (m = JoinMsg(p) /\ Stays(r, p, n)) \/ Arrives(r, p, n)
  BY <1>1, TailTells, Zenon
<1>4. \A p : JoinMsg(p) # LeaveMsg(p)
  BY DEF JoinMsg, LeaveMsg
<1>5. \A p \in Participants :
        connector'[p] = IdOf[e] <=> m = JoinMsg(p) \/ (connector[p] = IdOf[e] /\ m # LeaveMsg(p))
  OBVIOUS
<1> HIDE DEF q, r, m
<1>6. ASSUME NEW n \in 0 .. Len(q) - 1
      PROVE  /\ Known(e, n + 1) => Known(e, n)'
             /\ \A p \in Participants : Present(e, p, n)' <=> Present(e, p, n + 1)
  <2>1. Known(e, n + 1) => Known(e, n)'
    BY <1>3, <1>6 DEF Known, q, r
  <2>2. ASSUME NEW p \in Participants
        PROVE  Present(e, p, n)' <=> Present(e, p, n + 1)
    <3>1. Present(e, p, n)' <=> (connector'[p] = IdOf[e] /\ Stays(r, p, n)) \/ Arrives(r, p, n)
      BY DEF Present, r
    <3>2. Present(e, p, n + 1)
            <=> (connector[p] = IdOf[e] /\ Stays(q, p, n + 1)) \/ Arrives(q, p, n + 1)
      BY DEF Present, q
    <3> QED BY <1>3, <1>4, <1>5, <1>6, <3>1, <3>2
  <2> QED BY <2>1, <2>2
<1>7. Len(r) \in 0 .. Len(q) - 1 /\ Len(q) = Len(r) + 1
  BY <1>1, <1>2 DEF r
<1>8. KnownAtLast(e) => KnownAtLast(e)'
  BY <1>6, <1>7 DEF KnownAtLast, q, r
<1>9. \A p \in Participants : PresentAtLast(e, p)' <=> PresentAtLast(e, p)
  BY <1>6, <1>7 DEF PresentAtLast, q, r
<1>10. ASSUME SignalsExpected(e), NEW i \in Signals(e)'
       PROVE  (Known(e, i - 1) /\ Present(e, Owner[push[e][i].frame.track], i - 1))'
  <2>0. PICK p : p = Owner[push'[e][i].frame.track]
    OBVIOUS
  <2>1. i \in 1 .. Len(r) /\ r[i].type = "frame" /\ r[i] = q[i + 1] /\ p = Owner[r[i].frame.track]
    BY <1>2, <1>10, <2>0 DEF Signals, r
  <2>2. i + 1 \in Signals(e) /\ push[e][i + 1] = q[i + 1] /\ i - 1 \in 0 .. Len(q) - 1
        /\ (i + 1) - 1 = (i - 1) + 1
    BY <1>2, <2>1 DEF Signals, q
  <2>3. Known(e, (i - 1) + 1) /\ Present(e, p, (i - 1) + 1)
    BY <1>10, <2>1, <2>2 DEF SignalsExpected
  <2>4. p \in Participants
    <3>1. q[i + 1] \in Message
      BY <1>1, <1>2, <2>2 DEF Signals, q
    <3>2. q[i + 1].frame \in Frame
      BY <2>1, <3>1, MessageFields
    <3> QED BY <2>1, <3>2, ConstantsAssumption DEF Frame
  <2> QED BY <1>6, <2>0, <2>2, <2>3, <2>4
<1> QED BY <1>8, <1>9, <1>10 DEF SignalsExpected

\* Handling the oldest message of e takes at most its own signal away.
LEMMA ReceiveTakesOne ==
  ASSUME TypeOK, NEW e \in Endpoints, NEW type, Receive(e, type),
         NEW x \in Endpoints, NEW s \in Slots, InFlight(x, s),
         ~ (x = e /\ type = "frame" /\ Head(push[e]).slot = s)
  PROVE  InFlight(x, s)'
<1>1. CASE x # e
  <2>1. push'[x] = push[x]
    BY <1>1 DEF Receive, TypeOK
  <2> QED BY <2>1 DEF InFlight, Signals
<1>2. CASE x = e
  <2> DEFINE q == push[e]
             r == push'[e]
  <2>1. q \in Seq(Message) /\ q # <<>> /\ r = Tail(q) /\ Head(q).type = type
    BY DEF TypeOK, Receive
  <2>2. /\ Len(q) \in Nat /\ Len(r) = Len(q) - 1 /\ Head(q) = q[1]
        /\ \A i \in 1 .. Len(r) : r[i] = q[i + 1]
    BY <2>1
  <2> HIDE DEF q, r
  <2>3. PICK i \in 1 .. Len(q) : q[i].type = "frame" /\ q[i].slot = s
    BY <1>2 DEF InFlight, Signals, q
  <2>4. i # 1
    BY <1>2, <2>1, <2>2, <2>3 DEF q
  <2>5. i - 1 \in 1 .. Len(r) /\ r[i - 1] = q[i]
    BY <2>2, <2>3, <2>4
  <2> QED BY <1>2, <2>3, <2>5 DEF InFlight, Signals, r
<1> QED BY <1>1, <1>2

\* An endpoint whose queue the step leaves alone.
LEMMA QuietQueue ==
  ASSUME NEW x \in Endpoints, status'[x] = status[x], push'[x] = push[x], room'[x] = room[x],
         registry[IdOf[x]] = x /\ ringOpen[IdOf[x]]
           => registry'[IdOf[x]] = x /\ ringOpen'[IdOf[x]],
         \A p \in Participants : connector'[p] = IdOf[x] <=> connector[p] = IdOf[x]
  PROVE  /\ RosterAgrees(x) => RosterAgrees(x)'
         /\ TypeOK /\ SignalsExpected(x) => SignalsExpected(x)'
<1>1. ASSUME NEW n
      PROVE  /\ Known(x, n) => Known(x, n)'
             /\ \A p \in Participants : Present(x, p, n)' <=> Present(x, p, n)
  BY DEF Known, Present
<1>2. RosterAgrees(x) => RosterAgrees(x)'
  BY <1>1 DEF RosterAgrees, KnownAtLast, PresentAtLast
<1>3. ASSUME TypeOK, SignalsExpected(x), NEW i \in Signals(x)'
      PROVE  (Known(x, i - 1) /\ Present(x, Owner[push[x][i].frame.track], i - 1))'
  <2>0. PICK p : p = Owner[push[x][i].frame.track]
    OBVIOUS
  <2>1. i \in Signals(x)
    BY <1>3 DEF Signals
  <2>2. p \in Participants
    <3>1. push[x][i] \in Message /\ push[x][i].type = "frame"
      BY <1>3, <2>1 DEF TypeOK, Signals
    <3>2. push[x][i].frame \in Frame
      BY <3>1, MessageFields
    <3> QED BY <2>0, <3>2, ConstantsAssumption DEF Frame
  <2>3. Known(x, i - 1) /\ Present(x, p, i - 1)
    BY <1>3, <2>0, <2>1 DEF SignalsExpected
  <2> QED BY <1>1, <2>0, <2>2, <2>3
<1> QED BY <1>2, <1>3 DEF SignalsExpected

LEMMA QuietStreams ==
  ASSUME NEW x \in Endpoints, StreamsOfPresent(x), room[x] \subseteq room'[x],
         \A t \in Tracks : task'[t] = x => task[t] = x,
         \A s \in Slots : slots'[x][s].state = "writing" => slots'[x][s] = slots[x][s]
  PROVE  StreamsOfPresent(x)'
BY DEF StreamsOfPresent, Writing

LEMMA QuietReady ==
  ASSUME NEW x \in Endpoints, ReadyInCustody(x),
         \A s \in Slots : slots'[x][s].state = "ready" =>
           slots[x][s].state = "ready" /\ (Custodian(x, s) => Custodian(x, s)')
  PROVE  ReadyInCustody(x)'
BY DEF ReadyInCustody

\* Giving views back frees their slots and touches no other.
LEMMA ReleaseTells ==
  ASSUME TypeOK, NEW T, Release(T), NEW x \in Endpoints, NEW s \in Slots
  PROVE  /\ slots'[x][s].state \in {"ready", "writing"} => slots'[x][s] = slots[x][s]
         /\ slots'[x][s].state = "ready" => (ViewedBy(x, s) # {} => ViewedBy(x, s)' # {})
<1>1. slots'[x][s] = IF \E t \in T : held[t] # None /\ held[t].ring = x /\ held[t].slot = s
                     THEN FreeSlot ELSE slots[x][s]
  BY DEF Release
<1>2. slots'[x][s].state \in {"ready", "writing"}
        => ~ \E t \in T : held[t] # None /\ held[t].ring = x /\ held[t].slot = s
  BY <1>1 DEF FreeSlot
<1>3. ASSUME slots'[x][s].state = "ready", NEW t \in ViewedBy(x, s)
      PROVE  t \in ViewedBy(x, s)'
  <2>1. t \in Tracks /\ t \notin T
    BY <1>2, <1>3 DEF ViewedBy
  <2>2. held'[t] = held[t]
    BY <2>1 DEF Release
  <2> QED BY <1>3, <2>2 DEF ViewedBy
<1> QED BY <1>1, <1>2, <1>3

\* A step that leaves queues and roster alone and gives no new task.
LEMMA QuietStep ==
  ASSUME TypeOK, NEW x \in Endpoints, Accounted(x),
         status'[x] = status[x], push'[x] = push[x], room'[x] = room[x],
         UNCHANGED <<registry, ringOpen, connector, slots, held>>,
         \A t \in Tracks : task'[t] = x => task[t] = x
  PROVE  Accounted(x)'
<1>1. RosterAgrees(x)' /\ SignalsExpected(x)'
  BY QuietQueue DEF Accounted
<1>2. StreamsOfPresent(x)'
  BY QuietStreams DEF Accounted
<1>3. \A s \in Slots : Custodian(x, s) => Custodian(x, s)'
  BY DEF Custodian, InFlight, Signals, ViewedBy
<1>4. ReadyInCustody(x)'
  BY <1>3, QuietReady DEF Accounted
<1> QED BY <1>1, <1>2, <1>4 DEF Accounted

\* An endpoint sends a registration, a join or a leave.
LEMMA SendAccounts ==
  ASSUME TypeOK, NEW e \in Endpoints, NEW m \in Message, m.type # "frame", Send(e, m),
         UNCHANGED <<slots, held, registry, ringOpen, connector, task>>,
         \A y \in Endpoints : y # e => status'[y] = status[y] /\ room'[y] = room[y],
         status'[e] = "open", status[e] = "open" \/ m.type = "register",
         \A p \in Participants :
           p \in room'[e] <=> m = JoinMsg(p) \/ (p \in room[e] /\ m # LeaveMsg(p)),
         \A p \in Participants : m = LeaveMsg(p) =>
           Writing(e) = {} /\ \A t \in Tracks : task[t] = e => Owner[t] # p,
         NEW x \in Endpoints, Accounted(x)
  PROVE  Accounted(x)'
<1>1. CASE x # e
  <2>1. push'[x] = push[x]
    BY <1>1 DEF Send, TypeOK
  <2> QED BY <1>1, <2>1, QuietStep
<1>2. CASE x = e
  <2>1. /\ KnownAtLast(e) \/ m.type = "register" => KnownAtLast(e)'
        /\ \A p \in Participants :
             PresentAtLast(e, p)' <=> m = JoinMsg(p) \/ (PresentAtLast(e, p) /\ m # LeaveMsg(p))
        /\ SignalsExpected(e) => SignalsExpected(e)'
        /\ \A s \in Slots : InFlight(e, s) => InFlight(e, s)'
    BY SendTells
  <2>2. RosterAgrees(e)'
    BY <1>2, <2>1 DEF Accounted, RosterAgrees
  <2>3. StreamsOfPresent(e)'
    <3>1. \A t \in Tracks : Owner[t] \in Participants
      BY ConstantsAssumption
    <3>2. ASSUME NEW t \in Tracks, task'[t] = e PROVE Owner[t] \in room'[e]
      <4>1. m # JoinMsg(Owner[t]) => Owner[t] \in room[e] /\ m # LeaveMsg(Owner[t])
        BY <1>2, <3>1, <3>2 DEF Accounted, StreamsOfPresent
      <4> QED BY <1>2, <3>1, <3>2, <4>1 DEF Accounted, StreamsOfPresent
    <3>3. ASSUME NEW s \in Writing(e) PROVE Owner[slots[e][s].frame.track] \in room'[e]
      <4>1. slots[e][s].frame.track \in Tracks
        BY <3>3 DEF Writing, TypeOK, Slot, Frame
      <4>2. Owner[slots[e][s].frame.track] \in room[e]
        BY <1>2, <3>3 DEF Accounted, StreamsOfPresent
      <4> QED BY <3>1, <3>3, <4>1, <4>2
    <3>4. Writing(e)' = Writing(e) /\ slots' = slots
      BY DEF Writing
    <3> QED BY <3>2, <3>3, <3>4 DEF StreamsOfPresent
  <2>4. \A s \in Slots : Custodian(e, s) => Custodian(e, s)'
    BY <2>1 DEF Custodian, ViewedBy
  <2>5. ReadyInCustody(e)'
    BY <1>2, <2>4, QuietReady DEF Accounted
  <2> QED BY <1>2, <2>1, <2>2, <2>3, <2>5 DEF Accounted
<1> QED BY <1>1, <1>2

\* The connector's own steps keep its account, without a fault.
LEMMA BeginWriteAccounts ==
  ASSUME TypeOK, TypeOK', NEW e \in Endpoints, NEW t \in Tracks, BeginWrite(e, t),
         NEW x \in Endpoints, Accounted(x)
  PROVE  Accounted(x)'
<1>1. UNCHANGED <<status, push, room, task, registry, ringOpen, connector, held>>
  BY DEF BeginWrite, rosterVars
<1>2. PICK k \in Slots :
        /\ slots[e][Scan(e, k)].state = "free"
        /\ slots' = [slots EXCEPT ![e][Scan(e, k)] =
                       [state |-> "writing", frame |-> [track |-> t, seq |-> seq[e][t] + 1]]]
  BY DEF BeginWrite
<1>3. PICK c \in Slots : c = Scan(e, k)
  BY ScanType DEF Slots
<1>4. \A y \in Endpoints, s \in Slots :
        slots'[y][s] = IF y = e /\ s = c
                       THEN [state |-> "writing", frame |-> [track |-> t, seq |-> seq[e][t] + 1]]
                       ELSE slots[y][s]
  BY <1>2, <1>3 DEF TypeOK
<1>5. RosterAgrees(x)' /\ SignalsExpected(x)'
  BY <1>1, QuietQueue DEF Accounted
<1>6. StreamsOfPresent(x)'
  <2>1. \A u \in Tracks : task'[u] = x => Owner[u] \in room'[x]
    BY <1>1 DEF Accounted, StreamsOfPresent
  <2>2. ASSUME NEW s \in Writing(x)' PROVE Owner[slots'[x][s].frame.track] \in room'[x]
    <3>1. CASE x = e /\ s = c
      <4>1. slots'[x][s].frame.track = t /\ task[t] = e
        BY <1>3, <1>4, <3>1 DEF BeginWrite
      <4> QED BY <1>1, <3>1, <4>1 DEF Accounted, StreamsOfPresent
    <3>2. CASE ~ (x = e /\ s = c)
      <4>1. s \in Writing(x) /\ slots'[x][s] = slots[x][s]
        BY <1>4, <2>2, <3>2 DEF Writing
      <4> QED BY <1>1, <4>1 DEF Accounted, StreamsOfPresent
    <3> QED BY <3>1, <3>2
  <2> QED BY <2>1, <2>2 DEF StreamsOfPresent
<1>7. ReadyInCustody(x)'
  <2>1. \A s \in Slots : slots'[x][s].state = "ready" => slots'[x][s] = slots[x][s]
    BY <1>4
  <2>2. \A s \in Slots : Custodian(x, s) => Custodian(x, s)'
    BY <1>1 DEF Custodian, InFlight, Signals, ViewedBy
  <2> QED BY <2>1, <2>2, QuietReady DEF Accounted
<1> QED BY <1>5, <1>6, <1>7 DEF Accounted

LEMMA FinishWriteAccounts ==
  ASSUME TypeOK, TypeOK', NEW e \in Endpoints, FinishWrite(e),
         NEW x \in Endpoints, Accounted(x)
  PROVE  Accounted(x)'
<1>1. UNCHANGED <<status, room, task, registry, ringOpen, connector, held>> /\ status[e] = "open"
  BY DEF FinishWrite, producerVars, rosterVars
<1>2. PICK c \in Writing(e) :
        /\ slots' = [slots EXCEPT ![e][c].state = "ready"]
        /\ Send(e, FrameMsg(c, slots[e][c].frame))
  BY DEF FinishWrite
<1> DEFINE m == FrameMsg(c, slots[e][c].frame)
<1>3. c \in Slots /\ slots[e][c].frame \in Frame /\ slots[e][c].frame.track \in Tracks
  BY DEF Writing, TypeOK, Slot, Frame
<1>4. m \in Message /\ m.type = "frame" /\ m.slot = c /\ m.frame = slots[e][c].frame
      /\ \A p : m # JoinMsg(p) /\ m # LeaveMsg(p)
  BY <1>3 DEF FrameMsg, Message, JoinMsg, LeaveMsg
<1> HIDE DEF m
<1>5. /\ \A y \in Endpoints, s \in Slots : ~ (y = e /\ s = c) => slots'[y][s] = slots[y][s]
      /\ slots'[e][c].state = "ready"
  BY <1>2, <1>3 DEF TypeOK
<1>6. \A y \in Endpoints : y # e => push'[y] = push[y]
  BY <1>2 DEF Send, TypeOK
<1>7. Send(e, m)
  BY <1>2 DEF m
<1>8. RosterAgrees(x)' /\ SignalsExpected(x)'
  <2>1. CASE x # e
    BY <1>1, <1>6, <2>1, QuietQueue DEF Accounted
  <2>2. CASE x = e
    <3>1. /\ KnownAtLast(e) => KnownAtLast(e)'
          /\ \A p \in Participants : PresentAtLast(e, p)' <=> PresentAtLast(e, p)
          /\ SignalsExpected(e) /\ KnownAtLast(e) /\ PresentAtLast(e, Owner[m.frame.track])
               => SignalsExpected(e)'
      BY <1>1, <1>4, <1>7, SendTells
    <3>2. Owner[m.frame.track] \in room[e] /\ Owner[m.frame.track] \in Participants
      BY <1>3, <1>4, <2>2, ConstantsAssumption DEF Accounted, StreamsOfPresent
    <3> QED BY <1>1, <2>2, <3>1, <3>2 DEF Accounted, RosterAgrees
  <2> QED BY <2>1, <2>2
<1>9. StreamsOfPresent(x)'
  BY <1>1, <1>5, QuietStreams DEF Accounted
<1>10. ReadyInCustody(x)'
  <2>1. (\A y \in Endpoints, s \in Slots : InFlight(y, s) => InFlight(y, s)') /\ InFlight(e, c)'
    BY <1>1, <1>4, <1>7, SendTells
  <2>2. \A s \in Slots : Custodian(x, s) => Custodian(x, s)'
    BY <1>1, <2>1 DEF Custodian, ViewedBy
  <2> QED BY <1>3, <1>5, <2>1, <2>2 DEF Accounted, ReadyInCustody, Custodian
<1> QED BY <1>8, <1>9, <1>10 DEF Accounted

\* A connector that dies has no account any more; nobody else's changes.
LEMMA CloseAccounts ==
  ASSUME TypeOK, NEW e \in Endpoints, CloseEndpoint(e),
         NEW x \in Endpoints, Accounted(x), status'[x] # "closed"
  PROVE  Accounted(x)'
<1>1. UNCHANGED <<slots, registry, ringOpen, connector, held>>
  BY DEF CloseEndpoint, rosterVars
<1>2. x # e
  BY DEF CloseEndpoint, TypeOK
<1>3. status'[x] = status[x] /\ room'[x] = room[x] /\ push'[x] = push[x]
  BY <1>2 DEF CloseEndpoint, TypeOK
<1>4. \A t \in Tracks : task'[t] = x => task[t] = x
  <2>1. x # None
    BY NoneAssumption
  <2> QED BY <2>1 DEF CloseEndpoint
<1> QED BY <1>1, <1>3, <1>4, QuietStep

LEMMA ConnectorAccounts ==
  ASSUME TypeOK, TypeOK', faults = {}, NEW e \in Endpoints, Connector(e),
         NEW x \in Endpoints, Accounted(x), status'[x] # "closed"
  PROVE  Accounted(x)'
<1> USE DEF producerVars, rosterVars
<1>1. CASE StartEndpoint(e) \/ Register(e)
  <2>1. RegisterMsg \in Message /\ RegisterMsg.type = "register"
        /\ \A p : RegisterMsg # JoinMsg(p) /\ RegisterMsg # LeaveMsg(p)
    BY DEF RegisterMsg, Message, JoinMsg, LeaveMsg
  <2>2. Send(e, RegisterMsg) /\ UNCHANGED <<slots, held, registry, ringOpen, connector, task, room>>
    BY <1>1 DEF StartEndpoint, Register
  <2>3. status'[e] = "open" /\ \A y \in Endpoints : y # e => status'[y] = status[y]
    BY <1>1 DEF StartEndpoint, Register, Ready, TypeOK
  <2> QED BY <2>1, <2>2, <2>3, SendAccounts
<1>2. ASSUME NEW p \in Participants, ParticipantJoined(e, p)
      PROVE  Accounted(x)'
  <2> DEFINE m == JoinMsg(p)
  <2>1. m \in Message /\ m.type = "join" /\ (\A o : m = JoinMsg(o) <=> o = p)
        /\ \A o : m # LeaveMsg(o)
    BY DEF Message, JoinMsg, LeaveMsg
  <2>2. Send(e, m) /\ UNCHANGED <<slots, held, registry, ringOpen, connector, task, status>>
        /\ status[e] = "open"
    BY <1>2 DEF ParticipantJoined, Ready
  <2>3. room'[e] = room[e] \union {p} /\ \A y \in Endpoints : y # e => room'[y] = room[y]
    BY <1>2 DEF ParticipantJoined, TypeOK
  <2> HIDE DEF m
  <2> QED BY <2>1, <2>2, <2>3, SendAccounts
<1>3. ASSUME NEW p \in Participants, ParticipantLeft(e, p)
      PROVE  Accounted(x)'
  <2> DEFINE m == LeaveMsg(p)
  <2>1. m \in Message /\ m.type = "leave" /\ (\A o : m = LeaveMsg(o) <=> o = p)
        /\ \A o : m # JoinMsg(o)
    BY DEF Message, JoinMsg, LeaveMsg
  <2>2. Send(e, m) /\ UNCHANGED <<slots, held, registry, ringOpen, connector, task, status>>
        /\ status[e] = "open" /\ Writing(e) = {}
    BY <1>3 DEF ParticipantLeft, Ready
  <2>3. room'[e] = room[e] \ {p} /\ \A y \in Endpoints : y # e => room'[y] = room[y]
    BY <1>3 DEF ParticipantLeft, TypeOK
  <2>4. \A t \in Tracks : task[t] = e => Owner[t] # p
    BY <1>3, NoneAssumption DEF ParticipantLeft
  <2> HIDE DEF m
  <2> QED BY <2>1, <2>2, <2>3, <2>4, SendAccounts
<1>4. ASSUME NEW t \in Tracks, StartTrack(e, t)
      PROVE  Accounted(x)'
  <2>1. UNCHANGED <<status, push, room, registry, ringOpen, connector, slots, held>>
    BY <1>4 DEF StartTrack
  <2>2. RosterAgrees(x)' /\ SignalsExpected(x)'
    BY <2>1, QuietQueue DEF Accounted
  <2>3. StreamsOfPresent(x)'
    <3>1. \A u \in Tracks : task'[u] = x => task[u] = x \/ (u = t /\ x = e)
      BY <1>4 DEF StartTrack, TypeOK
    <3> QED BY <1>4, <2>1, <3>1 DEF StartTrack, Accounted, StreamsOfPresent, Writing
  <2>4. ReadyInCustody(x)'
    BY <2>1 DEF Accounted, ReadyInCustody, Custodian, InFlight, Signals, ViewedBy
  <2> QED BY <2>2, <2>3, <2>4 DEF Accounted
<1>5. ASSUME NEW t \in Tracks, EndTrack(e, t) \/ DropFrame(e, t)
      PROVE  Accounted(x)'
  <2>1. UNCHANGED <<status, push, room, registry, ringOpen, connector, slots, held>>
    BY <1>5 DEF EndTrack, DropFrame
  <2>2. \A u \in Tracks : task'[u] = x => task[u] = x
    BY <1>5, NoneAssumption DEF EndTrack, DropFrame, TypeOK
  <2> QED BY <2>1, <2>2, QuietStep
<1> QED
  BY <1>1, <1>2, <1>3, <1>4, <1>5, BeginWriteAccounts, FinishWriteAccounts, CloseAccounts
     DEF Connector

\* A participant is known at home only.
LEMMA KnownAtHome ==
  ASSUME TypeOK, AtHome, OneConnector, NEW p \in Participants, NEW x \in Endpoints,
         connector[p] = IdOf[x]
  PROVE  x \in Home[p]
<1>1. IdOf[x] \in ConnectorIds /\ Home[p] \subseteq Endpoints
  BY ConstantsAssumption
<1>2. PICK f \in Home[p] : connector[p] = IdOf[f]
  BY <1>1, NoneAssumption DEF AtHome
<1> QED BY <1>1, <1>2 DEF OneConnector

\* The hub handles the oldest message of e, and frees what it likes as long as
\* a READY slot keeps its custodian.
LEMMA HandlerAccounts ==
  ASSUME TypeOK, NEW e \in Endpoints, NEW type, Receive(e, type),
         UNCHANGED <<status, room, task>>, NEW x \in Endpoints, Accounted(x),
         (registry[IdOf[x]] = x /\ ringOpen[IdOf[x]]) \/ (x = e /\ type = "register")
           => registry'[IdOf[x]] = x /\ ringOpen'[IdOf[x]],
         \A p \in Participants :
           connector'[p] = IdOf[x]
             <=> IF x = e THEN Head(push[e]) = JoinMsg(p)
                                 \/ (connector[p] = IdOf[x] /\ Head(push[e]) # LeaveMsg(p))
                 ELSE connector[p] = IdOf[x],
         \A s \in Slots : slots'[x][s].state \in {"ready", "writing"} => slots'[x][s] = slots[x][s],
         \A s \in Slots : slots'[x][s].state = "ready" => (Custodian(x, s) => Custodian(x, s)')
  PROVE  Accounted(x)'
<1>1. StreamsOfPresent(x)'
  BY QuietStreams DEF Accounted
<1>2. ReadyInCustody(x)'
  BY QuietReady DEF Accounted
<1>3. CASE x # e
  <2>1. push'[x] = push[x]
    BY <1>3 DEF Receive, TypeOK
  <2> QED BY <1>1, <1>2, <1>3, <2>1, QuietQueue DEF Accounted
<1>4. CASE x = e
  <2>1. /\ KnownAtLast(e) => KnownAtLast(e)'
        /\ \A p \in Participants : PresentAtLast(e, p)' <=> PresentAtLast(e, p)
        /\ SignalsExpected(e) => SignalsExpected(e)'
    BY <1>4, ReceiveTells
  <2>2. push[e] # <<>>
    BY DEF Receive
  <2>3. RosterAgrees(e)'
    BY <1>4, <2>1, <2>2 DEF Accounted, RosterAgrees
  <2> QED BY <1>1, <1>2, <1>4, <2>1, <2>3 DEF Accounted
<1> QED BY <1>3, <1>4

LEMMA HandleRegistrationAccounts ==
  ASSUME TypeOK, OneConnector, NEW e \in Endpoints, HandleRegistration(e),
         NEW x \in Endpoints, Accounted(x), status[x] # "closed"
  PROVE  Accounted(x)'
<1> USE DEF producerVars
<1>1. Receive(e, "register") /\ UNCHANGED <<status, room, task, connector>>
  BY DEF HandleRegistration
<1>2. PICK T : T = {t \in Tracks : held[t] # None /\ held[t].ring = registry[IdOf[e]]}
  OBVIOUS
<1>3. Release(T)
  BY <1>2 DEF HandleRegistration
<1>4. IdOf[e] \in ConnectorIds /\ IdOf[x] \in ConnectorIds
  BY ConstantsAssumption
<1>5. (registry[IdOf[x]] = x /\ ringOpen[IdOf[x]]) \/ x = e
        => registry'[IdOf[x]] = x /\ ringOpen'[IdOf[x]]
  <2>1. CASE x # e
    <3>1. IdOf[x] # IdOf[e]
      BY <2>1 DEF OneConnector
    <3> QED BY <1>4, <2>1, <3>1 DEF HandleRegistration, TypeOK
  <2>2. CASE x = e
    <3>1. status[e] = "open"
      BY <1>1, <2>2 DEF Accounted, RosterAgrees, Receive, TypeOK
    <3>2. {y \in Endpoints : IdOf[y] = IdOf[e] /\ status[y] = "open"} = {e}
      BY <3>1 DEF OneConnector
    <3> QED BY <1>4, <2>2, <3>2 DEF HandleRegistration, TypeOK
  <2> QED BY <2>1, <2>2
<1>6. \A p : Head(push[e]) # JoinMsg(p) /\ Head(push[e]) # LeaveMsg(p)
  BY <1>1 DEF Receive, JoinMsg, LeaveMsg
<1>7. ASSUME NEW s \in Slots
      PROVE  /\ slots'[x][s].state \in {"ready", "writing"} => slots'[x][s] = slots[x][s]
             /\ slots'[x][s].state = "ready" => (Custodian(x, s) => Custodian(x, s)')
  BY <1>1, <1>3, ReleaseTells, ReceiveTakesOne DEF Custodian
<1> QED BY <1>1, <1>5, <1>6, <1>7, HandlerAccounts

LEMMA HandleJoinedAccounts ==
  ASSUME TypeOK, AtHome, OneConnector, NEW e \in Endpoints, HandleJoined(e),
         NEW x \in Endpoints, Accounted(x)
  PROVE  Accounted(x)'
<1> USE DEF producerVars
<1>1. Receive(e, "join") /\ UNCHANGED <<status, room, task, registry, ringOpen, slots, held>>
  BY DEF HandleJoined
<1>2. PICK p : p = Head(push[e]).pid
  OBVIOUS
<1>3. p \in Participants /\ e \in Home[p] /\ \A o : Head(push[e]) = JoinMsg(o) <=> o = p
  <2>1. Head(push[e]) \in Message /\ Head(push[e]).type = "join"
    BY <1>1, ReceiveType
  <2>2. Head(push[e]) = JoinMsg(p)
    BY <1>2, <2>1 DEF Message, JoinMsg, RegisterMsg
  <2>3. push[e] \in Seq(Message) /\ push[e] # <<>>
    BY <1>1 DEF TypeOK, Receive
  <2>4. 1 \in 1 .. Len(push[e]) /\ push[e][1] = Head(push[e])
    BY <2>3
  <2> QED BY <1>2, <2>1, <2>2, <2>4, MessageFields DEF AtHome, JoinMsg
<1>4. \A o : Head(push[e]) # LeaveMsg(o)
  BY <1>1 DEF Receive, LeaveMsg
<1>5. connector' = [connector EXCEPT ![p] = IdOf[e]]
  BY <1>2 DEF HandleJoined
<1>6. IdOf[x] = IdOf[e] <=> x = e
  BY DEF OneConnector
<1>7. \A o \in Participants :
        connector'[o] = IdOf[x]
          <=> IF x = e THEN Head(push[e]) = JoinMsg(o)
                              \/ (connector[o] = IdOf[x] /\ Head(push[e]) # LeaveMsg(o))
              ELSE connector[o] = IdOf[x]
  <2>1. x # e => connector[p] # IdOf[x]
    BY <1>3, KnownAtHome DEF OneConnector
  <2> QED BY <1>3, <1>4, <1>5, <1>6, <2>1 DEF TypeOK
<1>8. ASSUME NEW s \in Slots
      PROVE  Custodian(x, s) => Custodian(x, s)'
  BY <1>1, ReceiveTakesOne DEF Custodian, ViewedBy
<1> QED BY <1>1, <1>7, <1>8, HandlerAccounts

LEMMA HandleLeftAccounts ==
  ASSUME TypeOK, AtHome, LeavesAtHome, OneConnector, NEW e \in Endpoints, HandleLeft(e),
         NEW x \in Endpoints, Accounted(x)
  PROVE  Accounted(x)'
<1> USE DEF producerVars
<1>1. Receive(e, "leave") /\ UNCHANGED <<status, room, task, registry, ringOpen>>
  BY DEF HandleLeft
<1>2. PICK p : p = Head(push[e]).pid
  OBVIOUS
<1>3. p \in Participants /\ e \in Home[p] /\ \A o : Head(push[e]) = LeaveMsg(o) <=> o = p
  <2>1. Head(push[e]) \in Message /\ Head(push[e]).type = "leave"
    BY <1>1, ReceiveType
  <2>2. Head(push[e]) = LeaveMsg(p)
    BY <1>2, <2>1 DEF Message, LeaveMsg, RegisterMsg
  <2>3. push[e] \in Seq(Message) /\ push[e] # <<>>
    BY <1>1 DEF TypeOK, Receive
  <2>4. 1 \in 1 .. Len(push[e]) /\ push[e][1] = Head(push[e])
    BY <2>3
  <2> QED BY <1>2, <2>1, <2>2, <2>4, MessageFields DEF LeavesAtHome, LeaveMsg
<1>4. \A o : Head(push[e]) # JoinMsg(o)
  BY <1>1 DEF Receive, JoinMsg
<1>5. connector' = [connector EXCEPT ![p] = None]
      /\ Release({t \in Tracks : Owner[t] = p})
  BY <1>2 DEF HandleLeft
<1>6. IdOf[x] # None
  BY ConstantsAssumption, NoneAssumption
<1>7. \A o \in Participants :
        connector'[o] = IdOf[x]
          <=> IF x = e THEN Head(push[e]) = JoinMsg(o)
                              \/ (connector[o] = IdOf[x] /\ Head(push[e]) # LeaveMsg(o))
              ELSE connector[o] = IdOf[x]
  <2>1. x # e => connector[p] # IdOf[x]
    BY <1>3, KnownAtHome DEF OneConnector
  <2> QED BY <1>3, <1>4, <1>5, <1>6, <2>1 DEF TypeOK
<1>8. ASSUME NEW s \in Slots
      PROVE  /\ slots'[x][s].state \in {"ready", "writing"} => slots'[x][s] = slots[x][s]
             /\ slots'[x][s].state = "ready" => (Custodian(x, s) => Custodian(x, s)')
  BY <1>1, <1>5, ReleaseTells, ReceiveTakesOne DEF Custodian
<1> QED BY <1>1, <1>7, <1>8, HandlerAccounts

\* The hub finds the ring of a signal from an endpoint that keeps account.
LEMMA SignalFound ==
  ASSUME TypeOK, NEW e \in Endpoints, Receive(e, "frame"), Accounted(e),
         NEW t, t = Head(push[e]).frame.track
  PROVE  t \in Tracks /\ RingOf(t) = e /\ ringOpen[connector[Owner[t]]]
<1>1. push[e] \in Seq(Message) /\ push[e] # <<>> /\ Head(push[e]).type = "frame"
  BY DEF TypeOK, Receive
<1>2. 1 \in Signals(e) /\ push[e][1] = Head(push[e])
  BY <1>1 DEF Signals
<1>3. Known(e, 0) /\ Present(e, Owner[t], 0)
  <2>1. 1 - 1 = 0
    OBVIOUS
  <2> QED BY <1>2, <2>1 DEF Accounted, SignalsExpected
<1>4. registry[IdOf[e]] = e /\ ringOpen[IdOf[e]] /\ connector[Owner[t]] = IdOf[e]
  BY <1>3 DEF Known, Present, Registers, Arrives
<1>5. t \in Tracks
  BY <1>1, MessageFields DEF Frame
<1>6. IdOf[e] # None
  BY ConstantsAssumption, NoneAssumption
<1> QED BY <1>4, <1>5, <1>6 DEF RingOf

LEMMA HandleFrameAccounts ==
  ASSUME TypeOK, SlotOwnership, NEW e \in Endpoints, HandleFrame(e) \/ DropSignal(e),
         NEW x \in Endpoints, Accounted(x)
  PROVE  Accounted(x)'
<1> USE DEF producerVars, rosterVars
<1>1. Receive(e, "frame") /\ UNCHANGED <<status, room, task, registry, ringOpen, connector>>
  BY DEF HandleFrame, DropSignal
<1>2. PICK m : m = Head(push[e])
  OBVIOUS
<1>3. PICK t : t = m.frame.track
  OBVIOUS
<1>4. m \in Message /\ m.type = "frame" /\ m.slot \in Slots /\ m.frame \in Frame /\ t \in Tracks
  BY <1>1, <1>2, <1>3, ReceiveType, MessageFields DEF Frame
<1>5. \A p : m # JoinMsg(p) /\ m # LeaveMsg(p)
  BY <1>4 DEF JoinMsg, LeaveMsg
<1>6. x = e => RingOf(t) = e /\ ringOpen[connector[Owner[t]]] /\ HandleFrame(e)
  <2>1. x = e => RingOf(t) = e /\ ringOpen[connector[Owner[t]]]
    BY <1>1, <1>2, <1>3, SignalFound
  <2>2. e # None
    BY NoneAssumption
  <2> QED BY <1>2, <1>3, <2>1, <2>2 DEF DropSignal
<1> DEFINE freed(y, s) == held[t] # None /\ held[t].ring = y /\ held[t].slot = s
<1>7. ASSUME NEW s \in Slots
      PROVE  /\ slots'[x][s].state \in {"ready", "writing"} => slots'[x][s] = slots[x][s]
             /\ slots'[x][s].state = "ready" => (Custodian(x, s) => Custodian(x, s)')
  <2>1. CASE DropSignal(e)
    <3>1. x # e /\ UNCHANGED <<slots, held>>
      BY <1>6, <2>1, <1>2, <1>3, NoneAssumption DEF DropSignal
    <3> QED BY <1>1, <3>1, ReceiveTakesOne DEF Custodian, ViewedBy
  <2>2. CASE HandleFrame(e)
    <3>1. slots'[x][s] = IF freed(x, s) THEN FreeSlot ELSE slots[x][s]
      BY <1>2, <1>3, <2>2 DEF HandleFrame
    <3>2. slots'[x][s].state \in {"ready", "writing"} => ~ freed(x, s) /\ slots'[x][s] = slots[x][s]
      BY <3>1 DEF FreeSlot
    <3>3. ASSUME slots'[x][s].state = "ready", NEW u \in ViewedBy(x, s)
          PROVE  Custodian(x, s)'
      <4>1. u \in Tracks /\ u # t
        BY <3>2, <3>3 DEF ViewedBy
      <4>2. held'[u] = held[u]
        BY <1>2, <1>3, <2>2, <4>1 DEF HandleFrame, TypeOK
      <4> QED BY <3>3, <4>2 DEF ViewedBy, Custodian
    <3>4. ASSUME slots'[x][s].state = "ready", InFlight(x, s)
          PROVE  Custodian(x, s)'
      <4>1. CASE ~ (x = e /\ m.slot = s)
        BY <1>1, <1>2, <3>4, <4>1, ReceiveTakesOne DEF Custodian
      <4>2. CASE x = e /\ m.slot = s
        <5>1. slots[e][m.slot].state = "ready" /\ ~ freed(e, m.slot)
          BY <3>2, <3>4, <4>2
        <5>2. held'[t] = [ring |-> e, slot |-> m.slot, frame |-> m.frame, origin |-> e]
          BY <1>2, <1>3, <1>4, <1>6, <2>2, <4>2, <5>1 DEF HandleFrame, TypeOK
        <5>3. held'[t] # None
          <6>1. held'[t] \in View
            BY <1>4, <5>2 DEF View
          <6> QED BY <6>1, NoneAssumption
        <5> QED BY <1>4, <4>2, <5>2, <5>3 DEF Custodian, ViewedBy
      <4> QED BY <4>1, <4>2
    <3> QED BY <3>2, <3>3, <3>4 DEF Custodian
  <2> QED BY <2>1, <2>2
<1> QED BY <1>1, <1>2, <1>5, <1>7, HandlerAccounts

\* Leave messages are sent, and stay, at a home of the participant.
LEMMA LeavesShrink ==
  ASSUME TypeOK, LeavesAtHome, NEW e \in Endpoints, NEW r \in Seq(Message),
         Shrinks(push[e], r), push' = [push EXCEPT ![e] = r]
  PROVE  LeavesAtHome'
<1>1. PICK g \in [1 .. Len(r) -> 1 .. Len(push[e])] : \A i \in 1 .. Len(r) : r[i] = push[e][g[i]]
  BY DEF Shrinks
<1>2. push'[e] = r /\ \A x \in Endpoints : x # e => push'[x] = push[x]
  BY DEF TypeOK
<1>3. ASSUME NEW x \in Endpoints, NEW i \in 1 .. Len(push'[x]), push'[x][i].type = "leave"
      PROVE  x \in Home[push'[x][i].pid]
  <2>1. CASE x = e
    <3>1. i \in 1 .. Len(r) /\ push'[x][i] = push[e][g[i]] /\ g[i] \in 1 .. Len(push[e])
      BY <1>1, <1>2, <1>3, <2>1
    <3> QED BY <1>3, <2>1, <3>1 DEF LeavesAtHome
  <2>2. CASE x # e
    BY <1>2, <1>3, <2>2 DEF LeavesAtHome
  <2> QED BY <2>1, <2>2
<1> QED BY <1>3 DEF LeavesAtHome

LEMMA LeavesSent ==
  ASSUME TypeOK, LeavesAtHome, NEW e \in Endpoints, NEW m \in Message, Send(e, m),
         m.type = "leave" => e \in Home[m.pid]
  PROVE  LeavesAtHome'
<1>1. push[e] \in Seq(Message) /\ push'[e] = Append(push[e], m)
  BY DEF TypeOK, Send
<1>2. \A x \in Endpoints : x # e => push'[x] = push[x]
  BY DEF TypeOK, Send
<1>3. /\ Len(push'[e]) = Len(push[e]) + 1 /\ Len(push[e]) \in Nat
      /\ \A i \in 1 .. Len(push[e]) : push'[e][i] = push[e][i]
      /\ push'[e][Len(push[e]) + 1] = m
  BY <1>1
<1>4. ASSUME NEW x \in Endpoints, NEW i \in 1 .. Len(push'[x]), push'[x][i].type = "leave"
      PROVE  x \in Home[push'[x][i].pid]
  <2>1. CASE x = e /\ i = Len(push[e]) + 1
    BY <1>3, <1>4, <2>1
  <2>2. CASE x = e /\ i # Len(push[e]) + 1
    <3>1. i \in 1 .. Len(push[e]) /\ push'[e][i] = push[e][i]
      BY <1>3, <1>4, <2>2
    <3> QED BY <1>4, <2>2, <3>1 DEF LeavesAtHome
  <2>3. CASE x # e
    BY <1>2, <1>4, <2>3 DEF LeavesAtHome
  <2> QED BY <2>1, <2>2, <2>3
<1> QED BY <1>4 DEF LeavesAtHome

LEMMA LeavesStayHome ==
  ASSUME TypeOK, AtHome, LeavesAtHome, [Next]_vars
  PROVE  LeavesAtHome'
<1>1. ASSUME NEW e \in Endpoints, StartEndpoint(e) \/ Register(e)
      PROVE  LeavesAtHome'
  <2>1. RegisterMsg \in Message /\ RegisterMsg.type # "leave" /\ Send(e, RegisterMsg)
    BY <1>1 DEF StartEndpoint, Register, RegisterMsg, Message
  <2> QED BY <2>1, LeavesSent
<1>2. ASSUME NEW e \in Endpoints, NEW p \in Participants, ParticipantJoined(e, p) \/ ParticipantLeft(e, p)
      PROVE  LeavesAtHome'
  <2>1. /\ JoinMsg(p) \in Message /\ JoinMsg(p).type # "leave"
        /\ LeaveMsg(p) \in Message /\ LeaveMsg(p).pid = p
    BY DEF JoinMsg, LeaveMsg, Message
  <2>2. Send(e, JoinMsg(p)) \/ (Send(e, LeaveMsg(p)) /\ e \in Home[p])
    BY <1>2 DEF ParticipantJoined, ParticipantLeft, AtHome
  <2> QED BY <2>1, <2>2, LeavesSent
<1>3. ASSUME NEW e \in Endpoints, FinishWrite(e)
      PROVE  LeavesAtHome'
  <2>1. PICK s \in Writing(e) : Send(e, FrameMsg(s, slots[e][s].frame))
    BY <1>3 DEF FinishWrite
  <2>2. s \in Slots /\ slots[e][s].frame \in Frame
    BY DEF Writing, TypeOK, Slot
  <2>3. FrameMsg(s, slots[e][s].frame) \in Message /\ FrameMsg(s, slots[e][s].frame).type # "leave"
    BY <2>2 DEF FrameMsg, Message
  <2> QED BY <2>1, <2>3, LeavesSent
<1>4. ASSUME NEW e \in Endpoints, CloseEndpoint(e)
      PROVE  LeavesAtHome'
  <2>1. PICK n \in 0 .. Len(push[e]) : push' = [push EXCEPT ![e] = SubSeq(@, 1, n)]
    BY <1>4 DEF CloseEndpoint
  <2>2. SubSeq(push[e], 1, n) \in Seq(Message) /\ Shrinks(push[e], SubSeq(push[e], 1, n))
    BY PrefixShrinks DEF TypeOK
  <2> QED BY <2>1, <2>2, LeavesShrink
<1>5. ASSUME NEW e \in Endpoints, NEW t \in Tracks, NEW i \in Suspended(e, t),
             push' = [push EXCEPT ![e] = RemoveAt(@, i)]
      PROVE  LeavesAtHome'
  <2>1. push[e] \in Seq(Message) /\ i \in 1 .. Len(push[e])
    BY ConstantsAssumption DEF TypeOK, Suspended
  <2>2. RemoveAt(push[e], i) \in Seq(Message) /\ Shrinks(push[e], RemoveAt(push[e], i))
    BY <2>1, RemoveAtShrinks
  <2> QED BY <1>5, <2>2, LeavesShrink
<1>6. ASSUME NEW e \in Endpoints, NEW type, Receive(e, type)
      PROVE  LeavesAtHome'
  <2>1. push[e] \in Seq(Message) /\ push[e] # <<>>
    BY <1>6 DEF TypeOK, Receive
  <2>2. Tail(push[e]) \in Seq(Message) /\ Shrinks(push[e], Tail(push[e]))
    BY <2>1, TailShrinks
  <2> QED BY <1>6, <2>2, LeavesShrink DEF Receive
<1>7. ASSUME NEW e \in Endpoints, Dispatch(e)
      PROVE  LeavesAtHome'
  <2>1. \E type : Receive(e, type)
    BY <1>7 DEF Dispatch, HandleRegistration, HandleJoined, HandleLeft, DropSignal, HandleFrame
  <2> QED BY <1>6, <2>1
<1>8. CASE UNCHANGED push
  BY <1>8 DEF LeavesAtHome
<1>9. ASSUME NEW e \in Endpoints, Connector(e)
      PROVE  LeavesAtHome'
  <2>1. ASSUME NEW t \in Tracks, EndTrack(e, t) PROVE LeavesAtHome'
    BY <1>5, <1>8, <2>1 DEF EndTrack
  <2>2. ASSUME NEW t \in Tracks, StartTrack(e, t) \/ BeginWrite(e, t) \/ DropFrame(e, t)
        PROVE  LeavesAtHome'
    BY <1>8, <2>2 DEF StartTrack, BeginWrite, DropFrame
  <2> QED BY <1>1, <1>2, <1>3, <1>4, <1>9, <2>1, <2>2 DEF Connector
<1>10. CASE CloseHub \/ UNCHANGED vars
  BY <1>8, <1>10 DEF CloseHub, vars
<1> QED BY <1>7, <1>9, <1>10 DEF Next

\* Only a late frame or a cancelled send uses a slot up (ResidueNeedsFault):
\* without one, an open connector that everybody has left and whose messages
\* the hub has handled has its whole ring back (issue #143), in every
\* deployment with one connector a participant.
THEOREM ChurnIsClean ==
  ASSUME OneConnector
  PROVE  Spec => []ResidueNeedsFault
<1> USE DEF producerVars, rosterVars
<1>1. Init => LeavesAtHome /\ AllAccounted
  <2> SUFFICES ASSUME Init PROVE LeavesAtHome /\ AllAccounted
    OBVIOUS
  <2>1. /\ \A e \in Endpoints : push[e] = <<>> /\ status[e] = "new" /\ room[e] = {}
                                /\ \A s \in Slots : slots[e][s].state = "free"
        /\ \A t \in Tracks : task[t] = None
        /\ \A p \in Participants : connector[p] = None
    BY DEF Init, FreeSlot
  <2>2. ASSUME NEW e \in Endpoints PROVE Accounted(e)
    <3>1. IdOf[e] # None /\ e # None
      BY ConstantsAssumption, NoneAssumption
    <3>2. Len(push[e]) = 0 /\ 1 .. 0 = {}
      BY <2>1
    <3>3. \A p \in Participants : ~ PresentAtLast(e, p)
      BY <2>1, <3>1, <3>2 DEF PresentAtLast, Present, Arrives
    <3>4. RosterAgrees(e)
      BY <2>1, <3>3 DEF RosterAgrees
    <3>5. StreamsOfPresent(e) /\ SignalsExpected(e) /\ ReadyInCustody(e)
      BY <2>1, <3>1, <3>2 DEF StreamsOfPresent, SignalsExpected, ReadyInCustody, Writing, Signals
    <3> QED BY <3>4, <3>5 DEF Accounted
  <2> QED BY <2>1, <2>2 DEF LeavesAtHome, AllAccounted
<1>2. TypeOK /\ TypeOK' /\ SlotOwnership /\ LeavesAtHome /\ AllAccounted /\ [Next]_vars
        => LeavesAtHome' /\ AllAccounted'
  <2> SUFFICES ASSUME TypeOK, TypeOK', SlotOwnership, LeavesAtHome, AllAccounted, [Next]_vars
               PROVE  LeavesAtHome' /\ AllAccounted'
    OBVIOUS
  <2>0. AtHome
    BY DEF SlotOwnership
  <2>1. LeavesAtHome'
    BY <2>0, LeavesStayHome
  <2>2. ASSUME faults' = {}, running', NEW x \in Endpoints, status'[x] # "closed"
        PROVE  Accounted(x)'
    <3>1. CASE UNCHANGED vars
      <4>1. Accounted(x)
        BY <2>2, <3>1 DEF AllAccounted, vars
      <4> QED BY <3>1, <4>1, QuietStep DEF vars
    <3>2. ASSUME NEW e \in Endpoints, Connector(e) \/ Dispatch(e)
          PROVE  faults = {} /\ running /\ Accounted(x) /\ status[x] # "closed"
      <4>1. UNCHANGED <<faults, running>>
        BY <3>2 DEF Connector, StartEndpoint, Register, FinishWrite, CloseEndpoint, ParticipantJoined,
             ParticipantLeft, StartTrack, EndTrack, BeginWrite, DropFrame, Dispatch,
             HandleRegistration, HandleJoined, HandleLeft, DropSignal, HandleFrame
      <4>2. (UNCHANGED status) \/ StartEndpoint(e) \/ CloseEndpoint(e)
        BY <3>2 DEF Connector, Register, FinishWrite, ParticipantJoined,
             ParticipantLeft, StartTrack, EndTrack, BeginWrite, DropFrame, Dispatch,
             HandleRegistration, HandleJoined, HandleLeft, DropSignal, HandleFrame
      <4>3. status[x] # "closed"
        BY <2>2, <4>2 DEF StartEndpoint, CloseEndpoint, TypeOK
      <4> QED BY <2>2, <4>1, <4>3 DEF AllAccounted
    <3>3. ASSUME NEW e \in Endpoints, Connector(e) PROVE Accounted(x)'
      BY <2>2, <3>2, <3>3, ConnectorAccounts
    <3>4. ASSUME NEW e \in Endpoints, Dispatch(e) PROVE Accounted(x)'
      BY <2>0, <3>2, <3>4, HandleRegistrationAccounts, HandleJoinedAccounts, HandleLeftAccounts,
         HandleFrameAccounts DEF Dispatch
    <3>5. ~ CloseHub
      BY <2>2 DEF CloseHub
    <3> QED BY <3>1, <3>3, <3>4, <3>5 DEF Next
  <2>3. AllAccounted'
    BY <2>2 DEF AllAccounted
  <2> QED BY <2>1, <2>3
<1>3. TypeOK /\ SlotOwnership /\ AllAccounted => ResidueNeedsFault
  <2> SUFFICES ASSUME TypeOK, SlotOwnership, AllAccounted, faults = {},
                      NEW e \in Endpoints, status[e] = "open", running, room[e] = {},
                      push[e] = <<>>, NEW s \in Slots
               PROVE  slots[e][s] = FreeSlot
    BY DEF ResidueNeedsFault, ChurnLeavesNoResidue
  <2>1. Accounted(e)
    BY DEF AllAccounted
  <2>2. ~ InFlight(e, s)
    BY DEF InFlight, Signals
  <2>3. ASSUME NEW t \in ViewedBy(e, s) PROVE FALSE
    <3>1. t \in Tracks /\ held[t] # None /\ held[t].ring = e /\ Owner[t] \in Participants
      BY <2>3, ConstantsAssumption DEF ViewedBy
    <3>2. RingOf(t) = e
      BY <3>1 DEF SlotOwnership, ViewsInRegisteredRing
    <3>3. connector[Owner[t]] # None /\ registry[connector[Owner[t]]] = e
      BY <3>2, NoneAssumption DEF RingOf
    <3>4. connector[Owner[t]] = IdOf[e]
      BY <3>1, <3>3, NoneAssumption DEF SlotOwnership, AtHome, TypeOK
    <3>5. Stays(push[e], Owner[t], Len(push[e]))
      BY DEF Stays
    <3>6. Owner[t] \in room[e]
      BY <2>1, <3>1, <3>4, <3>5 DEF Accounted, RosterAgrees, PresentAtLast, Present
    <3> QED BY <3>6
  <2>4. slots[e][s].state # "ready"
    BY <2>1, <2>2, <2>3 DEF Accounted, ReadyInCustody, Custodian
  <2>5. slots[e][s].state # "writing"
    BY <2>1 DEF Accounted, StreamsOfPresent, Writing
  <2> QED BY <2>4, <2>5 DEF TypeOK, Slot, FreeSlot
<1> QED
  BY <1>1, <1>2, <1>3, TypeCorrect, SlotsOwned, PTL DEF Spec

=============================================================================
