------------------------- MODULE FrameRequest_proof -------------------------
(***************************************************************************)
(* Theorems about FrameRequest and Vision, for every value of their        *)
(* constants.                                                              *)
(***************************************************************************)
EXTENDS FrameRequest, Vision, SequenceTheorems, WellFoundedInduction, TLAPS

LEMMA PublishType ==
  ASSUME TypeOK, NEW m \in Message, Publish(m)
  PROVE  inbox' \in [Processors -> Seq(Message)]
BY DEF TypeOK, Publish

LEMMA ReceiveType ==
  ASSUME TypeOK, NEW p \in Processors, NEW type, Receive(p, type)
  PROVE  /\ inbox' \in [Processors -> Seq(Message)]
         /\ inbox[p] \in Seq(Message) /\ inbox[p] # <<>>
         /\ Head(inbox[p]) \in Message
         /\ Head(inbox[p]).frame \in Frames
<1>1. inbox[p] \in Seq(Message) /\ inbox[p] # <<>>
  BY DEF TypeOK, Receive
<1>2. Tail(inbox[p]) \in Seq(Message) /\ Head(inbox[p]) \in Message
  BY <1>1
<1>3. Head(inbox[p]).frame \in Frames
  BY <1>2 DEF Message
<1> QED
  BY <1>1, <1>2, <1>3 DEF TypeOK, Receive

\* Every variable keeps its type (TypeOK), for any processors and callers.
THEOREM TypeCorrect == Spec => []TypeOK
<1>1. Init => TypeOK
  BY ConstantsAssumption DEF Init, TypeOK, States
<1>2. TypeOK /\ [Next]_vars => TypeOK'
  <2> SUFFICES ASSUME TypeOK, [Next]_vars
               PROVE  TypeOK'
    OBVIOUS
  <2> USE DEF hubVars, callVars
  <2>1. CASE TakeFrame
    <3>1. taken + 1 \in Frames /\ [type |-> "signal", frame |-> taken + 1] \in Message
      BY <2>1, ConstantsAssumption DEF TakeFrame, TypeOK, Frames, Message
    <3>2. inbox' \in [Processors -> Seq(Message)]
      BY <2>1, <3>1, PublishType DEF TakeFrame
    <3> QED
      BY <2>1, <3>1, <3>2 DEF TakeFrame, TypeOK, Frames
  <2>2. CASE ParticipantLeft
    BY <2>2, ConstantsAssumption DEF ParticipantLeft, TypeOK
  <2>3. ASSUME NEW p \in Processors, HandleRequest(p)
        PROVE  TypeOK'
    <3>1. inbox' \in [Processors -> Seq(Message)]
      <4>1. CASE held = 0
        BY <2>3, <4>1 DEF HandleRequest, TypeOK
      <4>2. CASE held # 0
        <5>1. [type |-> "data", frame |-> held] \in Message
          BY <4>2, ConstantsAssumption DEF TypeOK, Message, Frames
        <5> QED
          BY <2>3, <4>2, <5>1, PublishType DEF HandleRequest
      <4> QED
        BY <4>1, <4>2
    <3>2. requests' \in [Processors -> 0 .. MaxRequests]
      BY <2>3, ConstantsAssumption DEF HandleRequest, TypeOK
    <3>3. UNCHANGED <<faults, hubVars, seen, callVars>>
      BY <2>3 DEF HandleRequest
    <3> QED
      BY <3>1, <3>2, <3>3 DEF TypeOK
  <2>4. ASSUME NEW p \in Processors, DispatchSignal(p)
        PROVE  TypeOK'
    BY <2>4, ReceiveType, ConstantsAssumption DEF DispatchSignal, TypeOK, Frames
  <2>5. ASSUME NEW p \in Processors, DispatchData(p)
        PROVE  TypeOK'
    <3>1. inbox' \in [Processors -> Seq(Message)] /\ Head(inbox[p]).frame \in 0 .. MaxFrame
      BY <2>5, ReceiveType, ConstantsAssumption DEF DispatchData, Frames
    <3>2. result' \in [Calls -> 0 .. MaxFrame]
      BY <2>5, <3>1 DEF DispatchData, TypeOK
    <3>3. pending' \in [Processors -> SUBSET Calls]
      BY <2>5 DEF DispatchData, TypeOK
    <3> QED
      BY <2>5, <3>1, <3>2, <3>3 DEF DispatchData, TypeOK
  <2>6. ASSUME NEW c \in Calls, Request(c)
        PROVE  TypeOK'
    BY <2>6, ConstantsAssumption DEF Request, TypeOK, States
  <2>7. ASSUME NEW c \in Calls, Sent(c)
        PROVE  TypeOK'
    <3>0. PICK p \in Processors : p = ProcOf[c]
      BY ConstantsAssumption
    <3>1. requests' \in [Processors -> 0 .. MaxRequests]
      <4>1. requests[p] + 1 \in 0 .. MaxRequests
        BY <2>7, <3>0, ConstantsAssumption DEF Sent, TypeOK
      <4>2. requests' = [requests EXCEPT ![p] = requests[p] + 1]
        BY <2>7, <3>0 DEF Sent
      <4> QED
        BY <4>1, <4>2 DEF TypeOK
    <3>2. call' \in [Calls -> States]
      BY <2>7 DEF Sent, TypeOK, States
    <3> QED
      BY <2>7, <3>1, <3>2 DEF Sent, TypeOK
  <2>8. ASSUME NEW c \in Calls, Return(c)
        PROVE  TypeOK'
    BY <2>8 DEF Return, TypeOK, States
  <2>9. ASSUME NEW c \in Calls, TimeOut(c)
        PROVE  TypeOK'
    BY <2>9, ConstantsAssumption DEF TimeOut, TypeOK, States
  <2>10. ASSUME NEW c \in Calls, Cancel(c)
         PROVE  TypeOK'
    BY <2>10 DEF Cancel, TypeOK, States
  <2>11. ASSUME NEW c \in Calls, Again(c)
         PROVE  TypeOK'
    BY <2>11, ConstantsAssumption DEF Again, TypeOK, States
  <2>12. CASE UNCHANGED vars
    BY <2>12 DEF vars, TypeOK
  <2> QED
    BY <2>1, <2>2, <2>3, <2>4, <2>5, <2>6, <2>7, <2>8, <2>9, <2>10, <2>11, <2>12 DEF Next
<1> QED
  BY <1>1, <1>2, PTL DEF Spec

\* No wake-up is lost (WaitersRegistered): the future of a call that waits is
\* always where the next FRAME_DATA finds it, however calls, time-outs,
\* cancellations and answers interleave.
THEOREM NoLostWakeup == Spec => []WaitersRegistered
<1>1. Init => WaitersRegistered
  BY DEF Init, WaitersRegistered, Live
<1>2. TypeOK /\ WaitersRegistered /\ [Next]_vars => WaitersRegistered'
  <2> SUFFICES ASSUME TypeOK, WaitersRegistered, [Next]_vars
               PROVE  WaitersRegistered'
    OBVIOUS
  <2> USE DEF hubVars, callVars, WaitersRegistered, Live
  <2>1. CASE UNCHANGED <<pending, call, result>>
    BY <2>1
  <2>2. ASSUME NEW p \in Processors, DispatchData(p)
        PROVE  WaitersRegistered'
    <3>1. Head(inbox[p]).frame # 0
      BY <2>2, ReceiveType DEF DispatchData, Frames
    <3>2. /\ \A c \in Calls : c \in pending[p] => result'[c] # 0
          /\ \A c \in Calls : c \notin pending[p] => result'[c] = result[c]
          /\ \A q \in Processors : q # p => pending'[q] = pending[q]
          /\ call' = call
      BY <2>2, <3>1 DEF DispatchData, TypeOK
    <3> QED
      BY <3>2, ConstantsAssumption
  <2>3. ASSUME NEW c \in Calls, Request(c)
        PROVE  WaitersRegistered'
    BY <2>3, ConstantsAssumption DEF Request, TypeOK
  <2>4. ASSUME NEW c \in Calls, Sent(c) \/ Return(c) \/ Cancel(c)
        PROVE  WaitersRegistered'
    BY <2>4 DEF Sent, Return, Cancel, TypeOK
  <2>5. ASSUME NEW c \in Calls, TimeOut(c)
        PROVE  WaitersRegistered'
    BY <2>5, ConstantsAssumption DEF TimeOut, TypeOK
  <2>6. ASSUME NEW c \in Calls, Again(c)
        PROVE  WaitersRegistered'
    BY <2>6 DEF Again, TypeOK
  <2> QED
    BY <2>1, <2>2, <2>3, <2>4, <2>5, <2>6
       DEF Next, TakeFrame, ParticipantLeft, HandleRequest, DispatchSignal, vars
<1> QED
  BY <1>1, <1>2, TypeCorrect, PTL DEF Spec

(***************************************************************************)
(* Snapshots.  The parts of DeliveredInOrder, and what they need of the    *)
(* steps that touch an inbox.                                              *)
(***************************************************************************)

CallsInOrder ==
  \A p \in Processors : \A c \in pending[p] : ProcOf[c] = p /\ asked[c] <= seen[p]

IdleCalls ==
  \A c \in Calls : call[c] = "idle" => result[c] = 0 /\ c \notin pending[ProcOf[c]]

InboxesInOrder ==
  /\ held \in {0, taken}
  /\ \A p \in Processors :
       /\ seen[p] <= taken
       /\ \A i \in 1 .. Len(inbox[p]) :
            seen[p] <= inbox[p][i].frame /\ inbox[p][i].frame <= taken
       /\ \A i, j \in 1 .. Len(inbox[p]) : i < j => inbox[p][i].frame <= inbox[p][j].frame

LEMMA OrderParts ==
  /\ DeliveredInOrder
       <=> SnapshotNotOlder /\ IdleCalls /\ InboxesInOrder /\ CallsInOrder
  /\ DeliveredInOrder'
       <=> SnapshotNotOlder' /\ IdleCalls' /\ InboxesInOrder' /\ CallsInOrder'
BY DEF DeliveredInOrder, IdleCalls, InboxesInOrder, CallsInOrder

\* The hub appends its newest frame.
LEMMA PublishInOrder ==
  ASSUME TypeOK, InboxesInOrder, NEW m \in Message, Publish(m), m.frame = taken',
         taken' \in {taken, taken + 1}, held' \in {0, taken'}, UNCHANGED seen
  PROVE  InboxesInOrder'
<1>1. taken \in Nat /\ taken' \in Nat /\ taken <= taken'
  BY ConstantsAssumption DEF TypeOK
<1>2. SUFFICES ASSUME NEW p \in Processors
      PROVE  /\ seen[p] <= taken'
             /\ \A i \in 1 .. Len(inbox'[p]) :
                  seen[p] <= inbox'[p][i].frame /\ inbox'[p][i].frame <= taken'
             /\ \A i, j \in 1 .. Len(inbox'[p]) :
                  i < j => inbox'[p][i].frame <= inbox'[p][j].frame
  BY DEF InboxesInOrder
<1>3. seen[p] \in Nat /\ seen[p] <= taken /\ seen[p] <= taken'
  BY <1>1, ConstantsAssumption DEF InboxesInOrder, TypeOK
<1>4. /\ inbox[p] \in Seq(Message) /\ Len(inbox[p]) \in Nat
      /\ \A i \in 1 .. Len(inbox[p]) : inbox[p][i].frame \in Nat
  <2>1. inbox[p] \in Seq(Message)
    BY DEF TypeOK
  <2>2. \A i \in 1 .. Len(inbox[p]) : inbox[p][i] \in Message
    BY <2>1
  <2> QED
    BY <2>1, <2>2 DEF Message, Frames
<1>5. \A i \in 1 .. Len(inbox[p]) :
        seen[p] <= inbox[p][i].frame /\ inbox[p][i].frame <= taken'
  BY <1>1, <1>3, <1>4 DEF InboxesInOrder
<1>6. CASE inbox'[p] = inbox[p]
  BY <1>3, <1>5, <1>6 DEF InboxesInOrder
<1>7. CASE inbox'[p] = Append(inbox[p], m)
  <2>1. /\ Len(inbox'[p]) = Len(inbox[p]) + 1
        /\ \A i \in 1 .. Len(inbox[p]) : inbox'[p][i] = inbox[p][i]
        /\ inbox'[p][Len(inbox[p]) + 1] = m
    BY <1>4, <1>7
  <2>2. \A i \in 1 .. Len(inbox'[p]) :
          i \in 1 .. Len(inbox[p]) \/ i = Len(inbox[p]) + 1
    BY <1>4, <2>1
  <2>3. \A i \in 1 .. Len(inbox'[p]) :
          seen[p] <= inbox'[p][i].frame /\ inbox'[p][i].frame <= taken'
    <3> TAKE i \in 1 .. Len(inbox'[p])
    <3>1. CASE i \in 1 .. Len(inbox[p])
      BY <1>5, <2>1, <3>1
    <3>2. CASE i = Len(inbox[p]) + 1
      <4>1. inbox'[p][i].frame = taken'
        BY <2>1, <3>2
      <4> QED
        BY <1>1, <1>3, <4>1
    <3> QED
      BY <2>2, <3>1, <3>2
  <2>4. ASSUME NEW i \in 1 .. Len(inbox'[p]), NEW j \in 1 .. Len(inbox'[p]), i < j
        PROVE  inbox'[p][i].frame <= inbox'[p][j].frame
    <3>1. i \in 1 .. Len(inbox[p])
      BY <1>4, <2>1, <2>4
    <3>2. CASE j \in 1 .. Len(inbox[p])
      BY <2>1, <2>4, <3>1, <3>2 DEF InboxesInOrder
    <3>3. CASE j = Len(inbox[p]) + 1
      BY <1>5, <2>1, <3>1, <3>3
    <3> QED
      BY <2>2, <3>2, <3>3
  <2> QED
    BY <1>3, <2>3, <2>4
<1> QED
  BY <1>6, <1>7 DEF Publish, TypeOK

\* The processor takes the oldest message, and has seen it or nothing new.
LEMMA ReceiveInOrder ==
  ASSUME TypeOK, InboxesInOrder, NEW p \in Processors, NEW type, Receive(p, type),
         UNCHANGED hubVars,
         seen' = seen \/ seen' = [seen EXCEPT ![p] = Head(inbox[p]).frame]
  PROVE  InboxesInOrder' /\ seen[p] <= Head(inbox[p]).frame
<1>1. inbox[p] \in Seq(Message) /\ inbox[p] # <<>>
  BY ReceiveType
<1>2. /\ Len(inbox[p]) \in Nat /\ 1 \in 1 .. Len(inbox[p])
      /\ Head(inbox[p]) = inbox[p][1]
      /\ Len(Tail(inbox[p])) = Len(inbox[p]) - 1
      /\ \A i \in 1 .. Len(Tail(inbox[p])) :
           Tail(inbox[p])[i] = inbox[p][i + 1] /\ i + 1 \in 1 .. Len(inbox[p]) /\ 1 < i + 1
  BY <1>1
<1>3. /\ inbox'[p] = Tail(inbox[p])
      /\ \A q \in Processors : q # p => inbox'[q] = inbox[q] /\ seen'[q] = seen[q]
      /\ seen'[p] \in {seen[p], Head(inbox[p]).frame}
      /\ taken' = taken /\ held' = held
  BY DEF Receive, TypeOK, hubVars
<1>4. seen[p] <= Head(inbox[p]).frame /\ Head(inbox[p]).frame <= taken
  BY <1>2 DEF InboxesInOrder
<1>5. seen'[p] <= taken
  BY <1>3, <1>4 DEF InboxesInOrder
<1>6. \A i \in 1 .. Len(Tail(inbox[p])) :
        seen'[p] <= inbox[p][i + 1].frame /\ inbox[p][i + 1].frame <= taken
  BY <1>2, <1>3 DEF InboxesInOrder
<1>7. ASSUME NEW i \in 1 .. Len(Tail(inbox[p])), NEW j \in 1 .. Len(Tail(inbox[p])), i < j
      PROVE  inbox[p][i + 1].frame <= inbox[p][j + 1].frame
  <2>1. i + 1 \in 1 .. Len(inbox[p]) /\ j + 1 \in 1 .. Len(inbox[p]) /\ i + 1 < j + 1
    BY <1>2, <1>7
  <2> QED
    BY <2>1 DEF InboxesInOrder
<1>8. ASSUME NEW q \in Processors
      PROVE  /\ seen'[q] <= taken'
             /\ \A i \in 1 .. Len(inbox'[q]) :
                  seen'[q] <= inbox'[q][i].frame /\ inbox'[q][i].frame <= taken'
             /\ \A i, j \in 1 .. Len(inbox'[q]) :
                  i < j => inbox'[q][i].frame <= inbox'[q][j].frame
  <2>1. CASE q = p
    <3>1. /\ seen'[p] <= taken'
          /\ \A i \in 1 .. Len(inbox'[p]) :
               seen'[p] <= inbox'[p][i].frame /\ inbox'[p][i].frame <= taken'
      BY <1>2, <1>3, <1>5, <1>6
    <3>2. \A i, j \in 1 .. Len(inbox'[p]) :
            i < j => inbox'[p][i].frame <= inbox'[p][j].frame
      BY SMTT(40), <1>2, <1>3, <1>7
    <3> QED
      BY <2>1, <3>1, <3>2
  <2>2. CASE q # p
    BY <1>3, <2>2 DEF InboxesInOrder
  <2> QED
    BY <2>1, <2>2
<1>9. held' \in {0, taken'}
  BY <1>3 DEF InboxesInOrder
<1> QED
  BY <1>4, <1>8, <1>9 DEF InboxesInOrder

\* A call gets no older a frame than its signal announced (SnapshotNotOlder),
\* whichever call or process asked for the answer it shares: the inductive
\* invariant DeliveredInOrder.
THEOREM SnapshotsInOrder == Spec => [](DeliveredInOrder /\ SnapshotNotOlder)
<1>1. Init => DeliveredInOrder
  <2> SUFFICES ASSUME Init PROVE DeliveredInOrder
    OBVIOUS
  <2>1. /\ held = 0 /\ taken = 0
        /\ \A p \in Processors : seen[p] = 0 /\ pending[p] = {} /\ inbox[p] = <<>>
        /\ \A c \in Calls : result[c] = 0
    BY DEF Init
  <2>2. \A p \in Processors : 1 .. Len(inbox[p]) = {}
    BY <2>1
  <2> QED
    BY <2>1, <2>2, ConstantsAssumption DEF DeliveredInOrder, SnapshotNotOlder
<1>2. TypeOK /\ TypeOK' /\ DeliveredInOrder /\ [Next]_vars => DeliveredInOrder'
  <2> SUFFICES ASSUME TypeOK, TypeOK', DeliveredInOrder, [Next]_vars
               PROVE  SnapshotNotOlder' /\ IdleCalls' /\ InboxesInOrder' /\ CallsInOrder'
    BY OrderParts
  <2>0. SnapshotNotOlder /\ IdleCalls /\ InboxesInOrder /\ CallsInOrder
    BY OrderParts
  <2> USE DEF hubVars, callVars
  <2>1. ASSUME UNCHANGED callVars, InboxesInOrder',
               UNCHANGED seen
        PROVE  SnapshotNotOlder' /\ IdleCalls' /\ InboxesInOrder' /\ CallsInOrder'
    BY <2>0, <2>1 DEF SnapshotNotOlder, IdleCalls, CallsInOrder
  <2>2. CASE TakeFrame
    <3>1. [type |-> "signal", frame |-> taken + 1] \in Message
      BY <2>2, ConstantsAssumption DEF TakeFrame, TypeOK, Frames, Message
    <3>2. InboxesInOrder'
      BY <2>0, <2>2, <3>1, PublishInOrder DEF TakeFrame
    <3> QED
      BY <2>1, <2>2, <3>2 DEF TakeFrame
  <2>3. CASE ParticipantLeft
    <3>1. InboxesInOrder'
      BY <2>0, <2>3 DEF ParticipantLeft, InboxesInOrder
    <3> QED
      BY <2>1, <2>3, <3>1 DEF ParticipantLeft
  <2>4. ASSUME NEW p \in Processors, HandleRequest(p)
        PROVE  SnapshotNotOlder' /\ IdleCalls' /\ InboxesInOrder' /\ CallsInOrder'
    <3>1. InboxesInOrder'
      <4>1. CASE held = 0
        BY <2>0, <2>4, <4>1 DEF HandleRequest, InboxesInOrder
      <4>2. CASE held # 0
        <5>1. [type |-> "data", frame |-> held] \in Message /\ held = taken
          BY <2>0, <4>2, ConstantsAssumption DEF TypeOK, Message, Frames, InboxesInOrder
        <5> QED
          BY <2>0, <2>4, <4>2, <5>1, PublishInOrder DEF HandleRequest
      <4> QED
        BY <4>1, <4>2
    <3> QED
      BY <2>1, <2>4, <3>1 DEF HandleRequest
  <2>5. ASSUME NEW p \in Processors, DispatchSignal(p)
        PROVE  SnapshotNotOlder' /\ IdleCalls' /\ InboxesInOrder' /\ CallsInOrder'
    <3>1. InboxesInOrder' /\ seen[p] <= Head(inbox[p]).frame
      BY <2>0, <2>5, ReceiveInOrder DEF DispatchSignal
    <3>2. /\ UNCHANGED callVars
          /\ \A q \in Processors : seen[q] \in Nat /\ seen'[q] \in Nat /\ seen[q] <= seen'[q]
      BY <2>5, <3>1, ConstantsAssumption DEF DispatchSignal, TypeOK
    <3>3. \A c \in Calls : asked[c] \in Nat
      BY ConstantsAssumption DEF TypeOK
    <3>4. CallsInOrder'
      <4> SUFFICES ASSUME NEW q \in Processors, NEW c \in pending[q]
                   PROVE  ProcOf[c] = q /\ asked[c] <= seen'[q]
        BY <3>2 DEF CallsInOrder
      <4>1. c \in Calls
        BY DEF TypeOK
      <4> QED
        BY <2>0, <3>2, <3>3, <4>1 DEF CallsInOrder
    <3> QED
      BY <2>0, <3>1, <3>2, <3>4 DEF SnapshotNotOlder, IdleCalls
  <2>6. ASSUME NEW p \in Processors, DispatchData(p)
        PROVE  SnapshotNotOlder' /\ IdleCalls' /\ InboxesInOrder' /\ CallsInOrder'
    <3>1. InboxesInOrder' /\ seen[p] <= Head(inbox[p]).frame
      BY <2>0, <2>6, ReceiveInOrder DEF DispatchData
    <3>2. \A c \in pending[p] :
            /\ c \in Calls /\ asked[c] <= seen[p]
            /\ asked[c] \in Nat /\ seen[p] \in Nat /\ Head(inbox[p]).frame \in Nat
      BY <2>0, <2>6, ReceiveType, ConstantsAssumption DEF CallsInOrder, TypeOK, DispatchData, Frames
    <3>3. SnapshotNotOlder'
      BY <2>0, <2>6, <3>1, <3>2 DEF SnapshotNotOlder, DispatchData, TypeOK
    <3>4. IdleCalls'
      <4> SUFFICES ASSUME NEW c \in Calls, call[c] = "idle"
                   PROVE  result'[c] = 0 /\ c \notin pending'[ProcOf[c]]
        BY <2>6 DEF IdleCalls, DispatchData
      <4>1. c \notin pending[ProcOf[c]] /\ result[c] = 0
        BY <2>0 DEF IdleCalls
      <4>2. c \notin pending[p]
        BY <2>0, <4>1 DEF CallsInOrder
      <4> QED
        BY <2>6, <4>1, <4>2, ConstantsAssumption DEF DispatchData, TypeOK
    <3>5. CallsInOrder'
      BY <2>0, <2>6 DEF CallsInOrder, DispatchData, TypeOK
    <3> QED
      BY <3>1, <3>3, <3>4, <3>5
  <2>7. ASSUME UNCHANGED <<hubVars, inbox, seen>>
        PROVE  InboxesInOrder'
    BY <2>0, <2>7 DEF InboxesInOrder
  <2>8. ASSUME NEW c \in Calls, Request(c)
        PROVE  SnapshotNotOlder' /\ IdleCalls' /\ InboxesInOrder' /\ CallsInOrder'
    <3>1. InboxesInOrder'
      BY <2>7, <2>8 DEF Request
    <3>2. SnapshotNotOlder'
      BY <2>0, <2>8 DEF Request, SnapshotNotOlder, IdleCalls, TypeOK
    <3>3. IdleCalls'
      BY <2>0, <2>8, ConstantsAssumption DEF Request, IdleCalls, TypeOK
    <3>4. CallsInOrder'
      <4> SUFFICES ASSUME NEW q \in Processors, NEW d \in pending'[q]
                   PROVE  ProcOf[d] = q /\ asked'[d] <= seen[q]
        BY <2>8 DEF CallsInOrder, Request
      <4>1. d \in Calls
        BY DEF TypeOK
      <4>2. CASE d = c
        <5>1. asked'[c] = seen[ProcOf[c]] /\ seen[ProcOf[c]] \in Nat
          BY <2>8, ConstantsAssumption DEF Request, TypeOK
        <5>2. q = ProcOf[c]
          BY <2>0, <2>8, <4>2, ConstantsAssumption DEF CallsInOrder, IdleCalls, Request, TypeOK
        <5> QED
          BY <4>2, <5>1, <5>2
      <4>3. CASE d # c
        BY SMTT(40), <2>0, <2>8, <4>1, <4>3, ConstantsAssumption DEF CallsInOrder, Request, TypeOK
      <4> QED
        BY <4>2, <4>3
    <3> QED
      BY <3>1, <3>2, <3>3, <3>4
  <2>9. ASSUME NEW c \in Calls, Sent(c) \/ Return(c) \/ Cancel(c)
        PROVE  SnapshotNotOlder' /\ IdleCalls' /\ InboxesInOrder' /\ CallsInOrder'
    <3>1. InboxesInOrder'
      BY <2>7, <2>9 DEF Sent, Return, Cancel
    <3>2. SnapshotNotOlder' /\ CallsInOrder'
      BY <2>0, <2>9 DEF Sent, Return, Cancel, SnapshotNotOlder, CallsInOrder
    <3>3. IdleCalls'
      BY <2>0, <2>9 DEF Sent, Return, Cancel, IdleCalls, TypeOK
    <3> QED
      BY <3>1, <3>2, <3>3
  <2>10. ASSUME NEW c \in Calls, TimeOut(c)
         PROVE  SnapshotNotOlder' /\ IdleCalls' /\ InboxesInOrder' /\ CallsInOrder'
    <3>1. InboxesInOrder'
      BY <2>7, <2>10 DEF TimeOut
    <3>2. \A q \in Processors : pending'[q] \subseteq pending[q]
      BY <2>10 DEF TimeOut, TypeOK
    <3>3. SnapshotNotOlder' /\ CallsInOrder'
      BY <2>0, <2>10, <3>2 DEF TimeOut, SnapshotNotOlder, CallsInOrder
    <3>4. IdleCalls'
      BY <2>0, <2>10, <3>2, ConstantsAssumption DEF TimeOut, IdleCalls, TypeOK
    <3> QED
      BY <3>1, <3>3, <3>4
  <2>11. ASSUME NEW c \in Calls, Again(c)
         PROVE  SnapshotNotOlder' /\ IdleCalls' /\ InboxesInOrder' /\ CallsInOrder'
    <3>1. InboxesInOrder'
      BY <2>7, <2>11 DEF Again
    <3>2. SnapshotNotOlder' /\ IdleCalls'
      BY <2>0, <2>11 DEF Again, SnapshotNotOlder, IdleCalls, TypeOK
    <3>3. CallsInOrder'
      BY <2>0, <2>11, ConstantsAssumption DEF Again, CallsInOrder, TypeOK
    <3> QED
      BY <3>1, <3>2, <3>3
  <2>12. CASE UNCHANGED vars
    <3>1. InboxesInOrder'
      BY <2>7, <2>12 DEF vars
    <3> QED
      BY <2>1, <2>12, <3>1 DEF vars
  <2> QED
    BY <2>2, <2>3, <2>4, <2>5, <2>6, <2>8, <2>9, <2>10, <2>11, <2>12 DEF Next
<1>3. DeliveredInOrder => SnapshotNotOlder
  BY DEF DeliveredInOrder
<1> QED
  BY <1>1, <1>2, <1>3, TypeCorrect, PTL DEF Spec

-----------------------------------------------------------------------------
(* Vision.                                                                 *)

News == [type : {"query"}, question : Question]
        \union [type : {"left"}, pid : Participants, session : 1 .. MaxSessions]

AskTypes ==
  /\ latest \in [Participants \X Tracks -> Nat]
  /\ event \in [Participants -> {"absent", "clear", "set"}]
  /\ pc \in [Asks -> Steps]
  /\ questions \in Seq(Question) /\ Len(questions) <= MaxAsks
  /\ outcome \in [Asks -> Outcome]
  /\ inflight \in [Participants -> 0 .. MaxAsks]

RoomTypes ==
  /\ session \in [Participants -> 0 .. MaxSessions]
  /\ present \subseteq {p \in Participants : session[p] > 0}
  /\ queue \in Seq(News)

\* The table names the questions it has tasks of, and every task that has not been
\* cancelled is in it: of a participant's questions at most one is at work.
AtWork(a) == pc[a] \notin {"none", "closing", "done"}

TableNames ==
  /\ \A p \in Participants : inflight[p] # 0 =>
       inflight[p] \in 1 .. Len(questions) /\ questions[inflight[p]].pid = p
  /\ \A a \in Asks : pc[a] # "none" => a <= Len(questions)
  /\ \A a \in Asks : AtWork(a) => inflight[questions[a].pid] = a

TableInv == AskTypes /\ RoomTypes /\ TableNames

LEMMA VisionStarts == VisionInit => TableInv
<1> SUFFICES ASSUME VisionInit PROVE TableInv
  OBVIOUS
<1>1. AskTypes
  BY VisionAssumption DEF VisionInit, AskTypes, Stale, Steps, Outcome
<1>2. RoomTypes
  BY VisionAssumption DEF VisionInit, RoomTypes
<1>3. TableNames
  BY DEF VisionInit, TableNames, AtWork
<1> QED BY <1>1, <1>2, <1>3 DEF TableInv

\* Numbers of questions.
LEMMA AskNumbers ==
  ASSUME AskTypes
  PROVE  /\ Len(questions) \in Nat /\ DOMAIN questions = 1 .. Len(questions)
         /\ DOMAIN questions \subseteq Asks
         /\ \A a \in DOMAIN questions : questions[a] \in Question /\ questions[a].pid \in Participants
<1>1. questions \in Seq(Question) /\ Len(questions) <= MaxAsks /\ MaxAsks \in Nat
  BY VisionAssumption DEF AskTypes
<1>2. Len(questions) \in Nat /\ DOMAIN questions = 1 .. Len(questions)
  BY <1>1
<1>3. \A a \in DOMAIN questions : questions[a] \in Question
  BY <1>1, <1>2
<1>4. \A q \in Question : q.pid \in Participants
  BY DEF Question
<1> QED BY <1>1, <1>2, <1>3, <1>4 DEF Asks

\* A new question has the next number.
LEMMA Asked ==
  ASSUME AskTypes, NEW q \in Question, Len(questions) < MaxAsks, questions' = Append(questions, q)
  PROVE  /\ questions' \in Seq(Question) /\ Len(questions') = Len(questions) + 1
         /\ Len(questions') <= MaxAsks /\ Len(questions') \in Asks
         /\ questions'[Len(questions) + 1] = q
         /\ \A a \in 1 .. Len(questions) : questions'[a] = questions[a]
  BY VisionAssumption, AskNumbers DEF AskTypes, Asks

\* What _cancel_pid does to the tasks, with the number of a new task or 0.
LEMMA CancelKeepsTable ==
  ASSUME AskTypes, TableNames, NEW p \in Participants, NEW why \in Outcome,
         NEW new \in {0} \union Asks,
         questions' \in Seq(Question), Len(questions') <= MaxAsks, Len(questions) <= Len(questions'),
         \A a \in 1 .. Len(questions) : questions'[a] = questions[a],
         new # 0 => new > Len(questions) /\ new <= Len(questions') /\ questions'[new].pid = p,
         CancelPid(p, why, new)
  PROVE  /\ pc' \in [Asks -> Steps] /\ outcome' \in [Asks -> Outcome]
         /\ inflight' \in [Participants -> 0 .. MaxAsks]
         /\ TableNames'
         /\ \A a \in Asks : /\ pc'[a] \in {pc[a], "closing", "done"} \/ (a = new /\ pc'[a] = "new")
                            /\ a \in 1 .. Len(questions) /\ AtWork(a) /\ questions[a].pid = p
                                 => pc'[a] \in {"closing", "done"}
                            /\ outcome'[a] = outcome[a] \/ outcome'[a] = why
                            /\ pc[a] = "done" /\ a # new => pc'[a] = "done"
                            /\ pc[a] # "none" => pc'[a] # "none" 
<1> DEFINE old == inflight[p]
           hit == old # 0 /\ pc[old] # "done"
           here(a) == hit /\ a = old
<1>1. inflight' = [inflight EXCEPT ![p] = new]
  BY DEF CancelPid
<1>2. pc' = [a \in Asks |-> IF here(a) THEN Cancelled(a) ELSE IF a = new THEN "new" ELSE pc[a]]
  BY DEF CancelPid
<1>3. outcome' = [a \in Asks |-> IF here(a) THEN why ELSE outcome[a]]
  BY DEF CancelPid
<1>4. \A a \in Asks : Cancelled(a) \in {"closing", "done"}
  BY DEF Cancelled
<1>5. pc' \in [Asks -> Steps]
  BY <1>2, <1>4 DEF AskTypes, Steps, Working
<1>6. outcome' \in [Asks -> Outcome]
  BY <1>3 DEF AskTypes
<1>7. inflight' \in [Participants -> 0 .. MaxAsks]
  <2>1. new \in 0 .. MaxAsks
    BY VisionAssumption DEF Asks
  <2> QED BY <1>1, <2>1 DEF AskTypes
<1>8. /\ Len(questions) \in Nat /\ Len(questions') \in Nat
      /\ \A a \in 1 .. Len(questions) : a \in 1 .. Len(questions')
  BY AskNumbers
<1>9. \A a \in Asks : a \in Nat /\ a > 0
  BY VisionAssumption DEF Asks
<1>10. old \in 0 .. MaxAsks /\ (old # 0 => old \in 1 .. Len(questions) /\ questions[old].pid = p)
  BY DEF AskTypes, TableNames
<1>11. ASSUME NEW a \in Asks
       PROVE  /\ pc'[a] \in {pc[a], "closing", "done"} \/ (a = new /\ pc'[a] = "new")
              /\ a \in 1 .. Len(questions) /\ AtWork(a) /\ questions[a].pid = p
                   => pc'[a] \in {"closing", "done"}
              /\ outcome'[a] = outcome[a] \/ outcome'[a] = why
              /\ pc[a] = "done" /\ a # new => pc'[a] = "done"
              /\ pc[a] # "none" => pc'[a] # "none"
  BY <1>2, <1>3, <1>4, <1>8, <1>9, <1>10 DEF TableNames, AtWork, Asks
<1>12. ASSUME NEW q \in Participants, inflight'[q] # 0
       PROVE  inflight'[q] \in 1 .. Len(questions') /\ questions'[inflight'[q]].pid = q
  <2>1. CASE q = p
    BY <1>1, <1>8, <1>9, <1>12, <2>1 DEF AskTypes
  <2>2. CASE q # p
    BY <1>1, <1>8, <1>12, <2>2 DEF AskTypes, TableNames
  <2> QED BY <2>1, <2>2
<1>13. ASSUME NEW a \in Asks, pc'[a] # "none" PROVE a <= Len(questions')
  BY <1>2, <1>8, <1>9, <1>10, <1>13 DEF TableNames
<1>14. ASSUME NEW a \in Asks, AtWork(a)' PROVE inflight'[questions'[a].pid] = a
  <2>1. CASE a = new
    BY <1>1, <1>9, <2>1 DEF AskTypes
  <2>2. CASE a # new
    <3>1. pc'[a] = pc[a] /\ AtWork(a) /\ a \in 1 .. Len(questions)
      BY <1>9, <1>8, <1>11, <1>14, <2>2 DEF AtWork, TableNames
    <3>2. questions'[a].pid = questions[a].pid /\ questions[a].pid # p
      BY <1>11, <1>14, <3>1 DEF AtWork
    <3> QED BY <1>1, <3>1, <3>2 DEF TableNames, AskTypes
  <2> QED BY <2>1, <2>2
<1> QED BY <1>5, <1>6, <1>7, <1>11, <1>12, <1>13, <1>14 DEF TableNames

\* A step of a task that leaves the table alone.
Moves(a, to) ==
  /\ pc[a] # "none" /\ pc' = [pc EXCEPT ![a] = to] /\ to \in Steps \ {"none"}
  /\ to \notin {"closing", "done"} => AtWork(a)
  /\ UNCHANGED << questions, inflight >>

LEMMA MoveKeepsTable ==
  ASSUME AskTypes, TableNames, NEW a \in DOMAIN questions, NEW to, Moves(a, to)
  PROVE  pc' \in [Asks -> Steps] /\ TableNames'
<1>1. pc' \in [Asks -> Steps] /\ pc'[a] = to /\ \A b \in Asks : b # a => pc'[b] = pc[b]
  BY AskNumbers DEF Moves, AskTypes
<1>2. \A b \in Asks : AtWork(b)' => AtWork(b)
  BY <1>1 DEF Moves, AtWork
<1>3. \A b \in Asks : pc'[b] # "none" => pc[b] # "none"
  BY <1>1 DEF Moves
<1> QED BY <1>1, <1>2, <1>3 DEF Moves, TableNames

LEMMA FinishKeepsTable ==
  ASSUME AskTypes, TableNames, NEW a \in DOMAIN questions, pc[a] # "none",
         NEW how \in Outcome, Finish(a, how), UNCHANGED questions
  PROVE  /\ pc' \in [Asks -> Steps] /\ outcome' \in [Asks -> Outcome]
         /\ inflight' \in [Participants -> 0 .. MaxAsks] /\ TableNames'
<1> DEFINE p == questions[a].pid
<1>1. a \in Asks /\ p \in Participants /\ MaxAsks \in Nat
  BY AskNumbers, VisionAssumption
<1>2. /\ pc' = [pc EXCEPT ![a] = "done"] /\ outcome' = [outcome EXCEPT ![a] = how]
      /\ inflight' = [inflight EXCEPT ![p] = IF inflight[p] = a THEN 0 ELSE inflight[p]]
  BY DEF Finish
<1> HIDE DEF p
<1>3. /\ pc' \in [Asks -> Steps] /\ outcome' \in [Asks -> Outcome]
      /\ inflight' \in [Participants -> 0 .. MaxAsks]
  BY <1>1, <1>2 DEF AskTypes, Steps
<1>4. \A b \in Asks : pc'[b] # "none" => pc[b] # "none"
  BY <1>1, <1>2 DEF AskTypes
<1>5. \A b \in Asks : AtWork(b)' => AtWork(b) /\ b # a
  BY <1>1, <1>2 DEF AskTypes, AtWork
<1>6. \A q \in Participants : inflight'[q] \in {inflight[q], 0} /\ (inflight[q] # a => inflight'[q] = inflight[q])
  BY <1>1, <1>2 DEF AskTypes
<1>7. \A b \in Asks : AtWork(b)' => inflight'[questions'[b].pid] = b
  <2> TAKE b \in Asks
  <2> HAVE AtWork(b)'
  <2>1. AtWork(b) /\ b # a /\ b \in DOMAIN questions
    BY <1>5, AskNumbers DEF TableNames, AtWork, Asks
  <2>2. questions[b].pid \in Participants /\ inflight[questions[b].pid] = b
    BY <2>1, AskNumbers DEF TableNames
  <2> QED BY <1>6, <2>1, <2>2
<1> QED BY <1>3, <1>4, <1>6, <1>7 DEF TableNames

\* A question that is asked takes the place of the one at work.
LEMMA SpawnKeepsTable ==
  ASSUME AskTypes, TableNames, NEW q \in Question, SpawnQuery(q)
  PROVE  /\ questions' \in Seq(Question) /\ Len(questions') <= MaxAsks
         /\ pc' \in [Asks -> Steps] /\ outcome' \in [Asks -> Outcome]
         /\ inflight' \in [Participants -> 0 .. MaxAsks] /\ TableNames'
<1>1. /\ Len(questions) < MaxAsks /\ questions' = Append(questions, q)
      /\ CancelPid(q.pid, "superseded", Len(questions) + 1)
  BY DEF SpawnQuery
<1>2. /\ questions' \in Seq(Question) /\ Len(questions') = Len(questions) + 1
      /\ Len(questions') <= MaxAsks /\ Len(questions') \in Asks
      /\ questions'[Len(questions) + 1] = q
      /\ \A a \in 1 .. Len(questions) : questions'[a] = questions[a]
  BY <1>1, Asked
<1>3. Len(questions) \in Nat
  BY AskNumbers
<1>4. PICK new : new = Len(questions) + 1
  OBVIOUS
<1>5. new \in {0} \union Asks /\ new > Len(questions) /\ new <= Len(questions') /\ questions'[new].pid = q.pid
  BY <1>2, <1>3, <1>4
<1>6. q.pid \in Participants /\ "superseded" \in Outcome
  BY DEF Question, Outcome
<1>7. Len(questions) <= Len(questions')
  BY <1>2, <1>3
<1> QED BY <1>1, <1>2, <1>4, <1>5, <1>6, <1>7, CancelKeepsTable

LEMMA LeftKeepsTable ==
  ASSUME AskTypes, TableNames, NEW p \in Participants, CancelPid(p, "left", 0), UNCHANGED questions
  PROVE  /\ pc' \in [Asks -> Steps] /\ outcome' \in [Asks -> Outcome]
         /\ inflight' \in [Participants -> 0 .. MaxAsks] /\ TableNames'
<1>1. "left" \in Outcome /\ questions \in Seq(Question) /\ Len(questions) <= MaxAsks /\ Len(questions) \in Nat
  BY AskNumbers DEF Outcome, AskTypes
<1> QED BY <1>1, CancelKeepsTable

\* A task waits on or gives up.
LEMMA WaitOnTable ==
  ASSUME AskTypes, TableNames, NEW a \in DOMAIN questions, pc[a] \in {"waiting", "timedout"},
         WaitOn(a), UNCHANGED questions
  PROVE  /\ pc' \in [Asks -> Steps] /\ outcome' \in [Asks -> Outcome]
         /\ inflight' \in [Participants -> 0 .. MaxAsks] /\ TableNames'
         /\ event' = [event EXCEPT ![questions[a].pid] = "clear"]
<1>1. CASE left[a].deadline = 0
  BY <1>1, FinishKeepsTable DEF WaitOn, Outcome
<1>2. CASE left[a].deadline # 0
  <2>1. Moves(a, "waiting") /\ UNCHANGED outcome
    BY <1>2 DEF WaitOn, Moves, AtWork, Steps
  <2>2. pc' \in [Asks -> Steps] /\ TableNames'
    BY <2>1, MoveKeepsTable
  <2> QED BY <1>2, <2>1, <2>2 DEF WaitOn, Wait, Moves, AskTypes
<1> QED BY <1>1, <1>2

LEMMA TaskKeepsTable ==
  ASSUME AskTypes, TableNames, NEW a \in DOMAIN questions, TaskStep(a) \/ Token(a)
  PROVE  AskTypes' /\ TableNames'
<1>1. a \in Asks /\ questions[a].pid \in Participants
  BY AskNumbers
<1> DEFINE Table == /\ pc' \in [Asks -> Steps] /\ outcome' \in [Asks -> Outcome]
                    /\ inflight' \in [Participants -> 0 .. MaxAsks] /\ TableNames'
<1>2. UNCHANGED << latest, questions >>
  BY DEF TaskStep, Start, Wake, TimerFires, TimedOut, Acquired, StreamEnds, StreamFails, Resume,
         Perceived, Close, Token, camera
<1>3. ASSUME NEW to \in Steps \ {"none"}, Moves(a, to), UNCHANGED outcome PROVE Table
  <2>1. pc' \in [Asks -> Steps] /\ TableNames'
    BY <1>3, MoveKeepsTable
  <2> QED BY <1>3, <2>1 DEF Moves, AskTypes
<1>4. ASSUME NEW how \in Outcome, pc[a] # "none", Finish(a, how) PROVE Table
  BY <1>2, <1>4, FinishKeepsTable
<1>5. /\ {"new", "waiting", "timedout", "fetching", "done"} \union Working \subseteq Steps \ {"none"}
      /\ {"answered", "no frame", "failed", "raised"} \subseteq Outcome
  BY DEF Steps, Outcome, Working
<1>6. CASE Start(a)
  <2>1. PICK to \in {"fetching", "waiting"} : pc[a] = "new" /\ pc' = [pc EXCEPT ![a] = to]
    BY <1>6 DEF Start, At
  <2>2. Moves(a, to) /\ UNCHANGED outcome
    BY <1>5, <1>6, <2>1 DEF Moves, AtWork, Start, Working
  <2>3. event' \in [Participants -> {"absent", "clear", "set"}]
    BY <1>1, <1>6 DEF Start, Wait, AskTypes
  <2> QED BY <1>2, <1>3, <1>5, <2>2, <2>3 DEF AskTypes
<1>7. ASSUME pc[a] \in {"waiting", "timedout"}, WaitOn(a) PROVE AskTypes' /\ TableNames'
  <2>1. Table /\ event' = [event EXCEPT ![questions[a].pid] = "clear"]
    BY <1>2, <1>7, WaitOnTable
  <2> QED BY <1>1, <1>2, <2>1 DEF AskTypes
<1>8. CASE Wake(a)
  <2>1. CASE WaitOn(a)
    BY <1>7, <1>8, <2>1 DEF Wake
  <2>2. CASE ~ WaitOn(a)
    <3>1. Moves(a, "fetching") /\ UNCHANGED << outcome, event >>
      BY <1>5, <1>8, <2>2 DEF Wake, At, Moves, AtWork
    <3> QED BY <1>2, <1>3, <1>5, <3>1 DEF AskTypes
  <2> QED BY <2>1, <2>2
<1>9. CASE TimerFires(a)
  <2>1. Moves(a, "timedout") /\ UNCHANGED << outcome, event >>
    BY <1>5, <1>9 DEF TimerFires, At, Moves, AtWork, camera
  <2> QED BY <1>2, <1>3, <1>5, <2>1 DEF AskTypes
<1>10. CASE TimedOut(a)
  BY <1>7, <1>10 DEF TimedOut
<1>11. ASSUME UNCHANGED event, Table PROVE AskTypes' /\ TableNames'
  BY <1>2, <1>11 DEF AskTypes
<1>12. CASE Acquired(a)
  <2>1. UNCHANGED event
    BY <1>12 DEF Acquired, camera
  <2>2. CASE At(a, "fetching", "streaming") /\ UNCHANGED << outcome, inflight >>
    BY <1>2, <1>3, <1>5, <1>11, <2>1, <2>2 DEF At, Moves, AtWork, Working
  <2>3. CASE pc[a] = "fetching" /\ (Finish(a, "failed") \/ Finish(a, "raised"))
    BY <1>4, <1>5, <1>11, <2>1, <2>3
  <2> QED BY <1>12, <2>2, <2>3 DEF Acquired
<1>13. CASE StreamEnds(a)
  BY <1>4, <1>5, <1>11, <1>13 DEF StreamEnds, camera
<1>14. CASE StreamFails(a) \/ Token(a)
  <2>1. PICK to \in {"failed", "yielded"} : At(a, "streaming", to)
    BY <1>14 DEF StreamFails, Token
  <2>2. Moves(a, to) /\ UNCHANGED << outcome, event >>
    BY <1>2, <1>5, <1>14, <2>1 DEF StreamFails, Token, At, Moves, AtWork, Working, camera
  <2> QED BY <1>3, <1>5, <1>11, <2>2 DEF Working
<1>15. CASE Resume(a)
  <2>1. UNCHANGED event
    BY <1>15 DEF Resume, camera
  <2>2. CASE At(a, "yielded", "streaming") /\ UNCHANGED << outcome, inflight >>
    BY <1>2, <1>3, <1>5, <1>11, <2>1, <2>2 DEF At, Moves, AtWork, Working
  <2>3. CASE pc[a] = "failed" /\ Finish(a, "failed")
    BY <1>4, <1>5, <1>11, <2>1, <2>3
  <2> QED BY <1>15, <2>2, <2>3 DEF Resume
<1>16. CASE Perceived(a)
  <2>1. PICK how \in {"answered", "failed"} : Finish(a, how)
    BY <1>16 DEF Perceived
  <2> QED BY <1>4, <1>5, <1>11, <1>16, <2>1 DEF Perceived, camera
<1>17. CASE Close(a)
  <2>1. Moves(a, "done") /\ UNCHANGED << outcome, event >>
    BY <1>5, <1>17 DEF Close, At, Moves, camera
  <2> QED BY <1>3, <1>5, <1>11, <2>1
<1> QED BY <1>6, <1>8, <1>9, <1>10, <1>12, <1>13, <1>14, <1>15, <1>16, <1>17 DEF TaskStep

LEMMA VisionKeepsTable ==
  ASSUME TableInv, [VisionNext]_visionVars
  PROVE  TableInv'
<1> USE DEF TableInv
<1>1. ASSUME AskTypes', TableNames', UNCHANGED room PROVE TableInv'
  BY <1>1 DEF RoomTypes, room
<1>2. ASSUME NEW a \in DOMAIN questions, TaskStep(a) \/ Token(a) PROVE TableInv'
  <2>1. UNCHANGED room
    BY <1>2 DEF TaskStep, Start, Wake, TimerFires, TimedOut, Acquired, StreamEnds, StreamFails, Resume,
         Perceived, Close, Token, camera
  <2> QED BY <1>1, <1>2, <2>1, TaskKeepsTable
<1>3. CASE Tick
  <2>1. \A k \in Participants \X Tracks : Min({Stale, latest[k] + 1}) \in Nat
    <3> TAKE k \in Participants \X Tracks
    <3>1. Stale \in Nat /\ latest[k] + 1 \in Nat
      BY VisionAssumption DEF AskTypes, Stale
    <3>2. \E x \in {Stale, latest[k] + 1} : \A y \in {Stale, latest[k] + 1} : x <= y
      BY <3>1
    <3>3. Min({Stale, latest[k] + 1}) \in {Stale, latest[k] + 1}
      BY <3>2 DEF Min
    <3> QED BY <3>1, <3>3
  <2>2. latest' \in [Participants \X Tracks -> Nat]
    BY <1>3, <2>1 DEF Tick, AskTypes
  <2> QED BY <1>1, <1>3, <2>2 DEF Tick, AskTypes, TableNames, AtWork
<1>4. ASSUME NEW p \in Participants, NEW t \in Tracks, Signal(p, t) PROVE TableInv'
  <2>1. PICK age \in Lags : OnFrame(p, t, age)
    BY <1>4 DEF Signal
  <2>2. age \in Nat
    BY VisionAssumption
  <2>3. latest' \in [Participants \X Tracks -> Nat] /\ event' \in [Participants -> {"absent", "clear", "set"}]
    BY <2>1, <2>2 DEF OnFrame, AskTypes
  <2> QED BY <1>1, <1>4, <2>3 DEF Signal, AskTypes, TableNames, AtWork
<1>5. ASSUME NEW p \in Participants, TypeQuestion(p) PROVE TableInv'
  <2>1. QuestionOf(p, TRUE) \in Question
    BY <1>5, VisionAssumption DEF TypeQuestion, QuestionOf, Question, RoomTypes
  <2> QED BY <1>1, <1>5, <2>1, SpawnKeepsTable DEF TypeQuestion, camera, AskTypes
<1>6. ASSUME NEW p \in Participants, NEW f \in News, queue' = Append(queue, f),
             present' \subseteq present, UNCHANGED << camera, tasks, session >>
      PROVE  TableInv'
  <2>1. queue' \in Seq(News)
    BY <1>6 DEF RoomTypes
  <2> QED BY <1>6, <2>1 DEF RoomTypes, AskTypes, TableNames, AtWork, camera, tasks
<1>7. ASSUME NEW p \in Participants, SpeakQuestion(p) PROVE TableInv'
  <2>1. [type |-> "query", question |-> QuestionOf(p, FALSE)] \in News
    BY <1>7, VisionAssumption DEF SpeakQuestion, QuestionOf, Question, RoomTypes, News
  <2> QED BY <1>6, <1>7, <2>1 DEF SpeakQuestion
<1>8. ASSUME NEW p \in Participants, Leave(p) PROVE TableInv'
  <2>1. [type |-> "left", pid |-> p, session |-> session[p]] \in News
    BY <1>8, VisionAssumption DEF Leave, RoomTypes, News
  <2> QED BY <1>6, <1>8, <2>1 DEF Leave
<1>9. ASSUME NEW p \in Participants, Join(p) PROVE TableInv'
  <2>1. RoomTypes'
    BY <1>9, VisionAssumption DEF Join, RoomTypes
  <2> QED BY <1>9, <2>1 DEF Join, AskTypes, TableNames, AtWork, camera, tasks
<1>10. CASE BrainTakes
  <2>1. queue \in Seq(News) /\ queue # << >>
    BY <1>10 DEF BrainTakes, RoomTypes
  <2>2. Head(queue) \in News /\ Tail(queue) \in Seq(News)
    BY <2>1
  <2>3. RoomTypes'
    BY <1>10, <2>2 DEF BrainTakes, RoomTypes
  <2>4. CASE Head(queue).type = "query" /\ SpawnQuery(Head(queue).question) /\ UNCHANGED camera
    <3>1. Head(queue).question \in Question
      BY <2>2, <2>4 DEF News
    <3> QED BY <2>3, <2>4, <3>1, SpawnKeepsTable DEF AskTypes, camera
  <2>5. CASE /\ Head(queue).type = "left" /\ Release(Head(queue).pid)
             /\ CancelPid(Head(queue).pid, "left", 0) /\ UNCHANGED << questions, heard >>
    <3>1. Head(queue).pid \in Participants
      BY <2>2, <2>5 DEF News
    <3>2. latest' \in [Participants \X Tracks -> Nat] /\ event' \in [Participants -> {"absent", "clear", "set"}]
      BY <2>5, VisionAssumption DEF Release, AskTypes, Stale
    <3> QED BY <2>3, <2>5, <3>1, <3>2, LeftKeepsTable DEF AskTypes
  <2> QED BY <1>10, <2>4, <2>5 DEF BrainTakes
<1>11. CASE UNCHANGED visionVars
  BY <1>11 DEF visionVars, camera, tasks, room, AskTypes, RoomTypes, TableNames, AtWork
<1> QED BY <1>2, <1>3, <1>4, <1>5, <1>7, <1>8, <1>9, <1>10, <1>11 DEF VisionNext, RoomStep

THEOREM TableKept == VisionSpec => []TableInv
<1>1. TableInv /\ [VisionNext]_visionVars => TableInv'
  BY VisionKeepsTable
<1> QED BY <1>1, VisionStarts, PTL DEF VisionSpec

-----------------------------------------------------------------------------
(* Departures.                                                             *)

PidOf(f) == IF f.type = "query" THEN f.question.pid ELSE f.pid
SessionOf(f) == IF f.type = "query" THEN f.question.session ELSE f.session

\* The queue to the brain is in the order of each participant's sessions, and
\* spoken questions came out of it.
SessionsInOrder ==
  /\ \A i \in 1 .. Len(queue) : SessionOf(queue[i]) <= session[PidOf(queue[i])]
  /\ \A i, j \in 1 .. Len(queue) :
       i < j /\ PidOf(queue[i]) = PidOf(queue[j]) => SessionOf(queue[i]) <= SessionOf(queue[j])
  /\ \A a \in 1 .. Len(questions) : ~ questions[a].typed =>
       /\ questions[a].session <= session[questions[a].pid]
       /\ \A i \in 1 .. Len(queue) :
            PidOf(queue[i]) = questions[a].pid => questions[a].session <= SessionOf(queue[i])

OwnInv == SessionsInOrder /\ robbed \subseteq 1 .. Len(questions) /\ LeaveCancelsOwn

LEMMA NewsTypes ==
  ASSUME NEW f \in News
  PROVE  PidOf(f) \in Participants /\ SessionOf(f) \in Nat
  BY VisionAssumption DEF News, PidOf, SessionOf, Question

LEMMA QueueNumbers ==
  ASSUME RoomTypes
  PROVE  /\ Len(queue) \in Nat /\ \A i \in 1 .. Len(queue) : queue[i] \in News
         /\ \A p \in Participants : session[p] \in Nat
  BY VisionAssumption DEF RoomTypes

LEMMA QueueGrows ==
  ASSUME TableInv, SessionsInOrder, NEW f \in News, queue' = Append(queue, f),
         SessionOf(f) = session[PidOf(f)], UNCHANGED << session, questions >>
  PROVE  SessionsInOrder'
<1>1. /\ Len(queue') = Len(queue) + 1 /\ queue'[Len(queue) + 1] = f /\ Len(queue) \in Nat
      /\ \A i \in 1 .. Len(queue) : queue'[i] = queue[i]
  BY DEF TableInv, RoomTypes
<1>2. /\ \A i \in 1 .. Len(queue) : PidOf(queue[i]) \in Participants /\ SessionOf(queue[i]) \in Nat
      /\ SessionOf(f) \in Nat
  BY NewsTypes, QueueNumbers DEF TableInv
<1> DEFINE Old(i) == i \in 1 .. Len(queue)
<1>3. \A i \in 1 .. Len(queue') : Old(i) \/ i = Len(queue) + 1
  BY <1>1
<1>4. \A i \in 1 .. Len(queue') : SessionOf(queue'[i]) <= session[PidOf(queue'[i])]
  BY <1>1, <1>2, <1>3 DEF SessionsInOrder
<1>5. \A i, j \in 1 .. Len(queue') :
        i < j /\ PidOf(queue'[i]) = PidOf(queue'[j]) => SessionOf(queue'[i]) <= SessionOf(queue'[j])
  <2> SUFFICES ASSUME NEW i \in 1 .. Len(queue'), NEW j \in 1 .. Len(queue'),
                      i < j, PidOf(queue'[i]) = PidOf(queue'[j])
               PROVE  SessionOf(queue'[i]) <= SessionOf(queue'[j])
    OBVIOUS
  <2>1. CASE Old(j)
    BY <1>1, <1>3, <2>1 DEF SessionsInOrder
  <2>2. CASE j = Len(queue) + 1
    BY <1>1, <1>3, <2>2 DEF SessionsInOrder
  <2> QED BY <1>3, <2>1, <2>2
<1>6. \A a \in 1 .. Len(questions) : ~ questions[a].typed =>
        \A i \in 1 .. Len(queue') :
            PidOf(queue'[i]) = questions[a].pid => questions[a].session <= SessionOf(queue'[i])
  BY <1>1, <1>3 DEF SessionsInOrder
<1> QED BY <1>4, <1>5, <1>6 DEF SessionsInOrder

\* The head of the queue is taken; if it is a question, it may be the new one.
LEMMA QueueShrinks ==
  ASSUME TableInv, SessionsInOrder, queue # << >>, queue' = Tail(queue), UNCHANGED session,
         \/ questions' = questions
         \/ /\ Head(queue).type = "query" /\ Len(questions) < MaxAsks
            /\ questions' = Append(questions, Head(queue).question)
  PROVE  SessionsInOrder'
<1>1. /\ Len(queue') = Len(queue) - 1 /\ Len(queue) \in Nat /\ Head(queue) = queue[1] /\ Len(queue) >= 1
      /\ \A i \in 1 .. Len(queue') : queue'[i] = queue[i + 1] /\ i + 1 \in 1 .. Len(queue)
  BY DEF TableInv, RoomTypes
<1>2. \A i \in 1 .. Len(queue') : SessionOf(queue'[i]) <= session[PidOf(queue'[i])]
  BY <1>1 DEF SessionsInOrder
<1>3. \A i, j \in 1 .. Len(queue') :
        i < j /\ PidOf(queue'[i]) = PidOf(queue'[j]) => SessionOf(queue'[i]) <= SessionOf(queue'[j])
  <2> SUFFICES ASSUME NEW i \in 1 .. Len(queue'), NEW j \in 1 .. Len(queue'),
                      i < j, PidOf(queue'[i]) = PidOf(queue'[j])
               PROVE  SessionOf(queue'[i]) <= SessionOf(queue'[j])
    OBVIOUS
  <2>1. i + 1 < j + 1 /\ queue'[i] = queue[i + 1] /\ queue'[j] = queue[j + 1]
        /\ i + 1 \in 1 .. Len(queue) /\ j + 1 \in 1 .. Len(queue)
    BY <1>1
  <2> QED BY <2>1 DEF SessionsInOrder
<1>4. ASSUME NEW a \in 1 .. Len(questions), ~ questions[a].typed
      PROVE  /\ questions[a].session <= session[questions[a].pid]
             /\ \A i \in 1 .. Len(queue') :
                  PidOf(queue'[i]) = questions[a].pid => questions[a].session <= SessionOf(queue'[i])
  BY <1>1, <1>4 DEF SessionsInOrder
<1>5. CASE questions' = questions
  BY <1>2, <1>3, <1>4, <1>5 DEF SessionsInOrder
<1>6. CASE /\ Head(queue).type = "query" /\ Len(questions) < MaxAsks
           /\ questions' = Append(questions, Head(queue).question)
  <2>1. PICK q : q = Head(queue).question
    OBVIOUS
  <2>2. /\ q \in Question /\ PidOf(queue[1]) = q.pid /\ SessionOf(queue[1]) = q.session
        /\ 1 \in 1 .. Len(queue)
    BY <1>1, <1>6, <2>1, QueueNumbers DEF TableInv, News, PidOf, SessionOf
  <2>3. /\ Len(questions') = Len(questions) + 1 /\ questions'[Len(questions) + 1] = q
        /\ \A a \in 1 .. Len(questions) : questions'[a] = questions[a]
    BY <1>6, <2>1, <2>2, Asked DEF TableInv
  <2>4. /\ q.session <= session[q.pid]
        /\ \A i \in 1 .. Len(queue') : PidOf(queue'[i]) = q.pid => q.session <= SessionOf(queue'[i])
    <3>1. q.session <= session[q.pid]
      BY <2>2 DEF SessionsInOrder
    <3>2. ASSUME NEW i \in 1 .. Len(queue'), PidOf(queue'[i]) = q.pid PROVE q.session <= SessionOf(queue'[i])
      <4>1. 1 < i + 1
        BY <1>1
      <4> QED BY <1>1, <2>2, <3>2, <4>1 DEF SessionsInOrder
    <3> QED BY <3>1, <3>2
  <2>5. \A a \in 1 .. Len(questions') : a \in 1 .. Len(questions) \/ a = Len(questions) + 1
    BY <2>3, AskNumbers DEF TableInv
  <2>6. ASSUME NEW a \in 1 .. Len(questions'), ~ questions'[a].typed
        PROVE  /\ questions'[a].session <= session[questions'[a].pid]
               /\ \A i \in 1 .. Len(queue') :
                    PidOf(queue'[i]) = questions'[a].pid => questions'[a].session <= SessionOf(queue'[i])
    <3>1. CASE a \in 1 .. Len(questions)
      BY <1>4, <2>3, <2>6, <3>1
    <3>2. CASE a = Len(questions) + 1
      BY <2>3, <2>4, <3>2
    <3> QED BY <2>5, <3>1, <3>2
  <2> QED BY <1>2, <1>3, <2>6 DEF SessionsInOrder
<1> QED BY <1>5, <1>6

\* A question of another kind does not disturb the order.
LEMMA TypedInOrder ==
  ASSUME TableInv, SessionsInOrder, NEW q \in Question, q.typed, Len(questions) < MaxAsks,
         questions' = Append(questions, q), UNCHANGED << queue, session >>
  PROVE  SessionsInOrder'
<1>1. /\ Len(questions') = Len(questions) + 1 /\ questions'[Len(questions) + 1] = q
      /\ \A a \in 1 .. Len(questions) : questions'[a] = questions[a]
  BY Asked DEF TableInv
<1>2. \A a \in 1 .. Len(questions') : a \in 1 .. Len(questions) \/ a = Len(questions) + 1
  BY <1>1, AskNumbers DEF TableInv
<1>3. ASSUME NEW a \in 1 .. Len(questions'), ~ questions'[a].typed
      PROVE  a \in 1 .. Len(questions) /\ questions'[a] = questions[a]
  BY <1>1, <1>2, <1>3
<1> QED BY <1>3 DEF SessionsInOrder

LEMMA SpawnRobsNobody ==
  ASSUME TableInv, OwnInv, NEW q \in Question, SpawnQuery(q)
  PROVE  robbed' \subseteq 1 .. Len(questions') /\ LeaveCancelsOwn'
<1>1. /\ questions' = Append(questions, q) /\ Len(questions) < MaxAsks /\ robbed' = robbed
  BY DEF SpawnQuery, CancelPid
<1>2. /\ Len(questions') = Len(questions) + 1 /\ Len(questions) \in Nat
      /\ \A a \in 1 .. Len(questions) : questions'[a] = questions[a] /\ a \in 1 .. Len(questions')
  BY <1>1, Asked, AskNumbers DEF TableInv
<1> QED BY <1>1, <1>2, AskNumbers DEF OwnInv, LeaveCancelsOwn, TableInv

LEMMA OwnSteps ==
  ASSUME TableInv, OwnInv, [VisionNext]_visionVars
  PROVE  OwnInv'
<1>1. ASSUME UNCHANGED << robbed, questions >>, SessionsInOrder' PROVE OwnInv'
  BY <1>1 DEF OwnInv, LeaveCancelsOwn
<1>2. ASSUME UNCHANGED << queue, session, questions >> PROVE SessionsInOrder'
  BY <1>2 DEF OwnInv, SessionsInOrder
<1>3. ASSUME NEW a \in DOMAIN questions, TaskStep(a) \/ Token(a) PROVE OwnInv'
  <2>1. UNCHANGED << queue, session, questions, robbed >>
    BY <1>3 DEF TaskStep, Start, Wake, TimerFires, TimedOut, Acquired, StreamEnds, StreamFails, Resume,
         Perceived, Close, Token, room
  <2> QED BY <1>1, <1>2, <2>1
<1>4. CASE Tick
  BY <1>1, <1>2, <1>4 DEF Tick, room
<1>5. ASSUME NEW p \in Participants, NEW t \in Tracks, Signal(p, t) PROVE OwnInv'
  BY <1>1, <1>2, <1>5 DEF Signal, room
<1>6. ASSUME NEW p \in Participants, TypeQuestion(p) PROVE OwnInv'
  <2>1. PICK q : q = QuestionOf(p, TRUE)
    OBVIOUS
  <2>2. q \in Question /\ q.typed
    BY <1>6, <2>1, VisionAssumption DEF TypeQuestion, QuestionOf, Question, RoomTypes, TableInv
  <2>3. SpawnQuery(q) /\ UNCHANGED << queue, session >>
    BY <1>6, <2>1 DEF TypeQuestion, room
  <2>4. Len(questions) < MaxAsks /\ questions' = Append(questions, q)
    BY <2>3 DEF SpawnQuery
  <2>5. SessionsInOrder'
    BY <2>2, <2>3, <2>4, TypedInOrder DEF OwnInv
  <2> QED BY <2>2, <2>3, <2>5, SpawnRobsNobody DEF OwnInv
<1>7. ASSUME NEW p \in Participants, SpeakQuestion(p) PROVE OwnInv'
  <2>1. PICK f : f = [type |-> "query", question |-> QuestionOf(p, FALSE)]
    OBVIOUS
  <2>2. f \in News
    BY <1>7, <2>1, VisionAssumption DEF SpeakQuestion, QuestionOf, Question, RoomTypes, News, TableInv
  <2>3. SessionOf(f) = session[PidOf(f)]
    BY <2>1 DEF SessionOf, PidOf, QuestionOf
  <2>4. queue' = Append(queue, f) /\ UNCHANGED << session, questions, robbed >>
    BY <1>7, <2>1 DEF SpeakQuestion, tasks
  <2> QED BY <1>1, <2>2, <2>3, <2>4, QueueGrows DEF OwnInv
<1>8. ASSUME NEW p \in Participants, Leave(p) PROVE OwnInv'
  <2>1. PICK f : f = [type |-> "left", pid |-> p, session |-> session[p]]
    OBVIOUS
  <2>2. f \in News
    BY <1>8, <2>1, VisionAssumption DEF Leave, RoomTypes, News, TableInv
  <2>3. SessionOf(f) = session[PidOf(f)]
    BY <2>1 DEF SessionOf, PidOf
  <2>4. queue' = Append(queue, f) /\ UNCHANGED << session, questions, robbed >>
    BY <1>8, <2>1 DEF Leave, tasks
  <2> QED BY <1>1, <2>2, <2>3, <2>4, QueueGrows DEF OwnInv
<1>9. ASSUME NEW p \in Participants, Join(p) PROVE OwnInv'
  <2>1. session' = [session EXCEPT ![p] = @ + 1] /\ UNCHANGED << queue, questions, robbed >>
    BY <1>9 DEF Join, tasks
  <2>2. \A x \in Participants : session[x] \in Nat /\ session'[x] \in Nat /\ session[x] <= session'[x]
    BY <2>1, VisionAssumption DEF TableInv, RoomTypes
  <2>3. \A i \in 1 .. Len(queue) : PidOf(queue[i]) \in Participants /\ SessionOf(queue[i]) \in Nat
    BY NewsTypes, QueueNumbers DEF TableInv
  <2>4. \A i \in 1 .. Len(queue) : SessionOf(queue[i]) <= session'[PidOf(queue[i])]
    BY <2>2, <2>3 DEF OwnInv, SessionsInOrder
  <2>5. ASSUME NEW a \in 1 .. Len(questions), ~ questions[a].typed
        PROVE  questions[a].session <= session'[questions[a].pid]
    <3>1. questions[a].pid \in Participants /\ questions[a].session \in Nat
      BY AskNumbers, VisionAssumption DEF TableInv, Question
    <3>2. questions[a].session <= session[questions[a].pid]
      BY <2>5 DEF OwnInv, SessionsInOrder
    <3> QED BY <2>2, <3>1, <3>2
  <2>6. SessionsInOrder'
    BY <2>1, <2>4, <2>5 DEF OwnInv, SessionsInOrder
  <2> QED BY <1>1, <2>1, <2>6
<1>10. CASE BrainTakes
  <2>1. queue # << >> /\ queue' = Tail(queue) /\ UNCHANGED session
    BY <1>10 DEF BrainTakes
  <2>2. queue \in Seq(News) /\ Head(queue) \in News /\ Head(queue) = queue[1] /\ 1 \in 1 .. Len(queue)
    BY <2>1 DEF TableInv, RoomTypes
  <2>3. CASE Head(queue).type = "query" /\ SpawnQuery(Head(queue).question)
    <3>1. Head(queue).question \in Question
      BY <2>2, <2>3 DEF News
    <3>2. Len(questions) < MaxAsks /\ questions' = Append(questions, Head(queue).question)
      BY <2>3 DEF SpawnQuery
    <3>3. SessionsInOrder'
      BY <2>1, <2>3, <3>2, QueueShrinks DEF OwnInv
    <3> QED BY <2>3, <3>1, <3>3, SpawnRobsNobody DEF OwnInv
  <2>4. CASE /\ Head(queue).type = "left" /\ CancelPid(Head(queue).pid, "left", 0)
             /\ UNCHANGED questions
    <3>1. SessionsInOrder'
      BY <2>1, <2>4, QueueShrinks DEF OwnInv
    <3>2. /\ PidOf(queue[1]) = Head(queue).pid /\ SessionOf(queue[1]) = Head(queue).session
          /\ SessionOf(queue[1]) \in Nat /\ Head(queue).pid \in Participants
      BY <2>2, <2>4, NewsTypes DEF PidOf, SessionOf, News
    <3>3. DOMAIN questions = 1 .. Len(questions)
          /\ \A a \in DOMAIN questions : questions[a].session \in Nat
      BY AskNumbers, VisionAssumption DEF TableInv, Question
    <3>4. ASSUME NEW a \in robbed', a \notin robbed
          PROVE  a \in DOMAIN questions /\ questions[a].typed
      <4>1. /\ a \in DOMAIN questions /\ a = inflight[Head(queue).pid] /\ a # 0
            /\ Head(queue).session < questions[a].session
        BY <2>4, <3>4 DEF CancelPid
      <4>2. questions[a].pid = Head(queue).pid
        BY <3>2, <4>1 DEF TableInv, TableNames
      <4>3. ~ questions[a].typed => questions[a].session <= SessionOf(queue[1])
        BY <2>2, <3>2, <3>3, <4>1, <4>2 DEF OwnInv, SessionsInOrder
      <4> QED BY <3>2, <3>3, <4>1, <4>3
    <3> QED BY <2>4, <3>1, <3>3, <3>4 DEF OwnInv, LeaveCancelsOwn
  <2> QED BY <1>10, <2>3, <2>4 DEF BrainTakes
<1>11. CASE UNCHANGED visionVars
  BY <1>1, <1>2, <1>11 DEF visionVars, tasks, room
<1> QED BY <1>3, <1>4, <1>5, <1>6, <1>7, <1>8, <1>9, <1>10, <1>11 DEF VisionNext, RoomStep

\* The news that a participant left cancels no spoken question of a session that
\* followed: the brain takes both from one queue.
THEOREM DeparturesCancelOwn == VisionSpec => []LeaveCancelsOwn
<1>1. VisionInit => OwnInv
  BY DEF VisionInit, OwnInv, SessionsInOrder, LeaveCancelsOwn
<1>2. TableInv /\ OwnInv /\ [VisionNext]_visionVars => OwnInv'
  BY OwnSteps
<1>3. OwnInv => LeaveCancelsOwn
  BY DEF OwnInv
<1> QED BY <1>1, <1>2, <1>3, TableKept, PTL DEF VisionSpec

-----------------------------------------------------------------------------
(* No camera frame.                                                        *)

\* A fresh signal that reached a waiting question before its timer was due is still
\* there, and the event set, when the question's task looks: nothing but that task, or
\* its end, takes them away, and no time passes before it looks.
Told(a) ==
  /\ pc[a] \notin {"none", "new", "timedout"} /\ outcome[a] # "no frame"
  /\ pc[a] = "waiting" =>
       /\ event[questions[a].pid] = "set" /\ left[a].slice > 0
       /\ \E t \in Tracks : latest[<< questions[a].pid, t >>] < FrameMaxAge

ToldInv ==
  /\ heard \subseteq 1 .. Len(questions) /\ DOMAIN left = Asks
  /\ \A a \in heard : Told(a)
  /\ \A a \in Asks : outcome[a] = "no frame" => pc[a] = "done"
  /\ \A a \in Asks : pc[a] = "waiting" => event[questions[a].pid] # "absent"

\* A set of numbers has a least one where it has any.
LEMMA LeastNumber ==
  ASSUME NEW S \in SUBSET Nat, NEW n \in S
  PROVE  Min(S) \in S /\ \A m \in S : Min(S) <= m
<1> DEFINE Less == OpToRel(<, Nat)
<1>1. IsWellFoundedOn(Less, Nat)
  BY NatLessThanWellFounded
<1>2. \A x, y \in Nat : y < x => << y, x >> \in Less
  BY DEF OpToRel
<1> HIDE DEF Less
<1>3. PICK x \in S : \A y \in S : << y, x >> \notin Less
  BY <1>1, WFMin
<1>4. ASSUME NEW y \in S PROVE x <= y
  <2>1. x \in Nat /\ y \in Nat
    OBVIOUS
  <2>2. ~ (y < x)
    BY <1>2, <1>3, <2>1
  <2> QED BY <2>1, <2>2
<1> QED BY <1>4 DEF Min

\* One fresh track is enough: _latest_signal takes the newest of all.
LEMMA OneTrackIsEnough ==
  ASSUME AskTypes, NEW p \in Participants, NEW t \in Tracks, latest[<< p, t >>] < FrameMaxAge
  PROVE  HasFresh(p)
<1> DEFINE S == {latest[k] : k \in Of(p)}
<1>1. DOMAIN latest = Participants \X Tracks /\ << p, t >> \in Of(p)
  BY DEF AskTypes, Of
<1>2. S \in SUBSET Nat /\ latest[<< p, t >>] \in S
  BY <1>1 DEF AskTypes, Of
<1>3. Min(S) \in Nat /\ Min(S) <= latest[<< p, t >>]
  <2> HIDE DEF S
  <2> QED BY <1>2, LeastNumber
<1>4. latest[<< p, t >>] \in Nat /\ FrameMaxAge \in Nat
  BY <1>2, VisionAssumption
<1> QED BY <1>3, <1>4 DEF HasFresh, LatestSignal, Fresh

\* What a task's step may do: it touches its own participant's event while it is at
\* work, and a question that was told goes on.
Listens(a) ==
  /\ \A b \in Asks \ {a} : pc'[b] = pc[b] /\ outcome'[b] = outcome[b] /\ left'[b] = left[b]
  /\ UNCHANGED << latest, questions, heard >> /\ DOMAIN left' = Asks
  /\ event' = event \/ (AtWork(a) /\ event' = [event EXCEPT ![questions[a].pid] = "clear"])
  /\ a \in heard => pc'[a] \notin {"none", "new", "timedout", "waiting"} /\ outcome'[a] # "no frame"
  /\ outcome'[a] = "no frame" => pc'[a] = "done"
  /\ pc'[a] = "waiting" => event'[questions[a].pid] # "absent"

LEMMA ListeningKeeps ==
  ASSUME TableInv, ToldInv, NEW a \in DOMAIN questions, Listens(a)
  PROVE  ToldInv'
<1>1. /\ a \in Asks /\ 1 .. Len(questions) = DOMAIN questions /\ DOMAIN questions \subseteq Asks
      /\ \A b \in DOMAIN questions : questions[b].pid \in Participants
  BY AskNumbers DEF TableInv
<1>2. ASSUME NEW b \in Asks, b # a, pc[b] = "waiting"
      PROVE  event'[questions[b].pid] = event[questions[b].pid]
  <2>1. AtWork(b) /\ b \in DOMAIN questions
    BY <1>1, <1>2 DEF AtWork, TableInv, TableNames, Asks
  <2>2. AtWork(a) => questions[b].pid # questions[a].pid
    BY <1>1, <1>2, <2>1 DEF TableInv, TableNames
  <2> QED BY <1>1, <2>1, <2>2 DEF Listens, TableInv, AskTypes
<1>3. ASSUME NEW b \in heard PROVE Told(b)'
  <2>1. CASE b = a
    BY <2>1, <1>3 DEF Listens, Told
  <2>2. CASE b # a
    <3>1. b \in Asks /\ Told(b)
      BY <1>1, <1>3 DEF ToldInv
    <3> QED BY <1>2, <2>2, <3>1 DEF Listens, Told
  <2> QED BY <2>1, <2>2
<1>4. \A b \in Asks : outcome'[b] = "no frame" => pc'[b] = "done"
  BY DEF Listens, ToldInv
<1>5. ASSUME NEW b \in Asks, pc'[b] = "waiting" PROVE event'[questions[b].pid] # "absent"
  BY ZenonT(40), <1>2, <1>5 DEF Listens, ToldInv
<1> QED BY <1>3, <1>4, <1>5 DEF Listens, ToldInv

LEMMA TaskListens ==
  ASSUME TableInv, ToldInv, NEW a \in DOMAIN questions, TaskStep(a) \/ Token(a)
  PROVE  Listens(a)
<1> DEFINE p == questions[a].pid
<1>1. a \in Asks /\ p \in Participants
  BY AskNumbers DEF TableInv
<1>2. pc \in [Asks -> Steps] /\ outcome \in [Asks -> Outcome] /\ event \in [Participants -> {"absent", "clear", "set"}]
  BY DEF TableInv, AskTypes
<1>19. DOMAIN left' = Asks /\ \A b \in Asks \ {a} : left'[b] = left[b]
  <2>1. left' = left \/ \E v : left' = [left EXCEPT ![a] = v]
    <3>1. CASE Start(a)
      BY <3>1 DEF Start, Wait
    <3>2. CASE Wake(a)
      BY <3>2 DEF Wake, WaitOn, Wait, EndWait
    <3>3. CASE TimedOut(a)
      BY <3>3 DEF TimedOut, WaitOn, Wait, EndWait
    <3>4. CASE TimerFires(a) \/ Acquired(a) \/ StreamEnds(a) \/ StreamFails(a) \/ Resume(a)
               \/ Perceived(a) \/ Close(a) \/ Token(a)
      BY <3>4 DEF TimerFires, Acquired, StreamEnds, StreamFails, Resume, Perceived, Close, Token
    <3> QED BY <3>1, <3>2, <3>3, <3>4 DEF TaskStep
  <2> QED BY <2>1 DEF ToldInv
<1>3. UNCHANGED << latest, questions, heard >>
  BY DEF TaskStep, Start, Wake, TimerFires, TimedOut, Acquired, StreamEnds, StreamFails, Resume,
         Perceived, Close, Token, camera
<1>4. a \in heard => Told(a)
  BY DEF ToldInv
<1>5. outcome[a] = "no frame" => pc[a] = "done"
  BY <1>1 DEF ToldInv
<1>6. ASSUME NEW to, pc' = [pc EXCEPT ![a] = to], UNCHANGED << outcome, event >>, pc[a] # "done",
             to \notin {"none", "new", "waiting"}, a \in heard => to # "timedout"
      PROVE  Listens(a)
  BY <1>1, <1>2, <1>3, <1>4, <1>5, <1>6, <1>19 DEF Listens, Told
<1>7. ASSUME NEW how, Finish(a, how), how # "no frame", UNCHANGED event PROVE Listens(a)
  BY <1>1, <1>2, <1>3, <1>7, <1>19 DEF Listens, Finish
<1>8. ASSUME pc[a] \in {"waiting", "timedout"}, a \notin heard, WaitOn(a) PROVE Listens(a)
  <2>1. event' = [event EXCEPT ![p] = "clear"] /\ event'[p] = "clear" /\ AtWork(a)
    BY <1>1, <1>2, <1>8 DEF WaitOn, Wait, AtWork
  <2>2. CASE left[a].deadline = 0
    BY <1>1, <1>2, <1>3, <1>8, <1>19, <2>1, <2>2 DEF Listens, WaitOn, Finish
  <2>3. CASE left[a].deadline # 0
    BY <1>1, <1>2, <1>3, <1>5, <1>8, <1>19, <2>1, <2>3 DEF Listens, WaitOn
  <2> QED BY <2>2, <2>3
<1>9. CASE Start(a)
  <2>1. pc[a] = "new" /\ a \notin heard
    BY <1>4, <1>9 DEF Start, At, Told
  <2>2. CASE At(a, "new", "fetching") /\ UNCHANGED event
    BY <1>6, <1>9, <2>2 DEF Start, At
  <2>3. CASE At(a, "new", "waiting") /\ Wait(a, FrameTimeout)
    BY <1>1, <1>2, <1>3, <1>5, <1>9, <1>19, <2>1, <2>3 DEF Listens, Start, At, Wait, AtWork
  <2> QED BY <1>9, <2>2, <2>3 DEF Start
<1>10. CASE Wake(a)
  <2>1. CASE At(a, "waiting", "fetching") /\ UNCHANGED << event, outcome >>
    BY <1>6, <2>1 DEF At
  <2>2. CASE ~ HasFresh(p) /\ WaitOn(a)
    <3>1. pc[a] = "waiting"
      BY <1>10 DEF Wake
    <3>2. a \notin heard
      BY <1>1, <1>4, <2>2, <3>1, OneTrackIsEnough DEF Told, TableInv
    <3> QED BY <1>8, <2>2, <3>1, <3>2
  <2> QED BY <1>10, <2>1, <2>2 DEF Wake
<1>20. ~ (0 > 0)
  OBVIOUS
<1>11. CASE TimerFires(a)
  <2>1. a \notin heard /\ pc[a] = "waiting"
    BY <1>4, <1>11, <1>20 DEF TimerFires, At, Told
  <2> QED BY <1>6, <1>11, <2>1 DEF TimerFires, At, camera
<1>12. CASE TimedOut(a)
  BY <1>4, <1>8, <1>12 DEF TimedOut, Told
<1>13. CASE Acquired(a)
  BY <1>6, <1>7, <1>13 DEF Acquired, At, camera
<1>14. CASE StreamEnds(a)
  BY <1>7, <1>14 DEF StreamEnds, camera
<1>15. CASE StreamFails(a) \/ Token(a)
  BY <1>6, <1>15 DEF StreamFails, Token, At, camera
<1>16. CASE Resume(a)
  BY <1>6, <1>7, <1>16 DEF Resume, At, camera
<1>17. CASE Perceived(a)
  BY <1>7, <1>17 DEF Perceived, camera
<1>18. CASE Close(a)
  BY <1>6, <1>18 DEF Close, At, camera
<1> QED BY <1>9, <1>10, <1>11, <1>12, <1>13, <1>14, <1>15, <1>16, <1>17, <1>18 DEF TaskStep

\* A question that still waits after a cancellation waits as long as before.
LEMMA CancelKeepsClocks ==
  ASSUME NEW p, NEW why, NEW new, CancelPid(p, why, new)
  PROVE  /\ DOMAIN left' = Asks
         /\ \A a \in Asks : pc'[a] = "waiting" => left'[a] = left[a]
<1> DEFINE old == inflight[p]
           hit == old # 0 /\ pc[old] # "done"
           here(a) == hit /\ a = old
<1>1. pc' = [a \in Asks |-> IF here(a) THEN Cancelled(a) ELSE IF a = new THEN "new" ELSE pc[a]]
  BY DEF CancelPid
<1>2. left' = [a \in Asks |-> IF here(a) THEN NoWait ELSE left[a]]
  BY DEF CancelPid
<1>3. \A a \in Asks : Cancelled(a) # "waiting"
  BY DEF Cancelled
<1> QED BY <1>1, <1>2, <1>3

LEMMA SpawnKeepsTold ==
  ASSUME TableInv, ToldInv, NEW q \in Question, SpawnQuery(q), UNCHANGED camera
  PROVE  ToldInv'
<1>1. /\ Len(questions) < MaxAsks /\ questions' = Append(questions, q)
      /\ CancelPid(q.pid, "superseded", Len(questions) + 1) /\ heard' = heard
  BY DEF SpawnQuery
<1>2. /\ questions' \in Seq(Question) /\ Len(questions') = Len(questions) + 1
      /\ Len(questions') <= MaxAsks /\ Len(questions') \in Asks
      /\ questions'[Len(questions) + 1] = q
      /\ \A a \in 1 .. Len(questions) : questions'[a] = questions[a]
  BY <1>1, Asked DEF TableInv
<1>3. /\ Len(questions) \in Nat /\ 1 .. Len(questions) = DOMAIN questions /\ DOMAIN questions \subseteq Asks
  BY AskNumbers DEF TableInv
<1>4. PICK new : new = Len(questions) + 1
  OBVIOUS
<1>5. new \in {0} \union Asks /\ new > Len(questions) /\ new <= Len(questions') /\ questions'[new].pid = q.pid
  BY <1>2, <1>3, <1>4
<1>6. q.pid \in Participants /\ "superseded" \in Outcome /\ Len(questions) <= Len(questions')
  BY <1>2, <1>3 DEF Question, Outcome
<1>7. \A a \in Asks : /\ pc'[a] \in {pc[a], "closing", "done"} \/ (a = new /\ pc'[a] = "new")
                      /\ outcome'[a] = outcome[a] \/ outcome'[a] = "superseded"
                      /\ pc[a] = "done" /\ a # new => pc'[a] = "done"
  BY <1>1, <1>2, <1>4, <1>5, <1>6, CancelKeepsTable DEF TableInv
<1>13. DOMAIN left' = Asks /\ \A a \in Asks : pc'[a] = "waiting" => left'[a] = left[a]
  BY <1>1, CancelKeepsClocks
<1>8. ASSUME NEW a \in heard
      PROVE  a \in Asks /\ a # new /\ questions'[a] = questions[a] /\ a \in 1 .. Len(questions')
  <2>1. a \in 1 .. Len(questions)
    BY DEF ToldInv
  <2>2. a \in Nat /\ a <= Len(questions) /\ 1 <= a
    BY <1>3, <2>1
  <2>3. a \in 1 .. Len(questions')
    BY <1>2, <1>3, <2>2
  <2> QED BY <1>2, <1>3, <1>4, <2>1, <2>2, <2>3
<1>9. ASSUME NEW a \in heard PROVE Told(a)'
  <2>1. Told(a) /\ a \in Asks /\ a # new /\ questions'[a] = questions[a]
    BY <1>8 DEF ToldInv
  <2>2. pc'[a] \in {pc[a], "closing", "done"} /\ (outcome'[a] = outcome[a] \/ outcome'[a] = "superseded")
    BY <1>7, <2>1
  <2> QED BY <1>13, <2>1, <2>2 DEF Told, camera
<1>10. pc[new] = "none" /\ new \in Asks
  BY <1>2, <1>3, <1>4 DEF TableInv, TableNames
<1>11. \A a \in Asks : outcome'[a] = "no frame" => pc'[a] = "done"
  BY <1>7, <1>10 DEF ToldInv
<1>12. ASSUME NEW a \in Asks, pc'[a] = "waiting" PROVE event'[questions'[a].pid] # "absent"
  <2>1. pc[a] = "waiting" /\ a \in 1 .. Len(questions)
    BY <1>3, <1>7, <1>12 DEF TableInv, TableNames, Asks
  <2> QED BY <1>2, <2>1 DEF ToldInv, camera
<1> QED BY <1>1, <1>8, <1>9, <1>11, <1>12, <1>13 DEF ToldInv

LEMMA LeftKeepsTold ==
  ASSUME TableInv, ToldInv, NEW p \in Participants, Release(p), CancelPid(p, "left", 0),
         UNCHANGED << questions, heard >>
  PROVE  ToldInv'
<1>1. /\ "left" \in Outcome /\ questions \in Seq(Question) /\ Len(questions) <= MaxAsks /\ Len(questions) \in Nat
      /\ 1 .. Len(questions) = DOMAIN questions /\ DOMAIN questions \subseteq Asks
      /\ \A a \in DOMAIN questions : questions[a].pid \in Participants
  BY AskNumbers DEF Outcome, AskTypes, TableInv
<1>2. \A a \in Asks : /\ pc'[a] \in {pc[a], "closing", "done"} \/ (a = 0 /\ pc'[a] = "new")
                      /\ a \in 1 .. Len(questions) /\ AtWork(a) /\ questions[a].pid = p
                           => pc'[a] \in {"closing", "done"}
                      /\ outcome'[a] = outcome[a] \/ outcome'[a] = "left"
                      /\ pc[a] = "done" /\ a # 0 => pc'[a] = "done"
  BY <1>1, CancelKeepsTable DEF TableInv
<1>3. \A a \in Asks : a # 0
  BY VisionAssumption DEF Asks
<1>9. DOMAIN left' = Asks /\ \A a \in Asks : pc'[a] = "waiting" => left'[a] = left[a]
  BY CancelKeepsClocks
<1>4. /\ \A q \in Participants : q # p => event'[q] = event[q]
      /\ \A q \in Participants, t \in Tracks : q # p => latest'[<< q, t >>] = latest[<< q, t >>]
  BY DEF Release, TableInv, AskTypes
<1>5. ASSUME NEW a \in Asks, pc'[a] = "waiting"
      PROVE  pc[a] = "waiting" /\ a \in 1 .. Len(questions) /\ questions[a].pid \in Participants \ {p}
  <2>1. pc[a] = "waiting"
    BY <1>2, <1>3, <1>5
  <2>2. a \in 1 .. Len(questions) /\ AtWork(a)
    BY <1>1, <2>1 DEF TableInv, TableNames, AtWork, Asks
  <2> QED BY <1>1, <1>2, <1>5, <2>1, <2>2
<1>6. ASSUME NEW a \in heard PROVE Told(a)'
  <2>1. a \in Asks /\ Told(a)
    BY <1>1 DEF ToldInv
  <2>2. pc'[a] \notin {"none", "new", "timedout"} /\ outcome'[a] # "no frame"
    BY <1>2, <1>3, <2>1 DEF Told
  <2>3. CASE pc'[a] = "waiting"
    BY ZenonT(40), <1>4, <1>5, <1>9, <2>1, <2>2, <2>3 DEF Told
  <2> QED BY <2>2, <2>3 DEF Told
<1>7. \A a \in Asks : outcome'[a] = "no frame" => pc'[a] = "done"
  BY <1>2, <1>3 DEF ToldInv
<1>8. \A a \in Asks : pc'[a] = "waiting" => event'[questions'[a].pid] # "absent"
  BY <1>4, <1>5 DEF ToldInv
<1> QED BY <1>6, <1>7, <1>8, <1>9 DEF ToldInv

\* A signal that arrives is told to those who wait; an older one that was told stays so.
LEMMA SignalKeepsTold ==
  ASSUME TableInv, ToldInv, NEW p \in Participants, NEW t \in Tracks, Signal(p, t)
  PROVE  ToldInv'
<1>1. PICK age \in Lags : /\ age <= latest[<< p, t >>] /\ OnFrame(p, t, age)
                          /\ heard' = heard \union {a \in WaitsOf(p) : Fresh(age) /\ left[a].slice > 0}
  BY DEF Signal
<1>2. /\ age \in Nat /\ FrameMaxAge \in Nat
      /\ \A k \in Participants \X Tracks : latest[k] \in Nat
  BY VisionAssumption DEF TableInv, AskTypes
<1>3. UNCHANGED << pc, questions, outcome, left >>
  BY DEF Signal
<1>4. /\ 1 .. Len(questions) = DOMAIN questions /\ DOMAIN questions \subseteq Asks
      /\ \A a \in DOMAIN questions : questions[a].pid \in Participants
  BY AskNumbers DEF TableInv
<1>5. /\ latest' = [latest EXCEPT ![<< p, t >>] = age]
      /\ event' = [event EXCEPT ![p] = IF event[p] = "absent" THEN event[p] ELSE "set"]
  BY <1>1 DEF OnFrame
<1>6. /\ \A q \in Participants : event'[q] \in {event[q], "set"} /\ (event[q] = "absent" => event'[q] = "absent")
                                 /\ (event[q] = "set" => event'[q] = "set")
      /\ event[p] # "absent" => event'[p] = "set"
  BY <1>5 DEF TableInv, AskTypes
<1>7. /\ latest'[<< p, t >>] = age
      /\ \A q \in Participants, u \in Tracks : latest'[<< q, u >>] = latest[<< q, u >>] \/ << q, u >> = << p, t >>
  BY <1>5 DEF TableInv, AskTypes
<1>8. \A q \in Participants, u \in Tracks : latest[<< q, u >>] < FrameMaxAge => latest'[<< q, u >>] < FrameMaxAge
  BY <1>1, <1>2, <1>7
<1>9. ASSUME NEW a \in heard' PROVE Told(a)'
  <2>1. CASE a \in heard
    <3>1. a \in DOMAIN questions /\ questions[a].pid \in Participants /\ Told(a)
      BY <1>4, <2>1 DEF ToldInv
    <3> QED BY <1>3, <1>6, <1>8, <3>1 DEF Told
  <2>2. CASE a \in WaitsOf(p) /\ Fresh(age) /\ left[a].slice > 0
    <3>1. a \in Asks /\ questions[a].pid = p /\ pc[a] = "waiting"
      BY <1>4, <2>2 DEF WaitsOf
    <3>2. event[p] # "absent" /\ outcome[a] # "no frame"
      BY <3>1 DEF ToldInv
    <3>3. latest'[<< p, t >>] < FrameMaxAge
      BY <1>7, <2>2 DEF Fresh
    <3> QED BY <1>3, <1>6, <2>2, <3>1, <3>2, <3>3 DEF Told
  <2> QED BY <1>1, <2>1, <2>2
<1>10. \A a \in Asks : pc[a] = "waiting" => event'[questions[a].pid] # "absent"
  <2> TAKE a \in Asks
  <2> HAVE pc[a] = "waiting"
  <2>1. a \in DOMAIN questions
    BY <1>4 DEF TableInv, TableNames, Asks
  <2> QED BY <1>4, <1>6, <2>1 DEF ToldInv
<1>11. heard' \subseteq 1 .. Len(questions)
  BY <1>1, <1>4 DEF ToldInv, WaitsOf
<1> QED BY <1>3, <1>9, <1>10, <1>11 DEF ToldInv

LEMMA VisionKeepsTold ==
  ASSUME TableInv, ToldInv, [VisionNext]_visionVars
  PROVE  ToldInv'
<1>1. ASSUME UNCHANGED << latest, event, pc, questions, outcome, left, heard >> PROVE ToldInv'
  BY <1>1 DEF ToldInv, Told
<1>2. ASSUME NEW a \in DOMAIN questions, TaskStep(a) \/ Token(a) PROVE ToldInv'
  BY <1>2, TaskListens, ListeningKeeps
<1>3. CASE Tick
  <2>1. \A a \in heard : a \in DOMAIN questions
    BY AskNumbers DEF ToldInv, TableInv
  <2>2. \A a \in heard : pc[a] # "waiting"
    BY <1>3, <2>1 DEF Tick, Ready, ToldInv, Told
  <2> QED BY <1>3, <2>2 DEF Tick, ToldInv, Told
<1>4. ASSUME NEW p \in Participants, RoomStep(p) PROVE ToldInv'
  <2>1. CASE \E t \in Tracks : Signal(p, t)
    BY <2>1, SignalKeepsTold
  <2>2. CASE TypeQuestion(p)
    <3>1. QuestionOf(p, TRUE) \in Question
      BY <2>2, VisionAssumption DEF TypeQuestion, QuestionOf, Question, RoomTypes, TableInv
    <3> QED BY <2>2, <3>1, SpawnKeepsTold DEF TypeQuestion
  <2> QED BY <1>1, <1>4, <2>1, <2>2 DEF RoomStep, Join, Leave, SpeakQuestion, camera, tasks
<1>5. CASE BrainTakes
  <2>1. Head(queue) \in News
    BY <1>5 DEF BrainTakes, TableInv, RoomTypes
  <2>2. CASE Head(queue).type = "query" /\ SpawnQuery(Head(queue).question) /\ UNCHANGED camera
    BY <2>1, <2>2, SpawnKeepsTold DEF News
  <2>3. CASE /\ Head(queue).type = "left" /\ Release(Head(queue).pid)
             /\ CancelPid(Head(queue).pid, "left", 0) /\ UNCHANGED << questions, heard >>
    BY <2>1, <2>3, LeftKeepsTold DEF News
  <2> QED BY <1>5, <2>2, <2>3 DEF BrainTakes
<1>6. CASE UNCHANGED visionVars
  BY <1>1, <1>6 DEF visionVars, camera, tasks
<1> QED BY <1>2, <1>3, <1>4, <1>5, <1>6 DEF VisionNext

\* "No camera frame available" is true: no question that ends so had a fresh signal come
\* while one of its waits had time left, whatever the tracks, the timers and the other
\* questions did.
THEOREM NoFrameMeansNoFrame == VisionSpec => []UnavailableIsTrue
<1>1. VisionInit => ToldInv
  BY DEF VisionInit, ToldInv, Told
<1>2. TableInv /\ ToldInv /\ [VisionNext]_visionVars => ToldInv'
  BY VisionKeepsTold
<1>3. ToldInv => UnavailableIsTrue
  BY DEF ToldInv, Told, UnavailableIsTrue
<1> QED BY <1>1, <1>2, <1>3, TableKept, PTL DEF VisionSpec

-----------------------------------------------------------------------------
(* The badge.                                                              *)

\* A task that is being closed is in the table no more, so no second cancellation
\* takes its "finally" away.
BadgeInv ==
  /\ badge \in [Participants -> {"idle", "processing"}]
  /\ \A p \in Participants : inflight[p] # 0 => pc[inflight[p]] # "closing"
  /\ BadgeNeedsAsk

Answering(p) == \E a \in DOMAIN questions : questions[a].pid = p /\ kind = "ask" /\ pc[a] \in Working

\* Steps of tasks, told by what they do to the table and the badge.
LEMMA BadgeMoves ==
  ASSUME TableInv, BadgeInv, NEW a \in DOMAIN questions, NEW to,
         pc' = [pc EXCEPT ![a] = to], UNCHANGED << questions, kind >>,
         \A p \in Participants : inflight'[p] \in {inflight[p], 0},
         to # "closing",
         \/ /\ UNCHANGED badge /\ (kind = "ask" /\ pc[a] \in Working => to \in Working)
         \/ to = "streaming" /\ kind = "ask" /\ badge' = [badge EXCEPT ![questions[a].pid] = "processing"]
         \/ badge' = [badge EXCEPT ![questions[a].pid] = "idle"]
  PROVE  BadgeInv'
<1> DEFINE p == questions[a].pid
<1>1. a \in Asks /\ p \in Participants /\ DOMAIN questions \subseteq Asks
  BY AskNumbers DEF TableInv
<1>2. pc'[a] = to /\ \A b \in Asks : b # a => pc'[b] = pc[b]
  BY <1>1 DEF TableInv, AskTypes
<1>3. badge' \in [Participants -> {"idle", "processing"}]
  BY <1>1 DEF BadgeInv
<1>4. ASSUME NEW q \in Participants, inflight'[q] # 0 PROVE pc'[inflight'[q]] # "closing"
  <2>1. inflight'[q] = inflight[q] /\ inflight[q] \in Asks
    BY <1>4, AskNumbers DEF TableInv, TableNames
  <2> QED BY <1>2, <1>4, <2>1 DEF BadgeInv
<1>5. ASSUME NEW q \in Participants, badge'[q] = "processing" PROVE Answering(q)'
  <2>1. CASE q = p /\ to = "streaming" /\ kind = "ask"
    BY <1>2, <2>1 DEF Answering, Working
  <2>2. CASE q # p
    <3>1. badge[q] = "processing"
      BY <1>1, <1>5, <2>2 DEF BadgeInv
    <3>2. PICK b \in DOMAIN questions : questions[b].pid = q /\ kind = "ask" /\ pc[b] \in Working
      BY <3>1 DEF BadgeInv, BadgeNeedsAsk
    <3> QED BY <1>1, <1>2, <2>2, <3>2 DEF Answering
  <2>3. CASE q = p /\ UNCHANGED badge /\ (kind = "ask" /\ pc[a] \in Working => to \in Working)
    <3>1. PICK b \in DOMAIN questions : questions[b].pid = q /\ kind = "ask" /\ pc[b] \in Working
      BY <1>5, <2>3 DEF BadgeInv, BadgeNeedsAsk
    <3> QED BY <1>1, <1>2, <2>3, <3>1 DEF Answering
  <2>4. CASE q = p /\ badge' = [badge EXCEPT ![p] = "idle"]
    BY <1>1, <1>5, <2>4 DEF BadgeInv
  <2> QED BY <2>1, <2>2, <2>3, <2>4
<1> QED BY <1>3, <1>4, <1>5 DEF BadgeInv, BadgeNeedsAsk, Answering

\* Steps of the brain.
LEMMA BadgeCancels ==
  ASSUME TableInv, BadgeInv, NEW p \in Participants, NEW why, NEW new \in {0} \union Asks,
         CancelPid(p, why, new), UNCHANGED << badge, kind >>, new # 0 => new > Len(questions),
         DOMAIN questions \subseteq DOMAIN questions',
         \A a \in DOMAIN questions : questions'[a] = questions[a]
  PROVE  BadgeInv'
<1> DEFINE old == inflight[p]
           hit == old # 0 /\ pc[old] # "done"
           here(a) == hit /\ a = old
<1>1. /\ inflight' = [inflight EXCEPT ![p] = new]
      /\ pc' = [a \in Asks |-> IF here(a) THEN Cancelled(a) ELSE IF a = new THEN "new" ELSE pc[a]]
  BY DEF CancelPid
<1>2. /\ DOMAIN questions \subseteq Asks /\ Len(questions) \in Nat /\ DOMAIN questions = 1 .. Len(questions)
      /\ \A a \in Asks : a \in Nat /\ a > 0
  BY AskNumbers, VisionAssumption DEF TableInv, Asks
<1>3. old # 0 => old \in DOMAIN questions /\ questions[old].pid = p /\ pc[old] # "closing"
  BY <1>2 DEF TableInv, TableNames, BadgeInv
<1>4. ASSUME NEW q \in Participants, inflight'[q] # 0 PROVE pc'[inflight'[q]] # "closing"
  <2>1. CASE q = p
    <3>1. inflight'[q] = new /\ new # 0 /\ new \in Asks /\ new \notin DOMAIN questions
      BY <1>1, <1>2, <1>4, <2>1 DEF TableInv, AskTypes
    <3> QED BY <1>1, <1>3, <3>1
  <2>2. CASE q # p
    <3>1. /\ inflight'[q] = inflight[q] /\ inflight[q] \in DOMAIN questions /\ questions[inflight[q]].pid = q
          /\ pc[inflight[q]] # "closing"
      BY <1>1, <1>2, <1>4, <2>2 DEF TableInv, TableNames, AskTypes, BadgeInv
    <3>2. ~ here(inflight[q]) /\ inflight[q] # new /\ inflight[q] \in Asks
      BY <1>2, <1>3, <2>2, <3>1
    <3> QED BY <1>1, <3>1, <3>2
  <2> QED BY <2>1, <2>2
<1>5. ASSUME NEW q \in Participants, badge[q] = "processing" PROVE Answering(q)'
  <2>1. PICK b \in DOMAIN questions : questions[b].pid = q /\ kind = "ask" /\ pc[b] \in Working
    BY <1>5 DEF BadgeInv, BadgeNeedsAsk
  <2>2. b \in Asks /\ b # new
    BY <1>2, <2>1
  <2>3. pc'[b] = IF here(b) THEN Cancelled(b) ELSE pc[b]
    BY <1>1, <2>2
  <2>4. here(b) => Cancelled(b) = "closing"
    BY <1>3, <2>1 DEF Cancelled, Working
  <2>5. pc'[b] \in Working
    BY <2>1, <2>3, <2>4 DEF Working
  <2> QED BY <2>1, <2>5 DEF Answering
<1> QED BY <1>4, <1>5 DEF BadgeInv, BadgeNeedsAsk, Answering

LEMMA BadgeOfTask ==
  ASSUME TableInv, BadgeInv, NEW a \in DOMAIN questions, TaskStep(a) \/ Token(a)
  PROVE  BadgeInv'
<1> DEFINE p == questions[a].pid
           Shown(to) == \/ /\ UNCHANGED badge /\ (kind = "ask" /\ pc[a] \in Working => to \in Working)
                        \/ to = "streaming" /\ kind = "ask" /\ badge' = [badge EXCEPT ![p] = "processing"]
                        \/ badge' = [badge EXCEPT ![p] = "idle"]
<1>1. a \in Asks /\ p \in Participants
  BY AskNumbers DEF TableInv
<1>2. UNCHANGED << questions, kind >>
  BY DEF TaskStep, Start, Wake, TimerFires, TimedOut, Acquired, StreamEnds, StreamFails, Resume,
         Perceived, Close, Token
<1>3. ASSUME NEW to, pc' = [pc EXCEPT ![a] = to], UNCHANGED inflight, to # "closing", Shown(to) PROVE BadgeInv'
  BY <1>2, <1>3, BadgeMoves
<1>4. ASSUME NEW how, Finish(a, how), Shown("done") PROVE BadgeInv'
  <2>1. \A q \in Participants : inflight'[q] \in {inflight[q], 0}
    BY <1>1, <1>4 DEF Finish, TableInv, AskTypes
  <2>2. pc' = [pc EXCEPT ![a] = "done"]
    BY <1>4 DEF Finish
  <2> QED BY <1>2, <1>4, <2>1, <2>2, BadgeMoves
<1>5. ASSUME pc[a] \notin Working, UNCHANGED badge, NEW to PROVE Shown(to)
  BY <1>5
<1>6. CASE Start(a)
  <2>1. PICK to \in {"fetching", "waiting"} : At(a, "new", to) /\ UNCHANGED << badge, inflight >>
    BY <1>6 DEF Start
  <2> QED BY <1>3, <1>5, <2>1 DEF At, Working
<1>7. ASSUME pc[a] \in {"waiting", "timedout"}, WaitOn(a), UNCHANGED badge PROVE BadgeInv'
  BY <1>3, <1>4, <1>5, <1>7 DEF WaitOn, Working
<1>8. CASE Wake(a)
  <2>1. UNCHANGED badge /\ pc[a] = "waiting"
    BY <1>8 DEF Wake
  <2>2. CASE At(a, "waiting", "fetching") /\ UNCHANGED inflight
    BY <1>3, <1>5, <2>1, <2>2 DEF At, Working
  <2>3. CASE WaitOn(a)
    BY <1>7, <2>1, <2>3
  <2> QED BY <1>8, <2>2, <2>3 DEF Wake
<1>9. CASE TimerFires(a)
  BY <1>3, <1>5, <1>9 DEF TimerFires, At, Working
<1>10. CASE TimedOut(a)
  BY <1>7, <1>10 DEF TimedOut
<1>11. CASE Acquired(a)
  <2>1. CASE At(a, "fetching", "streaming") /\ UNCHANGED inflight
             /\ badge' = IF kind = "ask" THEN [badge EXCEPT ![p] = "processing"] ELSE badge
    <3>1. Shown("streaming")
      BY <2>1
    <3> QED BY <1>3, <2>1, <3>1 DEF At
  <2>2. CASE pc[a] = "fetching" /\ UNCHANGED badge /\ \E how : Finish(a, how)
    BY <1>4, <1>5, <2>2 DEF Working
  <2> QED BY <1>11, <2>1, <2>2 DEF Acquired
<1>12. CASE StreamEnds(a)
  BY <1>4, <1>12 DEF StreamEnds, SetIdle
<1>13. CASE StreamFails(a)
  BY <1>3, <1>13 DEF StreamFails, At, Working
<1>14. CASE Token(a)
  BY <1>3, <1>14 DEF Token, At, Working
<1>15. CASE Resume(a)
  <2>1. CASE At(a, "yielded", "streaming") /\ UNCHANGED << inflight, badge >>
    BY <1>3, <2>1 DEF At, Working
  <2>2. CASE pc[a] = "failed" /\ Finish(a, "failed") /\ SetIdle(a)
    <3>1. Shown("done")
      BY <2>2 DEF SetIdle
    <3> QED BY <1>4, <2>2, <3>1
  <2> QED BY <1>15, <2>1, <2>2 DEF Resume
<1>16. CASE Perceived(a)
  <2>1. kind # "ask" /\ UNCHANGED badge /\ \E how : Finish(a, how)
    BY <1>16 DEF Perceived
  <2> QED BY <1>4, <2>1
<1>17. CASE Close(a)
  <2>1. Shown("done")
    BY <1>17 DEF Close, SetIdle
  <2> QED BY <1>3, <1>17, <2>1 DEF Close, At
<1> QED BY <1>6, <1>8, <1>9, <1>10, <1>11, <1>12, <1>13, <1>14, <1>15, <1>16, <1>17 DEF TaskStep

LEMMA BadgeSteps ==
  ASSUME TableInv, BadgeInv, [VisionNext]_visionVars
  PROVE  BadgeInv'
<1>1. ASSUME UNCHANGED << badge, pc, questions, inflight, kind >> PROVE BadgeInv'
  BY <1>1 DEF BadgeInv, BadgeNeedsAsk
<1>2. ASSUME NEW q \in Question, SpawnQuery(q), UNCHANGED << badge, kind >> PROVE BadgeInv'
  <2>1. /\ Len(questions) < MaxAsks /\ questions' = Append(questions, q)
        /\ CancelPid(q.pid, "superseded", Len(questions) + 1) /\ q.pid \in Participants
    BY <1>2 DEF SpawnQuery, Question
  <2>2. /\ Len(questions') = Len(questions) + 1 /\ Len(questions') \in Asks /\ questions' \in Seq(Question)
        /\ \A a \in 1 .. Len(questions) : questions'[a] = questions[a]
    BY <2>1, Asked DEF TableInv
  <2>3. /\ Len(questions) \in Nat /\ DOMAIN questions = 1 .. Len(questions)
        /\ DOMAIN questions' = 1 .. Len(questions')
    BY <2>2, AskNumbers DEF TableInv
  <2>4. DOMAIN questions \subseteq DOMAIN questions'
    BY <2>2, <2>3
  <2>5. PICK new : new = Len(questions) + 1
    OBVIOUS
  <2>6. new \in {0} \union Asks /\ new > Len(questions)
    BY <2>2, <2>3, <2>5
  <2> QED BY <1>2, <2>1, <2>2, <2>3, <2>4, <2>5, <2>6, BadgeCancels
<1>3. ASSUME NEW p \in Participants, RoomStep(p) PROVE BadgeInv'
  <2>1. CASE TypeQuestion(p)
    <3>1. QuestionOf(p, TRUE) \in Question
      BY <2>1, VisionAssumption DEF TypeQuestion, QuestionOf, Question, RoomTypes, TableInv
    <3> QED BY <1>2, <2>1, <3>1 DEF TypeQuestion
  <2> QED BY <1>1, <1>3, <2>1 DEF RoomStep, Join, Leave, Signal, SpeakQuestion, tasks
<1>4. ASSUME NEW a \in DOMAIN questions, TaskStep(a) \/ Token(a) PROVE BadgeInv'
  BY <1>4, BadgeOfTask
<1>5. CASE BrainTakes
  <2>1. Head(queue) \in News
    BY <1>5 DEF BrainTakes, TableInv, RoomTypes
  <2>2. CASE Head(queue).type = "query" /\ SpawnQuery(Head(queue).question) /\ UNCHANGED << badge, kind >>
    BY <1>2, <2>1, <2>2 DEF News
  <2>3. CASE /\ Head(queue).type = "left" /\ CancelPid(Head(queue).pid, "left", 0)
             /\ UNCHANGED << questions, badge, kind >>
    <3>1. Head(queue).pid \in Participants
      BY <2>1, <2>3 DEF News
    <3> QED BY <2>3, <3>1, BadgeCancels
  <2> QED BY <1>5, <2>2, <2>3 DEF BrainTakes
<1>6. CASE Tick
  BY <1>1, <1>6 DEF Tick
<1>7. CASE UNCHANGED visionVars
  BY <1>1, <1>7 DEF visionVars, tasks
<1> QED BY <1>3, <1>4, <1>5, <1>6, <1>7 DEF VisionNext

\* The badge says "processing" only while an answer to that participant is streamed
\* or given up, whatever cancels the question: every way out of ask puts it back.
THEOREM BadgeIsHonest == VisionSpec => []BadgeNeedsAsk
<1>1. VisionInit => BadgeInv
  BY DEF VisionInit, BadgeInv, BadgeNeedsAsk
<1>2. TableInv /\ BadgeInv /\ [VisionNext]_visionVars => BadgeInv'
  BY BadgeSteps
<1>3. BadgeInv => BadgeNeedsAsk
  BY DEF BadgeInv
<1> QED BY <1>1, <1>2, <1>3, TableKept, PTL DEF VisionSpec

-----------------------------------------------------------------------------
(* Requests that are shared.                                               *)

\* While nothing goes wrong: the hub holds the last frame it took; whoever asks has seen
\* a frame; and where futures wait, their request is in flight.
CarriedInv ==
  faults = {} =>
    /\ held = taken
    /\ \A c \in Calls : call[c] = "sending" => seen[ProcOf[c]] > 0
    /\ \A p \in Processors :
         /\ requests[p] > 0 => seen[p] > 0
         /\ pending[p] # {} => InFlight(p)

\* An answer in an inbox stays there until it is dispatched.
LEMMA AnswersStay ==
  ASSUME TypeOK, TypeOK', NEW p \in Processors,
         \/ \E m \in Message : inbox'[p] = Append(inbox[p], m)
         \/ inbox[p] # << >> /\ Head(inbox[p]).type = "signal" /\ inbox'[p] = Tail(inbox[p])
         \/ inbox'[p] = inbox[p],
         Answers(p) # {}
  PROVE  \E i \in 1 .. Len(inbox'[p]) : inbox'[p][i].type = "data"
<1>1. inbox[p] \in Seq(Message)
  BY DEF TypeOK
<1>2. PICK i \in 1 .. Len(inbox[p]) : inbox[p][i].type = "data"
  BY DEF Answers
<1>3. ASSUME NEW m \in Message, inbox'[p] = Append(inbox[p], m)
      PROVE  i \in 1 .. Len(inbox'[p]) /\ inbox'[p][i].type = "data"
  BY <1>1, <1>2, <1>3
<1>4. CASE inbox[p] # << >> /\ Head(inbox[p]).type = "signal" /\ inbox'[p] = Tail(inbox[p])
  <2>1. i # 1
    BY <1>2, <1>4
  <2>2. i - 1 \in 1 .. Len(Tail(inbox[p])) /\ Tail(inbox[p])[i - 1] = inbox[p][i]
    BY <1>1, <1>2, <1>4, <2>1
  <2> QED BY <1>2, <1>4, <2>2
<1> QED BY <1>2, <1>3, <1>4

\* Without loss every subscriber gets what is published.
LEMMA PublishedToAll ==
  ASSUME TypeOK, "loss" \notin faults, NEW m \in Message, Publish(m), NEW p \in Processors
  PROVE  inbox'[p] = Append(inbox[p], m)
BY DEF Publish, TypeOK

LEMMA CarriedSteps == TypeOK /\ TypeOK' /\ DeliveredInOrder /\ CarriedInv /\ [Next]_vars => CarriedInv'
<1> SUFFICES ASSUME TypeOK, TypeOK', DeliveredInOrder, CarriedInv, [Next]_vars, faults' = {}
             PROVE  CarriedInv'
  BY DEF CarriedInv
<1> USE DEF hubVars, callVars
<1>0. faults = {}
  BY DEF Next, vars, TakeFrame, ParticipantLeft, HandleRequest, DispatchSignal, DispatchData, Request, Sent,
         Return, TimeOut, Cancel, Again
<1>1. /\ held = taken
      /\ \A c \in Calls : call[c] = "sending" => seen[ProcOf[c]] > 0
      /\ \A p \in Processors : requests[p] > 0 => seen[p] > 0
      /\ \A p \in Processors : pending[p] # {} => InFlight(p)
  BY <1>0 DEF CarriedInv
<1>2. \A c \in Calls : ProcOf[c] \in Processors
  BY ConstantsAssumption
<1>3. CASE TakeFrame
  <2>1. held' = taken' /\ UNCHANGED << requests, seen, pending, call >>
    BY <1>3 DEF TakeFrame
  <2>2. [type |-> "signal", frame |-> taken + 1] \in Message
    BY <1>3, ConstantsAssumption DEF TakeFrame, TypeOK, Frames, Message
  <2>3. ASSUME NEW p \in Processors, pending[p] # {} PROVE InFlight(p)'
    <3>1. \E m \in Message : inbox'[p] = Append(inbox[p], m)
      BY <1>0, <1>3, <2>2, PublishedToAll DEF TakeFrame
    <3>2. Answers(p) # {} => Answers(p)' # {}
      BY <3>1, AnswersStay DEF Answers
    <3> QED BY <1>1, <2>1, <2>3, <3>2 DEF InFlight
  <2> QED BY <1>1, <2>1, <2>3 DEF CarriedInv
<1>4. ASSUME NEW p \in Processors, HandleRequest(p) PROVE CarriedInv'
  <2>1. /\ requests[p] > 0 /\ requests' = [requests EXCEPT ![p] = requests[p] - 1]
        /\ UNCHANGED << taken, held, seen, pending, call >>
    BY <1>4 DEF HandleRequest
  <2>2. held # 0
    <3>1. seen[p] > 0 /\ held = taken
      BY <1>1, <2>1
    <3>2. seen[p] <= taken
      BY DEF DeliveredInOrder
    <3>3. seen[p] \in Nat /\ taken \in Nat
      BY ConstantsAssumption DEF TypeOK
    <3> QED BY <3>1, <3>2, <3>3
  <2>3. PICK m \in Message : m = [type |-> "data", frame |-> held]
    <3>1. held \in Frames
      BY <2>2, ConstantsAssumption DEF TypeOK, Frames
    <3> QED BY <3>1 DEF Message
  <2>4. \A q \in Processors : inbox'[q] = Append(inbox[q], m)
    BY <1>0, <1>4, <2>2, <2>3, PublishedToAll DEF HandleRequest
  <2>5. ASSUME NEW q \in Processors PROVE InFlight(q)'
    <3>1. inbox[q] \in Seq(Message) /\ inbox'[q] = Append(inbox[q], m)
      BY <2>4 DEF TypeOK
    <3>2. Len(inbox'[q]) \in 1 .. Len(inbox'[q]) /\ inbox'[q][Len(inbox'[q])].type = "data"
      BY <2>3, <3>1
    <3> QED BY <3>2 DEF InFlight, Answers
  <2>6. \A q \in Processors : requests'[q] > 0 => requests[q] > 0
    BY <2>1 DEF TypeOK
  <2> QED BY <1>1, <2>1, <2>5, <2>6 DEF CarriedInv
<1>5. ASSUME NEW p \in Processors, DispatchSignal(p) PROVE CarriedInv'
  <2>1. /\ seen' = [seen EXCEPT ![p] = Head(inbox[p]).frame] /\ inbox' = [inbox EXCEPT ![p] = Tail(inbox[p])]
        /\ inbox[p] # << >> /\ Head(inbox[p]).type = "signal"
        /\ UNCHANGED << taken, held, requests, pending, call >>
    BY <1>5 DEF DispatchSignal, Receive
  <2>2. Head(inbox[p]).frame \in Frames
    BY <1>5, ReceiveType DEF DispatchSignal
  <2>3. \A q \in Processors : seen[q] > 0 => seen'[q] > 0
    BY <2>1, <2>2, ConstantsAssumption DEF TypeOK, Frames
  <2>4. ASSUME NEW q \in Processors, pending[q] # {} PROVE InFlight(q)'
    <3>1. (inbox'[q] = Tail(inbox[q]) /\ q = p) \/ inbox'[q] = inbox[q]
      BY <2>1 DEF TypeOK
    <3>2. Answers(q) # {} => Answers(q)' # {}
      BY <2>1, <3>1, AnswersStay DEF Answers
    <3> QED BY <1>1, <2>1, <2>4, <3>2 DEF InFlight
  <2> QED BY <1>1, <1>2, <2>1, <2>3, <2>4 DEF CarriedInv
<1>6. ASSUME NEW p \in Processors, DispatchData(p) PROVE CarriedInv'
  <2>1. /\ inbox' = [inbox EXCEPT ![p] = Tail(inbox[p])] /\ pending' = [pending EXCEPT ![p] = {}]
        /\ UNCHANGED << taken, held, requests, seen, call >>
    BY <1>6 DEF DispatchData, Receive
  <2>2. ASSUME NEW q \in Processors, pending'[q] # {} PROVE InFlight(q)'
    <3>1. q # p /\ inbox'[q] = inbox[q] /\ pending[q] # {}
      BY <2>1, <2>2 DEF TypeOK
    <3> QED BY <1>1, <2>1, <3>1 DEF InFlight, Answers
  <2> QED BY <1>1, <2>1, <2>2 DEF CarriedInv
<1>7. ASSUME NEW c \in Calls, Request(c) PROVE CarriedInv'
  <2>1. PICK p \in Processors : p = ProcOf[c]
    BY <1>2
  <2>2. /\ seen[p] > 0 /\ call[c] = "idle"
        /\ call' = [call EXCEPT ![c] = IF pending[p] = {} THEN "sending" ELSE "waiting"]
        /\ pending' = [pending EXCEPT ![p] = pending[p] \union {c}]
        /\ UNCHANGED << taken, held, inbox, requests, seen >>
    BY <1>7, <2>1 DEF Request
  <2>3. \A d \in Calls : d # c => call'[d] = call[d]
    BY <2>2 DEF TypeOK
  <2>4. ASSUME NEW q \in Processors, pending'[q] # {} PROVE InFlight(q)'
    <3>1. CASE pending[q] # {}
      BY <1>1, <2>2, <2>3, <3>1 DEF InFlight, Answers
    <3>2. CASE pending[q] = {}
      <4>1. q = p /\ call'[c] = "sending"
        BY <2>2, <2>4, <3>2 DEF TypeOK
      <4> QED BY <2>1, <4>1 DEF InFlight
    <3> QED BY <3>1, <3>2
  <2> QED BY <1>1, <2>1, <2>2, <2>3, <2>4 DEF CarriedInv
<1>8. ASSUME NEW c \in Calls, Sent(c) PROVE CarriedInv'
  <2>1. PICK p \in Processors : p = ProcOf[c]
    BY <1>2
  <2>2. /\ call[c] = "sending" /\ call' = [call EXCEPT ![c] = "waiting"]
        /\ requests' = [requests EXCEPT ![p] = requests[p] + 1]
        /\ UNCHANGED << taken, held, inbox, seen, pending >>
    BY <1>8, <2>1 DEF Sent
  <2>3. /\ \A d \in Calls : d # c => call'[d] = call[d]
        /\ call'[c] # "sending"
        /\ requests'[p] > 0
        /\ \A q \in Processors : q # p => requests'[q] = requests[q]
    BY <2>2 DEF TypeOK
  <2>4. ASSUME NEW q \in Processors, pending[q] # {} PROVE InFlight(q)'
    BY <1>1, <2>1, <2>2, <2>3, <2>4 DEF InFlight, Answers
  <2> QED BY <1>1, <2>1, <2>2, <2>3, <2>4 DEF CarriedInv
<1>9. ASSUME NEW c \in Calls, Return(c) \/ TimeOut(c) \/ Again(c) PROVE CarriedInv'
  <2>1. PICK to \in {"returned", "timedout", "idle"} : call' = [call EXCEPT ![c] = to]
    BY <1>9 DEF Return, TimeOut, Again
  <2>2. /\ call[c] # "sending" /\ UNCHANGED << taken, held, inbox, requests, seen >>
        /\ \/ pending' = pending
           \/ \E p \in Processors : pending' = [pending EXCEPT ![p] = pending[p] \ {c}]
    BY <1>2, <1>9 DEF Return, TimeOut, Again
  <2>3. \A d \in Calls : call'[d] = "sending" <=> call[d] = "sending"
    BY <2>1, <2>2 DEF TypeOK
  <2>4. \A q \in Processors : pending'[q] # {} => pending[q] # {}
    <3>1. pending \in [Processors -> SUBSET Calls]
      BY DEF TypeOK
    <3>2. ASSUME NEW p \in Processors, pending' = [pending EXCEPT ![p] = pending[p] \ {c}], NEW q \in Processors
          PROVE  pending'[q] \subseteq pending[q]
      BY <3>1, <3>2
    <3> QED BY <2>2, <3>2
  <2>5. ASSUME NEW q \in Processors, pending'[q] # {} PROVE InFlight(q)'
    BY <1>1, <2>2, <2>3, <2>4, <2>5 DEF InFlight, Answers
  <2> QED BY <1>1, <2>2, <2>3, <2>5 DEF CarriedInv
<1>10. CASE UNCHANGED vars
  BY <1>10, <1>1 DEF vars, CarriedInv, InFlight, Answers
<1>11. ~ ParticipantLeft /\ \A c \in Calls : ~ Cancel(c)
  BY <1>0 DEF ParticipantLeft, Cancel
<1> QED BY <1>3, <1>4, <1>5, <1>6, <1>7, <1>8, <1>9, <1>10, <1>11 DEF Next

\* In a behaviour without a fault (no absence, no cancellation, no lost message) a call that
\* finds the key taken shares a request that is in flight: no caller waits, under a key
\* that others hold, for an answer nobody has asked for (_processor.py, request_frame).
THEOREM SharedRequestsFly == Spec => PiggybackNeedsFault
<1>1. Init => CarriedInv
  BY ConstantsAssumption DEF Init, CarriedInv
<1>2. CarriedInv /\ TypeOK /\ [Next]_vars
      => [\A c \in Calls : faults = {} /\ call[c] = "idle" /\ call'[c] = "waiting" => InFlight(ProcOf[c])]_vars
  <2> SUFFICES ASSUME CarriedInv, TypeOK, Next, faults = {},
                      NEW c \in Calls, call[c] = "idle", call'[c] = "waiting"
               PROVE  InFlight(ProcOf[c])
    BY DEF vars
  <2>1. PICK d \in Calls : Request(d)
    <3>1. ~ UNCHANGED call
      OBVIOUS
    <3>2. \A d \in Calls : ~ (Sent(d) \/ Return(d) \/ TimeOut(d) \/ Cancel(d) \/ Again(d))
      BY DEF Sent, Return, TimeOut, Cancel, Again, TypeOK
    <3> QED BY <3>1, <3>2 DEF Next, TakeFrame, ParticipantLeft, HandleRequest, DispatchSignal, DispatchData, callVars
  <2>2. c = d /\ pending[ProcOf[c]] # {}
    BY <2>1 DEF Request, TypeOK
  <2>3. ProcOf[c] \in Processors
    BY ConstantsAssumption
  <2> QED BY <2>2, <2>3 DEF CarriedInv
<1> QED BY <1>1, <1>2, CarriedSteps, TypeCorrect, SnapshotsInOrder, PTL DEF Spec, PiggybackNeedsFault

-----------------------------------------------------------------------------
(* request_frame implements SharedSnapshot.                                *)

\* A future in the list is that of one of the process's calls, without an answer.
FuturesInv ==
  \A p \in Processors : \A c \in pending[p] :
    ProcOf[c] = p /\ result[c] = 0 /\ call[c] \in {"sending", "waiting", "cancelled"}

THEOREM FuturesKept == Spec => []FuturesInv
<1>1. Init => FuturesInv
  BY DEF Init, FuturesInv
<1>2. TypeOK /\ TypeOK' /\ DeliveredInOrder /\ FuturesInv /\ [Next]_vars => FuturesInv'
  <2> SUFFICES ASSUME TypeOK, TypeOK', DeliveredInOrder, FuturesInv, [Next]_vars,
                      NEW p \in Processors, NEW d \in pending'[p]
               PROVE  ProcOf[d] = p /\ result'[d] = 0 /\ call'[d] \in {"sending", "waiting", "cancelled"}
    BY DEF FuturesInv
  <2> USE DEF hubVars, callVars
  <2>0. d \in Calls /\ \A c \in pending[p] : c \in Calls
    BY DEF TypeOK
  <2>1. CASE UNCHANGED <<pending, call, result>>
    BY <2>1 DEF FuturesInv
  <2>2. ASSUME NEW q \in Processors, DispatchData(q)
        PROVE  ProcOf[d] = p /\ result'[d] = 0 /\ call'[d] \in {"sending", "waiting", "cancelled"}
    <3>1. q # p /\ d \in pending[p]
      BY <2>2 DEF DispatchData, TypeOK
    <3>2. d \notin pending[q]
      BY <3>1 DEF FuturesInv
    <3> QED BY <2>0, <2>2, <3>1, <3>2 DEF DispatchData, FuturesInv
  <2>3. ASSUME NEW c \in Calls, Request(c)
        PROVE  ProcOf[d] = p /\ result'[d] = 0 /\ call'[d] \in {"sending", "waiting", "cancelled"}
    <3>1. result' = result /\ result[c] = 0 /\ call' = [call EXCEPT ![c] = call'[c]]
          /\ call'[c] \in {"sending", "waiting"}
      BY <2>3 DEF Request, TypeOK, DeliveredInOrder
    <3>2. d \in pending[p] \/ (d = c /\ p = ProcOf[c])
      BY <2>3, ConstantsAssumption DEF Request, TypeOK
    <3>3. CASE d = c /\ p = ProcOf[c]
      BY <3>1, <3>3
    <3>4. CASE d # c /\ d \in pending[p]
      BY <2>0, <3>1, <3>4 DEF FuturesInv, TypeOK
    <3>5. CASE d = c /\ d \in pending[p]
      BY <3>1, <3>5 DEF FuturesInv
    <3> QED BY <3>2, <3>3, <3>4, <3>5
  <2>4. ASSUME NEW c \in Calls, Sent(c) \/ Return(c) \/ Cancel(c) \/ Again(c)
        PROVE  ProcOf[d] = p /\ result'[d] = 0 /\ call'[d] \in {"sending", "waiting", "cancelled"}
    <3>1. d \in pending[p]
      BY <2>4 DEF Sent, Return, Cancel, Again
    <3>2. ProcOf[d] = p /\ result[d] = 0 /\ call[d] \in {"sending", "waiting", "cancelled"}
      BY <3>1 DEF FuturesInv
    <3>3. CASE Sent(c) \/ Cancel(c)
      BY <2>0, <3>2, <3>3 DEF Sent, Cancel, TypeOK
    <3>4. CASE Return(c)
      BY <2>0, <3>2, <3>4 DEF Return, TypeOK
    <3>5. CASE Again(c)
      <4>1. c # d
        BY <3>1, <3>2, <3>5 DEF Again
      <4> QED BY <2>0, <3>2, <3>5, <4>1 DEF Again, TypeOK
    <3> QED BY <2>4, <3>3, <3>4, <3>5
  <2>5. ASSUME NEW c \in Calls, TimeOut(c)
        PROVE  ProcOf[d] = p /\ result'[d] = 0 /\ call'[d] \in {"sending", "waiting", "cancelled"}
    <3>1. d \in pending[p] /\ (ProcOf[c] = p => d # c)
      BY <2>5, ConstantsAssumption DEF TimeOut, TypeOK
    <3>2. ProcOf[d] = p /\ result[d] = 0 /\ call[d] \in {"sending", "waiting", "cancelled"}
      BY <3>1 DEF FuturesInv
    <3>3. c # d
      BY <3>1, <3>2
    <3> QED BY <2>0, <2>5, <3>2, <3>3 DEF TimeOut, TypeOK
  <2> QED
    BY <2>1, <2>2, <2>3, <2>4, <2>5
       DEF Next, TakeFrame, ParticipantLeft, HandleRequest, DispatchSignal, vars
<1> QED BY <1>1, <1>2, TypeCorrect, SnapshotsInOrder, PTL DEF Spec

\* The futures that an answer finds in the list, but for the cancelled ones, are
\* those of all the calls that wait without one.
LEMMA ListedWait ==
  ASSUME TypeOK, WaitersRegistered, FuturesInv, NEW p \in Processors, NEW c \in Calls
  PROVE  c \in Snapshots!Waiters(p) <=> c \in pending[p] /\ call[c] # "cancelled"
<1>1. c \in Snapshots!Waiters(p) <=>
        ProcOf[c] = p /\ call[c] \in {"sending", "waiting"} /\ GotSeen[c] = 0
  BY DEF Snapshots!Waiters, StageSeen, TypeOK, States
<1>2. call[c] # "cancelled" => GotSeen[c] = result[c]
  BY DEF GotSeen
<1> QED BY <1>1, <1>2 DEF WaitersRegistered, FuturesInv, Live

\* Steps that a caller does not see.
LEMMA Unseen ==
  ASSUME UNCHANGED <<call, result>>
  PROVE  UNCHANGED <<StageSeen, GotSeen>>
BY DEF StageSeen, GotSeen

LEMMA AnswerSeen ==
  ASSUME TypeOK, DeliveredInOrder, WaitersRegistered, FuturesInv,
         NEW p \in Processors, DispatchData(p)
  PROVE  Snapshots!Answer(p)
<1> DEFINE f == Head(inbox[p]).frame
<1>1. f \in 1 .. taken /\ seen[p] <= f
  <2>1. inbox[p] # <<>> /\ inbox[p] \in Seq(Message)
    BY DEF DispatchData, Receive, TypeOK
  <2>2. Head(inbox[p]) = inbox[p][1] /\ 1 \in 1 .. Len(inbox[p])
    BY <2>1
  <2>3. f \in Frames
    <3>1. Head(inbox[p]) \in Message
      BY <2>1
    <3> QED BY <3>1 DEF Message
  <2>4. seen[p] <= f /\ f <= taken
    BY <2>2 DEF DeliveredInOrder
  <2>5. taken \in Nat
    BY ConstantsAssumption DEF TypeOK
  <2> QED BY <2>3, <2>4, <2>5, ConstantsAssumption DEF Frames
<1> HIDE DEF f
<1>2. ASSUME NEW c \in Snapshots!Waiters(p) PROVE asked[c] <= f
  <2>1. c \in Calls
    BY <1>2 DEF Snapshots!Waiters
  <2>2. c \in pending[p]
    BY <1>2, <2>1, ListedWait
  <2>3. asked[c] <= seen[p]
    BY <2>2 DEF DeliveredInOrder
  <2>4. asked[c] \in Nat /\ seen[p] \in Nat /\ f \in Nat
    BY <1>1, <2>1, ConstantsAssumption DEF TypeOK
  <2> QED BY <1>1, <2>3, <2>4
<1>3. GotSeen' = [c \in Calls |-> IF c \in Snapshots!Waiters(p) THEN f ELSE GotSeen[c]]
  <2>1. /\ call' = call
        /\ result' = [c \in Calls |-> IF c \in pending[p] THEN f ELSE result[c]]
    BY DEF DispatchData, callVars, f
  <2>2. ASSUME NEW c \in Calls
        PROVE  (IF call'[c] = "cancelled" THEN 0 ELSE result'[c]) =
               (IF c \in Snapshots!Waiters(p) THEN f ELSE GotSeen[c])
    BY <2>1, ListedWait DEF GotSeen
  <2> QED BY <2>2 DEF GotSeen
<1>4. StageSeen' = StageSeen /\ taken' = taken /\ asked' = asked
  BY DEF DispatchData, hubVars, StageSeen
<1> QED BY <1>1, <1>2, <1>3, <1>4 DEF Snapshots!Answer

\* The key under which calls share a request, the sockets and the hub promise the
\* callers what SharedSnapshot says (ImplementsSnapshots): every call that waits
\* in a process gets the frame that comes there, all the same one, and none an
\* older one than it asked for, for any processors, calls, queues and faults.
THEOREM SnapshotsImplemented == Spec => ImplementsSnapshots
<1>1. Init => Snapshots!Init
  BY DEF Init, Snapshots!Init, StageSeen, GotSeen
<1>2. TypeOK /\ DeliveredInOrder /\ WaitersRegistered /\ FuturesInv /\ [Next]_vars
      => [Snapshots!Next]_(Snapshots!vars)
  <2> SUFFICES ASSUME TypeOK, DeliveredInOrder, WaitersRegistered, FuturesInv, [Next]_vars
               PROVE  [Snapshots!Next]_(Snapshots!vars)
    OBVIOUS
  <2> USE DEF hubVars, callVars
  <2>1. CASE TakeFrame
    BY <2>1, Unseen DEF TakeFrame, Snapshots!Next, Snapshots!Take
  <2>2. CASE UNCHANGED <<taken, call, asked, result>>
    BY <2>2, Unseen DEF Snapshots!vars
  <2>3. ASSUME NEW p \in Processors, DispatchData(p) PROVE Snapshots!Next
    BY <2>3, AnswerSeen DEF Snapshots!Next
  <2>4. ASSUME NEW c \in Calls, Request(c) PROVE Snapshots!Ask(c)
    <3>1. StageSeen[c] = "idle" /\ StageSeen' = [StageSeen EXCEPT ![c] = "waiting"]
      BY <2>4 DEF Request, StageSeen, TypeOK
    <3>2. GotSeen' = GotSeen
      BY <2>4 DEF Request, GotSeen, TypeOK
    <3>3. seen[ProcOf[c]] \in 1 .. taken
      <4>1. ProcOf[c] \in Processors
        BY ConstantsAssumption
      <4>2. seen[ProcOf[c]] \in Nat /\ taken \in Nat
        BY <4>1, ConstantsAssumption DEF TypeOK
      <4>3. seen[ProcOf[c]] > 0 /\ seen[ProcOf[c]] <= taken
        BY <2>4, <4>1 DEF Request, DeliveredInOrder
      <4> QED BY <4>2, <4>3
    <3> QED BY <2>4, <3>1, <3>2, <3>3 DEF Request, Snapshots!Ask, Snapshots!Moves
  <2>5. ASSUME NEW c \in Calls, Sent(c) PROVE UNCHANGED Snapshots!vars
    BY <2>5 DEF Sent, Snapshots!vars, StageSeen, GotSeen, TypeOK
  <2>6. ASSUME NEW c \in Calls, Return(c) PROVE Snapshots!Return(c)
    BY <2>6 DEF Return, Snapshots!Return, Snapshots!Moves, StageSeen, GotSeen, TypeOK
  <2>7. ASSUME NEW c \in Calls, TimeOut(c) PROVE Snapshots!GiveUp(c)
    BY <2>7 DEF TimeOut, Snapshots!GiveUp, Snapshots!Moves, StageSeen, GotSeen, TypeOK
  <2>8. ASSUME NEW c \in Calls, Cancel(c) PROVE Snapshots!Cancel(c)
    BY <2>8 DEF Cancel, Snapshots!Cancel, Snapshots!Moves, StageSeen, GotSeen, TypeOK
  <2>9. ASSUME NEW c \in Calls, Again(c) PROVE Snapshots!Again(c)
    BY <2>9 DEF Again, Snapshots!Again, Snapshots!Moves, StageSeen, GotSeen, TypeOK
  <2> QED
    BY <2>1, <2>2, <2>3, <2>4, <2>5, <2>6, <2>7, <2>8, <2>9
       DEF Next, ParticipantLeft, HandleRequest, DispatchSignal, vars, Snapshots!Next
<1> QED
  BY <1>1, <1>2, TypeCorrect, SnapshotsInOrder, NoLostWakeup, FuturesKept, PTL
     DEF Spec, ImplementsSnapshots, Snapshots!Spec
=============================================================================
