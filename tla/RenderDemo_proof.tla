---------------------------- MODULE RenderDemo_proof ----------------------------
(***************************************************************************)
(* Proofs about the render demo: the scene of render-mcp, the turns of the *)
(* agent over it, and what a turn shows and says.                          *)
(***************************************************************************)
EXTENDS SceneAgent, TurnFeedback, SequenceTheorems, TLAPS

-----------------------------------------------------------------------------
(* The scene.                                                              *)

\* An id is of one object, and a new one has never been in use.
IdsUnique  == \A x, y \in Range(objects) : x.id = y.id => x = y
IdsCounted == \A x \in Range(objects) : x.id[2] < counters[x.id[1]]

SceneInv == SceneTypeOK /\ IdsUnique /\ IdsCounted /\ GoneIsNoticed

LEMMA AnswersAre == Answers = {"ok", "not_started", "backpressure"}
  BY DEF Answers

LEMMA ObjectFields ==
  /\ \A x \in Object : x.id \in Ids /\ x.val \in Vals /\ x = [id |-> x.id, val |-> x.val]
  /\ \A i \in Ids, v \in Vals : [id |-> i, val |-> v] \in Object
  /\ \A i \in Ids : i[1] \in Types /\ i[2] \in 0 .. MaxIds - 1 /\ i = <<i[1], i[2]>>
  BY DEF Object, Ids

LEMMA RangeOf ==
  ASSUME NEW S, NEW s \in Seq(S)
  PROVE  /\ Range(s) = {s[k] : k \in 1 .. Len(s)} /\ Range(s) \subseteq S
         /\ \A e \in S : Append(s, e) \in Seq(S) /\ Range(Append(s, e)) = Range(s) \union {e}
         /\ s # <<>> => Tail(s) \in Seq(S) /\ Range(Tail(s)) \subseteq Range(s) /\ Head(s) \in Range(s)
<1>1. Range(s) = {s[k] : k \in 1 .. Len(s)} /\ Range(s) \subseteq S
  BY DEF Range
<1>2. ASSUME NEW e \in S
      PROVE  Append(s, e) \in Seq(S) /\ Range(Append(s, e)) = Range(s) \union {e}
  <2>1. /\ Append(s, e) \in Seq(S) /\ Len(Append(s, e)) = Len(s) + 1
        /\ \A k \in 1 .. Len(s) : Append(s, e)[k] = s[k]
        /\ Append(s, e)[Len(s) + 1] = e
    BY AppendProperties
  <2>2. DOMAIN Append(s, e) = 1 .. Len(s) + 1 /\ DOMAIN s = 1 .. Len(s) /\ Len(s) \in Nat
    BY <2>1
  <2> QED BY <2>1, <2>2 DEF Range
<1>3. ASSUME s # <<>>
      PROVE  Tail(s) \in Seq(S) /\ Range(Tail(s)) \subseteq Range(s) /\ Head(s) \in Range(s)
  <2>1. /\ Tail(s) \in Seq(S) /\ Len(Tail(s)) = Len(s) - 1 /\ Len(s) \in Nat /\ Len(s) > 0
        /\ \A k \in 1 .. Len(Tail(s)) : Tail(s)[k] = s[k + 1]
        /\ DOMAIN Tail(s) = 1 .. Len(s) - 1 /\ DOMAIN s = 1 .. Len(s)
    BY <1>3, HeadTailProperties
  <2>2. Head(s) = s[1]
    BY <1>3
  <2> QED BY <2>1, <2>2 DEF Range
<1> QED BY <1>1, <1>2, <1>3

\* An update writes one object of the scene, or of what a resync has yet to send.
LEMMA WrittenIs ==
  ASSUME NEW s \in Seq(Object), NEW i \in Ids, NEW v \in Vals
  PROVE  /\ Written(s, i, v) \in Seq(Object)
         /\ \A y \in Range(Written(s, i, v)) : \E x \in Range(s) :
              y = IF x.id = i THEN [id |-> i, val |-> v] ELSE x
         /\ \A x \in Range(s) :
              (IF x.id = i THEN [id |-> i, val |-> v] ELSE x) \in Range(Written(s, i, v))
<1>1. /\ Len(Written(s, i, v)) = Len(s) /\ DOMAIN Written(s, i, v) = 1 .. Len(s)
      /\ \A k \in 1 .. Len(s) : s[k] \in Object
           /\ Written(s, i, v)[k] = IF s[k].id = i THEN [id |-> i, val |-> v] ELSE s[k]
  BY ObjectFields DEF Written
<1>2. Written(s, i, v) \in Seq(Object)
  <2>1. Written(s, i, v) \in [1 .. Len(s) -> Object]
    BY <1>1, ObjectFields DEF Written
  <2> QED BY <2>1
<1> QED BY <1>1, <1>2 DEF Range

LEMMA WithoutIs ==
  ASSUME objects \in Seq(Object), NEW i \in Known
  PROVE  Without(i) \in Seq(Object) /\ Range(Without(i)) \subseteq Range(objects)
<1>1. PICK k \in 1 .. Len(objects) : Without(i) = RemoveAt(objects, k)
  <2> DEFINE k0 == CHOOSE j \in DOMAIN objects : objects[j].id = i
  <2>1. \E j \in DOMAIN objects : objects[j].id = i
    BY DEF Known, Range
  <2>2. k0 \in DOMAIN objects /\ DOMAIN objects = 1 .. Len(objects)
    BY <2>1
  <2>3. Without(i) = RemoveAt(objects, k0)
    BY DEF Without
  <2> HIDE DEF k0
  <2> QED BY <2>2, <2>3
<1> DEFINE a == SubSeq(objects, 1, k - 1)
           b == SubSeq(objects, k + 1, Len(objects))
<1>2. /\ a \in Seq(Object) /\ Len(a) = k - 1
      /\ \A j \in 1 .. k - 1 : a[j] = objects[j]
  <2>1. \A j \in 1 .. k - 1 : objects[j] \in Object
    OBVIOUS
  <2> QED BY <2>1, SubSeqProperties
<1>3. /\ b \in Seq(Object) /\ Len(b) = Len(objects) - k
      /\ \A j \in 1 .. Len(objects) - k : b[j] = objects[k + j]
  <2>1. \A j \in k + 1 .. Len(objects) : objects[j] \in Object
    OBVIOUS
  <2>2. /\ b \in Seq(Object) /\ Len(b) = IF k + 1 <= Len(objects) THEN Len(objects) - (k + 1) + 1 ELSE 0
        /\ \A j \in 1 .. Len(objects) - (k + 1) + 1 : b[j] = objects[k + 1 + j - 1]
    BY <2>1, SubSeqProperties, Len(objects) \in Nat
  <2> HIDE DEF b
  <2> QED BY <2>2, Len(objects) \in Nat
<1> HIDE DEF a, b
<1>4. Range(a) \subseteq Range(objects) /\ Range(b) \subseteq Range(objects)
  <2>1. DOMAIN a = 1 .. k - 1 /\ DOMAIN b = 1 .. Len(objects) - k /\ DOMAIN objects = 1 .. Len(objects)
    BY <1>2, <1>3
  <2>2. \A j \in 1 .. k - 1 : j \in DOMAIN objects
    BY <2>1, Len(objects) \in Nat
  <2>3. \A j \in 1 .. Len(objects) - k : k + j \in DOMAIN objects
    BY <2>1, Len(objects) \in Nat
  <2>4. \A j \in DOMAIN a : a[j] \in Range(objects)
    BY <1>2, <2>1, <2>2 DEF Range
  <2>5. \A j \in DOMAIN b : b[j] \in Range(objects)
    BY <1>3, <2>1, <2>3 DEF Range
  <2> QED BY <2>4, <2>5 DEF Range
<1>5. a \o b \in Seq(Object) /\ Range(a \o b) = Range(a) \union Range(b)
  BY <1>2, <1>3, RangeConcatenation
<1>6. Without(i) = a \o b
  BY <1>1 DEF RemoveAt, a, b
<1> QED BY <1>4, <1>5, <1>6

\* A message goes into the socket's queue whole, in part or not at all.
LEMMA Forwards ==
  ASSUME NEW msgs \in Seq(Message), NEW answer, Forward(msgs, answer),
         wire \in Seq(Message), Len(wire) <= HighWater, missed \in BOOLEAN, resyncing \in BOOLEAN
  PROVE  wire' \in Seq(Message) /\ Len(wire') <= HighWater /\ missed' \in BOOLEAN
<1>0. HighWater \in Nat /\ Room \in Nat /\ (lovr = "up" => Len(wire) + Room = HighWater)
      /\ (lovr # "up" => Room = 0) /\ Len(wire) \in Nat /\ Len(msgs) \in Nat
  BY SceneAssumption DEF Room
<1>1. CASE ~started
  BY <1>1 DEF Forward
<1>2. CASE wire' = wire
  BY <1>2 DEF Forward
<1>3. CASE Room >= Len(msgs) /\ wire' = wire \o msgs /\ missed' = missed
  <2>1. wire \o msgs \in Seq(Message) /\ Len(wire \o msgs) = Len(wire) + Len(msgs)
    BY ConcatProperties
  <2>2. Len(msgs) = 0 => wire \o msgs = wire
    BY ConcatEmptySeq
  <2> QED BY <1>0, <1>3, <2>1, <2>2
<1>4. CASE Room < Len(msgs) /\ wire' = wire \o SubSeq(msgs, 1, Room) /\ missed' = TRUE
  <2>1. SubSeq(msgs, 1, Room) \in Seq(Message) /\ Len(SubSeq(msgs, 1, Room)) = Room
    <3>1. \A j \in 1 .. Room : msgs[j] \in Message
      BY <1>0, <1>4
    <3> QED BY <1>0, <3>1, SubSeqProperties
  <2>2. /\ wire \o SubSeq(msgs, 1, Room) \in Seq(Message)
        /\ Len(wire \o SubSeq(msgs, 1, Room)) = Len(wire) + Room
    BY <2>1, ConcatProperties
  <2> QED BY <1>0, <1>4, <2>2
<1> QED BY <1>1, <1>2, <1>3, <1>4 DEF Forward

LEMMA RoomForOne ==
  ASSUME wire \in Seq(Message), Len(wire) <= HighWater, Room > 0, NEW m \in Message
  PROVE  Append(wire, m) \in Seq(Message) /\ Len(Append(wire, m)) <= HighWater /\ lovr = "up"
<1>1. HighWater \in Nat /\ Len(wire) \in Nat /\ Len(Append(wire, m)) = Len(wire) + 1
  BY SceneAssumption, AppendProperties
<1>2. lovr = "up" /\ HighWater - Len(wire) > 0
  BY DEF Room
<1> QED BY <1>1, <1>2, AppendProperties

\* What is left of the scene's invariant when a step has no say in the objects.
LEMMA SceneKept ==
  ASSUME SceneInv, UNCHANGED <<objects, counters>>
  PROVE  IdsUnique' /\ IdsCounted'
  BY DEF SceneInv, IdsUnique, IdsCounted

LEMMA SceneStarts == SceneInit => SceneInv
<1> SUFFICES ASSUME SceneInit PROVE SceneInv
  OBVIOUS
<1>1. SceneTypeOK
  <2>1. {started, failed, envFile, resyncing, missed} \subseteq BOOLEAN
    BY DEF SceneInit
  <2>2. counters \in [Types -> 0 .. MaxIds] /\ Len(wire) <= HighWater
    BY SceneAssumption DEF SceneInit
  <2>3. starts \in 0 .. MaxStarts /\ launches \in 0 .. MaxLaunches
    BY SceneAssumption DEF SceneInit
  <2> QED BY <2>1, <2>2, <2>3 DEF SceneInit, SceneTypeOK
<1>2. Range(objects) = {}
  BY DEF SceneInit, Range
<1> QED BY <1>1, <1>2 DEF SceneInit, SceneInv, IdsUnique, IdsCounted, GoneIsNoticed

LEMMA SceneSteps ==
  ASSUME SceneInv, SceneStep
  PROVE  SceneInv' /\ UNCHANGED <<objects, counters>>
<1> USE SceneAssumption DEF SceneInv, SceneTypeOK, GoneIsNoticed, server, renderer
<1>0. SUFFICES SceneTypeOK' /\ GoneIsNoticed' /\ UNCHANGED <<objects, counters>>
  BY SceneKept
<1>1. CASE NoLaunch
  BY <1>1 DEF NoLaunch, Idle
<1>2. CASE LaunchCrash
  BY <1>2 DEF LaunchCrash, Idle
<1>3. CASE Launch
  <2>1. wire' \in Seq(Message) /\ Len(wire') <= HighWater /\ todo' \in Seq(Object)
    BY <1>3 DEF Launch
  <2>2. starts' \in 0 .. MaxStarts /\ launches' \in 0 .. MaxLaunches
    BY <1>3 DEF Launch, Idle
  <2>3. {started', failed', envFile', resyncing', missed'} \subseteq BOOLEAN
    BY <1>3 DEF Launch
  <2> QED BY <1>3, <2>1, <2>2, <2>3 DEF Launch
<1>4. CASE Resync
  <2>1. Head(todo) \in Object /\ Tail(todo) \in Seq(Object)
    BY <1>4, HeadTailProperties DEF Resync
  <2>2. AddMsg(Head(todo)) \in Message
    BY <2>1, ObjectFields DEF AddMsg, Message
  <2>3. CASE Room > 0 /\ wire' = Append(wire, AddMsg(Head(todo))) /\ UNCHANGED parked
    <3>1. wire' \in Seq(Message) /\ Len(wire') <= HighWater
      BY <2>2, <2>3, RoomForOne
    <3> QED BY <1>4, <2>1, <2>3, <3>1 DEF Resync
  <2>4. CASE parked' = {Head(todo)} /\ UNCHANGED wire
    BY <1>4, <2>1, <2>4 DEF Resync
  <2> QED BY <1>4, <2>3, <2>4 DEF Resync
<1>5. CASE GiveUp
  BY <1>5 DEF GiveUp
<1>6. CASE Advertise
  BY <1>6 DEF Advertise
<1>7. CASE Watch
  BY <1>7 DEF Watch
<1>8. CASE EnvFileWritten
  BY <1>8 DEF EnvFileWritten
<1>9. CASE Connect
  BY <1>9 DEF Connect
<1>10. CASE Exit
  BY <1>10 DEF Exit
<1>11. CASE Drain
  <2>1. /\ Head(wire) \in Message /\ Tail(wire) \in Seq(Message)
        /\ Len(Tail(wire)) = Len(wire) - 1 /\ Len(wire) \in Nat
    BY <1>11, HeadTailProperties DEF Drain
  <2>2. shown' \subseteq Object
    <3>1. PICK m \in Message : m = Head(wire)
      BY <2>1
    <3>2. m.op \in {"add", "update"} => [id |-> m.id, val |-> m.val] \in Object
      BY ObjectFields DEF Message
    <3> QED BY <1>11, <3>1, <3>2 DEF Drain
  <2> QED BY <1>11, <2>1, <2>2 DEF Drain
<1>12. CASE Unpark
  <2>1. PICK o \in parked : Room > 0 /\ wire' = Append(wire, AddMsg(o))
    BY <1>12 DEF Unpark
  <2>2. AddMsg(o) \in Message
    BY <2>1, ObjectFields DEF AddMsg, Message
  <2>3. wire' \in Seq(Message) /\ Len(wire') <= HighWater
    BY <2>1, <2>2, RoomForOne
  <2> QED BY <1>12, <2>3 DEF Unpark
<1> QED BY <1>1, <1>2, <1>3, <1>4, <1>5, <1>6, <1>7, <1>8, <1>9, <1>10, <1>11, <1>12 DEF SceneStep

LEMMA StartSteps ==
  ASSUME SceneInv, NEW status, StartXr(status)
  PROVE  SceneInv' /\ UNCHANGED <<objects, counters>>
<1> USE SceneAssumption DEF SceneInv, SceneTypeOK, GoneIsNoticed, renderer
<1>1. SceneTypeOK' /\ GoneIsNoticed' /\ UNCHANGED <<objects, counters>>
  BY DEF StartXr
<1> QED BY <1>1, SceneKept

\* A new object takes the next id of its type.
LEMMA IdsGrow ==
  ASSUME SceneInv, NEW type \in Types, NEW val \in Vals, CountId(type)
  PROVE  /\ counters' \in [Types -> 0 .. MaxIds]
         /\ NewObject(type, val) \in Object
         /\ NewObject(type, val).id = <<type, counters[type]>>
         /\ \A t \in Types : counters[t] <= counters'[t]
         /\ counters'[type] = counters[type] + 1
<1> USE SceneAssumption DEF SceneInv, SceneTypeOK, CountId
<1>1. counters[type] \in 0 .. MaxIds - 1 /\ \A t \in Types : counters[t] \in Nat
  OBVIOUS
<1>2. <<type, counters[type]>> \in Ids
  BY <1>1 DEF Ids
<1>3. /\ counters' \in [Types -> 0 .. MaxIds] /\ counters'[type] = counters[type] + 1
      /\ \A t \in Types : t # type => counters'[t] = counters[t]
  BY <1>1
<1>4. \A t \in Types : counters[t] <= counters'[t]
  BY <1>1, <1>3
<1> QED BY <1>2, <1>3, <1>4, ObjectFields DEF NewObject

Counted(S) == \A x \in S : x.id[2] < counters[x.id[1]]

LEMMA Grown ==
  ASSUME SceneInv, NEW S \in SUBSET Object, Counted(S),
         counters' \in [Types -> Nat], \A t \in Types : counters[t] <= counters'[t]
  PROVE  \A x \in S : x.id[2] < counters'[x.id[1]]
<1> SUFFICES ASSUME NEW x \in S PROVE x.id[2] < counters'[x.id[1]]
  OBVIOUS
<1>1. x.id[1] \in Types /\ x.id[2] \in Int
  BY ObjectFields, SceneAssumption
<1>2. x.id[2] < counters[x.id[1]] /\ counters[x.id[1]] <= counters'[x.id[1]]
  BY <1>1 DEF Counted
<1>3. counters[x.id[1]] \in Nat /\ counters'[x.id[1]] \in Nat
  BY <1>1, SceneAssumption DEF SceneInv, SceneTypeOK
<1> QED BY <1>1, <1>2, <1>3

LEMMA AddSteps ==
  ASSUME SceneInv, NEW type \in Types, NEW val \in Vals, NEW answer,
         AddPrimitive(type, val, answer)
  PROVE  /\ SceneInv' /\ Range(objects) \subseteq Range(objects')
         /\ Range(objects') = Range(objects) \union {NewObject(type, val)}
         /\ \A t \in Types : counters[t] <= counters'[t]
         /\ NewObject(type, val).id \notin Known
         /\ \A S \in SUBSET Object : Counted(S) => \A x \in S : x.id # NewObject(type, val).id
<1> DEFINE o == NewObject(type, val)
<1>1. /\ counters' \in [Types -> 0 .. MaxIds] /\ o \in Object /\ o.id = <<type, counters[type]>>
      /\ \A t \in Types : counters[t] <= counters'[t]
      /\ counters'[type] = counters[type] + 1
  BY IdsGrow DEF AddPrimitive
<1>2. objects \in Seq(Object) /\ counters[type] \in Nat
  BY SceneAssumption DEF SceneInv, SceneTypeOK
<1>3. objects' = Append(objects, o) /\ Forward(<<AddMsg(o)>>, answer)
      /\ UNCHANGED <<started, failed, envFile, starts, todo, parked, resyncing, lovr, launches, shown>>
  BY DEF AddPrimitive
<1> HIDE DEF o
<1>4. objects' \in Seq(Object) /\ Range(objects') = Range(objects) \union {o}
  BY <1>1, <1>2, <1>3, RangeOf
<1>5. \A S \in SUBSET Object : Counted(S) => \A x \in S : x.id # o.id
  BY <1>1, <1>2 DEF Counted
<1>6. Counted(Range(objects)) /\ Range(objects) \subseteq Object
  BY <1>2, RangeOf DEF SceneInv, IdsCounted, Counted
<1>7. IdsUnique'
  BY <1>4, <1>5, <1>6 DEF SceneInv, IdsUnique
<1>8. IdsCounted'
  <2>1. \A x \in Range(objects) : x.id[2] < counters'[x.id[1]]
    BY <1>1, <1>6, Grown, SceneAssumption
  <2>2. o.id[2] < counters'[o.id[1]]
    BY <1>1, <1>2
  <2> QED BY <1>4, <2>1, <2>2 DEF IdsCounted
<1>9. wire' \in Seq(Message) /\ Len(wire') <= HighWater /\ missed' \in BOOLEAN
  <2>1. <<AddMsg(o)>> \in Seq(Message)
    BY <1>1, ObjectFields DEF AddMsg, Message
  <2> QED BY <2>1, <1>3, Forwards DEF SceneInv, SceneTypeOK
<1>10. SceneTypeOK' /\ GoneIsNoticed'
  BY <1>1, <1>3, <1>4, <1>9 DEF SceneInv, SceneTypeOK, GoneIsNoticed
<1>11. o.id \notin Known
  BY <1>5, <1>6 DEF Known
<1> QED BY <1>1, <1>4, <1>5, <1>7, <1>8, <1>10, <1>11 DEF SceneInv, o

LEMMA KnownIs ==
  ASSUME SceneInv, NEW i \in Known
  PROVE  /\ i \in Ids /\ Lookup(i) \in Range(objects) /\ Lookup(i).id = i /\ Lookup(i) \in Object
         /\ \A x \in Range(objects) : x.id = i => x = Lookup(i)
<1>1. Range(objects) \subseteq Object
  BY RangeOf DEF SceneInv, SceneTypeOK
<1>2. \E x \in Range(objects) : x.id = i
  BY DEF Known
<1>3. Lookup(i) \in Range(objects) /\ Lookup(i).id = i
  BY <1>2 DEF Lookup
<1> QED BY <1>1, <1>3, ObjectFields DEF SceneInv, IdsUnique

LEMMA UpdateSteps ==
  ASSUME SceneInv, NEW i, NEW val \in Vals, NEW answer, UpdatePrimitive(i, val, answer)
  PROVE  /\ SceneInv' /\ UNCHANGED counters /\ i \in Known
         /\ [id |-> i, val |-> val] \in Range(objects')
         /\ \A x \in Range(objects) : x.id # i => x \in Range(objects')
         /\ Known' = Known
<1>1. /\ i \in Known /\ objects' = Written(objects, i, val) /\ todo' = Written(todo, i, val)
      /\ Update(i, val, answer)
      /\ UNCHANGED <<counters, started, failed, envFile, starts, parked, resyncing, lovr, launches, shown>>
  BY DEF UpdatePrimitive
<1>2. /\ objects \in Seq(Object) /\ todo \in Seq(Object) /\ i \in Ids
      /\ Range(objects) \subseteq Object
  BY <1>1, KnownIs, RangeOf DEF SceneInv, SceneTypeOK
<1> DEFINE o == [id |-> i, val |-> val]
<1>3. o \in Object /\ o.id = i
  BY <1>2, ObjectFields
<1> HIDE DEF o
<1>4. /\ objects' \in Seq(Object)
      /\ \A y \in Range(objects') : \E x \in Range(objects) : y = IF x.id = i THEN o ELSE x
      /\ \A x \in Range(objects) : (IF x.id = i THEN o ELSE x) \in Range(objects')
  BY <1>1, <1>2, WrittenIs DEF o
<1>5. todo' \in Seq(Object)
  BY <1>1, <1>2, WrittenIs
<1>6. o \in Range(objects')
  BY <1>1, <1>4 DEF Known
<1>7. \A y \in Range(objects') : \E x \in Range(objects) : x.id = y.id
  BY <1>3, <1>4
<1>8. Known' = Known
  BY <1>3, <1>4, <1>6, <1>7, <1>1 DEF Known
<1>9. IdsUnique'
  BY <1>3, <1>4 DEF SceneInv, IdsUnique
<1>10. IdsCounted'
  BY <1>1, <1>3, <1>4, <1>7 DEF SceneInv, IdsCounted
<1>11. wire' \in Seq(Message) /\ Len(wire') <= HighWater /\ missed' \in BOOLEAN
  <2>1. CASE UNCHANGED <<wire, missed>>
    BY <2>1 DEF SceneInv, SceneTypeOK
  <2>2. CASE Forward(<<[op |-> "update", id |-> i, val |-> val]>>, answer)
    <3>1. <<[op |-> "update", id |-> i, val |-> val]>> \in Seq(Message)
      BY <1>2 DEF Message
    <3> QED BY <2>2, <3>1, Forwards DEF SceneInv, SceneTypeOK
  <2> QED BY <1>1, <2>1, <2>2 DEF Update
<1>12. SceneTypeOK' /\ GoneIsNoticed'
  BY <1>1, <1>4, <1>5, <1>11 DEF SceneInv, SceneTypeOK, GoneIsNoticed
<1> QED BY <1>1, <1>4, <1>6, <1>8, <1>9, <1>10, <1>12 DEF SceneInv, o

LEMMA RemoveSteps ==
  ASSUME SceneInv, NEW i, NEW answer, RemovePrimitive(i, answer)
  PROVE  SceneInv' /\ UNCHANGED counters /\ Range(objects') \subseteq Range(objects)
<1>1. /\ i \in Known /\ objects' = Without(i)
      /\ Forward(<<[op |-> "remove", id |-> i]>>, answer)
      /\ UNCHANGED <<counters, started, failed, envFile, starts, todo, parked, resyncing, lovr, launches, shown>>
  BY DEF RemovePrimitive
<1>2. objects' \in Seq(Object) /\ Range(objects') \subseteq Range(objects) /\ i \in Ids
  BY <1>1, WithoutIs, KnownIs DEF SceneInv, SceneTypeOK
<1>3. wire' \in Seq(Message) /\ Len(wire') <= HighWater /\ missed' \in BOOLEAN
  <2>1. <<[op |-> "remove", id |-> i]>> \in Seq(Message)
    BY <1>2 DEF Message
  <2> QED BY <1>1, <2>1, Forwards DEF SceneInv, SceneTypeOK
<1>4. SceneTypeOK' /\ GoneIsNoticed'
  BY <1>1, <1>2, <1>3 DEF SceneInv, SceneTypeOK, GoneIsNoticed
<1>5. IdsUnique' /\ IdsCounted'
  BY <1>1, <1>2 DEF SceneInv, IdsUnique, IdsCounted
<1> QED BY <1>1, <1>2, <1>4, <1>5 DEF SceneInv

LEMMA ChangeSteps ==
  ASSUME SceneInv, NEW i, NEW type \in Types, NEW val \in Vals, NEW answer,
         ChangeType(i, type, val, answer)
  PROVE  SceneInv'
<1> DEFINE o == NewObject(type, val)
<1>1. /\ counters' \in [Types -> 0 .. MaxIds] /\ o \in Object /\ o.id = <<type, counters[type]>>
      /\ \A t \in Types : counters[t] <= counters'[t]
      /\ counters'[type] = counters[type] + 1
  BY IdsGrow DEF ChangeType
<1>2. /\ i \in Known /\ objects' = Append(Without(i), o) /\ todo' = Written(todo, i, val)
      /\ Forward(<<[op |-> "remove", id |-> i], AddMsg(o)>>, answer)
      /\ UNCHANGED <<started, failed, envFile, starts, parked, resyncing, lovr, launches, shown>>
  BY DEF ChangeType
<1>3. /\ objects \in Seq(Object) /\ todo \in Seq(Object) /\ i \in Ids /\ counters[type] \in Nat
      /\ Range(objects) \subseteq Object
  BY <1>2, KnownIs, RangeOf, SceneAssumption DEF SceneInv, SceneTypeOK
<1> HIDE DEF o
<1>4. /\ objects' \in Seq(Object) /\ todo' \in Seq(Object)
      /\ Range(objects') \subseteq Range(objects) \union {o}
  <2>1. PICK w \in Seq(Object) : w = Without(i) /\ Range(w) \subseteq Range(objects)
    BY <1>2, <1>3, WithoutIs
  <2>2. Append(w, o) \in Seq(Object) /\ Range(Append(w, o)) = Range(w) \union {o}
    BY <1>1, <2>1, RangeOf
  <2>3. Written(todo, i, val) \in Seq(Object)
    BY <1>3, WrittenIs
  <2> QED BY <1>2, <2>1, <2>2, <2>3
<1>5. Counted(Range(objects)) /\ \A x \in Range(objects) : x.id # o.id
  BY <1>1, <1>3 DEF SceneInv, IdsCounted, Counted
<1>6. IdsUnique'
  BY <1>4, <1>5 DEF SceneInv, IdsUnique
<1>7. IdsCounted'
  <2>1. \A x \in Range(objects) : x.id[2] < counters'[x.id[1]]
    <3>1. counters' \in [Types -> Nat]
      BY <1>1, SceneAssumption
    <3>2. PICK S : S = Range(objects)
      OBVIOUS
    <3>3. S \in SUBSET Object /\ Counted(S)
      BY <1>3, <1>5, <3>2
    <3>4. \A x \in S : x.id[2] < counters'[x.id[1]]
      BY <1>1, <3>1, <3>3, Grown
    <3> QED BY <3>2, <3>4
  <2>2. o.id[2] < counters'[o.id[1]]
    BY <1>1, <1>3
  <2> QED BY <1>4, <2>1, <2>2 DEF IdsCounted
<1>8. wire' \in Seq(Message) /\ Len(wire') <= HighWater /\ missed' \in BOOLEAN
  <2>1. [op |-> "remove", id |-> i] \in Message /\ AddMsg(o) \in Message
    BY <1>1, <1>3, ObjectFields DEF AddMsg, Message
  <2>2. <<[op |-> "remove", id |-> i], AddMsg(o)>> \in Seq(Message)
    BY <2>1
  <2> QED BY <1>2, <2>2, Forwards DEF SceneInv, SceneTypeOK
<1>9. SceneTypeOK' /\ GoneIsNoticed'
  BY <1>1, <1>2, <1>4, <1>8 DEF SceneInv, SceneTypeOK, GoneIsNoticed
<1> QED BY <1>6, <1>7, <1>9 DEF SceneInv

\* Whatever the renderer does and whoever calls the tools: the scene is well typed,
\* ids are unique and never used again, and the flag by which calls are forwarded is
\* down once the watch task has seen the renderer's end (SceneDispatcher, RenderServer).
THEOREM SceneKeeps == SceneSpec => [](SceneTypeOK /\ IdsUnique /\ IdsCounted /\ GoneIsNoticed)
<1>1. ASSUME SceneInv, [SceneNext]_scene PROVE SceneInv'
  <2>1. CASE SceneStep
    BY <1>1, <2>1, SceneSteps
  <2>2. CASE ToolCall
    BY <1>1, <2>2, AddSteps, UpdateSteps, RemoveSteps, ChangeSteps DEF ToolCall
  <2>3. CASE StartCall
    BY <1>1, <2>3, StartSteps DEF StartCall
  <2>4. CASE UNCHANGED scene
    BY <1>1, <2>4 DEF SceneInv, SceneTypeOK, IdsUnique, IdsCounted, GoneIsNoticed, scene, server, renderer
  <2> QED BY <1>1, <2>1, <2>2, <2>3, <2>4 DEF SceneNext
<1>2. SceneInv => SceneTypeOK /\ IdsUnique /\ IdsCounted /\ GoneIsNoticed
  BY DEF SceneInv
<1> QED BY SceneStarts, <1>1, <1>2, PTL DEF SceneSpec

-----------------------------------------------------------------------------
(* What LOVR shows once it has read its queue.                             *)

\* Nothing that comes after message k of the queue is about the id.
LastAbout(w, i, k) == w[k].id = i /\ \A j \in 1 .. Len(w) : j > k => w[j].id # i
Unmentioned(w, i)  == \A j \in 1 .. Len(w) : w[j].id # i

\* Messages w turn the primitives s into ones with o, or into ones without the id.
EndsAs(w, s, o) ==
  \/ Unmentioned(w, o.id) /\ \A x \in Object : x \in s /\ x.id = o.id <=> x = o
  \/ \E k \in 1 .. Len(w) : LastAbout(w, o.id, k) /\ w[k].op # "remove" /\ w[k].val = o.val
Gone(w, s, i) ==
  \/ Unmentioned(w, i) /\ \A x \in s : x.id # i
  \/ \E k \in 1 .. Len(w) : LastAbout(w, i, k) /\ w[k].op = "remove"

\* LOVR knows the id when it reads message k.
Present(w, s, i, k) ==
  \/ /\ \E x \in s : x.id = i
     /\ \A j \in 1 .. k - 1 : w[j].id = i => w[j].op # "remove"
  \/ \E h \in 1 .. k - 1 :
       /\ w[h].id = i /\ w[h].op = "add"
       /\ \A j \in h .. k - 1 : w[j].id = i => w[j].op # "remove"
UpdatesLand(w, s) == \A k \in 1 .. Len(w) : w[k].op = "update" => Present(w, s, w[k].id, k)

ComesTo(w, s, rest, all) ==
  /\ \A o \in all : o \in rest \/ EndsAs(w, s, o)
  /\ \A i \in Ids : (\A o \in all : o.id # i) => Gone(w, s, i)
  /\ rest \subseteq all
  /\ UpdatesLand(w, s)

\* No id is twice in a list.
DistinctIds(q) == \A j, k \in 1 .. Len(q) : q[j].id = q[k].id => j = k

\* What the resync has yet to send, packed or not.
Left == Range(todo) \union parked

\* Until an operation is missed, what LOVR has, what it is sent and what the resync has
\* yet to send come to the scene.
MirrorInv ==
  /\ DistinctIds(objects) /\ DistinctIds(todo)
  /\ \A x \in parked, y \in Range(todo) : x.id # y.id
  /\ resyncing => ~ started
  /\ ~ resyncing => todo = << >> /\ parked = {}
  /\ (resyncing \/ started) /\ lovr \in {"booting", "up"} /\ ~ missed
       => ComesTo(wire, shown, Left, Range(objects))

LEMMA Appended ==
  ASSUME NEW w \in Seq(Message), NEW m \in Message, NEW s \in SUBSET Object,
         NEW v, v = Append(w, m)
  PROVE  /\ \A o \in Object : o.id # m.id /\ EndsAs(w, s, o) => EndsAs(v, s, o)
         /\ \A i \in Ids : i # m.id /\ Gone(w, s, i) => Gone(v, s, i)
         /\ m.op # "remove" => \A o \in Object : o.id = m.id /\ o.val = m.val => EndsAs(v, s, o)
         /\ m.op = "remove" => Gone(v, s, m.id)
         /\ UpdatesLand(w, s) /\ (m.op = "update" => Present(w, s, m.id, Len(w) + 1)) => UpdatesLand(v, s)
<1>1. /\ Len(w) \in Nat /\ Len(v) = Len(w) + 1 /\ v[Len(w) + 1] = m
      /\ \A j \in 1 .. Len(w) : v[j] = w[j]
  BY AppendProperties
<1>2. \A i : i # m.id => /\ Unmentioned(w, i) => Unmentioned(v, i)
                         /\ \A k \in 1 .. Len(w) : LastAbout(w, i, k) => LastAbout(v, i, k)
  BY <1>1 DEF Unmentioned, LastAbout
<1>3. LastAbout(v, m.id, Len(w) + 1) /\ Len(w) + 1 \in 1 .. Len(v)
  BY <1>1 DEF LastAbout
<1>4. ASSUME NEW o \in Object, o.id # m.id, EndsAs(w, s, o) PROVE EndsAs(v, s, o)
  BY <1>1, <1>2, <1>4 DEF EndsAs
<1>5. ASSUME NEW i \in Ids, i # m.id, Gone(w, s, i) PROVE Gone(v, s, i)
  BY <1>1, <1>2, <1>5 DEF Gone
<1>6. ASSUME m.op # "remove", NEW o \in Object, o.id = m.id, o.val = m.val PROVE EndsAs(v, s, o)
  BY <1>1, <1>3, <1>6 DEF EndsAs
<1>7. ASSUME m.op = "remove" PROVE Gone(v, s, m.id)
  BY <1>1, <1>3, <1>7 DEF Gone
<1>8. ASSUME UpdatesLand(w, s), m.op = "update" => Present(w, s, m.id, Len(w) + 1) PROVE UpdatesLand(v, s)
  <2>1. ASSUME NEW k \in 1 .. Len(w) + 1, NEW i, Present(w, s, i, k) PROVE Present(v, s, i, k)
    <3>1. \A j \in 1 .. k - 1 : v[j] = w[j]
      BY <1>1
    <3>2. CASE \E x \in s : x.id = i /\ \A j \in 1 .. k - 1 : w[j].id = i => w[j].op # "remove"
      BY <3>1, <3>2 DEF Present
    <3>3. ASSUME NEW h \in 1 .. k - 1, w[h].id = i, w[h].op = "add",
                 \A j \in h .. k - 1 : w[j].id = i => w[j].op # "remove"
          PROVE  Present(v, s, i, k)
      <4>1. v[h].id = i /\ v[h].op = "add" /\ \A j \in h .. k - 1 : j \in 1 .. k - 1
        BY <3>1, <3>3
      <4>2. \A j \in h .. k - 1 : v[j].id = i => v[j].op # "remove"
        BY <3>1, <3>3, <4>1
      <4> QED BY <4>1, <4>2 DEF Present
    <3> QED BY <2>1, <3>2, <3>3 DEF Present
  <2>2. ASSUME NEW k \in 1 .. Len(v), v[k].op = "update" PROVE Present(v, s, v[k].id, k)
    <3>1. CASE k = Len(w) + 1
      BY <1>1, <1>8, <2>1, <2>2, <3>1
    <3>2. CASE k \in 1 .. Len(w)
      <4>1. Present(w, s, w[k].id, k)
        BY <1>1, <1>8, <2>2, <3>2 DEF UpdatesLand
      <4> QED BY <1>1, <2>1, <3>2, <4>1
    <3> QED BY <1>1, <3>1, <3>2
  <2> QED BY <2>2 DEF UpdatesLand
<1> QED BY <1>4, <1>5, <1>6, <1>7, <1>8

\* An object that LOVR will show is there for an update that is sent now.
LEMMA LandsNow ==
  ASSUME NEW w \in Seq(Message), NEW s \in SUBSET Object, NEW o \in Object,
         NEW n, n = Len(w) + 1, EndsAs(w, s, o), UpdatesLand(w, s)
  PROVE  Present(w, s, o.id, n)
<1>0. Len(w) \in Nat
  BY LenProperties
<1>1. Len(w) \in Nat /\ n - 1 = Len(w)
  BY <1>0
<1>2. CASE Unmentioned(w, o.id) /\ \A x \in Object : x \in s /\ x.id = o.id <=> x = o
  BY <1>1, <1>2 DEF Present, Unmentioned
<1>3. ASSUME NEW k \in 1 .. Len(w), LastAbout(w, o.id, k), w[k].op # "remove"
      PROVE  Present(w, s, o.id, n)
  <2>1. w[k].id = o.id /\ \A j \in 1 .. Len(w) : j > k => w[j].id # o.id
    BY <1>3 DEF LastAbout
  <2>2. CASE w[k].op = "add"
    <3>1. \A j \in k .. Len(w) : w[j].id = o.id => w[j].op # "remove"
      <4>1. \A j \in k .. Len(w) : j = k \/ (j \in 1 .. Len(w) /\ j > k)
        BY <1>1
      <4> QED BY <1>3, <2>1, <4>1
    <3> QED BY <1>1, <2>1, <2>2, <3>1 DEF Present
  <2>3. CASE w[k].op = "update"
    <3>1. Present(w, s, o.id, k)
      BY <2>1, <2>3 DEF UpdatesLand
    <3>2. ASSUME NEW h \in 1 .. Len(w), h <= k, \A j \in h .. k - 1 : w[j].id = o.id => w[j].op # "remove"
          PROVE  \A j \in h .. Len(w) : w[j].id = o.id => w[j].op # "remove"
      <4>1. \A j \in h .. Len(w) : j \in h .. k - 1 \/ j = k \/ (j \in 1 .. Len(w) /\ j > k)
        BY <1>1
      <4> QED BY <1>3, <2>1, <3>2, <4>1
    <3>3. CASE \E x \in s : x.id = o.id /\ \A j \in 1 .. k - 1 : w[j].id = o.id => w[j].op # "remove"
      <4>1. \A j \in 1 .. Len(w) : w[j].id = o.id => w[j].op # "remove"
        BY <1>1, <3>2, <3>3
      <4> QED BY <1>1, <3>3, <4>1 DEF Present
    <3>4. ASSUME NEW h \in 1 .. k - 1, w[h].id = o.id, w[h].op = "add",
                 \A j \in h .. k - 1 : w[j].id = o.id => w[j].op # "remove"
          PROVE  Present(w, s, o.id, n)
      <4>1. h \in 1 .. Len(w) /\ h <= k
        BY <1>1
      <4>2. \A j \in h .. Len(w) : w[j].id = o.id => w[j].op # "remove"
        BY <3>2, <3>4, <4>1
      <4> QED BY <1>1, <3>4, <4>1, <4>2 DEF Present
    <3> QED BY <3>1, <3>3, <3>4 DEF Present
  <2>4. w[k].op \in {"add", "update", "remove"}
    BY DEF Message
  <2> QED BY <1>3, <2>2, <2>3, <2>4
<1>4. \/ Unmentioned(w, o.id) /\ \A x \in Object : x \in s /\ x.id = o.id <=> x = o
      \/ \E k \in 1 .. Len(w) : LastAbout(w, o.id, k) /\ w[k].op # "remove"
  BY DEF EndsAs
<1> QED BY <1>2, <1>3, <1>4

\* What LOVR makes of the message it reads.
Shows(m, s, t) ==
  LET rest == {x \in s : x.id # m.id}
  IN  t = IF m.op = "add" \/ (m.op = "update" /\ rest # s)
          THEN rest \union {[id |-> m.id, val |-> m.val]} ELSE rest

LEMMA ShownIs ==
  ASSUME NEW m \in Message, NEW s \in SUBSET Object, NEW t, Shows(m, s, t)
  PROVE  /\ t \subseteq Object
         /\ \A x : x.id # m.id => (x \in t <=> x \in s)
         /\ m.op = "remove" => \A x \in t : x.id # m.id
         /\ m.op = "add" \/ (m.op = "update" /\ \E x \in s : x.id = m.id)
              => \A x \in Object : x \in t /\ x.id = m.id <=> x.id = m.id /\ x.val = m.val
<1>1. m.op # "remove" => [id |-> m.id, val |-> m.val] \in Object
  BY ObjectFields DEF Message
<1>2. m.op \in {"add", "update", "remove"} /\ ("add" # "remove") /\ ("update" # "remove")
  BY DEF Message
<1>3. {x \in s : x.id # m.id} # s <=> \E x \in s : x.id = m.id
  OBVIOUS
<1>4. PICK rest : rest = {x \in s : x.id # m.id}
  OBVIOUS
<1>5. t = IF m.op = "add" \/ (m.op = "update" /\ rest # s)
          THEN rest \union {[id |-> m.id, val |-> m.val]} ELSE rest
  BY <1>4 DEF Shows
<1>6. PICK n : n = [id |-> m.id, val |-> m.val]
  OBVIOUS
<1>7. n.id = m.id /\ \A x \in Object : x.id = m.id /\ x.val = m.val <=> x = n
  BY <1>6, ObjectFields
<1>8. t = IF m.op = "add" \/ (m.op = "update" /\ \E x \in s : x.id = m.id) THEN rest \union {n} ELSE rest
  BY <1>3, <1>4, <1>5, <1>6
<1>9. t \subseteq Object
  BY <1>1, <1>2, <1>4, <1>6, <1>8
<1> QED BY <1>2, <1>4, <1>7, <1>8, <1>9

LEMMA ReadOne ==
  ASSUME NEW w \in Seq(Message), w # << >>, NEW s \in SUBSET Object, NEW t, Shows(Head(w), s, t),
         NEW v, v = Tail(w), UpdatesLand(w, s)
  PROVE  /\ \A o \in Object : EndsAs(w, s, o) => EndsAs(v, t, o)
         /\ \A i \in Ids : Gone(w, s, i) => Gone(v, t, i)
         /\ UpdatesLand(v, t)
<1>1. PICK m \in Message : m = w[1] /\ m = Head(w)
  OBVIOUS
<1>2. /\ Len(w) \in Nat \ {0} /\ Len(v) = Len(w) - 1
      /\ \A j \in 1 .. Len(v) : j + 1 \in 1 .. Len(w) /\ v[j] = w[j + 1]
      /\ \A j \in 1 .. Len(w) : j = 1 \/ (j - 1 \in 1 .. Len(v) /\ v[j - 1] = w[j])
  <2>1. Len(w) \in Nat \ {0} /\ Len(v) = Len(w) - 1 /\ \A j \in 1 .. Len(v) : v[j] = w[j + 1]
    BY HeadTailProperties
  <2> QED BY <2>1
<1>3. /\ t \subseteq Object
      /\ \A x : x.id # m.id => (x \in t <=> x \in s)
      /\ m.op = "remove" => \A x \in t : x.id # m.id
      /\ m.op = "add" \/ (m.op = "update" /\ \E x \in s : x.id = m.id)
           => \A x \in Object : x \in t /\ x.id = m.id <=> x.id = m.id /\ x.val = m.val
  <2>1. Shows(m, s, t)
    BY <1>1
  <2> QED BY <2>1, ShownIs
<1>4. \A i : Unmentioned(w, i) => m.id # i /\ Unmentioned(v, i)
  BY <1>1, <1>2 DEF Unmentioned
<1>5. \A i : \A k \in 2 .. Len(w) : LastAbout(w, i, k) => k - 1 \in 1 .. Len(v) /\ v[k - 1] = w[k] /\ LastAbout(v, i, k - 1)
  BY <1>2 DEF LastAbout
<1>6. \A i : LastAbout(w, i, 1) => m.id = i /\ Unmentioned(v, i)
  BY <1>1, <1>2 DEF LastAbout, Unmentioned
<1>7. m.op = "update" => \E x \in s : x.id = m.id
  BY <1>1, <1>2 DEF UpdatesLand, Present
<1>8. m.op \in {"add", "update", "remove"}
  BY DEF Message
<1>9. ASSUME NEW o \in Object, EndsAs(w, s, o) PROVE EndsAs(v, t, o)
  <2>1. CASE Unmentioned(w, o.id) /\ \A x \in Object : x \in s /\ x.id = o.id <=> x = o
    <3>1. \A x \in Object : x \in t /\ x.id = o.id <=> x = o
      BY <1>3, <1>4, <2>1
    <3> QED BY <1>4, <2>1, <3>1 DEF EndsAs
  <2>2. ASSUME NEW k \in 2 .. Len(w), LastAbout(w, o.id, k), w[k].op # "remove", w[k].val = o.val
        PROVE  EndsAs(v, t, o)
    BY <1>5, <2>2 DEF EndsAs
  <2>3. CASE LastAbout(w, o.id, 1) /\ w[1].op # "remove" /\ w[1].val = o.val
    <3>1. m.id = o.id /\ m.val = o.val /\ Unmentioned(v, o.id)
      BY <1>1, <1>6, <2>3
    <3>2. \A x \in Object : x \in t /\ x.id = m.id <=> x.id = m.id /\ x.val = m.val
      BY <1>1, <1>3, <1>7, <1>8, <2>3
    <3>3. \A x \in Object : x.id = o.id /\ x.val = o.val <=> x = o
      BY ObjectFields
    <3> QED BY <3>1, <3>2, <3>3 DEF EndsAs
  <2>4. \A k \in 1 .. Len(w) : k = 1 \/ k \in 2 .. Len(w)
    BY <1>2
  <2> QED BY <1>9, <2>1, <2>2, <2>3, <2>4 DEF EndsAs
<1>10. ASSUME NEW i \in Ids, Gone(w, s, i) PROVE Gone(v, t, i)
  <2>1. CASE Unmentioned(w, i) /\ \A x \in s : x.id # i
    <3>1. m.id # i /\ \A x \in t : x.id = i => x \in s
      BY <1>3, <1>4, <2>1
    <3> QED BY <1>4, <2>1, <3>1 DEF Gone
  <2>2. ASSUME NEW k \in 2 .. Len(w), LastAbout(w, i, k), w[k].op = "remove" PROVE Gone(v, t, i)
    BY <1>5, <2>2 DEF Gone
  <2>3. CASE LastAbout(w, i, 1) /\ w[1].op = "remove"
    BY <1>1, <1>3, <1>6, <2>3 DEF Gone
  <2>4. \A k \in 1 .. Len(w) : k = 1 \/ k \in 2 .. Len(w)
    BY <1>2
  <2> QED BY <1>10, <2>1, <2>2, <2>3, <2>4 DEF Gone
<1>11. ASSUME NEW k \in 1 .. Len(v), v[k].op = "update" PROVE Present(v, t, v[k].id, k)
  <2>1. PICK i : i = v[k].id
    OBVIOUS
  <2>2. PICK n \in 1 .. Len(w) : n = k + 1 /\ n - 1 = k
    BY <1>2
  <2>8. Present(w, s, i, n)
    BY <1>2, <1>11, <2>1, <2>2 DEF UpdatesLand
  <2>3. \A j \in 1 .. k - 1 : j + 1 \in 1 .. k /\ v[j] = w[j + 1]
    BY <1>2
  <2>4. ASSUME \E x \in s : x.id = i, \A j \in 1 .. k : w[j].id = i => w[j].op # "remove"
        PROVE  Present(v, t, i, k)
    <3>1. \E x \in t : x.id = i
      <4>1. CASE m.id # i
        BY <1>3, <2>4, <4>1
      <4>2. CASE m.id = i
        <5>1. m.op # "remove" /\ 1 \in 1 .. k
          BY <1>1, <1>2, <2>4, <4>2
        <5>2. [id |-> m.id, val |-> m.val] \in Object
          BY <5>1, ObjectFields DEF Message
        <5>3. \A x \in Object : x \in t /\ x.id = m.id <=> x.id = m.id /\ x.val = m.val
          BY <1>3, <1>7, <1>8, <5>1
        <5> QED BY <4>2, <5>2, <5>3
      <4> QED BY <4>1, <4>2
    <3>2. \A j \in 1 .. k - 1 : v[j].id = i => v[j].op # "remove"
      BY <2>3, <2>4
    <3> QED BY <3>1, <3>2 DEF Present
  <2>5. ASSUME NEW h \in 1 .. k, w[h].id = i, w[h].op = "add",
               \A j \in h .. k : w[j].id = i => w[j].op # "remove"
        PROVE  Present(v, t, i, k)
    <3>1. CASE h = 1
      <4>1. m.id = i /\ m.op = "add"
        BY <1>1, <2>5, <3>1
      <4>2. [id |-> m.id, val |-> m.val] \in Object
        BY <4>1, ObjectFields DEF Message
      <4>3. \E x \in t : x.id = i
        BY <1>3, <4>1, <4>2
      <4>4. \A j \in 1 .. k - 1 : v[j].id = i => v[j].op # "remove"
        BY <2>3, <2>5, <3>1
      <4> QED BY <4>3, <4>4 DEF Present
    <3>2. CASE h # 1
      <4>1. h - 1 \in 1 .. k - 1 /\ v[h - 1] = w[h]
        BY <1>2, <2>3, <3>2
      <4>2. \A j \in h - 1 .. k - 1 : j + 1 \in h .. k /\ v[j] = w[j + 1]
        BY <2>3, <4>1
      <4>3. \A j \in h - 1 .. k - 1 : v[j].id = i => v[j].op # "remove"
        BY <2>5, <4>2
      <4> QED BY <2>5, <4>1, <4>3 DEF Present
    <3> QED BY <3>1, <3>2
  <2>6. \/ /\ \E x \in s : x.id = i
           /\ \A j \in 1 .. k : w[j].id = i => w[j].op # "remove"
        \/ \E h \in 1 .. k : /\ w[h].id = i /\ w[h].op = "add"
                             /\ \A j \in h .. k : w[j].id = i => w[j].op # "remove"
    BY <2>2, <2>8 DEF Present
  <2>7. Present(v, t, i, k)
    BY <2>4, <2>5, <2>6
  <2> QED BY <2>1, <2>7
<1> QED BY <1>9, <1>10, <1>11 DEF UpdatesLand

\* One message more, and the scene it is about.
LEMMA AddComesTo ==
  ASSUME NEW w \in Seq(Message), NEW s \in SUBSET Object, NEW rest, NEW all \in SUBSET Object,
         ComesTo(w, s, rest, all), NEW o \in all, NEW v, v = Append(w, AddMsg(o)),
         NEW left, left \subseteq rest, rest \subseteq left \union {o},
         \A x \in all : x.id = o.id => x = o
  PROVE  ComesTo(v, s, left, all)
<1>1. PICK m \in Message : m = AddMsg(o) /\ m.id = o.id /\ m.val = o.val /\ m.op = "add"
  BY ObjectFields DEF AddMsg, Message
<1>2. v = Append(w, m) /\ o \in Object
  BY <1>1
<1>3. EndsAs(v, s, o) /\ UpdatesLand(v, s)
  BY <1>1, <1>2, Appended DEF ComesTo
<1>4. ASSUME NEW x \in all, x \notin left PROVE EndsAs(v, s, x)
  <2>1. CASE x = o
    BY <1>3, <2>1
  <2>2. CASE x # o
    <3>1. x.id # o.id /\ x \in Object /\ EndsAs(w, s, x)
      BY <1>4, <2>2 DEF ComesTo
    <3> QED BY <1>1, <1>2, <3>1, Appended
  <2> QED BY <2>1, <2>2
<1>5. ASSUME NEW i \in Ids, \A x \in all : x.id # i PROVE Gone(v, s, i)
  <2>1. i # m.id /\ Gone(w, s, i)
    BY <1>1, <1>5 DEF ComesTo
  <2> QED BY <1>1, <1>2, <2>1, Appended
<1>6. left \subseteq all
  BY DEF ComesTo
<1> QED BY <1>3, <1>4, <1>5, <1>6 DEF ComesTo

LEMMA AddComesAll ==
  ASSUME NEW w \in Seq(Message), NEW s \in SUBSET Object, NEW all \in SUBSET Object,
         ComesTo(w, s, {}, all), NEW o \in Object, NEW m, m = AddMsg(o), NEW v, v = Append(w, m),
         NEW both, both = all \union {o}, \A x \in all : x.id # o.id
  PROVE  ComesTo(v, s, {}, both)
<1>1. m \in Message /\ m.id = o.id /\ m.val = o.val /\ m.op = "add"
  BY ObjectFields DEF AddMsg, Message
<1>2. EndsAs(v, s, o) /\ UpdatesLand(v, s)
  BY <1>1, Appended DEF ComesTo
<1>3. ASSUME NEW x \in both PROVE EndsAs(v, s, x)
  <2>1. CASE x = o
    BY <1>2, <2>1
  <2>2. CASE x \in all /\ x.id # m.id
    <3>1. x \in Object /\ EndsAs(w, s, x)
      BY <2>2 DEF ComesTo
    <3> QED BY <1>1, <2>2, <3>1, Appended
  <2> QED BY <1>1, <2>1, <2>2
<1>4. ASSUME NEW i \in Ids, \A x \in both : x.id # i PROVE Gone(v, s, i)
  <2>1. i # m.id /\ \A x \in all : x.id # i
    BY <1>1, <1>4
  <2>2. Gone(w, s, i)
    BY <2>1 DEF ComesTo
  <2> QED BY <1>1, <2>1, <2>2, Appended
<1> QED BY <1>2, <1>3, <1>4 DEF ComesTo

LEMMA UpdateComesTo ==
  ASSUME NEW w \in Seq(Message), NEW s \in SUBSET Object, NEW all \in SUBSET Object,
         ComesTo(w, s, {}, all), NEW o \in Object,
         NEW m \in Message, m.op = "update", m.id = o.id, m.val = o.val, NEW v, v = Append(w, m), \E x \in all : x.id = o.id,
         NEW both \in SUBSET Object, o \in both,
         \A x \in both : x = o \/ (x \in all /\ x.id # o.id),
         \A x \in all : x.id # o.id => x \in both
  PROVE  ComesTo(v, s, {}, both)
<1>1. m \in Message /\ m.id = o.id /\ m.val = o.val /\ m.op = "update" /\ "update" # "remove"
  OBVIOUS
<1>2. UpdatesLand(w, s) /\ \A x \in all : EndsAs(w, s, x)
  BY DEF ComesTo
<1>3. Present(w, s, m.id, Len(w) + 1)
  <2>1. PICK x \in all : x.id = o.id
    OBVIOUS
  <2>2. Present(w, s, x.id, Len(w) + 1)
    BY <1>2, LandsNow
  <2> QED BY <1>1, <2>1, <2>2
<1>4. EndsAs(v, s, o) /\ UpdatesLand(v, s)
  BY <1>1, <1>2, <1>3, Appended
<1>5. ASSUME NEW x \in both PROVE EndsAs(v, s, x)
  <2>1. CASE x = o
    BY <1>4, <2>1
  <2>2. CASE x \in all /\ x.id # o.id
    BY <1>1, <1>2, <2>2, Appended
  <2> QED BY <2>1, <2>2
<1>6. ASSUME NEW i \in Ids, \A x \in both : x.id # i PROVE Gone(v, s, i)
  <2>1. i # m.id /\ \A x \in all : x.id # i
    BY <1>1, <1>6
  <2>2. Gone(w, s, i)
    BY <2>1 DEF ComesTo
  <2> QED BY <1>1, <2>1, <2>2, Appended
<1> QED BY <1>4, <1>5, <1>6 DEF ComesTo

LEMMA RemoveComesTo ==
  ASSUME NEW w \in Seq(Message), NEW s \in SUBSET Object, NEW all \in SUBSET Object,
         ComesTo(w, s, {}, all), NEW m \in Message, m.op = "remove",
         NEW v, v = Append(w, m),
         NEW both, \A x \in both : x \in all /\ x.id # m.id, \A x \in all : x.id # m.id => x \in both
  PROVE  ComesTo(v, s, {}, both)
<1>1. PICK i : i = m.id
  OBVIOUS
<1>2. Gone(v, s, i) /\ UpdatesLand(v, s)
  <2>1. UpdatesLand(w, s) /\ m.op # "update"
    BY DEF ComesTo
  <2> QED BY <1>1, <2>1, Appended
<1>3. ASSUME NEW x \in both PROVE EndsAs(v, s, x)
  <2>1. x \in Object /\ x.id # m.id /\ EndsAs(w, s, x)
    BY <1>1 DEF ComesTo
  <2>2. \A o \in Object : o.id # m.id /\ EndsAs(w, s, o) => EndsAs(v, s, o)
    BY Appended
  <2> QED BY <2>1, <2>2
<1>4. ASSUME NEW j \in Ids, \A x \in both : x.id # j PROVE Gone(v, s, j)
  <2>1. CASE j = i
    BY <1>2, <2>1
  <2>2. CASE j # i
    <3>1. \A x \in all : x.id # j
      BY <1>1, <1>4, <2>2
    <3>2. Gone(w, s, j) /\ j # m.id
      BY <1>1, <2>2, <3>1 DEF ComesTo
    <3> QED BY <1>1, <3>2, Appended
  <2> QED BY <2>1, <2>2
<1> QED BY <1>2, <1>3, <1>4 DEF ComesTo

LEMMA ReadComesTo ==
  ASSUME NEW w \in Seq(Message), w # << >>, NEW s \in SUBSET Object, NEW rest, NEW all \in SUBSET Object,
         ComesTo(w, s, rest, all), NEW t, Shows(Head(w), s, t), NEW v, v = Tail(w)
  PROVE  ComesTo(v, t, rest, all)
<1>1. UpdatesLand(w, s)
  BY DEF ComesTo
<1>2. /\ \A o \in Object : EndsAs(w, s, o) => EndsAs(v, t, o)
      /\ \A i \in Ids : Gone(w, s, i) => Gone(v, t, i)
      /\ UpdatesLand(v, t)
  BY <1>1, ReadOne
<1> QED BY <1>2 DEF ComesTo

\* A call that is forwarded without a miss reaches the queue as a whole.
LEMMA ForwardsAll ==
  ASSUME SceneInv, NEW msgs, NEW answer, Forward(msgs, answer), ~ missed', lovr \in {"booting", "up"},
         started \/ resyncing
  PROVE  started /\ ~ missed /\ wire' = wire \o msgs
BY DEF Forward, SceneInv, SceneTypeOK

-----------------------------------------------------------------------------
(* The steps.                                                              *)

LEMMA RemovedAt ==
  ASSUME NEW q \in Seq(Object), NEW k \in 1 .. Len(q), NEW r, r = RemoveAt(q, k)
  PROVE  /\ r \in Seq(Object) /\ Len(r) = Len(q) - 1
         /\ \A j \in 1 .. Len(q) - 1 : r[j] = IF j < k THEN q[j] ELSE q[j + 1]
<1> DEFINE a == SubSeq(q, 1, k - 1)
           b == SubSeq(q, k + 1, Len(q))
<1>0. Len(q) \in Nat
  BY LenProperties
<1>1. /\ a \in Seq(Object) /\ Len(a) = k - 1
      /\ \A j \in 1 .. k - 1 : a[j] = q[j]
  <2>1. \A j \in 1 .. k - 1 : q[j] \in Object
    BY <1>0
  <2> QED BY <1>0, <2>1, SubSeqProperties
<1>2. /\ b \in Seq(Object) /\ Len(b) = Len(q) - k
      /\ \A j \in 1 .. Len(q) - k : b[j] = q[k + j]
  <2>1. \A j \in k + 1 .. Len(q) : q[j] \in Object
    BY <1>0
  <2>2. /\ b \in Seq(Object) /\ Len(b) = IF k + 1 <= Len(q) THEN Len(q) - (k + 1) + 1 ELSE 0
        /\ \A j \in 1 .. Len(q) - (k + 1) + 1 : b[j] = q[k + 1 + j - 1]
    BY <1>0, <2>1, SubSeqProperties
  <2> HIDE DEF b
  <2> QED BY <1>0, <2>2
<1>3. r = a \o b
  BY DEF RemoveAt
<1> HIDE DEF a, b
<1>4. /\ r \in Seq(Object) /\ Len(r) = Len(a) + Len(b)
      /\ \A j \in 1 .. Len(a) + Len(b) : r[j] = IF j <= Len(a) THEN a[j] ELSE b[j - Len(a)]
  <2>1. /\ a \o b \in Seq(Object) /\ Len(a \o b) = Len(a) + Len(b)
        /\ \A j \in 1 .. Len(a) + Len(b) : (a \o b)[j] = IF j <= Len(a) THEN a[j] ELSE b[j - Len(a)]
    BY <1>1, <1>2, ConcatProperties
  <2> QED BY <1>3, <2>1
<1>6. Len(a) + Len(b) = Len(q) - 1 /\ Len(a) = k - 1
  BY <1>0, <1>1, <1>2
<1>7. \A j \in 1 .. Len(q) - 1 : r[j] = IF j <= k - 1 THEN a[j] ELSE b[j - (k - 1)]
  BY <1>4, <1>6
<1>5. ASSUME NEW j \in 1 .. Len(q) - 1 PROVE r[j] = IF j < k THEN q[j] ELSE q[j + 1]
  <2>1. CASE j < k
    <3>1. j \in 1 .. k - 1 /\ j <= k - 1
      BY <1>0, <2>1
    <3>2. r[j] = a[j] /\ a[j] = q[j]
      BY <1>1, <1>7, <3>1
    <3> QED BY <2>1, <3>2
  <2>2. CASE ~ (j < k)
    <3>1. j - (k - 1) \in 1 .. Len(q) - k /\ k + (j - (k - 1)) = j + 1
      BY <1>0, <2>2
    <3>2. b[j - (k - 1)] = q[j + 1]
      BY <1>2, <3>1
    <3>3. r[j] = b[j - (k - 1)]
      <4>1. ~ (j <= k - 1)
        BY <1>0, <2>2
      <4> QED BY <1>7, <4>1
    <3> QED BY <2>2, <3>2, <3>3
  <2> QED BY <2>1, <2>2
<1> QED BY <1>4, <1>5, <1>6

\* A removed object is gone from the list, and no other.
LEMMA WithoutExact ==
  ASSUME objects \in Seq(Object), DistinctIds(objects), NEW i \in Known
  PROVE  /\ DistinctIds(Without(i))
         /\ Without(i) \in Seq(Object)
         /\ Range(Without(i)) = {x \in Range(objects) : x.id # i}
<1>1. PICK k \in 1 .. Len(objects) : Without(i) = RemoveAt(objects, k) /\ objects[k].id = i
  <2> DEFINE k0 == CHOOSE j \in DOMAIN objects : objects[j].id = i
  <2>1. \E j \in DOMAIN objects : objects[j].id = i
    BY DEF Known, Range
  <2>2. k0 \in DOMAIN objects /\ DOMAIN objects = 1 .. Len(objects) /\ objects[k0].id = i
    BY <2>1
  <2>3. Without(i) = RemoveAt(objects, k0)
    BY DEF Without
  <2> HIDE DEF k0
  <2> QED BY <2>2, <2>3
<1>2. PICK q, r : q = objects /\ r = Without(i)
  OBVIOUS
<1>3. q \in Seq(Object) /\ k \in 1 .. Len(q) /\ r = RemoveAt(q, k) /\ q[k].id = i /\ DistinctIds(q)
  BY <1>1, <1>2
<1>4. /\ r \in Seq(Object) /\ Len(r) = Len(q) - 1
      /\ \A j \in 1 .. Len(q) - 1 : r[j] = IF j < k THEN q[j] ELSE q[j + 1]
  BY <1>3, RemovedAt
<1>5. Len(q) \in Nat
  BY <1>3, LenProperties
<1>6. ASSUME NEW j \in 1 .. Len(r)
      PROVE  \E c \in 1 .. Len(q) : c = (IF j < k THEN j ELSE j + 1) /\ r[j] = q[c]
  <2>1. j \in 1 .. Len(q) - 1
    BY <1>4
  <2>2. j \in 1 .. Len(q) /\ j + 1 \in 1 .. Len(q)
    BY <1>5, <2>1
  <2>3. r[j] = IF j < k THEN q[j] ELSE q[j + 1]
    BY <1>4, <2>1
  <2> QED BY <2>2, <2>3
<1>7. DistinctIds(r)
  <2> SUFFICES ASSUME NEW j \in 1 .. Len(r), NEW h \in 1 .. Len(r), r[j].id = r[h].id PROVE j = h
    BY DEF DistinctIds
  <2>1. PICK c \in 1 .. Len(q) : c = (IF j < k THEN j ELSE j + 1) /\ r[j] = q[c]
    BY <1>6
  <2>2. PICK d \in 1 .. Len(q) : d = (IF h < k THEN h ELSE h + 1) /\ r[h] = q[d]
    BY <1>6
  <2>3. c = d
    BY <1>3, <2>1, <2>2 DEF DistinctIds
  <2> QED BY <2>1, <2>2, <2>3
<1>8. Range(r) = {r[j] : j \in 1 .. Len(r)} /\ Range(q) = {q[j] : j \in 1 .. Len(q)}
  BY <1>3, <1>4, RangeOf
<1>9. \A j \in 1 .. Len(r) : \E h \in 1 .. Len(q) : h # k /\ r[j] = q[h]
  <2> SUFFICES ASSUME NEW j \in 1 .. Len(r) PROVE \E h \in 1 .. Len(q) : h # k /\ r[j] = q[h]
    OBVIOUS
  <2>1. PICK c \in 1 .. Len(q) : c = (IF j < k THEN j ELSE j + 1) /\ r[j] = q[c]
    BY <1>6
  <2>2. c # k
    BY <2>1
  <2> QED BY <2>1, <2>2
<1>10. \A h \in 1 .. Len(q) : h = k \/ \E j \in 1 .. Len(r) : r[j] = q[h]
  <2> SUFFICES ASSUME NEW h \in 1 .. Len(q), h # k PROVE \E j \in 1 .. Len(r) : r[j] = q[h]
    OBVIOUS
  <2>1. CASE h < k
    <3>1. h \in 1 .. Len(r)
      BY <1>3, <1>4, <1>5, <2>1
    <3>2. r[h] = q[h]
      BY <1>6, <2>1, <3>1
    <3> QED BY <3>1, <3>2
  <2>2. CASE ~ (h < k)
    <3>1. PICK j \in 1 .. Len(r) : j = h - 1 /\ ~ (j < k) /\ j + 1 = h
      BY <1>3, <1>4, <1>5, <2>2
    <3>2. r[j] = q[h]
      BY <1>6, <3>1
    <3> QED BY <3>2
  <2> QED BY <2>1, <2>2
<1>11. \A h \in 1 .. Len(q) : q[h].id = i <=> h = k
  BY <1>3 DEF DistinctIds
<1>12. Range(r) = {x \in Range(q) : x.id # i}
  <2>1. ASSUME NEW x \in Range(r) PROVE x \in Range(q) /\ x.id # i
    <3>1. PICK j \in 1 .. Len(r) : x = r[j]
      BY <1>8
    <3>2. PICK h \in 1 .. Len(q) : h # k /\ r[j] = q[h]
      BY <1>9
    <3> QED BY <1>8, <1>11, <3>1, <3>2
  <2>2. ASSUME NEW x \in Range(q), x.id # i PROVE x \in Range(r)
    <3>1. PICK h \in 1 .. Len(q) : x = q[h]
      BY <1>8
    <3>2. h # k
      BY <1>11, <2>2, <3>1
    <3> QED BY <1>8, <1>10, <3>1, <3>2
  <2> QED BY <2>1, <2>2
<1> QED BY <1>2, <1>4, <1>7, <1>12

LEMMA AppendDistinct ==
  ASSUME NEW q \in Seq(Object), DistinctIds(q), NEW o \in Object, \A x \in Range(q) : x.id # o.id,
         NEW r, r = Append(q, o)
  PROVE  DistinctIds(r)
<1>1. /\ Len(q) \in Nat /\ Len(r) = Len(q) + 1 /\ r[Len(q) + 1] = o
      /\ \A j \in 1 .. Len(q) : r[j] = q[j]
  BY AppendProperties
<1>2. \A j \in 1 .. Len(q) : q[j].id # o.id
  BY RangeOf
<1> QED BY <1>1, <1>2 DEF DistinctIds

LEMMA WrittenDistinct ==
  ASSUME NEW q \in Seq(Object), DistinctIds(q), NEW i \in Ids, NEW v \in Vals, NEW r, r = Written(q, i, v)
  PROVE  DistinctIds(r)
<1>1. /\ Len(r) = Len(q) /\ Len(q) \in Nat
      /\ \A k \in 1 .. Len(q) : q[k] \in Object
           /\ r[k] = IF q[k].id = i THEN [q[k] EXCEPT !.val = v] ELSE q[k]
  BY LenProperties DEF Written
<1>2. \A k \in 1 .. Len(q) : r[k].id = q[k].id
  BY <1>1 DEF Object
<1> QED BY <1>1, <1>2 DEF DistinctIds

\* LOVR has been told of the scene, or is being told, and missed nothing.
Mirrored == (resyncing \/ started) /\ lovr \in {"booting", "up"} /\ ~ missed

LEMMA TailIs ==
  ASSUME NEW q \in Seq(Object), q # << >>, DistinctIds(q), NEW r, r = Tail(q)
  PROVE  /\ r \in Seq(Object) /\ DistinctIds(r) /\ Head(q) \in Range(q) /\ Range(r) \subseteq Range(q)
         /\ Range(q) = Range(r) \union {Head(q)}
         /\ \A y \in Range(r) : Head(q).id # y.id
<1>1. /\ r \in Seq(Object) /\ Len(r) = Len(q) - 1 /\ Len(q) \in Nat /\ Len(q) > 0
      /\ \A k \in 1 .. Len(r) : k + 1 \in 1 .. Len(q) /\ r[k] = q[k + 1]
      /\ Head(q) = q[1]
  BY HeadTailProperties, LenProperties
<1>2. \A k \in 1 .. Len(q) : k = 1 \/ (k - 1 \in 1 .. Len(r) /\ r[k - 1] = q[k])
  BY <1>1
<1>3. Range(q) = {q[k] : k \in 1 .. Len(q)} /\ Range(r) = {r[k] : k \in 1 .. Len(r)}
  <2>1. PICK t \in Seq(Object) : t = r
    BY <1>1
  <2>2. Range(t) = {t[k] : k \in 1 .. Len(t)}
    BY RangeOf
  <2>3. Range(q) = {q[k] : k \in 1 .. Len(q)}
    BY RangeOf
  <2> QED BY <2>1, <2>2, <2>3
<1>4. DistinctIds(r)
  <2> SUFFICES ASSUME NEW j \in 1 .. Len(r), NEW k \in 1 .. Len(r), j # k PROVE r[j].id # r[k].id
    BY DEF DistinctIds
  <2>1. /\ j + 1 \in 1 .. Len(q) /\ r[j] = q[j + 1] /\ k + 1 \in 1 .. Len(q) /\ r[k] = q[k + 1]
        /\ j + 1 # k + 1
    BY <1>1
  <2> QED BY <2>1 DEF DistinctIds
<1>5. ASSUME NEW y \in Range(r) PROVE y \in Range(q) /\ Head(q).id # y.id
  <2>1. PICK k \in 1 .. Len(r) : y = r[k]
    BY <1>3
  <2>2. k + 1 \in 1 .. Len(q) /\ k + 1 # 1 /\ 1 \in 1 .. Len(q) /\ y = q[k + 1]
    BY <1>1, <2>1
  <2> QED BY <1>1, <1>3, <2>2 DEF DistinctIds
<1>6. ASSUME NEW y \in Range(q) PROVE y = Head(q) \/ y \in Range(r)
  <2>1. PICK k \in 1 .. Len(q) : y = q[k]
    BY <1>3
  <2> QED BY <1>1, <1>2, <1>3, <2>1
<1>7. Head(q) \in Range(q)
  <2>1. 1 \in 1 .. Len(q)
    BY <1>1
  <2> QED BY <1>1, <1>3, <2>1
<1> QED BY <1>1, <1>4, <1>5, <1>6, <1>7

LEMMA MirrorStarts == SceneInit => MirrorInv
<1> SUFFICES ASSUME SceneInit PROVE MirrorInv
  OBVIOUS
<1>1. objects = << >> /\ todo = << >> /\ parked = {} /\ ~ resyncing /\ ~ started
  BY DEF SceneInit
<1>2. DistinctIds(objects) /\ DistinctIds(todo)
  BY <1>1 DEF DistinctIds
<1> QED BY <1>1, <1>2 DEF MirrorInv

\* The resync puts an object into the queue.
LEMMA MirrorSent ==
  ASSUME SceneInv, MirrorInv, NEW o \in Left, wire' = Append(wire, AddMsg(o)),
         Left' \subseteq Left, Left \subseteq Left' \union {o},
         UNCHANGED << objects, started, resyncing, lovr, shown, missed >>, Mirrored
  PROVE  ComesTo(wire', shown', Left', Range(objects'))
<1>0. wire \in Seq(Message) /\ shown \in SUBSET Object /\ Range(objects) \in SUBSET Object
  BY RangeOf DEF SceneInv, SceneTypeOK
<1>1. ComesTo(wire, shown, Left, Range(objects))
  BY DEF MirrorInv, Mirrored
<1>2. o \in Range(objects)
  BY <1>1 DEF ComesTo
<1>3. \A x \in Range(objects) : x.id = o.id => x = o
  BY <1>2 DEF SceneInv, IdsUnique
<1>4. PICK w \in Seq(Message), s \in SUBSET Object, all \in SUBSET Object :
        w = wire /\ s = shown /\ all = Range(objects)
  BY <1>0
<1>5. PICK v, left, rest : v = wire' /\ left = Left' /\ rest = Left
  OBVIOUS
<1>6. /\ ComesTo(w, s, rest, all) /\ v = Append(w, AddMsg(o))
      /\ left \subseteq rest /\ rest \subseteq left \union {o}
  BY <1>1, <1>4, <1>5
<1>7. o \in all /\ \A x \in all : x.id = o.id => x = o
  BY <1>2, <1>3, <1>4
<1>8. ComesTo(v, s, left, all)
  BY <1>6, <1>7, AddComesTo
<1> QED BY <1>4, <1>5, <1>8

LEMMA MirrorSteps ==
  ASSUME SceneInv, MirrorInv, SceneStep \/ (\E status : StartXr(status)) \/ UNCHANGED scene
  PROVE  MirrorInv'
<1> USE DEF server, renderer
<1>0. /\ objects \in Seq(Object) /\ todo \in Seq(Object) /\ wire \in Seq(Message) /\ shown \subseteq Object
      /\ Range(objects) \subseteq Object /\ Range(todo) \subseteq Object
  BY RangeOf DEF SceneInv, SceneTypeOK
<1>1. CASE UNCHANGED << objects, todo, parked, wire, shown, resyncing, started, lovr, missed >>
  BY <1>1 DEF MirrorInv, Left
<1>2. CASE Launch
  <2>1. /\ todo' = objects /\ objects' = objects /\ wire' = << >> /\ shown' = {} /\ resyncing' /\ ~ started'
        /\ parked = {} /\ parked' = {}
    BY <1>2 DEF Launch, Idle, SceneInv, SceneTypeOK, MirrorInv
  <2>2. ComesTo(<< >>, {}, Range(objects), Range(objects))
    BY DEF ComesTo, Gone, Unmentioned, UpdatesLand
  <2>3. Left' = Range(objects)
    BY <2>1 DEF Left
  <2>4. DistinctIds(objects') /\ DistinctIds(todo')
    BY <2>1 DEF MirrorInv
  <2> QED BY <2>1, <2>2, <2>3, <2>4 DEF MirrorInv
<1>3. CASE Resync
  <2>1. PICK o \in Object : o = Head(todo)
    BY <1>0, <1>3, RangeOf DEF Resync
  <2>2. /\ todo # << >> /\ todo' = Tail(todo) /\ resyncing /\ parked = {}
        /\ UNCHANGED << objects, started, resyncing, lovr, shown, missed >>
    BY <1>3 DEF Resync
  <2>3. PICK r : r = todo'
    OBVIOUS
  <2>4. /\ DistinctIds(r) /\ o \in Range(todo) /\ Range(r) \subseteq Range(todo)
        /\ Range(todo) = Range(r) \union {o}
        /\ \A y \in Range(r) : o.id # y.id
    BY <1>0, <2>1, <2>2, <2>3, TailIs DEF MirrorInv
  <2>5. Left = Range(todo)
    BY <2>2 DEF Left
  <2>6. CASE wire' = Append(wire, AddMsg(o)) /\ parked' = {}
    <3>1. Left' = Range(r)
      BY <2>3, <2>6 DEF Left
    <3>2. ASSUME Mirrored PROVE ComesTo(wire', shown', Left', Range(objects'))
      BY <2>2, <2>4, <2>5, <2>6, <3>1, <3>2, MirrorSent
    <3>3. DistinctIds(objects') /\ DistinctIds(todo')
      BY <2>2, <2>3, <2>4 DEF MirrorInv
    <3> QED BY <2>2, <2>6, <3>2, <3>3 DEF MirrorInv, Mirrored
  <2>7. CASE parked' = {o} /\ wire' = wire
    <3>1. Left' = Left
      BY <2>3, <2>4, <2>5, <2>7 DEF Left
    <3>2. DistinctIds(objects') /\ DistinctIds(todo')
      BY <2>2, <2>3, <2>4 DEF MirrorInv
    <3>3. \A x \in parked', y \in Range(todo') : x.id # y.id
      BY <2>3, <2>4, <2>7
    <3> QED BY <2>2, <2>7, <3>1, <3>2, <3>3 DEF MirrorInv
  <2> QED BY <1>3, <2>1, <2>2, <2>6, <2>7 DEF Resync
<1>4. CASE Unpark
  <2>1. PICK o \in parked : wire' = Append(wire, AddMsg(o))
    BY <1>4 DEF Unpark
  <2>2. /\ parked' = {} /\ \A x \in parked : x = o
        /\ UNCHANGED << objects, todo, started, resyncing, lovr, shown, missed >>
    BY <1>4, <2>1 DEF Unpark, SceneInv, SceneTypeOK
  <2>3. Left' = Range(todo) /\ Left = Range(todo) \union {o}
    BY <2>1, <2>2 DEF Left
  <2>4. ASSUME Mirrored PROVE ComesTo(wire', shown', Left', Range(objects'))
    BY <2>1, <2>2, <2>3, <2>4, MirrorSent
  <2>5. DistinctIds(objects') /\ DistinctIds(todo')
    BY <2>2 DEF MirrorInv
  <2> QED BY <2>2, <2>4, <2>5 DEF MirrorInv, Mirrored
<1>5. CASE GiveUp
  <2>1. todo' = << >> /\ parked' = {} /\ missed' /\ UNCHANGED << objects, started, resyncing >>
    BY <1>5 DEF GiveUp
  <2>2. DistinctIds(objects') /\ DistinctIds(todo')
    BY <2>1 DEF MirrorInv, DistinctIds
  <2> QED BY <2>1, <2>2 DEF MirrorInv
<1>6. CASE Advertise
  <2>1. /\ todo = << >> /\ parked = {} /\ resyncing /\ ~ resyncing'
        /\ UNCHANGED << objects, todo, parked, wire, shown, lovr, missed >>
    BY <1>6 DEF Advertise
  <2>2. Left' = Left
    BY <2>1 DEF Left
  <2> QED BY <2>1, <2>2 DEF MirrorInv
<1>7. CASE Watch \/ Exit
  BY <1>7 DEF Watch, Exit, MirrorInv
<1>8. CASE Connect
  BY <1>8 DEF Connect, MirrorInv, Left
<1>9. CASE Drain
  <2>1. /\ wire # << >> /\ wire' = Tail(wire) /\ Shows(Head(wire), shown, shown')
        /\ UNCHANGED << objects, todo, parked, resyncing, started, lovr, missed >>
    BY <1>9 DEF Drain, Shows
  <2>2. ASSUME Mirrored PROVE ComesTo(wire', shown', Left, Range(objects))
    BY <1>0, <2>1, <2>2, ReadComesTo DEF MirrorInv, Mirrored
  <2>3. Left' = Left
    BY <2>1 DEF Left
  <2> QED BY <2>1, <2>2, <2>3 DEF MirrorInv, Mirrored
<1>10. CASE NoLaunch \/ LaunchCrash \/ EnvFileWritten \/ \E status : StartXr(status)
  BY <1>1, <1>10 DEF NoLaunch, LaunchCrash, EnvFileWritten, StartXr
<1>11. CASE UNCHANGED scene
  BY <1>1, <1>11 DEF scene
<1> QED BY <1>2, <1>3, <1>4, <1>5, <1>6, <1>7, <1>8, <1>9, <1>10, <1>11 DEF SceneStep

\* What a tool call finds when the mirror is kept through it: nothing is left to resync.
LEMMA CallStarted ==
  ASSUME SceneInv, MirrorInv, NEW msgs \in Seq(Message), NEW answer, Forward(msgs, answer),
         UNCHANGED << started, parked, resyncing, lovr, shown >>, todo = << >> => todo' = << >>, Mirrored'
  PROVE  /\ wire' = wire \o msgs /\ Left = {} /\ Left' = {}
         /\ ComesTo(wire, shown, {}, Range(objects))
<1>1. started /\ ~ missed /\ wire' = wire \o msgs
  BY ForwardsAll DEF Mirrored
<1>2. todo = << >> /\ todo' = << >> /\ parked = {} /\ parked' = {}
  BY <1>1 DEF MirrorInv
<1>3. Left = {} /\ Left' = {}
  BY <1>2 DEF Range, Left
<1>4. ComesTo(wire, shown, Left, Range(objects))
  BY <1>1 DEF MirrorInv, Mirrored
<1> QED BY <1>1, <1>3, <1>4

LEMMA MirrorAdd ==
  ASSUME SceneInv, MirrorInv, NEW type \in Types, NEW val \in Vals, NEW answer, AddPrimitive(type, val, answer)
  PROVE  MirrorInv'
<1>1. PICK o \in Object : o = NewObject(type, val)
  BY IdsGrow DEF AddPrimitive
<1>2. /\ objects' = Append(objects, o) /\ Forward(<<AddMsg(o)>>, answer)
      /\ UNCHANGED << started, todo, parked, resyncing, lovr, shown >>
  BY <1>1 DEF AddPrimitive
<1>3. /\ objects \in Seq(Object) /\ wire \in Seq(Message) /\ shown \in SUBSET Object
      /\ Range(objects) \in SUBSET Object
  BY RangeOf DEF SceneInv, SceneTypeOK
<1>4. Range(objects') = Range(objects) \union {o} /\ \A x \in Range(objects) : x.id # o.id
  <2>1. Range(objects') = Range(objects) \union {o} /\ o.id \notin Known
    BY <1>1, AddSteps
  <2> QED BY <2>1 DEF Known
<1>5. DistinctIds(objects')
  <2>1. PICK q : q = objects'
    OBVIOUS
  <2>2. DistinctIds(q)
    BY <1>2, <1>3, <1>4, <2>1, AppendDistinct DEF MirrorInv
  <2> QED BY <2>1, <2>2
<1>6. ASSUME Mirrored' PROVE ComesTo(wire', shown', Left', Range(objects'))
  <2>1. AddMsg(o) \in Message /\ <<AddMsg(o)>> \in Seq(Message)
    BY ObjectFields DEF AddMsg, Message
  <2>2. /\ wire' = wire \o <<AddMsg(o)>> /\ Left' = {}
        /\ ComesTo(wire, shown, {}, Range(objects))
    BY <1>2, <1>6, <2>1, CallStarted
  <2>3. wire' = Append(wire, AddMsg(o))
    BY <1>3, <2>1, <2>2
  <2>4. /\ wire \in Seq(Message) /\ shown \in SUBSET Object
        /\ Range(objects) \in SUBSET Object
    BY <1>3
  <2>5. PICK m : m = AddMsg(o)
    OBVIOUS
  <2>6. PICK w \in Seq(Message), s \in SUBSET Object, all \in SUBSET Object :
           w = wire /\ s = shown /\ all = Range(objects)
    BY <2>4
  <2>7. PICK v, both : v = wire' /\ both = Range(objects')
    OBVIOUS
  <2>8. /\ ComesTo(w, s, {}, all) /\ v = Append(w, m) /\ both = all \union {o}
        /\ \A x \in all : x.id # o.id
    BY <1>4, <2>2, <2>3, <2>6, <2>7, <2>5
  <2>9. ComesTo(v, s, {}, both)
    BY <2>8, <2>5, AddComesAll
  <2> QED BY <1>2, <2>2, <2>6, <2>7, <2>9
<1> QED BY <1>2, <1>5, <1>6 DEF MirrorInv, Mirrored

LEMMA MirrorRemove ==
  ASSUME SceneInv, MirrorInv, NEW i, NEW answer, RemovePrimitive(i, answer)
  PROVE  MirrorInv'
<1>1. /\ i \in Known /\ objects' = Without(i) /\ Forward(<<[op |-> "remove", id |-> i]>>, answer)
      /\ UNCHANGED << started, todo, parked, resyncing, lovr, shown >>
  BY DEF RemovePrimitive
<1>2. /\ objects \in Seq(Object) /\ wire \in Seq(Message) /\ shown \in SUBSET Object
      /\ Range(objects) \in SUBSET Object /\ i \in Ids
  BY <1>1, KnownIs, RangeOf DEF SceneInv, SceneTypeOK
<1>3. DistinctIds(objects') /\ Range(objects') = {x \in Range(objects) : x.id # i}
  BY <1>1, <1>2, WithoutExact DEF MirrorInv
<1>4. ASSUME Mirrored' PROVE ComesTo(wire', shown', Left', Range(objects'))
  <2>1. PICK m \in Message : m = [op |-> "remove", id |-> i]
    BY <1>2 DEF Message
  <2>2. /\ wire' = wire \o <<m>> /\ Left' = {}
        /\ ComesTo(wire, shown, {}, Range(objects))
    <3>0. <<m>> \in Seq(Message)
      OBVIOUS
    <3>1. PICK msgs \in Seq(Message) : msgs = <<m>>
      BY <3>0
    <3>2. Forward(msgs, answer) /\ (todo = << >> => todo' = << >>)
      BY <1>1, <2>1, <3>1
    <3>3. UNCHANGED << started, parked, resyncing, lovr, shown >>
      BY <1>1
    <3> QED BY <1>4, <3>1, <3>2, <3>3, CallStarted
  <2>3. wire' = Append(wire, m)
    BY <1>2, <2>1, <2>2
  <2>4. PICK w \in Seq(Message), s \in SUBSET Object, all \in SUBSET Object :
          w = wire /\ s = shown /\ all = Range(objects)
    BY <1>2
  <2>5. PICK v, both : v = wire' /\ both = Range(objects')
    OBVIOUS
  <2>6. m.id = i /\ m.op = "remove"
    BY <2>1
  <2>7. /\ ComesTo(w, s, {}, all) /\ v = Append(w, m)
        /\ \A x \in both : x \in all /\ x.id # m.id
        /\ \A x \in all : x.id # m.id => x \in both
    BY <1>3, <2>2, <2>3, <2>4, <2>5, <2>6
  <2>8. ComesTo(v, s, {}, both)
    BY <2>6, <2>7, RemoveComesTo
  <2> QED BY <1>1, <2>2, <2>4, <2>5, <2>8
<1> QED BY <1>1, <1>3, <1>4 DEF MirrorInv, Mirrored

LEMMA WrittenNone ==
  ASSUME NEW i, NEW v
  PROVE  Written(<< >>, i, v) = << >>
BY DEF Written

\* A write to what the resync has yet to pack does not disturb the object whose send waits.
LEMMA TodoWritten ==
  ASSUME SceneInv, MirrorInv, NEW i \in Ids, NEW val \in Vals, todo' = Written(todo, i, val), parked' = parked
  PROVE  DistinctIds(todo') /\ \A x \in parked', y \in Range(todo') : x.id # y.id
<1>1. todo \in Seq(Object) /\ DistinctIds(todo) /\ Range(todo) \subseteq Object
  BY RangeOf DEF SceneInv, SceneTypeOK, MirrorInv
<1>2. PICK r : r = todo'
  OBVIOUS
<1>3. DistinctIds(r)
  BY <1>1, <1>2, WrittenDistinct
<1>4. PICK o \in Object : o = [id |-> i, val |-> val] /\ o.id = i
  BY ObjectFields
<1>5. \A y \in Range(r) : \E x \in Range(todo) : y = IF x.id = i THEN o ELSE x
  BY <1>1, <1>2, <1>4, WrittenIs
<1>6. \A y \in Range(r) : \E x \in Range(todo) : y.id = x.id
  BY <1>4, <1>5
<1>7. \A x \in parked, y \in Range(r) : x.id # y.id
  BY <1>6 DEF MirrorInv
<1> QED BY <1>2, <1>3, <1>7

LEMMA MirrorUpdate ==
  ASSUME SceneInv, MirrorInv, NEW i, NEW val \in Vals, NEW answer, UpdatePrimitive(i, val, answer)
  PROVE  MirrorInv'
<1>1. /\ i \in Known /\ objects' = Written(objects, i, val) /\ todo' = Written(todo, i, val)
      /\ Update(i, val, answer)
      /\ UNCHANGED << started, parked, resyncing, lovr, shown >>
  BY DEF UpdatePrimitive
<1>2. /\ objects \in Seq(Object) /\ todo \in Seq(Object) /\ wire \in Seq(Message) /\ shown \in SUBSET Object
      /\ Range(objects) \in SUBSET Object /\ Range(todo) \in SUBSET Object /\ i \in Ids
  BY <1>1, KnownIs, RangeOf DEF SceneInv, SceneTypeOK
<1>3. PICK o \in Object : o = [id |-> i, val |-> val] /\ o.id = i /\ o.val = val
  BY <1>2, ObjectFields
<1>4. DistinctIds(objects')
  <2>1. PICK q : q = objects'
    OBVIOUS
  <2>2. DistinctIds(q)
    BY <1>1, <1>2, <2>1, WrittenDistinct DEF MirrorInv
  <2> QED BY <2>1, <2>2
<1>5. /\ \A y \in Range(objects') : \E x \in Range(objects) : y = IF x.id = i THEN o ELSE x
      /\ \A x \in Range(objects) : (IF x.id = i THEN o ELSE x) \in Range(objects')
      /\ objects' \in Seq(Object)
  BY <1>1, <1>2, <1>3, WrittenIs
<1>6. /\ \A y \in Range(todo') : \E x \in Range(todo) : y = IF x.id = i THEN o ELSE x
      /\ \A x \in Range(todo) : (IF x.id = i THEN o ELSE x) \in Range(todo')
  BY <1>1, <1>2, <1>3, WrittenIs
<1>7. PICK e \in Range(objects) : e.id = i
  BY <1>1 DEF Known
<1>8. todo = << >> => todo' = << >>
  BY <1>1, WrittenNone
<1>9. ASSUME Mirrored' PROVE ComesTo(wire', shown', Left', Range(objects'))
  <2>1. CASE UNCHANGED << wire, missed >> /\ \E x \in Range(todo) : x.id = i
    <3>1. ComesTo(wire, shown, Left, Range(objects))
      BY <1>1, <1>9, <2>1 DEF MirrorInv, Mirrored
    <3>2. o \in Left'
      BY <1>6, <2>1 DEF Left
    <3>8. \A x \in parked : x.id # i
      BY <2>1 DEF MirrorInv
    <3>3. ASSUME NEW y \in Range(objects') PROVE y \in Left' \/ EndsAs(wire, shown, y)
      <4>1. PICK x \in Range(objects) : y = IF x.id = i THEN o ELSE x
        BY <1>5
      <4>2. x \in Left => y \in Left'
        BY <1>1, <1>6, <3>8, <4>1 DEF Left
      <4> QED BY <3>1, <3>2, <4>1, <4>2 DEF ComesTo
    <3>4. Left' \subseteq Range(objects')
      <4> SUFFICES ASSUME NEW y \in Left' PROVE y \in Range(objects')
        OBVIOUS
      <4>1. PICK x \in Left : y = IF x.id = i THEN o ELSE x
        BY <1>1, <1>6, <3>8 DEF Left
      <4>2. x \in Range(objects)
        BY <3>1 DEF ComesTo
      <4> QED BY <1>5, <4>1, <4>2
    <3>5. ASSUME NEW j \in Ids, \A y \in Range(objects') : y.id # j PROVE Gone(wire, shown, j)
      <4>1. \A x \in Range(objects) : x.id # j
        BY <1>3, <1>5, <3>5
      <4> QED BY <3>1, <4>1 DEF ComesTo
    <3>6. PICK left, both : left = Left' /\ both = Range(objects')
      OBVIOUS
    <3>7. ComesTo(wire, shown, left, both)
      BY <3>1, <3>3, <3>4, <3>5, <3>6 DEF ComesTo
    <3> QED BY <1>1, <2>1, <3>6, <3>7
  <2>2. CASE Forward(<<[op |-> "update", id |-> i, val |-> val]>>, answer)
    <3>1. PICK m \in Message : m = [op |-> "update", id |-> o.id, val |-> o.val]
      BY <1>2, <1>3 DEF Message
    <3>2. /\ wire' = wire \o <<m>> /\ Left' = {}
          /\ ComesTo(wire, shown, {}, Range(objects))
      <4>0. <<m>> \in Seq(Message)
        OBVIOUS
      <4>1. PICK msgs \in Seq(Message) : msgs = <<m>>
        BY <4>0
      <4>2. Forward(msgs, answer)
        BY <1>3, <2>2, <3>1, <4>1
      <4>3. UNCHANGED << started, parked, resyncing, lovr, shown >>
        BY <1>1
      <4> QED BY <1>8, <1>9, <4>1, <4>2, <4>3, CallStarted
    <3>3. wire' = Append(wire, m)
      BY <1>2, <3>1, <3>2
    <3>4. PICK w \in Seq(Message), s \in SUBSET Object, all \in SUBSET Object :
             w = wire /\ s = shown /\ all = Range(objects)
      BY <1>2
    <3>5. PICK v, both : v = wire' /\ both = Range(objects')
      OBVIOUS
    <3>6. w = wire /\ s = shown /\ all = Range(objects) /\ v = wire' /\ both = Range(objects')
      BY <3>4, <3>5
    <3>7. both \in SUBSET Object
      BY <1>5, <3>6, RangeOf
    <3>8. /\ \A x \in both : x = o \/ (x \in all /\ x.id # o.id)
          /\ \A x \in all : x.id # o.id => x \in both
      BY <1>3, <1>5, <3>6
    <3>9. o \in both /\ \E x \in all : x.id = o.id
      BY <1>3, <1>5, <1>7, <3>6
    <3>10. ComesTo(w, s, {}, all) /\ v = Append(w, m)
      BY <3>2, <3>3, <3>6
    <3>11. m.op = "update" /\ m.id = o.id /\ m.val = o.val
      BY <3>1
    <3>12. ComesTo(v, s, {}, both)
      BY <3>7, <3>8, <3>9, <3>10, <3>11, UpdateComesTo
    <3> QED BY <1>1, <3>2, <3>6, <3>12
  <2> QED BY <1>1, <2>1, <2>2 DEF Update
<1>10. DistinctIds(todo') /\ \A x \in parked', y \in Range(todo') : x.id # y.id
  BY <1>1, <1>2, TodoWritten
<1> QED BY <1>1, <1>4, <1>8, <1>9, <1>10 DEF MirrorInv, Mirrored

\* A change of type: the object is gone, and another has the next id of the new type.
LEMMA ChangeIs ==
  ASSUME SceneInv, MirrorInv, NEW i, NEW type \in Types, NEW val \in Vals, NEW answer,
         ChangeType(i, type, val, answer)
  PROVE  /\ i \in Known /\ NewObject(type, val).id = <<type, counters[type]>>
         /\ DistinctIds(objects')
         /\ Range(objects') = {x \in Range(objects) : x.id # i} \union {NewObject(type, val)}
         /\ \A x \in Range(objects) : x.id # NewObject(type, val).id
         /\ \A x \in Range(objects) : x.id # i => x \in Range(objects')
         /\ \A x \in Range(objects') : x.id # i /\ (x \in Range(objects) \/ x = NewObject(type, val))
         /\ counters' \in [Types -> 0 .. MaxIds] /\ \A t \in Types : counters[t] <= counters'[t]
<1>0. PICK o \in Object : o = NewObject(type, val)
  BY IdsGrow DEF ChangeType
<1>1. /\ o.id = <<type, counters[type]>>
      /\ counters' \in [Types -> 0 .. MaxIds] /\ \A t \in Types : counters[t] <= counters'[t]
  BY <1>0, IdsGrow DEF ChangeType
<1>2. i \in Known /\ objects' = Append(Without(i), o)
  BY <1>0 DEF ChangeType
<1>3. objects \in Seq(Object) /\ i \in Ids
  BY <1>2, KnownIs DEF SceneInv, SceneTypeOK
<1>4. \A x \in Range(objects) : x.id # o.id
  <2>1. \A x \in Range(objects) : x.id = o.id => counters[type] < counters[type]
    BY <1>1 DEF SceneInv, IdsCounted
  <2>2. counters[type] \in Nat
    BY SceneAssumption DEF SceneInv, SceneTypeOK
  <2> QED BY <2>1, <2>2
<1>5. PICK q \in Seq(Object) : q = Without(i) /\ DistinctIds(q) /\ Range(q) = {x \in Range(objects) : x.id # i}
  BY <1>2, <1>3, WithoutExact DEF MirrorInv
<1>6. objects' = Append(q, o) /\ Range(objects') = Range(q) \union {o} /\ \A x \in Range(q) : x.id # o.id
  BY <1>1, <1>2, <1>4, <1>5, RangeOf
<1>7. DistinctIds(objects')
  <2>1. PICK r : r = objects'
    OBVIOUS
  <2>2. DistinctIds(r)
    BY <1>1, <1>5, <1>6, <2>1, AppendDistinct
  <2> QED BY <2>1, <2>2
<1>8. /\ \A x \in Range(objects) : x.id # i => x \in Range(objects')
      /\ \A x \in Range(objects') : x.id # i /\ (x \in Range(objects) \/ x = o)
  BY <1>2, <1>4, <1>5, <1>6 DEF Known
<1> QED BY <1>0, <1>1, <1>2, <1>4, <1>5, <1>6, <1>7, <1>8

LEMMA MirrorChange ==
  ASSUME SceneInv, MirrorInv, NEW i, NEW type \in Types, NEW val \in Vals, NEW answer,
         ChangeType(i, type, val, answer)
  PROVE  MirrorInv'
<1>1. PICK o \in Object : o = NewObject(type, val)
  BY IdsGrow DEF ChangeType
<1>2. /\ i \in Known /\ todo' = Written(todo, i, val)
      /\ Forward(<<[op |-> "remove", id |-> i], AddMsg(o)>>, answer)
      /\ UNCHANGED << started, parked, resyncing, lovr, shown >>
  BY <1>1 DEF ChangeType
<1>3. /\ objects \in Seq(Object) /\ wire \in Seq(Message) /\ shown \in SUBSET Object
      /\ Range(objects) \in SUBSET Object /\ i \in Ids
  BY <1>2, KnownIs, RangeOf DEF SceneInv, SceneTypeOK
<1>4. /\ o \in Object /\ DistinctIds(objects')
      /\ Range(objects') = {x \in Range(objects) : x.id # i} \union {o}
      /\ \A x \in Range(objects) : x.id # o.id
  BY ZenonT(40), <1>1, ChangeIs
<1>8. todo = << >> => todo' = << >>
  BY <1>2, WrittenNone
<1>9. ASSUME Mirrored' PROVE ComesTo(wire', shown', Left', Range(objects'))
  <2>1. PICK m \in Message : m = [op |-> "remove", id |-> i]
    BY <1>3 DEF Message
  <2>2. PICK n \in Message : n = AddMsg(o)
    BY <1>4, ObjectFields DEF AddMsg, Message
  <2>3. /\ wire' = wire \o <<m, n>> /\ Left' = {}
        /\ ComesTo(wire, shown, {}, Range(objects))
    <3>0. <<m, n>> \in Seq(Message)
      OBVIOUS
    <3>1. PICK msgs \in Seq(Message) : msgs = <<m, n>>
      BY <3>0
    <3>2. Forward(msgs, answer)
      BY <1>2, <2>1, <2>2, <3>1
    <3>3. UNCHANGED << started, parked, resyncing, lovr, shown >>
      BY <1>2
    <3> QED BY <1>8, <1>9, <3>1, <3>2, <3>3, CallStarted
  <2>4. /\ wire \in Seq(Message) /\ shown \in SUBSET Object
        /\ Range(objects) \in SUBSET Object
    BY <1>3
  <2>5. PICK w \in Seq(Message), s \in SUBSET Object, all \in SUBSET Object :
           w = wire /\ s = shown /\ all = Range(objects)
    BY <2>4
  <2>6. PICK v, both : v = wire' /\ both = Range(objects')
    OBVIOUS
  <2>7. PICK u \in Seq(Message) : u = Append(w, m)
    BY AppendProperties
  <2>8. v = Append(u, n)
    <3>1. v = w \o <<m, n>>
      BY <2>3, <2>5, <2>6
    <3> QED BY <2>7, <3>1
  <2>9. PICK rest \in SUBSET Object : rest = {x \in all : x.id # i}
    OBVIOUS
  <2>10. ComesTo(u, s, {}, rest)
    <3>1. m.op = "remove" /\ m.id = i
      BY <2>1
    <3>2. ComesTo(w, s, {}, all)
      BY <2>3, <2>5
    <3>3. /\ \A x \in rest : x \in all /\ x.id # m.id
          /\ \A x \in all : x.id # m.id => x \in rest
      BY <2>9, <3>1
    <3> QED BY <2>7, <3>1, <3>2, <3>3, RemoveComesTo
  <2>11. /\ v = Append(u, n) /\ both = rest \union {o}
        /\ \A x \in rest : x.id # o.id
    BY <1>4, <2>2, <2>5, <2>6, <2>8, <2>9
  <2>12. ComesTo(v, s, {}, both)
    BY <2>2, <2>10, <2>11, AddComesAll
  <2> QED BY <1>2, <2>3, <2>5, <2>6, <2>12
<1>10. DistinctIds(todo') /\ \A x \in parked', y \in Range(todo') : x.id # y.id
  BY <1>2, <1>3, TodoWritten
<1> QED BY <1>2, <1>4, <1>8, <1>9, <1>10 DEF MirrorInv, Mirrored

\* Once render-mcp says that LOVR runs and nothing is on the way, LOVR shows the scene:
\* drift needs an operation that was answered "not_started" or "backpressure", or a
\* resync that gave up.  Any interleaving of tool calls, resync, launches and ends of LOVR.
THEOREM DriftIsExplained == SceneSpec => []DriftNeedsMiss
<1>1. ASSUME SceneInv, MirrorInv, [SceneNext]_scene PROVE SceneInv' /\ MirrorInv'
  <2>1. CASE SceneStep
    BY <1>1, <2>1, SceneSteps, MirrorSteps
  <2>2. CASE ToolCall
    BY <1>1, <2>2, AddSteps, UpdateSteps, RemoveSteps, ChangeSteps, MirrorAdd, MirrorUpdate, MirrorRemove, MirrorChange
    DEF ToolCall
  <2>3. CASE StartCall
    BY <1>1, <2>3, StartSteps, MirrorSteps DEF StartCall
  <2>4. CASE UNCHANGED scene
    <3>1. SceneInv'
      BY <1>1, <2>4 DEF SceneInv, SceneTypeOK, IdsUnique, IdsCounted, GoneIsNoticed, scene, server, renderer
    <3> QED BY <1>1, <2>4, <3>1, MirrorSteps
  <2> QED BY <1>1, <2>1, <2>2, <2>3, <2>4 DEF SceneNext
<1>2. SceneInv /\ MirrorInv => DriftNeedsMiss
  <2> SUFFICES ASSUME SceneInv, MirrorInv, started, lovr = "up", wire = << >>, ~ missed
               PROVE  shown = Range(objects)
    BY DEF DriftNeedsMiss
  <2>1. todo = << >> /\ parked = {}
    BY DEF MirrorInv
  <2>2. Left = {}
    BY <2>1 DEF Left, Range
  <2>3. ComesTo(<< >>, shown, {}, Range(objects))
    BY <2>2 DEF MirrorInv, Mirrored
  <2>4. Range(objects) \subseteq Object /\ shown \subseteq Object
    BY RangeOf DEF SceneInv, SceneTypeOK
  <2>5. ASSUME NEW o \in Range(objects) PROVE \A x \in Object : x \in shown /\ x.id = o.id <=> x = o
    BY <2>3 DEF ComesTo, EndsAs
  <2>6. ASSUME NEW i \in Ids, \A o \in Range(objects) : o.id # i PROVE \A x \in shown : x.id # i
    BY <2>3, <2>6 DEF ComesTo, Gone
  <2>7. \A x \in shown : x.id \in Ids
    BY <2>4, ObjectFields
  <2>8. ASSUME NEW x \in shown PROVE x \in Range(objects)
    <3>1. PICK o \in Range(objects) : o.id = x.id
      BY <2>6, <2>7
    <3> QED BY <2>4, <2>5, <3>1
  <2> QED BY <2>4, <2>5, <2>8
<1> QED BY SceneStarts, MirrorStarts, <1>1, <1>2, PTL DEF SceneSpec

-----------------------------------------------------------------------------
(* The turns of the agent.                                                 *)

Distinct(S) == \A x, y \in S : x.id = y.id => x = y

World == SceneInv /\ MirrorInv

\* What turns have seen of the scene: one object per id, and no id that is yet to come.
Sights ==
  /\ \A p \in Participants : view[p] # {} => turn[p] = "gather" /\ step[p] = 1
  /\ \A p \in Participants : Distinct(view[p]) /\ Counted(view[p])
  /\ Distinct(preMove) /\ Counted(preMove)

\* Why the snapshot can be trusted.  An object that nobody moved behind its back is in
\* the scene as the snapshot has it, or one turn has moved it from there and has yet to
\* record that; and what that turn will record is still so.
SnapshotHolds ==
  \A o \in preMove : /\ o.id \notin unseen /\ o.id \in Known
                     /\ \A p \in Participants : ~Pending(p, o.id)
                     => o \in Range(objects)
PlaceKnown ==
  \A o \in preMove, p \in Participants :
    Pending(p, o.id) /\ o.id \notin unseen /\ o.val # call[p].val => from[p] = {o.val}
MoveStands ==
  \A p \in Participants, i \in Ids :
    Pending(p, i) /\ i \notin unseen /\ i \in Known => [id |-> i, val |-> call[p].val] \in Range(objects)
OneRecords ==
  \A p, q \in Participants, i \in Ids : Pending(p, i) /\ Pending(q, i) /\ i \notin unseen => p = q
PendingCounted ==
  \A p \in Participants, i \in Ids : Pending(p, i) => i[2] < counters[i[1]]

Truth == SnapshotHolds /\ PlaceKnown /\ MoveStands /\ OneRecords /\ PendingCounted

\* The types of TypeOK by what they are about.
TurnTypes ==
  /\ turn \in [Participants -> {"idle", "gather", "think", "call", "reply", "notice"}]
  /\ step \in [Participants -> 0 .. MaxLoop]
  /\ view \in [Participants -> SUBSET Object]
  /\ call \in [Participants -> Calls \union {None}]
  /\ reply \in [Participants -> Replies \union {"none"}]
  /\ from \in [Participants -> SUBSET Vals]
  /\ orphans \subseteq Calls /\ unseen \subseteq Ids
  /\ asks \in 0 .. MaxAsks
  /\ \A p \in Participants : turn[p] = "call" => call[p] \in Calls
LogTypes ==
  /\ preMove \in SUBSET Object
  /\ moves \in Seq(Move) /\ Len(moves) <= MovesMax
  /\ history \in Seq(Participants) /\ Len(history) <= HistoryMax
SessionTypes ==
  /\ xrStarted \in BOOLEAN
  /\ session \in [Participants -> {"idle", "calling", "polling"}]
  /\ acked \in [Participants -> {"none", "due", "ready", "notice", "cut"}]

AgentInv == World /\ TurnTypes /\ LogTypes /\ SessionTypes /\ Sights /\ Truth

LEMMA CallKinds ==
  ASSUME NEW c \in Calls
  PROVE  /\ c.tool \in {"other", "add", "update", "retype", "remove"} /\ c # None
         /\ c.tool \in {"add", "retype"} => c.type \in Types
         /\ c.tool \in {"add", "update", "retype"} => c.val \in Vals
         /\ c.tool \in {"update", "retype", "remove"} => c.id \in Ids
  BY DEF Calls, None

LEMMA AgentStarts == Init => AgentInv
<1> SUFFICES ASSUME Init PROVE AgentInv
  OBVIOUS
<1>1. World
  BY SceneStarts, MirrorStarts DEF Init, World
<1>2. TurnTypes
  <2>1. step \in [Participants -> 0 .. MaxLoop] /\ asks \in 0 .. MaxAsks
    BY AgentAssumption DEF Init, AgentInit
  <2> QED BY <2>1 DEF Init, AgentInit, TurnTypes
<1>3. LogTypes /\ SessionTypes
  <2>1. Len(moves) <= MovesMax /\ Len(history) <= HistoryMax
    BY AgentAssumption DEF Init, AgentInit
  <2>2. LogTypes
    BY <2>1 DEF Init, AgentInit, LogTypes
  <2>3. SessionTypes
    BY DEF Init, AgentInit, SessionTypes
  <2> QED BY <2>2, <2>3
<1>4. Sights
  BY DEF Init, AgentInit, Sights, Distinct, Counted
<1>5. Truth
  <2>1. preMove = {} /\ \A p \in Participants : turn[p] = "idle"
    BY DEF Init, AgentInit
  <2>2. \A p \in Participants, i \in Ids : ~Pending(p, i)
    BY <2>1 DEF Pending
  <2> QED BY <2>1, <2>2 DEF Truth, SnapshotHolds, PlaceKnown, MoveStands, OneRecords, PendingCounted
<1> QED BY <1>1, <1>2, <1>3, <1>4, <1>5 DEF AgentInv

LEMMA SceneSame ==
  ASSUME World, UNCHANGED scene
  PROVE  World' /\ UNCHANGED <<objects, counters>> /\ Known' = Known
<1>1. SceneInv' /\ UNCHANGED <<objects, counters>> /\ Known' = Known
  BY DEF World, SceneInv, SceneTypeOK, IdsUnique, IdsCounted, GoneIsNoticed, scene, server, renderer, Known
<1>2. MirrorInv'
  BY MirrorSteps DEF World
<1> QED BY <1>1, <1>2 DEF World

LEMMA CountersAre ==
  ASSUME World
  PROVE  counters \in [Types -> Nat] /\ \A t \in Types : counters[t] <= counters[t]
  BY SceneAssumption DEF World, SceneInv, SceneTypeOK

\* Sights only get older while the scene changes.
LEMMA SightsStay ==
  ASSUME World, TurnTypes, LogTypes, Sights, UNCHANGED <<view, preMove>>,
         counters' \in [Types -> Nat], \A t \in Types : counters[t] <= counters'[t],
         \A p \in Participants : view[p] # {} => turn'[p] = turn[p] /\ step'[p] = step[p]
  PROVE  Sights'
<1>1. \A p \in Participants : view[p] \in SUBSET Object
  BY DEF TurnTypes
<1>2. preMove \in SUBSET Object
  BY DEF LogTypes
<1>3. \A p \in Participants : \A x \in view[p] : x.id[2] < counters'[x.id[1]]
  BY <1>1, Grown DEF World, Sights
<1>4. \A x \in preMove : x.id[2] < counters'[x.id[1]]
  BY <1>2, Grown DEF World, Sights
<1> QED BY <1>3, <1>4 DEF Sights, Distinct, Counted

\* p has no move to record.
Rests(p) == turn[p] # "reply" \/ reply[p] # "ok"

\* A step that leaves alone the scene, the snapshot and the turns that record.
LEMMA TruthKept ==
  ASSUME Truth, LogTypes, UNCHANGED <<objects, counters, preMove, unseen>>,
         \A q \in Participants :
           \/ turn'[q] = turn[q] /\ reply'[q] = reply[q] /\ call'[q] = call[q] /\ from'[q] = from[q]
           \/ Rests(q) /\ (turn'[q] # "reply" \/ reply'[q] # "ok")
  PROVE  Truth'
<1>1. \A q \in Participants : \A i : Pending(q, i)' <=> Pending(q, i)
  BY DEF Pending, Rests
<1>2. \A q \in Participants : \A i : Pending(q, i) => call'[q] = call[q] /\ from'[q] = from[q]
  BY DEF Pending, Rests
<1>3. Known' = Known
  BY DEF Known
<1>4. SnapshotHolds' /\ PlaceKnown'
  BY <1>1, <1>2, <1>3 DEF Truth, SnapshotHolds, PlaceKnown
<1>5. MoveStands' /\ OneRecords' /\ PendingCounted'
  BY <1>1, <1>2, <1>3 DEF Truth, MoveStands, OneRecords, PendingCounted
<1> QED BY <1>4, <1>5 DEF Truth

\* A step of the scene or of nobody, and of the sessions.
LEMMA OthersCase ==
  ASSUME AgentInv, World', UNCHANGED <<objects, counters, turns, preMove, moves>>, LogTypes', SessionTypes'
  PROVE  AgentInv'
<1> USE DEF turns
<1>1. TurnTypes'
  BY DEF AgentInv, TurnTypes
<1>2. Sights'
  BY CountersAre, SightsStay DEF AgentInv
<1>3. Truth'
  BY TruthKept DEF AgentInv
<1> QED BY <1>1, <1>2, <1>3 DEF AgentInv

\* A turn takes the place of another, which may leave a request behind.
LEMMA Replaced ==
  ASSUME AgentInv, NEW p \in Participants, NEW new \in {"gather", "notice"}, Replace(p, new),
         UNCHANGED <<objects, counters, log>>, asks' \in 0 .. MaxAsks
  PROVE  TurnTypes' /\ Sights' /\ Truth'
<1> USE AgentAssumption
<1>0. TurnTypes /\ LogTypes /\ Sights /\ Truth
  BY DEF AgentInv
<1>1. /\ view' = [view EXCEPT ![p] = {}] /\ UNCHANGED <<preMove, moves>>
      /\ turn' = [turn EXCEPT ![p] = new] /\ step' = [step EXCEPT ![p] = 0]
      /\ call' = [call EXCEPT ![p] = None] /\ reply' = [reply EXCEPT ![p] = "none"]
      /\ from' = [from EXCEPT ![p] = {}]
      /\ unseen' = unseen \union {i \in Ids : Pending(p, i)}
  BY DEF Replace, log
<1>2. orphans' \subseteq Calls
  <2>1. CASE turn[p] = "call"
    BY <1>0, <2>1 DEF Replace, Leave, TurnTypes
  <2>2. CASE turn[p] # "call"
    BY <1>0, <2>2 DEF Replace, TurnTypes
  <2> QED BY <2>1, <2>2
<1>3. TurnTypes'
  BY <1>0, <1>1, <1>2 DEF TurnTypes
<1>4. \A q \in Participants : q # p => /\ turn'[q] = turn[q] /\ step'[q] = step[q] /\ view'[q] = view[q]
                                       /\ reply'[q] = reply[q] /\ call'[q] = call[q] /\ from'[q] = from[q]
  BY <1>0, <1>1 DEF TurnTypes
<1>5. turn'[p] = new /\ view'[p] = {}
  BY <1>0, <1>1 DEF TurnTypes
<1>6. Sights'
  BY <1>0, <1>1, <1>4, <1>5 DEF Sights, Distinct, Counted
<1>7. /\ \A i : ~Pending(p, i)'
      /\ \A q \in Participants : \A i : q # p => (Pending(q, i)' <=> Pending(q, i))
  BY <1>4, <1>5 DEF Pending
<1>8. Known' = Known
  BY DEF Known
<1>9. \A o \in preMove : o.id \in Ids
  BY <1>0, ObjectFields DEF LogTypes
<1>10. SnapshotHolds'
  BY <1>0, <1>1, <1>7, <1>8, <1>9 DEF Truth, SnapshotHolds
<1>11. PlaceKnown'
  BY <1>0, <1>1, <1>4, <1>7 DEF Truth, PlaceKnown
<1>12. MoveStands' /\ OneRecords' /\ PendingCounted'
  BY <1>0, <1>1, <1>4, <1>7, <1>8 DEF Truth, MoveStands, OneRecords, PendingCounted
<1> QED BY <1>3, <1>6, <1>10, <1>11, <1>12 DEF Truth

LEMMA AskCase ==
  ASSUME AgentInv, NEW p \in Participants, Ask(p)
  PROVE  AgentInv'
<1>1. World' /\ UNCHANGED <<objects, counters>>
  BY SceneSame DEF Ask, AgentInv
<1>2. asks' \in 0 .. MaxAsks
  BY AgentAssumption DEF Ask, AgentInv, TurnTypes
<1>3. TurnTypes' /\ Sights' /\ Truth'
  BY <1>1, <1>2, Replaced DEF Ask
<1>4. LogTypes' /\ SessionTypes'
  BY DEF Ask, AgentInv, LogTypes, SessionTypes, log
<1> QED BY <1>1, <1>3, <1>4 DEF AgentInv

LEMMA StartedCase ==
  ASSUME AgentInv, NEW p \in Participants, SessionStarted(p)
  PROVE  AgentInv'
<1>1. World' /\ UNCHANGED <<objects, counters>>
  BY SceneSame DEF SessionStarted, AgentInv
<1>2. UNCHANGED <<turns, preMove, moves, xrStarted>> /\ history' = <<>>
  BY DEF SessionStarted
<1>3. LogTypes'
  BY <1>2, AgentAssumption DEF AgentInv, LogTypes
<1>4. SessionTypes'
  BY DEF SessionStarted, AgentInv, SessionTypes
<1> QED BY <1>1, <1>2, <1>3, <1>4, OthersCase

LEMMA CallStartCase ==
  ASSUME AgentInv, NEW p \in Participants, NEW status, CallStart(p, status)
  PROVE  AgentInv'
<1>1. World' /\ UNCHANGED <<objects, counters>>
  BY StartSteps, MirrorSteps, SceneSame DEF CallStart, AgentInv, World
<1>2. LogTypes' /\ SessionTypes' /\ UNCHANGED log
  BY DEF CallStart, Notify, AgentInv, LogTypes, SessionTypes, log
<1>3. CASE UNCHANGED turns
  BY <1>1, <1>2, <1>3, OthersCase DEF log
<1>4. CASE Notify(p)
  <2>1. asks' \in 0 .. MaxAsks
    BY <1>4 DEF Notify, AgentInv, TurnTypes
  <2>2. TurnTypes' /\ Sights' /\ Truth'
    BY <1>1, <1>2, <1>4, <2>1, Replaced DEF Notify
  <2> QED BY <1>1, <1>2, <2>2 DEF AgentInv
<1> QED BY <1>3, <1>4 DEF CallStart

LEMMA PollCase ==
  ASSUME AgentInv, NEW p \in Participants, Poll(p)
  PROVE  AgentInv'
<1>1. World' /\ UNCHANGED <<objects, counters>>
  BY SceneSame DEF Poll, AgentInv
<1>2. LogTypes' /\ SessionTypes' /\ UNCHANGED log
  BY DEF Poll, Notify, AgentInv, LogTypes, SessionTypes, log
<1>3. CASE UNCHANGED turns
  BY <1>1, <1>2, <1>3, OthersCase DEF log
<1>4. CASE Notify(p)
  <2>1. asks' \in 0 .. MaxAsks
    BY <1>4 DEF Notify, AgentInv, TurnTypes
  <2>2. TurnTypes' /\ Sights' /\ Truth'
    BY <1>1, <1>2, <1>4, <2>1, Replaced DEF Notify
  <2> QED BY <1>1, <1>2, <2>2 DEF AgentInv
<1> QED BY <1>3, <1>4 DEF Poll

LEMMA ReadCase ==
  ASSUME AgentInv, NEW p \in Participants, ReadScene(p)
  PROVE  AgentInv'
<1> USE AgentAssumption
<1>0. World /\ TurnTypes /\ LogTypes /\ SessionTypes /\ Sights /\ Truth
  BY DEF AgentInv
<1>1. World' /\ UNCHANGED <<objects, counters>>
  BY <1>0, SceneSame DEF ReadScene
<1>2. /\ turn[p] = "gather" /\ step' = [step EXCEPT ![p] = 1]
      /\ UNCHANGED <<turn, call, reply, from, orphans, unseen, asks, preMove, moves, history, sessions>>
  BY DEF ReadScene, log
<1>3. PICK seen : seen \in {Range(objects), {}} /\ view' = [view EXCEPT ![p] = seen]
  BY DEF ReadScene
<1>4. seen \in SUBSET Object /\ Distinct(seen) /\ Counted(seen)
  BY <1>0, <1>3, RangeOf DEF World, SceneInv, SceneTypeOK, IdsUnique, IdsCounted, Distinct, Counted
<1>5. TurnTypes' /\ LogTypes' /\ SessionTypes'
  BY <1>0, <1>2, <1>3, <1>4 DEF TurnTypes, LogTypes, SessionTypes, sessions
<1>6. Sights'
  <2>1. \A q \in Participants : /\ view'[q] = IF q = p THEN seen ELSE view[q]
                                /\ step'[q] = IF q = p THEN 1 ELSE step[q]
    BY <1>0, <1>2, <1>3 DEF TurnTypes
  <2> QED BY <1>0, <1>1, <1>2, <1>4, <2>1 DEF Sights, Distinct, Counted
<1>7. Truth'
  BY <1>0, <1>1, <1>2, TruthKept
<1> QED BY <1>1, <1>5, <1>6, <1>7 DEF AgentInv

\* The snapshot is replaced by what the turn has read.
LEMMA ContextCase ==
  ASSUME AgentInv, NEW p \in Participants, Context(p)
  PROVE  AgentInv'
<1> USE AgentAssumption
<1>0. World /\ TurnTypes /\ LogTypes /\ SessionTypes /\ Sights /\ Truth
  BY DEF AgentInv
<1>1. World' /\ UNCHANGED <<objects, counters>> /\ Known' = Known
  BY <1>0, SceneSame DEF Context
<1>2. /\ turn[p] = "gather" /\ preMove' = view[p]
      /\ unseen' = {o.id : o \in view[p] \ Range(objects)}
                   \union {i \in unseen : \E q \in Participants : Pending(q, i)}
      /\ turn' = [turn EXCEPT ![p] = "think"] /\ step' = [step EXCEPT ![p] = 0]
      /\ view' = [view EXCEPT ![p] = {}]
      /\ UNCHANGED <<call, reply, from, orphans, asks, moves, history, sessions>>
  BY DEF Context
<1>3. view[p] \subseteq Object /\ \A o \in view[p] : o.id \in Ids
  BY <1>0, ObjectFields DEF TurnTypes
<1>4. TurnTypes' /\ LogTypes' /\ SessionTypes'
  BY <1>0, <1>2, <1>3 DEF TurnTypes, LogTypes, SessionTypes, sessions
<1>5. \A q \in Participants :
        /\ view'[q] = IF q = p THEN {} ELSE view[q]
        /\ turn'[q] = IF q = p THEN "think" ELSE turn[q]
        /\ q # p => step'[q] = step[q]
  BY <1>0, <1>2 DEF TurnTypes
<1>6. Sights'
  BY <1>0, <1>1, <1>2, <1>5 DEF Sights, Distinct, Counted
<1>7. \A q \in Participants : \A i : Pending(q, i)' <=> Pending(q, i)
  BY <1>2, <1>5 DEF Pending
<1>8. /\ \A o \in view[p] : o.id \notin unseen' => o \in Range(objects)
      /\ \A q \in Participants : \A i : Pending(q, i) /\ i \notin unseen' => i \notin unseen
  BY <1>2
<1>9. SnapshotHolds'
  BY <1>1, <1>2, <1>8 DEF SnapshotHolds
<1>10. PlaceKnown'
  <2> SUFFICES ASSUME NEW o \in view[p], NEW q \in Participants, Pending(q, o.id), o.id \notin unseen'
               PROVE  o.val = call[q].val
    BY <1>2, <1>7 DEF PlaceKnown
  <2>1. o \in Range(objects) /\ o.id \in Known /\ o.id \in Ids /\ o.id \notin unseen
    BY <1>3, <1>8 DEF Known
  <2>2. PICK x \in Range(objects) : x = [id |-> o.id, val |-> call[q].val]
    BY <1>0, <2>1 DEF Truth, MoveStands
  <2> QED BY <1>0, <2>1, <2>2 DEF World, SceneInv, IdsUnique
<1>11. MoveStands' /\ OneRecords' /\ PendingCounted'
  BY <1>0, <1>1, <1>2, <1>7, <1>8 DEF Truth, MoveStands, OneRecords, PendingCounted
<1> QED BY <1>1, <1>4, <1>6, <1>9, <1>10, <1>11 DEF AgentInv, Truth

\* A turn ends: nobody else is affected, and the history stays within its bound.
LEMMA Ended ==
  ASSUME AgentInv, NEW p \in Participants, turn[p] \in {"think", "reply"}, Rests(p), End(p),
         UNCHANGED <<scene, view, orphans, unseen, asks, preMove, moves, sessions>>
  PROVE  AgentInv'
<1> USE AgentAssumption
<1>0. World /\ TurnTypes /\ LogTypes /\ SessionTypes /\ Sights /\ Truth
  BY DEF AgentInv
<1>1. World' /\ UNCHANGED <<objects, counters>>
  BY <1>0, SceneSame
<1>2. TurnTypes' /\ SessionTypes'
  BY <1>0 DEF End, TurnTypes, SessionTypes, sessions
<1>3. LogTypes'
  <2> DEFINE h == Append(history, p)
  <2>1. h \in Seq(Participants) /\ Len(h) = Len(history) + 1 /\ h # <<>>
    BY <1>0, AppendProperties DEF LogTypes
  <2>2. Tail(h) \in Seq(Participants) /\ Len(Tail(h)) = Len(history) /\ Len(history) \in Nat
    BY <1>0, <2>1, HeadTailProperties DEF LogTypes
  <2>3. history' = IF Len(h) > HistoryMax THEN Tail(h) ELSE h
    BY DEF End, Remember
  <2> HIDE DEF h
  <2>4. history' \in Seq(Participants) /\ Len(history') <= HistoryMax
    BY <1>0, <2>1, <2>2, <2>3 DEF LogTypes
  <2> QED BY <1>0, <2>4 DEF LogTypes
<1>4. \A q \in Participants :
        /\ turn'[q] = IF q = p THEN "idle" ELSE turn[q]
        /\ q # p => step'[q] = step[q] /\ call'[q] = call[q] /\ reply'[q] = reply[q] /\ from'[q] = from[q]
  BY <1>0 DEF End, TurnTypes
<1>5. Sights'
  BY <1>0, <1>1, <1>4 DEF Sights, Distinct, Counted
<1>6. Truth'
  BY <1>0, <1>1, <1>4, TruthKept
<1> QED BY <1>1, <1>2, <1>3, <1>5, <1>6 DEF AgentInv

LEMMA AnswerCase ==
  ASSUME AgentInv, NEW p \in Participants, Answer(p)
  PROVE  AgentInv'
  BY Ended DEF Answer, Rests

LEMMA ThinkCase ==
  ASSUME AgentInv, NEW p \in Participants, NEW c \in Calls, Think(p, c)
  PROVE  AgentInv'
<1> USE AgentAssumption
<1>0. World /\ TurnTypes /\ LogTypes /\ SessionTypes /\ Sights /\ Truth
  BY DEF AgentInv
<1>1. World' /\ UNCHANGED <<objects, counters>>
  BY <1>0, SceneSame DEF Think
<1>2. /\ turn[p] = "think" /\ step[p] < MaxLoop
      /\ turn' = [turn EXCEPT ![p] = "call"] /\ step' = [step EXCEPT ![p] = @ + 1]
      /\ call' = [call EXCEPT ![p] = c]
      /\ UNCHANGED <<view, reply, from, orphans, unseen, asks, preMove, moves, history, sessions>>
  BY DEF Think, log
<1>3. step[p] + 1 \in 0 .. MaxLoop
  BY <1>0, <1>2 DEF TurnTypes
<1>4. \A q \in Participants :
        /\ turn'[q] = IF q = p THEN "call" ELSE turn[q]
        /\ call'[q] = IF q = p THEN c ELSE call[q]
        /\ q # p => step'[q] = step[q]
  BY <1>0, <1>2 DEF TurnTypes
<1>5. TurnTypes' /\ LogTypes' /\ SessionTypes'
  BY <1>0, <1>2, <1>3, <1>4 DEF TurnTypes, LogTypes, SessionTypes, sessions
<1>6. Sights'
  BY <1>0, <1>1, <1>2, <1>4 DEF Sights, Distinct, Counted
<1>7. Truth'
  BY <1>0, <1>1, <1>2, <1>4, TruthKept DEF Rests
<1> QED BY <1>1, <1>5, <1>6, <1>7 DEF AgentInv

LEMMA SpeakCase ==
  ASSUME AgentInv, NEW p \in Participants, Speak(p)
  PROVE  AgentInv'
<1>0. World /\ TurnTypes /\ LogTypes /\ SessionTypes /\ Sights /\ Truth
  BY DEF AgentInv
<1>1. World' /\ UNCHANGED <<objects, counters>>
  BY <1>0, SceneSame DEF Speak
<1>2. /\ turn[p] = "notice" /\ turn' = [turn EXCEPT ![p] = "idle"]
      /\ UNCHANGED <<step, view, call, reply, from, orphans, unseen, asks, preMove, moves, history>>
  BY DEF Speak, log
<1>3. TurnTypes' /\ LogTypes' /\ SessionTypes'
  BY <1>0, <1>2 DEF Speak, TurnTypes, LogTypes, SessionTypes
<1>4. \A q \in Participants : turn'[q] = IF q = p THEN "idle" ELSE turn[q]
  BY <1>0, <1>2 DEF TurnTypes
<1>5. Sights'
  BY <1>0, <1>1, <1>2, <1>4 DEF Sights, Distinct, Counted
<1>6. Truth'
  BY <1>0, <1>1, <1>2, <1>4, TruthKept DEF Rests
<1> QED BY <1>1, <1>3, <1>5, <1>6 DEF AgentInv

LEMMA FailCase ==
  ASSUME AgentInv, NEW p \in Participants, Fail(p)
  PROVE  AgentInv'
<1>0. World /\ TurnTypes /\ LogTypes /\ SessionTypes /\ Sights /\ Truth
  BY DEF AgentInv
<1>1. World' /\ UNCHANGED <<objects, counters>>
  BY <1>0, SceneSame DEF Fail
<1>2. /\ turn[p] = "call" /\ turn' = [turn EXCEPT ![p] = "reply"] /\ reply' = [reply EXCEPT ![p] = "error"]
      /\ UNCHANGED <<step, view, call, from, unseen, asks, preMove, moves, history, sessions>>
  BY DEF Fail, log
<1>3. orphans' \subseteq Calls
  BY <1>0 DEF Fail, Leave, TurnTypes
<1>4. TurnTypes' /\ LogTypes' /\ SessionTypes'
  BY <1>0, <1>2, <1>3 DEF TurnTypes, LogTypes, SessionTypes, sessions, Replies
<1>5. \A q \in Participants : /\ turn'[q] = IF q = p THEN "reply" ELSE turn[q]
                              /\ reply'[q] = IF q = p THEN "error" ELSE reply[q]
  BY <1>0, <1>2 DEF TurnTypes
<1>6. Sights'
  BY <1>0, <1>1, <1>2, <1>5 DEF Sights, Distinct, Counted
<1>7. Truth'
  BY <1>0, <1>1, <1>2, <1>5, TruthKept DEF Rests
<1> QED BY <1>1, <1>4, <1>6, <1>7 DEF AgentInv

\* A request that a server handles: no id comes back, what the request does not move
\* stays, and what it moves is where it says.
LEMMA Handled ==
  ASSUME World, NEW c \in Calls, NEW answer \in Replies, Handle(c, answer)
  PROVE  /\ World' /\ counters' \in [Types -> Nat] /\ \A t \in Types : counters[t] <= counters'[t]
         /\ \A i \in Known' : i \in Known \/ ~(i[2] < counters[i[1]])
         /\ \A x \in Range(objects) : x.id \in Known' /\ ~(Moving(c) /\ c.id = x.id) => x \in Range(objects')
         /\ Moving(c) /\ c.id \in Known' => [id |-> c.id, val |-> c.val] \in Range(objects')
         /\ Moving(c) /\ answer = "ok" => c.id \in Known
<1> DEFINE Grows  == World' /\ counters' \in [Types -> Nat] /\ \A t \in Types : counters[t] <= counters'[t]
           Fresh  == \A i \in Known' : i \in Known \/ ~(i[2] < counters[i[1]])
           Stays  == \A x \in Range(objects) : x.id \in Known' /\ ~(Moving(c) /\ c.id = x.id) => x \in Range(objects')
           Lands  == Moving(c) /\ c.id \in Known' => [id |-> c.id, val |-> c.val] \in Range(objects')
           Was    == Moving(c) /\ answer = "ok" => c.id \in Known
<1>0. SceneInv /\ MirrorInv /\ counters \in [Types -> Nat] /\ \A t \in Types : counters[t] <= counters[t]
  BY CountersAre DEF World
<1>1. ASSUME UNCHANGED scene, Moving(c) => c.id \notin Known /\ answer # "ok"
      PROVE  Grows /\ Fresh /\ Stays /\ Lands /\ Was
  BY <1>0, <1>1, SceneSame
<1>2. CASE c.tool = "other" /\ UNCHANGED scene
  BY <1>1, <1>2 DEF Moving
<1>3. CASE c.id \notin Known /\ answer = "not_found" /\ UNCHANGED scene
  BY <1>1, <1>3
<1>4. CASE c.tool = "add" /\ AddPrimitive(c.type, c.val, answer)
  <2>1. c.type \in Types /\ c.val \in Vals /\ ~Moving(c)
    BY <1>4, CallKinds DEF Moving
  <2>2. PICK o : o = NewObject(c.type, c.val)
    OBVIOUS
  <2>3. /\ SceneInv' /\ MirrorInv' /\ Range(objects') = Range(objects) \union {o}
        /\ \A t \in Types : counters[t] <= counters'[t]
        /\ counters' \in [Types -> 0 .. MaxIds] /\ o.id = <<c.type, counters[c.type]>>
    BY <1>0, <1>4, <2>1, <2>2, AddSteps, MirrorAdd, IdsGrow DEF AddPrimitive
  <2>4. Grows
    BY <2>3, SceneAssumption DEF World
  <2>5. ~(o.id[2] < counters[o.id[1]])
    BY <1>0, <2>1, <2>3
  <2>6. Fresh
    BY <2>3, <2>5 DEF Known
  <2> QED BY <2>1, <2>3, <2>4, <2>6
<1>5. CASE c.tool = "remove" /\ RemovePrimitive(c.id, answer)
  <2>1. ~Moving(c)
    BY <1>5 DEF Moving
  <2>2. SceneInv' /\ MirrorInv' /\ UNCHANGED counters /\ Range(objects') \subseteq Range(objects)
    BY <1>0, <1>5, RemoveSteps, MirrorRemove
  <2>3. Grows /\ Fresh
    BY <1>0, <2>2 DEF World, Known
  <2>4. Stays
    BY <1>0, <2>2 DEF Known, SceneInv, IdsUnique
  <2> QED BY <2>1, <2>3, <2>4
<1>6. CASE c.tool = "update" /\ UpdatePrimitive(c.id, c.val, answer)
  <2>1. /\ SceneInv' /\ MirrorInv' /\ UNCHANGED counters /\ c.id \in Known
        /\ [id |-> c.id, val |-> c.val] \in Range(objects')
        /\ \A x \in Range(objects) : x.id # c.id => x \in Range(objects')
        /\ Known' = Known
    BY <1>0, <1>6, UpdateSteps, MirrorUpdate, CallKinds
  <2>2. Moving(c)
    BY <1>6 DEF Moving
  <2>3. Grows /\ Fresh
    BY <1>0, <2>1 DEF World
  <2> QED BY <2>1, <2>2, <2>3
<1>7. ASSUME NEW sent, c.tool = "retype", ChangeType(c.id, c.type, c.val, sent)
      PROVE  Grows /\ Fresh /\ Stays /\ Lands /\ Was
  <2>1. c.type \in Types /\ c.val \in Vals /\ Moving(c)
    BY <1>7, CallKinds DEF Moving
  <2>2. PICK o \in Object : o = NewObject(c.type, c.val)
    BY <1>0, <1>7, <2>1, IdsGrow DEF ChangeType
  <2>3. /\ SceneInv' /\ MirrorInv' /\ c.id \in Known
        /\ \A x \in Range(objects) : x.id # c.id => x \in Range(objects')
        /\ \A x \in Range(objects') : x.id # c.id /\ (x \in Range(objects) \/ x = o)
        /\ \A t \in Types : counters[t] <= counters'[t]
        /\ counters' \in [Types -> 0 .. MaxIds] /\ o.id = <<c.type, counters[c.type]>>
    <3>1. SceneInv' /\ MirrorInv'
      BY <1>0, <1>7, <2>1, ChangeSteps, MirrorChange
    <3>2. /\ counters' \in [Types -> 0 .. MaxIds] /\ \A t \in Types : counters[t] <= counters'[t]
          /\ o.id = <<c.type, counters[c.type]>>
      BY <1>0, <1>7, <2>1, <2>2, IdsGrow DEF ChangeType
    <3>3. /\ \A x \in Range(objects) : x.id # c.id => x \in Range(objects')
          /\ \A x \in Range(objects') : x.id # c.id /\ (x \in Range(objects) \/ x = NewObject(c.type, c.val))
      BY <1>0, <1>7, <2>1, ChangeIs
    <3> QED BY <1>7, <2>2, <3>1, <3>2, <3>3 DEF ChangeType
  <2>4. Grows
    BY <2>3, SceneAssumption DEF World
  <2>5. ~(o.id[2] < counters[o.id[1]])
    BY <1>0, <2>1, <2>3
  <2>6. Fresh
    BY <2>3, <2>5 DEF Known
  <2>7. Stays
    BY <2>1, <2>3
  <2>8. c.id \notin Known'
    BY <2>3 DEF Known
  <2> QED BY <2>1, <2>3, <2>4, <2>6, <2>7, <2>8
<1> QED BY <1>2, <1>3, <1>4, <1>5, <1>6, <1>7 DEF Handle

\* What a handled request does to the snapshot's truth.  W is who waits for it: a turn,
\* which is told the answer or an error, or nobody.
LEMMA HandledTruth ==
  ASSUME AgentInv, NEW c \in Calls, NEW answer \in Replies, Handle(c, answer),
         NEW W \in SUBSET Participants, \A q, r \in W : q = r,
         NEW told, told = "ok" => answer = "ok" /\ W # {},
         UNCHANGED preMove, unseen' = unseen \union Unrecorded(c, told),
         \A q \in W : /\ Rests(q) /\ turn'[q] = "reply" /\ reply'[q] = told /\ call'[q] = c
                      /\ from'[q] = {o.val : o \in {x \in Range(objects) : Moving(c) /\ x.id = c.id}},
         \A q \in Participants \ W : /\ turn'[q] = turn[q] /\ reply'[q] = reply[q]
                                     /\ call'[q] = call[q] /\ from'[q] = from[q]
  PROVE  Truth'
<1>0. World /\ LogTypes /\ Sights /\ Truth /\ counters \in [Types -> Nat] /\ Range(objects) \subseteq Object
  BY CountersAre, RangeOf DEF AgentInv, World, SceneInv, SceneTypeOK
<1>1. /\ counters' \in [Types -> Nat] /\ \A t \in Types : counters[t] <= counters'[t]
      /\ \A i \in Known' : i \in Known \/ ~(i[2] < counters[i[1]])
      /\ \A x \in Range(objects) : x.id \in Known' /\ ~(Moving(c) /\ c.id = x.id) => x \in Range(objects')
      /\ Moving(c) /\ c.id \in Known' => [id |-> c.id, val |-> c.val] \in Range(objects')
      /\ Moving(c) /\ answer = "ok" => c.id \in Known
  BY <1>0, Handled
<1>2. \A q \in W : \A i : ~Pending(q, i) /\ (Pending(q, i)' <=> told = "ok" /\ Moving(c) /\ c.id = i)
  BY DEF Pending, Rests
<1>3. \A q \in Participants \ W : \A i : Pending(q, i)' <=> Pending(q, i)
  BY DEF Pending
<1>4. /\ unseen \subseteq unseen'
      /\ Moving(c) /\ c.id \in Known /\ (told # "ok" \/ \E p \in Participants : Pending(p, c.id)) => c.id \in unseen'
  BY DEF Unrecorded
<1>5. \A o \in preMove : o.id \in Ids /\ o.id[2] < counters[o.id[1]] /\ (o.id \in Known' => o.id \in Known)
  BY <1>0, <1>1, ObjectFields DEF LogTypes, Sights, Counted
<1>6. SnapshotHolds'
  <2> SUFFICES ASSUME NEW o \in preMove, o.id \notin unseen', o.id \in Known',
                      \A p \in Participants : ~Pending(p, o.id)'
               PROVE  o \in Range(objects')
    BY DEF SnapshotHolds
  <2>1. ~(Moving(c) /\ c.id = o.id)
    <3> SUFFICES ASSUME Moving(c), c.id = o.id PROVE FALSE
      OBVIOUS
    <3>1. told = "ok"
      BY <1>4, <1>5
    <3>2. PICK w \in W : TRUE
      BY <3>1
    <3>3. Pending(w, o.id)'
      BY <1>2, <3>1
    <3> QED BY <3>3
  <2>2. \A p \in Participants : ~Pending(p, o.id)
    BY <1>2, <1>3
  <2>3. o \in Range(objects)
    BY <1>0, <1>4, <1>5, <2>2 DEF Truth, SnapshotHolds
  <2> QED BY <1>1, <2>1, <2>3
<1>7. PlaceKnown'
  <2> SUFFICES ASSUME NEW o \in preMove, NEW p \in Participants,
                      Pending(p, o.id)', o.id \notin unseen', o.val # call'[p].val
               PROVE  from'[p] = {o.val}
    BY DEF PlaceKnown
  <2>1. CASE p \notin W
    BY <1>0, <1>3, <1>4, <2>1 DEF Truth, PlaceKnown
  <2>2. CASE p \in W
    <3>1. told = "ok" /\ Moving(c) /\ c.id = o.id /\ c.id \in Known
      BY <1>1, <1>2, <2>2
    <3>2. \A q \in Participants : ~Pending(q, o.id)
      BY <1>4, <3>1
    <3>3. o \in Range(objects)
      BY <1>0, <1>4, <3>1, <3>2 DEF Truth, SnapshotHolds
    <3>4. \A x \in Range(objects) : x.id = c.id <=> x = o
      BY <1>0, <3>1, <3>3 DEF World, SceneInv, IdsUnique
    <3> QED BY <2>2, <3>1, <3>3, <3>4
  <2> QED BY <2>1, <2>2
<1>8. MoveStands'
  <2> SUFFICES ASSUME NEW p \in Participants, NEW i \in Ids, Pending(p, i)', i \notin unseen', i \in Known'
               PROVE  [id |-> i, val |-> call'[p].val] \in Range(objects')
    BY DEF MoveStands
  <2>1. CASE p \in W
    BY <1>1, <1>2, <2>1
  <2>2. CASE p \notin W
    <3>1. Pending(p, i) /\ call'[p] = call[p] /\ i \notin unseen
      BY <1>3, <1>4, <2>2
    <3>2. i \in Known
      BY <1>0, <1>1, <3>1 DEF Truth, PendingCounted
    <3>3. ~(Moving(c) /\ c.id = i)
      BY <1>4, <3>1, <3>2
    <3>4. PICK x \in Range(objects) : x = [id |-> i, val |-> call[p].val]
      BY <1>0, <3>1, <3>2 DEF Truth, MoveStands
    <3> QED BY <1>1, <3>1, <3>3, <3>4
  <2> QED BY <2>1, <2>2
<1>9. OneRecords'
  <2> SUFFICES ASSUME NEW p \in Participants, NEW q \in Participants, NEW i \in Ids,
                      Pending(p, i)', Pending(q, i)', i \notin unseen'
               PROVE  p = q
    BY DEF OneRecords
  <2>1. ASSUME NEW r \in W, NEW s \in Participants \ W, Pending(r, i)', Pending(s, i)' PROVE FALSE
    <3>1. told = "ok" /\ Moving(c) /\ c.id = i /\ c.id \in Known
      BY <1>1, <1>2, <2>1
    <3> QED BY <1>3, <1>4, <2>1, <3>1
  <2>2. CASE p \notin W /\ q \notin W
    BY <1>0, <1>3, <1>4, <2>2 DEF Truth, OneRecords
  <2> QED BY <2>1, <2>2
<1>10. PendingCounted'
  <2> SUFFICES ASSUME NEW p \in Participants, NEW i \in Ids, Pending(p, i)' PROVE i[2] < counters'[i[1]]
    BY DEF PendingCounted
  <2>1. i[1] \in Types /\ i[2] \in Int
    BY ObjectFields
  <2>2. i[2] < counters[i[1]]
    <3>1. CASE p \in W
      <4>1. i \in Known
        BY <1>1, <1>2, <3>1
      <4> QED BY <1>0, <4>1 DEF World, SceneInv, IdsCounted, Known
    <3>2. CASE p \notin W
      BY <1>0, <1>3, <3>2 DEF Truth, PendingCounted
    <3> QED BY <3>1, <3>2
  <2>3. counters[i[1]] \in Nat /\ counters'[i[1]] \in Nat /\ counters[i[1]] <= counters'[i[1]]
    BY <1>0, <1>1, <2>1
  <2> QED BY <2>1, <2>2, <2>3
<1> QED BY <1>6, <1>7, <1>8, <1>9, <1>10 DEF Truth

LEMMA ServeCase ==
  ASSUME AgentInv, NEW p \in Participants, NEW answer \in Replies, Serve(p, answer)
  PROVE  AgentInv'
<1>0. World /\ TurnTypes /\ LogTypes /\ SessionTypes /\ Sights /\ Truth
  BY DEF AgentInv
<1>1. /\ turn[p] = "call" /\ Handle(call[p], answer) /\ turn' = [turn EXCEPT ![p] = "reply"]
      /\ UNCHANGED <<step, view, call, orphans, asks, preMove, moves, history, sessions>>
  BY DEF Serve, log
<1>2. PICK told \in {answer, "error"} :
        reply' = [reply EXCEPT ![p] = told] /\ unseen' = unseen \union Unrecorded(call[p], told)
  BY DEF Serve
<1>3. PICK c \in Calls : c = call[p]
  BY <1>0, <1>1 DEF TurnTypes
<1>4. PICK places : /\ places = {o.val : o \in {x \in Range(objects) : Moving(c) /\ x.id = c.id}}
                    /\ from' = [from EXCEPT ![p] = places]
  BY <1>3 DEF Serve
<1>5. World' /\ counters' \in [Types -> Nat] /\ \A t \in Types : counters[t] <= counters'[t]
  BY <1>0, <1>1, <1>3, Handled
<1>6. places \subseteq Vals /\ unseen' \subseteq Ids /\ told \in Replies
  <2>1. Range(objects) \subseteq Object
    BY <1>0, RangeOf DEF World, SceneInv, SceneTypeOK
  <2>2. Known \subseteq Ids
    BY <2>1, ObjectFields DEF Known
  <2>3. places \subseteq Vals
    BY <1>4, <2>1, ObjectFields
  <2> QED BY <1>0, <1>2, <2>2, <2>3 DEF TurnTypes, Unrecorded, Replies
<1>7. TurnTypes' /\ LogTypes' /\ SessionTypes'
  BY <1>0, <1>1, <1>2, <1>4, <1>6 DEF TurnTypes, LogTypes, SessionTypes, sessions
<1>8. \A q \in Participants :
        /\ turn'[q] = IF q = p THEN "reply" ELSE turn[q]
        /\ reply'[q] = IF q = p THEN told ELSE reply[q]
        /\ from'[q] = IF q = p THEN places ELSE from[q]
  BY <1>0, <1>1, <1>2, <1>4 DEF TurnTypes
<1>9. Sights'
  BY <1>0, <1>1, <1>5, <1>8, SightsStay DEF Sights
<1>10. Truth'
  <2>1. PICK W \in SUBSET Participants : W = {p}
    OBVIOUS
  <2>2. /\ \A q \in W : /\ Rests(q) /\ turn'[q] = "reply" /\ reply'[q] = told /\ call'[q] = c
                        /\ from'[q] = {o.val : o \in {x \in Range(objects) : Moving(c) /\ x.id = c.id}}
        /\ \A q \in Participants \ W : /\ turn'[q] = turn[q] /\ reply'[q] = reply[q]
                                       /\ call'[q] = call[q] /\ from'[q] = from[q]
    BY <1>1, <1>3, <1>4, <1>8, <2>1 DEF Rests
  <2>3. told = "ok" => answer = "ok" /\ W # {}
    BY <2>1
  <2>4. Handle(c, answer) /\ UNCHANGED preMove /\ unseen' = unseen \union Unrecorded(c, told)
    BY <1>1, <1>2, <1>3
  <2> QED BY <2>1, <2>2, <2>3, <2>4, HandledTruth
<1> QED BY <1>5, <1>7, <1>9, <1>10 DEF AgentInv

LEMMA OrphanCase ==
  ASSUME AgentInv, NEW answer \in Replies, NEW c \in orphans, ServeOrphan(c, answer)
  PROVE  AgentInv'
<1>0. World /\ TurnTypes /\ LogTypes /\ SessionTypes /\ Sights /\ Truth /\ c \in Calls
  BY DEF AgentInv, TurnTypes
<1>1. /\ Handle(c, answer) /\ orphans' = orphans \ {c}
      /\ unseen' = unseen \union Unrecorded(c, "nobody")
      /\ UNCHANGED <<turn, step, view, call, reply, from, asks, preMove, moves, history, sessions>>
  BY DEF ServeOrphan, log
<1>2. World' /\ counters' \in [Types -> Nat] /\ \A t \in Types : counters[t] <= counters'[t]
  BY <1>0, <1>1, Handled
<1>3. unseen' \subseteq Ids
  <2>1. Known \subseteq Ids
    BY <1>0, RangeOf, ObjectFields DEF World, SceneInv, SceneTypeOK, Known
  <2> QED BY <1>0, <1>1, <2>1 DEF TurnTypes, Unrecorded
<1>4. TurnTypes' /\ LogTypes' /\ SessionTypes'
  BY <1>0, <1>1, <1>3 DEF TurnTypes, LogTypes, SessionTypes, sessions
<1>5. Sights'
  BY <1>0, <1>1, <1>2, SightsStay
<1>6. Truth'
  BY <1>0, <1>1, HandledTruth
<1> QED BY <1>2, <1>4, <1>5, <1>6 DEF AgentInv

\* A move that goes into the log: the turn waited for it, the object was where the log
\* says, and the snapshot follows.
LEMMA Recorded ==
  ASSUME AgentInv, NEW p \in Participants, turn[p] = "reply", Moved(p), Record(p)
  PROVE  \E o \in preMove, n \in Object, e \in Move :
           /\ o.id = call[p].id /\ n.id = o.id /\ n.val = call[p].val /\ o.val # n.val
           /\ e.id = o.id /\ e.prev = o.val /\ e.new = n.val
           /\ Pending(p, o.id) /\ (o.id \in unseen \/ from[p] = {o.val})
           /\ preMove' = (preMove \ {o}) \union {n}
           /\ moves' \in Seq(Move) /\ Len(moves') <= MovesMax
           /\ Range(moves') \subseteq Range(moves) \union {e}
<1> USE AgentAssumption
<1>0. TurnTypes /\ LogTypes /\ Truth
  BY DEF AgentInv
<1>1. call[p] \in Calls /\ Moving(call[p]) /\ reply[p] = "ok"
  BY <1>0 DEF Moved, Moving, TurnTypes, None
<1>2. PICK c \in Calls : c = call[p]
  BY <1>1
<1>3. PICK o \in preMove :
        /\ o.id = c.id /\ o.val # c.val
        /\ moves' = LET m == Append(moves, [id |-> c.id, prev |-> o.val, new |-> c.val]) IN
                    IF Len(m) > MovesMax THEN Tail(m) ELSE m
        /\ preMove' = (preMove \ {o}) \union {[o EXCEPT !.val = c.val]}
  BY <1>2 DEF Record
<1>4. c.id \in Ids /\ c.val \in Vals /\ o \in Object
  BY <1>0, <1>1, <1>2, CallKinds DEF LogTypes, Moving
<1>5. PICK n \in Object : n = [id |-> c.id, val |-> c.val]
  BY <1>4, ObjectFields
<1>6. preMove' = (preMove \ {o}) \union {n}
  BY <1>3, <1>4, <1>5 DEF Object
<1>7. PICK e \in Move : e = [id |-> c.id, prev |-> o.val, new |-> c.val]
  BY <1>4, ObjectFields DEF Move
<1>8. /\ moves' \in Seq(Move) /\ Len(moves') <= MovesMax
      /\ Range(moves') \subseteq Range(moves) \union {e}
  <2> DEFINE m == Append(moves, e)
  <2>1. /\ m \in Seq(Move) /\ Len(m) = Len(moves) + 1 /\ m # <<>>
        /\ Range(m) = Range(moves) \union {e}
    BY <1>0, AppendProperties, RangeOf DEF LogTypes
  <2> HIDE DEF m
  <2>2. /\ Tail(m) \in Seq(Move) /\ Len(Tail(m)) = Len(moves) /\ Len(moves) \in Nat
        /\ Range(Tail(m)) \subseteq Range(m)
    <3>1. Len(moves) \in Nat
      BY <1>0 DEF LogTypes
    <3>2. Tail(m) \in Seq(Move) /\ Len(Tail(m)) = Len(m) - 1
      BY <2>1, HeadTailProperties
    <3>3. Range(Tail(m)) \subseteq Range(m)
      BY <2>1, RangeOf
    <3> QED BY <2>1, <3>1, <3>2, <3>3
  <2>3. moves' = IF Len(m) > MovesMax THEN Tail(m) ELSE m
    BY <1>3, <1>7 DEF m
  <2> QED BY <1>0, <2>1, <2>2, <2>3 DEF LogTypes
<1>9. n.id = o.id /\ n.val = c.val /\ n.id = c.id /\ e.id = o.id /\ e.prev = o.val /\ e.new = n.val
  BY <1>3, <1>5, <1>7
<1>10. Pending(p, o.id)
  BY <1>1, <1>2, <1>3 DEF Pending
<1>11. o.id \in unseen \/ from[p] = {o.val}
  BY <1>0, <1>2, <1>3, <1>10 DEF Truth, PlaceKnown
<1> QED BY <1>2, <1>3, <1>6, <1>8, <1>9, <1>10, <1>11

\* The turn goes on, with or without a move recorded.
LEMMA GoesOn ==
  ASSUME AgentInv, NEW p \in Participants, turn[p] = "reply", UNCHANGED <<objects, counters, unseen>>,
         IF Moved(p) THEN Record(p) ELSE UNCHANGED <<preMove, moves>>,
         \A q \in Participants \ {p} : /\ turn'[q] = turn[q] /\ reply'[q] = reply[q]
                                       /\ call'[q] = call[q] /\ from'[q] = from[q],
         turn'[p] = "think"
  PROVE  /\ preMove' \in SUBSET Object /\ Distinct(preMove') /\ \A x \in preMove' : x.id[2] < counters'[x.id[1]]
         /\ moves' \in Seq(Move) /\ Len(moves') <= MovesMax
         /\ Truth'
<1>0. World /\ TurnTypes /\ LogTypes /\ Sights /\ Truth /\ Known' = Known
  BY DEF AgentInv, Known
<1>1. /\ \A q \in Participants \ {p} : \A i : Pending(q, i)' <=> Pending(q, i)
      /\ \A i : ~Pending(p, i)'
  BY DEF Pending
<1>2. MoveStands' /\ OneRecords' /\ PendingCounted'
  BY <1>0, <1>1 DEF Truth, MoveStands, OneRecords, PendingCounted
<1>3. CASE Moved(p)
  <2>1. PICK o \in preMove, n \in Object, e \in Move :
           /\ o.id = call[p].id /\ n.id = o.id /\ n.val = call[p].val
           /\ Pending(p, o.id)
           /\ preMove' = (preMove \ {o}) \union {n}
           /\ moves' \in Seq(Move) /\ Len(moves') <= MovesMax
    BY <1>3, Recorded
  <2>2. \A x \in preMove \ {o} : x.id # o.id
    BY <1>0 DEF Sights, Distinct
  <2>3. preMove' \in SUBSET Object /\ Distinct(preMove') /\ \A x \in preMove' : x.id[2] < counters'[x.id[1]]
    BY <1>0, <2>1, <2>2 DEF LogTypes, Sights, Distinct, Counted
  <2>4. \A x \in preMove \ {o} : ~Pending(p, x.id)
    BY <2>1, <2>2 DEF Pending
  <2>5. o.id \notin unseen /\ o.id \in Known => n \in Range(objects)
    <3>1. n = [id |-> o.id, val |-> call[p].val] /\ o.id \in Ids
      BY <2>1, ObjectFields
    <3> QED BY <1>0, <2>1, <3>1 DEF Truth, MoveStands
  <2>6. \A q \in Participants \ {p} : Pending(q, o.id) => o.id \in unseen
    <3>1. o.id \in Ids
      BY <2>1, ObjectFields
    <3> QED BY <1>0, <2>1, <3>1 DEF Truth, OneRecords
  <2>7. SnapshotHolds'
    <3> SUFFICES ASSUME NEW x \in preMove', x.id \notin unseen, x.id \in Known,
                        \A q \in Participants : ~Pending(q, x.id)'
                 PROVE  x \in Range(objects)
      BY <1>0 DEF SnapshotHolds
    <3>1. CASE x = n
      BY <2>1, <2>5, <3>1
    <3>2. CASE x \in preMove \ {o}
      BY <1>0, <1>1, <2>4, <3>2 DEF Truth, SnapshotHolds
    <3> QED BY <2>1, <3>1, <3>2
  <2>8. PlaceKnown'
    <3> SUFFICES ASSUME NEW x \in preMove', NEW q \in Participants \ {p},
                        Pending(q, x.id), x.id \notin unseen, x.val # call[q].val
                 PROVE  from[q] = {x.val}
      BY <1>1 DEF PlaceKnown
    <3>1. x # n
      BY <2>1, <2>6
    <3> QED BY <1>0, <2>1, <3>1 DEF Truth, PlaceKnown
  <2> QED BY <1>2, <2>1, <2>3, <2>7, <2>8 DEF Truth
<1>4. CASE ~Moved(p)
  <2>1. UNCHANGED <<preMove, moves>>
    BY <1>4
  <2>2. SnapshotHolds'
    <3> SUFFICES ASSUME NEW x \in preMove, x.id \notin unseen, x.id \in Known,
                        \A q \in Participants : ~Pending(q, x.id)'
                 PROVE  x \in Range(objects)
      BY <1>0, <2>1 DEF SnapshotHolds
    <3>1. CASE ~Pending(p, x.id)
      BY <1>0, <1>1, <3>1 DEF Truth, SnapshotHolds
    <3>2. CASE Pending(p, x.id)
      <4>1. x \in Object /\ x.id \in Ids /\ x = [id |-> x.id, val |-> x.val]
        BY <1>0, ObjectFields DEF LogTypes
      <4>2. x.val = call[p].val
        BY <1>4, <3>2 DEF Moved, Pending
      <4>3. [id |-> x.id, val |-> call[p].val] \in Range(objects)
        BY <1>0, <3>2, <4>1 DEF Truth, MoveStands
      <4> QED BY <4>1, <4>2, <4>3
    <3> QED BY <3>1, <3>2
  <2>3. PlaceKnown'
    BY <1>0, <1>1, <2>1 DEF Truth, PlaceKnown
  <2> QED BY <1>0, <1>2, <2>1, <2>2, <2>3 DEF Truth, LogTypes, Sights, Counted
<1> QED BY <1>3, <1>4

LEMMA ReplyCase ==
  ASSUME AgentInv, NEW p \in Participants, Reply(p)
  PROVE  AgentInv'
<1>0. World /\ TurnTypes /\ LogTypes /\ SessionTypes /\ Sights /\ Truth
  BY DEF AgentInv
<1>1. turn[p] = "reply" /\ UNCHANGED <<scene, view, orphans, unseen, asks, sessions>>
  BY DEF Reply
<1>2. World' /\ UNCHANGED <<objects, counters>>
  BY <1>0, <1>1, SceneSame
<1>3. CASE reply[p] \in {"not_started", "no_view"}
  BY <1>1, <1>3, Ended DEF Reply, Rests
<1>4. CASE reply[p] \notin {"not_started", "no_view"}
  <2>1. /\ IF Moved(p) THEN Record(p) ELSE UNCHANGED <<preMove, moves>>
        /\ turn' = [turn EXCEPT ![p] = "think"]
        /\ call' = [call EXCEPT ![p] = None] /\ reply' = [reply EXCEPT ![p] = "none"]
        /\ from' = [from EXCEPT ![p] = {}]
        /\ UNCHANGED <<step, history>>
    BY <1>4 DEF Reply
  <2>2. \A q \in Participants :
          /\ turn'[q] = IF q = p THEN "think" ELSE turn[q]
          /\ q # p => reply'[q] = reply[q] /\ call'[q] = call[q] /\ from'[q] = from[q]
    BY <1>0, <2>1 DEF TurnTypes
  <2>3. /\ preMove' \in SUBSET Object /\ Distinct(preMove') /\ \A x \in preMove' : x.id[2] < counters'[x.id[1]]
        /\ moves' \in Seq(Move) /\ Len(moves') <= MovesMax
        /\ Truth'
    BY <1>1, <1>2, <2>1, <2>2, GoesOn
  <2>4. TurnTypes' /\ LogTypes' /\ SessionTypes'
    BY <1>0, <1>1, <2>1, <2>3 DEF TurnTypes, LogTypes, SessionTypes, sessions
  <2>5. Sights'
    <3>1. \A q \in Participants : view'[q] # {} => turn'[q] = "gather" /\ step'[q] = 1
      BY <1>0, <1>1, <2>1, <2>2 DEF Sights
    <3> QED BY <1>0, <1>1, <1>2, <2>3, <3>1 DEF Sights, Distinct, Counted
  <2> QED BY <1>2, <2>3, <2>4, <2>5 DEF AgentInv
<1> QED BY <1>3, <1>4

LEMMA AgentSteps == AgentInv /\ [Next]_vars => AgentInv'
<1> SUFFICES ASSUME AgentInv, [Next]_vars PROVE AgentInv'
  OBVIOUS
<1>1. CASE SceneStep /\ UNCHANGED <<turns, log, sessions>>
  <2>1. World' /\ UNCHANGED <<objects, counters>>
    BY <1>1, SceneSteps, MirrorSteps DEF AgentInv, World
  <2>2. LogTypes' /\ SessionTypes'
    BY <1>1 DEF AgentInv, LogTypes, SessionTypes, log, sessions
  <2> QED BY <1>1, <2>1, <2>2, OthersCase DEF log
<1>2. ASSUME NEW p \in Participants, TurnStep(p) PROVE AgentInv'
  BY <1>2, ReadCase, ContextCase, AnswerCase, ReplyCase, SpeakCase, FailCase, ServeCase DEF TurnStep
<1>3. ASSUME NEW p \in Participants, SessionStep(p) PROVE AgentInv'
  BY <1>3, CallStartCase, PollCase DEF SessionStep
<1>4. CASE UNCHANGED vars
  <2>1. World' /\ UNCHANGED <<objects, counters>>
    BY <1>4, SceneSame DEF AgentInv, vars
  <2>2. LogTypes' /\ SessionTypes'
    BY <1>4 DEF AgentInv, LogTypes, SessionTypes, vars, log, sessions
  <2> QED BY <1>4, <2>1, <2>2, OthersCase DEF vars, log
<1> QED BY <1>1, <1>2, <1>3, <1>4, AskCase, StartedCase, ThinkCase, OrphanCase DEF Next

\* The agent's state keeps its types: the log and the history their lengths, a turn
\* its steps (Brain in worker/processors.py, Agent in worker/agent.py).
THEOREM AgentTypes == Spec => []TypeOK
<1>1. AgentInv => TypeOK
  BY DEF AgentInv, World, SceneInv, TurnTypes, LogTypes, SessionTypes, TypeOK
<1> QED BY AgentStarts, AgentSteps, <1>1, PTL DEF Spec

\* A move goes into the log as render-mcp made it, from that place to that place, unless
\* somebody moved the object and could not record it, or not yet: _execute_tool keeps
\* the snapshot up to date itself, whichever turns overlap, are cancelled or fail.
THEOREM LogIsTrue == Spec => MovesTruthful
<1> DEFINE True == \A m \in Range(moves') \ Range(moves) : m.id \in unseen \/
                     \E p \in Participants : Pending(p, m.id) /\ from[p] = {m.prev} /\ call[p].val = m.new
<1>1. ASSUME AgentInv, Next PROVE True
  <2>1. CASE UNCHANGED moves
    BY <2>1
  <2>2. ASSUME NEW p \in Participants, Reply(p) PROVE True
    <3>1. UNCHANGED moves \/ (turn[p] = "reply" /\ Moved(p) /\ Record(p))
      BY <2>2 DEF Reply
    <3>2. ASSUME turn[p] = "reply", Moved(p), Record(p) PROVE True
      <4>1. PICK o \in preMove, n \in Object, e \in Move :
              /\ n.val = call[p].val /\ e.id = o.id /\ e.prev = o.val /\ e.new = n.val
              /\ Pending(p, o.id) /\ (o.id \in unseen \/ from[p] = {o.val})
              /\ Range(moves') \subseteq Range(moves) \union {e}
        BY <1>1, <3>2, Recorded
      <4> QED BY <4>1
    <3> QED BY <2>1, <3>1, <3>2
  <2>3. ASSUME NEW p \in Participants,
               Ask(p) \/ SessionStarted(p) \/ SessionStep(p) \/ \E c \in Calls : Think(p, c)
        PROVE  UNCHANGED moves
    BY <2>3 DEF Ask, SessionStarted, SessionStep, CallStart, Poll, Notify, Think, log
  <2>4. ASSUME NEW p \in Participants, TurnStep(p), ~Reply(p) PROVE UNCHANGED moves
    BY <2>4 DEF TurnStep, ReadScene, Context, Answer, Speak, Fail, Serve, log
  <2>5. ASSUME NEW answer \in Replies, NEW c \in orphans, ServeOrphan(c, answer) PROVE UNCHANGED moves
    BY <2>5 DEF ServeOrphan, log
  <2> QED BY <1>1, <2>1, <2>2, <2>3, <2>4, <2>5 DEF Next, log
<1>2. ASSUME AgentInv, [Next]_vars PROVE [True]_vars
  BY <1>1, <1>2
<1> QED BY AgentStarts, AgentSteps, <1>2, PTL DEF Spec, MovesTruthful

-----------------------------------------------------------------------------
(* What a turn says.                                                       *)

\* A turn that was cancelled still has its cancellation to come, or has stopped for
\* it, or has lost it.
FeedbackInv ==
  /\ FeedbackTypeOK
  /\ \A t \in Turns :
       /\ at[t] = "none" => ~silenced[t]
       /\ outcome[t] = "interrupted" => at[t] \in {"flush", "ticker", "over"}
       /\ silenced[t] /\ at[t] # "over" =>
            cancelled[t] \/ swallowed[t] \/ outcome[t] = "interrupted"

\* How far the lines of a turn have come, and its ticker.
Reached(t, n) == \A i \in 1 .. Len(output) : output[i].turn = t => Place(output[i].kind) <= n
OrderInv ==
  /\ TurnInOrder
  /\ \A t \in Turns :
       /\ at[t] \in {"none", "ack", "showAck", "speakAck"} => Reached(t, 1)
       /\ at[t] \in {"loop", "flush", "ticker"} => Reached(t, 2)
       /\ at[t] \notin {"loop", "flush", "ticker"} => ticker[t] = "off"

LEMMA Places ==
  Place("ack") = 1 /\ Place("progress") = 2 /\ Place("answer") = 3
  BY DEF Place

LEMMA FeedbackStarts == FeedbackInit => FeedbackInv /\ OrderInv
<1> SUFFICES ASSUME FeedbackInit PROVE FeedbackInv /\ OrderInv
  OBVIOUS
<1>1. {cancelled, silenced, swallowed} \subseteq [Turns -> BOOLEAN]
  BY DEF FeedbackInit
<1>2. FeedbackInv
  BY <1>1 DEF FeedbackInit, FeedbackInv, FeedbackTypeOK, Waits
<1>3. OrderInv
  BY DEF FeedbackInit, OrderInv, TurnInOrder, Reached
<1> QED BY <1>2, <1>3

\* A line is written after the others.
LEMMA LineWritten ==
  ASSUME output \in Seq(Panel \union Speech), NEW l \in Panel \union Speech,
         output' = Append(output, l)
  PROVE  /\ output' \in Seq(Panel \union Speech) /\ Len(output') = Len(output) + 1
         /\ Len(output) \in Nat /\ output'[Len(output')] = l
         /\ \A i \in 1 .. Len(output') : output'[i] = IF i <= Len(output) THEN output[i] ELSE l
<1>1. /\ Append(output, l) \in Seq(Panel \union Speech)
      /\ Len(Append(output, l)) = Len(output) + 1
      /\ \A i \in 1 .. Len(output) : Append(output, l)[i] = output[i]
      /\ Append(output, l)[Len(output) + 1] = l
  BY AppendProperties
<1>2. Len(output) \in Nat
  OBVIOUS
<1>3. \A i \in 1 .. Len(output) + 1 : i <= Len(output) \/ i = Len(output) + 1
  BY <1>2
<1> QED BY <1>1, <1>2, <1>3

LEMMA LineInOrder ==
  ASSUME FeedbackInv, OrderInv, NEW t \in Turns, NEW l \in Panel \union Speech,
         l.turn = t, output' = Append(output, l), Reached(t, Place(l.kind))
  PROVE  /\ TurnInOrder' 
         /\ \A u \in Turns, n \in 1 .. 3 :
              Reached(u, n) /\ (u = t => Place(l.kind) <= n) => Reached(u, n)'
<1>1. /\ Len(output') = Len(output) + 1 /\ Len(output) \in Nat
      /\ \A i \in 1 .. Len(output') : output'[i] = IF i <= Len(output) THEN output[i] ELSE l
  BY LineWritten DEF FeedbackInv, FeedbackTypeOK
<1>2. \A u \in Turns, n \in 1 .. 3 :
        Reached(u, n) /\ (u = t => Place(l.kind) <= n) => Reached(u, n)'
  BY <1>1 DEF Reached
<1>3. TurnInOrder'
  BY SMTT(20), <1>1 DEF Reached, TurnInOrder, OrderInv
<1> QED BY <1>2, <1>3

LEMMA FeedbackSteps ==
  ASSUME FeedbackInv, OrderInv, [FeedbackNext]_feedbackVars
  PROVE  /\ FeedbackInv' /\ OrderInv'
         /\ \A t \in Turns : silenced[t] /\ output' # output /\ output'[Len(output')].turn = t =>
              swallowed[t] \/ output'[Len(output')] = Line(t, "progress", "panel")
<1> DEFINE Said == \A t \in Turns : silenced[t] /\ output' # output /\ output'[Len(output')].turn = t =>
                     swallowed[t] \/ output'[Len(output')] = Line(t, "progress", "panel")
<1>0. /\ at \in [Turns -> Waits] /\ outcome \in [Turns -> {"none", "done", "error", "interrupted"}]
      /\ ticker \in [Turns -> {"off", "sleep", "ask", "send", "cancelled"}]
      /\ cancelled \in [Turns -> BOOLEAN] /\ silenced \in [Turns -> BOOLEAN]
      /\ swallowed \in [Turns -> BOOLEAN] /\ output \in Seq(Panel \union Speech)
  BY DEF FeedbackInv, FeedbackTypeOK
<1> DEFINE Silent ==
  /\ output' = output
  /\ at' \in [Turns -> Waits] /\ outcome' \in [Turns -> {"none", "done", "error", "interrupted"}]
  /\ ticker' \in [Turns -> {"off", "sleep", "ask", "send", "cancelled"}]
  /\ cancelled' \in [Turns -> BOOLEAN] /\ silenced' \in [Turns -> BOOLEAN]
  /\ swallowed' \in [Turns -> BOOLEAN]
  /\ \A t \in Turns :
       /\ at'[t] = "none" => at[t] = "none" /\ ~silenced'[t]
       /\ outcome'[t] = "interrupted" => at'[t] \in {"flush", "ticker", "over"}
       /\ silenced'[t] /\ at'[t] # "over" =>
            cancelled'[t] \/ swallowed'[t] \/ outcome'[t] = "interrupted"
       /\ at'[t] \in {"ack", "showAck", "speakAck"} => at[t] \in {"none", "ack", "showAck", "speakAck"}
       /\ at'[t] \in {"loop", "flush", "ticker"} =>
            at[t] \in {"ack", "showAck", "speakAck", "loop", "flush", "ticker"}
       /\ at'[t] \notin {"loop", "flush", "ticker"} => ticker'[t] = "off"
<1>1. ASSUME Silent PROVE FeedbackInv' /\ OrderInv' /\ Said
  <2>1. {cancelled', silenced', swallowed'} \subseteq [Turns -> BOOLEAN]
    BY <1>1
  <2>2. FeedbackInv'
    BY <1>0, <1>1, <2>1 DEF FeedbackInv, FeedbackTypeOK
  <2>3. \A t \in Turns : Reached(t, 1) => Reached(t, 2)
    <3>1. \A i \in 1 .. Len(output) : Place(output[i].kind) \in Int
      BY <1>0, Places DEF Panel, Speech, Kinds
    <3> QED BY <3>1 DEF Reached
  <2>4. OrderInv'
    BY <1>1, <2>3 DEF OrderInv, TurnInOrder, Reached
  <2> QED BY <1>1, <2>2, <2>4
<1>2. \A t \in Turns :
        /\ at[t] = "none" => ~silenced[t]
        /\ outcome[t] = "interrupted" => at[t] \in {"flush", "ticker", "over"}
        /\ silenced[t] /\ at[t] # "over" =>
             cancelled[t] \/ swallowed[t] \/ outcome[t] = "interrupted"
        /\ at[t] \notin {"loop", "flush", "ticker"} => ticker[t] = "off"
  BY DEF FeedbackInv, OrderInv
<1>3. CASE Interruption
  <2>1. Silent
    BY <1>0, <1>2, <1>3 DEF Interruption, CancelCurrent, Current, InFlight
  <2> QED BY <1>1, <2>1
<1>4. ASSUME NEW t \in Turns, Query(t) PROVE FeedbackInv' /\ OrderInv' /\ Said
  <2>1. t \notin Current
    BY <1>4 DEF Query, Current, InFlight
  <2>2. Silent
    BY <1>0, <1>2, <1>4, <2>1 DEF Query, CancelCurrent, Current, InFlight, Go, Waits
  <2> QED BY <1>1, <2>2
<1>5. ASSUME NEW t \in Turns, QuickAck(t) PROVE FeedbackInv' /\ OrderInv' /\ Said
  <2>1. Silent
    BY <1>0, <1>2, <1>5 DEF QuickAck, StartLoop, Go, Keep, Runs, Waits
  <2> QED BY <1>1, <2>1
<1>6. ASSUME NEW t \in Turns, LoopEnds(t) PROVE FeedbackInv' /\ OrderInv' /\ Said
  <2>1. Silent
    BY <1>0, <1>2, <1>6 DEF LoopEnds, Go, Keep, Runs, Waits
  <2> QED BY <1>1, <2>1
<1>7. ASSUME NEW t \in Turns, TickerEnds(t) PROVE FeedbackInv' /\ OrderInv' /\ Said
  <2>1. Silent
    BY <1>0, <1>2, <1>7 DEF TickerEnds, Go, Waits
  <2> QED BY <1>1, <2>1
<1>8. ASSUME NEW t \in Turns, Raise(t) PROVE FeedbackInv' /\ OrderInv' /\ Said
  <2>1. Silent
    BY <1>0, <1>2, <1>8 DEF Raise, Go, Waits
  <2> QED BY <1>1, <2>1
<1>9. ASSUME NEW t \in Turns, LoopCancelled(t) PROVE FeedbackInv' /\ OrderInv' /\ Said
  <2>1. Silent
    BY <1>0, <1>2, <1>9 DEF LoopCancelled, Go, Waits
  <2> QED BY <1>1, <2>1
<1>10. ASSUME NEW t \in Turns, Flushed(t) PROVE FeedbackInv' /\ OrderInv' /\ Said
  <2>1. Silent
    BY <1>0, <1>2, <1>10 DEF Flushed, Go, Keep, Waits
  <2> QED BY <1>1, <2>1
<1>11. CASE UNCHANGED feedbackVars
  <2>1. Silent
    BY <1>0, <1>2, <1>11 DEF feedbackVars
  <2> QED BY <1>1, <2>1
<1> HIDE DEF Silent
\* Steps of a turn that write a line.
<1>12. ASSUME NEW t \in Turns, NEW l \in Panel \union Speech, l.turn = t,
              output' = Append(output, l), Reached(t, Place(l.kind)), Keep,
              l = Line(t, "progress", "panel") \/ (~cancelled[t] /\ outcome[t] # "interrupted" /\ at[t] # "over"),
              at' \in [Turns -> Waits], ticker' \in [Turns -> {"off", "sleep", "ask", "send", "cancelled"}],
              UNCHANGED outcome,
              \A u \in Turns \ {t} : at'[u] = at[u] /\ ticker'[u] = ticker[u],
              at'[t] # "none", outcome[t] # "interrupted" \/ at'[t] = at[t],
              silenced[t] => at'[t] = "over" \/ at[t] # "over",
              at'[t] \in {"ack", "showAck", "speakAck"} => Place(l.kind) <= 1 /\ Reached(t, 1),
              at'[t] \in {"loop", "flush", "ticker"} => Place(l.kind) <= 2 /\ Reached(t, 2),
              at'[t] \notin {"loop", "flush", "ticker"} => ticker'[t] = "off"
       PROVE  FeedbackInv' /\ OrderInv' /\ Said
  <2>1. /\ output' \in Seq(Panel \union Speech) /\ output'[Len(output')] = l
    BY <1>0, <1>12, LineWritten
  <2>2. {cancelled', silenced', swallowed'} \subseteq [Turns -> BOOLEAN]
    BY <1>0, <1>12 DEF Keep
  <2>3. FeedbackInv'
    BY <1>0, <1>2, <1>12, <2>1, <2>2 DEF FeedbackInv, FeedbackTypeOK, Keep
  <2>4. /\ TurnInOrder'
        /\ \A u \in Turns, n \in 1 .. 3 :
             Reached(u, n) /\ (u = t => Place(l.kind) <= n) => Reached(u, n)'
    BY <1>12, LineInOrder
  <2>5. OrderInv'
    BY <1>12, <2>4 DEF OrderInv
  <2>6. Said
    BY <1>2, <1>12, <2>1 DEF FeedbackInv
  <2> QED BY <2>3, <2>5, <2>6
<1>13. ASSUME NEW t \in Turns
       PROVE  /\ Line(t, "ack", "panel") \in Panel /\ Line(t, "ack", "speech") \in Speech
              /\ Line(t, "progress", "panel") \in Panel
              /\ Line(t, "answer", "panel") \in Panel /\ Line(t, "answer", "speech") \in Speech
              /\ \A k \in Kinds, to \in {"panel", "speech"} :
                   Line(t, k, to).turn = t /\ Line(t, k, to).kind = k
  BY DEF Line, Panel, Speech, Kinds
<1>14. \A t \in Turns : /\ Reached(t, 1) => Reached(t, 2) 
                        /\ Reached(t, 3)
  <2>1. \A i \in 1 .. Len(output) : Place(output[i].kind) \in 1 .. 3
    BY <1>0, Places DEF Panel, Speech, Kinds
  <2> QED BY <2>1 DEF Reached
<1>15. ASSUME NEW t \in Turns, ShowAck(t) PROVE FeedbackInv' /\ OrderInv' /\ Said
  <2> DEFINE l == Line(t, "ack", "panel")
  <2>1. l \in Panel \union Speech /\ l.turn = t /\ l.kind = "ack" /\ Place(l.kind) = 1
    BY <1>13, Places DEF Kinds
  <2>2. at[t] = "showAck" /\ ~cancelled[t] /\ Reached(t, 1) /\ ticker[t] = "off" /\ outcome[t] # "interrupted"
    BY <1>2, <1>15 DEF ShowAck, Runs, OrderInv
  <2>3. /\ output' = Append(output, l) /\ Keep /\ UNCHANGED <<outcome, ticker>>
        /\ at' = [at EXCEPT ![t] = "speakAck"]
    BY <1>15 DEF ShowAck, Go
  <2> HIDE DEF l
  <2>4. at' \in [Turns -> Waits] /\ at'[t] = "speakAck" /\ \A u \in Turns \ {t} : at'[u] = at[u]
    BY <1>0, <2>3 DEF Waits
  <2> QED BY <1>0, <1>12, <2>1, <2>2, <2>3, <2>4
<1>16. ASSUME NEW t \in Turns, SpeakAck(t) PROVE FeedbackInv' /\ OrderInv' /\ Said
  <2> DEFINE l == Line(t, "ack", "speech")
  <2>1. l \in Panel \union Speech /\ l.turn = t /\ l.kind = "ack" /\ Place(l.kind) = 1
    BY <1>13, Places DEF Kinds
  <2>2. at[t] = "speakAck" /\ ~cancelled[t] /\ Reached(t, 1) /\ Reached(t, 2) /\ outcome[t] # "interrupted"
    BY <1>2, <1>14, <1>16 DEF SpeakAck, Runs, OrderInv
  <2>3. /\ output' = Append(output, l) /\ Keep /\ UNCHANGED outcome
        /\ at' = [at EXCEPT ![t] = "loop"]
        /\ \E first \in {"off", "sleep"} : ticker' = [ticker EXCEPT ![t] = first]
    BY <1>16 DEF SpeakAck, StartLoop, Go
  <2> HIDE DEF l
  <2>4. /\ at' \in [Turns -> Waits] /\ at'[t] = "loop"
        /\ ticker' \in [Turns -> {"off", "sleep", "ask", "send", "cancelled"}]
        /\ \A u \in Turns \ {t} : at'[u] = at[u] /\ ticker'[u] = ticker[u]
    BY <1>0, <2>3 DEF Waits
  <2> QED BY <1>0, <1>12, <2>1, <2>2, <2>3, <2>4
<1>17. ASSUME NEW t \in Turns, ToolProgress(t) PROVE FeedbackInv' /\ OrderInv' /\ Said
  <2> DEFINE l == Line(t, "progress", "panel")
  <2>1. l \in Panel \union Speech /\ l.turn = t /\ l.kind = "progress" /\ Place(l.kind) = 2
    BY <1>13, Places DEF Kinds
  <2>2. at[t] = "loop" /\ Reached(t, 2)
    BY <1>17 DEF ToolProgress, OrderInv
  <2>3. output' = Append(output, l) /\ Keep /\ UNCHANGED <<at, outcome, ticker>>
    BY <1>17 DEF ToolProgress
  <2>4. l = Line(t, "progress", "panel")
    OBVIOUS
  <2> HIDE DEF l
  <2> QED BY <1>0, <1>2, <1>12, <2>1, <2>2, <2>3, <2>4
<1>18. ASSUME NEW t \in Turns, Tick(t) PROVE FeedbackInv' /\ OrderInv' /\ Said
  <2>1. ticker[t] # "off" /\ at[t] \in {"loop", "flush", "ticker"} /\ Reached(t, 2)
    BY <1>2, <1>18 DEF Tick, OrderInv
  <2>2. /\ UNCHANGED <<at, outcome>> /\ Keep
        /\ ticker' \in [Turns -> {"off", "sleep", "ask", "send", "cancelled"}]
        /\ \A u \in Turns \ {t} : ticker'[u] = ticker[u]
    BY <1>0, <1>18 DEF Tick
  <2>3. CASE output' = output
    <3>1. Silent
      BY <1>0, <1>2, <2>1, <2>2, <2>3 DEF Silent, Keep
    <3> QED BY <1>1, <3>1
  <2>4. CASE output' = Append(output, Line(t, "progress", "panel"))
    <3>1. PICK l \in Panel \union Speech : l = Line(t, "progress", "panel")
      BY <1>13
    <3>2. l.turn = t /\ l.kind = "progress" /\ Place(l.kind) = 2
      BY <1>13, <3>1, Places DEF Kinds
    <3> QED BY <1>0, <1>2, <1>12, <2>1, <2>2, <2>4, <3>1, <3>2
  <2> QED BY <1>18, <2>3, <2>4 DEF Tick
<1>19. ASSUME NEW t \in Turns, ShowAnswer(t) PROVE FeedbackInv' /\ OrderInv' /\ Said
  <2> DEFINE l == Line(t, "answer", "panel")
  <2>1. l \in Panel \union Speech /\ l.turn = t /\ l.kind = "answer" /\ Place(l.kind) = 3
    BY <1>13, Places DEF Kinds
  <2>2. at[t] = "show" /\ ~cancelled[t] /\ Reached(t, 3) /\ ticker[t] = "off" /\ outcome[t] # "interrupted"
    BY <1>2, <1>14, <1>19 DEF ShowAnswer, Runs
  <2>3. /\ output' = Append(output, l) /\ Keep /\ UNCHANGED <<outcome, ticker>>
        /\ at' = [at EXCEPT ![t] = "speak"]
    BY <1>19 DEF ShowAnswer, Go
  <2> HIDE DEF l
  <2>4. at' \in [Turns -> Waits] /\ at'[t] = "speak" /\ \A u \in Turns \ {t} : at'[u] = at[u]
    BY <1>0, <2>3 DEF Waits
  <2> QED BY <1>0, <1>12, <2>1, <2>2, <2>3, <2>4
<1>20. ASSUME NEW t \in Turns, SpeakAnswer(t) PROVE FeedbackInv' /\ OrderInv' /\ Said
  <2> DEFINE l == Line(t, "answer", "speech")
  <2>1. l \in Panel \union Speech /\ l.turn = t /\ l.kind = "answer" /\ Place(l.kind) = 3
    BY <1>13, Places DEF Kinds
  <2>2. at[t] = "speak" /\ ~cancelled[t] /\ Reached(t, 3) /\ ticker[t] = "off" /\ outcome[t] # "interrupted"
    BY <1>2, <1>14, <1>20 DEF SpeakAnswer, Runs
  <2>3. /\ output' = Append(output, l) /\ Keep /\ UNCHANGED <<outcome, ticker>>
        /\ at' = [at EXCEPT ![t] = "over"]
    BY <1>20 DEF SpeakAnswer, Go
  <2> HIDE DEF l
  <2>4. at' \in [Turns -> Waits] /\ at'[t] = "over" /\ \A u \in Turns \ {t} : at'[u] = at[u]
    BY <1>0, <2>3 DEF Waits
  <2> QED BY <1>0, <1>12, <2>1, <2>2, <2>3, <2>4
<1> QED
  BY <1>3, <1>4, <1>5, <1>6, <1>7, <1>8, <1>9, <1>10, <1>11, <1>15, <1>16, <1>17, <1>18, <1>19, <1>20
  DEF FeedbackNext, TurnRuns

\* Of one turn the acknowledgement comes first, then the progress, whichever of the
\* turn's two tasks writes it, then the answer (process_query, _still_working_loop).
THEOREM LinesInOrder == FeedbackSpec => [](FeedbackTypeOK /\ TurnInOrder)
<1>1. FeedbackInv /\ OrderInv => FeedbackTypeOK /\ TurnInOrder
  BY DEF FeedbackInv, OrderInv
<1> QED BY FeedbackStarts, FeedbackSteps, <1>1, PTL DEF FeedbackSpec

\* A turn that was cancelled says no more, but for the progress of the tasks that still
\* run, unless its cancellation was taken for that of its ticker.
THEOREM CancelledTurnsStop == FeedbackSpec => SilencedUnlessSwallowed
<1> DEFINE Said == \A t \in Turns : silenced[t] /\ output' # output /\ output'[Len(output')].turn = t =>
                     swallowed[t] \/ output'[Len(output')] = Line(t, "progress", "panel")
<1>1. FeedbackInv /\ OrderInv /\ [FeedbackNext]_feedbackVars => FeedbackInv' /\ OrderInv' /\ Said
  BY FeedbackSteps
<1>2. Said => [\A t \in Turns : silenced[t] /\ output' # output /\ output'[Len(output')].turn = t =>
                 \/ swallowed[t]
                 \/ output'[Len(output')] = Line(t, "progress", "panel")]_feedbackVars
  OBVIOUS
<1> QED BY FeedbackStarts, <1>1, <1>2, PTL DEF FeedbackSpec, SilencedUnlessSwallowed
=============================================================================
