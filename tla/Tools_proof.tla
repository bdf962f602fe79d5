------------------------------ MODULE Tools_proof ------------------------------
(***************************************************************************)
(* Proofs about what the agents' tools rest on: the OpenXR server and its  *)
(* mirrors in the evaluation harness, the scoring of a rollout, and the    *)
(* transcript store.                                                       *)
(***************************************************************************)
EXTENDS Spatial, EvalHarness, Transcripts, SequenceTheorems, FiniteSetTheorems, FunctionTheorems,
        WellFoundedInduction, TLAPS

-----------------------------------------------------------------------------
(* The OpenXR session.                                                     *)

\* Nobody but a thread that was given up on still wants the pose of a server that
\* stops.
PoseInv ==
  /\ request \in [Requests -> {"idle", "waiting", "abandoned"}]
  /\ xrSession \in BOOLEAN
  /\ lock \in Requests \union {Nobody}
  /\ snapshot \in Poses \union {NotReady}
  /\ lock \in Requests => request[lock] # "idle"
  /\ server \in {"serving", "closing", "closed"}
  /\ server # "serving" => \A r \in Requests : request[r] # "waiting"

LEMMA PoseStarts == SpatialInit => PoseInv
  BY SpatialAssumption DEF SpatialInit, PoseInv

LEMMA PoseSteps ==
  ASSUME PoseInv, [SpatialNext]_spatialVars
  PROVE  PoseInv'
<1> USE SpatialAssumption DEF PoseInv
<1>1. CASE Stream
  BY <1>1 DEF Stream
<1>2. CASE Stop
  BY <1>2 DEF Stop
<1>3. CASE CloseServer
  BY <1>3 DEF CloseServer
<1>4. ASSUME NEW r \in Requests, Call(r) PROVE PoseInv'
  BY <1>4 DEF Call
<1>5. ASSUME NEW r \in Requests, Abandon(r) PROVE PoseInv'
  BY <1>5 DEF Abandon
<1>6. ASSUME NEW r \in Requests, TakeLock(r) PROVE PoseInv'
  BY <1>6 DEF TakeLock
<1>7. ASSUME NEW r \in Requests, GetPose(r) PROVE PoseInv'
  <2>1. xrSession' \in BOOLEAN
    BY <1>7 DEF GetPose, TryOpen
  <2>2. snapshot' \in Poses \union {NotReady}
    BY <1>7 DEF GetPose
  <2> QED BY <1>7, <2>1, <2>2 DEF GetPose
<1>8. ASSUME NEW r \in Requests, PoseRaises(r) PROVE PoseInv'
  BY <1>8 DEF PoseRaises
<1>9. CASE UNCHANGED spatialVars
  BY <1>9 DEF spatialVars
<1> QED BY <1>1, <1>2, <1>3, <1>4, <1>5, <1>6, <1>7, <1>8, <1>9 DEF SpatialNext

THEOREM PoseKept == SpatialSpec => []PoseInv
<1>1. SpatialInit => PoseInv
  BY PoseStarts
<1>2. PoseInv /\ [SpatialNext]_spatialVars => PoseInv'
  BY PoseSteps
<1> QED BY <1>1, <1>2, PTL DEF SpatialSpec

\* Only a session opened for a request its client gave up on outlives close().
THEOREM SessionsClosed == SpatialSpec => SurvivorNeedsOrphan
<1> DEFINE Act == server' = "closed" /\ xrSession' =>
             server = "closed" /\ (xrSession \/ \E r \in Requests : request[r] = "abandoned")
<1>1. ASSUME PoseInv, [SpatialNext]_spatialVars PROVE Act
  <2> USE DEF PoseInv
  <2>1. CASE CloseServer
    BY <2>1 DEF CloseServer
  <2>2. ASSUME NEW r \in Requests, GetPose(r) PROVE Act
    <3>1. server' = server /\ lock = r
      BY <2>2 DEF GetPose
    <3>2. ASSUME server = "closed" PROVE request[r] = "abandoned"
      BY <1>1, <3>1, <3>2
    <3> QED BY <3>1, <3>2
  <2>3. CASE xrSession' = xrSession /\ (server' = server \/ server' = "closing")
    BY <2>3
  <2>4. CASE Stream \/ Stop
    BY <2>3, <2>4 DEF Stream, Stop
  <2>5. ASSUME NEW r \in Requests, Call(r) \/ Abandon(r) \/ TakeLock(r) \/ PoseRaises(r) PROVE Act
    BY <2>3, <2>5 DEF Call, Abandon, TakeLock, PoseRaises
  <2>6. CASE UNCHANGED spatialVars
    BY <2>3, <2>6 DEF spatialVars
  <2> QED BY <1>1, <2>1, <2>2, <2>4, <2>5, <2>6 DEF SpatialNext
<1> QED BY <1>1, PoseKept, PTL DEF SpatialSpec, SurvivorNeedsOrphan

-----------------------------------------------------------------------------
(* The log of failed attempts.                                             *)

Failures == IF xrSession THEN attempts - 1 ELSE attempts
Due(n) == \/ \E i \in 1 .. Len(LogAt) : n = LogAt[i]
          \/ n > LogAt[Len(LogAt)] /\ n % LogAt[Len(LogAt)] = 0

\* The index stands behind the entries that the failures have reached, as long as
\* close() has not put a session away that was opened at the last attempt.
ScheduleInv ==
  server # "closed" =>
    /\ xrSession \in BOOLEAN /\ attempts \in Nat
    /\ xrSession => attempts > 0
    /\ nextLog \in 1 .. Len(LogAt) + 1
    /\ \A i \in 1 .. Len(LogAt) : i < nextLog <=> LogAt[i] <= Failures
    /\ logged = {n \in 1 .. Failures : Due(n)}

\* The next failure is due exactly when the code finds so, with the index it has.
LEMMA NextIsDue ==
  ASSUME NEW f \in Nat, NEW k \in 1 .. Len(LogAt) + 1,
         \A i \in 1 .. Len(LogAt) : i < k <=> LogAt[i] <= f
  PROVE  /\ k <= Len(LogAt) =>
              /\ Due(f + 1) <=> f + 1 >= LogAt[k]
              /\ \A i \in 1 .. Len(LogAt) :
                   LogAt[i] <= f + 1 <=> i < (IF Due(f + 1) THEN k + 1 ELSE k)
         /\ k > Len(LogAt) =>
              /\ Due(f + 1) <=> (f + 1) % LogAt[Len(LogAt)] = 0
              /\ \A i \in 1 .. Len(LogAt) : LogAt[i] <= f + 1 <=> i < k
<1> DEFINE L == Len(LogAt)
<1>1. L \in Nat \ {0} /\ \A i \in 1 .. L : LogAt[i] \in Nat \ {0}
  BY ScheduleAssumption
<1>2. \A i, j \in 1 .. L : i < j => LogAt[i] < LogAt[j]
  BY ScheduleAssumption
<1> HIDE DEF L
<1>3. \A i \in 1 .. L : i < k <=> LogAt[i] <= f
  BY DEF L
<1>4. ASSUME k <= L
      PROVE  /\ Due(f + 1) <=> f + 1 >= LogAt[k]
             /\ \A i \in 1 .. L : LogAt[i] <= f + 1 <=> i < (IF Due(f + 1) THEN k + 1 ELSE k)
  <2>1. k \in 1 .. L /\ LogAt[k] > f /\ LogAt[k] <= LogAt[L]
    BY <1>1, <1>2, <1>3, <1>4 DEF L
  <2>2. \A i \in 1 .. L : i > k => LogAt[i] > f + 1
    BY <1>1, <1>2, <2>1
  <2>3. \A i \in 1 .. L : i < k => LogAt[i] <= f
    BY <1>3
  <2>4. Due(f + 1) <=> f + 1 = LogAt[k]
    <3>1. ASSUME f + 1 > LogAt[L] PROVE FALSE
      BY <1>1, <2>1, <3>1
    <3>2. ASSUME NEW i \in 1 .. L, f + 1 = LogAt[i] PROVE i = k
      BY <1>1, <2>1, <2>2, <2>3, <3>2
    <3> QED BY <2>1, <3>1, <3>2 DEF Due, L
  <2>5. f + 1 >= LogAt[k] <=> f + 1 = LogAt[k]
    BY <1>1, <2>1
  <2>6. ASSUME NEW i \in 1 .. L
        PROVE  LogAt[i] <= f + 1 <=> i < (IF Due(f + 1) THEN k + 1 ELSE k)
    <3>1. CASE i < k
      BY <1>1, <2>3, <3>1
    <3>2. CASE i > k
      BY <1>1, <2>2, <3>2
    <3>3. CASE i = k
      BY <1>1, <2>4, <2>5, <3>3
    <3> QED BY <1>1, <3>1, <3>2, <3>3
  <2> QED BY <2>4, <2>5, <2>6
<1>5. ASSUME k > L
      PROVE  /\ Due(f + 1) <=> (f + 1) % LogAt[L] = 0
             /\ \A i \in 1 .. L : LogAt[i] <= f + 1 <=> i < k
  <2>1. \A i \in 1 .. L : i < k /\ LogAt[i] <= f /\ LogAt[i] < f + 1
    BY <1>1, <1>3, <1>5
  <2>2. L \in 1 .. L
    BY <1>1
  <2>3. f + 1 > LogAt[L] /\ ~ \E i \in 1 .. L : f + 1 = LogAt[i]
    BY <1>1, <2>1, <2>2
  <2> QED BY <1>1, <2>1, <2>3 DEF Due, L
<1> QED BY <1>1, <1>4, <1>5 DEF L

LEMMA ScheduleStarts == SpatialInit => ScheduleInv
<1> SUFFICES ASSUME SpatialInit PROVE ScheduleInv
  OBVIOUS
<1>1. Len(LogAt) \in Nat \ {0} /\ \A i \in 1 .. Len(LogAt) : LogAt[i] \in Nat \ {0}
  BY ScheduleAssumption
<1>2. attempts = 0 /\ nextLog = 1 /\ logged = {} /\ xrSession = FALSE
  BY DEF SpatialInit
<1>3. Failures = 0
  BY <1>2 DEF Failures
<1>4. \A i \in 1 .. Len(LogAt) : i < nextLog <=> LogAt[i] <= Failures
  BY <1>1, <1>2, <1>3
<1>5. logged = {n \in 1 .. Failures : Due(n)}
  BY <1>2, <1>3
<1>6. nextLog \in 1 .. Len(LogAt) + 1
  BY <1>1, <1>2
<1> QED BY <1>2, <1>4, <1>5, <1>6 DEF ScheduleInv

\* One more failure, logged or not.
LEMMA FailureLogged ==
  ASSUME ScheduleInv, server # "closed", xrSession = FALSE,
         attempts' = attempts + 1, xrSession' = FALSE, LogFailure(attempts + 1)
  PROVE  ScheduleInv'
<1> DEFINE L == Len(LogAt)
           n == attempts + 1
           due == IF nextLog <= L THEN n >= LogAt[nextLog] ELSE n % LogAt[L] = 0
<1>1. /\ attempts \in Nat /\ nextLog \in 1 .. L + 1 /\ Failures = attempts
      /\ \A i \in 1 .. L : i < nextLog <=> LogAt[i] <= attempts
      /\ logged = {m \in 1 .. attempts : Due(m)}
  BY DEF ScheduleInv, Failures
<1>2. L \in Nat \ {0}
  BY ScheduleAssumption
<1>3. Failures' = n /\ n \in Nat
  BY <1>1 DEF Failures
<1>4. /\ nextLog' = IF due /\ nextLog <= L THEN nextLog + 1 ELSE nextLog
      /\ logged' = IF due THEN logged \cup {n} ELSE logged
  BY DEF LogFailure
<1>5. /\ due <=> Due(n)
      /\ \A i \in 1 .. L :
           LogAt[i] <= n <=> i < (IF Due(n) /\ nextLog <= L THEN nextLog + 1 ELSE nextLog)
  <2> HIDE DEF n
  <2>1. CASE nextLog <= L
    BY <1>1, <2>1, NextIsDue DEF n
  <2>2. CASE nextLog > L
    BY <1>1, <1>2, <2>2, NextIsDue DEF n
  <2> QED BY <1>1, <1>2, <2>1, <2>2
<1>6. logged' = {m \in 1 .. n : Due(m)}
  <2>1. 1 .. n = (1 .. attempts) \cup {n}
    BY <1>1
  <2> HIDE DEF n, due
  <2> QED BY <1>1, <1>4, <1>5, <2>1
<1>7. nextLog' \in 1 .. L + 1 /\ \A i \in 1 .. L : i < nextLog' <=> LogAt[i] <= n
  <2> HIDE DEF due, n
  <2> QED BY <1>1, <1>2, <1>4, <1>5
<1> QED BY <1>1, <1>3, <1>6, <1>7 DEF ScheduleInv, Due

LEMMA ScheduleSteps ==
  ASSUME PoseInv, ScheduleInv, [SpatialNext]_spatialVars
  PROVE  ScheduleInv'
<1>1. CASE UNCHANGED << xrSession, attempts, nextLog, logged >> /\ (server' = server \/ server = "serving")
  BY <1>1 DEF ScheduleInv, Failures, Due
<1>2. CASE Stream \/ Stop \/ UNCHANGED spatialVars
  BY <1>1, <1>2 DEF Stream, Stop, spatialVars
<1>3. CASE CloseServer
  BY <1>3 DEF CloseServer, ScheduleInv
<1>4. ASSUME NEW r \in Requests, Call(r) \/ Abandon(r) \/ TakeLock(r) \/ PoseRaises(r)
      PROVE  ScheduleInv'
  BY <1>1, <1>4 DEF Call, Abandon, TakeLock, PoseRaises
<1>5. ASSUME NEW r \in Requests, GetPose(r) PROVE ScheduleInv'
  <2>1. server' = server /\ TryOpen
    BY <1>5 DEF GetPose
  <2>2. CASE xrSession
    BY <1>1, <2>1, <2>2 DEF TryOpen
  <2>3. CASE server = "closed"
    BY <2>1, <2>3 DEF ScheduleInv
  <2>4. CASE server # "closed" /\ ~ xrSession
    <3>1. xrSession = FALSE /\ attempts' = attempts + 1 /\ xrSession' = (runtime = "all")
      BY <2>1, <2>4 DEF TryOpen, PoseInv
    <3>2. CASE runtime = "all"
      <4>1. nextLog' = nextLog /\ logged' = logged /\ xrSession' = TRUE
        BY <2>1, <2>4, <3>1, <3>2 DEF TryOpen
      <4>2. attempts \in Nat /\ attempts' \in Nat /\ attempts' > 0 /\ Failures' = Failures
        BY <2>4, <3>1, <4>1 DEF ScheduleInv, Failures
      <4> QED BY <2>4, <4>1, <4>2 DEF ScheduleInv, Due
    <3>3. CASE runtime # "all"
      <4>1. LogFailure(attempts + 1) /\ xrSession' = FALSE
        BY <2>1, <2>4, <3>1, <3>3 DEF TryOpen
      <4> QED BY <2>4, <3>1, <4>1, FailureLogged
    <3> QED BY <3>2, <3>3
  <2> QED BY <2>2, <2>3, <2>4
<1> QED BY <1>2, <1>3, <1>4, <1>5 DEF SpatialNext

\* Of the failures before the server stops exactly those of the schedule are
\* logged, and after its last entry those that entry divides: the index never
\* falls behind, so that the >= of the code acts as an equality.
THEOREM FailuresLogged == SpatialSpec => []LogsOnSchedule
<1>1. SpatialInit => ScheduleInv
  BY ScheduleStarts
<1>2. PoseInv /\ ScheduleInv /\ [SpatialNext]_spatialVars => ScheduleInv'
  BY ScheduleSteps
<1>3. ScheduleInv => LogsOnSchedule
  BY DEF ScheduleInv, LogsOnSchedule, Failures, Due
<1> QED BY <1>1, <1>2, <1>3, PoseKept, PTL DEF SpatialSpec

-----------------------------------------------------------------------------
(* The mirrors of the tools.                                               *)

\* A shift of a point, computed component by component as eval.py does, is the
\* server's sum of three vectors.
LEMMA ShiftsAgree ==
  ASSUME NEW p, NEW pose, NEW delta
  PROVE  LocalShift(p, LocalGroundBasis(pose), delta) = Shift(p, pose, delta)
<1>1. LocalGroundBasis(pose) = GroundBasis(pose)
  BY DEF LocalGroundBasis, GroundBasis
<1> DEFINE b == GroundBasis(pose)
<1>2. ASSUME NEW i \in 1 .. 3
      PROVE  << 0, delta[2], 0 >>[i] = IF i = 2 THEN delta[2] ELSE 0
  BY <1>2
<1> HIDE DEF b
<1>3. ASSUME NEW i \in 1 .. 3
      PROVE  Plus(Plus(p, Far(b.f, delta[3])), Plus(Far(b.r, delta[1]), << 0, delta[2], 0 >>))[i] =
             LocalShift(p, b, delta)[i]
  BY <1>2, <1>3 DEF Plus, Far, LocalShift
<1>4. Plus(Plus(p, Far(b.f, delta[3])), Plus(Far(b.r, delta[1]), << 0, delta[2], 0 >>)) =
      LocalShift(p, b, delta)
  BY <1>3 DEF Plus, LocalShift
<1> QED BY <1>1, <1>4 DEF Shift, b

\* For every complete call and every valid pose a mirror answers what the tool does.
LEMMA MirrorsAnswer ==
  ASSUME NEW pose, pose.valid, NEW c \in Calls, ~ Incomplete(c),
         "origin" \in DOMAIN c => c.origin # Null
  PROVE  Answer(c, pose) = LocalAnswer(c, pose)
<1>b. LocalGroundBasis(pose) = GroundBasis(pose)
  BY DEF LocalGroundBasis, GroundBasis
<1>1. CASE c \in [tool : {"position_ahead"}, distance : Reach]
  BY <1>1 DEF Answer, VecTools, LocalAnswer, TooNear, PositionAhead, LocalPositionAhead
<1>2. CASE c \in [tool : {"position_relative"}, origin : Somewhere \cup {Null}, delta : Deltas]
  <2>1. c.tool = "position_relative" /\ c.origin # Null
    BY <1>2
  <2>2. Answer(c, pose) = PositionRelative(c, pose)
    BY <2>1 DEF Answer, VecTools, TooNear
  <2>3. LocalAnswer(c, pose) = LocalPositionRelative(c, pose)
    BY <2>1 DEF LocalAnswer
  <2> QED BY <2>1, <2>2, <2>3, ShiftsAgree DEF PositionRelative, LocalPositionRelative, Or
<1>3. CASE c \in [tool : {"place_user_relative"}, direction : Sides, distance : Reach]
  <2>1. c.tool = "place_user_relative"
    BY <1>3
  <2>2. LocalAnswer(c, pose) = LocalPlaceUser(c, pose)
    BY <2>1 DEF LocalAnswer
  <2>3. TooNear(c) <=> Or(c.distance, 1500) < 0
    BY <2>1 DEF TooNear, Or
  <2>4. CASE TooNear(c)
    BY <2>2, <2>3, <2>4 DEF Answer, LocalPlaceUser
  <2>5. CASE ~ TooNear(c)
    <3>1. Answer(c, pose) = PlaceUserRelative(c, pose)
      BY <2>1, <2>5 DEF Answer, VecTools
    <3> QED BY <1>b, <2>2, <2>3, <2>5, <3>1 DEF LocalPlaceUser, PlaceUserRelative
  <2> QED BY <2>4, <2>5
<1>4. CASE c \in [tool : {"place_object_relative"}, origin : Somewhere, direction : ObjSides,
                  distance : Reach]
  <2>1. c.tool = "place_object_relative" /\ c.origin # Absent
    BY <1>4 DEF Incomplete
  <2>2. LocalAnswer(c, pose) = LocalPlaceObject(c, pose)
    BY <2>1 DEF LocalAnswer
  <2>3. TooNear(c) <=> Or(c.distance, 300) < 0
    BY <2>1 DEF TooNear, Or
  <2>4. CASE TooNear(c)
    BY <2>2, <2>3, <2>4 DEF Answer, LocalPlaceObject
  <2>5. CASE ~ TooNear(c)
    <3>1. Answer(c, pose) = PlaceObjectRelative(c, pose)
      BY <2>1, <2>5 DEF Answer, VecTools
    <3>2. Or(c.origin, << 0, 0, 0 >>) = c.origin
      BY <2>1 DEF Or
    <3> QED BY <1>b, <2>2, <2>3, <2>5, <3>1, <3>2 DEF LocalPlaceObject, PlaceObjectRelative
  <2> QED BY <2>4, <2>5
<1>5. CASE c \in [tool : {"displace_object", "world_offset"}, origin : Somewhere, delta : Deltas]
  <2>1. c.origin # Absent
    BY <1>5 DEF Incomplete
  <2>2. CASE c.tool = "displace_object"
    BY <2>1, <2>2, ShiftsAgree DEF Answer, VecTools, LocalAnswer, TooNear, DisplaceObject, LocalDisplaceObject
  <2>3. CASE c.tool = "world_offset"
    <3>1. Answer(c, pose) = WorldOffset(c)
      BY <2>3 DEF Answer, TooNear, VecTools, VecAnswer
    <3>2. LocalAnswer(c, pose) = LocalWorldOffset(c)
      BY <2>3 DEF LocalAnswer
    <3> QED BY <2>1, <3>1, <3>2 DEF WorldOffset, LocalWorldOffset, Or
  <2> QED BY <1>5, <2>2, <2>3
<1>6. CASE c \in [tool : {"displace_objects"}, delta : Deltas, paired : BOOLEAN,
                  origins : {<< >>} \cup {<< p, q >> : p, q \in Points}]
  <2>1. c.tool = "displace_objects"
    BY <1>6
  <2>2. Answer(c, pose) = DisplaceObjects(c, pose)
    BY <2>1 DEF Answer, VecTools, TooNear
  <2>3. LocalAnswer(c, pose) = LocalDisplaceObjects(c, pose)
    BY <2>1 DEF LocalAnswer
  <2> QED BY <2>2, <2>3, ShiftsAgree DEF DisplaceObjects, LocalDisplaceObjects
<1>7. CASE c \in [tool : {"place_inside_by_id"}, origin : Somewhere]
  <2>1. c.tool = "place_inside_by_id" /\ c.origin # Absent
    BY <1>7 DEF Incomplete
  <2> QED BY <2>1 DEF Answer, VecTools, LocalAnswer, NoPoseNeeded, TooNear, PlaceInsideById, LocalPlaceInside
<1>8. CASE c \in [tool : {"between_anchors"}, origin : Somewhere, target : Points]
  <2>1. c.tool = "between_anchors" /\ c.origin # Absent
    BY <1>8 DEF Incomplete
  <2>2. Answer(c, pose) = BetweenAnchors(c)
    BY <2>1 DEF Answer, TooNear, VecTools, VecAnswer
  <2>3. LocalAnswer(c, pose) = LocalBetweenAnchors(c)
    BY <2>1 DEF LocalAnswer
  <2>4. Or(c.origin, << 0, 0, 0 >>) = c.origin
    BY <2>1 DEF Or
  <2> QED BY <2>2, <2>3, <2>4 DEF BetweenAnchors, LocalBetweenAnchors
<1>9. CASE c \in [tool : {"along_direction"}, origin : Somewhere, target : Points, distance : Reach]
  <2>1. c.tool = "along_direction" /\ c.origin # Absent
    BY <1>9 DEF Incomplete
  <2>2. Answer(c, pose) = AlongDirection(c)
    BY <2>1 DEF Answer, TooNear, VecTools, VecAnswer
  <2>3. LocalAnswer(c, pose) = LocalAlongDirection(c)
    BY <2>1 DEF LocalAnswer
  <2>4. Or(c.origin, << 0, 0, 0 >>) = c.origin
    BY <2>1 DEF Or
  <2> QED BY <2>2, <2>3, <2>4 DEF AlongDirection, LocalAlongDirection
<1>10. CASE c \in [tool : {"scale_value"}, current : {100, 300}, factor : {0, 2, -1}]
  <2>1. c.tool = "scale_value"
    BY <1>10
  <2> QED BY <2>1 DEF Answer, LocalAnswer, TooNear, VecTools, VecAnswer, ScaleValue, LocalScaleValue
<1> QED BY <1>1, <1>2, <1>3, <1>4, <1>5, <1>6, <1>7, <1>8, <1>9, <1>10 DEF Calls

\* The harness scores a model on what the live servers would have answered.
THEOREM MirrorsFaithful == SpatialSpec => []MirrorsAgree
<1>1. ASSUME PoseInv PROVE MirrorsAgree
  <2>1. ASSUME snapshot.valid PROVE snapshot \in Poses
    BY <1>1, <2>1 DEF PoseInv, NotReady
  <2> QED BY <2>1, MirrorsAnswer DEF MirrorsAgree, Mirrored, ValidPoses
<1> QED BY <1>1, PoseKept, PTL

-----------------------------------------------------------------------------
(* Placing around the user.                                                *)

\* Products of integers are integers.
LEMMA IntegerProducts ==
  ASSUME NEW a \in Int, NEW b \in Int
  PROVE  a * b \in Int /\ a + b \in Int /\ a - b \in Int /\ - a \in Int
OBVIOUS

\* A vector of whole numbers.
Integral(v) == v[1] \in Int /\ v[2] \in Int /\ v[3] \in Int

LEMMA CrossIntegral ==
  ASSUME NEW u, NEW v, Integral(u), Integral(v)
  PROVE  /\ Integral(Cross(u, v)) /\ Dot(u, v) \in Int
         /\ Cross(u, v)[1] = u[2] * v[3] - u[3] * v[2]
         /\ Cross(u, v)[2] = u[3] * v[1] - u[1] * v[3]
         /\ Cross(u, v)[3] = u[1] * v[2] - u[2] * v[1]
<1>1. /\ Cross(u, v)[1] = u[2] * v[3] - u[3] * v[2]
      /\ Cross(u, v)[2] = u[3] * v[1] - u[1] * v[3]
      /\ Cross(u, v)[3] = u[1] * v[2] - u[2] * v[1]
  BY DEF Cross
<1>2. Dot(u, v) = u[1] * v[1] + u[2] * v[2] + u[3] * v[3]
  BY DEF Dot
<1>3. u[1] \in Int /\ u[2] \in Int /\ u[3] \in Int /\ v[1] \in Int /\ v[2] \in Int /\ v[3] \in Int
  BY DEF Integral
<1> QED BY <1>1, <1>2, <1>3, IntegerProducts DEF Integral

LEMMA MulIntegral ==
  ASSUME NEW p, NEW q, Integral(p.v), p.w \in Int, Integral(q.v), q.w \in Int
  PROVE  Integral(Mul(p, q).v) /\ Mul(p, q).w \in Int
<1>1. Integral(Cross(p.v, q.v)) /\ Dot(p.v, q.v) \in Int
  BY CrossIntegral
<1>2. /\ Mul(p, q).w = p.w * q.w - Dot(p.v, q.v)
      /\ \A i \in 1 .. 3 : Mul(p, q).v[i] = p.w * q.v[i] + q.w * p.v[i] + Cross(p.v, q.v)[i]
  BY DEF Mul
<1>3. \A i \in 1 .. 3 : p.v[i] \in Int /\ q.v[i] \in Int /\ Cross(p.v, q.v)[i] \in Int
  BY <1>1 DEF Integral
<1>4. \A i \in 1 .. 3 : Mul(p, q).v[i] \in Int
  BY <1>2, <1>3, IntegerProducts
<1> QED BY <1>1, <1>2, <1>4, IntegerProducts DEF Integral

LEMMA HeadsIntegral ==
  ASSUME NEW q \in Orientations
  PROVE  Integral(q.v) /\ q.w \in Int
<1>1. PICK y \in Turns, n \in Nods, t \in Tilts : q = Oriented(y, n, t)
  BY DEF Orientations
<1>2. /\ y[1] \in Int /\ y[2] \in Int /\ n[1] \in Int /\ n[2] \in Int /\ t[1] \in Int /\ t[2] \in Int
  BY ExactAssumption
<1>3. PICK a, b, c : /\ a = [v |-> << 0, y[1], 0 >>, w |-> y[2]]
                     /\ b = [v |-> << n[1], 0, 0 >>, w |-> n[2]]
                     /\ c = [v |-> << 0, 0, t[1] >>, w |-> t[2]]
  OBVIOUS
<1>4. /\ Integral(a.v) /\ a.w \in Int /\ Integral(b.v) /\ b.w \in Int /\ Integral(c.v) /\ c.w \in Int
  BY <1>2, <1>3 DEF Integral
<1>5. Integral(Mul(a, b).v) /\ Mul(a, b).w \in Int
  BY <1>4, MulIntegral
<1>6. Integral(Mul(Mul(a, b), c).v) /\ Mul(Mul(a, b), c).w \in Int
  BY <1>4, <1>5, MulIntegral
<1> QED BY <1>1, <1>3, <1>6 DEF Oriented

\* Where a head turns the axes to, as polynomials of its quaternion.
LEMMA TurnedIs ==
  ASSUME NEW q, Integral(q.v), q.w \in Int, NEW v, Integral(v)
  PROVE  LET x == q.v[1]
             y == q.v[2]
             z == q.v[3]
             w == q.w
             s == Size(q)
             c == Cross(q.v, v)
         IN  /\ s = x * x + y * y + z * z + w * w /\ s \in Int
             /\ Turned(q, v)[1] = s * v[1] + w * (2 * c[1]) + (y * (2 * c[3]) - z * (2 * c[2]))
             /\ Turned(q, v)[2] = s * v[2] + w * (2 * c[2]) + (z * (2 * c[1]) - x * (2 * c[3]))
             /\ Turned(q, v)[3] = s * v[3] + w * (2 * c[3]) + (x * (2 * c[2]) - y * (2 * c[1]))
<1> DEFINE x == q.v[1]
           y == q.v[2]
           z == q.v[3]
           w == q.w
<1>1. x \in Int /\ y \in Int /\ z \in Int /\ w \in Int
  BY DEF Integral
<1>2. Size(q) = x * x + y * y + z * z + w * w
  BY DEF Size, Dot
<1>3. PICK t : t = [i \in 1 .. 3 |-> 2 * Cross(q.v, v)[i]]
  OBVIOUS
<1>4. Turned(q, v) = [i \in 1 .. 3 |-> Size(q) * v[i] + q.w * t[i] + Cross(q.v, t)[i]]
  BY <1>3 DEF Turned
<1>5. /\ Cross(q.v, t)[1] = y * t[3] - z * t[2]
      /\ Cross(q.v, t)[2] = z * t[1] - x * t[3]
      /\ Cross(q.v, t)[3] = x * t[2] - y * t[1]
  BY DEF Cross
<1>6. \A i \in 1 .. 3 : t[i] = 2 * Cross(q.v, v)[i]
  BY <1>3
<1>7. \A i \in 1 .. 3 : Turned(q, v)[i] = Size(q) * v[i] + q.w * t[i] + Cross(q.v, t)[i]
  BY <1>4
<1>8. Size(q) \in Int
  BY <1>1, <1>2, IntegerProducts
<1> QED BY <1>2, <1>5, <1>6, <1>7, <1>8

\* The sums a turn of the axes is computed with.
Squares(x, y, z, w, s, a, b, c, d) ==
  a = w * w /\ b = x * x /\ c = y * y /\ d = z * z /\ s = b + c + d + a

AxisSums(x, y, z, w, s, a, b, c, d) ==
  /\ s * 0 + w * (2 * (- (1000 * y))) + (y * (2 * 0) - z * (2 * (1000 * x))) = (-2000) * (w * y + x * z)
  /\ s * 0 + w * (2 * (1000 * x)) + (z * (2 * (- (1000 * y))) - x * (2 * 0)) = 2000 * (w * x - y * z)
  /\ s * (-1000) + w * (2 * 0) + (x * (2 * (1000 * x)) - y * (2 * (- (1000 * y)))) =
     (-1000) * (a + d - b - c)
  /\ s * 1000 + w * (2 * 0) + (y * (2 * (- (1000 * y))) - z * (2 * (1000 * z))) = 1000 * (a + b - c - d)
  /\ s * 0 + w * (2 * (1000 * z)) + (z * (2 * 0) - x * (2 * (- (1000 * y)))) = 2000 * (w * z + x * y)
  /\ s * 0 + w * (2 * (- (1000 * y))) + (x * (2 * (1000 * z)) - y * (2 * 0)) = 2000 * (x * z - w * y)
  /\ s * 0 + w * (2 * (- (1000 * z))) + (y * (2 * (1000 * x)) - z * (2 * 0)) = 2000 * (x * y - w * z)
  /\ s * 1000 + w * (2 * 0) + (z * (2 * (- (1000 * z))) - x * (2 * (1000 * x))) = 1000 * (a + c - b - d)
  /\ s * 0 + w * (2 * (1000 * x)) + (x * (2 * 0) - y * (2 * (- (1000 * z)))) = 2000 * (w * x + y * z)

LEMMA AxesSummed ==
  ASSUME NEW x \in Int, NEW y \in Int, NEW z \in Int, NEW w \in Int, NEW s \in Int,
         NEW a \in Int, NEW b \in Int, NEW c \in Int, NEW d \in Int,
         Squares(x, y, z, w, s, a, b, c, d)
  PROVE  AxisSums(x, y, z, w, s, a, b, c, d)
<1>0. a = w * w /\ b = x * x /\ c = y * y /\ d = z * z /\ s = b + c + d + a
  BY DEF Squares
<1>1. s * 0 + w * (2 * (- (1000 * y))) + (y * (2 * 0) - z * (2 * (1000 * x))) = (-2000) * (w * y + x * z)
  BY SMT
<1>2. s * 0 + w * (2 * (1000 * x)) + (z * (2 * (- (1000 * y))) - x * (2 * 0)) = 2000 * (w * x - y * z)
  BY SMT
<1>3. s * (-1000) + w * (2 * 0) + (x * (2 * (1000 * x)) - y * (2 * (- (1000 * y)))) =
      (-1000) * (a + d - b - c)
  BY <1>0, SMT
<1>4. s * 1000 + w * (2 * 0) + (y * (2 * (- (1000 * y))) - z * (2 * (1000 * z))) = 1000 * (a + b - c - d)
  BY <1>0, SMT
<1>5. s * 0 + w * (2 * (1000 * z)) + (z * (2 * 0) - x * (2 * (- (1000 * y)))) = 2000 * (w * z + x * y)
  BY SMT
<1>6. s * 0 + w * (2 * (- (1000 * y))) + (x * (2 * (1000 * z)) - y * (2 * 0)) = 2000 * (x * z - w * y)
  BY SMT
<1>7. s * 0 + w * (2 * (- (1000 * z))) + (y * (2 * (1000 * x)) - z * (2 * 0)) = 2000 * (x * y - w * z)
  BY SMT
<1>8. s * 1000 + w * (2 * 0) + (z * (2 * (- (1000 * z))) - x * (2 * (1000 * x))) = 1000 * (a + c - b - d)
  BY <1>0, SMT
<1>9. s * 0 + w * (2 * (1000 * x)) + (x * (2 * 0) - y * (2 * (- (1000 * z)))) = 2000 * (w * x + y * z)
  BY SMT
<1> QED BY <1>1, <1>2, <1>3, <1>4, <1>5, <1>6, <1>7, <1>8, <1>9 DEF AxisSums

AxesOf(q, x, y, z, w) ==
  /\ Size(q) = x * x + y * y + z * z + w * w /\ Size(q) \in Int
  /\ Turned(q, Ahead0)[1] = (-2000) * (w * y + x * z)
  /\ Turned(q, Ahead0)[3] = (-1000) * (w * w + z * z - x * x - y * y)
  /\ Turned(q, Right0)[1] = 1000 * (w * w + x * x - y * y - z * z)
  /\ Turned(q, Right0)[3] = 2000 * (x * z - w * y)
  /\ Turned(q, Up0)[2] = 1000 * (w * w + y * y - x * x - z * z)
  /\ Integral(Turned(q, Ahead0)) /\ Integral(Turned(q, Right0)) /\ Integral(Turned(q, Up0))

LEMMA AxesTurned ==
  ASSUME NEW q, Integral(q.v), q.w \in Int,
         NEW x \in Int, NEW y \in Int, NEW z \in Int, NEW w \in Int,
         x = q.v[1], y = q.v[2], z = q.v[3], w = q.w
  PROVE  AxesOf(q, x, y, z, w)
<1>2. /\ Ahead0[1] = 0 /\ Ahead0[2] = 0 /\ Ahead0[3] = -1000
      /\ Right0[1] = 1000 /\ Right0[2] = 0 /\ Right0[3] = 0
      /\ Up0[1] = 0 /\ Up0[2] = 1000 /\ Up0[3] = 0
  BY DEF Ahead0, Right0, Up0
<1>3. Integral(Ahead0) /\ Integral(Right0) /\ Integral(Up0)
  BY <1>2 DEF Integral
<1>4. /\ Cross(q.v, Ahead0)[1] = - (1000 * y) /\ Cross(q.v, Ahead0)[2] = 1000 * x /\ Cross(q.v, Ahead0)[3] = 0
      /\ Cross(q.v, Right0)[1] = 0 /\ Cross(q.v, Right0)[2] = 1000 * z /\ Cross(q.v, Right0)[3] = - (1000 * y)
      /\ Cross(q.v, Up0)[1] = - (1000 * z) /\ Cross(q.v, Up0)[2] = 0 /\ Cross(q.v, Up0)[3] = 1000 * x
  BY <1>2, <1>3, CrossIntegral
<1>5. PICK s \in Int : s = Size(q) /\ s = x * x + y * y + z * z + w * w
  BY <1>3, TurnedIs
<1>6. /\ Turned(q, Ahead0)[1] = s * 0 + w * (2 * (- (1000 * y))) + (y * (2 * 0) - z * (2 * (1000 * x)))
      /\ Turned(q, Ahead0)[2] = s * 0 + w * (2 * (1000 * x)) + (z * (2 * (- (1000 * y))) - x * (2 * 0))
      /\ Turned(q, Ahead0)[3] = s * (-1000) + w * (2 * 0) + (x * (2 * (1000 * x)) - y * (2 * (- (1000 * y))))
  BY <1>2, <1>3, <1>4, <1>5, TurnedIs
<1>7. /\ Turned(q, Right0)[1] = s * 1000 + w * (2 * 0) + (y * (2 * (- (1000 * y))) - z * (2 * (1000 * z)))
      /\ Turned(q, Right0)[2] = s * 0 + w * (2 * (1000 * z)) + (z * (2 * 0) - x * (2 * (- (1000 * y))))
      /\ Turned(q, Right0)[3] = s * 0 + w * (2 * (- (1000 * y))) + (x * (2 * (1000 * z)) - y * (2 * 0))
  BY <1>2, <1>3, <1>4, <1>5, TurnedIs
<1>8. /\ Turned(q, Up0)[1] = s * 0 + w * (2 * (- (1000 * z))) + (y * (2 * (1000 * x)) - z * (2 * 0))
      /\ Turned(q, Up0)[2] = s * 1000 + w * (2 * 0) + (z * (2 * (- (1000 * z))) - x * (2 * (1000 * x)))
      /\ Turned(q, Up0)[3] = s * 0 + w * (2 * (1000 * x)) + (x * (2 * 0) - y * (2 * (- (1000 * z))))
  BY <1>2, <1>3, <1>4, <1>5, TurnedIs
<1>9. PICK a \in Int, b \in Int, c \in Int, d \in Int : a = w * w /\ b = x * x /\ c = y * y /\ d = z * z
  <2>1. w * w \in Int /\ x * x \in Int /\ y * y \in Int /\ z * z \in Int
    BY IntegerProducts
  <2> QED BY <2>1, Zenon
<1>10. Squares(x, y, z, w, s, a, b, c, d)
  BY <1>5, <1>9 DEF Squares
<1>11. AxisSums(x, y, z, w, s, a, b, c, d)
  BY <1>10, AxesSummed
<1>12. /\ Turned(q, Ahead0)[1] = (-2000) * (w * y + x * z)
       /\ Turned(q, Ahead0)[2] = 2000 * (w * x - y * z)
       /\ Turned(q, Ahead0)[3] = (-1000) * (a + d - b - c)
  BY <1>6, <1>11 DEF AxisSums
<1>13. /\ Turned(q, Right0)[1] = 1000 * (a + b - c - d)
       /\ Turned(q, Right0)[2] = 2000 * (w * z + x * y)
       /\ Turned(q, Right0)[3] = 2000 * (x * z - w * y)
  BY <1>7, <1>11 DEF AxisSums
<1>14. /\ Turned(q, Up0)[1] = 2000 * (x * y - w * z)
       /\ Turned(q, Up0)[2] = 1000 * (a + c - b - d)
       /\ Turned(q, Up0)[3] = 2000 * (w * x + y * z)
  BY <1>8, <1>11 DEF AxisSums
<1>15. Integral(Turned(q, Ahead0)) /\ Integral(Turned(q, Right0)) /\ Integral(Turned(q, Up0))
  BY <1>12, <1>13, <1>14 DEF Integral
<1> QED BY <1>5, <1>9, <1>12, <1>13, <1>14, <1>15 DEF AxesOf

\* What is exactly divided, multiplied again.
LEMMA ExactDivision ==
  ASSUME NEW a \in Int, NEW n \in Nat, n > 0, a % n = 0
  PROVE  a \div n \in Int /\ n * (a \div n) = a
OBVIOUS

\* Of the vectors a head of size s turns ahead and right to, and the height of
\* the one it turns up to.
HeadTurned(x, y, z, w, s, f1, f3, r1, r3, u2) ==
  /\ s = x * x + y * y + z * z + w * w /\ s > 0
  /\ s * f1 = (-2000) * (w * y + x * z)
  /\ s * f3 = (-1000) * (w * w + z * z - x * x - y * y)
  /\ s * r1 = 1000 * (w * w + x * x - y * y - z * z)
  /\ s * r3 = 2000 * (x * z - w * y)
  /\ s * u2 = 1000 * (w * w + y * y - x * x - z * z)

\* The ground projections of ahead and right turn as the height of up says.
GroundUpright(f1, f3, r1, r3, u2) == f1 * r3 - f3 * r1 = 1000 * u2

LEMMA GroundIdentity ==
  ASSUME NEW x \in Int, NEW y \in Int, NEW z \in Int, NEW w \in Int, NEW s \in Int,
         NEW f1 \in Int, NEW f3 \in Int, NEW r1 \in Int, NEW r3 \in Int, NEW u2 \in Int,
         HeadTurned(x, y, z, w, s, f1, f3, r1, r3, u2)
  PROVE  \* The ground projections of ahead and right turn as the height of up says.
GroundUpright(f1, f3, r1, r3, u2)
<1>0. /\ s = x * x + y * y + z * z + w * w /\ s > 0
      /\ s * f1 = (-2000) * (w * y + x * z)
      /\ s * f3 = (-1000) * (w * w + z * z - x * x - y * y)
      /\ s * r1 = 1000 * (w * w + x * x - y * y - z * z)
      /\ s * r3 = 2000 * (x * z - w * y)
      /\ s * u2 = 1000 * (w * w + y * y - x * x - z * z)
  BY DEF HeadTurned
<1>1. PICK a \in Int, b \in Int, c \in Int, d \in Int : a = w * w /\ b = x * x /\ c = y * y /\ d = z * z
  BY SMT
<1>2. PICK g \in Int, h \in Int : g = w * y /\ h = x * z
  BY SMT
<1>3. g * g = a * c /\ h * h = b * d
  BY <1>1, <1>2, SMT
<1>4. PICK p \in Int, q \in Int, k \in Int, m \in Int, u \in Int :
        p = s * f1 /\ q = s * r3 /\ k = s * f3 /\ m = s * r1 /\ u = s * u2
  BY SMT
<1>5. /\ p = (-2000) * (g + h) /\ q = 2000 * (h - g)
      /\ k = (-1000) * ((a - c) + (d - b)) /\ m = 1000 * ((a - c) - (d - b))
      /\ u = 1000 * ((a + c) - (b + d)) /\ s = (a + c) + (b + d)
  BY <1>0, <1>1, <1>2, <1>4, SMT
<1>6. p * q - k * m = 1000 * (s * u)
  <2>1. p * q = (-4000000) * (h * h - g * g)
    BY <1>5, SMT
  <2>2. k * m = (-1000000) * ((a - c) * (a - c) - (d - b) * (d - b))
    BY <1>5, SMT
  <2>3. s * u = 1000 * ((a + c) * (a + c) - (b + d) * (b + d))
    <3>1. PICK v \in Int, o \in Int : v = a + c /\ o = b + d
      BY SMT
    <3>2. s = v + o /\ u = 1000 * (v - o)
      BY <1>5, <3>1, SMT
    <3>3. s * u = 1000 * (v * v - o * o)
      BY <3>2, SMT
    <3> QED BY <3>1, <3>3
  <2>4. (a + c) * (a + c) = (a - c) * (a - c) + 4 * (a * c)
    BY SMT
  <2>5. (b + d) * (b + d) = (d - b) * (d - b) + 4 * (b * d)
    BY SMT
  <2> QED BY <1>3, <2>1, <2>2, <2>3, <2>4, <2>5, SMT
<1>7. PICK n \in Int, e \in Int, i \in Int : n = s * s /\ e = f1 * r3 - f3 * r1 /\ i = 1000 * u2
  BY SMT
<1>8. p * q - k * m = n * e
  <2>1. p * q = n * (f1 * r3)
    BY <1>4, <1>7, SMT
  <2>2. k * m = n * (f3 * r1)
    BY <1>4, <1>7, SMT
  <2>3. PICK j \in Int, l \in Int : j = f1 * r3 /\ l = f3 * r1
    BY SMT
  <2>4. e = j - l /\ p * q = n * j /\ k * m = n * l
    BY <1>7, <2>1, <2>2, <2>3
  <2>5. n * j - n * l = n * (j - l)
    BY SMT
  <2> QED BY <2>4, <2>5, SMT
<1>9. 1000 * (s * u) = n * i
  BY <1>4, <1>7, SMT
<1>10. n * e = n * i
  BY <1>6, <1>8, <1>9
<1>11. n # 0
  BY <1>0, <1>7, SMT
<1>12. e = i
  BY <1>10, <1>11, SMT
<1> QED BY <1>7, <1>12 DEF GroundUpright

\* What is placed d along the direction << h, k >>, of length m, is d away, and
\* on the side the direction is on.
Reaches(m, h, k, d, a, b) ==
  m > 0 /\ m * m = h * h + k * k /\ m * a = h * d /\ m * b = k * d
AsFar(a, b, d) == a * a + b * b = d * d

LEMMA AlongMeasured ==
  ASSUME NEW m \in Int, NEW h \in Int, NEW k \in Int,
         NEW d \in Int, NEW a \in Int, NEW b \in Int, Reaches(m, h, k, d, a, b)
  PROVE  AsFar(a, b, d)
<1>0. m > 0 /\ m * m = h * h + k * k /\ m * a = h * d /\ m * b = k * d
  BY DEF Reaches
<1>1. PICK n \in Int, e \in Int : n = m * m /\ e = d * d
  BY SMT
<1>2. (m * a) * (m * a) = n * (a * a) /\ (m * b) * (m * b) = n * (b * b)
  BY <1>1, SMT
<1>3. (h * d) * (h * d) = (h * h) * e /\ (k * d) * (k * d) = (k * k) * e
  BY <1>1, SMT
<1>4. PICK i \in Int, j \in Int, o \in Int, u \in Int : i = a * a /\ j = b * b /\ o = h * h /\ u = k * k
  BY SMT
<1>5. n * i = o * e /\ n * j = u * e /\ n = o + u
  BY <1>0, <1>1, <1>2, <1>3, <1>4
<1>6. n * (i + j) = n * e
  <2>1. n * (i + j) = n * i + n * j
    BY SMT
  <2>2. (o + u) * e = o * e + u * e
    BY SMT
  <2> QED BY <1>5, <2>1, <2>2
<1>7. n # 0
  BY <1>0, <1>1, SMT
<1>8. i + j = e
  BY <1>6, <1>7, SMT
<1> QED BY <1>1, <1>4, <1>8 DEF AsFar

LEMMA SideMeasured ==
  ASSUME NEW m \in Int, m > 0, NEW h \in Int, NEW k \in Int,
         NEW d \in Int, d > 0, NEW a \in Int, NEW b \in Int, m * a = h * d, m * b = k * d,
         NEW x \in Int, NEW y \in Int, h * x + k * y >= 0
  PROVE  a * x + b * y >= 0
<1>1. PICK p \in Int, q \in Int : p = a * x + b * y /\ q = h * x + k * y
  BY SMT
<1>2. m * p = d * q
  <2>1. m * p = (m * a) * x + (m * b) * y
    BY <1>1, SMT
  <2>2. d * q = (h * d) * x + (k * d) * y
    BY <1>1, SMT
  <2> QED BY <2>1, <2>2
<1>3. d * q >= 0
  BY <1>1, SMT
<1>4. m * p >= 0
  BY <1>2, <1>3
<1>5. p >= 0
  BY <1>4, SMT
<1> QED BY <1>1, <1>5

\* The snapshot of a valid pose: whole numbers, whose ground projections are
\* related by the height of the head's up.
LEMMA PoseIntegral ==
  ASSUME NEW pose \in ValidPoses
  PROVE  /\ pose.valid
         /\ Integral(pose.position) /\ Integral(pose.forward) /\ Integral(pose.right)
         /\ pose.up[2] \in Int
         /\ pose.forward[1] * pose.right[3] - pose.forward[3] * pose.right[1] = 1000 * pose.up[2]
<1>1. pose \in Poses /\ pose.valid
  BY DEF ValidPoses
<1>2. PICK q \in Orientations, p \in Points, ok \in BOOLEAN : pose = PoseOf(q, p, ok)
  BY <1>1 DEF Poses
<1>3. /\ pose.position = p /\ pose.forward = RotateVec(q, Ahead0)
      /\ pose.right = RotateVec(q, Right0) /\ pose.up = RotateVec(q, Up0)
  BY <1>2 DEF PoseOf
<1>4. Integral(p)
  BY ExactAssumption DEF Integral
<1>5. Integral(q.v) /\ q.w \in Int
  BY HeadsIntegral
<1>6. PICK x \in Int, y \in Int, z \in Int, w \in Int :
        x = q.v[1] /\ y = q.v[2] /\ z = q.v[3] /\ w = q.w
  BY <1>5 DEF Integral
<1>7. Integral(Ahead0)
  BY DEF Integral, Ahead0
<1>8. PICK s \in Int : s = Size(q)
  BY <1>5, <1>7, TurnedIs
<1>9. /\ s = x * x + y * y + z * z + w * w /\ s \in Int
      /\ Turned(q, Ahead0)[1] = (-2000) * (w * y + x * z)
      /\ Turned(q, Ahead0)[3] = (-1000) * (w * w + z * z - x * x - y * y)
      /\ Turned(q, Right0)[1] = 1000 * (w * w + x * x - y * y - z * z)
      /\ Turned(q, Right0)[3] = 2000 * (x * z - w * y)
      /\ Turned(q, Up0)[2] = 1000 * (w * w + y * y - x * x - z * z)
      /\ Integral(Turned(q, Ahead0)) /\ Integral(Turned(q, Right0)) /\ Integral(Turned(q, Up0))
  <2>1. AxesOf(q, x, y, z, w)
    BY <1>5, <1>6, AxesTurned
  <2> QED BY <1>8, <2>1 DEF AxesOf
<1>10. s > 0 /\ \A v \in {Ahead0, Right0, Up0} : Divides(s, Turned(q, v))
  BY <1>8, ExactAssumption
<1>11. \A v \in {Ahead0, Right0, Up0}, i \in 1 .. 3 :
         RotateVec(q, v)[i] \in Int /\ s * RotateVec(q, v)[i] = Turned(q, v)[i]
  <2> TAKE v \in {Ahead0, Right0, Up0}, i \in 1 .. 3
  <2>1. Turned(q, v)[i] \in Int
    BY <1>9 DEF Integral
  <2>2. Turned(q, v)[i] % s = 0
    BY <1>10 DEF Divides
  <2>3. RotateVec(q, v)[i] = Turned(q, v)[i] \div s
    BY <1>8 DEF RotateVec
  <2>4. s \in Nat
    BY <1>9, <1>10
  <2> QED BY <1>10, <2>1, <2>2, <2>3, <2>4, ExactDivision
<1>12. PICK f1 \in Int, f2 \in Int, f3 \in Int, r1 \in Int, r2 \in Int, r3 \in Int, u2 \in Int :
         /\ f1 = pose.forward[1] /\ f2 = pose.forward[2] /\ f3 = pose.forward[3]
         /\ r1 = pose.right[1] /\ r2 = pose.right[2] /\ r3 = pose.right[3] /\ u2 = pose.up[2]
  <2>1. /\ pose.forward[1] \in Int /\ pose.forward[2] \in Int /\ pose.forward[3] \in Int
    BY <1>3, <1>11
  <2>2. /\ pose.right[1] \in Int /\ pose.right[2] \in Int /\ pose.right[3] \in Int
    BY <1>3, <1>11
  <2>3. pose.up[2] \in Int
    BY <1>3, <1>11
  <2> QED BY <2>1, <2>2, <2>3
<1>13. /\ s * f1 = Turned(q, Ahead0)[1] /\ s * f3 = Turned(q, Ahead0)[3]
       /\ s * r1 = Turned(q, Right0)[1] /\ s * r3 = Turned(q, Right0)[3]
       /\ s * u2 = Turned(q, Up0)[2]
  BY <1>3, <1>11, <1>12
<1>14. HeadTurned(x, y, z, w, s, f1, f3, r1, r3, u2)
  BY <1>9, <1>10, <1>13 DEF HeadTurned
<1>15. f1 * r3 - f3 * r1 = 1000 * u2
  <2>1. \* The ground projections of ahead and right turn as the height of up says.
GroundUpright(f1, f3, r1, r3, u2)
    BY <1>14, GroundIdentity
  <2> QED BY <2>1 DEF GroundUpright
<1>16. Integral(pose.forward) /\ Integral(pose.right)
  BY <1>12 DEF Integral
<1> QED BY <1>1, <1>3, <1>4, <1>12, <1>15, <1>16

\* A vector on the ground that was brought to unit length.
LEMMA UnitMeasured ==
  ASSUME NEW v, Integral(v), Measured(v), v[2] = 0
  PROVE  \E m \in Int : /\ m > 0 /\ m * m = v[1] * v[1] + v[3] * v[3]
                        /\ \A i \in 1 .. 3 : Unit(v)[i] \in Int /\ m * Unit(v)[i] = v[i] * 1000
<1>1. PICK m : m = Root(Dot(v, v))
  OBVIOUS
<1>2. m \in Nat \ {0} /\ m * m = Dot(v, v) /\ Divides(m, [i \in 1 .. 3 |-> v[i] * 1000])
  BY <1>1 DEF Measured
<1>3. Unit(v) = [i \in 1 .. 3 |-> (v[i] * 1000) \div m]
  BY <1>1 DEF Unit
<1>4. Dot(v, v) = v[1] * v[1] + v[2] * v[2] + v[3] * v[3]
  BY DEF Dot
<1>5. v[1] \in Int /\ v[2] = 0 /\ v[3] \in Int
  BY DEF Integral
<1>6. m * m = v[1] * v[1] + v[3] * v[3]
  BY <1>2, <1>4, <1>5
<1>7. ASSUME NEW i \in 1 .. 3 PROVE Unit(v)[i] \in Int /\ m * Unit(v)[i] = v[i] * 1000
  <2>1. v[i] \in Int
    BY DEF Integral
  <2>2. PICK x \in Int : x = v[i] * 1000
    BY <2>1
  <2>3. x % m = 0
    BY <1>2, <2>2 DEF Divides
  <2>4. x \div m \in Int /\ m * (x \div m) = x
    BY <1>2, <2>3, ExactDivision
  <2> QED BY <1>3, <2>2, <2>4
<1> QED BY <1>2, <1>6, <1>7

\* The ground basis: h and k are the ground direction its f has the length of
\* a metre of, to the front of the head and at the left of its right.
OnGround(pose, m, h, k, g1, g3) ==
  /\ m > 0 /\ m * m = h * h + k * k
  /\ m * g1 = h * 1000 /\ m * g3 = k * 1000
  /\ h * pose.forward[1] + k * pose.forward[3] >= 0
  /\ pose.up[2] >= 0 => h * pose.right[3] - k * pose.right[1] >= 0
  /\ GroundBasis(pose) = [f |-> << g1, 0, g3 >>, r |-> << - g3, 0, g1 >>]

LEMMA GroundIs ==
  ASSUME NEW pose \in ValidPoses
  PROVE  \E m, h, k, g1, g3 \in Int : OnGround(pose, m, h, k, g1, g3)
<1>1. PICK f1 \in Int, f3 \in Int, r1 \in Int, r3 \in Int, u2 \in Int :
        /\ f1 = pose.forward[1] /\ f3 = pose.forward[3]
        /\ r1 = pose.right[1] /\ r3 = pose.right[3] /\ u2 = pose.up[2]
  <2>1. Integral(pose.forward) /\ Integral(pose.right) /\ pose.up[2] \in Int
    BY PoseIntegral
  <2> QED BY <2>1 DEF Integral
<1>2. f1 * r3 - f3 * r1 = 1000 * u2
  BY <1>1, PoseIntegral
<1>3. PICK f, r : f = Flat(pose.forward) /\ r = Flat(pose.right)
  OBVIOUS
<1>4. /\ f = << f1, 0, f3 >> /\ r = << r1, 0, r3 >>
  BY <1>1, <1>3 DEF Flat
<1>5. Integral(f) /\ Integral(r) /\ f[2] = 0 /\ r[2] = 0
  BY <1>4 DEF Integral
<1>6. Measured(IF Dot(f, f) # 0 THEN f ELSE r)
  BY <1>3, ExactAssumption
<1>7. Dot(f, f) = f1 * f1 + f3 * f3
  <2>1. Dot(f, f) = f1 * f1 + 0 * 0 + f3 * f3
    BY <1>4 DEF Dot
  <2> QED BY <2>1
<1>8. GroundBasis(pose) =
        LET g == IF Dot(f, f) # 0 THEN Unit(f) ELSE << Unit(r)[3], 0, - Unit(r)[1] >>
        IN  [f |-> g, r |-> << - g[3], 0, g[1] >>]
  BY <1>3 DEF GroundBasis
<1>9. CASE Dot(f, f) # 0
  <2>1. PICK m \in Int : /\ m > 0 /\ m * m = f1 * f1 + f3 * f3
                         /\ \A i \in 1 .. 3 : Unit(f)[i] \in Int /\ m * Unit(f)[i] = f[i] * 1000
    BY <1>4, <1>5, <1>6, <1>9, UnitMeasured
  <2>2. PICK g1 \in Int, g2 \in Int, g3 \in Int : g1 = Unit(f)[1] /\ g2 = Unit(f)[2] /\ g3 = Unit(f)[3]
    BY <2>1
  <2>3. m * g1 = f1 * 1000 /\ m * g2 = 0 /\ m * g3 = f3 * 1000
    BY <1>4, <2>1, <2>2
  <2>4. g2 = 0
    BY <2>1, <2>3
  <2>5. Unit(f) = << g1, 0, g3 >>
    <3>1. Unit(f) = << Unit(f)[1], Unit(f)[2], Unit(f)[3] >>
      BY DEF Unit
    <3> QED BY <2>2, <2>4, <3>1
  <2>6. GroundBasis(pose) = [f |-> << g1, 0, g3 >>, r |-> << - g3, 0, g1 >>]
    BY <1>8, <1>9, <2>5
  <2>7. f1 * f1 + f3 * f3 >= 0
    BY SMT
  <2>8. u2 >= 0 => f1 * r3 - f3 * r1 >= 0
    BY <1>2
  <2>9. OnGround(pose, m, f1, f3, g1, g3)
    BY <1>1, <2>1, <2>3, <2>6, <2>7, <2>8 DEF OnGround
  <2> QED BY <2>9
<1>10. CASE Dot(f, f) = 0
  <2>1. PICK m \in Int : /\ m > 0 /\ m * m = r1 * r1 + r3 * r3
                         /\ \A i \in 1 .. 3 : Unit(r)[i] \in Int /\ m * Unit(r)[i] = r[i] * 1000
    BY <1>4, <1>5, <1>6, <1>10, UnitMeasured
  <2>2. PICK g1 \in Int, g3 \in Int, k \in Int : g1 = Unit(r)[3] /\ g3 = - Unit(r)[1] /\ k = - r1
    BY <2>1
  <2>3. m * g1 = r3 * 1000 /\ m * g3 = k * 1000
    <3>1. m * Unit(r)[1] = r1 * 1000 /\ m * Unit(r)[3] = r3 * 1000
      BY <1>4, <2>1
    <3>2. PICK g \in Int : g = Unit(r)[1]
      BY <2>1
    <3>3. m * (- g) = (- r1) * 1000
      BY <3>1, <3>2
    <3> QED BY <2>2, <3>1, <3>2, <3>3
  <2>4. GroundBasis(pose) = [f |-> << g1, 0, g3 >>, r |-> << - g3, 0, g1 >>]
    BY <1>8, <1>10, <2>2
  <2>5. m * m = r3 * r3 + k * k
    BY <2>1, <2>2
  <2>6. f1 = 0 /\ f3 = 0
    <3>1. f1 * f1 >= 0 /\ f3 * f3 >= 0
      BY SMT
    <3>2. f1 * f1 = 0 /\ f3 * f3 = 0
      BY <1>7, <1>10, <3>1
    <3> QED BY <3>2
  <2>7. r3 * f1 + k * f3 >= 0
    BY <2>6
  <2>8. r3 * r3 - k * r1 >= 0
    <3>1. r3 * r3 - k * r1 = r3 * r3 + r1 * r1
      BY <2>2
    <3>2. r3 * r3 >= 0 /\ r1 * r1 >= 0
      BY SMT
    <3> QED BY <3>1, <3>2
  <2>9. OnGround(pose, m, r3, k, g1, g3)
    BY <1>1, <2>1, <2>3, <2>4, <2>5, <2>7, <2>8 DEF OnGround
  <2> QED BY <2>9
<1> QED BY <1>9, <1>10

\* The call, and where its answer leads from the head.
Ask(s, d) == [tool |-> "place_user_relative", direction |-> s, distance |-> d]
Way(pose, s, d) == Minus(Answer(Ask(s, d), pose), pose.position)

LEMMA ThereFrom ==
  ASSUME NEW p, NEW v, \A i \in 1 .. 3 : p[i] \in Int, \A i \in 1 .. 3 : v[i] \in Int
  PROVE  \A i \in 1 .. 3 : Plus(p, v)[i] - p[i] = v[i]
<1> TAKE i \in 1 .. 3
<1>1. PICK m \in Int, n \in Int : m = p[i] /\ n = v[i]
  OBVIOUS
<1>2. Plus(p, v)[i] = p[i] + v[i]
  BY DEF Plus
<1>3. (m + n) - m = n
  OBVIOUS
<1> QED BY <1>1, <1>2, <1>3

\* Where placing around the user leads to from the head.
LEMMA WayIs ==
  ASSUME NEW pose \in ValidPoses, NEW d \in Distances, d > 0, NEW s,
         NEW v, v = AroundUser(GroundBasis(pose))[s],
         \A i \in 1 .. 3 : (v[i] * d) \div 1000 \in Int
  PROVE  Way(pose, s, d) = [i \in 1 .. 3 |-> (v[i] * d) \div 1000]
<1>1. pose.valid /\ Integral(pose.position)
  BY PoseIntegral
<1>2. d \in Int /\ d # Absent
  BY ExactAssumption
<1>3. PICK c : c = Ask(s, d)
  OBVIOUS
<1>4. /\ c.tool = "place_user_relative" /\ c.direction = s /\ c.distance = d
      /\ "origin" \notin DOMAIN c
  BY <1>3 DEF Ask
<1>5. ~ Incomplete(c)
  BY <1>4 DEF Incomplete
<1>6. ~ TooNear(c)
  BY <1>2, <1>4 DEF TooNear
<1>7. Answer(c, pose) = PlaceUserRelative(c, pose)
  BY <1>1, <1>4, <1>5, <1>6 DEF Answer, VecTools
<1>8. Or(c.distance, 1500) = d
  BY <1>2, <1>4 DEF Or
<1>9. Answer(c, pose) = Plus(pose.position, Far(v, d))
  BY <1>4, <1>7, <1>8 DEF PlaceUserRelative
<1>10. PICK far : far = Far(v, d)
  OBVIOUS
<1>11. far = [i \in 1 .. 3 |-> (v[i] * d) \div 1000]
  BY <1>10 DEF Far
<1>12. \A i \in 1 .. 3 : Plus(pose.position, far)[i] - pose.position[i] = far[i]
  <2>1. \A i \in 1 .. 3 : pose.position[i] \in Int
    BY <1>1 DEF Integral
  <2>2. \A i \in 1 .. 3 : far[i] \in Int
    BY <1>11
  <2> QED BY <2>1, <2>2, ThereFrom
<1>13. Way(pose, s, d) = [i \in 1 .. 3 |-> Plus(pose.position, far)[i] - pose.position[i]]
  BY <1>3, <1>9, <1>10 DEF Way, Minus
<1>14. Way(pose, s, d) = [i \in 1 .. 3 |-> far[i]]
  BY <1>12, <1>13
<1>15. far = [i \in 1 .. 3 |-> far[i]]
  BY <1>11
<1> QED BY <1>11, <1>14, <1>15, Zenon

LEMMA LeadsTo ==
  ASSUME NEW pose \in ValidPoses, NEW d \in Distances, d > 0, NEW s,
         NEW v, v = AroundUser(GroundBasis(pose))[s], NEW x \in Int, NEW y \in Int, NEW z \in Int,
         (v[1] * d) \div 1000 = x, (v[2] * d) \div 1000 = y, (v[3] * d) \div 1000 = z
  PROVE  Way(pose, s, d) = << x, y, z >>
<1>1. \A i \in 1 .. 3 : (v[i] * d) \div 1000 = << x, y, z >>[i]
  OBVIOUS
<1>2. \A i \in 1 .. 3 : << x, y, z >>[i] \in Int
  OBVIOUS
<1>3. Way(pose, s, d) = [i \in 1 .. 3 |-> (v[i] * d) \div 1000]
  BY <1>1, <1>2, WayIs
<1> QED BY <1>1, <1>3

\* The four ways, in whole numbers.
LEMMA WaysAre ==
  ASSUME NEW pose \in ValidPoses, NEW d \in Distances, d > 0,
         NEW m \in Int, NEW h \in Int, NEW k \in Int, NEW g1 \in Int, NEW g3 \in Int,
         OnGround(pose, m, h, k, g1, g3)
  PROVE  \E a, b \in Int :
           /\ m * a = h * d /\ m * b = k * d
           /\ Way(pose, "front", d) = << a, 0, b >> /\ Way(pose, "right", d) = << - b, 0, a >>
           /\ Way(pose, "back", d) = << - a, 0, - b >> /\ Way(pose, "left", d) = << b, 0, - a >>
<1>1. /\ m > 0 /\ m * g1 = h * 1000 /\ m * g3 = k * 1000
      /\ GroundBasis(pose) = [f |-> << g1, 0, g3 >>, r |-> << - g3, 0, g1 >>]
  BY DEF OnGround
<1>2. d \in Int
  BY ExactAssumption
<1>3. PICK x \in Int, y \in Int : x = g1 * d /\ y = g3 * d
  BY <1>2
<1>4. x % 1000 = 0 /\ y % 1000 = 0
  <2>1. Divides(1000, [i \in 1 .. 3 |-> GroundBasis(pose).f[i] * d])
    BY ExactAssumption
  <2> QED BY <1>1, <1>3, <2>1 DEF Divides
<1>5. PICK a \in Int, b \in Int : x = 1000 * a /\ y = 1000 * b
  BY <1>4, SMT
<1>6. m * a = h * d /\ m * b = k * d
  <2>1. m * (g1 * d) = (m * g1) * d /\ m * (g3 * d) = (m * g3) * d
    BY <1>2, SMT
  <2>2. m * (1000 * a) = (h * 1000) * d /\ m * (1000 * b) = (k * 1000) * d
    BY <1>1, <1>3, <1>5, <2>1
  <2>3. m * (1000 * a) = 1000 * (m * a) /\ m * (1000 * b) = 1000 * (m * b)
    BY SMT
  <2>4. (h * 1000) * d = 1000 * (h * d) /\ (k * 1000) * d = 1000 * (k * d)
    BY <1>2, SMT
  <2>5. PICK p, q, u, v \in Int : p = m * a /\ q = m * b /\ u = h * d /\ v = k * d
    BY <1>2, SMT
  <2>6. 1000 * p = 1000 * u /\ 1000 * q = 1000 * v
    BY <2>2, <2>3, <2>4, <2>5
  <2> QED BY <2>5, <2>6, SMT
<1>7. /\ x \div 1000 = a /\ y \div 1000 = b
      /\ (- x) \div 1000 = - a /\ (- y) \div 1000 = - b
  BY <1>5, SMT
<1>8. /\ (- g1) * d = - x /\ (- g3) * d = - y /\ 0 * d = 0
  BY <1>2, <1>3, SMT
<1>9. 0 \div 1000 = 0
  OBVIOUS
<1>10. PICK u : u = AroundUser(GroundBasis(pose))
  OBVIOUS
<1>11. /\ u["front"] = << g1, 0, g3 >> /\ u["right"] = << - g3, 0, g1 >>
       /\ u["back"] = Neg(<< g1, 0, g3 >>) /\ u["left"] = Neg(<< - g3, 0, g1 >>)
  BY <1>1, <1>10 DEF AroundUser
<1>12. /\ u["back"] = [i \in 1 .. 3 |-> << - g1, 0, - g3 >>[i]]
       /\ u["left"] = [i \in 1 .. 3 |-> << g3, 0, - g1 >>[i]]
  BY <1>11 DEF Neg
<1>13. /\ Way(pose, "front", d) = << a, 0, b >>
       /\ Way(pose, "right", d) = << - b, 0, a >>
  <2>1. PICK v, w : v = u["front"] /\ w = u["right"]
    OBVIOUS
  <2>2. /\ (v[1] * d) \div 1000 = a /\ (v[2] * d) \div 1000 = 0 /\ (v[3] * d) \div 1000 = b
        /\ (w[1] * d) \div 1000 = - b /\ (w[2] * d) \div 1000 = 0 /\ (w[3] * d) \div 1000 = a
    BY <1>3, <1>7, <1>8, <1>9, <1>11, <2>1
  <2> QED BY <1>10, <2>1, <2>2, LeadsTo
<1>14. /\ Way(pose, "back", d) = << - a, 0, - b >>
       /\ Way(pose, "left", d) = << b, 0, - a >>
  <2>1. PICK v, w : v = u["back"] /\ w = u["left"]
    OBVIOUS
  <2>2. /\ v[1] = - g1 /\ v[2] = 0 /\ v[3] = - g3
        /\ w[1] = g3 /\ w[2] = 0 /\ w[3] = - g1
    BY <1>12, <2>1
  <2>3. /\ (v[1] * d) \div 1000 = - a /\ (v[2] * d) \div 1000 = 0 /\ (v[3] * d) \div 1000 = - b
        /\ (w[1] * d) \div 1000 = b /\ (w[2] * d) \div 1000 = 0 /\ (w[3] * d) \div 1000 = - a
    BY <1>3, <1>7, <1>8, <1>9, <2>2
  <2> QED BY <1>10, <2>1, <2>3, LeadsTo
<1> QED BY <1>6, <1>13, <1>14

\* Placing around the user is true to where the user really faces.
LEMMA FacesUser ==
  ASSUME NEW pose \in ValidPoses
  PROVE  pose \in Facing
<1> DEFINE sides == {"front", "right", "back", "left"}
<1> SUFFICES ASSUME NEW side \in sides, NEW d \in Distances, d > 0
             PROVE  /\ Way(pose, side, d)[2] = 0
                    /\ Dot(Way(pose, side, d), Way(pose, side, d)) = d * d
                    /\ Dot(Way(pose, "front", d), pose.forward) >= 0
                    /\ pose.up[2] >= 0 => Dot(Way(pose, "right", d), pose.right) >= 0
                    /\ Way(pose, "back", d) = Neg(Way(pose, "front", d))
                    /\ Way(pose, "left", d) = Neg(Way(pose, "right", d))
                    /\ Cross(Way(pose, "front", d), Way(pose, "right", d))[2] < 0
  BY DEF Facing, Way, Ask
<1>1. PICK m \in Int, h \in Int, k \in Int, g1 \in Int, g3 \in Int : OnGround(pose, m, h, k, g1, g3)
  BY GroundIs
<1>2. PICK a \in Int, b \in Int :
        /\ m * a = h * d /\ m * b = k * d
        /\ Way(pose, "front", d) = << a, 0, b >> /\ Way(pose, "right", d) = << - b, 0, a >>
        /\ Way(pose, "back", d) = << - a, 0, - b >> /\ Way(pose, "left", d) = << b, 0, - a >>
  BY <1>1, WaysAre
<1>3. d \in Int
  BY ExactAssumption
<1>4. m > 0 /\ m * m = h * h + k * k
  BY <1>1 DEF OnGround
<1>5. a * a + b * b = d * d
  <2>1. PICK n \in Int : n = d
    BY <1>3
  <2>2. Reaches(m, h, k, n, a, b)
    BY <1>2, <1>4, <2>1 DEF Reaches
  <2>3. AsFar(a, b, n)
    BY <2>2, AlongMeasured
  <2> QED BY <2>1, <2>3 DEF AsFar
<1>6. Way(pose, side, d)[2] = 0 /\ Dot(Way(pose, side, d), Way(pose, side, d)) = d * d
  <2>1. PICK x \in Int, y \in Int : /\ Way(pose, side, d) = << x, 0, y >>
                                    /\ x * x + y * y = a * a + b * b
    <3>1. (- a) * (- a) = a * a /\ (- b) * (- b) = b * b
      BY SMT
    <3>2. (- b) * (- b) + a * a = a * a + b * b
      BY <3>1, SMT
    <3>3. b * b + (- a) * (- a) = a * a + b * b
      BY <3>1, SMT
    <3> QED BY <1>2, <3>1, <3>2, <3>3
  <2>2. Dot(<< x, 0, y >>, << x, 0, y >>) = x * x + 0 * 0 + y * y
    BY DEF Dot
  <2> QED BY <1>5, <2>1, <2>2
<1>7. PICK f1 \in Int, f2 \in Int, f3 \in Int, r1 \in Int, r2 \in Int, r3 \in Int :
        /\ f1 = pose.forward[1] /\ f2 = pose.forward[2] /\ f3 = pose.forward[3]
        /\ r1 = pose.right[1] /\ r2 = pose.right[2] /\ r3 = pose.right[3]
  <2>1. Integral(pose.forward) /\ Integral(pose.right)
    BY PoseIntegral
  <2> QED BY <2>1 DEF Integral
<1>8. Dot(Way(pose, "front", d), pose.forward) >= 0
  <2>1. h * f1 + k * f3 >= 0
    BY <1>1, <1>7 DEF OnGround
  <2>2. a * f1 + b * f3 >= 0
    BY <1>2, <1>3, <1>4, <2>1, SideMeasured
  <2>3. Dot(<< a, 0, b >>, pose.forward) = a * f1 + 0 * f2 + b * f3
    BY <1>7 DEF Dot
  <2> QED BY <1>2, <2>2, <2>3
<1>9. ASSUME pose.up[2] >= 0 PROVE Dot(Way(pose, "right", d), pose.right) >= 0
  <2>1. h * r3 - k * r1 >= 0
    BY <1>1, <1>7, <1>9 DEF OnGround
  <2>2. PICK s \in Int : s = - r1
    OBVIOUS
  <2>3. h * r3 + k * s >= 0
    BY <2>1, <2>2, SMT
  <2>4. a * r3 + b * s >= 0
    BY <1>2, <1>3, <1>4, <2>3, SideMeasured
  <2>5. Dot(<< - b, 0, a >>, pose.right) = (- b) * r1 + 0 * r2 + a * r3
    BY <1>7 DEF Dot
  <2>6. (- b) * r1 + 0 * r2 + a * r3 = a * r3 + b * s
    BY <2>2, SMT
  <2> QED BY <1>2, <2>4, <2>5, <2>6
<1>10. /\ Way(pose, "back", d) = Neg(Way(pose, "front", d))
       /\ Way(pose, "left", d) = Neg(Way(pose, "right", d))
  <2>1. Neg(<< a, 0, b >>) = << - a, 0, - b >>
    BY DEF Neg
  <2>2. Neg(<< - b, 0, a >>) = << b, 0, - a >>
    BY DEF Neg
  <2> QED BY <1>2, <2>1, <2>2
<1>11. Cross(Way(pose, "front", d), Way(pose, "right", d))[2] < 0
  <2>1. Cross(<< a, 0, b >>, << - b, 0, a >>)[2] = b * (- b) - a * a
    BY DEF Cross
  <2>2. b * (- b) - a * a = - (a * a + b * b)
    BY SMT
  <2>3. d * d > 0
    BY <1>3, SMT
  <2> QED BY <1>2, <1>3, <1>5, <2>1, <2>2, <2>3
<1> QED BY <1>6, <1>8, <1>9, <1>10, <1>11

\* Placing around the user is true to where the user really faces, whatever
\* the tilt of the head, of every pose an answer was computed from.
THEOREM PlacingIsTrue == SpatialSpec => []AnswersFaceUser
<1>1. ASSUME PoseInv PROVE AnswersFaceUser
  <2>1. ASSUME snapshot.valid PROVE snapshot \in Poses
    BY <1>1, <2>1 DEF PoseInv, NotReady
  <2> QED BY <2>1, FacesUser DEF AnswersFaceUser, ValidPoses
<1> QED BY <1>1, PoseKept, PTL

-----------------------------------------------------------------------------
(* The evaluation harness.                                                 *)

\* The least of some positions.
LEMMA LeastExists ==
  ASSUME NEW S, S \subseteq Nat, S # {}
  PROVE  \E m \in S : \A n \in S : m <= n
<1> DEFINE Less == OpToRel(<, Nat)
<1>1. IsWellFoundedOn(Less, Nat)
  BY NatLessThanWellFounded
<1>2. \A m, n \in Nat : n < m => << n, m >> \in Less
  BY DEF OpToRel
<1> HIDE DEF Less
<1>3. \E m \in S : \A n \in S : ~ (<< n, m >> \in Less)
  BY <1>1, WFMin
<1>4. PICK m \in S : \A n \in S : ~ (<< n, m >> \in Less)
  BY <1>3
<1>5. ASSUME NEW n \in S PROVE m <= n
  <2>1. n \in Nat /\ m \in Nat
    OBVIOUS
  <2>2. ~ (n < m)
    BY <1>2, <1>4, <2>1
  <2> QED BY <2>1, <2>2
<1> QED BY <1>5

\* What the harness knows of the rollout it is running.
RolloutInv ==
  /\ calls \in Seq(ToolCalls) /\ received \in Seq(ToolCalls)
  /\ selected \subseteq 1 .. Len(CaseList)
  /\ phase \in {"audit", "start", "post", "reply", "check", "exited", "crashed"}
  /\ phase \in {"post", "reply", "check"} =>
       /\ case \in 1 .. Len(CaseList)
       /\ built = [history |-> CaseList[case].history, scene |-> CaseList[case].scene]

\* The ids of one kind of primitive are numbered below its counter, which no
\* more than the number of ids given out has advanced.
IdsInv ==
  /\ ids \in Seq({PrimOf(c) : c \in ToolCalls} \X Nat)
  /\ \A p \in DOMAIN counter : counter[p] \in Nat /\ counter[p] <= Len(ids)
  /\ \A i \in 1 .. Len(ids) : ids[i][1] \in DOMAIN counter /\ ids[i][2] < counter[ids[i][1]]
  /\ \A i, j \in 1 .. Len(ids) : ids[i] = ids[j] => i = j

LEMMA EvalStarts == EvalInit => RolloutInv /\ IdsInv
  BY DEF EvalInit, RolloutInv, IdsInv, Nothing

LEMMA StartCaseKeeps ==
  ASSUME RolloutInv, StartCase
  PROVE  RolloutInv' /\ IdsInv'
<1>1. selected \subseteq 1 .. Len(CaseList) /\ Len(CaseList) \in Nat
  BY EvalAssumption DEF RolloutInv
<1>2. \E c \in selected : \A d \in selected : c <= d
  <2>1. selected \subseteq Nat /\ selected # {}
    BY <1>1 DEF StartCase
  <2> QED BY <2>1, LeastExists
<1> DEFINE c == CHOOSE c \in selected : \A d \in selected : c <= d
<1>3. c \in selected
  BY <1>2
<1>4. /\ case' = c /\ selected' = selected \ {c} /\ chat' = CaseList[c].history
      /\ fixture' = CaseList[c].scene /\ built' = [history |-> chat', scene |-> fixture']
      /\ counter' = << >> /\ ids' = << >> /\ phase' = "post" /\ calls' = << >>
      /\ received' = received
  BY DEF StartCase, SetHistory, Nothing
<1> HIDE DEF c
<1>5. RolloutInv'
  BY <1>1, <1>3, <1>4 DEF RolloutInv
<1>6. IdsInv'
  BY <1>4 DEF IdsInv
<1> QED BY <1>5, <1>6

LEMMA ExecKeepsIds ==
  ASSUME RolloutInv, IdsInv, Exec
  PROVE  IdsInv'
<1> DEFINE call == Head(received)
           p    == PrimOf(call)
<1>1. CASE UNCHANGED << counter, ids >>
  BY <1>1 DEF IdsInv
<1>2. CASE ids' = Append(ids, << p, Count(p) >>) /\ counter' = AddCount(p)
  <2>1. call \in ToolCalls
    BY DEF RolloutInv, Exec
  <2>2. Count(p) \in Nat /\ Count(p) <= Len(ids) /\ Len(ids) \in Nat
    BY DEF IdsInv, Count
  <2>3. /\ DOMAIN counter' = DOMAIN counter \cup {p}
        /\ counter'[p] = Count(p) + 1
        /\ \A q \in DOMAIN counter : q # p => counter'[q] = counter[q]
        /\ p \in DOMAIN counter => counter[p] = Count(p)
    BY <1>2 DEF AddCount, Count
  <2>4. p \in {PrimOf(c) : c \in ToolCalls}
    BY <2>1
  <2> DEFINE id == << p, Count(p) >>
  <2>5. id \in {PrimOf(c) : c \in ToolCalls} \X Nat /\ id[1] = p /\ id[2] = Count(p)
    BY <2>2, <2>4
  <2>6. ids' = Append(ids, id)
    BY <1>2
  <2> HIDE DEF id, p, call
  <2>7. /\ ids' \in Seq({PrimOf(c) : c \in ToolCalls} \X Nat)
        /\ Len(ids') = Len(ids) + 1
        /\ ids'[Len(ids) + 1] = id
        /\ \A i \in 1 .. Len(ids) : ids'[i] = ids[i]
    BY <2>5, <2>6 DEF IdsInv
  <2>8. \A q \in DOMAIN counter' : counter'[q] \in Nat /\ counter'[q] <= Len(ids')
    BY <2>2, <2>3, <2>7 DEF IdsInv
  <2>9. ASSUME NEW i \in 1 .. Len(ids')
        PROVE  ids'[i][1] \in DOMAIN counter' /\ ids'[i][2] < counter'[ids'[i][1]]
    <3>1. CASE i = Len(ids) + 1
      BY <2>2, <2>3, <2>5, <2>7, <3>1
    <3>2. CASE i \in 1 .. Len(ids)
      <4>1. ids[i][1] \in DOMAIN counter /\ ids[i][2] < counter[ids[i][1]] /\ ids'[i] = ids[i]
        BY <2>7, <3>2 DEF IdsInv
      <4>2. ids[i][2] \in Nat
        BY <3>2 DEF IdsInv
      <4>3. CASE ids[i][1] = p
        BY <2>2, <2>3, <4>1, <4>2, <4>3
      <4>4. CASE ids[i][1] # p
        BY <2>3, <4>1, <4>4
      <4> QED BY <4>3, <4>4
    <3> QED BY <2>2, <2>7, <3>1, <3>2
  <2>10. ASSUME NEW i \in 1 .. Len(ids) PROVE ids[i] # id
    <3>1. ids[i][1] \in DOMAIN counter /\ ids[i][2] < counter[ids[i][1]] /\ ids[i][2] \in Nat
      BY DEF IdsInv
    <3> QED BY <2>2, <2>3, <2>5, <3>1
  <2>11. ASSUME NEW i \in 1 .. Len(ids'), NEW j \in 1 .. Len(ids'), ids'[i] = ids'[j]
         PROVE  i = j
    <3>1. i \in 1 .. Len(ids) \/ i = Len(ids) + 1
      BY <2>2, <2>7
    <3>2. j \in 1 .. Len(ids) \/ j = Len(ids) + 1
      BY <2>2, <2>7
    <3>3. CASE i \in 1 .. Len(ids) /\ j \in 1 .. Len(ids)
      BY <2>7, <2>11, <3>3 DEF IdsInv
    <3> QED BY <2>7, <2>10, <2>11, <3>1, <3>2, <3>3
  <2> QED BY <2>7, <2>8, <2>9, <2>11 DEF IdsInv
<1> QED BY <1>1, <1>2 DEF Exec

LEMMA EvalSteps ==
  ASSUME RolloutInv, IdsInv, [EvalNext]_evalVars
  PROVE  RolloutInv' /\ IdsInv'
<1>1. CASE StartCase
  BY <1>1, StartCaseKeeps
<1>2. CASE Exec
  <2>1. received # << >> /\ received \in Seq(ToolCalls)
    BY <1>2 DEF Exec, RolloutInv
  <2>2. Tail(received) \in Seq(ToolCalls)
    BY <2>1
  <2>3. calls' \in Seq(ToolCalls) /\ received' \in Seq(ToolCalls)
    <3>1. calls' \in {calls, << >>} /\ received' \in {Tail(received), << >>}
      BY <1>2 DEF Exec
    <3>2. << >> \in Seq(ToolCalls)
      OBVIOUS
    <3>3. calls \in Seq(ToolCalls)
      BY DEF RolloutInv
    <3> QED BY <2>2, <3>1, <3>2, <3>3
  <2>4. phase' \in {phase, "start"} /\ UNCHANGED << selected, case, built >>
    BY <1>2 DEF Exec, Score
  <2>5. RolloutInv'
    BY <2>3, <2>4 DEF RolloutInv
  <2> QED BY <1>2, <2>5, ExecKeepsIds
<1>3. ASSUME NEW tcs \in ModelReplies, PostAnswers(tcs) PROVE RolloutInv' /\ IdsInv'
  <2>1. tcs \in Seq(ToolCalls)
    BY EvalAssumption
  <2>2. calls \o tcs \in Seq(ToolCalls)
    BY <2>1 DEF RolloutInv
  <2>3. RolloutInv'
    BY <1>3, <2>1, <2>2 DEF PostAnswers, RolloutInv
  <2>4. IdsInv'
    BY <1>3 DEF PostAnswers, IdsInv
  <2> QED BY <2>3, <2>4
<1> DEFINE Silent == /\ UNCHANGED << counter, ids, selected, case, built >>
                     /\ received' = received /\ calls' \in {calls, << >>}
                     /\ \/ phase' \in {phase, "start", "exited", "crashed"}
                        \/ phase = "reply" /\ phase' = "post"
<1>4. CASE Silent
  <2>1. RolloutInv'
    <3>1. << >> \in Seq(ToolCalls) /\ calls \in Seq(ToolCalls)
      BY DEF RolloutInv
    <3>2. calls' \in Seq(ToolCalls)
      BY <1>4, <3>1
    <3> QED BY <1>4, <3>2 DEF RolloutInv
  <2>2. IdsInv'
    BY <1>4 DEF IdsInv
  <2> QED BY <2>1, <2>2
<1>5. CASE Audit
  BY <1>4, <1>5 DEF Audit, RolloutInv
<1>6. CASE PostFails
  BY <1>4, <1>6 DEF PostFails, Score
<1>7. CASE PostRefused
  BY <1>4, <1>7 DEF PostRefused, Score
<1>8. CASE NextStep
  BY <1>4, <1>8 DEF NextStep
<1>9. CASE MatchNext
  BY <1>4, <1>9 DEF MatchNext
<1>10. CASE Check
  BY <1>4, <1>10 DEF Check, Score
<1>11. CASE ExitRun
  BY <1>4, <1>11 DEF ExitRun
<1>12. CASE UNCHANGED evalVars
  BY <1>4, <1>12 DEF evalVars
<1> QED BY <1>1, <1>2, <1>3, <1>5, <1>6, <1>7, <1>8, <1>9, <1>10, <1>11, <1>12 DEF EvalNext

THEOREM RolloutsKept == EvalSpec => [](RolloutInv /\ IdsInv)
<1>1. EvalInit => RolloutInv /\ IdsInv
  BY EvalStarts
<1>2. RolloutInv /\ IdsInv /\ [EvalNext]_evalVars => (RolloutInv /\ IdsInv)'
  BY EvalSteps
<1> QED BY <1>1, <1>2, PTL DEF EvalSpec

\* Nothing of one case is seen by the next, and no two fake adds share an id.
THEOREM RolloutsApart == EvalSpec => []RolloutsIsolated
<1>1. ASSUME RolloutInv, IdsInv PROVE RolloutsIsolated
  <2>1. ASSUME NEW i \in 1 .. Len(ids) PROVE ids[i][2] < Len(ids)
    <3>1. ids[i][1] \in DOMAIN counter /\ ids[i][2] < counter[ids[i][1]] /\ ids[i][2] \in Nat
      BY <1>1 DEF IdsInv
    <3>2. counter[ids[i][1]] \in Nat /\ counter[ids[i][1]] <= Len(ids) /\ Len(ids) \in Nat
      BY <1>1, <3>1 DEF IdsInv
    <3> QED BY <3>1, <3>2
  <2> QED BY <1>1, <2>1 DEF RolloutInv, IdsInv, RolloutsIsolated
<1> QED BY <1>1, RolloutsKept, PTL

\* The expectations looked at so far, as long as none was unmet, have calls of
\* their own, and what is left to match are the other mutating calls.
Pairing(f) ==
  /\ f \in [1 .. met -> Muts(calls)]
  /\ \A i, j \in 1 .. met : f[i] = f[j] => i = j
  /\ \A i \in 1 .. met : Matches(calls[f[i]], CaseList[case].result[i], CaseList[case].scene)
  /\ left = Muts(calls) \ {f[i] : i \in 1 .. met}

MatchInv ==
  phase = "check" =>
    /\ met \in 0 .. Len(CaseList[case].result)
    /\ left \subseteq Muts(calls)
    /\ unmet \in BOOLEAN
    /\ ~ unmet => \E f : Pairing(f)

LEMMA MatchOne ==
  ASSUME RolloutInv, MatchInv, MatchNext, phase' = "check"
  PROVE  MatchInv'
<1> DEFINE exp   == CaseList[case].result[met + 1]
           hit   == {i \in left : Matches(calls[i], exp, CaseList[case].scene)}
           first == CHOOSE i \in hit : \A j \in hit : i <= j
<1>1. phase = "check" /\ met < Len(CaseList[case].result)
  BY DEF MatchNext
<1>2. /\ met \in 0 .. Len(CaseList[case].result) /\ left \subseteq Muts(calls)
      /\ unmet \in BOOLEAN
      /\ ~ unmet => \E f : Pairing(f)
  BY <1>1 DEF MatchInv
<1>3. Len(CaseList[case].result) \in Nat
  BY <1>1, EvalAssumption DEF RolloutInv
<1>4. /\ met' = met + 1 /\ unmet' = (unmet \/ hit = {})
      /\ left' = IF hit = {} THEN left ELSE left \ {first}
      /\ calls' = calls /\ case' = case
  BY <1>1 DEF MatchNext, Popped
<1>5. hit # {} => first \in hit
  <2>1. Len(calls) \in Nat
    BY DEF RolloutInv
  <2>2. Muts(calls) \subseteq Nat
    BY <2>1 DEF Muts
  <2>3. hit \subseteq Nat
    BY <1>2, <2>2
  <2> HIDE DEF hit
  <2>4. hit # {} => \E i \in hit : \A j \in hit : i <= j
    BY <2>3, LeastExists
  <2> QED BY <2>4
<1>6. hit \subseteq left /\ \A i \in hit : Matches(calls[i], exp, CaseList[case].scene)
  OBVIOUS
<1> HIDE DEF first, hit
<1>7. met' \in 0 .. Len(CaseList[case'].result) /\ left' \subseteq Muts(calls') /\ unmet' \in BOOLEAN
  BY <1>1, <1>2, <1>3, <1>4
<1>8. ASSUME ~ unmet' PROVE \E f : Pairing(f)'
  <2>1. ~ unmet /\ hit # {}
    BY <1>2, <1>4, <1>8
  <2>2. PICK f : Pairing(f)
    BY <1>2, <2>1
  <2>3. first \in left /\ Matches(calls[first], exp, CaseList[case].scene)
    BY <1>5, <1>6, <2>1
  <2>4. met' \in Nat /\ met \in Nat /\ 1 .. met' = (1 .. met) \cup {met'}
    BY <1>2, <1>3, <1>4
  <2>g. PICK g : g = [i \in 1 .. met' |-> IF i = met' THEN first ELSE f[i]]
    OBVIOUS
  <2>5. g[met'] = first /\ \A i \in 1 .. met : g[i] = f[i] /\ i # met'
    BY <1>4, <2>4, <2>g
  <2>6. first \in Muts(calls) /\ \A i \in 1 .. met : f[i] \in Muts(calls) /\ f[i] # first
    BY <1>2, <2>2, <2>3 DEF Pairing
  <2>7. g \in [1 .. met' -> Muts(calls')]
    BY <1>4, <2>4, <2>6, <2>g
  <2>8. \A i, j \in 1 .. met' : g[i] = g[j] => i = j
    BY <2>2, <2>4, <2>5, <2>6 DEF Pairing
  <2>9. \A i \in 1 .. met' : Matches(calls'[g[i]], CaseList[case'].result[i], CaseList[case'].scene)
    BY <1>4, <2>2, <2>3, <2>4, <2>5 DEF Pairing
  <2>10. {g[i] : i \in 1 .. met'} = {f[i] : i \in 1 .. met} \cup {first}
    BY <2>4, <2>5
  <2>11. left' = Muts(calls') \ {g[i] : i \in 1 .. met'}
    BY <1>4, <2>1, <2>2, <2>10 DEF Pairing
  <2>12. Pairing(g)'
    BY <2>7, <2>8, <2>9, <2>11 DEF Pairing
  <2> QED BY <2>12
<1> QED BY <1>7, <1>8 DEF MatchInv

LEMMA MatchSteps ==
  ASSUME RolloutInv, RolloutInv', MatchInv, [EvalNext]_evalVars
  PROVE  MatchInv'
<1>1. CASE MatchNext
  BY <1>1, MatchOne DEF MatchInv
<1>2. ASSUME NEW tcs \in ModelReplies, PostAnswers(tcs), phase' = "check" PROVE MatchInv'
  <2>1. /\ left' = Muts(calls') /\ unmet' = FALSE /\ met' = 0
        /\ case' = case /\ case \in 1 .. Len(CaseList)
    BY <1>2 DEF PostAnswers, RolloutInv
  <2>2. Len(CaseList[case].result) \in Nat
    BY <2>1, EvalAssumption
  <2>3. PICK none : none = [i \in 1 .. 0 |-> i]
    OBVIOUS
  <2>4. \A i \in 1 .. 0 : FALSE
    OBVIOUS
  <2>5. none \in [1 .. 0 -> Muts(calls')] /\ {none[i] : i \in 1 .. 0} = {}
    BY <2>3, <2>4
  <2>6. Pairing(none)'
    BY <2>1, <2>4, <2>5 DEF Pairing
  <2>7. met' \in 0 .. Len(CaseList[case'].result)
    <3>1. \A n \in Nat : 0 \in 0 .. n
      OBVIOUS
    <3> QED BY <2>1, <2>2, <3>1
  <2>8. left' \subseteq Muts(calls') /\ unmet' \in BOOLEAN
    BY <2>1
  <2> QED BY <2>6, <2>7, <2>8 DEF MatchInv
<1> DEFINE Away == phase' # "check"
<1>3. CASE Away
  BY <1>3 DEF MatchInv
<1>4. CASE Audit \/ StartCase \/ PostFails \/ PostRefused \/ Exec \/ NextStep \/ ExitRun
  BY <1>3, <1>4 DEF Audit, StartCase, PostFails, PostRefused, Exec, NextStep, ExitRun, Score
<1>5. CASE Check
  BY <1>3, <1>5 DEF Check, Score
<1>6. CASE UNCHANGED evalVars
  <2>1. UNCHANGED << phase, met, left, calls, unmet, case >>
    BY <1>6 DEF evalVars, scoring
  <2>2. \A f : Pairing(f)' <=> Pairing(f)
    BY <2>1 DEF Pairing
  <2> QED BY <2>1, <2>2 DEF MatchInv
<1> QED BY <1>1, <1>2, <1>3, <1>4, <1>5, <1>6 DEF EvalNext

THEOREM MatchesKept == EvalSpec => []MatchInv
<1>1. EvalInit => MatchInv
  BY DEF EvalInit, MatchInv
<1>2. RolloutInv /\ RolloutInv' /\ MatchInv /\ [EvalNext]_evalVars => MatchInv'
  BY MatchSteps
<1> QED BY <1>1, <1>2, RolloutsKept, PTL DEF EvalSpec

\* A case that passes was met: what the harness gives a model full marks for is a
\* matching of its expectations with calls of the model, one to one.
LEMMA PassIsMet ==
  ASSUME RolloutInv, MatchInv, Check,
         NEW c \in DOMAIN results' \ DOMAIN results, results'[c]
  PROVE  /\ Muts(calls) # {}
         /\ \E f \in Meetings(calls, CaseList[c]) : CaseList[c].extra \/ Range(f) = Muts(calls)
<1> DEFINE n == Len(CaseList[case].result)
<1>1. phase = "check" /\ met = n
  BY DEF Check
<1>2. case \in 1 .. Len(CaseList) /\ CaseList[case].result \in Seq(Range(CaseList[case].result)) /\ n \in Nat
  BY <1>1, EvalAssumption DEF RolloutInv
<1>3. results' # results
  OBVIOUS
<1>4. Score(Grade(CaseList[case]) = "passed")
  BY <1>3 DEF Check
<1>5. c = case /\ Grade(CaseList[case]) = "passed"
  BY <1>4 DEF Score
<1>6. /\ ~ (CaseList[case].result = << >> /\ Muts(calls) = {})
      /\ ~ unmet
      /\ CaseList[case].extra \/ left = {}
  BY <1>5 DEF Grade
<1>7. PICK f : Pairing(f)
  BY <1>1, <1>6 DEF MatchInv
<1>8. Range(f) = {f[i] : i \in 1 .. met} /\ DOMAIN f = 1 .. met
  BY <1>7 DEF Pairing, Range
<1>9. f \in Meetings(calls, CaseList[c])
  BY <1>1, <1>5, <1>7 DEF Pairing, Meetings
<1>10. CaseList[c].extra \/ Range(f) = Muts(calls)
  BY <1>5, <1>6, <1>7, <1>8 DEF Pairing
<1>11. Muts(calls) # {}
  <2>1. CASE CaseList[case].result = << >>
    BY <1>6, <2>1
  <2>2. CASE CaseList[case].result # << >>
    <3>1. 1 \in 1 .. met
      BY <1>1, <1>2, <2>2
    <3> QED BY <1>7, <3>1 DEF Pairing
  <2> QED BY <2>1, <2>2
<1> QED BY <1>9, <1>10, <1>11

THEOREM PassesAreMet == EvalSpec => PassedMeansMet
<1> DEFINE Act == \A c \in DOMAIN results' \ DOMAIN results :
              results'[c] => /\ Muts(calls) # {}
                             /\ \E f \in Meetings(calls, CaseList[c]) :
                                  CaseList[c].extra \/ Range(f) = Muts(calls)
<1>1. ASSUME RolloutInv, MatchInv, [EvalNext]_evalVars PROVE Act
  <2>1. CASE Check
    BY <1>1, <2>1, PassIsMet
  <2>2. CASE results' = results
    BY <2>2
  <2>3. CASE Score(FALSE)
    BY <2>3 DEF Score
  <2>4. CASE PostFails \/ PostRefused \/ Exec
    BY <2>2, <2>3, <2>4 DEF PostFails, PostRefused, Exec
  <2>5. CASE Audit \/ StartCase \/ NextStep \/ MatchNext \/ ExitRun
    BY <2>2, <2>5 DEF Audit, StartCase, NextStep, MatchNext, ExitRun
  <2>6. CASE \E tcs \in ModelReplies : PostAnswers(tcs)
    BY <2>2, <2>6 DEF PostAnswers
  <2>7. CASE UNCHANGED evalVars
    BY <2>2, <2>7 DEF evalVars
  <2> QED BY <1>1, <2>1, <2>4, <2>5, <2>6, <2>7 DEF EvalNext
<1> QED BY <1>1, RolloutsKept, MatchesKept, PTL DEF EvalSpec, PassedMeansMet

-----------------------------------------------------------------------------
(* The audit of the prompt.                                                *)

\* s is what the scan keeps before each of the first m lines and after the last.
IsScan(s, lines, m) ==
  s = [n \in 0 .. m |-> IF n = 0 THEN ScanStart ELSE ScanLine(s[n - 1], lines[n], n)]

\* Every prompt is scanned to its end.
LEMMA ScanExists ==
  ASSUME NEW lines, NEW len \in Nat
  PROVE  \E s : IsScan(s, lines, len)
<1> DEFINE S == {m \in Nat : m <= len /\ ~ \E s : IsScan(s, lines, m)}
<1>1. ASSUME S # {} PROVE FALSE
  <2>1. PICK m \in S : \A n \in S : m <= n
    BY <1>1, LeastExists
  <2>2. m \in Nat /\ m <= len
    OBVIOUS
  <2>3. CASE m = 0
    <3> DEFINE s == [n \in 0 .. 0 |-> ScanStart]
    <3>1. IsScan(s, lines, 0)
      BY DEF IsScan
    <3> QED BY <2>1, <2>3, <3>1
  <2>4. CASE m > 0
    <3>1. m - 1 \in Nat /\ m - 1 \notin S /\ m - 1 <= len
      BY <2>1, <2>2, <2>4
    <3>2. PICK s : IsScan(s, lines, m - 1)
      BY <3>1
    <3> DEFINE t == [n \in 0 .. m |-> IF n = m THEN ScanLine(s[m - 1], lines[m], m) ELSE s[n]]
    <3>3. \A n \in 0 .. m - 1 : t[n] = s[n] /\ s[n] = IF n = 0 THEN ScanStart ELSE ScanLine(s[n - 1], lines[n], n)
      BY <2>2, <3>2 DEF IsScan
    <3>4. ASSUME NEW n \in 0 .. m PROVE t[n] = IF n = 0 THEN ScanStart ELSE ScanLine(t[n - 1], lines[n], n)
      <4>1. CASE n = m
        <5>1. t[n] = ScanLine(s[m - 1], lines[m], m) /\ t[m - 1] = s[m - 1]
          BY <2>2, <2>4, <3>3, <4>1
        <5>2. n # 0 /\ n - 1 = m - 1
          BY <2>4, <4>1
        <5>3. t[n] = ScanLine(t[n - 1], lines[n], n)
          BY <4>1, <5>1, <5>2
        <5> HIDE DEF t
        <5> QED BY <5>2, <5>3
      <4>2. CASE n # m /\ n = 0
        <5>1. n \in 0 .. m - 1
          BY <2>2, <2>4, <4>2
        <5> HIDE DEF t
        <5> QED BY <3>3, <4>2, <5>1
      <4>3. CASE n # m /\ n # 0
        <5>1. n \in 0 .. m - 1 /\ n - 1 \in 0 .. m - 1
          BY <2>2, <4>3
        <5> HIDE DEF t
        <5> QED BY <3>3, <4>3, <5>1
      <4> QED BY <4>1, <4>2, <4>3
    <3>5. t = [n \in 0 .. m |-> t[n]]
      OBVIOUS
    <3>6. IsScan(t, lines, m)
      <4> HIDE DEF t
      <4> QED BY <3>4, <3>5 DEF IsScan
    <3> QED BY <2>1, <3>6
  <2> QED BY <2>2, <2>3, <2>4
<1> QED BY <1>1

\* _extract_example_blocks finds what the scan has collected behind the last line.
LEMMA BlocksScanned ==
  ASSUME NEW lines \in Seq(LineKinds)
  PROVE  \E s : IsScan(s, lines, Len(lines)) /\ Blocks(lines) = s[Len(lines)].in
<1> DEFINE scan == CHOOSE f : f = [n \in 0 .. Len(lines) |-> IF n = 0 THEN ScanStart ELSE ScanLine(f[n - 1], lines[n], n)]
<1>1. Blocks(lines) = scan[Len(lines)].in
  BY DEF Blocks
<1>2. Len(lines) \in Nat
  OBVIOUS
<1>3. PICK g : IsScan(g, lines, Len(lines))
  BY <1>2, ScanExists
<1>4. scan = [n \in 0 .. Len(lines) |-> IF n = 0 THEN ScanStart ELSE ScanLine(scan[n - 1], lines[n], n)]
  BY <1>3 DEF IsScan
<1> HIDE DEF scan
<1>5. IsScan(scan, lines, Len(lines))
  BY <1>4 DEF IsScan
<1> QED BY <1>1, <1>5

LEMMA FencesCounted ==
  ASSUME NEW lines, NEW n \in Nat \ {0}
  PROVE  /\ FencesBefore(lines, n) \in Nat
         /\ FencesBefore(lines, n + 1) = FencesBefore(lines, n) + (IF lines[n] = "fence" THEN 1 ELSE 0)
<1> DEFINE F(m) == {i \in 1 .. m - 1 : lines[i] = "fence"}
<1>1. IsFiniteSet(F(n))
  <2>1. IsFiniteSet(1 .. n - 1) /\ F(n) \subseteq 1 .. n - 1
    BY FS_Interval
  <2> QED BY <2>1, FS_Subset
<1>2. F(n + 1) = IF lines[n] = "fence" THEN F(n) \union {n} ELSE F(n)
  OBVIOUS
<1>3. n \notin F(n)
  OBVIOUS
<1>4. FencesBefore(lines, n) = Cardinality(F(n)) /\ FencesBefore(lines, n + 1) = Cardinality(F(n + 1))
  BY DEF FencesBefore
<1> HIDE DEF F
<1>5. Cardinality(F(n)) \in Nat /\ Cardinality(F(n) \union {n}) = Cardinality(F(n)) + 1
  BY <1>1, <1>3, FS_CardinalityType, FS_AddElement
<1> QED BY <1>2, <1>4, <1>5

Odd(k) == k % 2 = 1

\* A marked section is open behind line n.
Section(lines, n) ==
  \E i \in 1 .. n : /\ lines[i] = "marker" /\ ~ Odd(FencesBefore(lines, i))
                    /\ \A j \in i .. n : lines[j] # "blank"

\* What the scan has behind line n is what the docstring says.
Scanned(r, lines, n) ==
  /\ r \in [fence : BOOLEAN, section : BOOLEAN, in : SUBSET (1 .. n)]
  /\ r.fence <=> Odd(FencesBefore(lines, n + 1))
  /\ r.section <=> Section(lines, n)
  /\ ~ (r.section /\ r.fence)
  /\ \A m \in 1 .. n : InExample(lines, m) => m \in r.in

LEMMA Parity == \A k \in Nat : k % 2 \in {0, 1} /\ (Odd(k + 1) <=> ~ Odd(k)) /\ (k % 2 = 0 <=> ~ Odd(k))
  BY DEF Odd

LEMMA ScanStarts == ASSUME NEW lines PROVE Scanned(ScanStart, lines, 0)
<1>1. FencesBefore(lines, 1) = 0
  <2>1. {i \in 1 .. 1 - 1 : lines[i] = "fence"} = {}
    OBVIOUS
  <2> QED BY <2>1, FS_EmptySet DEF FencesBefore
<1>2. ~ Odd(FencesBefore(lines, 0 + 1))
  BY <1>1 DEF Odd
<1> QED BY <1>2 DEF Scanned, ScanStart, Section

\* What a worked example is, in terms of the section open behind the line before it.
LEMMA ExampleIs ==
  ASSUME NEW lines \in Seq(LineKinds), NEW n \in 1 .. Len(lines), InExample(lines, n),
         ~ Odd(FencesBefore(lines, n))
  PROVE  lines[n] # "blank" /\ (Section(lines, n - 1) \/ lines[n] = "marker")
<1>1. n \in Nat /\ n > 0 /\ FencesBefore(lines, n) \in Nat
  BY FencesCounted
<1>2. PICK i \in 1 .. n : /\ lines[i] = "marker" /\ FencesBefore(lines, i) % 2 = 0
                          /\ \A j \in i .. n : lines[j] \notin {"blank", "fence"}
  BY <1>1 DEF InExample, Odd
<1>3. n \in i .. n /\ \A j \in i .. n - 1 : j \in i .. n
  BY <1>1
<1>4. lines[n] # "blank"
  BY <1>2, <1>3
<1>5. CASE i = n
  BY <1>2, <1>4, <1>5
<1>6. CASE i # n
  <2>1. i \in 1 .. n - 1
    BY <1>1, <1>6
  <2>2. ~ Odd(FencesBefore(lines, i))
    BY <1>2 DEF Odd
  <2> QED BY <1>2, <1>3, <1>4, <2>1, <2>2 DEF Section
<1> QED BY <1>5, <1>6

LEMMA SectionIs ==
  ASSUME NEW lines \in Seq(LineKinds), NEW n \in 1 .. Len(lines)
  PROVE  Section(lines, n) <=> /\ lines[n] # "blank"
                               /\ \/ Section(lines, n - 1)
                                  \/ lines[n] = "marker" /\ ~ Odd(FencesBefore(lines, n))
<1>1. n \in Nat /\ n > 0
  OBVIOUS
<1>2. ASSUME Section(lines, n)
      PROVE  /\ lines[n] # "blank"
             /\ Section(lines, n - 1) \/ (lines[n] = "marker" /\ ~ Odd(FencesBefore(lines, n)))
  <2>1. PICK i \in 1 .. n : /\ lines[i] = "marker" /\ ~ Odd(FencesBefore(lines, i))
                            /\ \A j \in i .. n : lines[j] # "blank"
    BY <1>2 DEF Section
  <2>2. n \in i .. n /\ \A j \in i .. n - 1 : j \in i .. n
    BY <1>1
  <2>3. CASE i = n
    BY <2>1, <2>2, <2>3
  <2>4. CASE i # n
    <3>1. i \in 1 .. n - 1
      BY <1>1, <2>4
    <3> QED BY <2>1, <2>2, <3>1 DEF Section
  <2> QED BY <2>3, <2>4
<1>3. ASSUME lines[n] # "blank", Section(lines, n - 1) PROVE Section(lines, n)
  <2>1. PICK i \in 1 .. n - 1 : /\ lines[i] = "marker" /\ ~ Odd(FencesBefore(lines, i))
                                /\ \A j \in i .. n - 1 : lines[j] # "blank"
    BY <1>3 DEF Section
  <2>2. i \in 1 .. n /\ \A j \in i .. n : j \in i .. n - 1 \/ j = n
    BY <1>1
  <2> QED BY <1>3, <2>1, <2>2 DEF Section
<1>4. ASSUME lines[n] = "marker", ~ Odd(FencesBefore(lines, n)) PROVE Section(lines, n)
  <2>1. n \in 1 .. n /\ \A j \in n .. n : j = n
    BY <1>1
  <2> QED BY <1>4, <2>1 DEF Section
<1> QED BY <1>2, <1>3, <1>4

\* Nothing that is nested opens a fence in a section.
LEMMA NoFenceInside ==
  ASSUME NEW lines \in Seq(LineKinds), NestsNoFence(lines), NEW n \in 1 .. Len(lines),
         Section(lines, n - 1)
  PROVE  lines[n] # "fence"
<1> SUFFICES ASSUME lines[n] = "fence" PROVE FALSE
  OBVIOUS
<1>1. PICK i \in 1 .. n - 1 : /\ lines[i] = "marker" /\ ~ Odd(FencesBefore(lines, i))
                              /\ \A j \in i .. n - 1 : lines[j] # "blank"
  BY DEF Section
<1>2. i \in 1 .. Len(lines) /\ i < n /\ i \in Nat \ {0}
  OBVIOUS
<1>3. FencesBefore(lines, i) % 2 = 0
  BY <1>1, <1>2, FencesCounted, Parity
<1>4. PICK k \in i .. n : lines[k] = "blank"
  BY <1>1, <1>2, <1>3 DEF NestsNoFence
<1>5. k \in i .. n - 1 \/ k = n
  BY <1>2
<1> QED BY <1>1, <1>4, <1>5

\* One line further the scan is still right.
LEMMA LineScanned ==
  ASSUME NEW lines \in Seq(LineKinds), NestsNoFence(lines), NEW n \in 1 .. Len(lines), NEW r,
         Scanned(r, lines, n - 1)
  PROVE  Scanned(ScanLine(r, lines[n], n), lines, n)
<1> DEFINE k == lines[n]
           t == ScanLine(r, k, n)
           before == Odd(FencesBefore(lines, n))
<1>1. n \in Nat \ {0} /\ n - 1 + 1 = n /\ k \in LineKinds /\ \A m \in 1 .. n : m \in 1 .. n - 1 \/ m = n
  OBVIOUS
<1>2. r = [fence |-> r.fence, section |-> r.section, in |-> r.in] /\ r.fence \in BOOLEAN /\ r.section \in BOOLEAN
      /\ r.in \subseteq 1 .. n - 1
  BY DEF Scanned
<1>3. (r.fence <=> before) /\ (r.section <=> Section(lines, n - 1)) /\ ~ (r.section /\ r.fence)
      /\ \A m \in 1 .. n - 1 : InExample(lines, m) => m \in r.in
  BY <1>1 DEF Scanned
<1>4. Odd(FencesBefore(lines, n + 1)) <=> IF k = "fence" THEN ~ before ELSE before
  <2> DEFINE c == FencesBefore(lines, n)
  <2>1. c \in Nat /\ FencesBefore(lines, n + 1) = c + (IF k = "fence" THEN 1 ELSE 0)
    BY <1>1, FencesCounted
  <2> HIDE DEF c, k
  <2>2. c \in Nat /\ c + 0 = c
    BY <2>1
  <2>5. (Odd(c + 1) <=> ~ Odd(c)) /\ (before <=> Odd(c))
    BY <2>2, Parity DEF before, c
  <2>3. CASE k = "fence"
    BY <2>1, <2>2, <2>3, <2>5
  <2>4. CASE k # "fence"
    BY <2>1, <2>2, <2>4, <2>5
  <2> QED BY <2>3, <2>4
<1>5. Section(lines, n) <=> k # "blank" /\ (Section(lines, n - 1) \/ (k = "marker" /\ ~ before))
  BY SectionIs
<1>6. InExample(lines, n) => /\ k # "fence"
                             /\ before \/ (k # "blank" /\ (Section(lines, n - 1) \/ k = "marker"))
  BY ExampleIs DEF InExample
<1>7. Section(lines, n - 1) => k # "fence"
  BY NoFenceInside
<1> SUFFICES Scanned(t, lines, n)
  OBVIOUS
<1> HIDE DEF before, k
<1>8. ASSUME NEW fence \in BOOLEAN, NEW section \in BOOLEAN, NEW in,
             t = [fence |-> fence, section |-> section, in |-> in],
             fence <=> Odd(FencesBefore(lines, n + 1)), section <=> Section(lines, n), ~ (section /\ fence),
             in = r.in \/ in = r.in \cup {n},
             InExample(lines, n) => in = r.in \cup {n}
      PROVE  Scanned(t, lines, n)
  <2>1. in \subseteq 1 .. n
    BY <1>1, <1>2, <1>8
  <2>2. \A m \in 1 .. n : InExample(lines, m) => m \in in
    BY <1>1, <1>3, <1>8
  <2> HIDE DEF t
  <2> QED BY <1>8, <2>1, <2>2 DEF Scanned
<1> HIDE DEF t
<1>9. CASE r.section /\ k = "blank"
  <2>1. t = [fence |-> r.fence, section |-> FALSE, in |-> r.in]
    BY <1>2, <1>9 DEF t, ScanLine
  <2> QED BY <1>2, <1>3, <1>4, <1>5, <1>6, <1>8, <1>9, <2>1
<1>10. CASE r.section /\ k # "blank"
  <2>1. t = [fence |-> r.fence, section |-> TRUE, in |-> r.in \cup {n}]
    BY <1>2, <1>10 DEF t, ScanLine
  <2> QED BY <1>2, <1>3, <1>4, <1>5, <1>7, <1>8, <1>10, <2>1
<1>11. CASE ~ r.section /\ k = "fence"
  <2>1. t = [fence |-> ~ r.fence, section |-> FALSE, in |-> r.in]
    BY <1>2, <1>11 DEF t, ScanLine
  <2> QED BY <1>2, <1>3, <1>4, <1>5, <1>6, <1>8, <1>11, <2>1
<1>12. CASE ~ r.section /\ k # "fence" /\ r.fence
  <2>1. t = [fence |-> r.fence, section |-> FALSE, in |-> r.in \cup {n}]
    BY <1>2, <1>12 DEF t, ScanLine
  <2> QED BY <1>2, <1>3, <1>4, <1>5, <1>8, <1>12, <2>1
<1>13. CASE ~ r.section /\ k = "marker" /\ ~ r.fence
  <2>1. t = [fence |-> r.fence, section |-> TRUE, in |-> r.in \cup {n}]
    BY <1>2, <1>13 DEF t, ScanLine
  <2> QED BY <1>2, <1>3, <1>4, <1>5, <1>8, <1>13, <2>1
<1>14. CASE ~ r.section /\ k \notin {"fence", "marker"} /\ ~ r.fence
  <2>1. t = [fence |-> r.fence, section |-> FALSE, in |-> r.in]
    BY <1>2, <1>14 DEF t, ScanLine
  <2> QED BY <1>2, <1>3, <1>4, <1>5, <1>6, <1>8, <1>14, <2>1
<1> QED BY <1>2, <1>9, <1>10, <1>11, <1>12, <1>13, <1>14 DEF k

\* What is a worked example in the words of the docstring is in some block.
LEMMA ExamplesFound ==
  ASSUME NEW lines \in Seq(LineKinds), NestsNoFence(lines),
         NEW m \in 1 .. Len(lines), InExample(lines, m)
  PROVE  m \in Blocks(lines)
<1> DEFINE len == Len(lines)
<1>1. PICK s : IsScan(s, lines, len) /\ Blocks(lines) = s[len].in
  BY BlocksScanned
<1> DEFINE S == {n \in Nat : n <= len /\ ~ Scanned(s[n], lines, n)}
<1>2. ASSUME S # {} PROVE FALSE
  <2>1. PICK n \in S : \A i \in S : n <= i
    BY <1>2, LeastExists
  <2>2. n \in Nat /\ n <= len /\ len \in Nat /\ ~ Scanned(s[n], lines, n)
    OBVIOUS
  <2>3. s[n] = IF n = 0 THEN ScanStart ELSE ScanLine(s[n - 1], lines[n], n)
    <3>1. s = [i \in 0 .. len |-> IF i = 0 THEN ScanStart ELSE ScanLine(s[i - 1], lines[i], i)]
      BY <1>1 DEF IsScan
    <3>2. n \in 0 .. len
      BY <2>2
    <3> HIDE DEF len
    <3> QED BY <3>1, <3>2
  <2>4. CASE n = 0
    BY <2>2, <2>3, <2>4, ScanStarts
  <2>5. CASE n # 0
    <3>1. n \in 1 .. len /\ n - 1 \in Nat /\ n - 1 <= len /\ n - 1 \notin S
      BY <2>1, <2>2, <2>5
    <3>2. Scanned(s[n - 1], lines, n - 1)
      BY <3>1
    <3> QED BY <2>2, <2>3, <2>5, <3>1, <3>2, LineScanned
  <2> QED BY <2>4, <2>5
<1>3. len \in Nat /\ len \notin S
  BY <1>2
<1> HIDE DEF len
<1>4. Scanned(s[len], lines, len)
  BY <1>3
<1> QED BY <1>1, <1>4 DEF Scanned, len

\* The prompt is one of those the harness is started with until it has been audited.
PromptInv == phase = "audit" => prompt \in Seq(LineKinds)

\* A strict run asks the model nothing if a worked example of the prompt uses the
\* vocabulary of a case that is to run; for every prompt (eval.py:1994-2182).
THEOREM LeaksAreStopped == EvalSpec => LeaksStopStrictRuns
<1>1. EvalInit => PromptInv
  BY EvalAssumption DEF EvalInit, PromptInv
<1>2. PromptInv /\ [EvalNext]_evalVars => PromptInv'
  <2> SUFFICES ASSUME PromptInv, [EvalNext]_evalVars, phase' = "audit" PROVE prompt' \in Seq(LineKinds)
    BY DEF PromptInv
  <2>1. UNCHANGED << phase, prompt >>
    BY DEF EvalNext, Audit, StartCase, PostFails, PostRefused, PostAnswers, Exec, NextStep, MatchNext, Check,
           ExitRun, Score, evalVars
  <2> QED BY <2>1 DEF PromptInv
<1> DEFINE Act == phase = "audit" /\ phase' = "start" /\ strict /\ NestsNoFence(prompt) =>
                    ~ \E c \in selected, n \in 1 .. Len(prompt) :
                        CaseList[c].vocab /\ prompt[n] = "word" /\ InExample(prompt, n)
<1>3. PromptInv /\ [EvalNext]_evalVars => Act
  <2> SUFFICES ASSUME PromptInv, [EvalNext]_evalVars, phase = "audit", phase' = "start", strict, NestsNoFence(prompt),
                      NEW c \in selected, NEW n \in 1 .. Len(prompt),
                      CaseList[c].vocab, prompt[n] = "word", InExample(prompt, n)
               PROVE  FALSE
    OBVIOUS
  <2>1. Audit
    BY DEF EvalNext, StartCase, PostFails, PostRefused, PostAnswers, Exec, NextStep, MatchNext, Check, ExitRun, evalVars
  <2>2. n \in Blocks(prompt)
    BY ExamplesFound DEF PromptInv
  <2>3. c \in Overlapping(prompt, selected)
    BY <2>2 DEF Overlapping
  <2> QED BY <2>1, <2>3 DEF Audit
<1> QED BY <1>1, <1>2, <1>3, PTL DEF EvalSpec, LeaksStopStrictRuns

-----------------------------------------------------------------------------
(* The transcript store, while the server's tools do not run in threads:   *)
(* one call at a time.                                                     *)

Line == Records \union {Corrupt, Old}
File == [there : BOOLEAN, lines : Seq(Line), torn : BOOLEAN]
StoreCall == [at : {"resolve", "sidecar", "name", "append"}, record : Records, suffix : Nat]

\* An add for the source goes past the i-th stem and will always do.
Passed(source, i) ==
  LET s == StemsFor(source)[i]
  IN identity[s] # NoFile \/ (records[s].there /\ ~ (source = Safe[source] /\ i = 1))

StoreTypes ==
  /\ identity \in [Stems -> Sources \union {NoFile, Empty}]
  /\ records \in [Stems -> File]
  /\ toolCalls \in [Callers -> StoreCall \union {Idle}]
  /\ acked \subseteq Records /\ IsFiniteSet(acked)
  /\ adds \in Nat /\ faults \in Nat

\* What a call has seen of the sidecars on its way is still so.
CallInv(c) ==
  LET call == toolCalls[c]
      source == call.record.source
      k == call.suffix
  IN call # Idle =>
     /\ call.record.n = adds /\ k \in 1 .. Len(StemsFor(source))
     /\ \A i \in 1 .. k - 1 : Passed(source, i)
     /\ call.at = "resolve" => \A i \in 1 .. k - 1 : identity[StemsFor(source)[i]] # source
     /\ call.at \in {"sidecar", "name"} => \A t \in Stems : identity[t] # source
     /\ call.at = "sidecar" => identity[StemOf(call)] = NoFile
     /\ call.at = "name" => identity[StemOf(call)] = Empty
     /\ call.at = "append" => identity[StemOf(call)] = source

\* A source has one sidecar, at the first stem that was free for it.
SidecarInv ==
  \A s \in Stems : identity[s] \in Sources =>
    /\ \E j \in 1 .. Len(StemsFor(identity[s])) :
         s = StemsFor(identity[s])[j] /\ \A i \in 1 .. j - 1 : Passed(identity[s], i)
    /\ \A t \in Stems : identity[t] = identity[s] => t = s

\* Records are numbered by the calls; the one of the call at work is nowhere yet.
NumberInv ==
  /\ \A r \in acked : r.n <= adds
  /\ \A s \in Stems : \A r \in Range(records[s].lines) : r.n <= adds
  /\ \A c \in Callers : toolCalls[c] # Idle =>
       /\ \A r \in acked : r.n < adds
       /\ \A s \in Stems : \A r \in Range(records[s].lines) : r.n < adds

\* The line without its end, which the next write damages, was not acknowledged.
TornInv ==
  \A s \in Stems : records[s].torn =>
    records[s].lines # <<>> /\ Last(records[s].lines) \notin acked

\* A file holds records of the source its sidecar names, and of no other.
HomeInv ==
  \A s \in Stems : \A l \in Range(records[s].lines) : l \in Records => identity[s] = l.source

\* A record is kept in the file that belongs to the sidecar of its source.
Kept(r) ==
  \E s \in Stems : identity[s] = r.source /\ records[s].there /\ r \in Range(records[s].lines)

Gone == {r \in acked : ~ Kept(r)}
Torn == {s \in Stems : records[s].torn}

\* A fault costs a record at once, or damages a line and the next record is lost.
Budget == Cardinality(Gone) + Cardinality(Torn) <= faults

StoreInv ==
  /\ StoreTypes /\ SidecarInv /\ NumberInv /\ TornInv /\ HomeInv /\ Budget
  /\ \A c \in Callers : CallInv(c)

LEMMA StemsFinite == IsFiniteSet(Stems)
<1>1. DOMAIN ByName = 1 .. Len(ByName) /\ Len(ByName) \in Nat
  BY StoreAssumption
<1>2. IsFiniteSet(DOMAIN ByName)
  BY <1>1, FS_Interval
<1>3. ByName \in Surjection(DOMAIN ByName, Stems)
  BY StoreAssumption DEF Surjection, Stems, Range
<1> QED BY <1>2, <1>3, FS_Surjection

LEMMA LinesAre ==
  /\ Corrupt \notin Records /\ Old \notin Records
  /\ \A r \in Records : r.n \in Nat /\ r.n >= 1 /\ r.n <= MaxAdds /\ r.source \in Sources /\ r.ts \in Int
  /\ \A l \in Line : l.n \in Int
<1>1. MaxAdds \in Nat /\ Timestamps \subseteq Int
  BY StoreAssumption
<1>2. ASSUME NEW r \in Records
      PROVE  r.n \in 1 .. MaxAdds /\ r.source \in Sources /\ r.ts \in Timestamps
  BY DEF Records
<1>3. Corrupt.n = 0 /\ Old.n = -1
  BY DEF Corrupt, Old
<1>4. ASSUME NEW r \in Records
      PROVE  r.n \in Nat /\ r.n >= 1 /\ r.n <= MaxAdds /\ r.source \in Sources /\ r.ts \in Int
  <2>1. \A k \in 1 .. MaxAdds : k \in Nat /\ k >= 1 /\ k <= MaxAdds
    BY <1>1
  <2>2. r.n \in 1 .. MaxAdds /\ r.source \in Sources /\ r.ts \in Timestamps
    BY <1>2
  <2>3. r.ts \in Int
    BY <1>1, <2>2
  <2> QED BY <2>1, <2>2, <2>3
<1>5. Corrupt \notin Records /\ Old \notin Records
  BY <1>3, <1>4
<1>6. \A l \in Line : l.n \in Int
  BY <1>3, <1>4 DEF Line
<1> QED BY <1>4, <1>5, <1>6

\* Appending a line, and replacing the last one.
LEMMA AppendLine ==
  ASSUME NEW q \in Seq(Line), NEW l \in Line
  PROVE  /\ Append(q, l) \in Seq(Line) /\ Append(q, l) # <<>> /\ Last(Append(q, l)) = l
         /\ Range(Append(q, l)) = Range(q) \union {l}
<1> DEFINE r == Append(q, l)
<1>1. /\ r \in Seq(Line) /\ Len(r) = Len(q) + 1 /\ Len(q) \in Nat /\ r[Len(r)] = l
      /\ \A i \in 1 .. Len(q) : r[i] = q[i]
      /\ DOMAIN q = 1 .. Len(q) /\ DOMAIN r = 1 .. Len(r)
  OBVIOUS
<1> HIDE DEF r
<1>2. Range(r) = Range(q) \union {l}
  BY <1>1 DEF Range
<1>3. r # <<>>
  BY <1>1
<1> QED BY <1>1, <1>2, <1>3 DEF Last, r

LEMMA FrontLines ==
  ASSUME NEW q \in Seq(Line), q # <<>>
  PROVE  /\ Front(q) \in Seq(Line)
         /\ Range(Front(q)) \subseteq Range(q)
         /\ Range(q) \subseteq Range(Front(q)) \union {Last(q)}
<1> DEFINE r == Front(q)
<1>0. Len(q) \in Nat /\ Len(q) >= 1 /\ DOMAIN q = 1 .. Len(q) /\ r = SubSeq(q, 1, Len(q) - 1)
  BY DEF Front
<1>a. /\ Len(SubSeq(q, 1, Len(q) - 1)) = Len(q) - 1
      /\ \A i \in 1 .. Len(q) - 1 : SubSeq(q, 1, Len(q) - 1)[i] = q[i]
  BY <1>0
<1>b. SubSeq(q, 1, Len(q) - 1) \in Seq(Line)
  BY <1>0, SubSeqProperties
<1>1. /\ r \in Seq(Line) /\ Len(r) = Len(q) - 1 /\ Len(q) \in Nat
      /\ \A i \in 1 .. Len(r) : r[i] = q[i]
      /\ DOMAIN q = 1 .. Len(q) /\ DOMAIN r = 1 .. Len(r)
  BY <1>0, <1>a, <1>b
<1> HIDE DEF r
<1>2. Range(r) \subseteq Range(q)
  BY <1>1 DEF Range
<1>3. ASSUME NEW i \in 1 .. Len(q) PROVE q[i] \in Range(r) \union {Last(q)}
  <2>1. CASE i = Len(q)
    BY <2>1 DEF Last
  <2>2. CASE i # Len(q)
    <3>1. i \in DOMAIN r /\ r[i] = q[i]
      BY <1>1, <2>2
    <3> QED BY <3>1 DEF Range
  <2> QED BY <2>1, <2>2
<1>4. Range(q) \subseteq Range(r) \union {Last(q)}
  BY <1>1, <1>3 DEF Range
<1> QED BY <1>1, <1>2, <1>4 DEF r

LEMMA WrittenIs ==
  ASSUME NEW file \in File, NEW line \in Line, file.torn => file.lines # <<>>
  PROVE  LET w == Written(file, line)
         IN /\ w \in File /\ w.there /\ ~ w.torn /\ w.lines # <<>>
            /\ Last(w.lines) = IF file.torn THEN Corrupt ELSE line
            /\ \A r \in Range(file.lines) :
                 r \in Range(w.lines) \/ (file.torn /\ r = Last(file.lines))
            /\ Range(w.lines) \subseteq Range(file.lines) \union {line, Corrupt}
            /\ ~ file.torn => line \in Range(w.lines)
<1> DEFINE w == Written(file, line)
           kept == IF file.torn THEN Front(file.lines) ELSE file.lines
           new  == IF file.torn THEN Corrupt ELSE line
<1>1. file.lines \in Seq(Line) /\ file.torn \in BOOLEAN
  BY DEF File
<1>2. /\ kept \in Seq(Line)
      /\ Range(kept) \subseteq Range(file.lines)
      /\ \A r \in Range(file.lines) : r \in Range(kept) \/ (file.torn /\ r = Last(file.lines))
  BY <1>1, FrontLines
<1>3. new \in Line
  BY DEF Line
<1>4. w.lines = Append(kept, new) /\ w.there = TRUE /\ w.torn = FALSE
      /\ w = [there |-> TRUE, torn |-> FALSE, lines |-> w.lines]
  BY <1>1 DEF Written
<1> HIDE DEF w, kept
<1>5. w.lines \in Seq(Line) /\ w.lines # <<>> /\ Last(w.lines) = new /\ Range(w.lines) = Range(kept) \union {new}
  BY <1>2, <1>3, <1>4, AppendLine
<1>6. w \in File
  BY <1>4, <1>5 DEF File
<1> QED BY <1>2, <1>4, <1>5, <1>6 DEF w

\* What a step may do to the budget.
LEMMA BudgetKept ==
  ASSUME NEW G, NEW G2, NEW T, NEW T2, NEW f \in Nat, NEW f2 \in Nat,
         IsFiniteSet(G), IsFiniteSet(T), Cardinality(G) + Cardinality(T) <= f,
         \/ G2 \subseteq G /\ T2 \subseteq T /\ f <= f2
         \/ \E x : G2 \subseteq G /\ T2 \subseteq T \union {x} /\ f2 = f + 1
         \/ \E r, x : G2 \subseteq G \union {r} /\ T2 \subseteq T \ {x} /\ x \in T /\ f2 = f
  PROVE  Cardinality(G2) + Cardinality(T2) <= f2
<1>1. Cardinality(G) \in Nat /\ Cardinality(T) \in Nat
  BY FS_CardinalityType
<1>2. CASE G2 \subseteq G /\ T2 \subseteq T /\ f <= f2
  <2>1. /\ IsFiniteSet(G2) /\ Cardinality(G2) <= Cardinality(G)
        /\ IsFiniteSet(T2) /\ Cardinality(T2) <= Cardinality(T)
    BY <1>2, FS_Subset
  <2>2. Cardinality(G2) \in Nat /\ Cardinality(T2) \in Nat
    BY <2>1, FS_CardinalityType
  <2> QED BY <1>1, <1>2, <2>1, <2>2
<1>3. ASSUME NEW x, G2 \subseteq G, T2 \subseteq T \union {x}, f2 = f + 1
      PROVE  Cardinality(G2) + Cardinality(T2) <= f2
  <2>1. IsFiniteSet(T \union {x}) /\ Cardinality(T \union {x}) <= Cardinality(T) + 1
        /\ Cardinality(T \union {x}) \in Nat
    <3>1. IsFiniteSet(T \union {x})
          /\ Cardinality(T \union {x}) = IF x \in T THEN Cardinality(T) ELSE Cardinality(T) + 1
      BY FS_AddElement
    <3> QED BY <1>1, <3>1
  <2>2. /\ IsFiniteSet(G2) /\ Cardinality(G2) <= Cardinality(G)
        /\ IsFiniteSet(T2) /\ Cardinality(T2) <= Cardinality(T \union {x})
    BY <1>3, <2>1, FS_Subset
  <2>3. Cardinality(G2) \in Nat /\ Cardinality(T2) \in Nat
    BY <2>2, FS_CardinalityType
  <2> QED BY <1>1, <1>3, <2>1, <2>2, <2>3
<1>4. ASSUME NEW r, NEW x, G2 \subseteq G \union {r}, T2 \subseteq T \ {x}, x \in T, f2 = f
      PROVE  Cardinality(G2) + Cardinality(T2) <= f2
  <2>1. IsFiniteSet(G \union {r}) /\ Cardinality(G \union {r}) <= Cardinality(G) + 1
        /\ Cardinality(G \union {r}) \in Nat
    <3>1. IsFiniteSet(G \union {r})
          /\ Cardinality(G \union {r}) = IF r \in G THEN Cardinality(G) ELSE Cardinality(G) + 1
      BY FS_AddElement
    <3> QED BY <1>1, <3>1
  <2>2. IsFiniteSet(T \ {x}) /\ Cardinality(T \ {x}) = Cardinality(T) - 1
    <3>1. IsFiniteSet(T \ {x})
          /\ Cardinality(T \ {x}) = IF x \in T THEN Cardinality(T) - 1 ELSE Cardinality(T)
      BY FS_RemoveElement
    <3> QED BY <1>4, <3>1
  <2>3. /\ IsFiniteSet(G2) /\ Cardinality(G2) <= Cardinality(G \union {r})
        /\ IsFiniteSet(T2) /\ Cardinality(T2) <= Cardinality(T \ {x})
    BY <1>4, <2>1, <2>2, FS_Subset
  <2>4. Cardinality(G2) \in Nat /\ Cardinality(T2) \in Nat
    BY <2>3, FS_CardinalityType
  <2> QED BY <1>1, <1>4, <2>1, <2>2, <2>3, <2>4
<1> QED BY <1>2, <1>3, <1>4

\* The files that are there stay there, and the sidecars too.
Grows ==
  \A t \in Stems : /\ identity[t] # NoFile => identity'[t] # NoFile
                   /\ records[t].there => records'[t].there

LEMMA PassedStays ==
  ASSUME Grows, NEW source \in Sources, NEW i \in 1 .. Len(StemsFor(source)), Passed(source, i)
  PROVE  Passed(source, i)'
<1>1. StemsFor(source)[i] \in Stems
  BY StoreAssumption
<1> QED BY <1>1 DEF Passed, Grows

LEMMA CallIs ==
  ASSUME StoreTypes, NEW c \in Callers, toolCalls[c] # Idle
  PROVE  /\ toolCalls[c] \in StoreCall
         /\ toolCalls[c].record \in Records /\ toolCalls[c].record.source \in Sources
         /\ toolCalls[c].suffix \in Nat
         /\ toolCalls[c].at \in {"resolve", "sidecar", "name", "append"}
<1>1. toolCalls[c] \in StoreCall
  BY DEF StoreTypes
<1>2. toolCalls[c].record \in Records
  BY <1>1 DEF StoreCall
<1> QED BY <1>1, <1>2, LinesAre DEF StoreCall

LEMMA AtWork ==
  ASSUME StoreTypes, NEW c \in Callers,
         toolCalls[c].at \in {"resolve", "sidecar", "name", "append"}
  PROVE  toolCalls[c] # Idle
BY DEF Idle

LEMMA Resumed ==
  ASSUME StoreTypes, NEW c \in Callers, toolCalls[c] # Idle,
         NEW at \in {"resolve", "sidecar", "name", "append"}, ResumeCall(c, at)
  PROVE  /\ toolCalls' \in [Callers -> StoreCall \union {Idle}]
         /\ toolCalls'[c] # Idle /\ toolCalls'[c].at = at
         /\ toolCalls'[c].record = toolCalls[c].record
         /\ toolCalls'[c].suffix = toolCalls[c].suffix
<1>1. toolCalls[c] \in StoreCall /\ toolCalls \in [Callers -> StoreCall \union {Idle}]
  BY CallIs DEF StoreTypes
<1>2. toolCalls'[c] = [toolCalls[c] EXCEPT !.at = at]
      /\ toolCalls' \in [Callers -> StoreCall \union {Idle}]
  <2>1. [toolCalls[c] EXCEPT !.at = at] \in StoreCall
    BY <1>1 DEF StoreCall
  <2>2. toolCalls' = [toolCalls EXCEPT ![c] = [toolCalls[c] EXCEPT !.at = at]]
    BY DEF ResumeCall
  <2> QED BY <1>1, <2>1, <2>2
<1>3. /\ toolCalls'[c].at = at
      /\ toolCalls'[c].record = toolCalls[c].record
      /\ toolCalls'[c].suffix = toolCalls[c].suffix
  BY <1>1, <1>2 DEF StoreCall
<1>4. toolCalls'[c] # Idle
  BY <1>3 DEF Idle
<1> QED BY <1>2, <1>3, <1>4

\* What only concerns the files is kept by a step that leaves them.
LEMMA FilesKept ==
  ASSUME StoreInv, UNCHANGED << identity, records, acked >>, faults' \in Nat, faults <= faults'
  PROVE  SidecarInv' /\ TornInv' /\ HomeInv' /\ Budget'
<1> USE DEF StoreInv
<1>1. \A source, i : Passed(source, i)' = Passed(source, i)
  BY DEF Passed
<1>2. SidecarInv'
  BY DEF SidecarInv, Passed
<1>3. TornInv'
  BY DEF TornInv
<1>4. Gone' = Gone /\ Torn' = Torn
  BY DEF Gone, Torn, Kept
<1>5. IsFiniteSet(Gone) /\ IsFiniteSet(Torn)
  BY FS_Subset, StemsFinite DEF Gone, Torn, StoreTypes
<1>6. Cardinality(Gone) \in Nat /\ Cardinality(Torn) \in Nat /\ faults \in Nat
  BY <1>5, FS_CardinalityType DEF StoreTypes
<1>7. HomeInv'
  BY DEF HomeInv
<1> QED BY <1>2, <1>3, <1>4, <1>6, <1>7 DEF Budget

LEMMA AddSteps ==
  ASSUME NEW c, Callers = {c}, StoreInv, AddTranscript(c)
  PROVE  StoreInv'
<1> USE DEF StoreInv
<1>1. /\ adds \in Nat /\ faults \in Nat /\ MaxAdds \in Nat /\ adds < MaxAdds /\ adds' = adds + 1
      /\ UNCHANGED << identity, records, acked, faults >>
      /\ toolCalls \in [Callers -> StoreCall \union {Idle}]
  BY StoreAssumption DEF AddTranscript, StoreTypes
<1>2. PICK source \in Sources, ts \in Timestamps :
        toolCalls' = [toolCalls EXCEPT ![c] =
          CallOf([n |-> adds + 1, source |-> source, ts |-> ts], "resolve", 1)]
  BY DEF AddTranscript
<1> DEFINE r == [n |-> adds + 1, source |-> source, ts |-> ts]
<1>3. r \in Records /\ r.n = adds + 1 /\ r.source = source
  BY <1>1 DEF Records
<1> HIDE DEF r
<1>4. toolCalls' = [toolCalls EXCEPT ![c] = [at |-> "resolve", record |-> r, suffix |-> 1]]
  BY <1>2 DEF CallOf, r
<1>5. [at |-> "resolve", record |-> r, suffix |-> 1] \in StoreCall
  BY <1>3 DEF StoreCall
<1>6. StoreTypes'
  BY <1>1, <1>4, <1>5 DEF StoreTypes
<1>7. toolCalls'[c] = [at |-> "resolve", record |-> r, suffix |-> 1]
  BY <1>1, <1>4
<1>8. \A d \in Callers : CallInv(d)'
  <2>1. 1 \in 1 .. Len(StemsFor(source))
    BY StoreAssumption
  <2> QED BY <1>1, <1>3, <1>7, <2>1 DEF CallInv
<1>9. NumberInv'
  <2>1. \A k \in Int : k <= adds => k <= adds + 1 /\ k < adds + 1
    BY <1>1
  <2>2. \A l \in acked : l.n \in Int
    BY LinesAre DEF StoreTypes
  <2>3. \A s \in Stems : \A l \in Range(records[s].lines) : l.n \in Int
    <3>1. ASSUME NEW s \in Stems PROVE records[s].lines \in Seq(Line)
      BY DEF StoreTypes, File
    <3>2. ASSUME NEW s \in Stems, NEW l \in Range(records[s].lines) PROVE l \in Line
      BY <3>1, <3>2 DEF Range
    <3> QED BY <3>2, LinesAre
  <2> QED BY <1>1, <2>1, <2>2, <2>3 DEF NumberInv
<1> QED BY <1>1, <1>6, <1>8, <1>9, FilesKept

\* The call after a step, in terms of the source and the suffix it is at.
LEMMA CallMade ==
  ASSUME NEW c, NEW source \in Sources, NEW k \in 1 .. Len(StemsFor(source)),
         toolCalls'[c].record.source = source, toolCalls'[c].suffix = k,
         toolCalls'[c].record.n = adds',
         \A i \in 1 .. k - 1 : Passed(source, i)',
         toolCalls'[c].at = "resolve" => \A i \in 1 .. k - 1 : identity'[StemsFor(source)[i]] # source,
         toolCalls'[c].at \in {"sidecar", "name"} => \A t \in Stems : identity'[t] # source,
         toolCalls'[c].at = "sidecar" => identity'[StemsFor(source)[k]] = NoFile,
         toolCalls'[c].at = "name" => identity'[StemsFor(source)[k]] = Empty,
         toolCalls'[c].at = "append" => identity'[StemsFor(source)[k]] = source
  PROVE  CallInv(c)'
<1> DEFINE call == toolCalls'[c]
<1>1. call.record.source = source /\ call.suffix = k /\ call.record.n = adds'
  OBVIOUS
<1>2. (StemOf(toolCalls[c]))' = StemsFor(source)[k]
  BY DEF StemOf
<1>3. \A i \in 1 .. k - 1 :
        identity'[StemsFor(source)[i]] # NoFile
          \/ (records'[StemsFor(source)[i]].there /\ ~ (source = Safe[source] /\ i = 1))
  BY DEF Passed
<1>4. \A i \in 1 .. k - 1 : (Passed(toolCalls[c].record.source, i))'
  BY <1>1, <1>3 DEF Passed
<1> QED BY <1>1, <1>2, <1>4 DEF CallInv

LEMMA ResolveSteps ==
  ASSUME NEW c, Callers = {c}, StoreInv, Resolve(c)
  PROVE  StoreInv'
<1> USE DEF StoreInv
<1> DEFINE call == toolCalls[c]
<1>1. toolCalls[c] # Idle /\ toolCalls[c].at = "resolve"
  BY AtWork DEF Resolve
<1>2. PICK source \in Sources : source = toolCalls[c].record.source
  BY <1>1, CallIs
<1>3. PICK k \in Nat : k = toolCalls[c].suffix
  BY <1>1, CallIs
<1>4. PICK s \in Stems : s = StemsFor(source)[k] /\ s = StemOf(toolCalls[c]) /\ k \in 1 .. Len(StemsFor(source))
  BY <1>1, <1>2, <1>3, StoreAssumption DEF CallInv, StemOf
<1>5. /\ toolCalls[c].record.n = adds
      /\ \A i \in 1 .. k - 1 : Passed(source, i) /\ identity[StemsFor(source)[i]] # source
  BY <1>1, <1>2, <1>3 DEF CallInv
<1>6. UNCHANGED << identity, records, acked, adds, faults >> /\ faults \in Nat /\ adds \in Nat
  BY DEF Resolve, StoreTypes
<1>7. source # NoFile /\ source # Empty
  BY StoreAssumption
<1>8. SidecarInv' /\ TornInv' /\ HomeInv' /\ Budget'
  BY <1>6, FilesKept
<1>9. ASSUME toolCalls' \in [Callers -> StoreCall \union {Idle}],
             \A d \in Callers : CallInv(d)'
      PROVE  StoreInv'
  <2>1. StoreTypes'
    BY <1>6, <1>9 DEF StoreTypes
  <2>2. NumberInv'
    BY <1>1, <1>6 DEF NumberInv
  <2> QED BY <1>8, <1>9, <2>1, <2>2
<1>10. CASE /\ ResumeCall(c, "sidecar") /\ identity[s] = NoFile
            /\ ~ records[s].there \/ (source = Safe[source] /\ k = 1)
  <2>1. ~ Passed(source, k)
    BY <1>4, <1>10 DEF Passed
  <2>2. ASSUME NEW t \in Stems PROVE identity[t] # source
    <3>1. SUFFICES ASSUME identity[t] = source PROVE FALSE
      OBVIOUS
    <3>2. PICK j \in 1 .. Len(StemsFor(source)) :
            t = StemsFor(source)[j] /\ \A i \in 1 .. j - 1 : Passed(source, i)
      BY <3>1 DEF SidecarInv
    <3>3. j # k
      BY <1>4, <1>7, <1>10, <3>1, <3>2
    <3>4. ~ (j < k)
      BY <1>5, <3>1, <3>2
    <3>5. ~ (k < j)
      BY <1>4, <2>1, <3>2
    <3>6. Len(StemsFor(source)) \in Nat
      BY StoreAssumption
    <3> QED BY <3>3, <3>4, <3>5, <3>6
  <2>3. /\ toolCalls' \in [Callers -> StoreCall \union {Idle}]
        /\ toolCalls'[c] # Idle /\ toolCalls'[c].at = "sidecar"
        /\ toolCalls'[c].record = toolCalls[c].record
        /\ toolCalls'[c].suffix = k
    BY <1>1, <1>3, <1>10, Resumed
  <2>4. \A i \in 1 .. k - 1 : Passed(source, i)'
    BY <1>5, <1>6 DEF Passed
  <2>5. identity'[s] = NoFile /\ \A t \in Stems : identity'[t] # source
    BY <1>6, <1>10, <2>2
  <2>6. CallInv(c)'
    BY <1>2, <1>4, <1>5, <1>6, <2>3, <2>4, <2>5, CallMade
  <2> QED BY <1>9, <2>3, <2>6
<1>11. CASE ResumeCall(c, "append") /\ identity[s] = source
  <2>3. /\ toolCalls' \in [Callers -> StoreCall \union {Idle}]
        /\ toolCalls'[c] # Idle /\ toolCalls'[c].at = "append"
        /\ toolCalls'[c].record = toolCalls[c].record
        /\ toolCalls'[c].suffix = k
    BY <1>1, <1>3, <1>11, Resumed
  <2>4. \A i \in 1 .. k - 1 : Passed(source, i)'
    BY <1>5, <1>6 DEF Passed
  <2>5. CallInv(c)'
    BY <1>2, <1>4, <1>5, <1>6, <1>11, <2>3, <2>4, CallMade
  <2> QED BY <1>9, <2>3, <2>5
<1>12. CASE /\ toolCalls' = [toolCalls EXCEPT ![c].suffix = @ + 1]
            /\ k < Len(StemsFor(source)) /\ identity[s] # source
            /\ identity[s] # NoFile \/ (records[s].there /\ ~ (source = Safe[source] /\ k = 1))
  <2>1. toolCalls[c] \in StoreCall /\ toolCalls \in [Callers -> StoreCall \union {Idle}]
    BY <1>1, CallIs DEF StoreTypes
  <2>2. [toolCalls[c] EXCEPT !.suffix = k + 1] \in StoreCall
    BY <2>1 DEF StoreCall
  <2>3. toolCalls' = [toolCalls EXCEPT ![c] = [toolCalls[c] EXCEPT !.suffix = k + 1]]
    BY <1>3, <1>12
  <2>4. /\ toolCalls' \in [Callers -> StoreCall \union {Idle}]
        /\ toolCalls'[c] = [toolCalls[c] EXCEPT !.suffix = k + 1]
    BY <2>1, <2>2, <2>3
  <2>5. /\ toolCalls'[c].at = "resolve" /\ toolCalls'[c].suffix = k + 1
        /\ toolCalls'[c].record = toolCalls[c].record
    BY <1>1, <2>1, <2>4 DEF StoreCall
  <2>6. \A i \in 1 .. k : Passed(source, i) /\ identity[StemsFor(source)[i]] # source
    <3>1. Passed(source, k) /\ identity[StemsFor(source)[k]] # source
      BY <1>4, <1>12 DEF Passed
    <3>2. \A i \in 1 .. k : i = k \/ i \in 1 .. k - 1
      OBVIOUS
    <3> QED BY <1>5, <3>1, <3>2
  <2>7. (k + 1) \in 1 .. Len(StemsFor(source)) /\ (k + 1) - 1 = k
    BY <1>12, StoreAssumption
  <2>8. \A i \in 1 .. (k + 1) - 1 : Passed(source, i)' /\ identity'[StemsFor(source)[i]] # source
    BY <1>6, <2>6, <2>7 DEF Passed
  <2>9. k + 1 \in Nat /\ toolCalls'[c].record.source = source /\ toolCalls'[c].record.n = adds'
    BY <1>2, <1>5, <1>6, <2>5
  <2>10. CallInv(c)'
    BY <2>5, <2>7, <2>8, <2>9, CallMade
  <2> QED BY <1>9, <2>4, <2>10
<1> QED
  <2>1. \/ /\ ResumeCall(c, "sidecar") /\ identity[s] = NoFile
           /\ ~ records[s].there \/ (source = Safe[source] /\ k = 1)
        \/ ResumeCall(c, "append") /\ identity[s] = source
        \/ /\ toolCalls' = [toolCalls EXCEPT ![c].suffix = @ + 1]
           /\ k < Len(StemsFor(source)) /\ identity[s] # source
           /\ identity[s] # NoFile \/ (records[s].there /\ ~ (source = Safe[source] /\ k = 1))
    BY <1>2, <1>3, <1>4, <1>7 DEF Resolve, SameIdentity
  <2> QED BY <1>10, <1>11, <1>12, <2>1

\* The sidecar of the call's stem is opened, or written.
LEMMA OpenSteps ==
  ASSUME NEW c, Callers = {c}, StoreInv, OpenSidecar(c)
  PROVE  StoreInv'
<1> USE DEF StoreInv
<1>1. toolCalls[c] # Idle /\ toolCalls[c].at = "sidecar"
  BY AtWork DEF OpenSidecar
<1>2. PICK source \in Sources : source = toolCalls[c].record.source
  BY <1>1, CallIs
<1>3. PICK k \in Nat : k = toolCalls[c].suffix
  BY <1>1, CallIs
<1>4. PICK s \in Stems : s = StemsFor(source)[k] /\ s = StemOf(toolCalls[c]) /\ k \in 1 .. Len(StemsFor(source))
  BY <1>1, <1>2, <1>3, StoreAssumption DEF CallInv, StemOf
<1>5. /\ toolCalls[c].record.n = adds
      /\ \A i \in 1 .. k - 1 : Passed(source, i)
      /\ \A t \in Stems : identity[t] # source
      /\ identity[s] = NoFile
  BY <1>1, <1>2, <1>3, <1>4 DEF CallInv
<1>6. /\ UNCHANGED << records, acked, adds, faults >> /\ ResumeCall(c, "name")
      /\ identity' = [identity EXCEPT ![s] = Empty]
      /\ identity \in [Stems -> Sources \union {NoFile, Empty}]
      /\ faults \in Nat
  BY <1>4 DEF OpenSidecar, StoreTypes
<1>7. NoFile \notin Sources /\ Empty \notin Sources /\ Empty # NoFile
  BY StoreAssumption DEF NoFile, Empty
<1>8. /\ identity' \in [Stems -> Sources \union {NoFile, Empty}] /\ identity'[s] = Empty
      /\ \A t \in Stems : t # s => identity'[t] = identity[t]
  BY <1>6
<1>9. Grows
  BY <1>5, <1>6, <1>7, <1>8 DEF Grows
<1>10. /\ toolCalls' \in [Callers -> StoreCall \union {Idle}]
       /\ toolCalls'[c] # Idle /\ toolCalls'[c].at = "name"
       /\ toolCalls'[c].record = toolCalls[c].record
       /\ toolCalls'[c].suffix = k
  BY <1>1, <1>3, <1>6, Resumed
<1>11. StoreTypes'
  BY <1>6, <1>8, <1>10 DEF StoreTypes
<1>12. CallInv(c)'
  <2>2. \A i \in 1 .. k - 1 : i \in 1 .. Len(StemsFor(source))
    BY <1>4, StoreAssumption
  <2>3. \A i \in 1 .. k - 1 : Passed(source, i)'
    BY <1>5, <1>9, <2>2, PassedStays
  <2>4. \A t \in Stems : identity'[t] # source
    BY <1>5, <1>7, <1>8
  <2> QED BY <1>2, <1>4, <1>5, <1>6, <1>8, <1>10, <2>3, <2>4, CallMade
<1>13. SidecarInv'
  <2>1. SUFFICES ASSUME NEW t \in Stems, NEW other \in Sources, identity'[t] = other
        PROVE  /\ \E j \in 1 .. Len(StemsFor(other)) :
                    t = StemsFor(other)[j] /\ \A i \in 1 .. j - 1 : Passed(other, i)'
               /\ \A u \in Stems : identity'[u] = other => u = t
    BY DEF SidecarInv, Passed
  <2>2. identity[t] = other /\ t # s
    BY <1>7, <1>8, <2>1
  <2>3. PICK j \in 1 .. Len(StemsFor(other)) :
          t = StemsFor(other)[j] /\ \A i \in 1 .. j - 1 : Passed(other, i)
    BY <2>2 DEF SidecarInv
  <2>4. \A i \in 1 .. j - 1 : i \in 1 .. Len(StemsFor(other))
    BY StoreAssumption
  <2>5. \A i \in 1 .. j - 1 : Passed(other, i)'
    BY <1>9, <2>3, <2>4, PassedStays
  <2>6. ASSUME NEW u \in Stems, identity'[u] = other PROVE u = t
    BY <1>7, <1>8, <2>2, <2>6 DEF SidecarInv
  <2> QED BY <2>3, <2>5, <2>6
<1>14. NumberInv'
  BY <1>1, <1>6 DEF NumberInv
<1>15. TornInv' /\ Torn' = Torn
  BY <1>6 DEF TornInv, Torn
<1>16. Gone' \subseteq Gone
  <2>1. SUFFICES ASSUME NEW r \in acked, Kept(r) PROVE Kept(r)'
    BY <1>6 DEF Gone
  <2>2. PICK t \in Stems : identity[t] = r.source /\ records[t].there /\ r \in Range(records[t].lines)
    BY <2>1 DEF Kept
  <2>3. r.source \in Sources
    BY LinesAre DEF StoreTypes
  <2>4. t # s
    BY <1>5, <1>7, <2>2, <2>3
  <2> QED BY <1>6, <1>8, <2>2, <2>4 DEF Kept
<1>17. Budget'
  <2>1. IsFiniteSet(Gone) /\ IsFiniteSet(Torn)
    BY FS_Subset, StemsFinite DEF Gone, Torn, StoreTypes
  <2>2. Cardinality(Gone') + Cardinality(Torn') <= faults
    <3> HIDE DEF StoreInv
    <3> QED BY <1>6, <1>15, <1>16, <2>1, BudgetKept DEF Budget, StoreInv
  <2> QED BY <1>6, <2>2 DEF Budget
<1>18. HomeInv'
  <2>1. ASSUME NEW t \in Stems, NEW l \in Range(records[t].lines), l \in Records
        PROVE  identity'[t] = l.source
    <3>1. identity[t] = l.source /\ l.source \in Sources
      BY <2>1, LinesAre DEF HomeInv
    <3>2. t # s
      BY <1>5, <1>7, <3>1
    <3> QED BY <1>8, <3>1, <3>2
  <2> QED BY <1>6, <2>1 DEF HomeInv
<1> QED BY <1>11, <1>12, <1>13, <1>14, <1>15, <1>17, <1>18

LEMMA WriteSteps ==
  ASSUME NEW c, Callers = {c}, StoreInv, WriteSidecar(c)
  PROVE  StoreInv'
<1> USE DEF StoreInv
<1>1. toolCalls[c] # Idle /\ toolCalls[c].at = "name"
  BY AtWork DEF WriteSidecar
<1>2. PICK source \in Sources : source = toolCalls[c].record.source
  BY <1>1, CallIs
<1>3. PICK k \in Nat : k = toolCalls[c].suffix
  BY <1>1, CallIs
<1>4. PICK s \in Stems : s = StemsFor(source)[k] /\ s = StemOf(toolCalls[c]) /\ k \in 1 .. Len(StemsFor(source))
  BY <1>1, <1>2, <1>3, StoreAssumption DEF CallInv, StemOf
<1>5. /\ toolCalls[c].record.n = adds
      /\ \A i \in 1 .. k - 1 : Passed(source, i)
      /\ \A t \in Stems : identity[t] # source
      /\ identity[s] = Empty
  BY <1>1, <1>2, <1>3, <1>4 DEF CallInv
<1>6. /\ UNCHANGED << records, acked, adds, faults >> /\ ResumeCall(c, "append")
      /\ identity' = [identity EXCEPT ![s] = source]
      /\ identity \in [Stems -> Sources \union {NoFile, Empty}]
      /\ faults \in Nat
  BY <1>2, <1>4 DEF WriteSidecar, StoreTypes
<1>7. NoFile \notin Sources /\ Empty \notin Sources /\ Empty # NoFile
  BY StoreAssumption DEF NoFile, Empty
<1>8. /\ identity' \in [Stems -> Sources \union {NoFile, Empty}] /\ identity'[s] = source
      /\ \A t \in Stems : t # s => identity'[t] = identity[t]
  BY <1>6
<1>9. Grows
  BY <1>6, <1>7, <1>8 DEF Grows
<1>10. /\ toolCalls' \in [Callers -> StoreCall \union {Idle}]
       /\ toolCalls'[c] # Idle /\ toolCalls'[c].at = "append"
       /\ toolCalls'[c].record = toolCalls[c].record
       /\ toolCalls'[c].suffix = k
  BY <1>1, <1>3, <1>6, Resumed
<1>11. StoreTypes'
  BY <1>6, <1>8, <1>10 DEF StoreTypes
<1>a. \A i \in 1 .. k - 1 : Passed(source, i)'
  <2>1. \A i \in 1 .. k - 1 : i \in 1 .. Len(StemsFor(source))
    BY <1>4, StoreAssumption
  <2> QED BY <1>5, <1>9, <2>1, PassedStays
<1>12. CallInv(c)'
  BY <1>2, <1>4, <1>5, <1>6, <1>8, <1>10, <1>a, CallMade
<1>13. SidecarInv'
  <2>1. SUFFICES ASSUME NEW t \in Stems, NEW other \in Sources, identity'[t] = other
        PROVE  /\ \E j \in 1 .. Len(StemsFor(other)) :
                    t = StemsFor(other)[j] /\ \A i \in 1 .. j - 1 : Passed(other, i)'
               /\ \A u \in Stems : identity'[u] = other => u = t
    BY DEF SidecarInv, Passed
  <2>2. CASE t = s
    <3>1. other = source
      BY <1>8, <2>1, <2>2
    <3>2. ASSUME NEW u \in Stems, identity'[u] = other PROVE u = t
      BY <1>5, <1>8, <2>2, <3>1, <3>2
    <3> QED BY <1>4, <1>a, <2>2, <3>1, <3>2
  <2>3. CASE t # s
    <3>1. identity[t] = other /\ other # source
      BY <1>5, <1>8, <2>1, <2>3
    <3>2. PICK j \in 1 .. Len(StemsFor(other)) :
            t = StemsFor(other)[j] /\ \A i \in 1 .. j - 1 : Passed(other, i)
      BY <3>1 DEF SidecarInv
    <3>3. \A i \in 1 .. j - 1 : i \in 1 .. Len(StemsFor(other))
      BY StoreAssumption
    <3>4. \A i \in 1 .. j - 1 : Passed(other, i)'
      BY <1>9, <3>2, <3>3, PassedStays
    <3>5. ASSUME NEW u \in Stems, identity'[u] = other PROVE u = t
      BY <1>8, <3>1, <3>5 DEF SidecarInv
    <3> QED BY <3>2, <3>4, <3>5
  <2> QED BY <2>2, <2>3
<1>14. NumberInv'
  BY <1>1, <1>6 DEF NumberInv
<1>15. TornInv' /\ Torn' = Torn
  BY <1>6 DEF TornInv, Torn
<1>16. Gone' \subseteq Gone
  <2>1. SUFFICES ASSUME NEW r \in acked, Kept(r) PROVE Kept(r)'
    BY <1>6 DEF Gone
  <2>2. PICK t \in Stems : identity[t] = r.source /\ records[t].there /\ r \in Range(records[t].lines)
    BY <2>1 DEF Kept
  <2>3. r.source \in Sources
    BY LinesAre DEF StoreTypes
  <2>4. t # s
    BY <1>5, <1>7, <2>2, <2>3
  <2> QED BY <1>6, <1>8, <2>2, <2>4 DEF Kept
<1>17. Budget'
  <2>1. IsFiniteSet(Gone) /\ IsFiniteSet(Torn)
    BY FS_Subset, StemsFinite DEF Gone, Torn, StoreTypes
  <2>2. Cardinality(Gone') + Cardinality(Torn') <= faults
    <3> HIDE DEF StoreInv
    <3> QED BY <1>6, <1>15, <1>16, <2>1, BudgetKept DEF Budget, StoreInv
  <2> QED BY <1>6, <2>2 DEF Budget
<1>18. HomeInv'
  <2>1. ASSUME NEW t \in Stems, NEW l \in Range(records[t].lines), l \in Records
        PROVE  identity'[t] = l.source
    <3>1. identity[t] = l.source /\ l.source \in Sources
      BY <2>1, LinesAre DEF HomeInv
    <3>2. t # s
      BY <1>5, <1>7, <3>1
    <3> QED BY <1>8, <3>1, <3>2
  <2> QED BY <1>6, <2>1 DEF HomeInv
<1> QED BY <1>11, <1>12, <1>13, <1>14, <1>15, <1>17, <1>18

LEMMA LinesInFile ==
  ASSUME StoreTypes, NEW s \in Stems
  PROVE  /\ records[s] \in File /\ records[s].lines \in Seq(Line) /\ records[s].torn \in BOOLEAN
         /\ \A l \in Range(records[s].lines) : l \in Line /\ l.n \in Int
         /\ records[s].lines # <<>> => Last(records[s].lines) \in Range(records[s].lines)
<1>1. records[s] \in File
  BY DEF StoreTypes
<1>2. records[s].lines \in Seq(Line) /\ records[s].torn \in BOOLEAN
  BY <1>1 DEF File
<1>3. \A l \in Range(records[s].lines) : l \in Line
  BY <1>2 DEF Range
<1>4. ASSUME records[s].lines # <<>> PROVE Last(records[s].lines) \in Range(records[s].lines)
  <2>1. Len(records[s].lines) \in DOMAIN records[s].lines
    BY <1>2, <1>4
  <2> QED BY <2>1 DEF Last, Range
<1> QED BY <1>1, <1>2, <1>3, <1>4, LinesAre

\* A write to the file s: what it keeps of the records, of the sidecars' places
\* and of the calls' numbers, whatever becomes of the last line.
LEMMA FileWritten ==
  ASSUME NEW c, Callers = {c}, StoreInv, toolCalls[c] # Idle,
         NEW s \in Stems, NEW file \in File, NEW line \in Records, line.n = adds, identity[s] = line.source,
         records' = [records EXCEPT ![s] = file], file.there,
         toolCalls' = [toolCalls EXCEPT ![c] = Idle], UNCHANGED << identity, adds >>,
         acked' \in {acked, acked \union {line}}, faults' \in Nat,
         \A r \in Range(records[s].lines) :
           r \in Range(file.lines) \/ (records[s].torn /\ r = Last(records[s].lines)),
         Range(file.lines) \subseteq Range(records[s].lines) \union {line, Corrupt},
         file.torn => file.lines # <<>> /\ Last(file.lines) \notin acked'
  PROVE  /\ StoreTypes' /\ SidecarInv' /\ NumberInv' /\ TornInv' /\ HomeInv'
         /\ \A d \in Callers : CallInv(d)'
         /\ \A r \in acked : Kept(r) => Kept(r)'
<1> USE DEF StoreInv
<1>1. /\ records \in [Stems -> File] /\ toolCalls \in [Callers -> StoreCall \union {Idle}]
      /\ acked \subseteq Records /\ IsFiniteSet(acked) /\ adds \in Nat
      /\ identity \in [Stems -> Sources \union {NoFile, Empty}]
  BY DEF StoreTypes
<1>2. /\ records' \in [Stems -> File] /\ records'[s] = file
      /\ \A t \in Stems : t # s => records'[t] = records[t]
  BY <1>1
<1>3. toolCalls' \in [Callers -> StoreCall \union {Idle}] /\ toolCalls'[c] = Idle
  BY <1>1
<1>4. acked' \subseteq Records /\ IsFiniteSet(acked')
  BY <1>1, FS_AddElement
<1>5. StoreTypes'
  BY <1>1, <1>2, <1>3, <1>4 DEF StoreTypes
<1>6. Grows
  BY <1>2 DEF Grows
<1>7. SidecarInv'
  <2>1. SUFFICES ASSUME NEW t \in Stems, NEW source \in Sources, identity[t] = source
        PROVE  /\ \E j \in 1 .. Len(StemsFor(source)) :
                    t = StemsFor(source)[j] /\ \A i \in 1 .. j - 1 : Passed(source, i)'
               /\ \A u \in Stems : identity[u] = source => u = t
    BY DEF SidecarInv, Passed
  <2>2. PICK j \in 1 .. Len(StemsFor(source)) :
          t = StemsFor(source)[j] /\ \A i \in 1 .. j - 1 : Passed(source, i)
    BY <2>1 DEF SidecarInv
  <2>3. \A i \in 1 .. j - 1 : i \in 1 .. Len(StemsFor(source))
    BY StoreAssumption
  <2>4. \A i \in 1 .. j - 1 : Passed(source, i)'
    BY <1>6, <2>2, <2>3, PassedStays
  <2> QED BY <2>1, <2>2, <2>4 DEF SidecarInv
<1>8. NumberInv'
  <2>1. \A r \in acked' : r.n <= adds
    BY <1>1 DEF NumberInv
  <2>2. ASSUME NEW t \in Stems, NEW r \in Range(records'[t].lines) PROVE r.n <= adds
    <3>1. CASE t # s
      BY <1>2, <2>2, <3>1 DEF NumberInv
    <3>2. CASE t = s
      <4>1. \/ r \in Range(records[s].lines) \/ r = line \/ r = Corrupt
        BY <1>2, <2>2, <3>2
      <4>2. Corrupt.n <= adds
        BY <1>1 DEF Corrupt
      <4> QED BY <1>1, <4>1, <4>2 DEF NumberInv
    <3> QED BY <3>1, <3>2
  <2> QED BY <1>3, <2>1, <2>2 DEF NumberInv
<1>9. TornInv'
  <2>1. ASSUME NEW t \in Stems, records'[t].torn
        PROVE  records'[t].lines # <<>> /\ Last(records'[t].lines) \notin acked'
    <3>1. CASE t = s
      BY <1>2, <2>1, <3>1
    <3>2. CASE t # s
      <4>1. records'[t] = records[t] /\ records[t].lines # <<>> /\ Last(records[t].lines) \notin acked
        BY <1>2, <2>1, <3>2 DEF TornInv
      <4>2. Last(records[t].lines) \in Range(records[t].lines)
        BY <4>1, LinesInFile
      <4>3. Last(records[t].lines).n < adds
        BY <4>2 DEF NumberInv
      <4>4. Last(records[t].lines) # line
        BY <1>1, <4>3
      <4> QED BY <4>1, <4>4
    <3> QED BY <3>1, <3>2
  <2> QED BY <2>1 DEF TornInv
<1>10. \A d \in Callers : CallInv(d)'
  BY <1>3 DEF CallInv
<1>11. ASSUME NEW r \in acked, Kept(r) PROVE Kept(r)'
  <2>1. PICK t \in Stems : identity[t] = r.source /\ records[t].there /\ r \in Range(records[t].lines)
    BY <1>11 DEF Kept
  <2>2. r \in Range(records'[t].lines) /\ records'[t].there
    <3>1. CASE t # s
      BY <1>2, <2>1, <3>1
    <3>2. CASE t = s
      <4>1. ~ (records[s].torn /\ r = Last(records[s].lines))
        BY <1>11 DEF TornInv
      <4> QED BY <1>2, <2>1, <3>2, <4>1
    <3> QED BY <3>1, <3>2
  <2> QED BY <2>1, <2>2 DEF Kept
<1>12. HomeInv'
  <2>1. ASSUME NEW t \in Stems, NEW l \in Range(records'[t].lines), l \in Records
        PROVE  identity[t] = l.source
    <3>1. CASE t # s
      BY <1>2, <2>1, <3>1 DEF HomeInv
    <3>2. CASE t = s
      <4>1. l \in Range(records[s].lines) \/ l = line
        BY <1>2, <2>1, <3>2, LinesAre
      <4> QED BY <2>1, <3>2, <4>1 DEF HomeInv
    <3> QED BY <3>1, <3>2
  <2> QED BY <2>1 DEF HomeInv
<1> QED BY <1>5, <1>7, <1>8, <1>9, <1>10, <1>11, <1>12

LEMMA AppendSteps ==
  ASSUME NEW c, Callers = {c}, StoreInv, AppendRecord(c)
  PROVE  StoreInv'
<1> USE DEF StoreInv
<1>1. toolCalls[c] # Idle /\ toolCalls[c].at = "append"
  BY AtWork DEF AppendRecord
<1>2. PICK line \in Records : line = toolCalls[c].record
  BY <1>1, CallIs
<1>3. PICK s \in Stems : s = StemOf(toolCalls[c])
  BY <1>1, CallIs, StoreAssumption DEF CallInv, StemOf
<1>4. line.n = adds /\ identity[s] = line.source
  BY <1>1, <1>2, <1>3 DEF CallInv
<1> DEFINE file == Written(records[s], line)
<1>5. /\ records' = [records EXCEPT ![s] = file] /\ acked' = acked \union {line}
      /\ toolCalls' = [toolCalls EXCEPT ![c] = Idle] /\ UNCHANGED << identity, adds, faults >>
      /\ faults \in Nat
  BY <1>2, <1>3 DEF AppendRecord, StoreTypes
<1>6. records[s] \in File /\ records[s].torn \in BOOLEAN /\ (records[s].torn => records[s].lines # <<>>)
  BY LinesInFile DEF TornInv
<1>7. line \in Line
  BY DEF Line
<1>8. /\ file \in File /\ file.there /\ ~ file.torn
      /\ \A r \in Range(records[s].lines) :
           r \in Range(file.lines) \/ (records[s].torn /\ r = Last(records[s].lines))
      /\ Range(file.lines) \subseteq Range(records[s].lines) \union {line, Corrupt}
      /\ ~ records[s].torn => line \in Range(file.lines)
  BY <1>6, <1>7, WrittenIs
<1> HIDE DEF file
<1>9. /\ StoreTypes' /\ SidecarInv' /\ NumberInv' /\ TornInv' /\ HomeInv'
      /\ \A d \in Callers : CallInv(d)'
      /\ \A r \in acked : Kept(r) => Kept(r)'
  <2> HIDE DEF StoreInv
  <2> QED BY <1>1, <1>4, <1>5, <1>8, FileWritten
<1>10. /\ records'[s] = file /\ \A t \in Stems : t # s => records'[t] = records[t]
  BY <1>5 DEF StoreTypes
<1>11. Gone' \subseteq Gone \union {line}
  BY <1>5, <1>9 DEF Gone
<1>12. Torn' \subseteq Torn \ {s}
  BY <1>8, <1>10 DEF Torn
<1>15. Budget'
  <2>1. IsFiniteSet(Gone) /\ IsFiniteSet(Torn)
    BY FS_Subset, StemsFinite DEF Gone, Torn, StoreTypes
  <2>2. \/ Gone' \subseteq Gone /\ Torn' \subseteq Torn
        \/ Gone' \subseteq Gone \union {line} /\ Torn' \subseteq Torn \ {s} /\ s \in Torn
    <3>1. CASE records[s].torn
      BY <1>11, <1>12, <3>1 DEF Torn
    <3>2. CASE ~ records[s].torn
      <4>1. Kept(line)'
        BY <1>4, <1>5, <1>8, <1>10, <3>2 DEF Kept
      <4>2. Gone' \subseteq Gone
        BY <1>11, <4>1 DEF Gone
      <4> QED BY <1>12, <4>2
    <3> QED BY <3>1, <3>2
  <2>3. Cardinality(Gone') + Cardinality(Torn') <= faults'
    <3> HIDE DEF StoreInv
    <3> QED BY <1>5, <2>1, <2>2, BudgetKept DEF Budget, StoreInv
  <2> QED BY <2>3 DEF Budget
<1> QED BY <1>9, <1>15

LEMMA FailSteps ==
  ASSUME NEW c, Callers = {c}, StoreInv, WriteFails(c)
  PROVE  StoreInv'
<1> USE DEF StoreInv
<1>1. toolCalls[c] # Idle
  BY AtWork DEF WriteFails
<1>2. /\ toolCalls' = [toolCalls EXCEPT ![c] = Idle] /\ UNCHANGED << identity, acked, adds >>
      /\ faults \in Nat /\ faults' = faults + 1 /\ faults' \in Nat /\ faults <= faults'
      /\ toolCalls \in [Callers -> StoreCall \union {Idle}]
  BY DEF WriteFails, StoreTypes
<1>3. CASE UNCHANGED records
  <2>1. toolCalls' \in [Callers -> StoreCall \union {Idle}] /\ toolCalls'[c] = Idle
    BY <1>2
  <2>2. SidecarInv' /\ TornInv' /\ HomeInv' /\ Budget'
    BY <1>2, <1>3, FilesKept
  <2>3. StoreTypes'
    BY <1>2, <1>3, <2>1 DEF StoreTypes
  <2>4. NumberInv'
    BY <1>2, <1>3, <2>1 DEF NumberInv
  <2>5. \A d \in Callers : CallInv(d)'
    BY <2>1 DEF CallInv
  <2> QED BY <2>2, <2>3, <2>4, <2>5
<1>4. CASE toolCalls[c].at = "append"
           /\ \E file \in PartWritten(records[StemOf(toolCalls[c])], toolCalls[c].record) :
                records' = [records EXCEPT ![StemOf(toolCalls[c])] = file]
  <2>1. PICK line \in Records : line = toolCalls[c].record
    BY <1>1, CallIs
  <2>2. PICK s \in Stems : s = StemOf(toolCalls[c])
    BY <1>1, CallIs, StoreAssumption DEF CallInv, StemOf
  <2>a. identity[s] = line.source
    BY <1>1, <1>4, <2>1, <2>2 DEF CallInv
  <2>3. line.n = adds /\ line \notin acked
    <3>1. line.n = adds /\ adds \in Nat
      BY <1>1, <2>1 DEF CallInv, StoreTypes
    <3>2. \A r \in acked : r.n < adds
      BY <1>1 DEF NumberInv
    <3> QED BY <3>1, <3>2
  <2>4. PICK file \in PartWritten(records[s], line) : records' = [records EXCEPT ![s] = file]
    BY <1>4, <2>1, <2>2
  <2>5. /\ records[s] \in File /\ records[s].lines \in Seq(Line) /\ records[s].torn \in BOOLEAN
        /\ (records[s].torn => records[s].lines # <<>>)
    BY LinesInFile DEF TornInv
  <2>6. line \in Line /\ Corrupt \in Line /\ Corrupt \notin acked
    BY LinesAre DEF Line, StoreTypes
  <2>7. /\ file \in File /\ file.there
        /\ \A r \in Range(records[s].lines) :
             r \in Range(file.lines) \/ (records[s].torn /\ r = Last(records[s].lines))
        /\ Range(file.lines) \subseteq Range(records[s].lines) \union {line, Corrupt}
        /\ file.torn => file.lines # <<>> /\ Last(file.lines) \notin acked
    <3>1. CASE file = [records[s] EXCEPT !.there = TRUE]
      <4>1. file \in File /\ file.there = TRUE /\ file.lines = records[s].lines
            /\ file.torn = records[s].torn
        BY <2>5, <3>1 DEF File
      <4> QED BY <4>1 DEF TornInv
    <3>2. ASSUME NEW l \in {Corrupt, line}, file = [Written(records[s], l) EXCEPT !.torn = TRUE]
          PROVE  /\ file \in File /\ file.there
                 /\ \A r \in Range(records[s].lines) :
                      r \in Range(file.lines) \/ (records[s].torn /\ r = Last(records[s].lines))
                 /\ Range(file.lines) \subseteq Range(records[s].lines) \union {line, Corrupt}
                 /\ file.torn => file.lines # <<>> /\ Last(file.lines) \notin acked
      <4> DEFINE w == Written(records[s], l)
      <4>1. l \in Line /\ l \notin acked
        BY <2>3, <2>6
      <4>2. /\ w \in File /\ w.there /\ w.lines # <<>>
            /\ Last(w.lines) = IF records[s].torn THEN Corrupt ELSE l
            /\ \A r \in Range(records[s].lines) :
                 r \in Range(w.lines) \/ (records[s].torn /\ r = Last(records[s].lines))
            /\ Range(w.lines) \subseteq Range(records[s].lines) \union {l, Corrupt}
        BY <2>5, <4>1, WrittenIs
      <4> HIDE DEF w
      <4>3. file \in File /\ file.there = w.there /\ file.lines = w.lines /\ file.torn = TRUE
        BY <3>2, <4>2 DEF File, w
      <4> QED BY <2>6, <4>1, <4>2, <4>3
    <3> QED BY <2>4, <3>1, <3>2 DEF PartWritten
  <2>8. /\ StoreTypes' /\ SidecarInv' /\ NumberInv' /\ TornInv' /\ HomeInv'
        /\ \A d \in Callers : CallInv(d)'
        /\ \A r \in acked : Kept(r) => Kept(r)'
    <3> HIDE DEF StoreInv
    <3> QED BY <1>1, <1>2, <2>a, <2>3, <2>4, <2>7, FileWritten
  <2>9. Gone' \subseteq Gone
    BY <1>2, <2>8 DEF Gone
  <2>10. Torn' \subseteq Torn \union {s}
    <3>1. \A t \in Stems : t # s => records'[t] = records[t]
      BY <2>4 DEF StoreTypes
    <3> QED BY <3>1 DEF Torn
  <2>11. Budget'
    <3>1. IsFiniteSet(Gone) /\ IsFiniteSet(Torn)
      BY FS_Subset, StemsFinite DEF Gone, Torn, StoreTypes
    <3>2. Cardinality(Gone') + Cardinality(Torn') <= faults'
      <4> HIDE DEF StoreInv
      <4> QED BY <1>2, <2>9, <2>10, <3>1, BudgetKept DEF Budget, StoreInv
    <3> QED BY <3>2 DEF Budget
  <2> QED BY <2>8, <2>11
<1> QED BY <1>3, <1>4 DEF WriteFails

LEMMA KillSteps ==
  ASSUME StoreInv, KillServer
  PROVE  StoreInv'
<1> USE DEF StoreInv
<1>1. /\ UNCHANGED << identity, records, acked, adds >> /\ toolCalls' = [d \in Callers |-> Idle]
      /\ faults \in Nat /\ faults' = faults + 1
  BY DEF KillServer, StoreTypes
<1>2. SidecarInv' /\ TornInv' /\ HomeInv' /\ Budget'
  BY <1>1, FilesKept
<1>3. StoreTypes'
  BY <1>1 DEF StoreTypes
<1>4. NumberInv'
  BY <1>1 DEF NumberInv
<1>5. \A d \in Callers : CallInv(d)'
  BY <1>1 DEF CallInv
<1> QED BY <1>2, <1>3, <1>4, <1>5

LEMMA StoreSteps ==
  ASSUME NEW c, Callers = {c}, StoreInv, [StoreNext]_storeVars
  PROVE  StoreInv'
<1>1. CASE UNCHANGED storeVars
  <2>1. SidecarInv' /\ TornInv' /\ HomeInv' /\ Budget'
    BY <1>1, FilesKept DEF StoreInv, StoreTypes, storeVars
  <2>2. StoreTypes' /\ NumberInv'
    BY <1>1 DEF StoreInv, StoreTypes, NumberInv, storeVars
  <2>3. ASSUME NEW d \in Callers PROVE CallInv(d)'
    <3>1. CallInv(d) /\ UNCHANGED << identity, records, toolCalls, adds >>
      BY <1>1 DEF StoreInv, storeVars
    <3>2. ASSUME NEW source, NEW i PROVE Passed(source, i)' = Passed(source, i)
      BY <3>1 DEF Passed
    <3> QED BY <3>1, <3>2 DEF CallInv, StemOf
  <2> QED BY <2>1, <2>2, <2>3 DEF StoreInv
<1> QED BY <1>1, KillSteps, AddSteps, ResolveSteps, OpenSteps, WriteSteps, AppendSteps, FailSteps
        DEF StoreNext

LEMMA StoreStarts == StoreInit => StoreInv
<1> SUFFICES ASSUME StoreInit PROVE StoreInv
  OBVIOUS
<1>1. PICK old \in SUBSET Legacy :
        records = [s \in Stems |->
          IF s \in old THEN [there |-> TRUE, lines |-> <<Old>>, torn |-> FALSE] ELSE Absent0]
  BY DEF StoreInit
<1>2. /\ identity = [s \in Stems |-> NoFile] /\ toolCalls = [d \in Callers |-> Idle]
      /\ acked = {} /\ adds = 0 /\ faults = 0
  BY DEF StoreInit
<1>3. NoFile \notin Sources /\ Old.n = -1
  BY StoreAssumption DEF Old
<1>4. Absent0 \in File /\ [there |-> TRUE, lines |-> <<Old>>, torn |-> FALSE] \in File
  <2>1. <<Old>> \in Seq(Line) /\ <<>> \in Seq(Line)
    BY DEF Line
  <2> QED BY <2>1 DEF File, Absent0
<1>5. records \in [Stems -> File]
  BY <1>1, <1>4
<1>6. \A s \in Stems : ~ records[s].torn
  BY <1>1 DEF Absent0
<1>7. ASSUME NEW s \in Stems, NEW l \in Range(records[s].lines) PROVE l.n <= 0
  <2>1. records[s].lines = <<Old>> \/ records[s].lines = <<>>
    BY <1>1 DEF Absent0
  <2>2. l = Old
    BY <1>7, <2>1 DEF Range
  <2> QED BY <1>3, <2>2
<1>8. Gone = {} /\ Torn = {}
  BY <1>2, <1>6 DEF Gone, Torn
<1>9. StoreTypes /\ Budget
  BY <1>2, <1>5, <1>8, FS_EmptySet DEF StoreTypes, Budget
<1>10. SidecarInv /\ NumberInv /\ TornInv /\ \A c \in Callers : CallInv(c)
  BY <1>2, <1>3, <1>6, <1>7 DEF SidecarInv, NumberInv, TornInv, CallInv
<1>11. HomeInv
  <2>1. ASSUME NEW s \in Stems, NEW l \in Range(records[s].lines) PROVE l \notin Records
    <3>1. records[s].lines = <<Old>> \/ records[s].lines = <<>>
      BY <1>1 DEF Absent0
    <3>2. l = Old
      BY <2>1, <3>1 DEF Range
    <3> QED BY <3>2, LinesAre
  <2> QED BY <2>1 DEF HomeInv
<1> QED BY <1>9, <1>10, <1>11 DEF StoreInv

\* The file a source's record is kept in is the one a query about it reads, when
\* no other name differs from it in white space only.
LEMMA HomeFound ==
  ASSUME StoreInv, NEW source \in Sources, ~ HasTwin(source),
         NEW s \in Stems, identity[s] = source, records[s].there
  PROVE  ResolveExisting(source) = s
<1>1. /\ \A t \in Stems : identity[t] \in Sources \union {NoFile, Empty}
      /\ NoFile \notin Sources /\ Empty \notin Sources
  BY StoreAssumption DEF StoreInv, StoreTypes
<1>2. \A t \in Stems : identity[t] = source => t = s
  BY DEF StoreInv, SidecarInv
<1>3. ASSUME NEW t \in Stems, identity[t] # NoFile, SameStripped(identity[t], source)
      PROVE  t = s
  <2>1. identity[t] \in Sources /\ Strip[identity[t]] = Strip[source]
    BY <1>1, <1>3 DEF SameStripped
  <2>2. identity[t] = source
    BY <2>1 DEF HasTwin
  <2> QED BY <1>2, <2>2
<1>4. SameStripped(source, source) /\ source # NoFile
  BY <1>1 DEF SameStripped
<1> DEFINE canonical == StemsFor(source)[1]
<1>5. canonical \in Stems
  BY StoreAssumption
<1>6. identity[canonical] = NoFile /\ records[canonical].there => source # Safe[source]
  <2>1. SUFFICES ASSUME identity[canonical] = NoFile, records[canonical].there, source = Safe[source]
        PROVE  FALSE
    OBVIOUS
  <2>2. PICK j \in 1 .. Len(StemsFor(source)) :
          s = StemsFor(source)[j] /\ \A i \in 1 .. j - 1 : Passed(source, i)
    BY DEF StoreInv, SidecarInv
  <2>3. j # 1
    BY <1>4, <2>1, <2>2
  <2>4. 1 \in 1 .. j - 1
    BY <2>3, StoreAssumption
  <2>5. Passed(source, 1)
    BY <2>2, <2>4
  <2> QED BY <2>1, <2>5 DEF Passed
<1> DEFINE fast == /\ records[canonical].there
                   /\ IF identity[canonical] # NoFile
                        THEN SameStripped(identity[canonical], source)
                        ELSE source = Safe[source]
           found == {i \in 1 .. Len(ByName) : ByName[i] \in NamedStems(source)}
<1>7. fast => canonical = s
  BY <1>3, <1>5, <1>6
<1>8. PICK i \in 1 .. Len(ByName) : ByName[i] = s
  BY StoreAssumption DEF Stems, Range
<1>9. NamedStems(source) = {s}
  BY <1>3, <1>4 DEF NamedStems
<1>10. found = {i}
  <2>1. \A j \in 1 .. Len(ByName) : ByName[j] = ByName[i] => j = i
    BY StoreAssumption
  <2> QED BY <1>8, <1>9, <2>1
<1>11. Min(found) = i /\ found # {}
  <2>1. i \in Int
    OBVIOUS
  <2> QED BY <1>10, <2>1 DEF Min
<1> QED BY <1>7, <1>8, <1>11 DEF ResolveExisting

LEMMA LossesCounted == ASSUME StoreInv PROVE LossesNeedFaults
<1>1. ASSUME NEW r \in Lost PROVE r \in Gone
  <2>1. r \in acked /\ ~ HasTwin(r.source) /\ r \notin Query(r.source, r.ts, r.ts)
    BY <1>1 DEF Lost
  <2>2. SUFFICES ASSUME Kept(r) PROVE FALSE
    BY <2>1 DEF Gone
  <2>3. PICK s \in Stems : identity[s] = r.source /\ records[s].there /\ r \in Range(records[s].lines)
    BY <2>2 DEF Kept
  <2>4. r \in Records /\ r.source \in Sources /\ r.ts \in Int /\ Corrupt \notin Records
    BY <2>1, LinesAre DEF StoreInv, StoreTypes
  <2>5. ResolveExisting(r.source) = s
    BY <2>1, <2>3, <2>4, HomeFound
  <2>6. r \in Range(LinesOf(r.source))
    BY <2>3, <2>5, StoreAssumption DEF LinesOf
  <2> QED BY <2>1, <2>4, <2>6 DEF Query
<1>2. IsFiniteSet(Gone) /\ IsFiniteSet(Torn)
  BY FS_Subset, StemsFinite DEF Gone, Torn, StoreInv, StoreTypes
<1>3. Cardinality(Lost) <= Cardinality(Gone) /\ IsFiniteSet(Lost)
  BY <1>1, <1>2, FS_Subset
<1>4. Cardinality(Lost) \in Nat /\ Cardinality(Gone) \in Nat /\ Cardinality(Torn) \in Nat /\ faults \in Nat
  BY <1>2, <1>3, FS_CardinalityType DEF StoreInv, StoreTypes
<1> QED BY <1>3, <1>4 DEF LossesNeedFaults, StoreInv, Budget

\* While no two calls run at once, every record that was acknowledged is found by a
\* query about its source and its moment, as long as no other name differs from the
\* source in white space only; each kill and each failed write may cost one.
THEOREM AcknowledgedIsFound ==
  ASSUME NEW c, Callers = {c}
  PROVE  StoreSpec => []LossesNeedFaults
<1>1. StoreInit => StoreInv
  BY StoreStarts
<1>2. StoreInv /\ [StoreNext]_storeVars => StoreInv'
  BY StoreSteps
<1>3. StoreInv => LossesNeedFaults
  BY LossesCounted
<1> QED BY <1>1, <1>2, <1>3, PTL DEF StoreSpec

LEMMA MinIn ==
  ASSUME NEW n \in Nat, NEW S \in SUBSET (1 .. n), S # {}
  PROVE  Min(S) \in S
<1>1. \E x \in S : \A y \in S : x <= y
  <2>1. S \subseteq Nat
    OBVIOUS
  <2> QED BY <2>1, LeastExists
<1> QED BY <1>1 DEF Min

LEMMA ResolvesToStem ==
  ASSUME NEW source \in Sources
  PROVE  ResolveExisting(source) \in Stems \union {NoFile}
<1> DEFINE found == {i \in 1 .. Len(ByName) : ByName[i] \in NamedStems(source)}
<1>1. Len(ByName) \in Nat /\ StemsFor(source)[1] \in Stems
  BY StoreAssumption
<1>2. found # {} => ByName[Min(found)] \in Stems
  BY <1>1, MinIn DEF NamedStems
<1> QED BY <1>1, <1>2 DEF ResolveExisting

\* A query reads the file of a sidecar with the source's name, white space apart, or
\* a file from before the sidecars.
LEMMA ReadsOwn ==
  ASSUME StoreInv, NEW source \in Sources, NEW r \in Range(LinesOf(source)), r \in Records
  PROVE  Strip[r.source] = Strip[source]
<1> DEFINE s == ResolveExisting(source)
           found == {i \in 1 .. Len(ByName) : ByName[i] \in NamedStems(source)}
<1>1. s # NoFile /\ r \in Range(records[s].lines)
  BY DEF LinesOf, Range
<1>2. Len(ByName) \in Nat /\ StemsFor(source)[1] \in Stems
  BY StoreAssumption
<1>3. \/ s = StemsFor(source)[1] /\ (identity[s] # NoFile => SameStripped(identity[s], source))
      \/ \E i \in found : s = ByName[i]
  <2>1. CASE s = StemsFor(source)[1] /\ (identity[s] # NoFile => SameStripped(identity[s], source))
    BY <2>1
  <2>2. CASE found # {} /\ s = ByName[Min(found)]
    <3>1. Min(found) \in found
      BY <1>2, <2>2, MinIn
    <3> QED BY <2>2, <3>1
  <2> QED BY <1>1, <2>1, <2>2 DEF ResolveExisting
<1>4. s \in Stems /\ (identity[s] # NoFile => SameStripped(identity[s], source))
  BY <1>2, <1>3 DEF NamedStems
<1> HIDE DEF s
<1>5. identity[s] = r.source /\ r.source \in Sources
  BY <1>1, <1>4, LinesAre DEF StoreInv, HomeInv
<1> QED BY <1>4, <1>5, StoreAssumption DEF SameStripped

\* While no two calls run at once, no source is answered with a record of another
\* whose name differs in more than white space: names that share a file name, and
\* names that are another's file name with a suffix, have files of their own.
THEOREM AnswersOwnRecords ==
  ASSUME NEW c, Callers = {c}
  PROVE  StoreSpec => []OwnRecordsOnly
<1>1. StoreInit => StoreInv
  BY StoreStarts
<1>2. StoreInv /\ [StoreNext]_storeVars => StoreInv'
  BY StoreSteps
<1>3. ASSUME StoreInv PROVE OwnRecordsOnly
  <2>1. SUFFICES ASSUME NEW source \in Sources, NEW r \in Everything(source), r # Old
        PROVE  Strip[r.source] = Strip[source]
    BY DEF OwnRecordsOnly
  <2>2. r \in Range(LinesOf(source)) /\ r # Corrupt
    BY DEF Everything, Query
  <2>3. r \in Records
    <3>1. ResolveExisting(source) \in Stems \union {NoFile}
      BY <1>3, ResolvesToStem
    <3>2. LinesOf(source) \in Seq(Line)
      BY <1>3, <3>1, LinesInFile DEF LinesOf, StoreInv
    <3>3. r \in Line
      BY <2>2, <3>2 DEF Range
    <3> QED BY <2>1, <2>2, <3>3 DEF Line
  <2> QED BY <1>3, <2>2, <2>3, ReadsOwn
<1> QED BY <1>1, <1>2, <1>3, PTL DEF StoreSpec

-----------------------------------------------------------------------------
(* The statistics, whoever writes, and however many calls run at once.     *)

\* The files are well formed, and a call writes to a stem of its source.
FilesInv ==
  /\ StoreTypes
  /\ \A s \in Stems : records[s].torn => records[s].lines # <<>>
  /\ \A c \in Callers : toolCalls[c] # Idle =>
       toolCalls[c].suffix \in 1 .. Len(StemsFor(toolCalls[c].record.source))

LEMMA FilesStart == StoreInit => FilesInv
<1>1. /\ [there |-> TRUE, lines |-> << Old >>, torn |-> FALSE] \in File
      /\ Absent0 \in File /\ ~ Absent0.torn
  BY DEF File, Line, Absent0
<1>2. IsFiniteSet({})
  BY FS_EmptySet
<1> QED BY <1>1, <1>2 DEF StoreInit, FilesInv, StoreTypes

\* Where the call at work writes, and what.
LEMMA CallWrites ==
  ASSUME FilesInv, NEW c \in Callers, toolCalls[c] # Idle
  PROVE  /\ StemOf(toolCalls[c]) \in Stems
         /\ records[StemOf(toolCalls[c])] \in File
         /\ \A l \in Line : LET w == Written(records[StemOf(toolCalls[c])], l)
                            IN w \in File /\ w.lines # <<>>
<1>1. /\ toolCalls[c].record.source \in Sources
      /\ toolCalls[c].suffix \in 1 .. Len(StemsFor(toolCalls[c].record.source))
  BY CallIs DEF FilesInv
<1>2. StemOf(toolCalls[c]) \in Stems
  BY <1>1, StoreAssumption DEF StemOf
<1> DEFINE s == StemOf(toolCalls[c])
<1>3. records[s] \in File /\ (records[s].torn => records[s].lines # <<>>)
  BY <1>2 DEF FilesInv, StoreTypes
<1> HIDE DEF s
<1>4. \A l \in Line : Written(records[s], l) \in File /\ Written(records[s], l).lines # <<>>
  BY <1>3, WrittenIs
<1> QED BY <1>2, <1>3, <1>4 DEF s

\* A step that leaves the files to be, or writes one of them.
LEMMA FilesWritten ==
  ASSUME FilesInv, NEW c \in Callers, NEW s \in Stems, NEW file \in File,
         file.torn => file.lines # <<>>,
         records' = [records EXCEPT ![s] = file], toolCalls' = [toolCalls EXCEPT ![c] = Idle],
         UNCHANGED << identity, adds >>, acked' \subseteq Records, IsFiniteSet(acked'), faults' \in Nat
  PROVE  FilesInv'
<1>1. /\ records \in [Stems -> File] /\ toolCalls \in [Callers -> StoreCall \union {Idle}]
      /\ identity \in [Stems -> Sources \union {NoFile, Empty}] /\ adds \in Nat
  BY DEF FilesInv, StoreTypes
<1>2. /\ records' \in [Stems -> File]
      /\ \A t \in Stems : records'[t] = IF t = s THEN file ELSE records[t]
  BY <1>1
<1>3. /\ toolCalls' \in [Callers -> StoreCall \union {Idle}]
      /\ \A d \in Callers : toolCalls'[d] = IF d = c THEN Idle ELSE toolCalls[d]
  BY <1>1
<1>4. StoreTypes'
  BY <1>1, <1>2, <1>3 DEF StoreTypes
<1> QED BY <1>2, <1>3, <1>4 DEF FilesInv

LEMMA FilesSteps ==
  ASSUME FilesInv, [StoreNext]_storeVars
  PROVE  FilesInv'
<1>1. /\ identity \in [Stems -> Sources \union {NoFile, Empty}]
      /\ records \in [Stems -> File] /\ toolCalls \in [Callers -> StoreCall \union {Idle}]
      /\ acked \subseteq Records /\ IsFiniteSet(acked) /\ adds \in Nat /\ faults \in Nat
      /\ StoreTypes
  BY DEF FilesInv, StoreTypes
<1>2. CASE UNCHANGED storeVars
  BY <1>1, <1>2 DEF FilesInv, StoreTypes, storeVars
<1>3. CASE KillServer
  BY <1>1, <1>3 DEF KillServer, FilesInv, StoreTypes
<1>4. ASSUME NEW c \in Callers, AddTranscript(c) PROVE FilesInv'
  <2>1. PICK source \in Sources, ts \in Timestamps :
          toolCalls' = [toolCalls EXCEPT ![c] =
            CallOf([n |-> adds + 1, source |-> source, ts |-> ts], "resolve", 1)]
    BY <1>4 DEF AddTranscript
  <2> DEFINE r == [n |-> adds + 1, source |-> source, ts |-> ts]
             call == [at |-> "resolve", record |-> r, suffix |-> 1]
  <2>2. adds + 1 \in 1 .. MaxAdds /\ adds' = adds + 1 /\ UNCHANGED << identity, records, acked, faults >>
    BY <1>1, <1>4, StoreAssumption DEF AddTranscript
  <2>3. r \in Records /\ call \in StoreCall /\ call.suffix = 1 /\ call.record.source = source
    BY <2>2 DEF Records, StoreCall
  <2>4. 1 \in 1 .. Len(StemsFor(source))
    BY StoreAssumption
  <2>5. toolCalls' = [toolCalls EXCEPT ![c] = call]
    BY <2>1 DEF CallOf
  <2> HIDE DEF call
  <2>6. /\ toolCalls' \in [Callers -> StoreCall \union {Idle}]
        /\ \A d \in Callers : toolCalls'[d] = IF d = c THEN call ELSE toolCalls[d]
    BY <1>1, <2>3, <2>5
  <2>7. StoreTypes'
    BY <1>1, <2>2, <2>6 DEF StoreTypes
  <2> QED BY <2>2, <2>3, <2>4, <2>6, <2>7 DEF FilesInv
<1>5. ASSUME NEW c \in Callers, NEW at \in {"resolve", "sidecar", "name", "append"}, toolCalls[c] # Idle,
             ResumeCall(c, at), UNCHANGED << records, acked, adds, faults >>,
             identity' \in [Stems -> Sources \union {NoFile, Empty}]
      PROVE  FilesInv'
  <2>1. /\ toolCalls' \in [Callers -> StoreCall \union {Idle}]
        /\ toolCalls'[c].record = toolCalls[c].record /\ toolCalls'[c].suffix = toolCalls[c].suffix
    BY <1>1, <1>5, Resumed
  <2>2. \A d \in Callers : d # c => toolCalls'[d] = toolCalls[d]
    BY <1>1, <1>5 DEF ResumeCall
  <2>3. StoreTypes'
    BY <1>1, <1>5, <2>1 DEF StoreTypes
  <2>4. ASSUME NEW d \in Callers, toolCalls'[d] # Idle
        PROVE  toolCalls'[d].suffix \in 1 .. Len(StemsFor(toolCalls'[d].record.source))
    <3>1. CASE d = c
      BY <1>5, <2>1, <3>1 DEF FilesInv
    <3>2. CASE d # c
      BY <2>2, <2>4, <3>2 DEF FilesInv
    <3> QED BY <3>1, <3>2
  <2> QED BY <1>5, <2>3, <2>4 DEF FilesInv
<1>6. ASSUME NEW c \in Callers, Resolve(c) PROVE FilesInv'
  <2>1. toolCalls[c] # Idle /\ UNCHANGED << identity, records, acked, adds, faults >>
    BY <1>1, <1>6, AtWork DEF Resolve
  <2>2. CASE ResumeCall(c, "sidecar")
    BY <1>1, <1>5, <2>1, <2>2
  <2>3. CASE ResumeCall(c, "append")
    BY <1>1, <1>5, <2>1, <2>3
  <2>4. CASE /\ toolCalls[c].suffix < Len(StemsFor(toolCalls[c].record.source))
             /\ toolCalls' = [toolCalls EXCEPT ![c].suffix = @ + 1]
    <3> DEFINE call == [toolCalls[c] EXCEPT !.suffix = @ + 1]
    <3>1. toolCalls[c] \in StoreCall /\ toolCalls[c].record.source \in Sources
      BY <1>1, <2>1, CallIs
    <3>2. /\ call \in StoreCall /\ call.record = toolCalls[c].record
          /\ call.suffix = toolCalls[c].suffix + 1
      BY <3>1 DEF StoreCall
    <3>3. call.suffix \in 1 .. Len(StemsFor(call.record.source))
      <4>1. Len(StemsFor(toolCalls[c].record.source)) \in Nat
        BY <3>1, StoreAssumption
      <4>2. toolCalls[c].suffix \in 1 .. Len(StemsFor(toolCalls[c].record.source))
        BY <2>1 DEF FilesInv
      <4> HIDE DEF call
      <4> QED BY <2>4, <3>2, <4>1, <4>2
    <3>4. toolCalls' = [toolCalls EXCEPT ![c] = call]
      BY <2>4
    <3> HIDE DEF call
    <3>5. /\ toolCalls' \in [Callers -> StoreCall \union {Idle}]
          /\ \A d \in Callers : toolCalls'[d] = IF d = c THEN call ELSE toolCalls[d]
      BY <1>1, <3>2, <3>4
    <3>6. StoreTypes'
      BY <1>1, <2>1, <3>5 DEF StoreTypes
    <3> QED BY <2>1, <3>3, <3>5, <3>6 DEF FilesInv
  <2> QED BY <1>6, <2>2, <2>3, <2>4 DEF Resolve
<1>7. ASSUME NEW c \in Callers, OpenSidecar(c) PROVE FilesInv'
  <2>1. toolCalls[c] # Idle
    BY <1>1, <1>7, AtWork DEF OpenSidecar
  <2>2. identity' \in [Stems -> Sources \union {NoFile, Empty}]
    BY <1>1, <1>7 DEF OpenSidecar
  <2> QED BY <1>5, <1>7, <2>1, <2>2 DEF OpenSidecar
<1>8. ASSUME NEW c \in Callers, WriteSidecar(c) PROVE FilesInv'
  <2>1. toolCalls[c] # Idle
    BY <1>1, <1>8, AtWork DEF WriteSidecar
  <2>2. toolCalls[c].record.source \in Sources
    BY <1>1, <2>1, CallIs
  <2>3. identity' \in [Stems -> Sources \union {NoFile, Empty}]
    BY <1>1, <1>8, <2>2 DEF WriteSidecar
  <2> QED BY <1>5, <1>8, <2>1, <2>3 DEF WriteSidecar
<1>9. ASSUME NEW c \in Callers, AppendRecord(c) PROVE FilesInv'
  <2>1. toolCalls[c] # Idle
    BY <1>1, <1>9, AtWork DEF AppendRecord
  <2>2. toolCalls[c].record \in Records
    BY <1>1, <2>1, CallIs
  <2> DEFINE s == StemOf(toolCalls[c])
             file == Written(records[s], toolCalls[c].record)
  <2>3. s \in Stems /\ file \in File /\ file.lines # <<>>
    BY <2>1, <2>2, CallWrites DEF Line
  <2>4. /\ records' = [records EXCEPT ![s] = file] /\ toolCalls' = [toolCalls EXCEPT ![c] = Idle]
        /\ UNCHANGED << identity, adds, faults >> /\ acked' = acked \union {toolCalls[c].record}
    BY <1>9 DEF AppendRecord
  <2> HIDE DEF s, file
  <2>5. acked' \subseteq Records /\ IsFiniteSet(acked')
    BY <1>1, <2>2, <2>4, FS_AddElement
  <2> QED BY <1>1, <2>3, <2>4, <2>5, FilesWritten
<1>10. ASSUME NEW c \in Callers, WriteFails(c) PROVE FilesInv'
  <2>1. /\ toolCalls' = [toolCalls EXCEPT ![c] = Idle] /\ UNCHANGED << identity, acked, adds >>
        /\ faults' = faults + 1
    BY <1>10 DEF WriteFails
  <2>2. CASE toolCalls[c].at = "name" /\ UNCHANGED records
    <3>1. /\ toolCalls' \in [Callers -> StoreCall \union {Idle}]
          /\ \A d \in Callers : toolCalls'[d] = IF d = c THEN Idle ELSE toolCalls[d]
      BY <1>1, <2>1
    <3>2. StoreTypes'
      BY <1>1, <2>1, <2>2, <3>1 DEF StoreTypes
    <3> QED BY <2>1, <2>2, <3>1, <3>2 DEF FilesInv
  <2>3. CASE /\ toolCalls[c].at = "append"
             /\ \E file \in PartWritten(records[StemOf(toolCalls[c])], toolCalls[c].record) :
                  records' = [records EXCEPT ![StemOf(toolCalls[c])] = file]
    <3> DEFINE s == StemOf(toolCalls[c])
               line == toolCalls[c].record
    <3>1. toolCalls[c] # Idle
      BY <1>1, <2>3, AtWork
    <3>2. line \in Line /\ Corrupt \in Line
      BY <1>1, <3>1, CallIs DEF Line
    <3>3. /\ s \in Stems /\ records[s] \in File /\ (records[s].torn => records[s].lines # <<>>)
          /\ \A l \in Line : Written(records[s], l) \in File /\ Written(records[s], l).lines # <<>>
      BY <3>1, CallWrites DEF FilesInv
    <3>4. PICK file \in PartWritten(records[s], line) : records' = [records EXCEPT ![s] = file]
      BY <2>3
    <3> HIDE DEF s, line
    <3>5. file \in File /\ (file.torn => file.lines # <<>>)
      <4>1. CASE file = [records[s] EXCEPT !.there = TRUE]
        <5>1. file.lines = records[s].lines /\ file.torn = records[s].torn /\ file \in File
          BY <3>3, <4>1 DEF File
        <5> QED BY <3>3, <5>1
      <4>2. ASSUME NEW l \in {Corrupt, line}, file = [Written(records[s], l) EXCEPT !.torn = TRUE]
            PROVE  file \in File /\ file.lines # <<>>
        <5>1. Written(records[s], l) \in File /\ Written(records[s], l).lines # <<>>
          BY <3>2, <3>3
        <5> QED BY <4>2, <5>1 DEF File
      <4> QED BY <4>1, <4>2 DEF PartWritten
    <3>6. UNCHANGED << identity, adds >> /\ acked' \subseteq Records /\ IsFiniteSet(acked') /\ faults' \in Nat
      BY <1>1, <2>1
    <3>7. toolCalls' = [toolCalls EXCEPT ![c] = Idle]
      BY <2>1
    <3> QED BY <1>1, <3>3, <3>4, <3>5, <3>6, <3>7, FilesWritten
  <2> QED BY <1>10, <2>2, <2>3 DEF WriteFails
<1> QED BY <1>2, <1>3, <1>4, <1>6, <1>7, <1>8, <1>9, <1>10 DEF StoreNext

\* sum is what stats has counted behind each of the first m lines.
IsSum(sum, lines, m) ==
  sum = [n \in 0 .. m |-> IF n = 0 THEN NoRecords ELSE CountRecords(sum[n - 1], lines[n])]

LEMMA SumExists ==
  ASSUME NEW lines, NEW len \in Nat
  PROVE  \E s : IsSum(s, lines, len)
<1> DEFINE S == {m \in Nat : m <= len /\ ~ \E s : IsSum(s, lines, m)}
<1>1. ASSUME S # {} PROVE FALSE
  <2>1. PICK m \in S : \A n \in S : m <= n
    BY <1>1, LeastExists
  <2>2. m \in Nat /\ m <= len
    OBVIOUS
  <2>3. CASE m = 0
    <3> DEFINE s == [n \in 0 .. 0 |-> NoRecords]
    <3>1. IsSum(s, lines, 0)
      BY DEF IsSum
    <3> QED BY <2>1, <2>3, <3>1
  <2>4. CASE m > 0
    <3>1. m - 1 \in Nat /\ m - 1 \notin S /\ m - 1 <= len
      BY <2>1, <2>2, <2>4
    <3>2. PICK s : IsSum(s, lines, m - 1)
      BY <3>1
    <3> DEFINE t == [n \in 0 .. m |-> IF n = m THEN CountRecords(s[m - 1], lines[m]) ELSE s[n]]
    <3>3. \A n \in 0 .. m - 1 : t[n] = s[n] /\ s[n] = IF n = 0 THEN NoRecords ELSE CountRecords(s[n - 1], lines[n])
      BY <2>2, <3>2 DEF IsSum
    <3>4. ASSUME NEW n \in 0 .. m PROVE t[n] = IF n = 0 THEN NoRecords ELSE CountRecords(t[n - 1], lines[n])
      <4>1. CASE n = m
        <5>1. t[n] = CountRecords(s[m - 1], lines[m]) /\ t[m - 1] = s[m - 1]
          BY <2>2, <2>4, <3>3, <4>1
        <5>2. n # 0 /\ n - 1 = m - 1
          BY <2>4, <4>1
        <5>3. t[n] = CountRecords(t[n - 1], lines[n])
          BY <4>1, <5>1, <5>2
        <5> HIDE DEF t
        <5> QED BY <5>2, <5>3
      <4>2. CASE n # m /\ n = 0
        <5>1. n \in 0 .. m - 1
          BY <2>2, <2>4, <4>2
        <5> HIDE DEF t
        <5> QED BY <3>3, <4>2, <5>1
      <4>3. CASE n # m /\ n # 0
        <5>1. n \in 0 .. m - 1 /\ n - 1 \in 0 .. m - 1
          BY <2>2, <4>3
        <5> HIDE DEF t
        <5> QED BY <3>3, <4>3, <5>1
      <4> QED BY <4>1, <4>2, <4>3
    <3>5. t = [n \in 0 .. m |-> t[n]]
      OBVIOUS
    <3>6. IsSum(t, lines, m)
      <4> HIDE DEF t
      <4> QED BY <3>4, <3>5 DEF IsSum
    <3> QED BY <2>1, <3>6
  <2> QED BY <2>2, <2>3, <2>4
<1> QED BY <1>1

\* The numbers of the first n lines that parse, and what is true of their sum.
Good(lines, n) == {i \in 1 .. n : lines[i] # Corrupt}

Summed(sum, lines, n) ==
  /\ sum \in [count : Nat, earliest : Nat, latest : Nat]
  /\ sum.count = Cardinality(Good(lines, n))
  /\ sum.earliest = 0 => Good(lines, n) = {}
  /\ \A i \in Good(lines, n) : sum.earliest <= lines[i].ts /\ lines[i].ts <= sum.latest

LEMMA SumStarts == ASSUME NEW lines PROVE Summed(NoRecords, lines, 0)
<1>1. Good(lines, 0) = {}
  BY DEF Good
<1> QED BY <1>1, FS_EmptySet DEF Summed, NoRecords

LEMMA SumSteps ==
  ASSUME NEW lines, NEW n \in Nat, NEW sum, Summed(sum, lines, n),
         \A i \in 1 .. n + 1 : lines[i] # Corrupt => lines[i].ts \in Nat \ {0}
  PROVE  Summed(CountRecords(sum, lines[n + 1]), lines, n + 1)
<1> DEFINE r == lines[n + 1]
           next == CountRecords(sum, r)
<1>1. /\ sum \in [count : Nat, earliest : Nat, latest : Nat]
      /\ sum.count = Cardinality(Good(lines, n))
      /\ sum.earliest = 0 => Good(lines, n) = {}
      /\ \A i \in Good(lines, n) : sum.earliest <= lines[i].ts /\ lines[i].ts <= sum.latest
  BY DEF Summed
<1>2. CASE r = Corrupt
  <2>1. Good(lines, n + 1) = Good(lines, n)
    BY <1>2 DEF Good
  <2>2. next = sum
    BY <1>2 DEF CountRecords
  <2> HIDE DEF next
  <2> QED BY <1>1, <2>1, <2>2 DEF Summed, next
<1>3. CASE r # Corrupt
  <2>1. Good(lines, n + 1) = Good(lines, n) \union {n + 1} /\ n + 1 \notin Good(lines, n)
    BY <1>3 DEF Good
  <2>2. IsFiniteSet(Good(lines, n))
    <3>1. IsFiniteSet(1 .. n) /\ Good(lines, n) \subseteq 1 .. n
      BY FS_Interval DEF Good
    <3> QED BY <3>1, FS_Subset
  <2>3. Cardinality(Good(lines, n + 1)) = Cardinality(Good(lines, n)) + 1
    BY <2>1, <2>2, FS_AddElement
  <2>4. /\ next = [count |-> sum.count + 1,
                   earliest |-> IF sum.earliest = 0 \/ r.ts < sum.earliest THEN r.ts ELSE sum.earliest,
                   latest |-> IF r.ts > sum.latest THEN r.ts ELSE sum.latest]
        /\ r.ts \in Nat \ {0}
    BY <1>3 DEF CountRecords
  <2>5. /\ next \in [count : Nat, earliest : Nat, latest : Nat]
        /\ next.count = sum.count + 1 /\ next.earliest # 0
        /\ next.earliest <= r.ts /\ r.ts <= next.latest /\ sum.latest <= next.latest
        /\ sum.earliest # 0 => next.earliest <= sum.earliest
    <3>1. sum.count \in Nat /\ sum.earliest \in Nat /\ sum.latest \in Nat
      BY <1>1
    <3> HIDE DEF next, r
    <3> QED BY <2>4, <3>1
  <2> HIDE DEF next
  <2>6. ASSUME NEW i \in Good(lines, n + 1) PROVE next.earliest <= lines[i].ts /\ lines[i].ts <= next.latest
    <3>1. CASE i = n + 1
      BY <2>5, <3>1
    <3>2. CASE i \in Good(lines, n)
      <4>1. sum.earliest # 0 /\ sum.earliest <= lines[i].ts /\ lines[i].ts <= sum.latest
        BY <1>1, <3>2
      <4>2. lines[i].ts \in Int
        BY <3>2 DEF Good
      <4> QED BY <1>1, <2>5, <4>1, <4>2
    <3> QED BY <2>1, <3>1, <3>2
  <2> QED BY <1>1, <2>3, <2>5, <2>6 DEF Summed, next
<1> QED BY <1>2, <1>3

LEMMA StatsSummed ==
  ASSUME NEW source, LinesOf(source) \in Seq(Line), Timestamps \subseteq Nat \ {0}
  PROVE  Summed(Stats(source), LinesOf(source), Len(LinesOf(source)))
<1> DEFINE lines == LinesOf(source)
           len == Len(lines)
           sum == CHOOSE f : f = [n \in 0 .. len |-> IF n = 0 THEN NoRecords ELSE CountRecords(f[n - 1], lines[n])]
<1>1. Stats(source) = sum[len]
  BY DEF Stats
<1>2. len \in Nat /\ \A i \in 1 .. len : lines[i] \in Line
  OBVIOUS
<1>3. \A i \in 1 .. len : lines[i] # Corrupt => lines[i].ts \in Nat \ {0}
  <2>1. \A r \in Records : r.ts \in Timestamps
    BY DEF Records
  <2>2. Old.ts = 1
    BY DEF Old
  <2>3. ASSUME NEW l \in Line, l # Corrupt PROVE l.ts \in Nat \ {0}
    <3>1. CASE l \in Records
      <4>1. l.ts \in Timestamps
        BY <2>1, <3>1
      <4> QED BY <4>1
    <3>2. CASE l = Old
      BY <2>2, <3>2
    <3> QED BY <2>3, <3>1, <3>2 DEF Line
  <2> HIDE DEF lines, len
  <2> QED BY <1>2, <2>3
<1>4. PICK s : IsSum(s, lines, len)
  BY <1>2, SumExists
<1>5. sum = [n \in 0 .. len |-> IF n = 0 THEN NoRecords ELSE CountRecords(sum[n - 1], lines[n])]
  BY <1>4 DEF IsSum
<1> HIDE DEF sum, lines, len
<1>6. sum[0] = NoRecords /\ \A n \in 0 .. len : n + 1 <= len => sum[n + 1] = CountRecords(sum[n], lines[n + 1])
  <2>1. sum[0] = NoRecords
    BY <1>2, <1>5
  <2>2. ASSUME NEW n \in 0 .. len, n + 1 <= len PROVE sum[n + 1] = CountRecords(sum[n], lines[n + 1])
    <3>1. n + 1 \in 0 .. len /\ n + 1 # 0 /\ (n + 1) - 1 = n
      BY <1>2, <2>2
    <3>2. sum[n + 1] = IF n + 1 = 0 THEN NoRecords ELSE CountRecords(sum[(n + 1) - 1], lines[n + 1])
      BY <1>5, <3>1
    <3> QED BY <3>1, <3>2
  <2> QED BY <2>1, <2>2
<1> DEFINE S == {n \in Nat : n <= len /\ ~ Summed(sum[n], lines, n)}
<1>7. ASSUME S # {} PROVE FALSE
  <2>1. PICK m \in S : \A n \in S : m <= n
    BY <1>7, LeastExists
  <2>2. m \in Nat /\ m <= len /\ ~ Summed(sum[m], lines, m)
    OBVIOUS
  <2>3. m # 0
    BY <1>6, <2>2, SumStarts
  <2>4. /\ m - 1 \in Nat /\ m - 1 \in 0 .. len /\ (m - 1) + 1 = m /\ m - 1 <= len
        /\ ~ (m <= m - 1)
    BY <1>2, <2>2, <2>3
  <2>5. Summed(sum[m - 1], lines, m - 1)
    BY <2>1, <2>4
  <2> HIDE DEF S
  <2>6. sum[m] = CountRecords(sum[m - 1], lines[m])
    <3>1. (m - 1) + 1 <= len => sum[(m - 1) + 1] = CountRecords(sum[m - 1], lines[(m - 1) + 1])
      BY <1>6, <2>4
    <3> QED BY <2>2, <2>4, <3>1
  <2>7. \A i \in 1 .. (m - 1) + 1 : lines[i] # Corrupt => lines[i].ts \in Nat \ {0}
    BY <1>2, <1>3, <2>2, <2>4
  <2>8. Summed(CountRecords(sum[m - 1], lines[(m - 1) + 1]), lines, (m - 1) + 1)
    BY <2>4, <2>5, <2>7, SumSteps
  <2> QED BY <2>2, <2>4, <2>6, <2>8
<1>8. Summed(sum[len], lines, len)
  BY <1>2, <1>7
<1> QED BY <1>1, <1>8 DEF lines, len

\* However many calls write at once and whatever faults there are: the statistics of a
\* source count the lines of its file that parse, and a query between the earliest and
\* the latest timestamp finds what those lines hold; for timestamps after 1970.
THEOREM StatsSpan == StoreSpec => []StatsSpanRecords
<1>1. ASSUME FilesInv PROVE StatsSpanRecords
  <2>1. SUFFICES ASSUME NEW source \in Sources, Timestamps \subseteq Nat \ {0}
        PROVE  /\ Stats(source).count = Cardinality(Good(LinesOf(source), Len(LinesOf(source))))
               /\ Query(source, Stats(source).earliest, Stats(source).latest)
                    = Range(LinesOf(source)) \ {Corrupt}
    BY DEF StatsSpanRecords, Good
  <2>2. LinesOf(source) \in Seq(Line)
    <3>1. ResolveExisting(source) \in Stems \union {NoFile}
      BY ResolvesToStem
    <3> QED BY <1>1, <3>1, LinesInFile DEF LinesOf, FilesInv
  <2> DEFINE lines == LinesOf(source)
             stats == Stats(source)
  <2>3. Summed(stats, lines, Len(lines))
    BY <2>1, <2>2, StatsSummed
  <2>4. Query(source, stats.earliest, stats.latest)
          = {r \in Range(lines) : r # Corrupt /\ stats.earliest <= r.ts /\ r.ts <= stats.latest}
    BY DEF Query
  <2> HIDE DEF lines, stats
  <2>5. ASSUME NEW r \in Range(lines), r # Corrupt PROVE stats.earliest <= r.ts /\ r.ts <= stats.latest
    <3>1. PICK i \in 1 .. Len(lines) : r = lines[i]
      BY <2>2 DEF Range, lines
    <3>2. i \in Good(lines, Len(lines))
      BY <2>5, <3>1 DEF Good
    <3> QED BY <2>3, <3>1, <3>2 DEF Summed
  <2>6. Query(source, stats.earliest, stats.latest) = Range(lines) \ {Corrupt}
    BY <2>4, <2>5
  <2> QED BY <2>3, <2>6 DEF Summed, lines, stats
<1> QED BY <1>1, FilesStart, FilesSteps, PTL DEF StoreSpec
================================================================================
