------------------------------ MODULE Spatial ------------------------------
(***************************************************************************)
(* The OpenXR MCP server (agent-mcp-servers/oxr-mcp), the vector server    *)
(* beside it (vec-mcp), and the local mirrors of their tools that the      *)
(* evaluation harness of the render demo runs instead                      *)
(* (agent-samples/xr-render-demo/eval/eval.py).                            *)
(*                                                                         *)
(* Lengths are thousandths of a metre: every answer of the code is rounded *)
(* to three decimals.  A head orientation is an integer quaternion; with   *)
(* the half-angle tangents the model is run with (0, 1/2, 1, 2, ...) every *)
(* sine and cosine is a multiple of 1/25, so nothing is lost in rounding.  *)
(***************************************************************************)
EXTENDS Integers, Sequences, SequencesExt

CONSTANTS Requests,    \* tool calls in flight: one executor thread each
          Turns,       \* half-angle tangents <<num, den>> of the yaw,
          Nods,        \* the pitch
          Tilts,       \* and the roll of the head
          Points,      \* positions of heads and objects
          Distances,   \* distances a model may ask for, negative ones too
          Deltas,      \* <<right, up, forward>> displacements
          Absent,      \* an optional argument the call leaves out
          Null,        \* an argument given as null
          LogAt,       \* _OPEN_LOG_AT_ATTEMPTS
          MaxAttempts  \* bound: attempts at opening the session

Nobody == "nobody"   \* holds the lock when no request does

ASSUME SpatialAssumption == Nobody \notin Requests

\* The schedule of the log ascends.
ASSUME ScheduleAssumption ==
  /\ LogAt \in Seq(Nat \ {0}) /\ LogAt # << >>
  /\ \A i, j \in 1 .. Len(LogAt) : i < j => LogAt[i] < LogAt[j]

(***************************************************************************)
(* Vectors, quaternions and the head                                       *)
(***************************************************************************)
Plus(u, v)  == [i \in 1 .. 3 |-> u[i] + v[i]]
Minus(u, v) == [i \in 1 .. 3 |-> u[i] - v[i]]
Neg(v)      == [i \in 1 .. 3 |-> -v[i]]
Dot(u, v)   == u[1] * v[1] + u[2] * v[2] + u[3] * v[3]
Cross(u, v) == << u[2] * v[3] - u[3] * v[2],
                  u[3] * v[1] - u[1] * v[3],
                  u[1] * v[2] - u[2] * v[1] >>
Flat(v)     == << v[1], 0, v[3] >>

Root(n)     == FoldLeft(LAMBDA r, bit : IF (r + bit) * (r + bit) <= n THEN r + bit ELSE r,
                        0, << 2048, 1024, 512, 256, 128, 64, 32, 16, 8, 4, 2, 1 >>)
Unit(v)     == LET m == Root(Dot(v, v)) IN [i \in 1 .. 3 |-> (v[i] * 1000) \div m]
Far(v, d)   == [i \in 1 .. 3 |-> (v[i] * d) \div 1000]   \* v is a unit vector

Mul(p, q) == [w |-> p.w * q.w - Dot(p.v, q.v),
              v |-> [i \in 1 .. 3 |-> p.w * q.v[i] + q.w * p.v[i] + Cross(p.v, q.v)[i]]]

Oriented(y, n, t) ==
  Mul(Mul([v |-> << 0, y[1], 0 >>, w |-> y[2]], [v |-> << n[1], 0, 0 >>, w |-> n[2]]),
      [v |-> << 0, 0, t[1] >>, w |-> t[2]])
Orientations == {Oriented(y, n, t) : y \in Turns, n \in Nods, t \in Tilts}

\* _rotate_vec, of a quaternion that is not of unit length: v + w t + q x t,
\* with t = 2 q x v, over the square of the length.
Size(q) == Dot(q.v, q.v) + q.w * q.w
Turned(q, v) ==
  LET t == [i \in 1 .. 3 |-> 2 * Cross(q.v, v)[i]]
  IN  [i \in 1 .. 3 |-> Size(q) * v[i] + q.w * t[i] + Cross(q.v, t)[i]]
RotateVec(q, v) == [i \in 1 .. 3 |-> Turned(q, v)[i] \div Size(q)]

\* The axes of a head that is not turned.
Ahead0 == << 0, 0, -1000 >>
Right0 == << 1000, 0, 0 >>
Up0    == << 0, 1000, 0 >>

\* The snapshot get_pose returns.  yaw is the pair whose atan2 the code takes.
PoseOf(q, p, valid) ==
  [valid |-> valid, position |-> p,
   forward |-> RotateVec(q, Ahead0),
   right   |-> RotateVec(q, Right0),
   up      |-> RotateVec(q, Up0),
   yaw     |-> << 2 * (q.w * q.v[2] + q.v[1] * q.v[3]),
                  Size(q) - 2 * (q.v[2] * q.v[2] + q.v[3] * q.v[3]) >>]

\* What a head tracker can report; without tracking the pose is not valid.
Poses == {PoseOf(q, p, ok) : q \in Orientations, p \in Points, ok \in BOOLEAN}

ValidPoses == {pose \in Poses : pose.valid}

NotReady == [valid |-> FALSE, position |-> << 0, 1600, 0 >>,
             forward |-> << 0, 0, -1000 >>, right |-> << 1000, 0, 0 >>,
             up |-> << 0, 1000, 0 >>, yaw |-> << 0, 1 >>]

(***************************************************************************)
(* The tools.  A call is a record of the tool's name and its arguments; an *)
(* answer is a point, a sequence of points, a number or Error.             *)
(***************************************************************************)
Error  == << "error" >>
Raised == << "raised" >>
Or(v, default) == IF v = Absent THEN default ELSE v

\* Mutant: the head's right turned the wrong way for a gaze straight up or down.
GroundBasisTurned(pose) ==
  LET f == Flat(pose.forward)
      r == Unit(Flat(pose.right))
      g == IF Dot(f, f) # 0 THEN Unit(f) ELSE << -r[3], 0, r[1] >>
  IN  [f |-> g, r |-> << -g[3], 0, g[1] >>]

\* _ground_basis: forward and right on the ground.  A gaze straight up or
\* down has no forward there, and the head's right stands in for it.
GroundBasis(pose) ==
  LET f == Flat(pose.forward)
      r == Unit(Flat(pose.right))
      g == IF Dot(f, f) # 0 THEN Unit(f) ELSE << r[3], 0, -r[1] >>
  IN  [f |-> g, r |-> << -g[3], 0, g[1] >>]

\* Nothing of a vector is lost when it is divided by n, or brought to unit length.
Divides(n, v) == \A i \in 1 .. 3 : v[i] % n = 0
Measured(v) ==
  LET m == Root(Dot(v, v))
  IN  m \in Nat \ {0} /\ m * m = Dot(v, v) /\ Divides(m, [i \in 1 .. 3 |-> v[i] * 1000])

\* The heads and distances the model is run with are ones of which the code's
\* rounding to three decimals loses nothing, in the turn of the head, in the
\* direction it faces on the ground and in the way that is placed along it.
ASSUME ExactAssumption ==
  /\ Turns \cup Nods \cup Tilts \subseteq Int \X Int
  /\ Points \subseteq [1 .. 3 -> Int]
  /\ Distances \subseteq Int /\ Absent \notin Distances
  /\ \A q \in Orientations :
       Size(q) > 0 /\ \A v \in {Ahead0, Right0, Up0} : Divides(Size(q), Turned(q, v))
  /\ \A pose \in ValidPoses :
       LET f == Flat(pose.forward)
           b == GroundBasis(pose)
       IN  /\ Measured(IF Dot(f, f) # 0 THEN f ELSE Flat(pose.right))
           /\ \A d \in Distances : Divides(1000, [i \in 1 .. 3 |-> b.f[i] * d])

Shift(p, pose, delta) ==
  LET b == GroundBasis(pose)
  IN  Plus(Plus(p, Far(b.f, delta[3])), Plus(Far(b.r, delta[1]), << 0, delta[2], 0 >>))

\* What a named direction means around the user, and around an object.
AroundUser(b) ==
  [front |-> b.f, back |-> Neg(b.f), right |-> b.r, left |-> Neg(b.r),
   above |-> << 0, 1000, 0 >>, below |-> << 0, -1000, 0 >>]
AroundObject(b) ==
  [front |-> Neg(b.f), back |-> b.f, right |-> b.r, left |-> Neg(b.r),
   next_to |-> b.r, above |-> << 0, 1000, 0 >>, below |-> << 0, -1000, 0 >>]

PositionAhead(c, pose) ==
  Plus(pose.position, Far(pose.forward, Or(c.distance, 1500)))

PositionRelative(c, pose) ==
  Shift(IF c.origin \in {Absent, Null} THEN pose.position ELSE c.origin, pose, c.delta)

PlaceUserRelative(c, pose) ==
  Plus(pose.position, Far(AroundUser(GroundBasis(pose))[c.direction], Or(c.distance, 1500)))

PlaceObjectRelative(c, pose) ==
  Plus(c.origin, Far(AroundObject(GroundBasis(pose))[c.direction], Or(c.distance, 300)))

DisplaceObject(c, pose) == Shift(c.origin, pose, c.delta)

DisplaceObjects(c, pose) ==
  IF ~ c.paired THEN Error
  ELSE [i \in 1 .. Len(c.origins) |-> Shift(c.origins[i], pose, c.delta)]

PlaceInsideById(c) == c.origin

BetweenAnchors(c) == [i \in 1 .. 3 |-> (c.origin[i] + c.target[i]) \div 2]
WorldOffset(c)    == Plus(c.origin, c.delta)
AlongDirection(c) ==
  LET v == Minus(c.target, c.origin)
      d == Or(c.distance, 500)
  IN  IF Dot(v, v) = 0 THEN Error
      ELSE [i \in 1 .. 3 |-> c.origin[i] + ((v[i] * d) \div Root(Dot(v, v)))]
ScaleValue(c)     == c.current * c.factor

VecTools == {"between_anchors", "world_offset", "along_direction", "scale_value"}

VecAnswer(c) ==
  CASE c.tool = "between_anchors" -> BetweenAnchors(c)
    [] c.tool = "world_offset"    -> WorldOffset(c)
    [] c.tool = "along_direction" -> AlongDirection(c)
    [] c.tool = "scale_value"     -> ScaleValue(c)

\* What the server answers without asking for the pose.
TooNear(c) == /\ c.tool \in {"place_user_relative", "place_object_relative"}
              /\ c.distance # Absent
              /\ c.distance < 0
Upright(c) == c.tool = "place_object_relative" /\ c.direction \in {"above", "below"}
NoPoseNeeded(c) ==
  \/ c.tool \in VecTools \cup {"place_inside_by_id"}
  \/ TooNear(c)
  \/ Upright(c)
  \/ c.tool = "displace_objects" /\ (~ c.paired \/ c.origins = << >>)

\* A call without an argument the tool's schema requires is refused.
Incomplete(c) == c.tool # "position_relative" /\ "origin" \in DOMAIN c /\ c.origin = Absent

Answer(c, pose) ==
  IF Incomplete(c) \/ TooNear(c) \/ (~ NoPoseNeeded(c) /\ ~ pose.valid) THEN Error
  ELSE CASE c.tool = "position_ahead"        -> PositionAhead(c, pose)
         [] c.tool = "position_relative"     -> PositionRelative(c, pose)
         [] c.tool = "place_user_relative"   -> PlaceUserRelative(c, pose)
         [] c.tool = "place_object_relative" -> PlaceObjectRelative(c, pose)
         [] c.tool = "displace_object"       -> DisplaceObject(c, pose)
         [] c.tool = "displace_objects"      -> DisplaceObjects(c, pose)
         [] c.tool = "place_inside_by_id"    -> PlaceInsideById(c)
         [] c.tool \in VecTools              -> VecAnswer(c)

(***************************************************************************)
(* The mirrors of eval.py, for a fixture's pose: none of them looks at     *)
(* is_valid, and arguments the schema requires have defaults.              *)
(***************************************************************************)
LocalGroundBasis(pose) ==
  LET f == Flat(pose.forward)
      r == Unit(Flat(pose.right))
      g == IF Dot(f, f) # 0 THEN Unit(f) ELSE << r[3], 0, -r[1] >>
  IN  [f |-> g, r |-> << -g[3], 0, g[1] >>]

LocalShift(p, b, delta) ==
  [i \in 1 .. 3 |-> p[i] + ((b.f[i] * delta[3]) \div 1000)
                         + (((b.r[i] * delta[1]) \div 1000) + (IF i = 2 THEN delta[2] ELSE 0))]

LocalPositionAhead(c, pose) ==
  Plus(pose.position, Far(pose.forward, Or(c.distance, 1500)))

\* float(None) raises, and with it the whole rollout
LocalPositionRelative(c, pose) ==
  IF c.origin = Null THEN Raised
  ELSE LocalShift(Or(c.origin, pose.position), LocalGroundBasis(pose), c.delta)

LocalPlaceUser(c, pose) ==
  LET d == Or(c.distance, 1500) IN
  IF d < 0 THEN Error
  ELSE Plus(pose.position, Far(AroundUser(LocalGroundBasis(pose))[c.direction], d))

LocalPlaceObject(c, pose) ==
  LET d == Or(c.distance, 300) IN
  IF d < 0 THEN Error
  ELSE Plus(Or(c.origin, << 0, 0, 0 >>),
            Far(AroundObject(LocalGroundBasis(pose))[c.direction], d))

LocalDisplaceObject(c, pose) ==
  IF c.origin = Absent THEN Error
  ELSE LocalShift(c.origin, LocalGroundBasis(pose), c.delta)

LocalDisplaceObjects(c, pose) ==
  IF ~ c.paired THEN Error
  ELSE [i \in 1 .. Len(c.origins) |-> LocalShift(c.origins[i], LocalGroundBasis(pose), c.delta)]

LocalPlaceInside(c) == IF c.origin = Absent THEN Error ELSE c.origin

LocalBetweenAnchors(c) ==
  [i \in 1 .. 3 |-> (Or(c.origin, << 0, 0, 0 >>)[i] + c.target[i]) \div 2]
LocalWorldOffset(c)    == Plus(Or(c.origin, << 0, 0, 0 >>), c.delta)
LocalAlongDirection(c) ==
  LET o == Or(c.origin, << 0, 0, 0 >>)
      v == Minus(c.target, o)
      d == Or(c.distance, 500)
  IN  IF Dot(v, v) = 0 THEN Error
      ELSE [i \in 1 .. 3 |-> o[i] + ((v[i] * d) \div Root(Dot(v, v)))]
LocalScaleValue(c)     == c.current * c.factor

LocalAnswer(c, pose) ==
  CASE c.tool = "position_ahead"        -> LocalPositionAhead(c, pose)
    [] c.tool = "position_relative"     -> LocalPositionRelative(c, pose)
    [] c.tool = "place_user_relative"   -> LocalPlaceUser(c, pose)
    [] c.tool = "place_object_relative" -> LocalPlaceObject(c, pose)
    [] c.tool = "displace_object"       -> LocalDisplaceObject(c, pose)
    [] c.tool = "displace_objects"      -> LocalDisplaceObjects(c, pose)
    [] c.tool = "place_inside_by_id"    -> LocalPlaceInside(c)
    [] c.tool = "between_anchors"       -> LocalBetweenAnchors(c)
    [] c.tool = "world_offset"          -> LocalWorldOffset(c)
    [] c.tool = "along_direction"       -> LocalAlongDirection(c)
    [] c.tool = "scale_value"           -> LocalScaleValue(c)

(***************************************************************************)
(* The calls a language model can make of the tools                        *)
(***************************************************************************)
Somewhere == Points \cup {Absent}
Reach     == Distances \cup {Absent}
Sides     == DOMAIN AroundUser(GroundBasis(NotReady))
ObjSides  == DOMAIN AroundObject(GroundBasis(NotReady))

Calls ==
  [tool : {"position_ahead"}, distance : Reach]
  \cup [tool : {"position_relative"}, origin : Somewhere \cup {Null}, delta : Deltas]
  \cup [tool : {"place_user_relative"}, direction : Sides, distance : Reach]
  \cup [tool : {"place_object_relative"}, origin : Somewhere, direction : ObjSides,
        distance : Reach]
  \cup [tool : {"displace_object", "world_offset"}, origin : Somewhere, delta : Deltas]
  \cup [tool : {"displace_objects"}, delta : Deltas, paired : BOOLEAN,
        origins : {<< >>} \cup {<< p, q >> : p, q \in Points}]
  \cup [tool : {"place_inside_by_id"}, origin : Somewhere]
  \cup [tool : {"between_anchors"}, origin : Somewhere, target : Points]
  \cup [tool : {"along_direction"}, origin : Somewhere, target : Points, distance : Reach]
  \cup [tool : {"scale_value"}, current : {100, 300}, factor : {0, 2, -1}]

(***************************************************************************)
(* State.  What the head tracker reports is an input, chosen when get_pose *)
(* reads it; the answers are computed from that snapshot alone.            *)
(***************************************************************************)
VARIABLES runtime,    \* how far a session can be opened: none, instance, all
          xrSession,  \* PoseSource._oxr_session and _dev_session (set together)
          leaked,     \* OpenXR sessions entered and then forgotten
          attempts,   \* _open_attempts
          nextLog,    \* _next_log_idx
          logged,     \* ghost: the attempts whose failure was logged
          lock,       \* the request whose thread is in get_pose, or Nobody
          request,    \* idle, waiting, abandoned (the thread waits, nobody else)
          snapshot,   \* the pose the last answer was computed from
          server      \* serving, closing (close waits for the lock), closed

spatialVars == << runtime, xrSession, leaked, attempts, nextLog, logged, lock, request,
           snapshot, server >>

SpatialTypeOK ==
  /\ runtime \in {"none", "instance", "all"} /\ xrSession \in BOOLEAN
  /\ leaked \in 0 .. attempts /\ attempts \in 0 .. MaxAttempts
  /\ nextLog \in 1 .. Len(LogAt) + 1 /\ logged \subseteq 1 .. attempts
  /\ lock \in Requests \cup {Nobody}
  /\ request \in [Requests -> {"idle", "waiting", "abandoned"}]
  /\ snapshot \in Poses \cup {NotReady}
  /\ server \in {"serving", "closing", "closed"}

SpatialInit ==
  /\ runtime \in {"none", "instance", "all"}
  /\ xrSession = FALSE /\ leaked = 0
  /\ attempts = 0 /\ nextLog = 1 /\ logged = {}
  /\ lock = Nobody
  /\ request = [r \in Requests |-> "idle"]
  /\ snapshot = NotReady
  /\ server = "serving"

\* A streaming client connects to the runtime or leaves: xrGetSystem fails
\* until one is there.
Stream ==
  /\ runtime' \in {"none", "instance", "all"}
  /\ UNCHANGED << xrSession, leaked, attempts, nextLog, logged, lock, request,
                  snapshot, server >>

\* A tool call that needs the pose: an executor thread runs get_pose for it.
Call(r) ==
  /\ server = "serving" /\ request[r] = "idle"
  /\ request' = [request EXCEPT ![r] = "waiting"]
  /\ UNCHANGED << runtime, xrSession, leaked, attempts, nextLog, logged, lock,
                  snapshot, server >>

\* The client gives up: its coroutine is cancelled, the executor's thread is not.
Abandon(r) ==
  /\ request[r] = "waiting"
  /\ request' = [request EXCEPT ![r] = "abandoned"]
  /\ UNCHANGED << runtime, xrSession, leaked, attempts, nextLog, logged, lock,
                  snapshot, server >>

TakeLock(r) ==
  /\ request[r] # "idle" /\ lock = Nobody
  /\ lock' = r
  /\ UNCHANGED << runtime, xrSession, leaked, attempts, nextLog, logged, request,
                  snapshot, server >>

\* _maybe_log_open_failure, after attempt n
LogFailure(n) ==
  LET due == IF nextLog <= Len(LogAt) THEN n >= LogAt[nextLog]
                                      ELSE n % LogAt[Len(LogAt)] = 0
  IN  /\ nextLog' = IF due /\ nextLog <= Len(LogAt) THEN nextLog + 1 ELSE nextLog
      /\ logged' = IF due THEN logged \cup {n} ELSE logged

\* _try_open: both sessions are kept, or neither.
TryOpen ==
  IF xrSession THEN UNCHANGED << xrSession, leaked, attempts, nextLog, logged >>
  ELSE /\ attempts < MaxAttempts
       /\ attempts' = attempts + 1
       /\ xrSession' = (runtime = "all")
       /\ leaked' = IF runtime = "instance" THEN leaked + 1 ELSE leaked
       /\ IF runtime = "all" THEN UNCHANGED << nextLog, logged >>
                             ELSE LogFailure(attempts + 1)

\* get_pose opens the session if it must, reads the tracker, gives the lock back.
GetPose(r) ==
  /\ lock = r
  /\ lock' = Nobody
  /\ TryOpen
  /\ snapshot' \in IF xrSession' THEN Poses ELSE {NotReady}
  /\ request' = [request EXCEPT ![r] = "idle"]
  /\ UNCHANGED << runtime, server >>

\* The session outlived its runtime: update() raises, the call fails, the lock is
\* given back, and the dead session is kept.
PoseRaises(r) ==
  /\ lock = r /\ xrSession /\ runtime # "all"
  /\ lock' = Nobody
  /\ request' = [request EXCEPT ![r] = "idle"]
  /\ UNCHANGED << runtime, xrSession, leaked, attempts, nextLog, logged, snapshot, server >>

\* Mutant: the server stops under its requests.
StopAnyway ==
  /\ server = "serving"
  /\ server' = "closing"
  /\ UNCHANGED << runtime, xrSession, leaked, attempts, nextLog, logged, lock,
                  request, snapshot >>

\* uvicorn stops once every coroutine has answered; close() then runs in the
\* executor, behind the lock.
Stop ==
  /\ server = "serving"
  /\ \A r \in Requests : request[r] # "waiting"
  /\ server' = "closing"
  /\ UNCHANGED << runtime, xrSession, leaked, attempts, nextLog, logged, lock,
                  request, snapshot >>

CloseServer ==
  /\ server = "closing" /\ lock = Nobody
  /\ server' = "closed"
  /\ xrSession' = FALSE
  /\ UNCHANGED << runtime, leaked, attempts, nextLog, logged, lock, request, snapshot >>

SpatialNext ==
  \/ Stream \/ Stop \/ CloseServer
  \/ \E r \in Requests : Call(r) \/ Abandon(r) \/ TakeLock(r) \/ GetPose(r) \/ PoseRaises(r)

SpatialSpec == SpatialInit /\ [][SpatialNext]_spatialVars

(***************************************************************************)
(* Properties                                                              *)
(***************************************************************************)
\* The harness scores a model on what the live servers would have answered:
\* for every complete call and every pose a mirror answers what the tool
\* answers.  eval.py runs its mirrors on fixture poses, which are valid; it is
\* as lenient as the schema nowhere else but for a null origin, left out here.
Mirrored ==
  {pose \in ValidPoses : \A c \in Calls :
     (~ Incomplete(c) /\ ("origin" \in DOMAIN c => c.origin # Null))
        => Answer(c, pose) = LocalAnswer(c, pose)}

MirrorsAgree == snapshot.valid => snapshot \in Mirrored

\* Placing around the user is true to where the user really faces, whatever the
\* tilt of the head: the answer is level with the head and as far as asked, in
\* front of the eyes and, of a head that is not upside down, at its own right;
\* what the user calls left and back is the opposite.
Facing ==
  {pose \in ValidPoses :
     \A side \in {"front", "right", "back", "left"}, d \in {n \in Distances : n > 0} :
       LET way(s) == Minus(Answer([tool |-> "place_user_relative", direction |-> s,
                                   distance |-> d], pose), pose.position)
       IN  /\ way(side)[2] = 0
           /\ Dot(way(side), way(side)) = d * d
           /\ Dot(way("front"), pose.forward) >= 0
           /\ pose.up[2] >= 0 => Dot(way("right"), pose.right) >= 0
           /\ way("back") = Neg(way("front")) /\ way("left") = Neg(way("right"))
           /\ Cross(way("front"), way("right"))[2] < 0}

AnswersFaceUser == snapshot.valid => snapshot \in Facing

\* Once close() has run no session is open, unless a client gave up on a request
\* whose thread was still waiting for the lock: it opens the session again.
SurvivorNeedsOrphan ==
  [][server' = "closed" /\ xrSession' =>
       server = "closed" /\ (xrSession \/ \E r \in Requests : request[r] = "abandoned")]_spatialVars

\* The comment at _OPEN_LOG_AT_ATTEMPTS: "Log open-failure on attempts 1, 2, 4,
\* 8, ..., 128, then every 128": of the failures before the server stops these
\* are logged, and no other, though the code keeps an index and compares with >=.
LogsOnSchedule ==
  server = "serving" =>
    logged = { n \in 1 .. (IF xrSession THEN attempts - 1 ELSE attempts) :
                 \/ \E i \in 1 .. Len(LogAt) : n = LogAt[i]
                 \/ n > LogAt[Len(LogAt)] /\ n % LogAt[Len(LogAt)] = 0 }

(***************************************************************************)
(* Statements of the repository that the code does not keep                *)
(***************************************************************************)
\* get_head_pose's docstring: "yaw_deg - horizontal rotation in degrees (0 =
\* facing -z, 90 = facing +x)".  Of a gaze that is not vertical, the sine and
\* the cosine of the yaw have the direction of the gaze on the ground.
YawIsHeading ==
  snapshot.forward[1] * snapshot.yaw[2] = snapshot.yaw[1] * (- snapshot.forward[3])

\* "Mirror oxr-mcp.position_relative", of a call that gives the origin as null.
MirrorsAgreeOnNull ==
  snapshot.valid => \A c \in Calls : ~ Incomplete(c) => Answer(c, snapshot) = LocalAnswer(c, snapshot)

\* A session that was entered is exited in the end.
NothingLeaks == leaked = 0
=============================================================================
