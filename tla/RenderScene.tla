------------------------------ MODULE RenderScene ------------------------------
(***************************************************************************)
(* render-mcp keeps a scene of primitives and mirrors it in LOVR, the      *)
(* OpenXR renderer: a tool call changes the scene and pushes one message   *)
(* to LOVR over a PUSH socket without blocking, and a launch of LOVR first *)
(* sends the whole scene again.  LOVR may exit at any moment; a watch task *)
(* then clears the flag by which calls are forwarded.                      *)
(*                                                                         *)
(* The server is one event loop; a tool call has no await that suspends.   *)
(* start_lovr_once, the watch task and the renderer run in between.        *)
(***************************************************************************)
EXTENDS Integers, Sequences, SequencesExt, FiniteSets

CONSTANTS
  Types,        \* the primitive types in use
  Vals,         \* what position, colour and size together can be
  MaxIds,       \* bound: ids assigned per type
  HighWater,    \* SNDHWM: messages the socket queues for LOVR
  MaxLaunches,  \* bound: LOVR processes
  MaxStarts     \* bound: spawn tasks waiting for the lock

ASSUME SceneAssumption ==
  /\ MaxIds \in Nat /\ MaxLaunches \in Nat /\ MaxStarts \in Nat \ {0}
  /\ HighWater \in Nat \ {0}

Ids == Types \X (0 .. MaxIds - 1)
Object == [id : Ids, val : Vals]
Message == [op : {"add", "update"}, id : Ids, val : Vals] \union [op : {"remove"}, id : Ids]

VARIABLES
  objects,   \* _objects, in the order of insertion
  counters,  \* _id_counters
  started,   \* _lovr_started
  failed,    \* _spawn_error is set
  envFile,   \* the CloudXR environment file exists
  starts,    \* spawn tasks that have not taken the spawn lock
  todo,      \* the objects that the resync which holds the lock has not packed yet
  parked,    \* at most one: the object as packed, while its send waits for LOVR
  resyncing, \* a spawn holds the lock and is in its resync
  lovr,      \* the renderer: no process, PULL not connected yet, running, exited
  launches,  \* processes launched so far
  wire,      \* messages in the socket's queue for LOVR
  shown,     \* LOVR's primitives
  missed     \* history: an operation of this launch never reached LOVR's queue

server   == <<objects, counters, started, failed, envFile, starts, todo, parked, resyncing>>
renderer == <<lovr, launches, wire, shown>>
scene    == <<server, renderer, missed>>

SceneTypeOK ==
  /\ objects \in Seq(Object) /\ todo \in Seq(Object)
  /\ parked \subseteq Object /\ \A x, y \in parked : x = y
  /\ counters \in [Types -> 0 .. MaxIds]
  /\ {started, failed, envFile, resyncing, missed} \subseteq BOOLEAN
  /\ starts \in 0 .. MaxStarts /\ launches \in 0 .. MaxLaunches
  /\ lovr \in {"none", "booting", "up", "exited"}
  /\ wire \in Seq(Message) /\ Len(wire) <= HighWater
  /\ shown \subseteq Object

SceneInit ==
  /\ objects = <<>> /\ todo = <<>> /\ parked = {} /\ counters = [t \in Types |-> 0]
  /\ started = FALSE /\ failed = FALSE /\ envFile \in BOOLEAN
  /\ starts = 0 /\ resyncing = FALSE
  /\ lovr = "none" /\ launches = 0 /\ wire = <<>> /\ shown = {} /\ missed = FALSE

-----------------------------------------------------------------------------
(* The tools.                                                              *)

Known == {o.id : o \in Range(objects)}
Lookup(i) == CHOOSE o \in Range(objects) : o.id = i

Room == IF lovr = "up" THEN HighWater - Len(wire) ELSE 0

\* forward: what the caller is told, and what becomes of the messages.
Forward(msgs, answer) ==
  \/ /\ ~started /\ answer = "not_started"
     /\ UNCHANGED wire /\ missed' = (missed \/ resyncing)
  \/ /\ started /\ Room >= Len(msgs) /\ answer = "ok"
     /\ wire' = wire \o msgs /\ UNCHANGED missed
  \/ \* the socket has no peer, or no room for the last message
     /\ started /\ Room < Len(msgs) /\ answer = "backpressure"
     /\ wire' = wire \o SubSeq(msgs, 1, Room) /\ missed' = TRUE
  \/ \* the socket has not noticed yet that its peer is gone
     /\ started /\ lovr = "exited" /\ answer = "ok" /\ UNCHANGED <<wire, missed>>

AddMsg(o) == [op |-> "add", id |-> o.id, val |-> o.val]

\* _make_id, add
NewObject(type, val) == [id |-> <<type, counters[type]>>, val |-> val]
CountId(type) ==
  /\ counters[type] < MaxIds
  /\ counters' = [counters EXCEPT ![type] = @ + 1]

AddPrimitive(type, val, answer) ==
  /\ CountId(type)
  /\ objects' = Append(objects, NewObject(type, val))
  /\ Forward(<<AddMsg(NewObject(type, val))>>, answer)
  /\ UNCHANGED <<started, failed, envFile, starts, todo, parked, resyncing, lovr, launches, shown>>

Written(seq, i, val) == [k \in DOMAIN seq |-> IF seq[k].id = i THEN [seq[k] EXCEPT !.val = val] ELSE seq[k]]

\* An update that is not forwarded does no harm if the resync has yet to pack the
\* object; a send that waits already carries the object as it was.
Update(i, val, answer) ==
  IF answer = "not_started" /\ \E o \in Range(todo) : o.id = i
  THEN ~started /\ UNCHANGED <<wire, missed>>
  ELSE Forward(<<[op |-> "update", id |-> i, val |-> val]>>, answer)

\* update_primitive without a new type.  The resync's list holds the objects
\* themselves, so what it has yet to pack changes too.
UpdatePrimitive(i, val, answer) ==
  /\ i \in Known
  /\ objects' = Written(objects, i, val) /\ todo' = Written(todo, i, val)
  /\ Update(i, val, answer)
  /\ UNCHANGED <<counters, started, failed, envFile, starts, parked, resyncing, lovr, launches, shown>>

Without(i) == RemoveAt(objects, CHOOSE k \in DOMAIN objects : objects[k].id = i)

\* update_primitive with a new type: the object goes and comes back under a new
\* id.  The answer is that of the second message.
ChangeType(i, type, val, answer) ==
  /\ i \in Known /\ i[1] # type
  /\ CountId(type)
  /\ objects' = Append(Without(i), NewObject(type, val)) /\ todo' = Written(todo, i, val)
  /\ Forward(<<[op |-> "remove", id |-> i], AddMsg(NewObject(type, val))>>, answer)
  /\ UNCHANGED <<started, failed, envFile, starts, parked, resyncing, lovr, launches, shown>>

RemovePrimitive(i, answer) ==
  /\ i \in Known
  /\ objects' = Without(i)
  /\ Forward(<<[op |-> "remove", id |-> i]>>, answer)
  /\ UNCHANGED <<counters, started, failed, envFile, starts, todo, parked, resyncing, lovr, launches, shown>>

\* start_xr: answers from the flags, or leaves a task behind.
StartXr(status) ==
  /\ \/ started /\ status = "already_started" /\ UNCHANGED starts
     \/ ~started /\ failed /\ status = "error" /\ UNCHANGED starts
     \/ /\ ~started /\ ~failed /\ status = "starting"
        /\ starts < MaxStarts /\ starts' = starts + 1
  /\ UNCHANGED <<objects, counters, started, failed, envFile, todo, parked, resyncing, renderer, missed>>

-----------------------------------------------------------------------------
(* The launch.                                                             *)

Idle == starts > 0 /\ ~resyncing

\* start_lovr_once, when there is nothing to launch: it runs already, or the
\* environment file is missing, now or before.
NoLaunch ==
  /\ Idle /\ (started \/ failed \/ ~envFile)
  /\ starts' = starts - 1
  /\ failed' = (failed \/ ~started)
  /\ UNCHANGED <<objects, counters, started, envFile, todo, parked, resyncing, renderer, missed>>

\* ManagedProcess raises: the task ends, and nothing is remembered.
LaunchCrash ==
  /\ Idle /\ ~started /\ ~failed /\ envFile
  /\ starts' = starts - 1
  /\ UNCHANGED <<objects, counters, started, failed, envFile, todo, parked, resyncing, renderer, missed>>

\* start_lovr_once up to the resync
Launch ==
  /\ Idle /\ ~started /\ ~failed /\ envFile /\ launches < MaxLaunches
  /\ starts' = starts - 1 /\ launches' = launches + 1
  /\ lovr' = "booting" /\ wire' = <<>> /\ shown' = {} /\ missed' = FALSE
  /\ resyncing' = TRUE /\ todo' = objects
  /\ UNCHANGED <<objects, counters, started, failed, envFile, parked>>

\* _resync_scene: the next object is packed, and sent if LOVR has room for it; if
\* not, the send waits with what was packed.
Resync ==
  /\ resyncing /\ todo # <<>> /\ parked = {}
  /\ todo' = Tail(todo)
  /\ \/ Room > 0 /\ wire' = Append(wire, AddMsg(Head(todo))) /\ UNCHANGED parked
     \/ Room = 0 /\ parked' = {Head(todo)} /\ UNCHANGED wire
  /\ UNCHANGED <<objects, counters, started, failed, envFile, starts, resyncing, lovr, launches, shown, missed>>

\* _resync_scene: LOVR has connected, or has read something
Unpark ==
  /\ Room > 0 /\ parked' = {}
  /\ \E o \in parked : wire' = Append(wire, AddMsg(o))
  /\ UNCHANGED <<objects, counters, started, failed, envFile, starts, todo, resyncing, lovr, launches, shown, missed>>

\* _resync_scene: the deadline
GiveUp ==
  /\ resyncing /\ (todo # <<>> \/ parked # {})
  /\ todo' = <<>> /\ parked' = {} /\ missed' = TRUE
  /\ UNCHANGED <<objects, counters, started, failed, envFile, starts, resyncing, renderer>>

\* start_lovr_once after the resync: started, unless the watch task is done.
Advertise ==
  /\ resyncing /\ todo = <<>> /\ parked = {}
  /\ started' = (lovr # "none") /\ resyncing' = FALSE
  /\ UNCHANGED <<objects, counters, failed, envFile, starts, todo, parked, renderer, missed>>

\* _watch: the child has exited and its pipes are closed
Watch ==
  /\ lovr = "exited" /\ lovr' = "none" /\ started' = FALSE
  /\ UNCHANGED <<objects, counters, failed, envFile, starts, todo, parked, resyncing, launches, wire, shown, missed>>

-----------------------------------------------------------------------------
(* Outside the server: the CloudXR runtime and LOVR.                       *)

EnvFileWritten ==
  /\ ~envFile /\ envFile' = TRUE
  /\ UNCHANGED <<objects, counters, started, failed, starts, todo, parked, resyncing, renderer, missed>>

Connect ==
  /\ lovr = "booting" /\ lovr' = "up"
  /\ UNCHANGED <<server, launches, wire, shown, missed>>

\* LOVR ends; what it had not read is lost, and so is what it showed.
Exit ==
  /\ lovr \in {"booting", "up"}
  /\ lovr' = "exited" /\ wire' = <<>> /\ shown' = {}
  /\ UNCHANGED <<server, launches, missed>>

\* drain_commands: add overwrites, update and remove pass over unknown ids.
Drain ==
  /\ lovr = "up" /\ wire # <<>>
  /\ LET m    == Head(wire)
         rest == {o \in shown : o.id # m.id}
     IN  shown' = IF m.op = "add" \/ (m.op = "update" /\ rest # shown)
                  THEN rest \union {[id |-> m.id, val |-> m.val]} ELSE rest
  /\ wire' = Tail(wire)
  /\ UNCHANGED <<server, lovr, launches, missed>>

SceneStep ==
  \/ NoLaunch \/ LaunchCrash \/ Launch \/ Resync \/ Unpark \/ GiveUp \/ Advertise \/ Watch
  \/ EnvFileWritten \/ Connect \/ Exit \/ Drain

Answers == {"ok", "not_started", "backpressure"}

ToolCall ==
  \E answer \in Answers, val \in Vals, type \in Types, i \in Ids :
    \/ AddPrimitive(type, val, answer) \/ UpdatePrimitive(i, val, answer)
    \/ ChangeType(i, type, val, answer) \/ RemovePrimitive(i, answer)

StartCall == \E status \in {"already_started", "error", "starting"} : StartXr(status)

SceneNext == SceneStep \/ ToolCall \/ StartCall

SceneSpec == SceneInit /\ [][SceneNext]_scene

-----------------------------------------------------------------------------
(* Once started and with nothing on the way, LOVR shows the scene, unless  *)
(* an operation of this launch was answered "not_started" or               *)
(* "backpressure" or its resync was cut short: the order in which resync   *)
(* and tool calls interleave is not enough.                                *)
DriftNeedsMiss ==
  started /\ lovr = "up" /\ wire = <<>> /\ ~missed => shown = Range(objects)

\* What the caller is told while LOVR is gone for good: the flag is down, so
\* the next start_xr launches again.
GoneIsNoticed == started => lovr # "none"

\* The comment at the end of start_lovr_once: started means "LOVR connected AND
\* scene restored".
StartedMeansRestored == started /\ lovr = "up" /\ wire = <<>> => shown = Range(objects)
===============================================================================
