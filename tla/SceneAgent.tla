------------------------------- MODULE SceneAgent -------------------------------
(***************************************************************************)
(* The worker of xr-render-demo: a brain that runs an agentic loop per     *)
(* query over the tools of render-mcp (RenderScene), and the agent that    *)
(* starts the XR session when a client asks for it.                        *)
(*                                                                         *)
(* Queries of one participant replace each other, those of two run side by *)
(* side, and all share the move log, the snapshot it is computed from and  *)
(* the conversation history.  A tool call is a request and a reply: other  *)
(* tasks run between the two, either may be lost, and a turn that is       *)
(* cancelled or told of an error leaves its request behind.  The language  *)
(* model is whatever calls and texts it likes.                             *)
(***************************************************************************)
EXTENDS RenderScene

CONSTANTS
  Participants,
  MaxAsks,     \* bound: queries
  MaxLoop,     \* bound: tool calls in a turn (_MAX_LOOP answers of one or more each)
  MaxOrphans,  \* bound: requests left behind at once
  MovesMax,    \* _recent_moves_max
  HistoryMax   \* _history_max

ASSUME AgentAssumption ==
  /\ MaxAsks \in Nat /\ MaxLoop \in Nat \ {0} /\ MaxOrphans \in Nat
  /\ MovesMax \in Nat \ {0} /\ HistoryMax \in Nat \ {0}

None == [tool |-> "none"]
\* "other": the tools of oxr-mcp, vec-mcp, vlm-mcp, video-mcp and get_scene_state;
\* "update" and "retype": update_primitive with a place, without and with a new type
Calls == [tool : {"other"}] \union [tool : {"add"}, type : Types, val : Vals]
         \union [tool : {"update"}, id : Ids, val : Vals] \union [tool : {"remove"}, id : Ids]
         \union {c \in [tool : {"retype"}, id : Ids, type : Types, val : Vals] : c.type # c.id[1]}
Replies == Answers \union {"not_found", "no_view", "failed", "error"}
Move == [id : Ids, prev : Vals, new : Vals]

VARIABLES
  turn,       \* turn[p]: where the turn of p is
  step,       \* step[p]: tool calls of the turn so far
  view,       \* view[p]: the scene the turn's context was read from
  call,       \* call[p]: the tool call the turn waits for
  reply,      \* reply[p]: its answer
  from,       \* history: from[p]: where that call found the object it moved
  orphans,    \* requests that nobody waits for, not served yet
  unseen,     \* history: objects that were moved behind the snapshot's back
  preMove,    \* _pre_move_positions
  moves,      \* _recent_moves
  history,    \* _history: whose exchanges
  xrStarted,  \* _xr_started
  session,    \* session[p]: the handler of xr.session.started
  acked,      \* acked[p]: what the handler has told p
  asks        \* queries so far

turns    == <<turn, step, view, call, reply, from, orphans, unseen, asks>>
log      == <<preMove, moves, history>>
sessions == <<xrStarted, session, acked>>
vars     == <<scene, turns, log, sessions>>

TypeOK ==
  /\ SceneTypeOK
  /\ turn \in [Participants -> {"idle", "gather", "think", "call", "reply", "notice"}]
  /\ step \in [Participants -> 0 .. MaxLoop]
  /\ view \in [Participants -> SUBSET Object]
  /\ call \in [Participants -> Calls \union {None}]
  /\ reply \in [Participants -> Replies \union {"none"}]
  /\ from \in [Participants -> SUBSET Vals]
  /\ orphans \subseteq Calls /\ unseen \subseteq Ids
  /\ preMove \subseteq Object
  /\ moves \in Seq(Move) /\ Len(moves) <= MovesMax
  /\ history \in Seq(Participants) /\ Len(history) <= HistoryMax
  /\ xrStarted \in BOOLEAN
  /\ session \in [Participants -> {"idle", "calling", "polling"}]
  /\ acked \in [Participants -> {"none", "due", "ready", "notice", "cut"}]
  /\ asks \in 0 .. MaxAsks

AgentInit ==
  /\ turn = [p \in Participants |-> "idle"] /\ step = [p \in Participants |-> 0]
  /\ view = [p \in Participants |-> {}] /\ call = [p \in Participants |-> None]
  /\ reply = [p \in Participants |-> "none"] /\ from = [p \in Participants |-> {}]
  /\ orphans = {} /\ unseen = {}
  /\ preMove = {} /\ moves = <<>> /\ history = <<>>
  /\ xrStarted = FALSE /\ session = [p \in Participants |-> "idle"]
  /\ acked = [p \in Participants |-> "none"]
  /\ asks = 0

Init == SceneInit /\ AgentInit

-----------------------------------------------------------------------------
(* A turn.                                                                 *)

\* update_primitive with a place
Moving(c) == c.tool \in {"update", "retype"}

\* The turn of p has yet to record a move of i.
Pending(p, i) == turn[p] = "reply" /\ reply[p] = "ok" /\ Moving(call[p]) /\ call[p].id = i

\* What a request that nobody waits for any more comes to: it never gets to the
\* server, or it does some time.
Leave(c) ==
  \/ UNCHANGED orphans
  \/ /\ c.tool # "other" /\ Cardinality(orphans) < MaxOrphans
     /\ orphans' = orphans \union {c}

\* _spawn_query: the turn in flight is cancelled, and with it the notice it was
\* to speak or the move it was to record.
Replace(p, new) ==
  /\ turn' = [turn EXCEPT ![p] = new]
  /\ step' = [step EXCEPT ![p] = 0]
  /\ call' = [call EXCEPT ![p] = None] /\ reply' = [reply EXCEPT ![p] = "none"]
  /\ from' = [from EXCEPT ![p] = {}]
  /\ IF turn[p] = "call" THEN Leave(call[p]) ELSE UNCHANGED orphans
  /\ unseen' = unseen \union {i \in Ids : Pending(p, i)}
  /\ view' = [view EXCEPT ![p] = {}]

\* A spoken or typed query; the quick acknowledgement changes nothing here.
Ask(p) ==
  /\ asks < MaxAsks /\ asks' = asks + 1
  /\ Replace(p, "gather")
  /\ acked' = [acked EXCEPT ![p] = IF turn[p] = "notice" THEN "cut" ELSE @]
  /\ UNCHANGED <<scene, log, xrStarted, session>>

\* render-mcp answers the get_scene_state of _build_turn_context, or cannot.
ReadScene(p) ==
  /\ turn[p] = "gather" /\ step[p] = 0
  /\ \E seen \in {Range(objects), {}} : view' = [view EXCEPT ![p] = seen]
  /\ step' = [step EXCEPT ![p] = 1]
  /\ UNCHANGED <<scene, turn, call, reply, from, orphans, unseen, asks, log, sessions>>

\* _build_turn_context: the other answers are there too.  The snapshot is new, but
\* for what has moved since it was read or is about to be recorded on top of it.
Context(p) ==
  /\ turn[p] = "gather" /\ step[p] = 1
  /\ preMove' = view[p]
  /\ unseen' = {o.id : o \in view[p] \ Range(objects)}
                \union {i \in unseen : \E q \in Participants : Pending(q, i)}
  /\ turn' = [turn EXCEPT ![p] = "think"] /\ step' = [step EXCEPT ![p] = 0]
  /\ view' = [view EXCEPT ![p] = {}]
  /\ UNCHANGED <<scene, call, reply, from, orphans, asks, moves, history, sessions>>

Remember(p) ==
  history' = LET h == Append(history, p) IN
             IF Len(h) > HistoryMax THEN Tail(h) ELSE h

\* The turn ends with an answer for the panel, the history and TTS.
End(p) ==
  /\ turn' = [turn EXCEPT ![p] = "idle"] /\ step' = [step EXCEPT ![p] = 0]
  /\ call' = [call EXCEPT ![p] = None] /\ reply' = [reply EXCEPT ![p] = "none"]
  /\ from' = [from EXCEPT ![p] = {}]
  /\ Remember(p)

\* The model answers with a text, or is out of steps or out of reach.
Answer(p) ==
  /\ turn[p] = "think"
  /\ End(p)
  /\ UNCHANGED <<scene, view, orphans, unseen, asks, preMove, moves, sessions>>

\* The model answers with a tool call, its own or one recovered from its text, or
\* the answer it gave has one more.
Think(p, c) ==
  /\ turn[p] = "think" /\ step[p] < MaxLoop
  /\ turn' = [turn EXCEPT ![p] = "call"] /\ step' = [step EXCEPT ![p] = @ + 1]
  /\ call' = [call EXCEPT ![p] = c]
  /\ UNCHANGED <<scene, view, reply, from, orphans, unseen, asks, log, sessions>>

\* render-mcp, or another server, handles a request.  A change of type is answered
\* without a reason.
Handle(c, answer) ==
  \/ c.tool = "other" /\ answer \in {"ok", "no_view"} /\ UNCHANGED scene
  \/ c.tool \in {"update", "retype", "remove"} /\ c.id \notin Known /\ answer = "not_found"
     /\ UNCHANGED scene
  \/ c.tool = "add" /\ AddPrimitive(c.type, c.val, answer)
  \/ c.tool = "remove" /\ RemovePrimitive(c.id, answer)
  \/ c.tool = "update" /\ UpdatePrimitive(c.id, c.val, answer)
  \/ /\ c.tool = "retype"
     /\ \E sent \in Answers : /\ ChangeType(c.id, c.type, c.val, sent)
                             /\ answer = IF sent = "ok" THEN "ok" ELSE "failed"

\* What a request moves without the snapshot being told in time: no turn will record
\* the move, or one has yet to record an earlier move of the object.
Unrecorded(c, told) ==
  {i \in Known : /\ Moving(c) /\ c.id = i
                 /\ told # "ok" \/ \E p \in Participants : Pending(p, i)}

\* _call_mcp: the server handles the request, and its answer may be lost.
Serve(p, answer) ==
  /\ turn[p] = "call"
  /\ Handle(call[p], answer)
  /\ turn' = [turn EXCEPT ![p] = "reply"]
  /\ \E told \in {answer, "error"} :
       /\ reply' = [reply EXCEPT ![p] = told]
       /\ unseen' = unseen \union Unrecorded(call[p], told)
  /\ from' = [from EXCEPT ![p] = {o.val : o \in {x \in Range(objects) : Moving(call[p]) /\ x.id = call[p].id}}]
  /\ UNCHANGED <<step, view, call, orphans, asks, log, sessions>>

\* _call_mcp: an error, and the server has not seen the request.
Fail(p) ==
  /\ turn[p] = "call"
  /\ turn' = [turn EXCEPT ![p] = "reply"] /\ reply' = [reply EXCEPT ![p] = "error"]
  /\ Leave(call[p])
  /\ UNCHANGED <<scene, step, view, call, from, unseen, asks, log, sessions>>

ServeOrphan(c, answer) ==
  /\ c \in orphans /\ orphans' = orphans \ {c}
  /\ Handle(c, answer)
  /\ unseen' = unseen \union Unrecorded(c, "nobody")
  /\ UNCHANGED <<turn, step, view, call, reply, from, asks, log, sessions>>

\* mutant: the snapshot keeps the position the turn began with
RecordOnce(p) ==
  LET c == call[p] IN
  \E o \in preMove :
    /\ o.id = c.id /\ o.val # c.val
    /\ moves' = LET m == Append(moves, [id |-> c.id, prev |-> o.val, new |-> c.val]) IN
                IF Len(m) > MovesMax THEN Tail(m) ELSE m
    /\ preMove' = preMove

\* _execute_tool: a move goes into the log, and the snapshot follows.
Record(p) ==
  LET c == call[p] IN
  \E o \in preMove :
    /\ o.id = c.id /\ o.val # c.val
    /\ moves' = LET m == Append(moves, [id |-> c.id, prev |-> o.val, new |-> c.val]) IN
                IF Len(m) > MovesMax THEN Tail(m) ELSE m
    /\ preMove' = (preMove \ {o}) \union {[o EXCEPT !.val = c.val]}

Moved(p) ==
  /\ Moving(call[p]) /\ reply[p] = "ok"
  /\ \E o \in preMove : o.id = call[p].id /\ o.val # call[p].val

\* The reply reaches the turn: there is no scene or no camera view, and the turn
\* ends with that; or a move is recorded and the model is asked again, which is also
\* what becomes of an error.
Reply(p) ==
  /\ turn[p] = "reply"
  /\ \/ reply[p] \in {"not_started", "no_view"} /\ End(p) /\ UNCHANGED <<preMove, moves>>
     \/ /\ reply[p] \notin {"not_started", "no_view"}
        /\ IF Moved(p) THEN Record(p) ELSE UNCHANGED <<preMove, moves>>
        /\ turn' = [turn EXCEPT ![p] = "think"]
        /\ call' = [call EXCEPT ![p] = None] /\ reply' = [reply EXCEPT ![p] = "none"]
        /\ from' = [from EXCEPT ![p] = {}]
        /\ UNCHANGED <<step, history>>
  /\ UNCHANGED <<scene, view, orphans, unseen, asks, sessions>>

\* _emit_notice
Speak(p) ==
  /\ turn[p] = "notice"
  /\ turn' = [turn EXCEPT ![p] = "idle"] /\ acked' = [acked EXCEPT ![p] = "notice"]
  /\ UNCHANGED <<scene, step, view, call, reply, from, orphans, unseen, asks, log, xrStarted, session>>

-----------------------------------------------------------------------------
(* The XR session.                                                         *)

\* _on_data with xr.session.started: the history is forgotten.  Once a session
\* was started, the worker answers from its own flag.
SessionStarted(p) ==
  /\ session[p] = "idle" /\ acked[p] = "none"
  /\ history' = <<>>
  /\ IF xrStarted THEN UNCHANGED session /\ acked' = [acked EXCEPT ![p] = "ready"]
     ELSE session' = [session EXCEPT ![p] = "calling"] /\ acked' = [acked EXCEPT ![p] = "due"]
  /\ UNCHANGED <<scene, turns, preMove, moves, xrStarted>>

\* _notify_launch_failed, enqueue_notice
Notify(p) ==
  /\ session' = [session EXCEPT ![p] = "idle"]
  /\ Replace(p, "notice")
  /\ UNCHANGED <<asks, log, xrStarted, acked>>

\* start_xr answers, or cannot be reached.
CallStart(p, status) ==
  /\ session[p] = "calling"
  /\ \/ /\ StartXr(status) /\ status # "error"
        /\ session' = [session EXCEPT ![p] = "polling"]
        /\ UNCHANGED <<turns, log, xrStarted, acked>>
     \/ StartXr(status) /\ status = "error" /\ Notify(p)
     \/ status = "unreachable" /\ UNCHANGED scene /\ Notify(p)

\* mutant: the poll loop looks at lovr_started only
PollForever(p) ==
  /\ session[p] = "polling" /\ started
  /\ xrStarted' = TRUE
  /\ session' = [session EXCEPT ![p] = "idle"] /\ acked' = [acked EXCEPT ![p] = "ready"]
  /\ UNCHANGED <<scene, turns, log>>

\* _wait_lovr: started, failed, or the deadline.
Poll(p) ==
  /\ session[p] = "polling"
  /\ UNCHANGED scene
  /\ \/ /\ started /\ xrStarted' = TRUE
        /\ session' = [session EXCEPT ![p] = "idle"] /\ acked' = [acked EXCEPT ![p] = "ready"]
        /\ UNCHANGED <<turns, log>>
     \/ ~started /\ Notify(p)

-----------------------------------------------------------------------------
TurnStep(p) ==
  \/ ReadScene(p) \/ Context(p) \/ Answer(p) \/ Reply(p) \/ Speak(p) \/ Fail(p)
  \/ \E answer \in Replies : Serve(p, answer)

SessionStep(p) ==
  \/ \E status \in {"already_started", "starting", "error", "unreachable"} : CallStart(p, status)
  \/ Poll(p)

Next ==
  \/ SceneStep /\ UNCHANGED <<turns, log, sessions>>
  \/ \E p \in Participants :
       \/ Ask(p) \/ SessionStarted(p) \/ TurnStep(p) \/ SessionStep(p)
       \/ \E c \in Calls : Think(p, c)
  \/ \E answer \in Replies : \E c \in orphans : ServeOrphan(c, answer)

Spec == Init /\ [][Next]_vars

\* The worker's tasks run, and its polling has a deadline.
FairSpec == Spec /\ \A p \in Participants : WF_vars(SessionStep(p)) /\ WF_vars(Speak(p))

-----------------------------------------------------------------------------
(* A move goes into the log as render-mcp made it: the turn that records   *)
(* it waited for that move of that object, from that place to that place.  *)
(* The snapshot the place comes from is a turn's own bookkeeping over      *)
(* queries that replace each other or run side by side; it is wrong about  *)
(* an object only if somebody moved it and could not record the move, or   *)
(* not yet (unseen).                                                       *)
MovesTruthful ==
  [][\A m \in Range(moves') \ Range(moves) : m.id \in unseen \/
       \E p \in Participants : Pending(p, m.id) /\ from[p] = {m.prev} /\ call[p].val = m.new]_vars

\* "Record (prev -> new) for any update_primitive that touched x/y/z": so that the log
\* would be right about every object.
MovesTruthfulAlways ==
  [][\A m \in Range(moves') \ Range(moves) :
       \E p \in Participants : Pending(p, m.id) /\ from[p] = {m.prev} /\ call[p].val = m.new]_vars

(* Every client that asks for the XR session is told that it is ready or   *)
(* that it is not, unless it talks over the message.                       *)
LaunchAnswered == \A p \in Participants : acked[p] = "due" ~> acked[p] # "due"

\* render.ready means that LOVR runs.
ReadyIsTrue == [][\A p \in Participants : acked'[p] = "ready" /\ acked[p] # "ready" => started]_vars
===============================================================================
