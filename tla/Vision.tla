-------------------------------- MODULE Vision --------------------------------
(***************************************************************************)
(* Questions about what the camera sees.  VisionModule keeps the newest    *)
(* frame signal of every track, waits for a fresh one when it has none,    *)
(* fetches and encodes the frame and streams the model's answer (ask, for  *)
(* speech) or returns it whole (perceive, for a tool call).  The brain     *)
(* runs one such question per participant as a task and cancels it when    *)
(* another comes or the participant leaves.                                *)
(*                                                                         *)
(* Spoken questions and the news that a participant left go through the    *)
(* pipeline's queue to the brain; typed questions and frame signals come   *)
(* from the endpoint and overtake them.                                    *)
(***************************************************************************)
EXTENDS Integers, Sequences, FiniteSets, FiniteSetsExt

CONSTANTS
  Participants, Tracks,
  Kinds,         \* how a brain puts questions: a subset of {"ask", "perceive"}
  FrameMaxAge,   \* frame_max_age_s: a signal this old is stale
  FrameTimeout,  \* frame_timeout_s: how long a question waits for a frame
  WaitSlice,     \* the longest single wait, 5 s in the code
  Lags,          \* how old a signal may be when it arrives
  Sizes,         \* widths and heights of frames, in pixels
  MaxAsks,       \* bound: questions
  MaxSessions    \* bound: times a participant joins

ASSUME VisionAssumption ==
  /\ {FrameMaxAge, FrameTimeout, WaitSlice} \subseteq Nat \ {0}
  /\ Lags \subseteq 0 .. FrameMaxAge /\ {MaxAsks, MaxSessions} \subseteq Nat
  /\ Kinds \subseteq {"ask", "perceive"} /\ Sizes \subseteq Nat \ {0}

Asks == 1 .. MaxAsks

\* Time is kept as ages and as time left, in seconds.  A signal as old as Stale
\* is of no use, and neither is the lack of one.
Stale == FrameMaxAge
Ages  == 0 .. Stale

Working == {"streaming", "yielded", "failed", "closing"}
Steps   == {"none", "new", "waiting", "timedout", "fetching", "done"}
             \union Working
Outcome == {"open", "answered", "no frame", "failed", "raised", "superseded", "left"}

VARIABLES
  latest,     \* _latest: the age of the newest signal of each track
  event,      \* _frame_events
  pc,         \* where the task of each question is
  questions,  \* what each question is: who, how, in which session, typed or spoken
  left,       \* time left of the wait in progress, and before the deadline
  outcome,    \* how each question ended
  inflight,   \* the brain's table: the question running for a participant, or 0
  badge,      \* the status shown to a participant
  present,    \* is the participant in the room
  session,    \* history: how many times the participant has joined
  queue,      \* frames on their way to the brain
  heard,      \* history: a fresh signal came while the question's wait had time left
  kind,       \* how this brain puts its questions
  robbed      \* history: questions cancelled by the end of an earlier session

camera == <<latest, event>>
tasks  == <<pc, questions, left, outcome, inflight, heard, robbed>>
room   == <<present, session, queue>>
visionVars   == <<camera, tasks, badge, room, kind>>

Question == [pid : Participants, typed : BOOLEAN, session : 1 .. MaxSessions]

VisionTypeOK ==
  /\ latest \in [Participants \X Tracks -> Ages]
  /\ event \in [Participants -> {"absent", "clear", "set"}]
  /\ pc \in [Asks -> Steps] /\ questions \in Seq(Question) /\ Len(questions) <= MaxAsks
  /\ left \in [Asks -> [slice : 0 .. WaitSlice, deadline : 0 .. FrameTimeout]]
  /\ outcome \in [Asks -> Outcome]
  /\ inflight \in [Participants -> 0 .. MaxAsks]
  /\ badge \in [Participants -> {"idle", "processing"}]
  /\ present \subseteq Participants /\ session \in [Participants -> 0 .. MaxSessions]
  /\ \A i \in DOMAIN queue : queue[i].type \in {"left", "query"}
  /\ heard \subseteq Asks /\ robbed \subseteq Asks /\ kind \in Kinds

NoWait == [slice |-> 0, deadline |-> 0]

VisionInit ==
  /\ latest = [k \in Participants \X Tracks |-> Stale]
  /\ event = [p \in Participants |-> "absent"]
  /\ pc = [a \in Asks |-> "none"] /\ questions = <<>>
  /\ left = [a \in Asks |-> NoWait]
  /\ outcome = [a \in Asks |-> "open"]
  /\ inflight = [p \in Participants |-> 0]
  /\ badge = [p \in Participants |-> "idle"]
  /\ present = {} /\ session = [p \in Participants |-> 0] /\ queue = <<>>
  /\ heard = {} /\ robbed = {} /\ kind \in Kinds

-----------------------------------------------------------------------------
(* Frame signals.                                                          *)

Of(p) == {k \in DOMAIN latest : k[1] = p}

\* mutant: of the last track instead, as its sequence number would say
LastTrackSignal(p) == latest[CHOOSE k \in Of(p) : TRUE]

\* _latest_signal: the newest by wall clock, over all tracks of p.
LatestSignal(p) == Min({latest[k] : k \in Of(p)})

Fresh(age) == age < FrameMaxAge
HasFresh(p) == Fresh(LatestSignal(p))

\* _on_frame: the track's newest signal is kept; a waiter is woken.
OnFrame(p, t, age) ==
  /\ latest' = [latest EXCEPT ![<<p, t>>] = age]
  /\ event' = [event EXCEPT ![p] = IF @ = "absent" THEN @ ELSE "set"]

WaitsOf(p) == {a \in DOMAIN questions : questions[a].pid = p /\ pc[a] = "waiting"}

\* The hub announces a frame of a participant in the room, some time after it
\* was taken.  A track's signals come in the order the frames were taken.
Signal(p, t) ==
  \E age \in Lags :
    /\ p \in present /\ age <= latest[<<p, t>>]
    /\ OnFrame(p, t, age)
    /\ heard' = heard \union {a \in WaitsOf(p) : Fresh(age) /\ left[a].slice > 0}
    /\ UNCHANGED <<pc, questions, left, outcome, inflight, robbed, badge, room, kind>>

-----------------------------------------------------------------------------
(* The brain's tasks.                                                      *)

\* Where a cancelled task is left: one that streams an answer to speech still
\* has its "finally" to run, any other ends.
Cancelled(a) ==
  IF kind = "ask" /\ pc[a] \in {"streaming", "yielded", "failed"}
  THEN "closing" ELSE "done"

\* _cancel_pid: the running task of p, if any, is out of the table and cancelled.
CancelPid(p, why, new) ==
  LET old == inflight[p]
      hit == old # 0 /\ pc[old] # "done"
      here(a) == hit /\ a = old
  IN /\ inflight' = [inflight EXCEPT ![p] = new]
     /\ pc' = [a \in Asks |-> IF here(a) THEN Cancelled(a) ELSE IF a = new THEN "new" ELSE pc[a]]
     /\ outcome' = [a \in Asks |-> IF here(a) THEN why ELSE outcome[a]]
     /\ left' = [a \in Asks |-> IF here(a) THEN NoWait ELSE left[a]]
     /\ robbed' = robbed \union
          {a \in DOMAIN questions : here(a) /\ why = "left" /\ Head(queue).session < questions[a].session}

\* handle_query or look_at_current_frame in a new task, in place of the old one.
SpawnQuery(q) ==
  /\ Len(questions) < MaxAsks
  /\ questions' = Append(questions, q)
  /\ CancelPid(q.pid, "superseded", Len(questions) + 1)
  /\ UNCHANGED heard

QuestionOf(p, typed) ==
  [pid |-> p, typed |-> typed, session |-> session[p]]

\* _on_data: a typed question goes to the brain at once.
TypeQuestion(p) ==
  /\ p \in present
  /\ SpawnQuery(QuestionOf(p, TRUE))
  /\ UNCHANGED <<camera, badge, room, kind>>

\* mutant: the speech path calls the brain as the data path does
SpeakAtOnce(p) ==
  /\ p \in present
  /\ SpawnQuery(QuestionOf(p, FALSE))
  /\ UNCHANGED <<camera, badge, room, kind>>

Spoken == {i \in DOMAIN queue : queue[i].type = "query"}

\* A spoken question joins the queue.
SpeakQuestion(p) ==
  /\ p \in present /\ Len(questions) + Cardinality(Spoken) < MaxAsks
  /\ queue' = Append(queue, [type |-> "query", question |-> QuestionOf(p, FALSE)])
  /\ UNCHANGED <<camera, tasks, badge, present, session, kind>>

Join(p) ==
  /\ p \notin present /\ session[p] < MaxSessions
  /\ present' = present \union {p}
  /\ session' = [session EXCEPT ![p] = @ + 1]
  /\ UNCHANGED <<camera, tasks, badge, queue, kind>>

Leave(p) ==
  /\ p \in present
  /\ present' = present \ {p}
  /\ queue' = Append(queue, [type |-> "left", pid |-> p, session |-> session[p]])
  /\ UNCHANGED <<camera, tasks, badge, session, kind>>

\* release: what is known of p's camera goes.
Release(p) ==
  /\ latest' = [k \in DOMAIN latest |-> IF k[1] = p THEN Stale ELSE latest[k]]
  /\ event' = [event EXCEPT ![p] = "absent"]

\* The brain takes the next frame: a question, or that a participant left.
BrainTakes ==
  /\ queue # <<>>
  /\ LET f == Head(queue)
     IN \/ /\ f.type = "query" /\ SpawnQuery(f.question)
           /\ UNCHANGED camera
        \/ /\ f.type = "left"
           /\ Release(f.pid) /\ CancelPid(f.pid, "left", 0)
           /\ UNCHANGED <<questions, heard>>
  /\ queue' = Tail(queue)
  /\ UNCHANGED <<badge, present, session, kind>>

-----------------------------------------------------------------------------
(* Acquiring an image.                                                     *)

At(a, from, to) == pc[a] = from /\ pc' = [pc EXCEPT ![a] = to]

\* The task ends; the table forgets it unless another has its place.
Finish(a, how) ==
  /\ pc' = [pc EXCEPT ![a] = "done"]
  /\ outcome' = [outcome EXCEPT ![a] = how]
  /\ inflight' = [inflight EXCEPT ![questions[a].pid] = IF @ = a THEN 0 ELSE @]

Wait(a, deadline) ==
  /\ event' = [event EXCEPT ![questions[a].pid] = "clear"]
  /\ left' = [left EXCEPT ![a] = [slice |-> Min({deadline, WaitSlice}), deadline |-> deadline]]

\* A fresh signal in hand is used, else the wait begins.
Start(a) ==
  /\ IF HasFresh(questions[a].pid)
     THEN At(a, "new", "fetching") /\ UNCHANGED <<event, left>>
     ELSE At(a, "new", "waiting") /\ Wait(a, FrameTimeout)
  /\ UNCHANGED <<latest, questions, outcome, inflight, heard, robbed, badge, room, kind>>

EndWait(a) == left' = [left EXCEPT ![a] = NoWait]

\* mutant: every wait gets the whole timeout again
WaitAfresh(a) ==
  /\ Wait(a, FrameTimeout)
  /\ pc' = [pc EXCEPT ![a] = "waiting"] /\ UNCHANGED <<outcome, inflight>>

\* The wait goes on until the deadline.
WaitOn(a) ==
  IF left[a].deadline = 0
  THEN /\ Finish(a, "no frame") /\ EndWait(a)
       /\ event' = [event EXCEPT ![questions[a].pid] = "clear"]
  ELSE /\ Wait(a, left[a].deadline)
       /\ pc' = [pc EXCEPT ![a] = "waiting"] /\ UNCHANGED <<outcome, inflight>>

\* The event was set: a fresh signal is used, a stale one waited out.
Wake(a) ==
  /\ pc[a] = "waiting" /\ event[questions[a].pid] = "set"
  /\ \/ /\ HasFresh(questions[a].pid)
        /\ At(a, "waiting", "fetching") /\ EndWait(a) /\ UNCHANGED <<event, outcome, inflight>>
     \/ ~HasFresh(questions[a].pid) /\ WaitOn(a)
  /\ UNCHANGED <<latest, questions, heard, robbed, badge, room, kind>>

\* The timer of the wait fires; the task runs a moment later.  The wait is over even
\* if a signal has set the event in the same pass of the loop: wait_for raises all the
\* same, and the event is cleared.
TimerFires(a) ==
  /\ left[a].slice = 0
  /\ At(a, "waiting", "timedout")
  /\ UNCHANGED <<camera, questions, left, outcome, inflight, heard, robbed, badge, room, kind>>

TimedOut(a) ==
  /\ pc[a] = "timedout" /\ WaitOn(a)
  /\ UNCHANGED <<latest, questions, heard, robbed, badge, room, kind>>

Formats == {"I420", "NV12", "RGB24", "RGBA", "BGRA"}
FrameKinds  == [fmt : Formats, width : Sizes, height : Sizes]
Even(n) == n % 2 = 0

\* frame_to_pil: half a plane per chroma channel is cut for each of the two
\* planar formats, which fits frames of even width and height alone.
Readable(f) == f.fmt \in {"I420", "NV12"} => Even(f.width) /\ Even(f.height)

\* request_frame and the encoding in the executor: an image, no frame, or a frame
\* that cannot be read, which raises what neither ask nor perceive catches.
Acquired(a) ==
  \/ /\ At(a, "fetching", "streaming")
     /\ \E f \in FrameKinds : Readable(f)
     /\ badge' = IF kind = "ask" THEN [badge EXCEPT ![questions[a].pid] = "processing"] ELSE badge
     /\ UNCHANGED <<camera, questions, left, outcome, inflight, heard, robbed, room, kind>>
  \/ /\ pc[a] = "fetching"
     /\ \/ Finish(a, "failed")
        \/ (\E f \in FrameKinds : ~Readable(f)) /\ Finish(a, "raised")
     /\ UNCHANGED <<camera, questions, left, heard, robbed, badge, room, kind>>

-----------------------------------------------------------------------------
(* The model's answer.                                                     *)

\* The "finally" of ask.
SetIdle(a) == badge' = IF kind = "ask" THEN [badge EXCEPT ![questions[a].pid] = "idle"] ELSE badge

\* A line of the event stream with text in it: the token goes to the pipeline
\* before the next line is read.  Lines without text change nothing.
Token(a) ==
  /\ kind = "ask" /\ At(a, "streaming", "yielded")
  /\ UNCHANGED <<camera, questions, left, outcome, inflight, heard, robbed, badge, room, kind>>

\* The stream ends, with its end marker or without: the answer is over.
StreamEnds(a) ==
  /\ pc[a] = "streaming" /\ kind = "ask"
  /\ Finish(a, "answered") /\ SetIdle(a)
  /\ UNCHANGED <<camera, questions, left, heard, robbed, room, kind>>

\* An error status, a broken connection, a reply that is not understood: the
\* canned line is a token like any other.
StreamFails(a) ==
  /\ kind = "ask" /\ At(a, "streaming", "failed")
  /\ UNCHANGED <<camera, questions, left, outcome, inflight, heard, robbed, badge, room, kind>>

\* The pipeline has taken the token.
Resume(a) ==
  \/ /\ At(a, "yielded", "streaming")
     /\ UNCHANGED <<camera, questions, left, outcome, inflight, heard, robbed, badge, room, kind>>
  \/ /\ pc[a] = "failed" /\ Finish(a, "failed") /\ SetIdle(a)
     /\ UNCHANGED <<camera, questions, left, heard, robbed, room, kind>>

\* perceive: the whole reply; an empty one is a failure like an error.
Perceived(a) ==
  /\ pc[a] = "streaming" /\ kind = "perceive"
  /\ \E how \in {"answered", "failed"} : Finish(a, how)
  /\ UNCHANGED <<camera, questions, left, heard, robbed, badge, room, kind>>

\* The "finally" of a cancelled ask: at the task's next step when it was reading
\* the stream, when the generator is collected when it was suspended in a yield.
Close(a) ==
  /\ At(a, "closing", "done") /\ SetIdle(a)
  /\ UNCHANGED <<camera, questions, left, outcome, inflight, heard, robbed, room, kind>>

\* A second passes: the loop is idle, so no task is ready and no timer due.
Ready(a) ==
  \/ pc[a] \in {"new", "timedout", "yielded", "failed", "closing"}
  \/ pc[a] = "waiting" /\ (event[questions[a].pid] = "set" \/ left[a].slice = 0)

Tick ==
  /\ \A a \in DOMAIN questions : ~Ready(a)
  /\ latest' = [k \in DOMAIN latest |-> Min({Stale, latest[k] + 1})]
  /\ left' = [a \in Asks |-> IF a \in DOMAIN questions /\ pc[a] = "waiting"
                              THEN [slice |-> left[a].slice - 1, deadline |-> left[a].deadline - 1]
                              ELSE NoWait]
  /\ UNCHANGED <<event, pc, questions, outcome, inflight, heard, robbed, badge, room, kind>>

TaskStep(a) ==
  \/ Start(a) \/ Wake(a) \/ TimerFires(a) \/ TimedOut(a) \/ Acquired(a)
  \/ StreamEnds(a) \/ StreamFails(a) \/ Resume(a) \/ Perceived(a) \/ Close(a)

RoomStep(p) ==
  \/ Join(p) \/ Leave(p) \/ \E t \in Tracks : Signal(p, t)
  \/ TypeQuestion(p) \/ SpeakQuestion(p)

VisionNext ==
  \/ \E p \in Participants : RoomStep(p)
  \/ \E a \in DOMAIN questions : TaskStep(a) \/ Token(a)
  \/ BrainTakes \/ Tick

\* The loop runs what is ready, frames are answered or refused in time and the
\* model's answers end however many tokens they have; the clock goes on.
VisionSpec ==
  /\ VisionInit /\ [][VisionNext]_visionVars
  /\ \A a \in Asks : WF_visionVars(a \in DOMAIN questions /\ TaskStep(a))
  /\ \A a \in Asks : SF_visionVars(a \in DOMAIN questions /\ (StreamEnds(a) \/ StreamFails(a)))
  /\ SF_visionVars(Tick)

-----------------------------------------------------------------------------
(* Properties.                                                             *)

\* "No camera frame available" is true: no fresh frame was announced in any slice of
\* the question's wait.  What could break it is a signal between the check and the
\* wait, a wait that is not woken, an older track's signal that hides a newer one, a
\* slice that discards what the one before was told.  A signal that comes once the
\* slice's timer is due is excepted: the timer may win, and the event is cleared.
UnavailableIsTrue == \A a \in heard : outcome[a] # "no frame"

\* The badge says "processing" only while an answer to that participant is
\* streamed or is being given up, whatever cancels the question and wherever.
BadgeNeedsAsk ==
  \A p \in Participants :
    badge[p] = "processing" =>
      \E a \in DOMAIN questions :
        questions[a].pid = p /\ kind = "ask" /\ pc[a] \in Working

\* A participant's leaving cancels a spoken question of that session at most:
\* the news and the question travel in one queue.  Typed questions do not.
LeaveCancelsOwn ==
  \A a \in DOMAIN questions :
    a \in robbed => questions[a].typed

\* Every question ends, fresh frames or none.
EveryAskEnds == \A a \in Asks : (pc[a] = "new") ~> (pc[a] = "done")

\* What the code does not keep.  Typed questions of a session that follows are
\* cancelled by the news of the last one's end.
LeaveCancelsOwnAlways == robbed = {}

\* "It sets processing for the duration of the VLM stream": not when the
\* "finally" of the question before comes late.
BadgeWhileStreaming ==
  \A a \in DOMAIN questions :
    kind = "ask" /\ pc[a] \in {"streaming", "yielded"} =>
      badge[questions[a].pid] = "processing"

\* A question that fails has a line to speak.
FailureIsHeard == \A a \in Asks : outcome[a] # "raised"
=============================================================================
