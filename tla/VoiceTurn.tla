------------------------------- MODULE VoiceTurn -------------------------------
(***************************************************************************)
(* The speaking half of the voice pipeline: BrainProcessor runs at most    *)
(* one query task per participant and pushes its text, chunk by chunk, to  *)
(* StreamingTtsProcessor, which cuts one shared buffer into sentences,     *)
(* synthesizes them in parallel and sends the audio in order through the   *)
(* output transport to the hub.  A new query cancels the old one; a "stop" *)
(* cancels it and sends an InterruptionFrame after its text.               *)
(*                                                                         *)
(* Tasks share an event loop and interleave between frames.  Pipecat       *)
(* queues the frames between two processors; an interruption overtakes     *)
(* what was queued before it and drops it.                                 *)
(***************************************************************************)
EXTENDS Integers, Sequences, SequencesExt

CONSTANTS
  Participants,
  Nobody,     \* no target participant
  MaxTurns,   \* bound: queries and stops
  MaxChunks,  \* bound: chunks of text in a reply
  MaxQueued,  \* bound: frames between the brain and the TTS processor
  Settings    \* the settings a behaviour may have, each a subset of Switches

\* "drain": the brain's on_query_superseded pushes an interruption, which the
\* default does not; "leave": participants may leave.
Switches == {"drain", "leave"}

ASSUME ConstantsAssumption ==
  /\ MaxTurns \in Nat /\ MaxChunks \in Nat \ {0} /\ MaxQueued \in Nat \ {0}
  /\ Nobody \notin Participants /\ Settings \subseteq SUBSET Switches

Turns == 1 .. MaxTurns

\* A piece of a reply: whose, the turn, its place in it.
Piece == [pid : Participants, turn : Turns, k : 1 .. MaxChunks]
Frame == [type : {"text"}, piece : Piece, ends : BOOLEAN]
         \union [type : {"end", "stop"}, pid : Participants, turn : Turns]
Audio == [type : {"audio"}, pid : Participants, text : Seq(Piece)]
Sentence == [pid : Participants, text : Seq(Piece), wav : {"wait", "ok", "failed"}]

VARIABLES
  joined,     \* participants the brain has been told of
  asker,      \* asker[t]: who began turn t, in order
  status,     \* status[t] of the task of turn t
  produced,   \* produced[t]: chunks pushed for turn t
  inflight,   \* _inflight: the turn running for a participant, or 0
  seen,       \* _seen_query
  target,     \* the output transport's _target_participant
  ttsIn,      \* frames on their way to the TTS processor
  pending,    \* _pending: text not yet cut into a sentence
  sentences,  \* the sender's queue, with the state of each synth task
  outIn,      \* frames on their way to the output transport
  backlog,    \* backlog[p]: audio at the hub and in the return pipe
  dispatched, \* history: sentences given to the TTS service
  ended,      \* history: turns whose end marker the TTS processor has seen
  ttsStopped, \* history: the last interruption for p the TTS processor handled
  outStopped, \* history: the last one the output transport handled
  setting     \* the setting of this behaviour

brain   == <<joined, asker, status, produced, inflight, seen, target>>
tts     == <<pending, sentences, dispatched, ended, ttsStopped>>
output  == <<outIn, backlog, outStopped>>
vars    == <<brain, ttsIn, tts, output, setting>>

TypeOK ==
  /\ joined \subseteq Participants
  /\ asker \in Seq(Participants) /\ Len(asker) <= MaxTurns
  /\ status \in [Turns -> {"none", "running", "cancelling", "cancelled", "done"}]
  /\ produced \in [Turns -> 0 .. MaxChunks]
  /\ inflight \in [Participants -> 0 .. MaxTurns]
  /\ seen \subseteq joined
  /\ target \in joined \union {Nobody}
  /\ ttsIn \in Seq(Frame)
  /\ pending \in Seq(Piece)
  /\ sentences \in Seq(Sentence)
  /\ outIn \in Seq(Audio \union Frame)
  /\ backlog \in [Participants -> Seq(Audio)]
  /\ dispatched \subseteq [pid : Participants, text : Seq(Piece)]
  /\ ended \subseteq Turns
  /\ {ttsStopped, outStopped} \subseteq [Participants -> 0 .. MaxTurns]
  /\ setting \in Settings

Zero == [p \in Participants |-> 0]

Init ==
  /\ joined = {} /\ asker = <<>> /\ seen = {} /\ target = Nobody
  /\ status = [t \in Turns |-> "none"] /\ produced = [t \in Turns |-> 0]
  /\ inflight = Zero
  /\ ttsIn = <<>> /\ pending = <<>> /\ sentences = <<>> /\ outIn = <<>>
  /\ backlog = [p \in Participants |-> <<>>]
  /\ dispatched = {} /\ ended = {} /\ ttsStopped = Zero /\ outStopped = Zero
  /\ setting \in Settings

-----------------------------------------------------------------------------
(* The brain.                                                              *)

StopFrame(p, t) == [type |-> "stop", pid |-> p, turn |-> t]
EndFrame(p, t)  == [type |-> "end", pid |-> p, turn |-> t]
TextFrame(p, t, k, ends) ==
  [type |-> "text", piece |-> [pid |-> p, turn |-> t, k |-> k], ends |-> ends]

Push(frames) ==
  /\ Len(ttsIn) + Len(frames) <= MaxQueued
  /\ ttsIn' = ttsIn \o frames

\* A participant begins a turn, of which there are at most MaxTurns.
Begin(p) ==
  /\ p \in joined /\ Len(asker) < MaxTurns
  /\ asker' = Append(asker, p)

\* _cancel_pid: the task in the table is out of it and cancelled; it pushes
\* nothing more, not even the end marker.  The turn "new" takes its place, none
\* if it is 0.
CancelPid(p, new) ==
  /\ inflight' = [inflight EXCEPT ![p] = new]
  /\ status' = [t \in Turns |->
                  IF t = new THEN "running"
                  ELSE IF t = inflight[p] THEN "cancelling" ELSE status[t]]

\* ParticipantJoinedFrame
Joined(p) ==
  /\ p \notin joined
  /\ joined' = joined \union {p}
  /\ target' = p
  /\ UNCHANGED <<setting, asker, status, produced, inflight, seen, ttsIn, tts, output>>

\* ParticipantLeftFrame
Left(p) ==
  /\ p \in joined /\ "leave" \in setting
  /\ joined' = joined \ {p} /\ seen' = seen \ {p}
  /\ target' = IF target = p THEN Nobody ELSE target
  /\ CancelPid(p, 0)
  /\ UNCHANGED <<setting, asker, produced, ttsIn, tts, output>>

\* _spawn_query
Query(p) ==
  /\ Begin(p)
  /\ IF p \in seen /\ "drain" \in setting THEN Push(<<StopFrame(p, Len(asker'))>>) ELSE ttsIn' = ttsIn
  /\ seen' = seen \union {p}
  /\ CancelPid(p, Len(asker'))
  /\ UNCHANGED <<setting, joined, produced, target, tts, output>>

\* The voice gate heard "stop": an InterruptionFrame, then the canned reply,
\* which counts as a turn of one chunk that no task runs for.
Stop(p) ==
  /\ Begin(p)
  /\ CancelPid(p, 0)
  /\ produced' = [produced EXCEPT ![Len(asker')] = 1]
  /\ Push(<<StopFrame(p, Len(asker')), TextFrame(p, Len(asker'), 1, TRUE)>>)
  /\ UNCHANGED <<setting, joined, seen, target, tts, output>>

\* _run_query: another chunk of the reply, which may end a sentence.
Chunk(t, ends) ==
  /\ status[t] = "running" /\ produced[t] < MaxChunks
  /\ produced' = [produced EXCEPT ![t] = @ + 1]
  /\ Push(<<TextFrame(asker[t], t, produced[t] + 1, ends)>>)
  /\ UNCHANGED <<setting, joined, asker, status, inflight, seen, target, tts, output>>

\* mutant: the task empties the slot whoever has it
LeaveSlotUnchecked(t) == inflight' = [inflight EXCEPT ![asker[t]] = 0]

\* The end of a task: it leaves the table, unless a newer one has its slot.
LeaveSlot(t) ==
  inflight' = [inflight EXCEPT ![asker[t]] = IF @ = t THEN 0 ELSE @]

\* _run_query: the reply is complete, or handle_query raised.
Finish(t) ==
  /\ status[t] = "running"
  /\ status' = [status EXCEPT ![t] = "done"]
  /\ LeaveSlot(t)
  /\ Push(<<EndFrame(asker[t], t)>>)
  /\ UNCHANGED <<setting, joined, asker, produced, seen, target, tts, output>>

\* The cancellation reaches the task.
Unwind(t) ==
  /\ status[t] = "cancelling"
  /\ status' = [status EXCEPT ![t] = "cancelled"]
  /\ LeaveSlot(t)
  /\ UNCHANGED <<setting, joined, asker, produced, seen, target, ttsIn, tts, output>>

-----------------------------------------------------------------------------
(* The TTS processor.                                                      *)

\* _dispatch_sentence
Dispatch(p, text) ==
  /\ sentences' = Append(sentences, [pid |-> p, text |-> text, wav |-> "wait"])
  /\ dispatched' = dispatched \union {[pid |-> p, text |-> text]}

\* _handle_text: a chunk that ends a sentence takes with it all that was
\* pending, whoever it was for.
HandleText ==
  /\ ttsIn # <<>> /\ Head(ttsIn).type = "text"
  /\ LET f    == Head(ttsIn)
         text == Append(pending, f.piece)
     IN  \/ f.ends  /\ Dispatch(f.piece.pid, text) /\ pending' = <<>>
         \/ ~f.ends /\ pending' = text /\ UNCHANGED <<sentences, dispatched>>
  /\ ttsIn' = Tail(ttsIn)
  /\ UNCHANGED <<setting, brain, ended, ttsStopped, output>>

\* mutant: the tail is forgotten
HandleEndForgetsTail ==
  /\ ttsIn # <<>> /\ Head(ttsIn).type = "end"
  /\ pending' = <<>>
  /\ ended' = ended \union {Head(ttsIn).turn}
  /\ ttsIn' = Tail(ttsIn)
  /\ UNCHANGED <<setting, brain, sentences, dispatched, ttsStopped, output>>

\* _handle_response_end: flush the tail, echo the reply on the data channel.
HandleEnd ==
  /\ ttsIn # <<>> /\ Head(ttsIn).type = "end"
  /\ \/ pending # <<>> /\ Dispatch(Head(ttsIn).pid, pending)
     \/ pending = <<>> /\ UNCHANGED <<sentences, dispatched>>
  /\ pending' = <<>>
  /\ ended' = ended \union {Head(ttsIn).turn}
  /\ ttsIn' = Tail(ttsIn)
  /\ UNCHANGED <<setting, brain, ttsStopped, output>>

\* mutant: the buffer survives an interruption
HandleStopKeepsPending ==
  \E i \in DOMAIN ttsIn :
    /\ ttsIn[i].type = "stop" /\ \A j \in 1 .. i - 1 : ttsIn[j].type # "stop"
    /\ ttsIn' = SubSeq(ttsIn, i + 1, Len(ttsIn))
    /\ sentences' = <<>> /\ pending' = pending
    /\ ttsStopped' = [ttsStopped EXCEPT ![ttsIn[i].pid] = ttsIn[i].turn]
    /\ backlog' = [p \in Participants |-> IF p = target THEN <<>> ELSE backlog[p]]
    /\ outIn' = Append(outIn, ttsIn[i])
    /\ UNCHANGED <<setting, brain, dispatched, ended, outStopped>>

\* An interruption: what was queued before it is dropped; _drain_on_interrupt
\* clears the buffer, cancels sender and synth tasks, and has the hub flush the
\* return audio of the target participant; then it is passed on.
HandleStop ==
  \E i \in DOMAIN ttsIn :
    /\ ttsIn[i].type = "stop" /\ \A j \in 1 .. i - 1 : ttsIn[j].type # "stop"
    /\ ttsIn' = SubSeq(ttsIn, i + 1, Len(ttsIn))
    /\ sentences' = <<>> /\ pending' = <<>>
    /\ ttsStopped' = [ttsStopped EXCEPT ![ttsIn[i].pid] = ttsIn[i].turn]
    /\ backlog' = [p \in Participants |-> IF p = target THEN <<>> ELSE backlog[p]]
    /\ outIn' = Append(outIn, ttsIn[i])
    /\ UNCHANGED <<setting, brain, dispatched, ended, outStopped>>

\* A synth task ends, in any order.
Synthesized(i, wav) ==
  /\ sentences[i].wav = "wait"
  /\ sentences' = [sentences EXCEPT ![i].wav = wav]
  /\ UNCHANGED <<setting, brain, ttsIn, pending, dispatched, ended, ttsStopped, output>>

AudioFrame(s) == [type |-> "audio", pid |-> s.pid, text |-> s.text]

\* mutant: the sender waits for a synth task that has failed
SpeakWaits ==
  /\ sentences # <<>> /\ Head(sentences).wav = "ok"
  /\ outIn' = Append(outIn, AudioFrame(Head(sentences)))
  /\ sentences' = Tail(sentences)
  /\ UNCHANGED <<setting, brain, ttsIn, pending, dispatched, ended, ttsStopped, backlog, outStopped>>

\* _sender_loop: the first sentence goes out when it is ready; one that failed,
\* or has no audio, is skipped.
Speak ==
  /\ sentences # <<>> /\ Head(sentences).wav # "wait"
  /\ outIn' = IF Head(sentences).wav = "ok" THEN Append(outIn, AudioFrame(Head(sentences)))
              ELSE outIn
  /\ sentences' = Tail(sentences)
  /\ UNCHANGED <<setting, brain, ttsIn, pending, dispatched, ended, ttsStopped, backlog, outStopped>>

-----------------------------------------------------------------------------
(* The output transport and the way to the participant.                    *)

\* write_audio_frame, of the sender of the frame's participant.
Write ==
  /\ outIn # <<>> /\ Head(outIn).type = "audio"
  /\ backlog' = [backlog EXCEPT ![Head(outIn).pid] = Append(@, Head(outIn))]
  /\ outIn' = Tail(outIn)
  /\ UNCHANGED <<setting, brain, ttsIn, tts, outStopped>>

\* An interruption reaches the output transport.
OutputStop ==
  \E i \in DOMAIN outIn :
    /\ outIn[i].type = "stop" /\ \A j \in 1 .. i - 1 : outIn[j].type # "stop"
    /\ outIn' = SubSeq(outIn, i + 1, Len(outIn))
    /\ outStopped' = [outStopped EXCEPT ![outIn[i].pid] = outIn[i].turn]
    /\ UNCHANGED <<setting, brain, ttsIn, tts, backlog>>

Play(p) ==
  /\ backlog[p] # <<>>
  /\ backlog' = [backlog EXCEPT ![p] = Tail(@)]
  /\ UNCHANGED <<setting, brain, ttsIn, tts, outIn, outStopped>>

-----------------------------------------------------------------------------
Next ==
  \/ \E p \in Participants :
       \/ Joined(p) \/ Left(p) \/ Query(p) \/ Stop(p) \/ Play(p)
  \/ \E t \in Turns : Finish(t) \/ Unwind(t) \/ \E ends \in BOOLEAN : Chunk(t, ends)
  \/ HandleText \/ HandleEnd \/ HandleStop \/ Speak \/ Write \/ OutputStop
  \/ \E i \in DOMAIN sentences, wav \in {"ok", "failed"} : Synthesized(i, wav)

Spec == Init /\ [][Next]_vars

\* The event loop runs every task that is ready, and the TTS service answers
\* or fails.
FairSpec ==
  /\ Spec
  /\ WF_vars(Speak) /\ WF_vars(Write) /\ WF_vars(OutputStop)
  /\ WF_vars(HandleText \/ HandleEnd \/ HandleStop)
  /\ WF_vars(\E i \in DOMAIN sentences, wav \in {"ok", "failed"} : Synthesized(i, wav))

-----------------------------------------------------------------------------
(* Properties.                                                             *)

IsText(f)  == f.type = "text"

TextOf(f) ==
  IF f.type = "audio" THEN f.text ELSE IF IsText(f) THEN <<f.piece>> ELSE <<>>

\* All text on its way to somebody's ears, the oldest first: in four queues, each of
\* them a sequence of texts.
Way == <<[i \in DOMAIN outIn |-> TextOf(outIn[i])],
         [i \in DOMAIN sentences |-> sentences[i].text],
         <<pending>>,
         [i \in DOMAIN ttsIn |-> TextOf(ttsIn[i])]>>

\* The pieces in the TTS processor, or on their way to it.
Unspoken ==
  (UNION {ToSet(s.text) : s \in ToSet(sentences)}) \union ToSet(pending)
    \union {f.piece : f \in {g \in ToSet(ttsIn) : IsText(g)}}

\* A participant has at most one query in flight, the one in the table, so that
\* the next query or a stop can cancel it; also when the task it replaced is
\* still unwinding.
OneQueryInFlight ==
  \A t \in Turns : status[t] = "running" <=> t <= Len(asker) /\ inflight[asker[t]] = t

Earlier(x, y) == x.turn < y.turn \/ (x.turn = y.turn /\ x.k < y.k)

\* However the tasks of several replies, synth calls and interruptions
\* interleave, what a participant was answered is spoken in the order in which
\* it was written.
SpeechInOrder ==
  \A g, h \in 1 .. 4 : \A i \in DOMAIN Way[g], j \in DOMAIN Way[h] :
    \A a \in DOMAIN Way[g][i], b \in DOMAIN Way[h][j] :
      /\ g < h \/ (g = h /\ (i < j \/ (i = j /\ a < b)))
      /\ Way[g][i][a].pid = Way[h][j][b].pid
      => Earlier(Way[g][i][a], Way[h][j][b])

\* Once the TTS processor has handled a participant's stop, no text of what was
\* stopped is left in it, or comes to it: not in the buffer, not in the queue of
\* sentences, not from the cancelled task.
StopSilencesTurn == \A piece \in Unspoken : piece.turn >= ttsStopped[piece.pid]

\* One participant alone has asked.
Lone == \A t, u \in DOMAIN asker : asker[t] = asker[u]

\* The data channel echoes a reply when its end marker is seen; by then, while one
\* participant alone has asked, all of it has been given to the TTS service.
EchoMatchesSpeech ==
  Lone =>
    \A t \in ended : \A k \in 1 .. produced[t] :
      \E s \in dispatched : \E i \in DOMAIN s.text :
        s.text[i].turn = t /\ s.text[i].k = k /\ s.text[i].pid = s.pid

\* A sentence is made from the text of one reply.
OneTurnPerSentence ==
  \A s \in dispatched : \A i, j \in DOMAIN s.text : s.text[i].turn = s.text[j].turn

\* A drain on every follow-up keeps the replies to one participant apart, while
\* nobody leaves; those to two still share the buffer (streaming_tts.py:141).
DrainsKeepTurnsApart == setting = {"drain"} /\ Lone => OneTurnPerSentence

\* Participants are not read what was meant for others.
NoCrossTalk == \A s \in dispatched : \A i \in DOMAIN s.text : s.text[i].pid = s.pid

\* Whoever consumes the replies never sees a turn open whose end marker is not
\* on its way and will not come.
EndMarkerPerTurn ==
  \A s \in dispatched : \A i \in DOMAIN s.text :
    status[s.text[i].turn] \in {"cancelling", "cancelled"} => s.text[i].turn \in ended

\* When a stop has gone through the pipeline, nothing of what it stopped is
\* left to be played to the participant.
StopImmediate ==
  \A p \in Participants : \A i \in DOMAIN backlog[p] : \A j \in DOMAIN backlog[p][i].text :
    backlog[p][i].text[j].turn >= outStopped[p]

\* An interruption by one participant takes nothing from what is played to
\* another.
StopIsScoped ==
  [][\A p, q \in Participants :
       p # q /\ ttsStopped'[p] # ttsStopped[p] => backlog'[q] = backlog[q]]_vars

\* Every sentence is spoken or given up; a failing TTS service silences nobody
\* for longer than the sentence it fails on.
SentencesLeave == sentences # <<>> ~> sentences = <<>>
===============================================================================
