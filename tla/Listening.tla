------------------------------- MODULE Listening -------------------------------
(***************************************************************************)
(* The listening half of the voice pipeline: VadSttProcessor feeds the     *)
(* audio of each participant to a VadDetector, transcribes the utterances  *)
(* it finds, and runs an early probe for a spoken "stop"; the VoiceGate    *)
(* decides which transcripts are queries.                                  *)
(*                                                                         *)
(* These tasks interleave at their awaits: one task handles the audio of   *)
(* all participants, chunk by chunk, and waits in on_utterance; one handles *)
(* the frames of departures; each utterance has a task for on_speech_start *)
(* and one for its probe; the gate handles its frames in a task of its own. *)
(***************************************************************************)
EXTENDS Integers, Sequences, SequencesExt

CONSTANTS
  Speakers,
  MinSpeech,      \* min_speech, in chunks of audio
  Silence,        \* silence_duration, in chunks
  MaxLength,      \* _MAX_UTT_S, in chunks
  PreRoll,        \* _PRE_ROLL_CHUNKS
  MaxUtterances,  \* bound: runs of speech
  MaxRoster,      \* bound: joins and leaves the pipeline has not handled
  Conditions      \* the conditions a behaviour may have, each a subset of ConditionNames

\* "phrases": magic phrases are configured; "leave": participants leave and
\* come back; "burst": chunks that have queued up are handled without a pause
\* in which the other tasks could run; "slow push": push_frame may suspend.
ConditionNames == {"phrases", "leave", "burst", "slow push"}

ASSUME HearingAssumption ==
  /\ {MinSpeech, Silence, MaxUtterances, MaxRoster} \subseteq Nat \ {0} /\ PreRoll \in Nat
  /\ MaxLength \in Nat /\ MaxLength > MinSpeech + Silence + PreRoll
  /\ Conditions \subseteq SUBSET ConditionNames

Utterances == 1 .. MaxUtterances

Texts == {"stop", "phrase", "phrase query", "other"}
GateFrame == [type : {"transcript"}, u : Utterances, text : Texts]
             \union [type : {"joined", "left"}, pid : Speakers]

VARIABLES
  present,    \* participants in the session
  det,        \* det[p]: the detector of p
  owner,      \* owner[u]: who spoke utterance u; a history
  start,      \* start[u]: the task that runs on_speech_start for u
  probe,      \* probe[u]: the probe of u
  task,       \* _probe_task: the utterance whose probe it is, or 0
  buffer,     \* _probe_buffer and _probe_sr: no entry, an empty one, one with audio
  fired,      \* _stop_fired_for_current_utterance
  audio,      \* where the task that handles audio is: the utterance it waits for
  roster,     \* joins and leaves on their way to the VAD processor
  evicting,   \* the head of roster waits for the end of a probe
  gateIn,     \* frames on their way to the gate
  window,     \* _followup_until: participants with an open window
  condition,  \* those of this behaviour
  started,    \* history: utterances with a UserStartedSpeakingFrame
  stopped,    \* history: those with the UserStoppedSpeakingFrame of on_utterance
  cutOff,     \* history: those that ended at the length limit
  suppressed,\* history: those on_utterance suppressed
  heard,    \* history: heard[u] transcripts of u were pushed
  answer,   \* history: what the gate made of u
  dropped,  \* history: utterances whose transcript an interruption dropped
  last      \* history: the last thing of p the gate saw

probes  == <<start, probe, task, buffer, fired>>
gate    == <<gateIn, window, answer, dropped, last>>
history == <<started, stopped, cutOff, suppressed, heard>>
hearingVars    == <<present, det, owner, probes, audio, roster, evicting, gate, condition, history>>

\* VadDetector as it is created and as _finalize leaves it: not speaking.
Quiet == [u |-> 0, speech |-> 0, silent |-> 0, length |-> 0, pre |-> 0, fired |-> FALSE]

HearingTypeOK ==
  /\ present \subseteq Speakers
  /\ det \in [Speakers ->
       [u : 0 .. MaxUtterances, speech : 0 .. MinSpeech, silent : 0 .. Silence,
        length : 0 .. MaxLength, pre : 0 .. PreRoll, fired : BOOLEAN]]
  /\ owner \in Seq(Speakers) /\ Len(owner) <= MaxUtterances
  /\ start \in [Utterances -> {"none", "ready", "waits", "done"}]
  /\ probe \in [Utterances -> {"none", "sleeps", "stt", "interrupted", "over"}]
  /\ task \in [Speakers -> 0 .. MaxUtterances]
  /\ buffer \in [Speakers -> {"closed", "empty", "audio"}]
  /\ fired \subseteq Speakers
  /\ audio \in [u : 0 .. MaxUtterances, stage : {"idle", "cancel", "stt"}]
  /\ roster \in Seq([type : {"joined", "left"}, pid : Speakers])
  /\ evicting \in BOOLEAN
  /\ gateIn \in Seq(GateFrame)
  /\ window \subseteq Speakers
  /\ answer \in [Utterances -> {"none", "stop", "query", "followup", "phrase", "drop"}]
  /\ heard \in [Utterances -> 0 .. 2]
  /\ UNION {started, stopped, cutOff, suppressed, dropped} \subseteq Utterances

HearingInit ==
  /\ present = Speakers /\ det = [p \in Speakers |-> Quiet]
  /\ owner = <<>> /\ start = [u \in Utterances |-> "none"]
  /\ probe = [u \in Utterances |-> "none"] /\ task = [p \in Speakers |-> 0]
  /\ buffer = [p \in Speakers |-> "closed"] /\ fired = {}
  /\ audio = [u |-> 0, stage |-> "idle"]
  /\ roster = <<>> /\ evicting = FALSE /\ gateIn = <<>> /\ window = {}
  /\ condition \in Conditions
  /\ started = {} /\ stopped = {} /\ cutOff = {} /\ suppressed = {} /\ dropped = {}
  /\ heard = [u \in Utterances |-> 0] /\ answer = [u \in Utterances |-> "none"]
  /\ last = [p \in Speakers |-> "nothing"]

-----------------------------------------------------------------------------
(* The session: joins and leaves come from the input transport.            *)

Leave(p) ==
  /\ "leave" \in condition /\ p \in present /\ audio.stage = "idle"
  /\ Len(roster \o gateIn) < MaxRoster
  /\ present' = present \ {p}
  /\ roster' = Append(roster, [type |-> "left", pid |-> p])
  /\ UNCHANGED <<det, owner, probes, audio, evicting, gate, condition, history>>

Join(p) ==
  /\ p \notin present /\ audio.stage = "idle"
  /\ Len(roster \o gateIn) < MaxRoster
  /\ present' = present \union {p}
  /\ roster' = Append(roster, [type |-> "joined", pid |-> p])
  /\ UNCHANGED <<det, owner, probes, audio, evicting, gate, condition, history>>

-----------------------------------------------------------------------------
(* The probe's task and table.                                             *)

Live(p) == task[p] # 0 /\ probe[task[p]] \in {"sleeps", "stt", "interrupted"}

\* _cancel_probe_task: the probe is out of the table and cancelled, and does
\* nothing more.  Who cancelled a live one waits for its end.
CancelProbe(p) ==
  /\ task' = [task EXCEPT ![p] = 0]
  /\ probe' = IF Live(p) THEN [probe EXCEPT ![task[p]] = "over"] ELSE probe

\* _handle_audio, after feed: a buffer that is open takes the chunk.
Accumulate(p) ==
  buffer' = [buffer EXCEPT ![p] = IF @ = "closed" THEN @ ELSE "audio"]

CloseBuffer(p) == buffer' = [buffer EXCEPT ![p] = "closed"]

PushToGate(frame) == gateIn' = Append(gateIn, frame)
Transcript(u, text) == [type |-> "transcript", u |-> u, text |-> text]

\* The end of on_speech_start: a buffer, a probe, a UserStartedSpeakingFrame.
OpenProbe(u) ==
  /\ buffer' = [buffer EXCEPT ![owner[u]] = "empty"]
  /\ task' = [task EXCEPT ![owner[u]] = u]
  /\ start' = [start EXCEPT ![u] = "done"]
  /\ started' = started \union {u}

\* on_speech_start, up to the end of the probe it cancels, if there is one.
SpeechStart(u) ==
  /\ start[u] = "ready"
  /\ fired' = fired \ {owner[u]}
  /\ \/ /\ Live(owner[u])
        /\ CancelProbe(owner[u]) /\ start' = [start EXCEPT ![u] = "waits"]
        /\ UNCHANGED <<buffer, started>>
     \/ /\ ~Live(owner[u])
        /\ OpenProbe(u) /\ probe' = [probe EXCEPT ![u] = "sleeps"]
  /\ UNCHANGED <<present, det, owner, audio, roster, evicting, gate, condition,
                 stopped, cutOff, suppressed, heard>>

SpeechStartResumes(u) ==
  /\ start[u] = "waits"
  /\ OpenProbe(u) /\ probe' = [probe EXCEPT ![u] = "sleeps"]
  /\ UNCHANGED <<present, det, owner, fired, audio, roster, evicting, gate, condition,
                 stopped, cutOff, suppressed, heard>>

\* _run_stop_probe: after stop_probe_after_s there is something to transcribe,
\* or the probe is over.
ProbeWakes(u) ==
  /\ probe[u] = "sleeps"
  /\ probe' = [probe EXCEPT ![u] = IF buffer[owner[u]] = "audio" THEN "stt" ELSE "over"]
  /\ UNCHANGED <<present, det, owner, start, task, buffer, fired, audio, roster, evicting,
                 gate, condition, history>>

\* An InterruptionFrame reaches the gate: what was queued there is dropped.
Interrupt(rest) ==
  /\ gateIn' = rest
  /\ dropped' = dropped \union {f.u : f \in {g \in ToSet(gateIn) : g.type = "transcript"}}
  /\ UNCHANGED <<window, answer, last>>

\* The partial audio is not a "stop", the service failed, or on_utterance has
\* closed the buffer.
ProbeHearsNothing(u) ==
  /\ probe[u] = "stt"
  /\ probe' = [probe EXCEPT ![u] = "over"]
  /\ UNCHANGED <<present, det, owner, start, task, buffer, fired, audio, roster, evicting,
                 gate, condition, history>>

Hear(u) == heard' = [heard EXCEPT ![u] = @ + 1]

\* The partial audio is a "stop": the flag, an InterruptionFrame, the
\* transcript, a UserStoppedSpeakingFrame, unless a push suspends.  The words
\* count as those of u, which they are unless there was a burst.
ProbeHearsStop(u) ==
  /\ probe[u] = "stt" /\ buffer[owner[u]] # "closed"
  /\ fired' = fired \union {owner[u]}
  /\ CloseBuffer(owner[u])
  /\ \/ "slow push" \in condition /\ Interrupt(<<>>)
        /\ probe' = [probe EXCEPT ![u] = "interrupted"] /\ UNCHANGED heard
     \/ "slow push" \notin condition /\ Interrupt(<<Transcript(u, "stop")>>)
        /\ probe' = [probe EXCEPT ![u] = "over"] /\ Hear(u)
  /\ UNCHANGED <<present, det, owner, start, task, audio, roster, evicting, condition,
                 started, stopped, cutOff, suppressed>>

\* The push of the InterruptionFrame returns.
ProbePushes(u) ==
  /\ probe[u] = "interrupted"
  /\ probe' = [probe EXCEPT ![u] = "over"]
  /\ PushToGate(Transcript(u, "stop")) /\ Hear(u)
  /\ UNCHANGED <<present, det, owner, start, task, buffer, fired, audio, roster, evicting,
                 window, answer, dropped, last, condition, started, stopped, cutOff, suppressed>>

-----------------------------------------------------------------------------
(* The audio of the participants.                                          *)

Low(n, max) == IF n < max THEN n ELSE max

\* VadDetector.feed, up to _finalize: the detector after a chunk of speech or
\* of silence.  An utterance begins with the first chunk of speech and has the
\* pre-roll in it.
Fed(d, loud) ==
  IF loud
    THEN [u |-> IF d.u = 0 THEN Len(owner) + 1 ELSE d.u,
          speech |-> Low(d.speech + 1, MinSpeech), silent |-> 0,
          length |-> d.length + d.pre + 1, pre |-> 0,
          fired |-> d.fired \/ d.speech = MinSpeech - 1]
    ELSE IF d.u # 0
      THEN [d EXCEPT !.length = @ + 1, !.silent = Low(@ + 1, Silence)]
      ELSE [d EXCEPT !.pre = Low(@ + 1, PreRoll)]

\* The utterance is complete, or too long.
Complete(d) ==
  d.u # 0 /\ (d.length >= MaxLength \/ (d.speech = MinSpeech /\ d.silent = Silence))

\* mutant: the flag is not looked at
FinalizeAnyway(u) ==
  /\ CloseBuffer(owner'[u])
  /\ audio' = [u |-> u, stage |-> "stt"]
  /\ stopped' = stopped \union {u}
  /\ UNCHANGED <<fired, suppressed>>

\* on_utterance, once no probe runs: the buffer is closed, and the utterance is
\* transcribed, unless the probe has told of it.
Finalize(u) ==
  /\ CloseBuffer(owner'[u])
  /\ IF owner'[u] \in fired
       THEN /\ fired' = fired \ {owner'[u]} /\ suppressed' = suppressed \union {u}
            /\ audio' = [u |-> 0, stage |-> "idle"]
            /\ UNCHANGED stopped
       ELSE /\ audio' = [u |-> u, stage |-> "stt"]
            /\ stopped' = stopped \union {u}
            /\ UNCHANGED <<fired, suppressed>>

\* The tasks that need no answer from a service have run.
Settled == roster = <<>> /\ \A u \in Utterances : start[u] \in {"none", "done"}

\* _handle_audio: a chunk of p.  Unless there is a burst, the tasks that were
\* ready have run since the last chunk.
HearChunk(p, loud) ==
  LET d == Fed(det[p], loud) IN
  /\ p \in present /\ audio.stage = "idle"
  /\ "burst" \in condition \/ Settled
  /\ d.u <= MaxUtterances
  /\ owner' = IF d.u > Len(owner) THEN Append(owner, p) ELSE owner
  /\ start' = IF d.fired /\ ~det[p].fired THEN [start EXCEPT ![d.u] = "ready"] ELSE start
  /\ \/ /\ ~Complete(d)
        /\ det' = [det EXCEPT ![p] = d]
        /\ Accumulate(p)
        /\ UNCHANGED <<probe, task, fired, audio, cutOff, stopped, suppressed>>
     \/ /\ Complete(d)
        /\ det' = [det EXCEPT ![p] = Quiet]
        /\ cutOff' = IF d.length >= MaxLength THEN cutOff \union {d.u} ELSE cutOff
        /\ CancelProbe(p)
        /\ \/ /\ Live(p) /\ audio' = [u |-> d.u, stage |-> "cancel"]
              /\ UNCHANGED <<buffer, fired, stopped, suppressed>>
           \/ ~Live(p) /\ Finalize(d.u)
  /\ UNCHANGED <<present, roster, evicting, gate, condition, started, heard>>

\* on_utterance resumes: the probe it cancelled has ended.
FinalizeResumes ==
  /\ audio.stage = "cancel"
  /\ owner' = owner
  /\ Finalize(audio.u)
  /\ UNCHANGED <<present, det, start, probe, task, roster, evicting, gate, condition,
                 started, cutOff, heard>>

\* transcribe answers; it fails or hears nothing if there is no text.
Transcribed(text) ==
  /\ audio.stage = "stt"
  /\ audio' = [u |-> 0, stage |-> "idle"]
  /\ \/ text \in Texts /\ PushToGate(Transcript(audio.u, text)) /\ Hear(audio.u)
     \/ text = "nothing" /\ UNCHANGED <<gateIn, heard>>
  /\ Accumulate(owner[audio.u])
  /\ UNCHANGED <<present, det, owner, start, probe, task, fired, roster, evicting, window,
                 answer, dropped, last, condition, started, stopped, cutOff, suppressed>>

-----------------------------------------------------------------------------
(* Joins and leaves pass the VAD processor.                                *)

PassOn ==
  /\ PushToGate(Head(roster)) /\ roster' = Tail(roster) /\ evicting' = FALSE
  /\ UNCHANGED <<window, answer, dropped, last>>

\* _evict_participant, once no probe runs.
Forget(p) ==
  /\ det' = [det EXCEPT ![p] = Quiet]
  /\ CloseBuffer(p)
  /\ fired' = fired \ {p}

JoinPasses ==
  /\ roster # <<>> /\ Head(roster).type = "joined"
  /\ PassOn
  /\ UNCHANGED <<present, det, owner, probes, audio, condition, history>>

Evict ==
  /\ roster # <<>> /\ Head(roster).type = "left" /\ ~evicting
  /\ "burst" \in condition \/ \A u \in Utterances : start[u] # "ready"
  /\ CancelProbe(Head(roster).pid)
  /\ \/ /\ Live(Head(roster).pid) /\ evicting' = TRUE
        /\ UNCHANGED <<det, buffer, fired, roster, gate>>
     \/ ~Live(Head(roster).pid) /\ Forget(Head(roster).pid) /\ PassOn
  /\ UNCHANGED <<present, owner, start, audio, condition, history>>

EvictResumes ==
  /\ evicting
  /\ Forget(Head(roster).pid) /\ PassOn
  /\ UNCHANGED <<present, owner, start, probe, task, audio, condition, history>>

-----------------------------------------------------------------------------
(* The gate.                                                               *)

\* mutant: a "stop" needs the phrase or a window
VerdictGatesStop(p, text) ==
  IF "phrases" \notin condition THEN IF text = "stop" THEN "stop" ELSE "query"
  ELSE IF text = "phrase query" THEN "query"
  ELSE IF text = "phrase" THEN "phrase"
  ELSE IF p \in window THEN "followup" ELSE "drop"

\* VoiceGate.feed: what it makes of a transcript.
Verdict(p, text) ==
  IF text = "stop" THEN "stop"
  ELSE IF "phrases" \notin condition \/ text = "phrase query" THEN "query"
  ELSE IF text = "phrase" THEN "phrase"
  ELSE IF p \in window THEN "followup" ELSE "drop"

\* The magic phrase alone opens the window; anything else closes it.
Decide(p, text) ==
  window' = IF Verdict(p, text) = "phrase" THEN window \union {p} ELSE window \ {p}

GateHears ==
  /\ gateIn # <<>> /\ Head(gateIn).type = "transcript"
  /\ LET f == Head(gateIn) IN
       /\ answer' = [answer EXCEPT ![f.u] = Verdict(owner[f.u], f.text)]
       /\ Decide(owner[f.u], f.text)
       /\ last' = [last EXCEPT ![owner[f.u]] = Verdict(owner[f.u], f.text)]
  /\ gateIn' = Tail(gateIn)
  /\ UNCHANGED <<present, det, owner, probes, audio, roster, evicting, dropped, condition, history>>

\* A join is greeted, which changes no state of the gate; a leave is forgotten.
GateSeesRoster ==
  /\ gateIn # <<>> /\ Head(gateIn).type # "transcript"
  /\ window' = IF Head(gateIn).type = "left" THEN window \ {Head(gateIn).pid} ELSE window
  /\ last' = [last EXCEPT ![Head(gateIn).pid] = IF Head(gateIn).type = "left" THEN "left" ELSE @]
  /\ gateIn' = Tail(gateIn)
  /\ UNCHANGED <<present, det, owner, probes, audio, roster, evicting, answer, dropped,
                 condition, history>>

\* followup_grace_s is over.
WindowCloses(p) ==
  /\ p \in window
  /\ window' = window \ {p}
  /\ UNCHANGED <<present, det, owner, probes, audio, roster, evicting, gateIn, answer,
                 dropped, last, condition, history>>

-----------------------------------------------------------------------------
HearingNext ==
  \/ \E p \in Speakers :
       \/ Leave(p) \/ Join(p) \/ WindowCloses(p)
       \/ \E loud \in BOOLEAN : HearChunk(p, loud)
  \/ \E u \in Utterances :
       \/ SpeechStart(u) \/ SpeechStartResumes(u) \/ ProbeWakes(u)
       \/ ProbeHearsNothing(u) \/ ProbeHearsStop(u) \/ ProbePushes(u)
  \/ \E text \in Texts \union {"nothing"} : Transcribed(text)
  \/ FinalizeResumes \/ JoinPasses \/ Evict \/ EvictResumes \/ GateHears \/ GateSeesRoster

HearingSpec == HearingInit /\ [][HearingNext]_hearingVars

\* The event loop runs the tasks that are ready.
HearingFairSpec == HearingSpec /\ WF_hearingVars(GateHears) /\ WF_hearingVars(GateSeesRoster)
                 /\ \A u \in Utterances : WF_hearingVars(ProbePushes(u))

-----------------------------------------------------------------------------
(* Properties.                                                             *)

\* on_speech_start runs when its utterance begins.  It may run too late when
\* there is a burst, or when the chunk that begins an utterance also ends it.
Punctual == "burst" \notin condition /\ cutOff = {}

\* An utterance is suppressed only if the gate has been told of it: the probe's
\* "stop" of one utterance never swallows another one, whatever is cancelled,
\* evicted and started meanwhile (vad_stt.py:169-184).
SuppressedWasHeard ==
  Punctual /\ "slow push" \notin condition => \A u \in suppressed : heard[u] = 1

\* No utterance is told to the gate twice, by the probe and by on_utterance: the
\* acknowledgement of a "stop" is not doubled (vad_stt.py:99-103).
HeardOnce == Punctual => \A u \in Utterances : heard[u] <= 1

\* Consumers that see an utterance begin see it begin before it ends, and a
\* probe is at work only while somebody speaks (vad_stt.py:90-93).
StartsBeforeItStops ==
  Punctual =>
    /\ \A u \in stopped : start[u] # "none" => u \in started
    /\ \A p \in Speakers : Live(p) => det[p].u = task[p] \/ audio.u = task[p]

\* Once a participant's leave is handled, nothing is kept of it until it is back:
\* no detector at work, buffer, probe or flag (vad_stt.py:340-348).
LeaversForgotten ==
  Punctual /\ roster = <<>> =>
    \A p \in Speakers \ present :
      det[p] = Quiet /\ buffer[p] = "closed" /\ ~Live(p) /\ p \notin fired

\* A window is open only if the magic phrase alone was the last thing the gate
\* heard in the participant's session, so ambient speech is a query at most once
\* per phrase.
WindowFollowsPhrase == \A p \in window : last[p] = "phrase"

\* Every "stop" that suppresses its utterance is acknowledged by the gate, unless
\* another interruption drops the transcript.
StopsAreAcknowledged ==
  \A u \in Utterances :
    u \in suppressed /\ heard[u] > 0 ~> answer[u] = "stop" \/ u \in dropped

\* Only speech of at least min_speech counts as an utterance
\* (docs/source/components/agent-sdk.md:281).
OnlySpeechIsUttered == \A u \in stopped : start[u] # "none"
===============================================================================
