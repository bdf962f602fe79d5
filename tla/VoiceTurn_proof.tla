----------------------------- MODULE VoiceTurn_proof -----------------------------
(***************************************************************************)
(* Proofs about VoiceTurn and Listening.  The first invariant ties the     *)
(* three records the brain keeps of a turn together: who asked, the state  *)
(* of its task, and the table of tasks in flight, in which a turn stands   *)
(* under its own asker.  The second says that no text is behind a newer    *)
(* interruption of its participant on the way to the TTS processor, and    *)
(* that no task runs which could put it there.  The last one has the       *)
(* queues of texts in order, each behind the one it moves to.  The one of  *)
(* Listening ties an utterance's probe to the detector, the table of       *)
(* probes and the flag of its speaker.                                     *)
(***************************************************************************)
EXTENDS VoiceTurn, Listening, TLAPS

BrainTypes ==
  /\ asker \in Seq(Participants) /\ Len(asker) <= MaxTurns
  /\ status \in [Turns -> {"none", "running", "cancelling", "cancelled", "done"}]
  /\ inflight \in [Participants -> Nat]

\* A turn in the table stands under its asker.
TableOfAskers ==
  \A p \in Participants : inflight[p] # 0 =>
    /\ inflight[p] \in 1 .. Len(asker)
    /\ asker[inflight[p]] = p

\* A turn nobody has begun has no task.
TasksBegun == \A t \in Turns : status[t] # "none" => t <= Len(asker)

BrainInv == BrainTypes /\ TableOfAskers /\ TasksBegun /\ OneQueryInFlight

LEMMA InitBrain == Init => BrainInv
  BY ConstantsAssumption
  DEF Init, BrainInv, BrainTypes, TableOfAskers, TasksBegun, OneQueryInFlight, Zero, Turns

\* _cancel_pid, without a new turn, keeps the records together (a departure).
LEMMA CancelKeeps ==
  ASSUME BrainInv, NEW p \in Participants, CancelPid(p, 0), UNCHANGED asker
  PROVE  BrainInv'
<1>1. BrainTypes'
  BY DEF BrainInv, BrainTypes, CancelPid, Turns
<1>2. TableOfAskers'
  BY DEF BrainInv, BrainTypes, TableOfAskers, CancelPid
<1>3. OneQueryInFlight'
  <2> SUFFICES ASSUME NEW t \in Turns
               PROVE  status'[t] = "running" <=> t <= Len(asker) /\ inflight'[asker[t]] = t
    BY DEF OneQueryInFlight
  <2>1. t \in Nat \ {0} /\ (t <= Len(asker) => asker[t] \in Participants)
    BY ConstantsAssumption DEF BrainInv, BrainTypes, Turns
  <2>2. CASE t = inflight[p]
    BY <2>1, <2>2 DEF BrainInv, BrainTypes, TableOfAskers, CancelPid
  <2>3. CASE t # inflight[p]
    BY <2>1, <2>3 DEF BrainInv, BrainTypes, TableOfAskers, OneQueryInFlight, CancelPid
  <2> QED BY <2>2, <2>3
<1>4. TasksBegun'
  BY ConstantsAssumption DEF BrainInv, BrainTypes, TableOfAskers, TasksBegun, CancelPid, Turns
<1> QED BY <1>1, <1>2, <1>3, <1>4 DEF BrainInv

\* A new turn, for which a task runs (a query) or none does (a stop).
LEMMA BeginKeeps ==
  ASSUME BrainInv, NEW p \in Participants, Begin(p),
         NEW new \in {0, Len(asker')}, CancelPid(p, new)
  PROVE  BrainInv'
<1>1. /\ asker \in Seq(Participants)
      /\ Len(asker) \in Nat /\ Len(asker') = Len(asker) + 1
      /\ Len(asker') \in Turns
      /\ asker' \in Seq(Participants)
      /\ asker'[Len(asker')] = p
      /\ \A t \in 1 .. Len(asker) : asker'[t] = asker[t] /\ asker[t] \in Participants
  BY ConstantsAssumption DEF BrainInv, BrainTypes, Begin, Turns
<1>2. BrainTypes'
  BY <1>1, ConstantsAssumption DEF BrainInv, BrainTypes, CancelPid, Turns
<1>3. TableOfAskers'
  <2> SUFFICES ASSUME NEW q \in Participants, inflight'[q] # 0
               PROVE  inflight'[q] \in 1 .. Len(asker') /\ asker'[inflight'[q]] = q
    BY DEF TableOfAskers
  <2>1. CASE q = p
    BY <1>1, <2>1 DEF BrainInv, BrainTypes, CancelPid
  <2>2. CASE q # p
    <3>1. inflight'[q] = inflight[q]
      BY <2>2 DEF BrainInv, BrainTypes, CancelPid
    <3> QED BY <1>1, <3>1 DEF BrainInv, TableOfAskers
  <2> QED BY <2>1, <2>2
<1>4. TasksBegun'
  <2> SUFFICES ASSUME NEW t \in Turns, status'[t] # "none" PROVE t <= Len(asker')
    BY DEF TasksBegun
  <2>1. t \in Nat
    BY ConstantsAssumption DEF Turns
  <2>2. t = new \/ t = inflight[p] \/ status[t] # "none"
    BY DEF CancelPid
  <2> QED BY <1>1, <2>1, <2>2 DEF BrainInv, TableOfAskers, TasksBegun
<1>5. OneQueryInFlight'
  <2> SUFFICES ASSUME NEW t \in Turns
               PROVE  status'[t] = "running" <=> t <= Len(asker') /\ inflight'[asker'[t]] = t
    BY DEF OneQueryInFlight
  <2>1. t \in Nat \ {0}
    BY ConstantsAssumption DEF Turns
  <2>2. /\ inflight'[p] = new
        /\ \A q \in Participants : q # p => inflight'[q] = inflight[q]
        /\ status'[t] = IF t = new THEN "running"
                        ELSE IF t = inflight[p] THEN "cancelling" ELSE status[t]
    BY DEF BrainInv, BrainTypes, CancelPid
  <2>3. CASE t = Len(asker')
    <3>1. status[t] # "running" /\ t # inflight[p]
      BY <1>1, <2>1, <2>3 DEF BrainInv, BrainTypes, TableOfAskers, OneQueryInFlight
    <3> QED BY <1>1, <2>1, <2>2, <2>3, <3>1
  <2>4. CASE t <= Len(asker)
    <3>1. t # new /\ asker'[t] = asker[t] /\ asker[t] \in Participants
      BY <1>1, <2>1, <2>4
    <3>2. CASE asker[t] = p
      <4>1. status[t] = "running" <=> inflight[p] = t
        BY <2>4, <3>2 DEF BrainInv, OneQueryInFlight
      <4>2. status'[t] # "running" /\ inflight'[p] # t
        BY <2>2, <3>1, <4>1
      <4> QED BY <3>1, <3>2, <4>2
    <3>3. CASE asker[t] # p
      <4>1. t # inflight[p]
        BY <2>1, <3>3 DEF BrainInv, TableOfAskers
      <4> QED BY <1>1, <2>1, <2>2, <2>4, <3>1, <3>3, <4>1 DEF BrainInv, OneQueryInFlight
    <3> QED BY <3>2, <3>3
  <2>5. CASE t > Len(asker')
    <3>1. status[t] # "running" /\ t # new
      BY <1>1, <2>1, <2>5 DEF BrainInv, OneQueryInFlight
    <3> QED BY <1>1, <2>1, <2>2, <2>5, <3>1
  <2> QED BY <1>1, <2>1, <2>3, <2>4, <2>5
<1> QED BY <1>2, <1>3, <1>4, <1>5 DEF BrainInv

\* The end of a task, by itself or because it was cancelled.
LEMMA EndKeeps ==
  ASSUME BrainInv, NEW t \in Turns, NEW s \in {"done", "cancelled"},
         status[t] \in {"running", "cancelling"},
         status' = [status EXCEPT ![t] = s], LeaveSlot(t), UNCHANGED asker
  PROVE  BrainInv'
<1>1. t \in 1 .. Len(asker) /\ t \in Nat \ {0} /\ asker[t] \in Participants
  BY ConstantsAssumption DEF BrainInv, BrainTypes, TasksBegun, Turns
<1>2. BrainTypes'
  BY <1>1 DEF BrainInv, BrainTypes, LeaveSlot
<1>3. TableOfAskers'
  BY <1>1 DEF BrainInv, BrainTypes, TableOfAskers, LeaveSlot
<1>4. TasksBegun'
  BY <1>1 DEF BrainInv, BrainTypes, TasksBegun
<1>5. OneQueryInFlight'
  <2> SUFFICES ASSUME NEW u \in Turns
               PROVE  status'[u] = "running" <=> u <= Len(asker) /\ inflight'[asker[u]] = u
    BY DEF OneQueryInFlight
  <2>1. u \in Nat \ {0} /\ (u <= Len(asker) => asker[u] \in Participants)
    BY ConstantsAssumption DEF BrainInv, BrainTypes, Turns
  <2>2. CASE u = t
    BY <1>1, <2>1, <2>2 DEF BrainInv, BrainTypes, LeaveSlot
  <2>3. CASE u # t
    BY <1>1, <2>1, <2>3 DEF BrainInv, BrainTypes, OneQueryInFlight, LeaveSlot
  <2> QED BY <2>2, <2>3
<1> QED BY <1>2, <1>3, <1>4, <1>5 DEF BrainInv

\* Every action keeps them together.
LEMMA NextBrain == BrainInv /\ [Next]_vars => BrainInv'
<1> SUFFICES ASSUME BrainInv, [Next]_vars PROVE BrainInv'
  OBVIOUS
<1> USE DEF brain
<1>1. ASSUME NEW p \in Participants, Left(p) PROVE BrainInv'
  BY <1>1, CancelKeeps DEF Left
<1>2. ASSUME NEW p \in Participants, Query(p) PROVE BrainInv'
  BY <1>2, BeginKeeps DEF Query
<1>3. ASSUME NEW p \in Participants, Stop(p) PROVE BrainInv'
  BY <1>3, BeginKeeps DEF Stop
<1>4. ASSUME NEW t \in Turns, Finish(t) PROVE BrainInv'
  BY <1>4, EndKeeps DEF Finish
<1>5. ASSUME NEW t \in Turns, Unwind(t) PROVE BrainInv'
  BY <1>5, EndKeeps DEF Unwind
<1>6. ASSUME UNCHANGED <<asker, status, inflight>> PROVE BrainInv'
  BY <1>6 DEF BrainInv, BrainTypes, TableOfAskers, TasksBegun, OneQueryInFlight
<1>7. CASE \E p \in Participants : Joined(p) \/ Play(p)
  BY <1>6, <1>7 DEF Joined, Play
<1>8. CASE \E t \in Turns : \E ends \in BOOLEAN : Chunk(t, ends)
  BY <1>6, <1>8 DEF Chunk
<1>9. CASE HandleText \/ HandleEnd \/ HandleStop \/ Speak \/ Write \/ OutputStop
  BY <1>6, <1>9 DEF HandleText, HandleEnd, HandleStop, Speak, Write, OutputStop
<1>10. CASE \E i \in DOMAIN sentences, wav \in {"ok", "failed"} : Synthesized(i, wav)
  BY <1>6, <1>10 DEF Synthesized
<1>11. CASE UNCHANGED vars
  BY <1>6, <1>11 DEF vars
<1> QED
  BY <1>1, <1>2, <1>3, <1>4, <1>5, <1>7, <1>8, <1>9, <1>10, <1>11 DEF Next

\* A participant has at most one query in flight, and it is the one that the
\* next query or a stop will cancel (_spawn_query, _cancel_pid, and the check
\* at the end of _run_query), for any number of participants and turns.
THEOREM OneInFlight == Spec => []OneQueryInFlight
<1>1. Spec => []BrainInv
  BY InitBrain, NextBrain, PTL DEF Spec
<1> QED BY <1>1, PTL DEF BrainInv

-----------------------------------------------------------------------------
(* The stop.  An interruption on its way to the TTS processor is newer     *)
(* than all text of its participant before it, and older than the turn that *)
(* may still push text behind it.                                          *)

SpeechTypes ==
  /\ ttsIn \in Seq(Frame)
  /\ pending \in Seq(Piece)
  /\ sentences \in Seq(Sentence)
  /\ ttsStopped \in [Participants -> Nat]

Stops == {f \in ToSet(ttsIn) : f.type = "stop"}

\* No interruption, handled or not, is newer than the newest turn.
StopsOfTurns ==
  /\ \A p \in Participants : ttsStopped[p] <= Len(asker)
  /\ \A f \in Stops : f.turn <= Len(asker)

\* The task that runs for a participant began after every interruption of hers.
RunningUnstopped ==
  \A t \in Turns : status[t] = "running" =>
    /\ ttsStopped[asker[t]] <= t
    /\ \A f \in Stops : f.pid = asker[t] => f.turn <= t

\* Text behind an interruption is not older than it.
TextAfterStop ==
  \A i, j \in DOMAIN ttsIn :
    /\ i < j /\ ttsIn[i].type = "stop" /\ ttsIn[j].type = "text"
    /\ ttsIn[i].pid = ttsIn[j].piece.pid
    => ttsIn[i].turn <= ttsIn[j].piece.turn

StopInv == SpeechTypes /\ StopsOfTurns /\ RunningUnstopped /\ TextAfterStop /\ StopSilencesTurn

LEMMA StopStarts == Init => StopInv
<1> SUFFICES ASSUME Init PROVE StopInv
  OBVIOUS
<1>1. SpeechTypes
  BY DEF Init, SpeechTypes, Zero
<1>2. ToSet(ttsIn) = {} /\ ToSet(pending) = {} /\ ToSet(sentences) = {}
  BY DEF Init, ToSet
<1>3. StopsOfTurns
  BY <1>2 DEF Init, StopsOfTurns, Stops, Zero
<1>4. RunningUnstopped /\ TextAfterStop
  BY DEF Init, RunningUnstopped, TextAfterStop
<1>5. StopSilencesTurn
  BY <1>2 DEF StopSilencesTurn, Unspoken
<1> QED BY <1>1, <1>3, <1>4, <1>5 DEF StopInv

\* Frames have the fields of their type.
LEMMA FrameFields ==
  ASSUME NEW f \in Frame
  PROVE  /\ f.type = "text" => f.piece \in Piece /\ f.piece.pid \in Participants /\ f.piece.turn \in Nat
         /\ f.type \in {"stop", "end"} => f.pid \in Participants /\ f.turn \in Nat
  BY ConstantsAssumption DEF Frame, Piece, Turns

\* What is taken from the front of the queue leaves what is behind it as it was.
LEMMA Taken ==
  ASSUME SpeechTypes, NEW n \in 1 .. Len(ttsIn), ttsIn' = SubSeq(ttsIn, n + 1, Len(ttsIn))
  PROVE  /\ ttsIn' \in Seq(Frame)
         /\ Len(ttsIn') = Len(ttsIn) - n
         /\ \A i \in DOMAIN ttsIn' : i + n \in DOMAIN ttsIn /\ ttsIn'[i] = ttsIn[i + n]
         /\ ToSet(ttsIn)' \subseteq ToSet(ttsIn)
         /\ TextAfterStop => TextAfterStop'
<1>1. ttsIn \in Seq(Frame)
  BY DEF SpeechTypes
<1>2. /\ ttsIn' \in Seq(Frame) /\ Len(ttsIn') = Len(ttsIn) - n
      /\ \A i \in 1 .. Len(ttsIn') : i + n \in 1 .. Len(ttsIn) /\ ttsIn'[i] = ttsIn[i + n]
  BY <1>1
<1>3. DOMAIN ttsIn = 1 .. Len(ttsIn) /\ DOMAIN ttsIn' = 1 .. Len(ttsIn')
  BY <1>1, <1>2
<1>4. ToSet(ttsIn)' \subseteq ToSet(ttsIn)
  BY ZenonT(40), <1>2, <1>3 DEF ToSet
<1>5. ASSUME TextAfterStop PROVE TextAfterStop'
  <2> SUFFICES ASSUME NEW i \in DOMAIN ttsIn', NEW j \in DOMAIN ttsIn',
                      i < j, ttsIn'[i].type = "stop", ttsIn'[j].type = "text",
                      ttsIn'[i].pid = ttsIn'[j].piece.pid
               PROVE  ttsIn'[i].turn <= ttsIn'[j].piece.turn
    BY DEF TextAfterStop
  <2>1. i \in 1 .. Len(ttsIn') /\ j \in 1 .. Len(ttsIn') /\ i + n < j + n
    BY <1>3
  <2>2. /\ i + n \in DOMAIN ttsIn /\ j + n \in DOMAIN ttsIn
        /\ ttsIn'[i] = ttsIn[i + n] /\ ttsIn'[j] = ttsIn[j + n]
    BY <1>2, <1>3, <2>1
  <2> QED BY <1>5, <2>1, <2>2 DEF TextAfterStop
<1> QED BY <1>2, <1>3, <1>4, <1>5

\* The pieces of text that are pushed, with what may stand before them.
LEMMA Pushed ==
  ASSUME StopInv, NEW frames \in Seq(Frame), ttsIn' = ttsIn \o frames,
         \A i \in DOMAIN frames : frames[i].type = "text" =>
           /\ \A f \in Stops : f.pid = frames[i].piece.pid => f.turn <= frames[i].piece.turn
           /\ \A j \in DOMAIN frames : frames[j].type = "stop" => frames[j].turn <= frames[i].piece.turn
           /\ ttsStopped[frames[i].piece.pid] <= frames[i].piece.turn,
         UNCHANGED <<sentences, pending, ttsStopped>>
  PROVE  /\ ttsIn' \in Seq(Frame)
         /\ ToSet(ttsIn)' = ToSet(ttsIn) \union ToSet(frames)
         /\ SpeechTypes' /\ TextAfterStop' /\ StopSilencesTurn'
<1>1. ttsIn \in Seq(Frame)
  BY DEF StopInv, SpeechTypes
<1>2. /\ ttsIn' \in Seq(Frame) /\ Len(ttsIn') = Len(ttsIn) + Len(frames)
      /\ \A i \in 1 .. Len(ttsIn) : ttsIn'[i] = ttsIn[i]
      /\ \A i \in 1 .. Len(frames) : ttsIn'[Len(ttsIn) + i] = frames[i]
      /\ \A i \in 1 .. Len(ttsIn') : i > Len(ttsIn) => i - Len(ttsIn) \in 1 .. Len(frames) /\ ttsIn'[i] = frames[i - Len(ttsIn)]
  BY <1>1
<1>3. /\ DOMAIN ttsIn = 1 .. Len(ttsIn) /\ DOMAIN ttsIn' = 1 .. Len(ttsIn') /\ DOMAIN frames = 1 .. Len(frames)
      /\ Len(ttsIn) \in Nat /\ Len(frames) \in Nat
  BY <1>1, <1>2
<1>4. ToSet(ttsIn)' = ToSet(ttsIn) \union ToSet(frames)
  <2>1. ASSUME NEW f \in ToSet(ttsIn)' PROVE f \in ToSet(ttsIn) \union ToSet(frames)
    <3>1. PICK i \in DOMAIN ttsIn' : f = ttsIn'[i]
      BY <2>1 DEF ToSet
    <3>2. CASE i <= Len(ttsIn)
      <4>1. i \in DOMAIN ttsIn /\ f = ttsIn[i]
        BY <1>2, <1>3, <3>1, <3>2
      <4> QED BY <4>1 DEF ToSet
    <3>3. CASE i > Len(ttsIn)
      <4>1. i - Len(ttsIn) \in DOMAIN frames /\ f = frames[i - Len(ttsIn)]
        BY <1>2, <1>3, <3>1, <3>3
      <4> QED BY <4>1 DEF ToSet
    <3> QED BY <1>3, <3>2, <3>3
  <2>2. ASSUME NEW f \in ToSet(ttsIn) PROVE f \in ToSet(ttsIn)'
    <3>1. PICK i \in DOMAIN ttsIn : f = ttsIn[i]
      BY <2>2 DEF ToSet
    <3>2. i \in DOMAIN ttsIn' /\ f = ttsIn'[i]
      BY <1>2, <1>3, <3>1
    <3> QED BY <3>2 DEF ToSet
  <2>3. ASSUME NEW f \in ToSet(frames) PROVE f \in ToSet(ttsIn)'
    <3>1. PICK i \in DOMAIN frames : f = frames[i]
      BY <2>3 DEF ToSet
    <3>2. Len(ttsIn) + i \in DOMAIN ttsIn' /\ f = ttsIn'[Len(ttsIn) + i]
      BY <1>2, <1>3, <3>1
    <3> QED BY <3>2 DEF ToSet
  <2> QED BY <2>1, <2>2, <2>3
<1>5. SpeechTypes'
  BY <1>2 DEF StopInv, SpeechTypes
<1>6. TextAfterStop'
  <2> SUFFICES ASSUME NEW i \in DOMAIN ttsIn', NEW j \in DOMAIN ttsIn',
                      i < j, ttsIn'[i].type = "stop", ttsIn'[j].type = "text",
                      ttsIn'[i].pid = ttsIn'[j].piece.pid
               PROVE  ttsIn'[i].turn <= ttsIn'[j].piece.turn
    BY DEF TextAfterStop
  <2>1. CASE j <= Len(ttsIn)
    <3>1. i \in DOMAIN ttsIn /\ j \in DOMAIN ttsIn /\ ttsIn'[i] = ttsIn[i] /\ ttsIn'[j] = ttsIn[j]
      BY <1>2, <1>3, <2>1
    <3> QED BY <3>1 DEF StopInv, TextAfterStop
  <2>2. CASE j > Len(ttsIn) /\ i <= Len(ttsIn)
    <3>1. j - Len(ttsIn) \in DOMAIN frames /\ ttsIn'[j] = frames[j - Len(ttsIn)]
      BY <1>2, <1>3, <2>2
    <3>2. ttsIn'[i] \in Stops
      <4>1. i \in DOMAIN ttsIn /\ ttsIn'[i] = ttsIn[i]
        BY <1>2, <1>3, <2>2
      <4> QED BY <4>1 DEF Stops, ToSet
    <3> QED BY <3>1, <3>2
  <2>3. CASE j > Len(ttsIn) /\ i > Len(ttsIn)
    <3>1. j - Len(ttsIn) \in DOMAIN frames /\ ttsIn'[j] = frames[j - Len(ttsIn)]
      BY <1>2, <1>3, <2>3
    <3>2. i - Len(ttsIn) \in DOMAIN frames /\ ttsIn'[i] = frames[i - Len(ttsIn)]
      BY <1>2, <1>3, <2>3
    <3> QED BY <3>1, <3>2
  <2> QED BY <1>3, <2>1, <2>2, <2>3
<1>7. StopSilencesTurn'
  <2> SUFFICES ASSUME NEW piece \in Unspoken' PROVE piece.turn >= ttsStopped[piece.pid]
    BY DEF StopSilencesTurn
  <2>1. piece \in Unspoken \/ \E f \in ToSet(frames) : IsText(f) /\ piece = f.piece
    BY <1>4 DEF Unspoken
  <2>2. CASE piece \in Unspoken
    BY <2>2 DEF StopInv, StopSilencesTurn
  <2>3. ASSUME NEW f \in ToSet(frames), IsText(f), piece = f.piece PROVE piece.turn >= ttsStopped[piece.pid]
    <3>1. PICK i \in DOMAIN frames : f = frames[i]
      BY <2>3 DEF ToSet
    <3>2. ttsStopped[piece.pid] <= piece.turn
      BY <2>3, <3>1 DEF IsText
    <3>3. f \in Frame
      BY <3>1
    <3>4. piece.pid \in Participants /\ piece.turn \in Nat
      BY <2>3, <3>3, FrameFields DEF IsText
    <3> QED BY <3>2, <3>4 DEF StopInv, SpeechTypes
  <2> QED BY <2>1, <2>2, <2>3
<1> QED BY <1>2, <1>4, <1>5, <1>6, <1>7

\* A step that starts no task and adds no interruption.
LEMMA NoneStarts ==
  ASSUME StopInv, UNCHANGED <<asker, ttsStopped>>, Stops' \subseteq Stops,
         \A t \in Turns : status'[t] = "running" => status[t] = "running"
  PROVE  StopsOfTurns' /\ RunningUnstopped'
BY DEF StopInv, StopsOfTurns, RunningUnstopped

\* A step of neither the brain nor the TTS processor.
LEMMA Undisturbed ==
  ASSUME StopInv, UNCHANGED <<asker, ttsIn, pending, sentences, ttsStopped>>,
         \A t \in Turns : status'[t] = "running" => status[t] = "running"
  PROVE  StopInv'
<1>1. SpeechTypes' /\ TextAfterStop' /\ StopSilencesTurn' /\ Stops' = Stops
  BY DEF StopInv, SpeechTypes, TextAfterStop, StopSilencesTurn, Unspoken, Stops
<1> QED BY <1>1, NoneStarts DEF StopInv

\* A step of the TTS processor that handles no interruption: what is left of the text
\* was there before.
LEMMA TtsKeeps ==
  ASSUME StopInv, UNCHANGED <<asker, status, ttsStopped>>, ToSet(ttsIn)' \subseteq ToSet(ttsIn),
         SpeechTypes', TextAfterStop', Unspoken' \subseteq Unspoken
  PROVE  StopInv'
<1>1. Stops' \subseteq Stops
  BY DEF Stops
<1>2. StopSilencesTurn'
  BY DEF StopInv, StopSilencesTurn
<1> QED BY <1>1, <1>2, NoneStarts DEF StopInv

\* A new turn begins with an interruption, or with none.
LEMMA BeginStops ==
  ASSUME StopInv, BrainInv, BrainInv', NEW p \in Participants, Begin(p),
         NEW new \in {0, Len(asker')}, CancelPid(p, new), UNCHANGED ttsStopped,
         Stops' \subseteq Stops \union {StopFrame(p, Len(asker'))}
  PROVE  StopsOfTurns' /\ RunningUnstopped'
<1>1. /\ asker \in Seq(Participants)
      /\ Len(asker) \in Nat /\ Len(asker') = Len(asker) + 1 /\ Len(asker') \in Turns
      /\ asker'[Len(asker')] = p
      /\ \A t \in 1 .. Len(asker) : asker'[t] = asker[t] /\ asker[t] \in Participants
  BY ConstantsAssumption DEF BrainInv, BrainTypes, Begin, Turns
<1>2. \A q \in Participants : ttsStopped[q] \in Nat /\ ttsStopped[q] <= Len(asker)
  BY DEF StopInv, SpeechTypes, StopsOfTurns
<1>3. \A f \in Stops : f.turn \in Nat /\ f.turn <= Len(asker)
  <2>1. ASSUME NEW f \in Stops PROVE f \in Frame
    BY <2>1 DEF StopInv, SpeechTypes, Stops, ToSet
  <2>2. ASSUME NEW f \in Stops PROVE f.turn \in Nat
    BY <2>1, <2>2, FrameFields DEF Stops
  <2> QED BY <2>2 DEF StopInv, StopsOfTurns
<1>4. StopFrame(p, Len(asker')).turn = Len(asker') /\ StopFrame(p, Len(asker')).pid = p
  BY DEF StopFrame
<1>5. StopsOfTurns'
  BY <1>1, <1>2, <1>3, <1>4 DEF StopsOfTurns
<1>6. RunningUnstopped'
  <2> SUFFICES ASSUME NEW t \in Turns, status'[t] = "running"
               PROVE  /\ ttsStopped[asker'[t]] <= t
                      /\ \A f \in Stops' : f.pid = asker'[t] => f.turn <= t
    BY DEF RunningUnstopped
  <2>1. t \in Nat /\ t # 0
    BY ConstantsAssumption DEF Turns
  <2>2. CASE t = new
    <3>1. t = Len(asker') /\ asker'[t] = p
      BY <1>1, <2>1, <2>2
    <3> QED BY <1>1, <1>2, <1>3, <1>4, <3>1
  <2>3. CASE t # new
    <3>1. status[t] = "running"
      BY <2>3 DEF CancelPid
    <3>2. t \in 1 .. Len(asker) /\ asker'[t] = asker[t]
      BY <1>1, <2>1, <3>1 DEF BrainInv, TasksBegun
    <3>3. asker'[t] # p
      <4>1. t <= Len(asker') /\ inflight'[asker'[t]] = t
        BY DEF BrainInv, OneQueryInFlight
      <4>2. inflight'[p] = new
        BY DEF CancelPid, BrainInv, BrainTypes
      <4> QED BY <2>3, <4>1, <4>2
    <3> QED BY <1>4, <3>1, <3>2, <3>3 DEF StopInv, RunningUnstopped
  <2> QED BY <2>2, <2>3
<1> QED BY <1>5, <1>6

LEMMA FramesTyped ==
  ASSUME NEW p \in Participants, NEW t \in Turns
  PROVE  /\ StopFrame(p, t) \in Frame /\ EndFrame(p, t) \in Frame
         /\ \A k \in 1 .. MaxChunks, ends \in BOOLEAN : TextFrame(p, t, k, ends) \in Frame
BY DEF StopFrame, EndFrame, TextFrame, Frame, Piece

LEMMA QueryKeepsStops ==
  ASSUME StopInv, BrainInv, BrainInv', NEW p \in Participants, Query(p)
  PROVE  StopInv'
<1> DEFINE t == Len(asker')
<1>1. t \in Turns /\ Begin(p) /\ CancelPid(p, t) /\ UNCHANGED <<sentences, pending, ttsStopped>>
  BY ConstantsAssumption DEF Query, Begin, BrainInv, BrainTypes, Turns, tts
<1>2. CASE UNCHANGED ttsIn
  <2>1. SpeechTypes' /\ TextAfterStop' /\ StopSilencesTurn' /\ Stops' = Stops
    BY <1>1, <1>2 DEF StopInv, SpeechTypes, TextAfterStop, StopSilencesTurn, Unspoken, Stops
  <2> QED BY <1>1, <2>1, BeginStops DEF StopInv
<1>3. CASE ttsIn' = ttsIn \o <<StopFrame(p, t)>>
  <2> DEFINE frames == <<StopFrame(p, t)>>
  <2>1. StopFrame(p, t) \in Frame
    BY <1>1, FramesTyped
  <2>2. frames \in Seq(Frame) /\ DOMAIN frames = {1} /\ frames[1] = StopFrame(p, t)
    BY <2>1
  <2>3. frames[1].type = "stop"
    BY DEF StopFrame
  <2>4. /\ ToSet(ttsIn)' = ToSet(ttsIn) \union ToSet(frames)
        /\ SpeechTypes' /\ TextAfterStop' /\ StopSilencesTurn'
    <3> HIDE DEF frames
    <3> QED BY <1>1, <1>3, <2>2, <2>3, Pushed DEF frames
  <2>5. Stops' \subseteq Stops \union {StopFrame(p, t)}
    BY <2>2, <2>4 DEF Stops, ToSet
  <2> QED BY <1>1, <2>4, <2>5, BeginStops DEF StopInv
<1> QED BY <1>2, <1>3 DEF Query, Push

LEMMA StopKeepsStops ==
  ASSUME StopInv, BrainInv, BrainInv', NEW p \in Participants, Stop(p)
  PROVE  StopInv'
<1> DEFINE t == Len(asker')
           stop == StopFrame(p, t)
           text == TextFrame(p, t, 1, TRUE)
           frames == <<stop, text>>
<1>1. /\ t \in Turns /\ t = Len(asker) + 1 /\ Len(asker) \in Nat
      /\ Begin(p) /\ CancelPid(p, 0) /\ UNCHANGED <<sentences, pending, ttsStopped>>
      /\ ttsIn' = ttsIn \o frames
  BY ConstantsAssumption DEF Stop, Push, Begin, BrainInv, BrainTypes, Turns, tts
<1>2. stop \in Frame /\ text \in Frame
  <2>1. 1 \in 1 .. MaxChunks
    BY ConstantsAssumption
  <2> HIDE DEF t
  <2> QED BY <1>1, <2>1, FramesTyped
<1>3. /\ stop.type = "stop" /\ stop.turn = t
      /\ text.type = "text" /\ text.piece.turn = t /\ text.piece.pid = p
  BY DEF StopFrame, TextFrame
<1>4. ttsStopped[p] <= t /\ t <= t /\ \A f \in Stops : f.turn <= t
  <2>1. ASSUME NEW f \in Stops PROVE f.turn \in Nat
    <3>1. f \in Frame /\ f.type = "stop"
      BY <2>1 DEF StopInv, SpeechTypes, Stops, ToSet
    <3> QED BY <3>1, FrameFields
  <2> QED BY <1>1, <2>1 DEF StopInv, StopsOfTurns, SpeechTypes
<1>5. frames \in Seq(Frame) /\ DOMAIN frames = {1, 2} /\ frames[1] = stop /\ frames[2] = text
  <2> HIDE DEF stop, text
  <2> QED BY <1>2
<1>6. /\ ToSet(ttsIn)' = ToSet(ttsIn) \union ToSet(frames)
      /\ SpeechTypes' /\ TextAfterStop' /\ StopSilencesTurn'
  <2> HIDE DEF frames, stop, text, t
  <2> QED BY <1>1, <1>3, <1>4, <1>5, Pushed
<1>7. Stops' \subseteq Stops \union {StopFrame(p, t)}
  BY <1>3, <1>5, <1>6 DEF Stops, ToSet
<1> QED BY <1>1, <1>6, <1>7, BeginStops DEF StopInv

LEMMA ChunkKeepsStops ==
  ASSUME StopInv, BrainInv, NEW t \in Turns, NEW ends \in BOOLEAN, Chunk(t, ends), produced[t] \in Nat
  PROVE  StopInv'
<1> DEFINE text == TextFrame(asker[t], t, produced[t] + 1, ends)
           frames == <<text>>
<1>1. /\ status[t] = "running" /\ ttsIn' = ttsIn \o frames
      /\ UNCHANGED <<asker, status, sentences, pending, ttsStopped>>
  BY DEF Chunk, Push, tts
<1>2. t \in Nat /\ asker[t] \in Participants
  <2>1. t \in 1 .. Len(asker) /\ asker \in Seq(Participants)
    BY <1>1, ConstantsAssumption DEF BrainInv, BrainTypes, TasksBegun, Turns
  <2> QED BY <2>1
<1>3. text \in Frame
  BY <1>2, ConstantsAssumption, FramesTyped DEF Chunk
<1>4. text.type = "text" /\ text.piece.turn = t /\ text.piece.pid = asker[t]
  BY DEF TextFrame
<1>5. frames \in Seq(Frame) /\ DOMAIN frames = {1} /\ frames[1] = text
  BY <1>3
<1>6. ttsStopped[asker[t]] <= t /\ \A f \in Stops : f.pid = asker[t] => f.turn <= t
  BY <1>1 DEF StopInv, RunningUnstopped
<1>7. /\ ToSet(ttsIn)' = ToSet(ttsIn) \union ToSet(frames)
      /\ SpeechTypes' /\ TextAfterStop' /\ StopSilencesTurn'
  <2> HIDE DEF frames, text
  <2> QED BY <1>1, <1>4, <1>5, <1>6, Pushed
<1>8. Stops' \subseteq Stops
  BY <1>4, <1>5, <1>7 DEF Stops, ToSet
<1> QED BY <1>1, <1>7, <1>8, NoneStarts DEF StopInv

LEMMA FinishKeepsStops ==
  ASSUME StopInv, BrainInv, NEW t \in Turns, Finish(t)
  PROVE  StopInv'
<1> DEFINE end == EndFrame(asker[t], t)
           frames == <<end>>
<1>1. /\ status[t] = "running" /\ ttsIn' = ttsIn \o frames
      /\ UNCHANGED <<asker, sentences, pending, ttsStopped>>
      /\ \A u \in Turns : status'[u] = "running" => status[u] = "running"
  BY DEF Finish, Push, tts, BrainInv, BrainTypes
<1>2. asker[t] \in Participants
  <2>1. t \in 1 .. Len(asker) /\ asker \in Seq(Participants)
    BY <1>1, ConstantsAssumption DEF BrainInv, BrainTypes, TasksBegun, Turns
  <2> QED BY <2>1
<1>3. end \in Frame
  BY <1>2, FramesTyped
<1>4. end.type = "end"
  BY DEF EndFrame
<1>5. frames \in Seq(Frame) /\ DOMAIN frames = {1} /\ frames[1] = end
  BY <1>3
<1>6. /\ ToSet(ttsIn)' = ToSet(ttsIn) \union ToSet(frames)
      /\ SpeechTypes' /\ TextAfterStop' /\ StopSilencesTurn'
  <2> HIDE DEF frames, end
  <2> QED BY <1>1, <1>4, <1>5, Pushed
<1>7. Stops' \subseteq Stops
  BY <1>4, <1>5, <1>6 DEF Stops, ToSet
<1> QED BY <1>1, <1>6, <1>7, NoneStarts DEF StopInv

LEMMA TailTaken ==
  ASSUME SpeechTypes, ttsIn # << >>, ttsIn' = Tail(ttsIn)
  PROVE  /\ ttsIn' \in Seq(Frame) /\ ToSet(ttsIn)' \subseteq ToSet(ttsIn)
         /\ Head(ttsIn) \in Frame /\ Head(ttsIn) \in ToSet(ttsIn)
         /\ TextAfterStop => TextAfterStop'
<1>1. ttsIn \in Seq(Frame) /\ Len(ttsIn) \in Nat /\ Len(ttsIn) > 0
  BY DEF SpeechTypes
<1>2. Tail(ttsIn) = SubSeq(ttsIn, 2, Len(ttsIn))
  BY <1>1
<1>3. 1 \in 1 .. Len(ttsIn) /\ ttsIn' = SubSeq(ttsIn, 1 + 1, Len(ttsIn))
  BY <1>1, <1>2
<1>4. Head(ttsIn) \in Frame /\ Head(ttsIn) \in ToSet(ttsIn)
  BY <1>1 DEF ToSet
<1> QED BY <1>3, <1>4, Taken

\* The sentence queue and the buffer hold what they held before, and a sentence that is
\* added holds what was in the buffer or at the head of the queue of frames.
LEMMA Appended ==
  ASSUME NEW S, NEW s \in Seq(S), NEW e \in S
  PROVE  Append(s, e) \in Seq(S) /\ ToSet(Append(s, e)) = ToSet(s) \union {e}
<1>1. /\ Append(s, e) \in Seq(S) /\ Len(Append(s, e)) = Len(s) + 1
      /\ \A i \in 1 .. Len(s) : Append(s, e)[i] = s[i]
      /\ Append(s, e)[Len(s) + 1] = e
  OBVIOUS
<1>2. /\ DOMAIN s = 1 .. Len(s) /\ DOMAIN Append(s, e) = 1 .. Len(s) + 1 /\ Len(s) \in Nat
  OBVIOUS
<1>3. ASSUME NEW x \in ToSet(Append(s, e)) PROVE x \in ToSet(s) \union {e}
  BY <1>1, <1>2, <1>3 DEF ToSet
<1>4. ASSUME NEW x \in ToSet(s) \union {e} PROVE x \in ToSet(Append(s, e))
  <2>1. CASE x = e
    <3>1. Len(s) + 1 \in DOMAIN Append(s, e)
      BY <1>2
    <3> QED BY <1>1, <2>1, <3>1 DEF ToSet
  <2>2. CASE x \in ToSet(s)
    BY <1>1, <1>2, <2>2 DEF ToSet
  <2> QED BY <1>4, <2>1, <2>2
<1> QED BY <1>1, <1>3, <1>4

LEMMA HandleTextKeepsStops ==
  ASSUME StopInv, HandleText
  PROVE  StopInv'
<1> DEFINE f    == Head(ttsIn)
           text == Append(pending, f.piece)
           s    == [pid |-> f.piece.pid, text |-> text, wav |-> "wait"]
<1>1. /\ ttsIn # << >> /\ f.type = "text" /\ ttsIn' = Tail(ttsIn)
      /\ UNCHANGED <<asker, status, ttsStopped>>
  BY DEF HandleText, brain
<1>2. /\ ttsIn' \in Seq(Frame) /\ ToSet(ttsIn)' \subseteq ToSet(ttsIn)
      /\ f \in Frame /\ f \in ToSet(ttsIn) /\ TextAfterStop'
  BY <1>1, TailTaken DEF StopInv
<1>3. f.piece \in Piece /\ f.piece.pid \in Participants
  BY <1>1, <1>2, FrameFields
<1>4. pending \in Seq(Piece) /\ sentences \in Seq(Sentence) /\ ttsStopped \in [Participants -> Nat]
  BY DEF StopInv, SpeechTypes
<1>5. text \in Seq(Piece) /\ ToSet(text) = ToSet(pending) \union {f.piece}
  BY <1>3, <1>4, Appended
<1>6. f.piece \in Unspoken
  BY <1>1, <1>2 DEF Unspoken, IsText
<1>7. CASE f.ends
  <2>1. sentences' = Append(sentences, s) /\ pending' = << >>
    BY <1>7 DEF HandleText, Dispatch
  <2>2. s \in Sentence
    BY <1>3, <1>5 DEF Sentence
  <2>3. s.text = text
    OBVIOUS
  <2> HIDE DEF s, text, f
  <2>4. sentences' \in Seq(Sentence) /\ ToSet(sentences') = ToSet(sentences) \union {s}
    BY <1>4, <2>1, <2>2, Appended
  <2>5. ToSet(pending') = {}
    BY <2>1 DEF ToSet
  <2>6. Unspoken' \subseteq Unspoken
    BY <1>2, <1>5, <1>6, <2>3, <2>4, <2>5 DEF Unspoken
  <2>7. SpeechTypes'
    BY <1>1, <1>2, <1>4, <2>1, <2>4 DEF SpeechTypes
  <2> QED BY <1>1, <1>2, <2>6, <2>7, TtsKeeps
<1>8. CASE ~ f.ends
  <2>1. sentences' = sentences /\ pending' = text
    BY <1>8 DEF HandleText
  <2> HIDE DEF text, f
  <2>2. Unspoken' \subseteq Unspoken
    BY <1>2, <1>5, <1>6, <2>1 DEF Unspoken
  <2>3. SpeechTypes'
    BY <1>1, <1>2, <1>4, <1>5, <2>1 DEF SpeechTypes
  <2> QED BY <1>1, <1>2, <2>2, <2>3, TtsKeeps
<1> QED BY <1>7, <1>8

LEMMA HandleEndKeepsStops ==
  ASSUME StopInv, HandleEnd
  PROVE  StopInv'
<1> DEFINE p == Head(ttsIn).pid
           s == [pid |-> p, text |-> pending, wav |-> "wait"]
<1>1. /\ ttsIn # << >> /\ Head(ttsIn).type = "end" /\ ttsIn' = Tail(ttsIn)
      /\ pending' = << >> /\ UNCHANGED <<asker, status, ttsStopped>>
      /\ sentences' = Append(sentences, s) \/ sentences' = sentences
  BY DEF HandleEnd, Dispatch, brain
<1>2. /\ ttsIn' \in Seq(Frame) /\ ToSet(ttsIn)' \subseteq ToSet(ttsIn)
      /\ Head(ttsIn) \in Frame /\ TextAfterStop'
  BY <1>1, TailTaken DEF StopInv
<1>3. pending \in Seq(Piece) /\ sentences \in Seq(Sentence) /\ ttsStopped \in [Participants -> Nat]
  BY DEF StopInv, SpeechTypes
<1>4. s \in Sentence /\ s.text = pending
  <2>1. p \in Participants
    BY <1>1, <1>2, FrameFields
  <2> HIDE DEF p
  <2> QED BY <1>3, <2>1 DEF Sentence
<1>5. ToSet(pending') = {}
  BY <1>1 DEF ToSet
<1> HIDE DEF s
<1>6. sentences' \in Seq(Sentence) /\ ToSet(sentences') \subseteq ToSet(sentences) \union {s}
  <2>1. Append(sentences, s) \in Seq(Sentence) /\ ToSet(Append(sentences, s)) = ToSet(sentences) \union {s}
    BY <1>3, <1>4, Appended
  <2> QED BY <1>1, <1>3, <2>1
<1>7. Unspoken' \subseteq Unspoken
  BY <1>2, <1>4, <1>5, <1>6 DEF Unspoken
<1>8. SpeechTypes'
  BY <1>1, <1>2, <1>3, <1>6 DEF SpeechTypes
<1> QED BY <1>1, <1>2, <1>7, <1>8, TtsKeeps

\* What is behind the interruption is all that is left, and it is newer.
LEMMA HandleStopKeepsStops ==
  ASSUME StopInv, HandleStop
  PROVE  StopInv'
<1>1. PICK n \in DOMAIN ttsIn :
        /\ ttsIn[n].type = "stop"
        /\ ttsIn' = SubSeq(ttsIn, n + 1, Len(ttsIn))
        /\ sentences' = << >> /\ pending' = << >>
        /\ ttsStopped' = [ttsStopped EXCEPT ![ttsIn[n].pid] = ttsIn[n].turn]
        /\ UNCHANGED <<asker, status>>
  BY DEF HandleStop, brain
<1> DEFINE f == ttsIn[n]
<1>2. /\ ttsIn \in Seq(Frame) /\ n \in 1 .. Len(ttsIn) /\ SpeechTypes /\ TextAfterStop
      /\ ttsStopped \in [Participants -> Nat]
  BY DEF StopInv, SpeechTypes
<1>3. /\ ttsIn' \in Seq(Frame)
      /\ \A i \in DOMAIN ttsIn' : i + n \in DOMAIN ttsIn /\ ttsIn'[i] = ttsIn[i + n] /\ n < i + n
      /\ ToSet(ttsIn)' \subseteq ToSet(ttsIn) /\ TextAfterStop'
  <2>1. /\ ttsIn' \in Seq(Frame)
        /\ \A i \in DOMAIN ttsIn' : i + n \in DOMAIN ttsIn /\ ttsIn'[i] = ttsIn[i + n]
        /\ ToSet(ttsIn)' \subseteq ToSet(ttsIn) /\ TextAfterStop'
    BY <1>1, <1>2, Taken
  <2>2. \A i \in DOMAIN ttsIn' : i \in Nat /\ i > 0
    BY <2>1
  <2> QED BY <1>2, <2>1, <2>2
<1>4. f \in Frame /\ f.pid \in Participants /\ f.turn \in Nat /\ f \in Stops /\ f.type = "stop"
  <2>1. f \in Frame /\ f \in ToSet(ttsIn)
    BY <1>2 DEF ToSet
  <2> QED BY <1>1, <2>1, FrameFields DEF Stops
<1>5. \A q \in Participants : ttsStopped'[q] = IF q = f.pid THEN f.turn ELSE ttsStopped[q]
  BY <1>1, <1>2, <1>4
<1>6. SpeechTypes'
  BY <1>1, <1>2, <1>3, <1>4 DEF SpeechTypes
<1>7. Stops' \subseteq Stops
  BY <1>3 DEF Stops
<1>8. StopsOfTurns'
  BY <1>1, <1>4, <1>5, <1>7 DEF StopInv, StopsOfTurns
<1>9. RunningUnstopped'
  BY <1>1, <1>4, <1>5, <1>7 DEF StopInv, RunningUnstopped
<1>10. StopSilencesTurn'
  <2> SUFFICES ASSUME NEW piece \in Unspoken' PROVE piece.turn >= ttsStopped'[piece.pid]
    BY DEF StopSilencesTurn
  <2>1. PICK g \in ToSet(ttsIn)' : IsText(g) /\ piece = g.piece
    BY <1>1 DEF Unspoken, ToSet
  <2>2. PICK i \in DOMAIN ttsIn' : g = ttsIn'[i]
    BY <2>1 DEF ToSet
  <2>3. g \in ToSet(ttsIn) /\ g \in Frame /\ g = ttsIn[i + n] /\ i + n \in DOMAIN ttsIn /\ n < i + n
    BY <1>3, <2>1, <2>2
  <2>4. g.type = "text" /\ piece.pid \in Participants /\ piece.turn \in Nat
    BY <2>1, <2>3, FrameFields DEF IsText
  <2>5. CASE piece.pid = f.pid
    <3>1. f.turn <= piece.turn
      BY <1>2, <1>4, <2>1, <2>3, <2>4, <2>5 DEF TextAfterStop
    <3> HIDE DEF f
    <3> QED BY <1>4, <1>5, <2>4, <2>5, <3>1
  <2>6. CASE piece.pid # f.pid
    <3>1. piece \in Unspoken
      BY <2>1, <2>3 DEF Unspoken
    <3> QED BY <1>5, <2>4, <2>6, <3>1 DEF StopInv, StopSilencesTurn
  <2> QED BY <2>5, <2>6
<1> QED BY <1>3, <1>6, <1>8, <1>9, <1>10 DEF StopInv

LEMMA SpeakKeepsStops ==
  ASSUME StopInv, Speak
  PROVE  StopInv'
<1>1. /\ sentences # << >> /\ sentences' = Tail(sentences)
      /\ UNCHANGED <<asker, status, ttsIn, pending, ttsStopped>>
  BY DEF Speak, brain
<1>2. sentences \in Seq(Sentence)
  BY DEF StopInv, SpeechTypes
<1>3. sentences' \in Seq(Sentence) /\ ToSet(sentences)' \subseteq ToSet(sentences)
  BY <1>1, <1>2 DEF ToSet
<1>4. SpeechTypes' /\ TextAfterStop' /\ ToSet(ttsIn)' = ToSet(ttsIn) /\ ToSet(pending)' = ToSet(pending)
  BY <1>1, <1>3 DEF StopInv, SpeechTypes, TextAfterStop
<1>5. Unspoken' \subseteq Unspoken
  BY <1>3, <1>4 DEF Unspoken
<1> QED BY <1>1, <1>4, <1>5, TtsKeeps

LEMMA SynthesizedKeepsStops ==
  ASSUME StopInv, NEW i \in DOMAIN sentences, NEW wav \in {"ok", "failed"}, Synthesized(i, wav)
  PROVE  StopInv'
<1>1. /\ sentences' = [sentences EXCEPT ![i].wav = wav]
      /\ UNCHANGED <<asker, status, ttsIn, pending, ttsStopped>>
  BY DEF Synthesized, brain
<1>2. sentences \in Seq(Sentence) /\ i \in 1 .. Len(sentences) /\ DOMAIN sentences' = DOMAIN sentences
  BY <1>1 DEF StopInv, SpeechTypes
<1>3. sentences' \in Seq(Sentence)
  <2> DEFINE new == [sentences[i] EXCEPT !.wav = wav]
  <2>1. new \in Sentence
    <3>1. sentences[i] \in Sentence
      BY <1>2
    <3> QED BY <3>1 DEF Sentence
  <2>2. sentences' = [sentences EXCEPT ![i] = new]
    BY <1>1
  <2> HIDE DEF new
  <2> QED BY <1>2, <2>1, <2>2
<1>4. \A j \in DOMAIN sentences' : sentences'[j].text = sentences[j].text
  BY <1>1, <1>2 DEF Sentence
<1>5. SpeechTypes' /\ TextAfterStop' /\ ToSet(ttsIn)' = ToSet(ttsIn) /\ ToSet(pending)' = ToSet(pending)
  BY <1>1, <1>3 DEF StopInv, SpeechTypes, TextAfterStop
<1>6. Unspoken' \subseteq Unspoken
  <2>1. ASSUME NEW piece \in Unspoken' PROVE piece \in Unspoken
    <3>1. CASE \E s \in ToSet(sentences)' : piece \in ToSet(s.text)
      <4>1. PICK j \in DOMAIN sentences' : piece \in ToSet(sentences'[j].text)
        BY <3>1 DEF ToSet
      <4>2. j \in DOMAIN sentences /\ piece \in ToSet(sentences[j].text) /\ sentences[j] \in ToSet(sentences)
        BY <1>2, <1>4, <4>1 DEF ToSet
      <4> QED BY <4>2 DEF Unspoken
    <3>2. CASE piece \in ToSet(pending)' \/ \E g \in ToSet(ttsIn)' : IsText(g) /\ piece = g.piece
      BY <1>5, <3>2 DEF Unspoken
    <3> QED BY <2>1, <3>1, <3>2 DEF Unspoken
  <2> QED BY <2>1
<1> QED BY <1>1, <1>5, <1>6, TtsKeeps

LEMMA StopsKeep ==
  ASSUME StopInv, BrainInv, BrainInv', produced \in [Turns -> Nat], [Next]_vars
  PROVE  StopInv'
<1>1. ASSUME NEW p \in Participants, Left(p) PROVE StopInv'
  BY <1>1, Undisturbed DEF Left, CancelPid, tts, Turns
<1>2. ASSUME NEW t \in Turns, Unwind(t) PROVE StopInv'
  BY <1>2, Undisturbed DEF Unwind, tts, BrainInv, BrainTypes
<1>3. CASE \E p \in Participants : Joined(p) \/ Play(p)
  BY <1>3, Undisturbed DEF Joined, Play, tts, brain
<1>4. CASE Write \/ OutputStop
  BY <1>4, Undisturbed DEF Write, OutputStop, tts, brain
<1>5. CASE UNCHANGED vars
  BY <1>5, Undisturbed DEF vars, tts, brain
<1>6. ASSUME NEW t \in Turns, NEW ends \in BOOLEAN, Chunk(t, ends) PROVE StopInv'
  BY <1>6, ChunkKeepsStops
<1> QED
  BY <1>1, <1>2, <1>3, <1>4, <1>5, <1>6, QueryKeepsStops, StopKeepsStops, FinishKeepsStops,
     HandleTextKeepsStops, HandleEndKeepsStops, HandleStopKeepsStops, SpeakKeepsStops, SynthesizedKeepsStops
  DEF Next

LEMMA ChunksCounted ==
  ASSUME produced \in [Turns -> Nat], [Next]_vars PROVE produced' \in [Turns -> Nat]
<1>1. ASSUME NEW p \in Participants, Stop(p) PROVE produced' \in [Turns -> Nat]
  <2>1. produced' = [produced EXCEPT ![Len(asker')] = 1]
    BY <1>1 DEF Stop
  <2> QED BY <2>1
<1>2. CASE \E t \in Turns : \E ends \in BOOLEAN : Chunk(t, ends)
  BY <1>2 DEF Chunk
<1>3. ASSUME UNCHANGED produced PROVE produced' \in [Turns -> Nat]
  BY <1>3
<1>4. CASE \E p \in Participants : Joined(p) \/ Left(p) \/ Query(p) \/ Play(p)
  BY <1>3, <1>4 DEF Joined, Left, Query, Play, brain
<1>5. CASE \E t \in Turns : Finish(t) \/ Unwind(t)
  BY <1>3, <1>5 DEF Finish, Unwind
<1>6. CASE HandleText \/ HandleEnd \/ HandleStop \/ Speak \/ Write \/ OutputStop
  BY <1>3, <1>6 DEF HandleText, HandleEnd, HandleStop, Speak, Write, OutputStop, brain
<1>7. CASE \E i \in DOMAIN sentences, wav \in {"ok", "failed"} : Synthesized(i, wav)
  BY <1>3, <1>7 DEF Synthesized, brain
<1>8. CASE UNCHANGED vars
  BY <1>3, <1>8 DEF vars, brain
<1> QED BY <1>1, <1>2, <1>4, <1>5, <1>6, <1>7, <1>8 DEF Next

\* Once the TTS processor has handled a participant's stop (_drain_on_interrupt), no
\* text of what was stopped is left in it or on its way to it, for any number of
\* participants, turns and chunks.
THEOREM StopsSilence == Spec => []StopSilencesTurn
<1> DEFINE I == BrainInv /\ StopInv /\ produced \in [Turns -> Nat]
<1>1. Init => I
  BY InitBrain, StopStarts DEF Init
<1>2. I /\ [Next]_vars => I'
  BY NextBrain, StopsKeep, ChunksCounted
<1>3. I => StopSilencesTurn
  BY DEF StopInv
<1> QED BY <1>1, <1>2, <1>3, PTL DEF Spec

-----------------------------------------------------------------------------
(* The echo.  While one participant alone has asked, frames are on their   *)
(* way in the order of their turns, so that an interruption takes with it  *)
(* nothing of a reply whose end marker is behind it.                       *)

TurnOf(f)  == IF f.type = "text" THEN f.piece.turn ELSE f.turn
AskerOf(f) == IF f.type = "text" THEN f.piece.pid ELSE f.pid

\* Frames and text in the buffer belong to turns that have begun.
Attributed ==
  /\ \A f \in ToSet(ttsIn) : TurnOf(f) \in 1 .. Len(asker) /\ AskerOf(f) = asker[1]
  /\ \A x \in ToSet(pending) : x.turn \in 1 .. Len(asker) /\ x.pid = asker[1]

\* An interruption is the first frame of its turn, an end marker the last.
InOrder(f, g) ==
  /\ TurnOf(f) <= TurnOf(g)
  /\ f.type = "end" \/ g.type = "stop" => TurnOf(f) < TurnOf(g)

\* Text in the buffer was there before the frames that come.
Ahead(x, f) == x.turn <= TurnOf(f) /\ (f.type = "stop" => x.turn < f.turn)

QueueOrder ==
  /\ \A i, j \in DOMAIN ttsIn : i < j => InOrder(ttsIn[i], ttsIn[j])
  /\ \A x \in ToSet(pending), f \in ToSet(ttsIn) : Ahead(x, f)

Ends == {f \in ToSet(ttsIn) : f.type = "end"}

\* A turn with an end marker is over, and no turn is answered before it begins.
RepliesDone ==
  /\ \A f \in Ends : status[f.turn] = "done"
  /\ \A t \in ended : t \in Turns /\ status[t] = "done"
  /\ \A t \in Turns : t > Len(asker) => produced[t] = 0

\* Chunk k of turn t: it was given to the TTS service, is in the buffer, or comes.
Given(t, k) == \E s \in dispatched : \E i \in DOMAIN s.text :
                 s.text[i].turn = t /\ s.text[i].k = k /\ s.text[i].pid = s.pid
Held(t, k)   == \E x \in ToSet(pending) : x.turn = t /\ x.k = k
Coming(t, k) == \E f \in ToSet(ttsIn) : f.type = "text" /\ f.piece.turn = t /\ f.piece.k = k
Placed(t)    == \A k \in 1 .. produced[t] : Given(t, k) \/ Held(t, k) \/ Coming(t, k)

\* Nothing is lost of a reply that runs or whose end marker is on its way; all
\* of one whose end marker was handled was given to the service.
ReplyKept ==
  /\ \A t \in Turns : status[t] = "running" => t = Len(asker) /\ Placed(t)
  /\ \A f \in Ends : Placed(f.turn)
  /\ \A t \in ended : \A k \in 1 .. produced[t] : Given(t, k)

EchoInv == RepliesDone /\ (Lone => Attributed /\ QueueOrder /\ ReplyKept)

\* What the earlier proofs know of the speaking half.
SpeakInv == BrainInv /\ StopInv /\ produced \in [Turns -> Nat]

LEMMA EchoStarts == Init => EchoInv
<1> SUFFICES ASSUME Init PROVE EchoInv
  OBVIOUS
<1>1. ToSet(ttsIn) = {} /\ ToSet(pending) = {} /\ DOMAIN ttsIn = {} /\ Ends = {} /\ ended = {}
  BY DEF Init, ToSet, Ends
<1>2. RepliesDone
  BY <1>1 DEF Init, RepliesDone
<1>3. Attributed /\ QueueOrder
  BY <1>1 DEF Attributed, QueueOrder
<1>4. ReplyKept
  BY <1>1 DEF Init, ReplyKept
<1> QED BY <1>2, <1>3, <1>4 DEF EchoInv

\* The turns, as numbers.
LEMMA TurnNumbers ==
  ASSUME BrainInv
  PROVE  /\ MaxTurns \in Nat /\ Turns \subseteq Nat \ {0} /\ Len(asker) \in Nat
         /\ \A t \in Turns : status[t] # "none" => t \in 1 .. Len(asker) /\ asker[t] \in Participants
         /\ \A t \in 1 .. Len(asker) : t \in Turns /\ asker[t] \in Participants
  BY ConstantsAssumption DEF BrainInv, BrainTypes, TasksBegun, Turns

LEMMA FrameTurns ==
  ASSUME NEW f \in Frame
  PROVE  /\ TurnOf(f) \in Turns /\ TurnOf(f) \in Nat /\ AskerOf(f) \in Participants
         /\ f.type \in {"text", "end", "stop"}
         /\ f.type = "text" => f.piece \in Piece /\ TurnOf(f) = f.piece.turn /\ AskerOf(f) = f.piece.pid
         /\ f.type # "text" => TurnOf(f) = f.turn /\ AskerOf(f) = f.pid
<1>1. Turns \subseteq Nat
  BY ConstantsAssumption DEF Turns
<1>2. CASE f \in [type : {"text"}, piece : Piece, ends : BOOLEAN]
  BY <1>1, <1>2 DEF Piece, TurnOf, AskerOf
<1>3. CASE f \in [type : {"end", "stop"}, pid : Participants, turn : Turns]
  BY <1>1, <1>3 DEF TurnOf, AskerOf
<1> QED BY <1>2, <1>3 DEF Frame

LEMMA QueueTyped ==
  ASSUME StopInv
  PROVE  /\ ttsIn \in Seq(Frame) /\ Len(ttsIn) \in Nat /\ DOMAIN ttsIn = 1 .. Len(ttsIn)
         /\ \A f \in ToSet(ttsIn) : f \in Frame
         /\ \A i \in DOMAIN ttsIn : ttsIn[i] \in ToSet(ttsIn)
         /\ pending \in Seq(Piece) /\ \A x \in ToSet(pending) : x \in Piece /\ x.turn \in Nat
<1>1. ttsIn \in Seq(Frame) /\ pending \in Seq(Piece)
  BY DEF StopInv, SpeechTypes
<1>2. \A x \in Piece : x.turn \in Nat
  BY ConstantsAssumption DEF Piece, Turns
<1>3. \A x \in ToSet(pending) : x \in Piece
  BY <1>1 DEF ToSet
<1> QED BY <1>1, <1>2, <1>3 DEF ToSet

LEMMA EndTurns == StopInv => \A f \in Ends : f.turn \in Turns /\ TurnOf(f) = f.turn
<1>1. ASSUME StopInv, NEW f \in Ends PROVE f.turn \in Turns /\ TurnOf(f) = f.turn
  <2>1. f \in Frame /\ f.type = "end"
    BY <1>1, QueueTyped DEF Ends
  <2> QED BY <2>1, FrameTurns
<1> QED BY <1>1

\* A turn begins: the one who has asked is the one who asks.
LEMMA LoneBegins ==
  ASSUME BrainInv, NEW p \in Participants, Begin(p)
  PROVE  /\ Len(asker') = Len(asker) + 1 /\ Len(asker') \in Turns /\ asker'[Len(asker')] = p
         /\ \A i \in 1 .. Len(asker) : asker'[i] = asker[i]
         /\ Lone' => Lone /\ asker'[1] = p /\ \A i \in 1 .. Len(asker) : asker[i] = p
<1>1. /\ asker \in Seq(Participants) /\ Len(asker) \in Nat /\ asker' = Append(asker, p)
      /\ Len(asker) < MaxTurns /\ MaxTurns \in Nat
  BY ConstantsAssumption DEF BrainInv, BrainTypes, Begin
<1>2. /\ Len(asker') = Len(asker) + 1 /\ asker'[Len(asker) + 1] = p
      /\ DOMAIN asker' = 1 .. Len(asker) + 1 /\ DOMAIN asker = 1 .. Len(asker)
      /\ \A i \in 1 .. Len(asker) : asker'[i] = asker[i]
  BY <1>1
<1>3. ASSUME Lone' PROVE Lone /\ asker'[1] = p /\ \A i \in 1 .. Len(asker) : asker[i] = p
  <2>1. \A i \in 1 .. Len(asker) + 1 : asker'[i] = p
    BY <1>1, <1>2, <1>3 DEF Lone
  <2> QED BY <1>1, <1>2, <2>1 DEF Lone
<1> QED BY <1>1, <1>2, <1>3 DEF Turns

\* _cancel_pid leaves what is done as it is, and of a lone asker's tasks only
\* the new one running.
LEMMA CancelLeaves ==
  ASSUME BrainInv, NEW p \in Participants, NEW new \in {0, Len(asker) + 1}, CancelPid(p, new)
  PROVE  /\ \A t \in Turns : status[t] = "done" => status'[t] = "done"
         /\ \A t \in Turns : status'[t] = "running" /\ t # new => status[t] = "running" /\ asker[t] # p
<1>1. ASSUME NEW t \in Turns, status[t] = "done" PROVE status'[t] = "done"
  <2>1. t \in 1 .. Len(asker) /\ t # new /\ t # 0
    BY <1>1, TurnNumbers
  <2>2. t # inflight[p]
    BY <1>1, <2>1, TurnNumbers DEF BrainInv, TableOfAskers, OneQueryInFlight
  <2> QED BY <1>1, <2>1, <2>2 DEF CancelPid
<1>2. ASSUME NEW t \in Turns, status'[t] = "running", t # new
      PROVE  status[t] = "running" /\ asker[t] # p
  <2>1. status[t] = "running" /\ t # inflight[p]
    BY <1>2 DEF CancelPid
  <2> QED BY <2>1 DEF BrainInv, OneQueryInFlight
<1> QED BY <1>1, <1>2

\* The frames that are pushed stand behind those that wait.
LEMMA PushedBehind ==
  ASSUME StopInv, NEW frames \in Seq(Frame), ttsIn' = ttsIn \o frames
  PROVE  /\ ToSet(ttsIn)' = ToSet(ttsIn) \union ToSet(frames)
         /\ \A i, j \in DOMAIN ttsIn' : i < j =>
              \/ i \in DOMAIN ttsIn /\ j \in DOMAIN ttsIn /\ ttsIn'[i] = ttsIn[i] /\ ttsIn'[j] = ttsIn[j]
              \/ i \in DOMAIN ttsIn /\ ttsIn'[i] = ttsIn[i] /\ ttsIn'[j] \in ToSet(frames)
              \/ \E a, b \in DOMAIN frames : a < b /\ ttsIn'[i] = frames[a] /\ ttsIn'[j] = frames[b]
<1>1. ttsIn \in Seq(Frame)
  BY QueueTyped
<1>2. /\ ttsIn' \in Seq(Frame) /\ Len(ttsIn') = Len(ttsIn) + Len(frames)
      /\ \A i \in 1 .. Len(ttsIn) : ttsIn'[i] = ttsIn[i]
      /\ \A i \in 1 .. Len(frames) : ttsIn'[Len(ttsIn) + i] = frames[i]
      /\ \A i \in 1 .. Len(ttsIn') : i > Len(ttsIn) => i - Len(ttsIn) \in 1 .. Len(frames) /\ ttsIn'[i] = frames[i - Len(ttsIn)]
  BY <1>1
<1>3. /\ DOMAIN ttsIn = 1 .. Len(ttsIn) /\ DOMAIN ttsIn' = 1 .. Len(ttsIn') /\ DOMAIN frames = 1 .. Len(frames)
      /\ Len(ttsIn) \in Nat /\ Len(frames) \in Nat
  BY <1>1, <1>2
<1>4. ToSet(ttsIn)' = ToSet(ttsIn) \union ToSet(frames)
  <2>1. ASSUME NEW f \in ToSet(ttsIn)' PROVE f \in ToSet(ttsIn) \union ToSet(frames)
    <3>1. PICK i \in DOMAIN ttsIn' : f = ttsIn'[i]
      BY <2>1 DEF ToSet
    <3>2. CASE i <= Len(ttsIn)
      <4>1. i \in DOMAIN ttsIn /\ f = ttsIn[i]
        BY <1>2, <1>3, <3>1, <3>2
      <4> QED BY <4>1 DEF ToSet
    <3>3. CASE i > Len(ttsIn)
      <4>1. i - Len(ttsIn) \in DOMAIN frames /\ f = frames[i - Len(ttsIn)]
        BY <1>2, <1>3, <3>1, <3>3
      <4> QED BY <4>1 DEF ToSet
    <3> QED BY <1>3, <3>2, <3>3
  <2>2. ASSUME NEW f \in ToSet(ttsIn) PROVE f \in ToSet(ttsIn)'
    <3>1. PICK i \in DOMAIN ttsIn : f = ttsIn[i]
      BY <2>2 DEF ToSet
    <3>2. i \in DOMAIN ttsIn' /\ f = ttsIn'[i]
      BY <1>2, <1>3, <3>1
    <3> QED BY <3>2 DEF ToSet
  <2>3. ASSUME NEW f \in ToSet(frames) PROVE f \in ToSet(ttsIn)'
    <3>1. PICK i \in DOMAIN frames : f = frames[i]
      BY <2>3 DEF ToSet
    <3>2. Len(ttsIn) + i \in DOMAIN ttsIn' /\ f = ttsIn'[Len(ttsIn) + i]
      BY <1>2, <1>3, <3>1
    <3> QED BY <3>2 DEF ToSet
  <2> QED BY <2>1, <2>2, <2>3
<1>5. ASSUME NEW i \in DOMAIN ttsIn', NEW j \in DOMAIN ttsIn', i < j
      PROVE  \/ i \in DOMAIN ttsIn /\ j \in DOMAIN ttsIn /\ ttsIn'[i] = ttsIn[i] /\ ttsIn'[j] = ttsIn[j]
             \/ i \in DOMAIN ttsIn /\ ttsIn'[i] = ttsIn[i] /\ ttsIn'[j] \in ToSet(frames)
             \/ \E a, b \in DOMAIN frames : a < b /\ ttsIn'[i] = frames[a] /\ ttsIn'[j] = frames[b]
  <2>1. CASE j <= Len(ttsIn)
    BY <1>2, <1>3, <1>5, <2>1
  <2>2. CASE j > Len(ttsIn) /\ i <= Len(ttsIn)
    <3>1. j - Len(ttsIn) \in DOMAIN frames /\ ttsIn'[j] = frames[j - Len(ttsIn)]
      BY <1>2, <1>3, <2>2
    <3>2. i \in DOMAIN ttsIn /\ ttsIn'[i] = ttsIn[i]
      BY <1>2, <1>3, <2>2
    <3>3. ttsIn'[j] \in ToSet(frames)
      BY <3>1 DEF ToSet
    <3> QED BY <3>2, <3>3
  <2>3. CASE i > Len(ttsIn)
    <3> DEFINE a == i - Len(ttsIn)
               b == j - Len(ttsIn)
    <3>1. a \in DOMAIN frames /\ ttsIn'[i] = frames[a]
      BY <1>2, <1>3, <2>3
    <3>2. b \in DOMAIN frames /\ ttsIn'[j] = frames[b] /\ a < b
      BY <1>2, <1>3, <1>5, <2>3
    <3> QED BY <3>1, <3>2
  <2> QED BY <1>3, <2>1, <2>2, <2>3
<1> QED BY <1>4, <1>5

\* Frames of the newest turn are pushed, of one that has no end marker yet: if
\* they stop it, the turn is new.
LEMMA PushKeepsOrder ==
  ASSUME SpeakInv, Attributed, QueueOrder, RepliesDone,
         NEW N \in Nat, NEW frames \in Seq(Frame), ttsIn' = ttsIn \o frames, UNCHANGED pending,
         N = Len(asker'), Len(asker) <= N, N > 0, asker'[1] = asker'[N],
         Len(asker) > 0 => asker'[1] = asker[1],
         \A f \in ToSet(frames) : TurnOf(f) = N /\ AskerOf(f) = asker'[N],
         N = Len(asker) => status[N] = "running" /\ \A f \in ToSet(frames) : f.type # "stop",
         \A a, b \in DOMAIN frames : a < b => InOrder(frames[a], frames[b])
  PROVE  Attributed' /\ QueueOrder'
<1>1. ToSet(ttsIn)' = ToSet(ttsIn) \union ToSet(frames) /\ ToSet(pending)' = ToSet(pending)
  <2>1. ToSet(ttsIn)' = ToSet(ttsIn) \union ToSet(frames)
    BY PushedBehind DEF SpeakInv
  <2> QED BY <2>1
<1>2. \A f \in ToSet(ttsIn) : TurnOf(f) \in Nat /\ TurnOf(f) <= Len(asker) /\ Len(asker) \in Nat
  BY TurnNumbers DEF SpeakInv, Attributed
<1>3. \A x \in ToSet(pending) : x.turn \in Nat /\ x.turn <= Len(asker) /\ Len(asker) > 0 /\ x.pid = asker[1]
  BY TurnNumbers DEF SpeakInv, Attributed
<1>4. Attributed'
  <2>1. ASSUME NEW f \in ToSet(ttsIn)' PROVE TurnOf(f) \in 1 .. Len(asker') /\ AskerOf(f) = asker'[1]
    <3>1. CASE f \in ToSet(ttsIn)
      BY <1>2, <3>1, TurnNumbers DEF SpeakInv, Attributed
    <3>2. CASE f \in ToSet(frames)
      BY <3>2
    <3> QED BY <1>1, <2>1, <3>1, <3>2
  <2>2. ASSUME NEW x \in ToSet(pending)' PROVE x.turn \in 1 .. Len(asker') /\ x.pid = asker'[1]
    BY <1>1, <1>3, <2>2, TurnNumbers DEF SpeakInv, Attributed
  <2> QED BY <2>1, <2>2 DEF Attributed
<1>5. ASSUME NEW f \in ToSet(ttsIn), NEW g \in ToSet(frames) PROVE InOrder(f, g)
  <2>1. TurnOf(f) \in Nat /\ TurnOf(f) <= Len(asker) /\ Len(asker) \in Nat /\ TurnOf(g) = N
    BY <1>2
  <2>2. ASSUME f.type = "end" PROVE TurnOf(f) < N
    <3>1. f \in Ends /\ TurnOf(f) = f.turn
      BY <2>2 DEF Ends, TurnOf
    <3>2. status[TurnOf(f)] = "done"
      BY <3>1 DEF RepliesDone
    <3> QED BY <2>1, <3>2
  <2>3. ASSUME g.type = "stop" PROVE Len(asker) < N
    BY <2>1, <2>3
  <2> QED BY <2>1, <2>2, <2>3 DEF InOrder
<1>6. ASSUME NEW i \in DOMAIN ttsIn', NEW j \in DOMAIN ttsIn', i < j
      PROVE  InOrder(ttsIn'[i], ttsIn'[j])
  <2>1. CASE i \in DOMAIN ttsIn /\ j \in DOMAIN ttsIn /\ ttsIn'[i] = ttsIn[i] /\ ttsIn'[j] = ttsIn[j]
    BY <1>6, <2>1 DEF QueueOrder
  <2>2. CASE i \in DOMAIN ttsIn /\ ttsIn'[i] = ttsIn[i] /\ ttsIn'[j] \in ToSet(frames)
    BY <1>5, <2>2, QueueTyped DEF SpeakInv
  <2>3. CASE \E a, b \in DOMAIN frames : a < b /\ ttsIn'[i] = frames[a] /\ ttsIn'[j] = frames[b]
    BY <2>3
  <2>4. \A m, n \in DOMAIN ttsIn' : m < n =>
          \/ m \in DOMAIN ttsIn /\ n \in DOMAIN ttsIn /\ ttsIn'[m] = ttsIn[m] /\ ttsIn'[n] = ttsIn[n]
          \/ m \in DOMAIN ttsIn /\ ttsIn'[m] = ttsIn[m] /\ ttsIn'[n] \in ToSet(frames)
          \/ \E a, b \in DOMAIN frames : a < b /\ ttsIn'[m] = frames[a] /\ ttsIn'[n] = frames[b]
    BY PushedBehind DEF SpeakInv
  <2> QED BY <1>6, <2>1, <2>2, <2>3, <2>4
<1>7. ASSUME NEW x \in ToSet(pending), NEW f \in ToSet(ttsIn)' PROVE Ahead(x, f)
  <2>1. CASE f \in ToSet(ttsIn)
    BY <1>7, <2>1 DEF QueueOrder
  <2>2. CASE f \in ToSet(frames)
    <3>1. TurnOf(f) = N /\ (f.type = "stop" => f.turn = N /\ N # Len(asker))
      BY <2>2 DEF TurnOf
    <3>2. x.turn \in Nat /\ x.turn <= Len(asker) /\ Len(asker) \in Nat
      BY <1>3, <1>7, TurnNumbers DEF SpeakInv
    <3> QED BY <3>1, <3>2 DEF Ahead
  <2> QED BY <1>1, <1>7, <2>1, <2>2
<1> QED BY <1>1, <1>4, <1>6, <1>7 DEF QueueOrder

\* Pushing disturbs nothing of the replies that are placed.
LEMMA PushKeepsReply ==
  ASSUME ToSet(ttsIn) \subseteq ToSet(ttsIn'), UNCHANGED << pending, dispatched >>,
         NEW t, produced'[t] = produced[t]
  PROVE  /\ Placed(t) => Placed(t)'
         /\ \A k : Given(t, k) => Given(t, k)'
<1>1. \A k : /\ Given(t, k) => Given(t, k)'
             /\ Held(t, k) => Held(t, k)'
             /\ Coming(t, k) => Coming(t, k)'
  BY DEF Given, Held, Coming
<1> QED BY <1>1 DEF Placed

\* A step that starts no task and moves no text.
LEMMA EchoQuiet ==
  ASSUME SpeakInv, EchoInv, UNCHANGED << asker, produced, ttsIn, pending, dispatched, ended >>,
         \A t \in Turns : status[t] = "done" => status'[t] = "done",
         \A t \in Turns : status'[t] = "running" => status[t] = "running"
  PROVE  EchoInv'
<1>1. /\ Ends' = Ends /\ ToSet(ttsIn)' = ToSet(ttsIn) /\ ToSet(pending)' = ToSet(pending) /\ Lone' = Lone
      /\ \A t, k : Given(t, k)' = Given(t, k)
      /\ \A t : Placed(t) => Placed(t)'
  BY DEF Ends, Lone, Given, Held, Coming, Placed
<1>2. \A f \in Ends : f.turn \in Turns
  BY EndTurns DEF SpeakInv
<1>3. RepliesDone'
  BY <1>1, <1>2 DEF EchoInv, RepliesDone
<1>4. ASSUME Lone PROVE Attributed' /\ QueueOrder'
  BY <1>1, <1>4 DEF EchoInv, Attributed, QueueOrder
<1>5. ASSUME Lone PROVE ReplyKept'
  BY <1>1, <1>5 DEF EchoInv, ReplyKept
<1> QED BY <1>1, <1>3, <1>4, <1>5 DEF EchoInv

\* A turn begins: a query, with an interruption before it or none, or a stop.
LEMMA BeginEcho ==
  ASSUME SpeakInv, EchoInv, NEW p \in Participants, Begin(p),
         NEW new \in {0, Len(asker')}, CancelPid(p, new),
         NEW frames \in Seq(Frame), ttsIn' = ttsIn \o frames,
         \A f \in ToSet(frames) : TurnOf(f) = Len(asker') /\ AskerOf(f) = p /\ f.type # "end",
         \A a, b \in DOMAIN frames : a < b => InOrder(frames[a], frames[b]),
         UNCHANGED << pending, dispatched, ended >>,
         \A t \in Turns : t # Len(asker') => produced'[t] = produced[t],
         new # 0 => produced'[new] = produced[new]
  PROVE  EchoInv'
<1>1. /\ Len(asker') = Len(asker) + 1 /\ Len(asker') \in Turns /\ asker'[Len(asker')] = p
      /\ \A i \in 1 .. Len(asker) : asker'[i] = asker[i]
      /\ Lone' => Lone /\ asker'[1] = p /\ \A i \in 1 .. Len(asker) : asker[i] = p
  BY LoneBegins DEF SpeakInv
<1>2. PICK N \in Turns : N = Len(asker')
  BY <1>1
<1>3. /\ N = Len(asker) + 1 /\ N \in Nat /\ N > 0 /\ Len(asker) \in Nat /\ Turns \subseteq Nat \ {0}
      /\ \A t \in Turns : status[t] # "none" => t \in 1 .. Len(asker) /\ t # N
  BY <1>1, <1>2, TurnNumbers DEF SpeakInv
<1>4. /\ \A t \in Turns : status[t] = "done" => status'[t] = "done"
      /\ \A t \in Turns : status'[t] = "running" /\ t # new => status[t] = "running" /\ asker[t] # p
  BY <1>2, <1>3, CancelLeaves DEF SpeakInv
<1>5. ToSet(ttsIn)' = ToSet(ttsIn) \union ToSet(frames)
  BY PushedBehind DEF SpeakInv
<1>6. Ends' = Ends /\ \A f \in Ends : f.turn \in Turns /\ status[f.turn] = "done"
  <2>1. Ends' = Ends
    BY <1>5 DEF Ends
  <2>2. \A f \in Ends : f.turn \in Turns
    BY EndTurns DEF SpeakInv
  <2> QED BY <2>1, <2>2 DEF EchoInv, RepliesDone
<1>7. \A t \in ended : t \in Turns /\ status[t] = "done"
  BY DEF EchoInv, RepliesDone
<1>8. produced[N] = 0 /\ \A t \in Turns : t > N => produced'[t] = 0
  BY <1>2, <1>3 DEF EchoInv, RepliesDone
<1>9. RepliesDone'
  BY <1>2, <1>4, <1>6, <1>7, <1>8 DEF RepliesDone
<1>10. ASSUME Lone' PROVE Attributed' /\ QueueOrder'
  <2>1. Attributed /\ QueueOrder /\ RepliesDone
    BY <1>1, <1>10 DEF EchoInv
  <2>2. asker'[1] = asker'[N] /\ (Len(asker) > 0 => asker'[1] = asker[1]) /\ asker'[N] = p
    BY <1>1, <1>2, <1>3, <1>10
  <2>3. \A f \in ToSet(frames) : TurnOf(f) = N /\ AskerOf(f) = asker'[N]
    BY <1>2, <2>2
  <2>4. N \in Nat /\ Len(asker) <= N /\ N > 0 /\ N # Len(asker)
    BY <1>3
  <2> QED BY <1>2, <2>1, <2>2, <2>3, <2>4, PushKeepsOrder
<1>11. ASSUME Lone' PROVE ReplyKept'
  <2>1. ReplyKept /\ \A i \in 1 .. Len(asker) : asker[i] = p
    BY <1>1, <1>11 DEF EchoInv
  <2>2. ASSUME NEW t \in Turns, status[t] = "done", produced'[t] = produced[t]
        PROVE  (Placed(t) => Placed(t)') /\ \A k : Given(t, k) => Given(t, k)'
    BY <1>5, <2>2, PushKeepsReply
  <2>3. \A t \in Turns : status[t] = "done" => produced'[t] = produced[t]
    BY <1>2, <1>3
  <2>4. ASSUME NEW t \in Turns, status'[t] = "running" PROVE t = Len(asker') /\ Placed(t)'
    <3>1. t = new
      BY <1>3, <1>4, <2>1, <2>4
    <3>2. t = N /\ produced'[t] = 0
      BY <1>2, <1>3, <1>8, <3>1
    <3> QED BY <1>2, <3>2 DEF Placed
  <2>5. \A f \in Ends' : Placed(f.turn)'
    BY <1>6, <2>1, <2>2, <2>3 DEF ReplyKept
  <2>6. ASSUME NEW t \in ended', NEW k \in 1 .. produced'[t] PROVE Given(t, k)'
    BY <1>7, <2>1, <2>2, <2>3, <2>6 DEF ReplyKept
  <2> QED BY <2>4, <2>5, <2>6 DEF ReplyKept
<1> QED BY <1>9, <1>10, <1>11 DEF EchoInv

LEMMA QueryEcho ==
  ASSUME SpeakInv, EchoInv, NEW p \in Participants, Query(p)
  PROVE  EchoInv'
<1>1. /\ Begin(p) /\ CancelPid(p, Len(asker')) /\ UNCHANGED << produced, pending, dispatched, ended >>
  BY DEF Query, tts
<1>2. PICK N \in Turns : N = Len(asker')
  BY <1>1, LoneBegins DEF SpeakInv
<1>3. CASE ttsIn' = ttsIn \o << StopFrame(p, N) >>
  <2> DEFINE stop == StopFrame(p, N)
             frames == << stop >>
  <2>1. stop \in Frame /\ TurnOf(stop) = N /\ AskerOf(stop) = p /\ stop.type = "stop"
    BY FramesTyped DEF StopFrame, TurnOf, AskerOf
  <2> HIDE DEF stop
  <2>2. frames \in Seq(Frame) /\ DOMAIN frames = {1} /\ frames[1] = stop
    BY <2>1
  <2> HIDE DEF frames
  <2>3. ToSet(frames) = {stop}
    BY <2>2 DEF ToSet
  <2>4. ttsIn' = ttsIn \o frames
    BY <1>3 DEF frames, stop
  <2>5. \A f \in ToSet(frames) : TurnOf(f) = Len(asker') /\ AskerOf(f) = p /\ f.type # "end"
    BY <1>2, <2>1, <2>3
  <2>6. \A a, b \in DOMAIN frames : a < b => InOrder(frames[a], frames[b])
    BY <2>2
  <2>7. Len(asker') \in {0, Len(asker')} /\ CancelPid(p, Len(asker'))
    BY <1>1
  <2> QED BY <1>1, <2>2, <2>4, <2>5, <2>6, <2>7, BeginEcho
<1>4. CASE ttsIn' = ttsIn
  <2> DEFINE frames == << >>
  <2>1. frames \in Seq(Frame) /\ DOMAIN frames = {}
    OBVIOUS
  <2>2. ttsIn' = ttsIn \o frames
    BY <1>4, QueueTyped DEF SpeakInv
  <2> HIDE DEF frames
  <2>3. ToSet(frames) = {}
    BY <2>1 DEF ToSet
  <2> QED BY <1>1, <1>2, <2>1, <2>2, <2>3, BeginEcho
<1> QED BY <1>2, <1>3, <1>4 DEF Query, Push

LEMMA StopEcho ==
  ASSUME SpeakInv, EchoInv, NEW p \in Participants, Stop(p)
  PROVE  EchoInv'
<1>1. /\ Begin(p) /\ CancelPid(p, 0) /\ UNCHANGED << pending, dispatched, ended >>
      /\ produced' = [produced EXCEPT ![Len(asker')] = 1]
  BY DEF Stop, tts
<1>2. PICK N \in Turns : N = Len(asker')
  BY <1>1, LoneBegins DEF SpeakInv
<1> DEFINE stop == StopFrame(p, N)
           text == TextFrame(p, N, 1, TRUE)
           frames == << stop, text >>
<1>3. /\ stop \in Frame /\ TurnOf(stop) = N /\ AskerOf(stop) = p /\ stop.type = "stop"
      /\ text \in Frame /\ TurnOf(text) = N /\ AskerOf(text) = p /\ text.type = "text"
  <2>1. 1 \in 1 .. MaxChunks
    BY ConstantsAssumption
  <2> QED BY <2>1, FramesTyped DEF StopFrame, TextFrame, TurnOf, AskerOf
<1>4. ttsIn' = ttsIn \o frames
  BY <1>2 DEF Stop, Push
<1> HIDE DEF stop, text
<1>5. frames \in Seq(Frame) /\ DOMAIN frames = {1, 2} /\ frames[1] = stop /\ frames[2] = text
  BY <1>3
<1> HIDE DEF frames
<1>6. ToSet(frames) = {stop, text}
  BY <1>5 DEF ToSet
<1>7. \A a, b \in DOMAIN frames : a < b => InOrder(frames[a], frames[b])
  <2>1. N \in Nat
    BY TurnNumbers DEF SpeakInv
  <2>2. InOrder(stop, text)
    BY <1>3, <2>1 DEF InOrder
  <2> QED BY <1>5, <2>2
<1>8. \A t \in Turns : t # Len(asker') => produced'[t] = produced[t]
  BY <1>1 DEF SpeakInv
<1> QED BY <1>1, <1>2, <1>3, <1>4, <1>5, <1>6, <1>7, <1>8, BeginEcho

\* The one that runs pushes: the newest, which nobody has stopped.
LEMMA RunnerIs ==
  ASSUME SpeakInv, EchoInv, NEW t \in Turns, status[t] = "running"
  PROVE  /\ t \in Nat /\ t > 0 /\ Len(asker) \in Nat /\ t \in 1 .. Len(asker) /\ asker[t] \in Participants
         /\ Lone => t = Len(asker) /\ asker[1] = asker[t]
         /\ \A f \in Ends : f.turn # t
         /\ t \notin ended
<1>1. t \in 1 .. Len(asker) /\ Len(asker) \in Nat /\ t \in Nat /\ t > 0 /\ asker[t] \in Participants
  BY TurnNumbers DEF SpeakInv
<1>2. DOMAIN asker = 1 .. Len(asker)
  BY DEF SpeakInv, BrainInv, BrainTypes
<1>3. ASSUME Lone PROVE t = Len(asker) /\ asker[1] = asker[t]
  <2>1. t = Len(asker)
    BY <1>3 DEF EchoInv, ReplyKept
  <2>2. 1 \in DOMAIN asker /\ t \in DOMAIN asker
    BY <1>1, <1>2
  <2> QED BY <1>3, <2>1, <2>2 DEF Lone
<1> QED BY <1>1, <1>3 DEF EchoInv, RepliesDone

LEMMA ChunkEcho ==
  ASSUME SpeakInv, EchoInv, NEW t \in Turns, NEW ends \in BOOLEAN, Chunk(t, ends)
  PROVE  EchoInv'
<1>1. /\ status[t] = "running" /\ produced[t] < MaxChunks /\ produced' = [produced EXCEPT ![t] = produced[t] + 1]
      /\ UNCHANGED << asker, status, pending, dispatched, ended >>
  BY DEF Chunk, tts
<1>2. /\ t \in Nat /\ t > 0 /\ Len(asker) \in Nat /\ t \in 1 .. Len(asker) /\ asker[t] \in Participants
      /\ Lone => t = Len(asker) /\ asker[1] = asker[t]
      /\ \A f \in Ends : f.turn # t
      /\ t \notin ended
  BY <1>1, RunnerIs
<1>3. produced[t] \in Nat /\ produced[t] + 1 \in 1 .. MaxChunks
  BY <1>1, ConstantsAssumption DEF SpeakInv
<1>4. /\ produced'[t] = produced[t] + 1
      /\ \A u \in Turns : u # t => produced'[u] = produced[u]
  BY <1>1 DEF SpeakInv
<1> DEFINE text == TextFrame(asker[t], t, produced[t] + 1, ends)
           frames == << text >>
<1>5. /\ text \in Frame /\ TurnOf(text) = t /\ AskerOf(text) = asker[t] /\ text.type = "text"
      /\ text.piece.turn = t /\ text.piece.k = produced[t] + 1
  BY <1>2, <1>3, FramesTyped DEF TextFrame, TurnOf, AskerOf
<1>6. ttsIn' = ttsIn \o frames
  BY DEF Chunk, Push
<1> HIDE DEF text
<1>7. frames \in Seq(Frame) /\ DOMAIN frames = {1} /\ frames[1] = text
  BY <1>5
<1> HIDE DEF frames
<1>8. ToSet(frames) = {text}
  BY <1>7 DEF ToSet
<1>9. ToSet(ttsIn)' = ToSet(ttsIn) \union {text}
  BY <1>6, <1>7, <1>8, PushedBehind DEF SpeakInv
<1>10. Ends' = Ends /\ \A f \in Ends : f.turn \in Turns
  BY <1>5, <1>9, EndTurns DEF Ends, SpeakInv
<1>11. RepliesDone'
  BY <1>1, <1>2, <1>4, <1>10 DEF EchoInv, RepliesDone
<1>12. Lone' = Lone
  BY <1>1 DEF Lone
<1>13. ASSUME Lone PROVE Attributed' /\ QueueOrder'
  <2>1. Attributed /\ QueueOrder /\ RepliesDone
    BY <1>13 DEF EchoInv
  <2>2. /\ t = Len(asker') /\ Len(asker) <= t /\ asker'[1] = asker'[t] /\ asker'[t] = asker[t] /\ asker'[1] = asker[1]
    BY <1>1, <1>2, <1>13
  <2>3. \A f \in ToSet(frames) : TurnOf(f) = t /\ AskerOf(f) = asker'[t] /\ f.type # "stop"
    BY <1>5, <1>8, <2>2
  <2>4. \A a, b \in DOMAIN frames : a < b => InOrder(frames[a], frames[b])
    BY <1>7
  <2> QED BY <1>1, <1>2, <1>6, <1>7, <2>1, <2>2, <2>3, <2>4, PushKeepsOrder
<1>14. ASSUME Lone PROVE ReplyKept'
  <2>1. ReplyKept
    BY <1>14 DEF EchoInv
  <2>2. ASSUME NEW u \in Turns, u # t
        PROVE  (Placed(u) => Placed(u)') /\ \A k : Given(u, k) => Given(u, k)'
    BY <1>1, <1>4, <1>9, <2>2, PushKeepsReply
  <2>3. Placed(t)'
    <3>1. Placed(t)
      BY <1>1, <2>1 DEF ReplyKept
    <3>2. PICK m \in Nat : m = produced[t] + 1
      BY <1>3
    <3>3. Coming(t, m)'
      BY <1>5, <1>9, <3>2 DEF Coming
    <3>4. \A k : /\ Given(t, k) => Given(t, k)'
                 /\ Held(t, k) => Held(t, k)'
                 /\ Coming(t, k) => Coming(t, k)'
      BY <1>1, <1>9 DEF Given, Held, Coming
    <3>5. \A k \in 1 .. produced'[t] : k \in 1 .. produced[t] \/ k = m
      BY <1>3, <1>4, <3>2
    <3> QED BY <3>1, <3>3, <3>4, <3>5 DEF Placed
  <2>4. ASSUME NEW u \in Turns, status'[u] = "running" PROVE u = Len(asker') /\ Placed(u)'
    <3>1. u = Len(asker) /\ u = t
      BY <1>1, <1>2, <1>14, <2>1, <2>4 DEF ReplyKept
    <3> QED BY <1>1, <2>3, <3>1
  <2>5. \A f \in Ends' : Placed(f.turn)'
    BY <1>2, <1>10, <2>1, <2>2 DEF ReplyKept
  <2>6. ASSUME NEW u \in ended', NEW k \in 1 .. produced'[u] PROVE Given(u, k)'
    <3>1. u \in ended /\ u \in Turns /\ u # t
      BY <1>1, <1>2, <2>6 DEF EchoInv, RepliesDone
    <3> QED BY <1>4, <2>1, <2>2, <2>6, <3>1 DEF ReplyKept
  <2> QED BY <2>4, <2>5, <2>6 DEF ReplyKept
<1> QED BY <1>11, <1>12, <1>13, <1>14 DEF EchoInv

LEMMA FinishEcho ==
  ASSUME SpeakInv, EchoInv, NEW t \in Turns, Finish(t)
  PROVE  EchoInv'
<1>1. /\ status[t] = "running" /\ status' = [status EXCEPT ![t] = "done"]
      /\ UNCHANGED << asker, produced, pending, dispatched, ended >>
  BY DEF Finish, tts
<1>2. /\ t \in Nat /\ t > 0 /\ Len(asker) \in Nat /\ t \in 1 .. Len(asker) /\ asker[t] \in Participants
      /\ Lone => t = Len(asker) /\ asker[1] = asker[t]
  BY <1>1, RunnerIs
<1>3. status'[t] = "done" /\ \A u \in Turns : u # t => status'[u] = status[u]
  BY <1>1 DEF SpeakInv, BrainInv, BrainTypes
<1> DEFINE end == EndFrame(asker[t], t)
           frames == << end >>
<1>4. end \in Frame /\ TurnOf(end) = t /\ AskerOf(end) = asker[t] /\ end.type = "end" /\ end.turn = t
  BY <1>2, FramesTyped DEF EndFrame, TurnOf, AskerOf
<1>5. ttsIn' = ttsIn \o frames
  BY DEF Finish, Push
<1> HIDE DEF end
<1>6. frames \in Seq(Frame) /\ DOMAIN frames = {1} /\ frames[1] = end
  BY <1>4
<1> HIDE DEF frames
<1>7. ToSet(frames) = {end}
  BY <1>6 DEF ToSet
<1>8. ToSet(ttsIn)' = ToSet(ttsIn) \union {end}
  BY <1>5, <1>6, <1>7, PushedBehind DEF SpeakInv
<1>9. Ends' = Ends \union {end} /\ \A f \in Ends : f.turn \in Turns
  BY <1>4, <1>8, EndTurns DEF Ends, SpeakInv
<1>10. RepliesDone'
  BY <1>1, <1>3, <1>4, <1>9 DEF EchoInv, RepliesDone
<1>11. Lone' = Lone
  BY <1>1 DEF Lone
<1>12. ASSUME Lone PROVE Attributed' /\ QueueOrder'
  <2>1. Attributed /\ QueueOrder /\ RepliesDone
    BY <1>12 DEF EchoInv
  <2>2. /\ t = Len(asker') /\ Len(asker) <= t /\ asker'[1] = asker'[t] /\ asker'[t] = asker[t] /\ asker'[1] = asker[1]
    BY <1>1, <1>2, <1>12
  <2>3. \A f \in ToSet(frames) : TurnOf(f) = t /\ AskerOf(f) = asker'[t] /\ f.type # "stop"
    BY <1>4, <1>7, <2>2
  <2>4. \A a, b \in DOMAIN frames : a < b => InOrder(frames[a], frames[b])
    BY <1>6
  <2> QED BY <1>1, <1>2, <1>5, <1>6, <2>1, <2>2, <2>3, <2>4, PushKeepsOrder
<1>13. ASSUME Lone PROVE ReplyKept'
  <2>1. ReplyKept
    BY <1>13 DEF EchoInv
  <2>2. \A u \in Turns : Placed(u) => Placed(u)'
    BY <1>1, <1>8, PushKeepsReply
  <2>3. \A u, k : Given(u, k) => Given(u, k)'
    BY <1>1 DEF Given
  <2>4. ASSUME NEW u \in Turns, status'[u] = "running" PROVE u = Len(asker') /\ Placed(u)'
    <3>1. status[u] = "running"
      BY <1>3, <2>4
    <3> QED BY <1>1, <2>1, <2>2, <3>1 DEF ReplyKept
  <2>5. ASSUME NEW f \in Ends' PROVE Placed(f.turn)'
    <3>1. CASE f \in Ends
      BY <1>9, <2>1, <2>2, <3>1 DEF ReplyKept
    <3>2. CASE f = end
      BY <1>1, <1>4, <2>1, <2>2, <3>2 DEF ReplyKept
    <3> QED BY <1>9, <2>5, <3>1, <3>2
  <2>6. \A u \in ended' : \A k \in 1 .. produced'[u] : Given(u, k)'
    BY <1>1, <2>1, <2>3 DEF ReplyKept
  <2> QED BY <2>4, <2>5, <2>6 DEF ReplyKept
<1> QED BY <1>10, <1>11, <1>12, <1>13 DEF EchoInv

\* What is taken from the front of the queue stood before what is left.
LEMMA FrontTaken ==
  ASSUME StopInv, QueueOrder, NEW n \in DOMAIN ttsIn, ttsIn' = SubSeq(ttsIn, n + 1, Len(ttsIn))
  PROVE  /\ ToSet(ttsIn)' \subseteq ToSet(ttsIn)
         /\ \A i, j \in DOMAIN ttsIn' : i < j => InOrder(ttsIn'[i], ttsIn'[j])
         /\ \A g \in ToSet(ttsIn)' : InOrder(ttsIn[n], g)
         /\ \A f \in ToSet(ttsIn) \ ToSet(ttsIn)' : f = ttsIn[n] \/ (n > 1 /\ InOrder(f, ttsIn[n]))
<1>1. /\ DOMAIN ttsIn = 1 .. Len(ttsIn) /\ Len(ttsIn) \in Nat /\ n \in 1 .. Len(ttsIn) /\ SpeechTypes
      /\ ttsIn \in Seq(Frame)
  BY QueueTyped DEF StopInv
<1>2. /\ Len(ttsIn') = Len(ttsIn) - n /\ ttsIn' \in Seq(Frame)
      /\ \A i \in DOMAIN ttsIn' : i + n \in DOMAIN ttsIn /\ ttsIn'[i] = ttsIn[i + n]
      /\ ToSet(ttsIn)' \subseteq ToSet(ttsIn)
  BY <1>1, Taken
<1>3. DOMAIN ttsIn' = 1 .. Len(ttsIn') /\ \A i \in DOMAIN ttsIn' : i \in Nat /\ i > 0
  BY <1>2
<1>4. ASSUME NEW i \in DOMAIN ttsIn', NEW j \in DOMAIN ttsIn', i < j
      PROVE  InOrder(ttsIn'[i], ttsIn'[j])
  <2>1. i + n < j + n
    BY <1>1, <1>3, <1>4
  <2> QED BY <1>2, <2>1 DEF QueueOrder
<1>5. ASSUME NEW g \in ToSet(ttsIn)' PROVE InOrder(ttsIn[n], g)
  <2>1. PICK i \in DOMAIN ttsIn' : g = ttsIn'[i]
    BY <1>5 DEF ToSet
  <2>2. n < i + n
    BY <1>1, <1>3
  <2> QED BY <1>2, <2>1, <2>2 DEF QueueOrder
<1>6. ASSUME NEW f \in ToSet(ttsIn) \ ToSet(ttsIn)' PROVE f = ttsIn[n] \/ (n > 1 /\ InOrder(f, ttsIn[n]))
  <2>1. PICK i \in DOMAIN ttsIn : f = ttsIn[i]
    BY <1>6 DEF ToSet
  <2>2. ASSUME i > n PROVE FALSE
    <3>1. i - n \in 1 .. Len(ttsIn') /\ (i - n) + n = i
      BY <1>1, <1>2, <2>2
    <3>2. i - n \in DOMAIN ttsIn' /\ ttsIn'[i - n] = ttsIn[i]
      BY <1>2, <1>3, <3>1
    <3>3. f \in ToSet(ttsIn)'
      BY <2>1, <3>2 DEF ToSet
    <3> QED BY <1>6, <3>3
  <2>3. i = n \/ i < n
    BY <1>1, <2>2
  <2>4. i < n => n > 1
    BY <1>1
  <2> QED BY <2>1, <2>3, <2>4 DEF QueueOrder
<1> QED BY <1>2, <1>4, <1>5, <1>6

\* The head taken.
LEMMA HeadTaken ==
  ASSUME StopInv, QueueOrder, ttsIn # << >>, ttsIn' = Tail(ttsIn)
  PROVE  /\ ToSet(ttsIn)' \subseteq ToSet(ttsIn) /\ Head(ttsIn) \in ToSet(ttsIn)
         /\ \A i, j \in DOMAIN ttsIn' : i < j => InOrder(ttsIn'[i], ttsIn'[j])
         /\ \A g \in ToSet(ttsIn)' : InOrder(Head(ttsIn), g)
         /\ \A f \in ToSet(ttsIn) \ ToSet(ttsIn)' : f = Head(ttsIn)
<1>1. ttsIn \in Seq(Frame) /\ Len(ttsIn) \in Nat /\ Len(ttsIn) > 0 /\ DOMAIN ttsIn = 1 .. Len(ttsIn)
  BY QueueTyped
<1>2. 1 \in DOMAIN ttsIn /\ Head(ttsIn) = ttsIn[1] /\ ttsIn' = SubSeq(ttsIn, 1 + 1, Len(ttsIn))
  BY <1>1
<1>3. \A f \in ToSet(ttsIn) \ ToSet(ttsIn)' : f = ttsIn[1] \/ (1 > 1 /\ InOrder(f, ttsIn[1]))
  BY <1>2, FrontTaken
<1>4. /\ \A i, j \in DOMAIN ttsIn' : i < j => InOrder(ttsIn'[i], ttsIn'[j])
      /\ \A g \in ToSet(ttsIn)' : InOrder(ttsIn[1], g)
      /\ ToSet(ttsIn)' \subseteq ToSet(ttsIn)
  BY <1>2, FrontTaken
<1> QED BY <1>2, <1>3, <1>4, QueueTyped

\* What was given to the TTS service stays given, and a sentence gives it all its text.
LEMMA Dispatched ==
  ASSUME NEW s, dispatched' = dispatched \union {s}
  PROVE  /\ \A t, k : Given(t, k) => Given(t, k)'
         /\ \A x \in ToSet(s.text) : x.pid = s.pid => Given(x.turn, x.k)'
<1>1. \A t, k : Given(t, k) => Given(t, k)'
  BY DEF Given
<1>2. ASSUME NEW x \in ToSet(s.text), x.pid = s.pid PROVE Given(x.turn, x.k)'
  <2>1. PICK i \in DOMAIN s.text : x = s.text[i]
    BY <1>2 DEF ToSet
  <2> QED BY <1>2, <2>1 DEF Given
<1> QED BY <1>1, <1>2

\* A handler that loses no chunk keeps what is known of the replies.
LEMMA HandlerEcho ==
  ASSUME SpeakInv, EchoInv, UNCHANGED << asker, status, produced >>,
         ToSet(ttsIn)' \subseteq ToSet(ttsIn),
         \A t \in ended' : t \in ended \/ (t \in Turns /\ status[t] = "done"),
         Lone =>
           /\ \A i, j \in DOMAIN ttsIn' : i < j => InOrder(ttsIn'[i], ttsIn'[j])
           /\ \A x \in ToSet(pending') : x.turn \in 1 .. Len(asker) /\ x.pid = asker[1]
           /\ \A x \in ToSet(pending'), g \in ToSet(ttsIn)' : Ahead(x, g)
           /\ \A t, k : Given(t, k) => Given(t, k)'
           /\ \A t \in Turns : status[t] = "running" /\ Placed(t) => Placed(t)'
           /\ \A f \in Ends' : Placed(f.turn) => Placed(f.turn)'
           /\ \A t \in ended' \ ended : \A k \in 1 .. produced[t] : Given(t, k)'
  PROVE  EchoInv'
<1>1. Ends' \subseteq Ends /\ Lone' = Lone
  BY DEF Ends, Lone
<1>2. RepliesDone'
  BY <1>1 DEF EchoInv, RepliesDone
<1>3. ASSUME Lone PROVE Attributed' /\ QueueOrder' /\ ReplyKept'
  <2>1. Attributed /\ QueueOrder /\ ReplyKept
    BY <1>3 DEF EchoInv
  <2>2. Attributed'
    BY <1>3, <2>1 DEF Attributed
  <2>3. QueueOrder'
    BY <1>3 DEF QueueOrder
  <2>4. ReplyKept'
    BY <1>1, <1>3, <2>1 DEF ReplyKept
  <2> QED BY <2>2, <2>3, <2>4
<1> QED BY <1>1, <1>2, <1>3 DEF EchoInv

LEMMA TextEcho ==
  ASSUME SpeakInv, EchoInv, HandleText
  PROVE  EchoInv'
<1> DEFINE f    == Head(ttsIn)
           text == Append(pending, f.piece)
<1>1. /\ ttsIn # << >> /\ f.type = "text" /\ ttsIn' = Tail(ttsIn)
      /\ UNCHANGED << asker, status, produced, ended >>
      /\ \/ dispatched' = dispatched \union {[pid |-> f.piece.pid, text |-> text]} /\ pending' = << >>
         \/ pending' = text /\ dispatched' = dispatched
  BY DEF HandleText, Dispatch, brain
<1>2. f \in Frame /\ f \in ToSet(ttsIn) /\ ToSet(ttsIn)' \subseteq ToSet(ttsIn)
  BY <1>1, TailTaken DEF SpeakInv, StopInv
<1>3. /\ f.piece \in Piece /\ TurnOf(f) = f.piece.turn /\ AskerOf(f) = f.piece.pid
      /\ pending \in Seq(Piece)
  BY <1>1, <1>2, FrameTurns, QueueTyped DEF SpeakInv
<1>4. text \in Seq(Piece) /\ ToSet(text) = ToSet(pending) \union {f.piece}
  BY <1>3, Appended
<1> HIDE DEF text
<1>5. ToSet(pending') \subseteq ToSet(pending) \union {f.piece}
  BY <1>1, <1>4 DEF ToSet
<1>6. ASSUME Lone
      PROVE  /\ \A i, j \in DOMAIN ttsIn' : i < j => InOrder(ttsIn'[i], ttsIn'[j])
             /\ \A x \in ToSet(pending') : x.turn \in 1 .. Len(asker) /\ x.pid = asker[1]
             /\ \A x \in ToSet(pending'), g \in ToSet(ttsIn)' : Ahead(x, g)
             /\ \A t, k : Given(t, k) => Given(t, k)'
             /\ \A t : Placed(t) => Placed(t)'
  <2>1. Attributed /\ QueueOrder
    BY <1>6 DEF EchoInv
  <2>2. /\ \A i, j \in DOMAIN ttsIn' : i < j => InOrder(ttsIn'[i], ttsIn'[j])
        /\ \A g \in ToSet(ttsIn)' : InOrder(f, g)
        /\ \A g \in ToSet(ttsIn) \ ToSet(ttsIn)' : g = f
    BY <1>1, <2>1, HeadTaken DEF SpeakInv
  <2>3. /\ \A x \in ToSet(pending) : x.turn \in 1 .. Len(asker) /\ x.pid = asker[1]
        /\ f.piece.turn \in 1 .. Len(asker) /\ f.piece.pid = asker[1]
    BY <1>2, <1>3, <2>1 DEF Attributed
  <2>4. ASSUME NEW x \in ToSet(pending'), NEW g \in ToSet(ttsIn)' PROVE Ahead(x, g)
    <3>1. CASE x \in ToSet(pending)
      BY <1>2, <2>1, <2>4, <3>1 DEF QueueOrder
    <3>2. CASE x = f.piece
      <4>1. TurnOf(f) <= TurnOf(g) /\ (g.type = "stop" => TurnOf(f) < TurnOf(g) /\ TurnOf(g) = g.turn)
        BY <2>2, <2>4 DEF InOrder, TurnOf
      <4> QED BY <1>3, <3>2, <4>1 DEF Ahead
    <3> QED BY <1>5, <2>4, <3>1, <3>2
  <2>5. \A t, k : Coming(t, k) =>
          Coming(t, k)' \/ (f.piece.turn = t /\ f.piece.k = k)
    <3>1. ASSUME NEW t, NEW k, Coming(t, k) PROVE Coming(t, k)' \/ (f.piece.turn = t /\ f.piece.k = k)
      <4>1. PICK g \in ToSet(ttsIn) : g.type = "text" /\ g.piece.turn = t /\ g.piece.k = k
        BY <3>1 DEF Coming
      <4>2. CASE g \in ToSet(ttsIn)'
        BY <4>1, <4>2 DEF Coming
      <4>3. CASE g = f
        BY <4>1, <4>3
      <4> QED BY <2>2, <4>2, <4>3
    <3> QED BY <3>1
  <2>6. /\ \A t, k : Given(t, k) => Given(t, k)'
        /\ \A t, k : Held(t, k) \/ (f.piece.turn = t /\ f.piece.k = k) => Given(t, k)' \/ Held(t, k)'
    <3>1. CASE pending' = text /\ dispatched' = dispatched
      <4>1. ToSet(pending)' = ToSet(pending) \union {f.piece}
        BY <1>4, <3>1
      <4> QED BY <3>1, <4>1 DEF Given, Held
    <3>2. CASE dispatched' = dispatched \union {[pid |-> f.piece.pid, text |-> text]}
      <4>1. PICK s : s = [pid |-> f.piece.pid, text |-> text]
        OBVIOUS
      <4>2. /\ \A t, k : Given(t, k) => Given(t, k)'
            /\ \A x \in ToSet(s.text) : x.pid = s.pid => Given(x.turn, x.k)'
        BY <3>2, <4>1, Dispatched
      <4>3. ASSUME NEW x \in ToSet(pending) \union {f.piece} PROVE Given(x.turn, x.k)'
        <5>1. s.text = text /\ s.pid = f.piece.pid
          BY <4>1
        <5>2. x \in ToSet(s.text) /\ x.pid = s.pid
          BY <1>4, <2>3, <4>3, <5>1
        <5> QED BY <4>2, <5>2
      <4>4. PICK y : y = f.piece
        OBVIOUS
      <4>5. \A x \in ToSet(pending) \union {y} : Given(x.turn, x.k)'
        BY <4>3, <4>4
      <4>6. \A t, k : Held(t, k) \/ (y.turn = t /\ y.k = k) => Given(t, k)'
        BY <4>5 DEF Held
      <4> QED BY <4>2, <4>4, <4>6
    <3> QED BY <1>1, <3>1, <3>2
  <2>7. \A t : Placed(t) => Placed(t)'
    BY <1>1, <2>5, <2>6 DEF Placed
  <2>8. \A x \in ToSet(pending') : x.turn \in 1 .. Len(asker) /\ x.pid = asker[1]
    BY <1>5, <2>3
  <2> QED BY <2>2, <2>4, <2>6, <2>7, <2>8
<1> QED BY <1>1, <1>2, <1>6, HandlerEcho

LEMMA EndEcho ==
  ASSUME SpeakInv, EchoInv, HandleEnd
  PROVE  EchoInv'
<1>0. PICK f : f = Head(ttsIn)
  OBVIOUS
<1>1. /\ ttsIn # << >> /\ f.type = "end" /\ ttsIn' = Tail(ttsIn) /\ pending' = << >>
      /\ UNCHANGED << asker, status, produced >> /\ ended' = ended \union {f.turn}
      /\ \/ dispatched' = dispatched \union {[pid |-> f.pid, text |-> pending]}
         \/ pending = << >> /\ dispatched' = dispatched
  BY <1>0 DEF HandleEnd, Dispatch, brain
<1>2. f \in Frame /\ f \in ToSet(ttsIn) /\ ToSet(ttsIn)' \subseteq ToSet(ttsIn)
  BY <1>0, <1>1, TailTaken DEF SpeakInv, StopInv
<1>3. /\ f \in Ends /\ f.turn \in Turns /\ TurnOf(f) = f.turn /\ AskerOf(f) = f.pid /\ f.turn \in Nat
      /\ status[f.turn] = "done" /\ pending \in Seq(Piece)
  BY <1>1, <1>2, FrameTurns, QueueTyped DEF SpeakInv, Ends, EchoInv, RepliesDone
<1>4. ToSet(pending') = {}
  BY <1>1 DEF ToSet
<1>5. ASSUME Lone
      PROVE  /\ \A i, j \in DOMAIN ttsIn' : i < j => InOrder(ttsIn'[i], ttsIn'[j])
             /\ \A t, k : Given(t, k) => Given(t, k)'
             /\ \A t : Placed(t) => Placed(t)'
             /\ \A k \in 1 .. produced[f.turn] : Given(f.turn, k)'
  <2>1. Attributed /\ QueueOrder /\ ReplyKept
    BY <1>5 DEF EchoInv
  <2>2. /\ \A i, j \in DOMAIN ttsIn' : i < j => InOrder(ttsIn'[i], ttsIn'[j])
        /\ \A g \in ToSet(ttsIn)' : InOrder(f, g)
        /\ \A g \in ToSet(ttsIn) \ ToSet(ttsIn)' : g = f
    BY <1>0, <1>1, <2>1, HeadTaken DEF SpeakInv
  <2>3. f.pid = asker[1] /\ \A x \in ToSet(pending) : x.pid = asker[1]
    BY <1>2, <1>3, <2>1 DEF Attributed
  <2>4. /\ \A t, k : Given(t, k) => Given(t, k)'
        /\ \A t, k : Held(t, k) => Given(t, k)'
    <3>1. CASE pending = << >> /\ dispatched' = dispatched
      BY <3>1 DEF Given, Held, ToSet
    <3>2. CASE dispatched' = dispatched \union {[pid |-> f.pid, text |-> pending]}
      <4>1. PICK s : s = [pid |-> f.pid, text |-> pending]
        OBVIOUS
      <4>2. /\ \A t, k : Given(t, k) => Given(t, k)'
            /\ \A x \in ToSet(s.text) : x.pid = s.pid => Given(x.turn, x.k)'
        BY <3>2, <4>1, Dispatched
      <4>3. s.text = pending /\ s.pid = f.pid
        BY <4>1
      <4>4. \A x \in ToSet(pending) : Given(x.turn, x.k)'
        BY <2>3, <4>2, <4>3
      <4> QED BY <4>2, <4>4 DEF Held
    <3> QED BY <1>1, <3>1, <3>2
  <2>5. \A t, k : Coming(t, k) => Coming(t, k)'
    BY <1>1, <2>2 DEF Coming
  <2>6. \A t : Placed(t) => Placed(t)'
    BY <1>1, <2>4, <2>5 DEF Placed
  <2>7. ASSUME NEW k \in 1 .. produced[f.turn] PROVE Given(f.turn, k)'
    <3>1. ASSUME Coming(f.turn, k) PROVE FALSE
      <4>1. PICK g \in ToSet(ttsIn) : g.type = "text" /\ g.piece.turn = f.turn
        BY <3>1 DEF Coming
      <4>2. InOrder(f, g)
        BY <1>1, <2>2, <4>1
      <4>3. TurnOf(f) < TurnOf(g)
        BY <1>1, <4>2 DEF InOrder
      <4> QED BY <1>3, <4>1, <4>3 DEF TurnOf
    <3>2. Given(f.turn, k) \/ Held(f.turn, k)
      BY <1>3, <2>1, <2>7, <3>1 DEF ReplyKept, Placed
    <3> QED BY <2>4, <3>2
  <2> QED BY <2>2, <2>4, <2>6, <2>7
<1>6. \A t \in ended' : t \in ended \/ (t \in Turns /\ status[t] = "done")
  BY <1>1, <1>3
<1>7. \A t \in ended' \ ended : t = f.turn
  BY <1>1
<1> QED BY <1>1, <1>2, <1>4, <1>5, <1>6, <1>7, HandlerEcho

\* An interruption takes nothing of a reply that is not older than it.
LEMMA HandleStopEcho ==
  ASSUME SpeakInv, EchoInv, HandleStop
  PROVE  EchoInv'
<1>1. PICK n \in DOMAIN ttsIn :
        /\ ttsIn[n].type = "stop"
        /\ ttsIn' = SubSeq(ttsIn, n + 1, Len(ttsIn)) /\ pending' = << >>
        /\ UNCHANGED << asker, status, produced, dispatched, ended >>
  BY DEF HandleStop, brain
<1>2. PICK f : f = ttsIn[n]
  OBVIOUS
<1>3. f \in Frame /\ f \in ToSet(ttsIn) /\ TurnOf(f) = f.turn /\ f.turn \in Nat
  BY <1>1, <1>2, QueueTyped, FrameTurns DEF SpeakInv
<1>4. ToSet(pending') = {}
  BY <1>1 DEF ToSet
<1>5. ToSet(ttsIn)' \subseteq ToSet(ttsIn)
  <2>1. n \in 1 .. Len(ttsIn) /\ SpeechTypes
    BY QueueTyped DEF SpeakInv, StopInv
  <2> QED BY <1>1, <2>1, Taken
<1>6. \A t, k : Given(t, k) => Given(t, k)'
  BY <1>1 DEF Given
<1>7. ASSUME Lone
      PROVE  /\ \A i, j \in DOMAIN ttsIn' : i < j => InOrder(ttsIn'[i], ttsIn'[j])
             /\ \A t \in Turns : status[t] = "running" /\ Placed(t) => Placed(t)'
             /\ \A g \in Ends' : Placed(g.turn) => Placed(g.turn)'
  <2>1. Attributed /\ QueueOrder /\ ReplyKept
    BY <1>7 DEF EchoInv
  <2>2. /\ \A i, j \in DOMAIN ttsIn' : i < j => InOrder(ttsIn'[i], ttsIn'[j])
        /\ \A g \in ToSet(ttsIn)' : InOrder(f, g)
        /\ \A g \in ToSet(ttsIn) \ ToSet(ttsIn)' : g = f \/ InOrder(g, f)
    BY <1>1, <1>2, <2>1, FrontTaken DEF SpeakInv
  <2>3. ASSUME NEW t \in Turns, f.turn <= t, Placed(t) PROVE Placed(t)'
    <3>1. t \in Nat
      BY TurnNumbers DEF SpeakInv
    <3>2. ASSUME NEW k, Held(t, k) PROVE FALSE
      <4>1. PICK x \in ToSet(pending) : x.turn = t
        BY <3>2 DEF Held
      <4>2. x.turn < f.turn
        BY <1>1, <1>2, <1>3, <2>1 DEF QueueOrder, Ahead
      <4> QED BY <1>3, <2>3, <3>1, <4>1, <4>2
    <3>3. ASSUME NEW k, Coming(t, k) PROVE Coming(t, k)'
      <4>1. PICK g \in ToSet(ttsIn) : g.type = "text" /\ g.piece.turn = t /\ g.piece.k = k
        BY <3>3 DEF Coming
      <4>2. TurnOf(g) = t /\ g # f
        BY <1>1, <1>2, <4>1 DEF TurnOf
      <4>3. ASSUME InOrder(g, f) PROVE FALSE
        BY <1>1, <1>2, <1>3, <2>3, <3>1, <4>2, <4>3 DEF InOrder
      <4>4. g \in ToSet(ttsIn)'
        BY <2>2, <4>2, <4>3
      <4> QED BY <4>1, <4>4 DEF Coming
    <3> QED BY <1>1, <1>6, <2>3, <3>2, <3>3 DEF Placed
  <2>4. ASSUME NEW t \in Turns, status[t] = "running" PROVE f.turn <= t
    BY <1>3, <2>1, <2>4, TurnNumbers DEF SpeakInv, Attributed, ReplyKept
  <2>5. ASSUME NEW g \in Ends' PROVE g.turn \in Turns /\ f.turn <= g.turn
    <3>1. g \in Ends /\ g \in ToSet(ttsIn)'
      BY <1>5, <2>5 DEF Ends
    <3>2. g.turn \in Turns /\ TurnOf(g) = g.turn /\ InOrder(f, g)
      BY <2>2, <3>1, EndTurns DEF SpeakInv
    <3> QED BY <1>1, <1>2, <1>3, <3>2 DEF InOrder
  <2> QED BY <2>2, <2>3, <2>4, <2>5
<1> QED BY <1>1, <1>4, <1>5, <1>6, <1>7, HandlerEcho

LEMMA EchoKeeps ==
  ASSUME SpeakInv, EchoInv, [Next]_vars
  PROVE  EchoInv'
<1>1. ASSUME NEW p \in Participants, Left(p) PROVE EchoInv'
  <2>1. CancelPid(p, 0) /\ UNCHANGED << asker, produced, ttsIn, pending, dispatched, ended >>
    BY <1>1 DEF Left, tts
  <2>2. /\ \A t \in Turns : status[t] = "done" => status'[t] = "done"
        /\ \A t \in Turns : status'[t] = "running" /\ t # 0 => status[t] = "running" /\ asker[t] # p
    BY <2>1, CancelLeaves DEF SpeakInv
  <2>3. \A t \in Turns : t # 0
    BY TurnNumbers DEF SpeakInv
  <2> QED BY <2>1, <2>2, <2>3, EchoQuiet
<1>2. ASSUME NEW t \in Turns, Unwind(t) PROVE EchoInv'
  <2>1. /\ status[t] = "cancelling" /\ status' = [status EXCEPT ![t] = "cancelled"]
        /\ UNCHANGED << asker, produced, ttsIn, pending, dispatched, ended >>
    BY <1>2 DEF Unwind, tts
  <2>2. \A u \in Turns : status'[u] = status[u] \/ (u = t /\ status'[u] = "cancelled")
    BY <2>1 DEF SpeakInv, BrainInv, BrainTypes
  <2> QED BY <2>1, <2>2, EchoQuiet
<1>3. ASSUME UNCHANGED << asker, status, produced, ttsIn, pending, dispatched, ended >> PROVE EchoInv'
  BY <1>3, EchoQuiet
<1>4. CASE \E p \in Participants : Joined(p) \/ Play(p)
  BY <1>3, <1>4 DEF Joined, Play, tts, brain
<1>5. CASE Speak \/ Write \/ OutputStop
  BY <1>3, <1>5 DEF Speak, Write, OutputStop, tts, brain
<1>6. CASE \E i \in DOMAIN sentences, wav \in {"ok", "failed"} : Synthesized(i, wav)
  BY <1>3, <1>6 DEF Synthesized, brain
<1>7. CASE UNCHANGED vars
  BY <1>3, <1>7 DEF vars, tts, brain
<1>8. ASSUME NEW t \in Turns, NEW ends \in BOOLEAN, Chunk(t, ends) PROVE EchoInv'
  BY <1>8, ChunkEcho
<1> QED
  BY <1>1, <1>2, <1>4, <1>5, <1>6, <1>7, <1>8, QueryEcho, StopEcho, FinishEcho, TextEcho, EndEcho, HandleStopEcho
  DEF Next

\* When the end marker of a reply is seen and the data channel echoes it
\* (_handle_response_end), every chunk of it has been given to the TTS service,
\* whatever queries and stops of the one who asked were handled meanwhile.
THEOREM EchoIsSpoken == Spec => []EchoMatchesSpeech
<1> DEFINE I == SpeakInv /\ EchoInv
<1>1. Init => I
  BY InitBrain, StopStarts, EchoStarts DEF Init, SpeakInv
<1>2. I /\ [Next]_vars => I'
  BY NextBrain, StopsKeep, ChunksCounted, EchoKeeps DEF SpeakInv
<1>3. I => EchoMatchesSpeech
  BY DEF EchoInv, EchoMatchesSpeech, Lone, ReplyKept, Given
<1> QED BY <1>1, <1>2, <1>3, PTL DEF Spec

-----------------------------------------------------------------------------
(* Replies kept apart.  Text that no sentence end has closed stays open    *)
(* for what follows it.  With a drain on every follow-up, text of another  *)
(* turn follows it only behind the interruption that turn began with.      *)

Open(f) == f.type = "text" /\ ~ f.ends

\* The interruption with which turn t began is on its way.
Announced(t) == \E s \in Stops : s.turn = t

\* Open text is that of a query.
OpenIsQuery ==
  /\ \A x \in ToSet(pending) : status[x.turn] # "none"
  /\ \A f \in ToSet(ttsIn) : Open(f) => status[f.piece.turn] # "none"

\* Who had a query is known to have had one.
AskersSeen == \A t \in Turns : status[t] # "none" => asker[t] \in seen

\* Text that may follow open text of another turn: what is on its way, and what the
\* task that runs will push.
KeptApart ==
  /\ \A x, y \in ToSet(pending) : x.turn = y.turn
  /\ \A x \in ToSet(pending), f \in ToSet(ttsIn) :
       f.type = "text" => x.turn = f.piece.turn \/ Announced(f.piece.turn)
  /\ \A f, g \in ToSet(ttsIn) :
       Open(f) /\ g.type = "text" /\ f.piece.turn < g.piece.turn => Announced(g.piece.turn)
  /\ \A t \in Turns : status[t] = "running" =>
       /\ \A x \in ToSet(pending) : x.turn = t \/ Announced(t)
       /\ \A f \in ToSet(ttsIn) : Open(f) => f.piece.turn = t \/ Announced(t)

ApartInv ==
  /\ OpenIsQuery
  /\ setting = {"drain"} => AskersSeen /\ (Lone => KeptApart /\ OneTurnPerSentence)

LEMMA ApartStarts == Init => ApartInv
<1> SUFFICES ASSUME Init PROVE ApartInv
  OBVIOUS
<1>1. ToSet(ttsIn) = {} /\ ToSet(pending) = {} /\ dispatched = {} /\ \A t \in Turns : status[t] = "none"
  BY DEF Init, ToSet
<1> QED BY <1>1 DEF ApartInv, OpenIsQuery, AskersSeen, KeptApart, OneTurnPerSentence

\* Text is of turns, as numbers.
LEMMA TextTurns ==
  ASSUME SpeakInv
  PROVE  /\ \A x \in ToSet(pending) : x.turn \in Turns /\ x.turn \in Nat
         /\ \A f \in ToSet(ttsIn) : f.type = "text" =>
              f.piece.turn \in Turns /\ f.piece.turn \in Nat /\ TurnOf(f) = f.piece.turn
<1>1. ASSUME NEW x \in ToSet(pending) PROVE x.turn \in Turns /\ x.turn \in Nat
  BY <1>1, QueueTyped DEF SpeakInv, Piece
<1>2. ASSUME NEW f \in ToSet(ttsIn), f.type = "text"
      PROVE  f.piece.turn \in Turns /\ f.piece.turn \in Nat /\ TurnOf(f) = f.piece.turn
  <2>1. f \in Frame
    BY <1>2, QueueTyped DEF SpeakInv
  <2> QED BY <1>2, <2>1, FrameTurns
<1> QED BY <1>1, <1>2

\* A step that pushes no text and starts no task.
LEMMA ApartQuiet ==
  ASSUME SpeakInv, ApartInv, UNCHANGED << asker, pending, dispatched, setting >>,
         ToSet(ttsIn) \subseteq ToSet(ttsIn)', \A f \in ToSet(ttsIn)' \ ToSet(ttsIn) : f.type = "end",
         setting = {"drain"} => seen \subseteq seen',
         \A t \in Turns : (status'[t] # "none" <=> status[t] # "none") /\ (status'[t] = "running" => status[t] = "running")
  PROVE  ApartInv'
<1>1. /\ ToSet(pending)' = ToSet(pending) /\ Lone' = Lone /\ Stops' = Stops
      /\ \A f \in ToSet(ttsIn)' : f.type = "text" => f \in ToSet(ttsIn)
  BY DEF Lone, Stops
<1>2. \A t : Announced(t)' = Announced(t)
  BY <1>1 DEF Announced
<1>3. OpenIsQuery'
  BY <1>1, TextTurns DEF ApartInv, OpenIsQuery, Open
<1>4. ASSUME setting = {"drain"} PROVE AskersSeen' /\ (Lone => KeptApart' /\ OneTurnPerSentence')
  <2>1. AskersSeen'
    BY <1>4 DEF ApartInv, AskersSeen
  <2>2. ASSUME Lone PROVE KeptApart' /\ OneTurnPerSentence'
    <3>1. KeptApart /\ OneTurnPerSentence
      BY <1>4, <2>2 DEF ApartInv
    <3>2. OneTurnPerSentence'
      BY <3>1 DEF OneTurnPerSentence
    <3>3. KeptApart'
      BY <1>1, <1>2, <3>1 DEF KeptApart, Open
    <3> QED BY <3>2, <3>3
  <2> QED BY <2>1, <2>2
<1> QED BY <1>1, <1>3, <1>4 DEF ApartInv

\* A turn begins: behind an interruption, or it is the first query of all.
LEMMA ApartBegins ==
  ASSUME SpeakInv, EchoInv, ApartInv, NEW p \in Participants, Begin(p),
         NEW new \in {0, Len(asker')}, CancelPid(p, new),
         NEW frames \in Seq(Frame), ttsIn' = ttsIn \o frames,
         \A f \in ToSet(frames) : ~ Open(f) /\ TurnOf(f) = Len(asker'),
         UNCHANGED << pending, dispatched, setting >>,
         seen \subseteq seen', new # 0 => p \in seen',
         \/ \E f \in ToSet(frames) : f.type = "stop" /\ f.turn = Len(asker')
         \/ ToSet(frames) = {} /\ (setting = {"drain"} => p \notin seen)
  PROVE  ApartInv'
<1>1. /\ Len(asker') = Len(asker) + 1 /\ Len(asker') \in Turns /\ asker'[Len(asker')] = p
      /\ \A i \in 1 .. Len(asker) : asker'[i] = asker[i]
      /\ Lone' => Lone /\ \A i \in 1 .. Len(asker) : asker[i] = p
  BY LoneBegins DEF SpeakInv
<1>2. PICK N \in Turns : N = Len(asker')
  BY <1>1
<1>3. \A t \in Turns : status[t] # "none" => t \in 1 .. Len(asker)
  BY TurnNumbers DEF SpeakInv
<1>4. /\ \A t \in Turns : status[t] # "none" => status'[t] # "none"
      /\ \A t \in Turns : status'[t] # "none" => status[t] # "none" \/ t = new
  <2>1. ASSUME NEW t \in Turns, t = inflight[p] PROVE status[t] # "none"
    <3>1. t \in 1 .. Len(asker) /\ asker[t] = p
      BY <2>1, TurnNumbers DEF SpeakInv, BrainInv, TableOfAskers
    <3>2. t <= Len(asker)
      BY <3>1, TurnNumbers DEF SpeakInv
    <3> QED BY <2>1, <3>1, <3>2 DEF SpeakInv, BrainInv, OneQueryInFlight
  <2>2. status' = [t \in Turns |-> IF t = new THEN "running" ELSE IF t = inflight[p] THEN "cancelling" ELSE status[t]]
    BY DEF CancelPid
  <2> QED BY <2>1, <2>2
<1>5. /\ ToSet(ttsIn)' = ToSet(ttsIn) \union ToSet(frames) /\ ToSet(pending)' = ToSet(pending)
  <2>1. ToSet(ttsIn)' = ToSet(ttsIn) \union ToSet(frames)
    BY PushedBehind DEF SpeakInv
  <2> QED BY <2>1
<1>6. \A f \in ToSet(ttsIn)' : Open(f) => f \in ToSet(ttsIn)
  BY <1>5
<1>7. OpenIsQuery'
  <2>1. ASSUME NEW f \in ToSet(ttsIn), Open(f) PROVE f.piece.turn \in Turns
    BY <2>1, TextTurns DEF Open
  <2> QED BY <1>4, <1>5, <1>6, <2>1, TextTurns DEF ApartInv, OpenIsQuery
<1>8. ASSUME setting = {"drain"} PROVE AskersSeen'
  <2>1. ASSUME NEW t \in Turns, status[t] # "none" PROVE asker'[t] \in seen'
    BY <1>1, <1>3, <1>8, <2>1 DEF ApartInv, AskersSeen
  <2>2. ASSUME NEW t \in Turns, t = new PROVE asker'[t] \in seen'
    <3>1. new # 0
      BY <2>2, TurnNumbers DEF SpeakInv
    <3> QED BY <1>1, <2>2, <3>1
  <2> QED BY <1>4, <2>1, <2>2 DEF AskersSeen
<1>9. ASSUME setting = {"drain"}, Lone' PROVE KeptApart' /\ OneTurnPerSentence'
  <2>1. KeptApart /\ OneTurnPerSentence /\ AskersSeen
    BY <1>1, <1>9 DEF ApartInv
  <2>2. OneTurnPerSentence'
    BY <2>1 DEF OneTurnPerSentence
  <2>3. \A t : Announced(t) => Announced(t)'
    BY <1>5 DEF Announced, Stops
  <2>4. \A t \in Turns : status'[t] = "running" => t = N
    <3>1. \A t \in Turns : status'[t] = "running" /\ t # new => status[t] = "running" /\ asker[t] # p
      BY <1>1, CancelLeaves DEF SpeakInv
    <3>2. \A t \in Turns : status[t] = "running" => asker[t] = p
      BY <1>1, <1>3, <1>9
    <3>3. \A t \in Turns : t # 0
      BY TurnNumbers DEF SpeakInv
    <3> QED BY <1>2, <3>1, <3>2, <3>3
  <2>5. CASE \E f \in ToSet(frames) : f.type = "stop" /\ f.turn = Len(asker')
    <3>1. Announced(N)'
      BY <1>2, <1>5, <2>5 DEF Announced, Stops
    <3>2. \A f \in ToSet(ttsIn)' : f.type = "text" => f \in ToSet(ttsIn) \/ f.piece.turn = N
      BY <1>2, <1>5 DEF TurnOf
    <3> QED BY <1>5, <1>6, <2>1, <2>2, <2>3, <2>4, <3>1, <3>2 DEF KeptApart
  <2>6. CASE ToSet(frames) = {} /\ p \notin seen
    <3>1. \A t \in Turns : status[t] = "none"
      BY <1>1, <1>3, <1>9, <2>1, <2>6 DEF AskersSeen
    <3>2. ToSet(pending) = {} /\ \A f \in ToSet(ttsIn) : ~ Open(f)
      BY <3>1, TextTurns DEF ApartInv, OpenIsQuery, Open
    <3> QED BY <1>5, <2>2, <2>6, <3>2 DEF KeptApart
  <2> QED BY <1>9, <2>5, <2>6
<1> QED BY <1>7, <1>8, <1>9 DEF ApartInv

LEMMA QueryApart ==
  ASSUME SpeakInv, EchoInv, ApartInv, NEW p \in Participants, Query(p)
  PROVE  ApartInv'
<1>1. /\ Begin(p) /\ CancelPid(p, Len(asker')) /\ UNCHANGED << pending, dispatched, setting >>
      /\ seen \subseteq seen' /\ p \in seen'
  BY DEF Query, tts
<1>2. PICK N \in Turns : N = Len(asker')
  BY <1>1, LoneBegins DEF SpeakInv
<1>3. CASE ttsIn' = ttsIn \o << StopFrame(p, N) >>
  <2> DEFINE stop == StopFrame(p, N)
             frames == << stop >>
  <2>1. stop \in Frame /\ TurnOf(stop) = N /\ stop.turn = N /\ stop.type = "stop"
    BY FramesTyped DEF StopFrame, TurnOf
  <2> HIDE DEF stop
  <2>2. frames \in Seq(Frame) /\ DOMAIN frames = {1} /\ frames[1] = stop
    BY <2>1
  <2> HIDE DEF frames
  <2>3. ToSet(frames) = {stop}
    BY <2>2 DEF ToSet
  <2>4. ttsIn' = ttsIn \o frames
    BY <1>3 DEF frames, stop
  <2>5. \A f \in ToSet(frames) : ~ Open(f) /\ TurnOf(f) = Len(asker')
    BY <1>2, <2>1, <2>3 DEF Open
  <2>6. \E f \in ToSet(frames) : f.type = "stop" /\ f.turn = Len(asker')
    BY <1>2, <2>1, <2>3
  <2> QED BY <1>1, <2>2, <2>4, <2>5, <2>6, ApartBegins
<1>4. CASE ttsIn' = ttsIn /\ ~ (p \in seen /\ "drain" \in setting)
  <2> DEFINE frames == << >>
  <2>1. frames \in Seq(Frame) /\ DOMAIN frames = {}
    OBVIOUS
  <2>2. ttsIn' = ttsIn \o frames
    BY <1>4, QueueTyped DEF SpeakInv
  <2> HIDE DEF frames
  <2>3. ToSet(frames) = {}
    BY <2>1 DEF ToSet
  <2>4. setting = {"drain"} => p \notin seen
    BY <1>4
  <2> QED BY <1>1, <2>1, <2>2, <2>3, <2>4, ApartBegins
<1> QED BY <1>2, <1>3, <1>4 DEF Query, Push

LEMMA StopApart ==
  ASSUME SpeakInv, EchoInv, ApartInv, NEW p \in Participants, Stop(p)
  PROVE  ApartInv'
<1>1. Begin(p) /\ CancelPid(p, 0) /\ UNCHANGED << pending, dispatched, setting, seen >>
  BY DEF Stop, tts
<1>2. PICK N \in Turns : N = Len(asker')
  BY <1>1, LoneBegins DEF SpeakInv
<1> DEFINE stop == StopFrame(p, N)
           text == TextFrame(p, N, 1, TRUE)
           frames == << stop, text >>
<1>3. /\ stop \in Frame /\ TurnOf(stop) = N /\ stop.turn = N /\ stop.type = "stop"
      /\ text \in Frame /\ TurnOf(text) = N /\ ~ Open(text)
  <2>1. 1 \in 1 .. MaxChunks
    BY ConstantsAssumption
  <2> QED BY <2>1, FramesTyped DEF StopFrame, TextFrame, TurnOf, Open
<1>4. ttsIn' = ttsIn \o frames
  BY <1>2 DEF Stop, Push
<1> HIDE DEF stop, text
<1>5. frames \in Seq(Frame) /\ DOMAIN frames = {1, 2} /\ frames[1] = stop /\ frames[2] = text
  BY <1>3
<1> HIDE DEF frames
<1>6. ToSet(frames) = {stop, text}
  BY <1>5 DEF ToSet
<1>7. \A f \in ToSet(frames) : ~ Open(f) /\ TurnOf(f) = Len(asker')
  BY <1>2, <1>3, <1>6 DEF Open
<1>8. \E f \in ToSet(frames) : f.type = "stop" /\ f.turn = Len(asker')
  BY <1>2, <1>3, <1>6
<1> QED BY <1>1, <1>4, <1>5, <1>7, <1>8, ApartBegins

LEMMA ChunkApart ==
  ASSUME SpeakInv, EchoInv, ApartInv, NEW t \in Turns, NEW ends \in BOOLEAN, Chunk(t, ends)
  PROVE  ApartInv'
<1>1. status[t] = "running" /\ produced[t] < MaxChunks /\ UNCHANGED << asker, status, seen, pending, dispatched, setting >>
  BY DEF Chunk, tts
<1>2. /\ t \in Nat /\ t > 0 /\ t \in 1 .. Len(asker) /\ asker[t] \in Participants
      /\ Lone => t = Len(asker)
  BY <1>1, RunnerIs
<1>3. produced[t] + 1 \in 1 .. MaxChunks
  BY <1>1, ConstantsAssumption DEF SpeakInv
<1> DEFINE text == TextFrame(asker[t], t, produced[t] + 1, ends)
           frames == << text >>
<1>4. text \in Frame /\ text.type = "text" /\ text.piece.turn = t
  BY <1>2, <1>3, FramesTyped DEF TextFrame
<1>5. ttsIn' = ttsIn \o frames
  BY DEF Chunk, Push
<1> HIDE DEF text
<1>6. frames \in Seq(Frame) /\ DOMAIN frames = {1} /\ frames[1] = text
  BY <1>4
<1> HIDE DEF frames
<1>7. ToSet(ttsIn)' = ToSet(ttsIn) \union {text}
  <2>1. ToSet(frames) = {text}
    BY <1>6 DEF ToSet
  <2> QED BY <1>5, <1>6, <2>1, PushedBehind DEF SpeakInv
<1>8. /\ Lone' = Lone /\ ToSet(pending)' = ToSet(pending) /\ Stops' = Stops
      /\ \A u : Announced(u)' = Announced(u)
  BY <1>1, <1>4, <1>7 DEF Lone, Stops, Announced
<1>9. OpenIsQuery'
  BY <1>1, <1>4, <1>7, <1>8 DEF ApartInv, OpenIsQuery
<1>10. setting = {"drain"} => AskersSeen'
  BY <1>1 DEF ApartInv, AskersSeen
<1>11. ASSUME setting = {"drain"}, Lone PROVE KeptApart' /\ OneTurnPerSentence'
  <2>1. KeptApart /\ OneTurnPerSentence
    BY <1>11 DEF ApartInv
  <2>2. OneTurnPerSentence'
    BY <1>1, <2>1 DEF OneTurnPerSentence
  <2>3. \A f \in ToSet(ttsIn) : f.type = "text" => f.piece.turn \in Nat /\ f.piece.turn <= t
    BY <1>2, <1>11, TextTurns DEF EchoInv, Attributed
  <2>4. \A u \in Turns : status[u] = "running" => u = t
    BY <1>2, <1>11 DEF EchoInv, ReplyKept
  <2>5. /\ \A x \in ToSet(pending) : x.turn = t \/ Announced(t)
        /\ \A f \in ToSet(ttsIn) : Open(f) => f.piece.turn = t \/ Announced(t)
    BY <1>1, <2>1 DEF KeptApart
  <2>6. ASSUME NEW f \in ToSet(ttsIn)', NEW g \in ToSet(ttsIn)',
               Open(f), g.type = "text", f.piece.turn < g.piece.turn
        PROVE  Announced(g.piece.turn)
    <3>1. CASE f \in ToSet(ttsIn) /\ g \in ToSet(ttsIn)
      BY <2>1, <2>6, <3>1 DEF KeptApart
    <3>2. CASE f \in ToSet(ttsIn) /\ g = text
      BY <1>2, <1>4, <2>3, <2>5, <2>6, <3>2 DEF Open
    <3>3. CASE f = text
      BY <1>2, <1>4, <1>7, <2>3, <2>6, <3>3
    <3> QED BY <1>7, <2>6, <3>1, <3>2, <3>3
  <2>7. ASSUME NEW x \in ToSet(pending), NEW f \in ToSet(ttsIn)', f.type = "text"
        PROVE  x.turn = f.piece.turn \/ Announced(f.piece.turn)
    BY <1>4, <1>7, <2>1, <2>5, <2>7 DEF KeptApart
  <2>8. \A f \in ToSet(ttsIn)' : Open(f) => f.piece.turn = t \/ Announced(t)
    BY <1>4, <1>7, <2>5
  <2>9. \A x, y \in ToSet(pending) : x.turn = y.turn
    BY <2>1 DEF KeptApart
  <2>10. KeptApart'
    BY <1>1, <1>8, <2>4, <2>5, <2>6, <2>7, <2>8, <2>9 DEF KeptApart
  <2> QED BY <2>2, <2>10
<1> QED BY <1>1, <1>8, <1>9, <1>10, <1>11 DEF ApartInv

LEMMA FinishApart ==
  ASSUME SpeakInv, EchoInv, ApartInv, NEW t \in Turns, Finish(t)
  PROVE  ApartInv'
<1>1. /\ status[t] = "running" /\ status' = [status EXCEPT ![t] = "done"]
      /\ UNCHANGED << asker, seen, pending, dispatched, setting >>
  BY DEF Finish, tts
<1>2. asker[t] \in Participants
  BY <1>1, RunnerIs
<1> DEFINE end == EndFrame(asker[t], t)
           frames == << end >>
<1>3. end \in Frame /\ end.type = "end"
  BY <1>2, FramesTyped DEF EndFrame
<1>4. ttsIn' = ttsIn \o frames
  BY DEF Finish, Push
<1> HIDE DEF end
<1>5. frames \in Seq(Frame) /\ DOMAIN frames = {1} /\ frames[1] = end
  BY <1>3
<1> HIDE DEF frames
<1>6. ToSet(ttsIn)' = ToSet(ttsIn) \union {end}
  <2>1. ToSet(frames) = {end}
    BY <1>5 DEF ToSet
  <2> QED BY <1>4, <1>5, <2>1, PushedBehind DEF SpeakInv
<1>7. \A u \in Turns : (status'[u] # "none" <=> status[u] # "none") /\ (status'[u] = "running" => status[u] = "running")
  BY <1>1 DEF SpeakInv, BrainInv, BrainTypes
<1> QED BY <1>1, <1>3, <1>6, <1>7, ApartQuiet

LEMMA TextApart ==
  ASSUME SpeakInv, EchoInv, ApartInv, HandleText
  PROVE  ApartInv'
<1> DEFINE f    == Head(ttsIn)
           text == Append(pending, f.piece)
<1>1. /\ ttsIn # << >> /\ f.type = "text" /\ ttsIn' = Tail(ttsIn)
      /\ UNCHANGED << asker, status, seen, setting >>
      /\ \/ f.ends /\ dispatched' = dispatched \union {[pid |-> f.piece.pid, text |-> text]} /\ pending' = << >>
         \/ Open(f) /\ pending' = text /\ dispatched' = dispatched
  BY DEF HandleText, Dispatch, brain, Open
<1>2. f \in Frame /\ f \in ToSet(ttsIn) /\ ToSet(ttsIn)' \subseteq ToSet(ttsIn)
  BY <1>1, TailTaken DEF SpeakInv, StopInv
<1>3. /\ f.piece \in Piece /\ TurnOf(f) = f.piece.turn /\ f.piece.turn \in Nat
      /\ pending \in Seq(Piece)
  BY <1>1, <1>2, FrameTurns, QueueTyped DEF SpeakInv
<1>4. text \in Seq(Piece) /\ ToSet(text) = ToSet(pending) \union {f.piece}
  BY <1>3, Appended
<1> HIDE DEF text
<1>5. \/ ToSet(pending') = {}
      \/ Open(f) /\ ToSet(pending') = ToSet(pending) \union {f.piece} /\ dispatched' = dispatched
  <2>1. CASE pending' = << >>
    BY <2>1 DEF ToSet
  <2>2. CASE Open(f) /\ pending' = text /\ dispatched' = dispatched
    BY <1>4, <2>2
  <2> QED BY <1>1, <2>1, <2>2
<1>6. OpenIsQuery'
  BY <1>1, <1>2, <1>5 DEF ApartInv, OpenIsQuery
<1>7. setting = {"drain"} => AskersSeen'
  BY <1>1 DEF ApartInv, AskersSeen
<1>8. ASSUME setting = {"drain"}, Lone PROVE KeptApart' /\ OneTurnPerSentence'
  <2>1. KeptApart /\ OneTurnPerSentence /\ Attributed /\ QueueOrder
    BY <1>8 DEF ApartInv, EchoInv
  <2>2. /\ \A g \in ToSet(ttsIn)' : InOrder(f, g)
        /\ \A g \in ToSet(ttsIn) \ ToSet(ttsIn)' : g = f
    BY <1>1, <2>1, HeadTaken DEF SpeakInv
  <2>3. ASSUME NEW t, Announced(t) PROVE Announced(t)' /\ f.piece.turn # t
    <3>1. PICK s \in ToSet(ttsIn) : s.type = "stop" /\ s.turn = t
      BY <2>3 DEF Announced, Stops
    <3>2. s \in ToSet(ttsIn)'
      BY <1>1, <2>2, <3>1
    <3>3. TurnOf(f) < TurnOf(s) /\ TurnOf(s) = s.turn /\ TurnOf(s) \in Nat
      BY <2>2, <3>1, <3>2, QueueTyped, FrameTurns DEF InOrder, SpeakInv
    <3> QED BY <1>3, <3>1, <3>2, <3>3 DEF Announced, Stops
  <2>4. \A x \in ToSet(pending) \union {f.piece} : x.turn = f.piece.turn
    BY <1>1, <1>2, <2>1, <2>3 DEF KeptApart
  <2>5. OneTurnPerSentence'
    <3>1. CASE dispatched' = dispatched
      BY <2>1, <3>1 DEF OneTurnPerSentence
    <3>2. CASE dispatched' = dispatched \union {[pid |-> f.piece.pid, text |-> text]}
      <4>1. \A i \in DOMAIN text : text[i].turn = f.piece.turn
        BY <1>4, <2>4 DEF ToSet
      <4>2. PICK s : s = [pid |-> f.piece.pid, text |-> text]
        OBVIOUS
      <4>3. s.text = text
        BY <4>2
      <4> QED BY <2>1, <3>2, <4>1, <4>2, <4>3 DEF OneTurnPerSentence
    <3> QED BY <1>1, <3>1, <3>2
  <2>6. \A t \in Turns : status[t] = "running" =>
          /\ \A x \in ToSet(pending') : x.turn = t \/ Announced(t)'
          /\ \A g \in ToSet(ttsIn)' : Open(g) => g.piece.turn = t \/ Announced(t)'
    BY <1>2, <1>5, <2>1, <2>3 DEF KeptApart
  <2>7. ASSUME NEW x \in ToSet(pending'), NEW g \in ToSet(ttsIn)', g.type = "text"
        PROVE  x.turn = g.piece.turn \/ Announced(g.piece.turn)'
    <3>1. x.turn = f.piece.turn /\ Open(f)
      BY <1>5, <2>4, <2>7
    <3>2. g \in ToSet(ttsIn) /\ g.piece.turn \in Nat /\ f.piece.turn <= g.piece.turn
      BY <1>1, <1>2, <1>3, <2>2, <2>7, TextTurns DEF InOrder
    <3> QED BY <1>2, <1>3, <2>1, <2>3, <2>7, <3>1, <3>2 DEF KeptApart
  <2>8. \A x, y \in ToSet(pending') : x.turn = y.turn
    BY <1>5, <2>4
  <2>9. \A g, h \in ToSet(ttsIn)' :
          Open(g) /\ h.type = "text" /\ g.piece.turn < h.piece.turn => Announced(h.piece.turn)'
    BY <1>2, <2>1, <2>3 DEF KeptApart
  <2>10. KeptApart'
    BY <1>1, <2>6, <2>7, <2>8, <2>9 DEF KeptApart
  <2> QED BY <2>5, <2>10
<1>9. Lone' = Lone /\ setting' = setting
  BY <1>1 DEF Lone
<1> QED BY <1>6, <1>7, <1>8, <1>9 DEF ApartInv

LEMMA EndApart ==
  ASSUME SpeakInv, EchoInv, ApartInv, HandleEnd
  PROVE  ApartInv'
<1>0. PICK f : f = Head(ttsIn)
  OBVIOUS
<1>1. /\ ttsIn # << >> /\ f.type = "end" /\ ttsIn' = Tail(ttsIn) /\ pending' = << >>
      /\ UNCHANGED << asker, status, seen, setting >>
      /\ dispatched' = dispatched \union {[pid |-> f.pid, text |-> pending]} \/ dispatched' = dispatched
  BY <1>0 DEF HandleEnd, Dispatch, brain
<1>2. ToSet(pending') = {} /\ ToSet(ttsIn)' \subseteq ToSet(ttsIn) /\ Lone' = Lone
  <2>1. ToSet(ttsIn)' \subseteq ToSet(ttsIn)
    BY <1>1, TailTaken DEF SpeakInv, StopInv
  <2> QED BY <1>1, <2>1 DEF ToSet, Lone
<1>3. OpenIsQuery'
  BY <1>1, <1>2 DEF ApartInv, OpenIsQuery
<1>4. setting = {"drain"} => AskersSeen'
  BY <1>1 DEF ApartInv, AskersSeen
<1>5. ASSUME setting = {"drain"}, Lone PROVE KeptApart' /\ OneTurnPerSentence'
  <2>1. KeptApart /\ OneTurnPerSentence /\ QueueOrder
    BY <1>5 DEF ApartInv, EchoInv
  <2>2. \A g \in ToSet(ttsIn) \ ToSet(ttsIn)' : g = f
    BY <1>0, <1>1, <2>1, HeadTaken DEF SpeakInv
  <2>3. \A t : Announced(t) => Announced(t)'
    BY <1>1, <2>2 DEF Announced, Stops
  <2>4. KeptApart'
    BY <1>1, <1>2, <2>1, <2>3 DEF KeptApart
  <2>5. OneTurnPerSentence'
    <3>1. CASE dispatched' = dispatched
      BY <2>1, <3>1 DEF OneTurnPerSentence
    <3>2. CASE dispatched' = dispatched \union {[pid |-> f.pid, text |-> pending]}
      <4>1. \A i, j \in DOMAIN pending : pending[i].turn = pending[j].turn
        BY <2>1 DEF KeptApart, ToSet
      <4>2. PICK s : s = [pid |-> f.pid, text |-> pending]
        OBVIOUS
      <4>3. s.text = pending
        BY <4>2
      <4> QED BY <2>1, <3>2, <4>1, <4>2, <4>3 DEF OneTurnPerSentence
    <3> QED BY <1>1, <3>1, <3>2
  <2> QED BY <2>4, <2>5
<1> QED BY <1>1, <1>2, <1>3, <1>4, <1>5 DEF ApartInv

\* An interruption takes no announcement of a turn that is newer than what it leaves.
LEMMA HandleStopApart ==
  ASSUME SpeakInv, EchoInv, ApartInv, HandleStop
  PROVE  ApartInv'
<1>1. PICK n \in DOMAIN ttsIn :
        /\ ttsIn[n].type = "stop"
        /\ ttsIn' = SubSeq(ttsIn, n + 1, Len(ttsIn)) /\ pending' = << >>
        /\ UNCHANGED << asker, status, seen, dispatched, setting >>
  BY DEF HandleStop, brain
<1>2. PICK f : f = ttsIn[n]
  OBVIOUS
<1>3. f \in Frame /\ f \in ToSet(ttsIn) /\ TurnOf(f) = f.turn /\ f.turn \in Nat
  BY <1>1, <1>2, QueueTyped, FrameTurns DEF SpeakInv
<1>4. ToSet(pending') = {} /\ Lone' = Lone /\ ToSet(ttsIn)' \subseteq ToSet(ttsIn)
  <2>1. n \in 1 .. Len(ttsIn) /\ SpeechTypes
    BY QueueTyped DEF SpeakInv, StopInv
  <2>2. ToSet(ttsIn)' \subseteq ToSet(ttsIn)
    BY <1>1, <2>1, Taken
  <2> QED BY <1>1, <2>2 DEF ToSet, Lone
<1>5. OpenIsQuery'
  BY <1>1, <1>4 DEF ApartInv, OpenIsQuery
<1>6. setting = {"drain"} => AskersSeen'
  BY <1>1 DEF ApartInv, AskersSeen
<1>7. ASSUME setting = {"drain"}, Lone PROVE KeptApart' /\ OneTurnPerSentence'
  <2>1. KeptApart /\ OneTurnPerSentence /\ Attributed /\ QueueOrder /\ ReplyKept
    BY <1>7 DEF ApartInv, EchoInv
  <2>2. /\ \A g \in ToSet(ttsIn)' : InOrder(f, g)
        /\ \A g \in ToSet(ttsIn) \ ToSet(ttsIn)' : g = f \/ InOrder(g, f)
    BY <1>1, <1>2, <2>1, FrontTaken DEF SpeakInv
  <2>3. ASSUME NEW g \in ToSet(ttsIn)', Open(g) PROVE g.piece.turn \in Nat /\ f.turn <= g.piece.turn
    BY <1>3, <1>4, <2>2, <2>3, TextTurns DEF InOrder, Open
  <2>4. ASSUME NEW t \in Nat, f.turn < t, Announced(t) PROVE Announced(t)'
    <3>1. PICK s \in ToSet(ttsIn) : s.type = "stop" /\ s.turn = t
      BY <2>4 DEF Announced, Stops
    <3>2. TurnOf(s) = t
      BY <3>1 DEF TurnOf
    <3>3. s # f /\ ~ InOrder(s, f)
      BY <1>3, <2>4, <3>1, <3>2 DEF InOrder
    <3> QED BY <2>2, <3>1, <3>3 DEF Announced, Stops
  <2>5. ASSUME NEW g \in ToSet(ttsIn)', NEW h \in ToSet(ttsIn)',
               Open(g), h.type = "text", g.piece.turn < h.piece.turn
        PROVE  Announced(h.piece.turn)'
    <3>1. Announced(h.piece.turn) /\ h.piece.turn \in Nat
      BY <1>4, <2>1, <2>5, TextTurns DEF KeptApart
    <3> QED BY <1>3, <2>3, <2>4, <2>5, <3>1
  <2>6. ASSUME NEW t \in Turns, status[t] = "running", NEW g \in ToSet(ttsIn)', Open(g), g.piece.turn # t
        PROVE  Announced(t)'
    <3>1. t = Len(asker) /\ t \in Nat /\ Announced(t)
      BY <1>4, <2>1, <2>6, TurnNumbers DEF KeptApart, ReplyKept, SpeakInv
    <3>2. g.piece.turn \in Nat /\ g.piece.turn <= t
      BY <1>4, <2>1, <2>6, <3>1, TextTurns DEF Attributed, Open
    <3> QED BY <1>3, <2>3, <2>4, <2>6, <3>1, <3>2
  <2>7. KeptApart'
    BY <1>1, <1>4, <2>5, <2>6 DEF KeptApart
  <2> QED BY <1>1, <2>1, <2>7 DEF OneTurnPerSentence
<1> QED BY <1>1, <1>4, <1>5, <1>6, <1>7 DEF ApartInv

LEMMA ApartKeeps ==
  ASSUME SpeakInv, EchoInv, ApartInv, [Next]_vars
  PROVE  ApartInv'
<1>1. ASSUME NEW p \in Participants, Left(p) PROVE ApartInv'
  <2>1. /\ CancelPid(p, 0) /\ UNCHANGED << asker, ttsIn, pending, dispatched, setting >>
        /\ "leave" \in setting
    BY <1>1 DEF Left, tts
  <2>2. ASSUME NEW t \in Turns
        PROVE  (status'[t] # "none" <=> status[t] # "none") /\ (status'[t] = "running" => status[t] = "running")
    <3>1. t # 0 /\ status'[t] = IF t = inflight[p] THEN "cancelling" ELSE status[t]
      BY <2>1, TurnNumbers DEF CancelPid, SpeakInv
    <3>2. ASSUME t = inflight[p] PROVE status[t] = "running"
      <4>1. t \in 1 .. Len(asker) /\ asker[t] = p
        BY <3>1, <3>2 DEF SpeakInv, BrainInv, TableOfAskers
      <4>2. t <= Len(asker)
        BY <4>1, TurnNumbers DEF SpeakInv
      <4> QED BY <3>2, <4>1, <4>2 DEF SpeakInv, BrainInv, OneQueryInFlight
    <3> QED BY <3>1, <3>2
  <2>3. setting # {"drain"}
    BY <2>1
  <2> QED BY <2>1, <2>2, <2>3, ApartQuiet
<1>2. ASSUME NEW t \in Turns, Unwind(t) PROVE ApartInv'
  <2>1. /\ status[t] = "cancelling" /\ status' = [status EXCEPT ![t] = "cancelled"]
        /\ UNCHANGED << asker, seen, ttsIn, pending, dispatched, setting >>
    BY <1>2 DEF Unwind, tts
  <2>2. \A u \in Turns : (status'[u] # "none" <=> status[u] # "none") /\ (status'[u] = "running" => status[u] = "running")
    BY <2>1 DEF SpeakInv, BrainInv, BrainTypes
  <2> QED BY <2>1, <2>2, ApartQuiet
<1>3. ASSUME UNCHANGED << asker, status, seen, ttsIn, pending, dispatched, setting >> PROVE ApartInv'
  BY <1>3, ApartQuiet
<1>4. CASE \E p \in Participants : Joined(p) \/ Play(p)
  BY <1>3, <1>4 DEF Joined, Play, tts, brain
<1>5. CASE Speak \/ Write \/ OutputStop
  BY <1>3, <1>5 DEF Speak, Write, OutputStop, tts, brain
<1>6. CASE \E i \in DOMAIN sentences, wav \in {"ok", "failed"} : Synthesized(i, wav)
  BY <1>3, <1>6 DEF Synthesized, brain
<1>7. CASE UNCHANGED vars
  BY <1>3, <1>7 DEF vars, tts, brain
<1>8. ASSUME NEW t \in Turns, NEW ends \in BOOLEAN, Chunk(t, ends) PROVE ApartInv'
  BY <1>8, ChunkApart
<1> QED
  BY <1>1, <1>2, <1>4, <1>5, <1>6, <1>7, <1>8, QueryApart, StopApart, FinishApart, TextApart, EndApart, HandleStopApart
  DEF Next

\* With an interruption before every follow-up (on_query_superseded), a sentence has
\* text of one reply only, as long as one participant alone asks and nobody leaves:
\* the buffer is empty, or its text that of the same turn, when the next text comes.
THEOREM DrainsSeparate == Spec => []DrainsKeepTurnsApart
<1> DEFINE I == SpeakInv /\ EchoInv /\ ApartInv
<1>1. Init => I
  BY InitBrain, StopStarts, EchoStarts, ApartStarts DEF Init, SpeakInv
<1>2. I /\ [Next]_vars => I'
  BY NextBrain, StopsKeep, ChunksCounted, EchoKeeps, ApartKeeps DEF SpeakInv
<1>3. I => DrainsKeepTurnsApart
  BY DEF ApartInv, DrainsKeepTurnsApart
<1> QED BY <1>1, <1>2, <1>3, PTL DEF Spec

-----------------------------------------------------------------------------
(* The order of speech.                                                    *)

\* All of S is before all of T, and the pieces of a text are in their order.
Behind(T, S) == \A x \in S, y \in T : x.pid = y.pid => Earlier(x, y)
Sorted(s) == \A a, b \in DOMAIN s : a < b /\ s[a].pid = s[b].pid => Earlier(s[a], s[b])

\* A queue of texts, L: what it holds, and its order.
All(L) == UNION {ToSet(L[i]) : i \in DOMAIN L}
Lined(L) ==
  /\ \A i \in DOMAIN L : Sorted(L[i])
  /\ \A i, j \in DOMAIN L : i < j => Behind(ToSet(L[j]), ToSet(L[i]))

LEMMA AllIs == \A L : \A i \in DOMAIN L : ToSet(L[i]) \subseteq All(L)
  BY DEF All

LEMMA LineGrows ==
  ASSUME NEW n \in Nat, NEW L, NEW M, DOMAIN L = 1 .. n, DOMAIN M = 1 .. n + 1,
         \A i \in 1 .. n : M[i] = L[i], Lined(L),
         Sorted(M[n + 1]), Behind(ToSet(M[n + 1]), All(L))
  PROVE  Lined(M) /\ All(M) = All(L) \union ToSet(M[n + 1])
<1>1. ASSUME NEW i \in DOMAIN M PROVE Sorted(M[i])
  <2>1. CASE i = n + 1
    BY <2>1
  <2>2. CASE i # n + 1
    <3>1. i \in 1 .. n
      BY <2>2
    <3> QED BY <3>1 DEF Lined
  <2> QED BY <2>1, <2>2
<1>2. ASSUME NEW i \in DOMAIN M, NEW j \in DOMAIN M, i < j PROVE Behind(ToSet(M[j]), ToSet(M[i]))
  <2>1. i \in 1 .. n
    BY <1>2
  <2>2. CASE j = n + 1
    BY <2>1, <2>2, AllIs DEF Behind
  <2>3. CASE j # n + 1
    <3>1. j \in 1 .. n
      BY <2>3
    <3> QED BY <1>2, <2>1, <3>1 DEF Lined
  <2> QED BY <2>2, <2>3
<1>3. ASSUME NEW x PROVE x \in All(M) <=> x \in All(L) \union ToSet(M[n + 1])
  <2>1. ASSUME x \in All(M) PROVE x \in All(L) \union ToSet(M[n + 1])
    <3>1. PICK i \in DOMAIN M : x \in ToSet(M[i])
      BY <2>1 DEF All
    <3>2. i \in 1 .. n \/ i = n + 1
      OBVIOUS
    <3> QED BY <3>1, <3>2 DEF All
  <2>2. ASSUME x \in All(L) PROVE x \in All(M)
    <3>1. PICK i \in DOMAIN L : x \in ToSet(L[i])
      BY <2>2 DEF All
    <3>2. i \in DOMAIN M /\ M[i] = L[i]
      OBVIOUS
    <3> QED BY <3>1, <3>2 DEF All
  <2>3. n + 1 \in DOMAIN M
    OBVIOUS
  <2> QED BY <2>1, <2>2, <2>3, AllIs
<1> QED BY <1>1, <1>2, <1>3 DEF Lined

\* The first k of a queue are taken from it.
LEMMA LineShrinks ==
  ASSUME NEW n \in Nat, NEW k \in 1 .. n, NEW L, NEW M, DOMAIN L = 1 .. n, DOMAIN M = 1 .. n - k,
         \A i \in 1 .. n - k : M[i] = L[i + k], Lined(L)
  PROVE  /\ Lined(M) /\ All(M) \subseteq All(L)
         /\ Sorted(L[k]) /\ ToSet(L[k]) \subseteq All(L) /\ Behind(All(M), ToSet(L[k]))
<1>1. \A i \in DOMAIN M : i + k \in DOMAIN L /\ M[i] = L[i + k] /\ k < i + k
  OBVIOUS
<1>2. \A i, j \in DOMAIN M : i < j => i + k < j + k
  OBVIOUS
<1>3. Lined(M)
  BY <1>1, <1>2 DEF Lined
<1>4. k \in DOMAIN L
  OBVIOUS
<1>5. ASSUME NEW x \in All(M) PROVE x \in All(L) /\ \A y \in ToSet(L[k]) : y.pid = x.pid => Earlier(y, x)
  <2>1. PICK i \in DOMAIN M : x \in ToSet(M[i])
    BY <1>5 DEF All
  <2>2. x \in ToSet(L[i + k]) /\ i + k \in DOMAIN L /\ k < i + k
    BY <1>1, <2>1
  <2> QED BY <1>4, <2>2, AllIs DEF Lined, Behind
<1> QED BY <1>3, <1>4, <1>5, AllIs DEF Lined, Behind

LEMMA SortedGrows ==
  ASSUME NEW S, NEW s \in Seq(S), NEW x \in S, Sorted(s), Behind({x}, ToSet(s))
  PROVE  Sorted(Append(s, x)) /\ ToSet(Append(s, x)) = ToSet(s) \union {x}
<1> DEFINE r == Append(s, x)
<1>1. /\ Len(s) \in Nat /\ DOMAIN s = 1 .. Len(s) /\ DOMAIN r = 1 .. Len(s) + 1
      /\ \A i \in 1 .. Len(s) : r[i] = s[i]
      /\ r[Len(s) + 1] = x
  OBVIOUS
<1> HIDE DEF r
<1>2. ASSUME NEW a \in DOMAIN r, NEW b \in DOMAIN r, a < b, r[a].pid = r[b].pid PROVE Earlier(r[a], r[b])
  <2>1. a \in 1 .. Len(s)
    BY <1>1, <1>2
  <2>2. r[a] = s[a] /\ s[a] \in ToSet(s) /\ a \in DOMAIN s
    BY <1>1, <2>1 DEF ToSet
  <2>3. CASE b = Len(s) + 1
    BY <1>1, <1>2, <2>2, <2>3 DEF Behind
  <2>4. CASE b # Len(s) + 1
    <3>1. b \in DOMAIN s /\ r[b] = s[b]
      BY <1>1, <2>4
    <3> QED BY <1>2, <2>2, <3>1 DEF Sorted
  <2> QED BY <2>3, <2>4
<1>3. Sorted(r)
  BY <1>2 DEF Sorted
<1> QED BY <1>3, Appended DEF r

LEMMA SmallSorted ==
  /\ Sorted(<< >>) /\ ToSet(<< >>) = {}
  /\ \A x : Sorted(<<x>>) /\ ToSet(<<x>>) = {x}
<1>1. ASSUME NEW x PROVE Sorted(<<x>>) /\ ToSet(<<x>>) = {x}
  <2>1. DOMAIN <<x>> = {1} /\ <<x>>[1] = x
    OBVIOUS
  <2>2. Sorted(<<x>>)
    BY <2>1 DEF Sorted
  <2>3. ToSet(<<x>>) = {x}
    BY <2>1 DEF ToSet
  <2> QED BY <2>2, <2>3
<1> QED BY <1>1 DEF Sorted, ToSet

\* The queues of texts.
TextsOf(frames) == [i \in DOMAIN frames |-> TextOf(frames[i])]
Spoken(queue) == [i \in DOMAIN queue |-> queue[i].text]

LEMMA QueueGrows ==
  ASSUME NEW S, NEW q \in Seq(S), NEW f \in S, Lined(TextsOf(q)),
         Sorted(TextOf(f)), Behind(ToSet(TextOf(f)), All(TextsOf(q)))
  PROVE  /\ Lined(TextsOf(Append(q, f)))
         /\ All(TextsOf(Append(q, f))) = All(TextsOf(q)) \union ToSet(TextOf(f))
<1> DEFINE n == Len(q)
           r == Append(q, f)
<1>1. /\ n \in Nat /\ DOMAIN q = 1 .. n /\ DOMAIN r = 1 .. n + 1
      /\ \A i \in 1 .. n : r[i] = q[i]
      /\ r[n + 1] = f
  OBVIOUS
<1> HIDE DEF n, r
<1>2. /\ DOMAIN TextsOf(q) = 1 .. n /\ DOMAIN TextsOf(r) = 1 .. n + 1
      /\ \A i \in 1 .. n : TextsOf(r)[i] = TextsOf(q)[i]
      /\ TextsOf(r)[n + 1] = TextOf(f)
  BY <1>1 DEF TextsOf
<1>3. Lined(TextsOf(r)) /\ All(TextsOf(r)) = All(TextsOf(q)) \union ToSet(TextOf(f))
  <2> DEFINE L == TextsOf(q)
             M == TextsOf(r)
  <2> HIDE DEF L, M
  <2>1. /\ DOMAIN L = 1 .. n /\ DOMAIN M = 1 .. n + 1 /\ \A i \in 1 .. n : M[i] = L[i]
        /\ M[n + 1] = TextOf(f) /\ Lined(L) /\ Behind(ToSet(M[n + 1]), All(L)) /\ Sorted(M[n + 1])
    BY <1>2 DEF L, M
  <2>2. Lined(M) /\ All(M) = All(L) \union ToSet(M[n + 1])
    BY <1>1, <2>1, LineGrows
  <2> QED BY <2>1, <2>2 DEF L, M
<1> QED BY <1>3 DEF r

LEMMA QueueShrinks ==
  ASSUME NEW S, NEW q \in Seq(S), NEW k \in 1 .. Len(q), Lined(TextsOf(q))
  PROVE  LET r == SubSeq(q, k + 1, Len(q))
         IN /\ Lined(TextsOf(r)) /\ All(TextsOf(r)) \subseteq All(TextsOf(q))
            /\ Sorted(TextOf(q[k])) /\ ToSet(TextOf(q[k])) \subseteq All(TextsOf(q))
            /\ Behind(All(TextsOf(r)), ToSet(TextOf(q[k])))
<1> DEFINE n == Len(q)
           r == SubSeq(q, k + 1, n)
<1>1. /\ n \in Nat /\ k \in 1 .. n /\ DOMAIN q = 1 .. n /\ DOMAIN r = 1 .. n - k
      /\ \A i \in 1 .. n - k : r[i] = q[i + k] /\ i + k \in 1 .. n
  OBVIOUS
<1> HIDE DEF n, r
<1> DEFINE L == TextsOf(q)
           M == TextsOf(r)
<1>2. /\ DOMAIN L = 1 .. n /\ DOMAIN M = 1 .. n - k
      /\ \A i \in 1 .. n - k : M[i] = L[i + k]
      /\ L[k] = TextOf(q[k])
  BY <1>1 DEF TextsOf
<1> HIDE DEF L, M
<1>3. Lined(L)
  BY DEF L
<1>4. /\ Lined(M) /\ All(M) \subseteq All(L)
      /\ Sorted(L[k]) /\ ToSet(L[k]) \subseteq All(L) /\ Behind(All(M), ToSet(L[k]))
  BY <1>1, <1>2, <1>3, LineShrinks
<1> QED BY <1>2, <1>4 DEF L, M, r, n

LEMMA SpokenGrows ==
  ASSUME NEW S, NEW q \in Seq(S), NEW s \in S, Lined(Spoken(q)),
         Sorted(s.text), Behind(ToSet(s.text), All(Spoken(q)))
  PROVE  /\ Lined(Spoken(Append(q, s)))
         /\ All(Spoken(Append(q, s))) = All(Spoken(q)) \union ToSet(s.text)
<1> DEFINE n == Len(q)
           r == Append(q, s)
<1>1. /\ n \in Nat /\ DOMAIN q = 1 .. n /\ DOMAIN r = 1 .. n + 1
      /\ \A i \in 1 .. n : r[i] = q[i]
      /\ r[n + 1] = s
  OBVIOUS
<1> HIDE DEF n, r
<1> DEFINE L == Spoken(q)
           M == Spoken(r)
<1>2. /\ DOMAIN L = 1 .. n /\ DOMAIN M = 1 .. n + 1
      /\ \A i \in 1 .. n : M[i] = L[i]
      /\ M[n + 1] = s.text
  BY <1>1 DEF Spoken
<1> HIDE DEF L, M
<1>3. Lined(L) /\ Behind(ToSet(M[n + 1]), All(L)) /\ Sorted(M[n + 1])
  BY <1>2 DEF L
<1>4. Lined(M) /\ All(M) = All(L) \union ToSet(M[n + 1])
  BY <1>1, <1>2, <1>3, LineGrows
<1> QED BY <1>2, <1>4 DEF L, M, r

LEMMA SpokenShrinks ==
  ASSUME NEW S, NEW q \in Seq(S), q # << >>, Lined(Spoken(q))
  PROVE  /\ Lined(Spoken(Tail(q))) /\ All(Spoken(Tail(q))) \subseteq All(Spoken(q))
         /\ Sorted(Head(q).text) /\ ToSet(Head(q).text) \subseteq All(Spoken(q))
         /\ Behind(All(Spoken(Tail(q))), ToSet(Head(q).text))
<1> DEFINE n == Len(q)
           r == Tail(q)
<1>1. /\ n \in Nat /\ 1 \in 1 .. n /\ DOMAIN q = 1 .. n /\ DOMAIN r = 1 .. n - 1 /\ Head(q) = q[1]
      /\ \A i \in 1 .. n - 1 : r[i] = q[i + 1] /\ i + 1 \in 1 .. n
  OBVIOUS
<1> HIDE DEF n, r
<1> DEFINE L == Spoken(q)
           M == Spoken(r)
<1>2. /\ DOMAIN L = 1 .. n /\ DOMAIN M = 1 .. n - 1
      /\ \A i \in 1 .. n - 1 : M[i] = L[i + 1]
      /\ L[1] = Head(q).text
  BY <1>1 DEF Spoken
<1> HIDE DEF L, M
<1>3. Lined(L)
  BY DEF L
<1>4. /\ Lined(M) /\ All(M) \subseteq All(L)
      /\ Sorted(L[1]) /\ ToSet(L[1]) \subseteq All(L) /\ Behind(All(M), ToSet(L[1]))
  BY <1>1, <1>2, <1>3, LineShrinks
<1> QED BY <1>2, <1>4 DEF L, M, r

\* What is on its way is in order, each piece was produced and is its asker's, and the
\* task that may add to it is the newest of its participant.
WayLined ==
  /\ Lined(TextsOf(outIn)) /\ Lined(Spoken(sentences)) /\ Sorted(pending) /\ Lined(TextsOf(ttsIn))
  /\ Behind(All(Spoken(sentences)), All(TextsOf(outIn)))
  /\ Behind(ToSet(pending), All(TextsOf(outIn)) \union All(Spoken(sentences)))
  /\ Behind(All(TextsOf(ttsIn)), All(TextsOf(outIn)) \union All(Spoken(sentences)) \union ToSet(pending))

OnWay == All(TextsOf(outIn)) \union All(Spoken(sentences)) \union ToSet(pending) \union All(TextsOf(ttsIn))

WasProduced(x, by, chunks) ==
  x \in Piece /\ x.turn \in 1 .. Len(by) /\ x.pid = by[x.turn] /\ x.k <= chunks[x.turn]

NewestRuns ==
  \A t \in Turns : status[t] = "running" =>
    \A u \in 1 .. Len(asker) : asker[u] = asker[t] => u <= t

WayInv ==
  /\ outIn \in Seq(Audio \union Frame) /\ WayLined /\ NewestRuns
  /\ \A x \in OnWay : WasProduced(x, asker, produced)

LEMMA WayOrdered == WayLined => SpeechInOrder
<1> SUFFICES ASSUME WayLined, NEW g \in 1 .. 4, NEW h \in 1 .. 4,
                    NEW i \in DOMAIN Way[g], NEW j \in DOMAIN Way[h],
                    NEW a \in DOMAIN Way[g][i], NEW b \in DOMAIN Way[h][j],
                    g < h \/ (g = h /\ (i < j \/ (i = j /\ a < b))),
                    Way[g][i][a].pid = Way[h][j][b].pid
             PROVE  Earlier(Way[g][i][a], Way[h][j][b])
  BY DEF SpeechInOrder
<1>1. /\ Way[1] = TextsOf(outIn) /\ Way[2] = Spoken(sentences)
      /\ Way[3] = << pending >> /\ Way[4] = TextsOf(ttsIn)
  BY DEF Way, TextsOf, Spoken
<1>2. Lined(<< pending >>) /\ All(<< pending >>) = ToSet(pending)
  <2>1. DOMAIN << pending >> = {1} /\ << pending >>[1] = pending
    OBVIOUS
  <2>2. All(<< pending >>) = ToSet(pending)
    BY <2>1 DEF All
  <2> QED BY <2>1, <2>2 DEF WayLined, Lined
<1>3. Way[g][i][a] \in ToSet(Way[g][i]) /\ Way[h][j][b] \in ToSet(Way[h][j])
  BY DEF ToSet
<1>4. ToSet(Way[g][i]) \subseteq All(Way[g]) /\ ToSet(Way[h][j]) \subseteq All(Way[h])
  BY AllIs
<1>5. CASE g = h
  <2>1. Lined(Way[g])
    <3>1. g = 1 \/ g = 2 \/ g = 3 \/ g = 4
      OBVIOUS
    <3> QED BY <1>1, <1>2, <3>1 DEF WayLined
  <2>2. CASE i < j
    BY <1>3, <1>5, <2>1, <2>2 DEF Lined, Behind
  <2>3. CASE i = j /\ a < b
    BY <1>5, <2>1, <2>3 DEF Lined, Sorted
  <2> QED BY <1>5, <2>2, <2>3
<1>6. CASE g < h
  <2>1. Behind(All(Way[h]), All(Way[g]))
    <3>1. \/ g = 1 /\ h \in {2, 3, 4}
          \/ g = 2 /\ h \in {3, 4}
          \/ g = 3 /\ h = 4
      BY <1>6
    <3>2. Behind(All(Way[2]), All(Way[1]))
      BY <1>1 DEF WayLined
    <3>3. Behind(All(Way[3]), All(Way[1])) /\ Behind(All(Way[3]), All(Way[2]))
      BY <1>1, <1>2 DEF WayLined, Behind
    <3>4. Behind(All(Way[4]), All(Way[1])) /\ Behind(All(Way[4]), All(Way[2])) /\ Behind(All(Way[4]), All(Way[3]))
      BY <1>1, <1>2 DEF WayLined, Behind
    <3> QED BY <3>1, <3>2, <3>3, <3>4
  <2> QED BY <1>3, <1>4, <2>1 DEF Behind
<1> QED BY <1>5, <1>6

LEMMA WayStarts == Init => WayInv
<1> SUFFICES ASSUME Init PROVE WayInv
  OBVIOUS
<1>1. outIn = << >> /\ sentences = << >> /\ pending = << >> /\ ttsIn = << >> /\ DOMAIN << >> = {}
  BY DEF Init
<1>2. /\ DOMAIN TextsOf(outIn) = {} /\ DOMAIN Spoken(sentences) = {} /\ DOMAIN TextsOf(ttsIn) = {}
      /\ ToSet(pending) = {} /\ Sorted(pending)
  BY <1>1, SmallSorted DEF TextsOf, Spoken
<1>3. All(TextsOf(outIn)) = {} /\ All(Spoken(sentences)) = {} /\ All(TextsOf(ttsIn)) = {}
  BY <1>2 DEF All
<1>4. Lined(TextsOf(outIn)) /\ Lined(Spoken(sentences)) /\ Lined(TextsOf(ttsIn))
  BY <1>2 DEF Lined
<1>5. WayLined
  BY <1>2, <1>3, <1>4 DEF WayLined, Behind
<1>6. NewestRuns
  BY DEF Init, NewestRuns
<1> QED BY <1>1, <1>2, <1>3, <1>5, <1>6 DEF WayInv, OnWay

\* What was produced stays so; the brain begins at most the newest turn.
LEMMA WayKept ==
  ASSUME WayInv, UNCHANGED << asker, produced >>,
         \A t \in Turns : status'[t] = "running" => status[t] = "running",
         outIn' \in Seq(Audio \union Frame), WayLined', OnWay' \subseteq OnWay
  PROVE  WayInv'
BY DEF WayInv, NewestRuns, WasProduced

\* Texts of the audio frames and of the frames from the brain.
LEMMA TextIs ==
  /\ \A f : f.type = "text" => TextOf(f) = << f.piece >> /\ ToSet(TextOf(f)) = {f.piece}
  /\ \A f : f.type \in {"stop", "end"} => TextOf(f) = << >> /\ ToSet(TextOf(f)) = {}
  /\ \A s : TextOf(AudioFrame(s)) = s.text
  /\ \A f : f.type \in {"text", "stop", "end"} => Sorted(TextOf(f))
<1>1. \A f : f.type = "text" => TextOf(f) = << f.piece >>
  BY DEF TextOf, IsText
<1>2. \A f : f.type \in {"stop", "end"} => TextOf(f) = << >>
  BY DEF TextOf, IsText
<1>3. \A s : TextOf(AudioFrame(s)) = s.text
  BY DEF TextOf, AudioFrame
<1> QED BY <1>1, <1>2, <1>3, SmallSorted

\* A frame of the brain that stands behind all that is on its way.
LEMMA WayGrows ==
  ASSUME WayInv, StopInv, NEW q, q \in Seq(Frame), Lined(TextsOf(q)),
         Behind(All(TextsOf(q)), All(TextsOf(outIn)) \union All(Spoken(sentences)) \union ToSet(pending)),
         NEW f \in Frame,
         f.type = "text" =>
           Behind({f.piece}, All(TextsOf(outIn)) \union All(Spoken(sentences)) \union ToSet(pending)
                               \union All(TextsOf(q)))
  PROVE  LET r == Append(q, f)
         IN /\ r \in Seq(Frame) /\ Lined(TextsOf(r))
            /\ All(TextsOf(r)) = All(TextsOf(q)) \union (IF f.type = "text" THEN {f.piece} ELSE {})
            /\ Behind(All(TextsOf(r)), All(TextsOf(outIn)) \union All(Spoken(sentences)) \union ToSet(pending))
<1> DEFINE front == All(TextsOf(outIn)) \union All(Spoken(sentences)) \union ToSet(pending)
           r == Append(q, f)
<1>1. f.type \in {"text", "end", "stop"}
  BY FrameTurns
<1>2. Sorted(TextOf(f)) /\ ToSet(TextOf(f)) = IF f.type = "text" THEN {f.piece} ELSE {}
  BY <1>1, TextIs
<1> HIDE DEF front
<1>3. Behind(ToSet(TextOf(f)), front \union All(TextsOf(q)))
  BY <1>2 DEF Behind, front
<1>4. Behind(ToSet(TextOf(f)), All(TextsOf(q)))
  BY <1>3 DEF Behind
<1>5. Lined(TextsOf(r)) /\ All(TextsOf(r)) = All(TextsOf(q)) \union ToSet(TextOf(f))
  BY <1>2, <1>4, QueueGrows
<1>6. r \in Seq(Frame)
  OBVIOUS
<1> HIDE DEF r
<1>7. Behind(All(TextsOf(r)), front)
  BY <1>3, <1>5 DEF Behind, front
<1> QED BY <1>2, <1>5, <1>6, <1>7 DEF front, r

\* A step of the brain that pushes no text or one piece.
LEMMA WayPushed ==
  ASSUME WayInv, UNCHANGED << outIn, sentences, pending >>, NEW new, NewestRuns',
         Lined(TextsOf(ttsIn')), All(TextsOf(ttsIn')) = All(TextsOf(ttsIn)) \union new,
         Behind(All(TextsOf(ttsIn')), All(TextsOf(outIn)) \union All(Spoken(sentences)) \union ToSet(pending)),
         \A x \in OnWay : WasProduced(x, asker', produced'), \A x \in new : WasProduced(x, asker', produced')
  PROVE  WayInv'
<1>1. OnWay' = OnWay \union new
  BY DEF OnWay
<1>2. WayLined'
  BY DEF WayInv, WayLined
<1> QED BY <1>1, <1>2 DEF WayInv

LEMMA BeginNewest ==
  ASSUME WayInv, SpeakInv, NEW p \in Participants, Begin(p), NEW new \in {0, Len(asker) + 1}, CancelPid(p, new)
  PROVE  /\ NewestRuns'
         /\ Len(asker') = Len(asker) + 1 /\ Len(asker') \in Turns /\ Len(asker) \in Nat
         /\ asker'[Len(asker')] = p
         /\ \A x \in OnWay : x.turn < Len(asker') /\ x.turn \in 1 .. Len(asker') /\ x \in Piece
                               /\ x.pid = asker'[x.turn] /\ x.k <= produced[x.turn]
<1>1. /\ Len(asker') = Len(asker) + 1 /\ Len(asker') \in Turns /\ asker'[Len(asker')] = p
      /\ \A i \in 1 .. Len(asker) : asker'[i] = asker[i]
  BY LoneBegins DEF SpeakInv
<1>2. Len(asker) \in Nat /\ \A t \in Turns : t \in Nat
  BY TurnNumbers DEF SpeakInv
<1>3. NewestRuns'
  <2> SUFFICES ASSUME NEW t \in Turns, status'[t] = "running", NEW u \in 1 .. Len(asker'), asker'[u] = asker'[t]
               PROVE  u <= t
    BY DEF NewestRuns
  <2>1. CASE t = new
    <3>1. t = Len(asker) + 1
      BY <1>2, <2>1, TurnNumbers DEF SpeakInv
    <3> QED BY <1>1, <1>2, <3>1
  <2>2. CASE t # new
    <3>1. status[t] = "running" /\ asker[t] # p
      BY <2>2, CancelLeaves DEF SpeakInv
    <3>2. t \in 1 .. Len(asker) /\ asker'[t] = asker[t]
      BY <1>1, <3>1, TurnNumbers DEF SpeakInv
    <3>3. u \in 1 .. Len(asker)
      BY <1>1, <1>2, <3>1, <3>2
    <3>4. asker[u] = asker[t]
      BY <1>1, <3>2, <3>3
    <3> QED BY <3>1, <3>3, <3>4 DEF WayInv, NewestRuns
  <2> QED BY <2>1, <2>2
<1>4. ASSUME NEW x \in OnWay
      PROVE  /\ x.turn < Len(asker') /\ x.turn \in 1 .. Len(asker') /\ x \in Piece
             /\ x.pid = asker'[x.turn] /\ x.k <= produced[x.turn]
  <2>1. WasProduced(x, asker, produced)
    BY DEF WayInv
  <2> QED BY <1>1, <1>2, <2>1 DEF WasProduced
<1> QED BY <1>1, <1>2, <1>3, <1>4

LEMMA QueryWay ==
  ASSUME WayInv, SpeakInv, NEW p \in Participants, Query(p)
  PROVE  WayInv'
<1> DEFINE n == Len(asker')
<1>1. /\ Begin(p) /\ CancelPid(p, n) /\ UNCHANGED << produced, outIn, sentences, pending >>
      /\ ttsIn' = ttsIn \/ ttsIn' = ttsIn \o << StopFrame(p, n) >>
  BY DEF Query, Push, tts, output
<1>2. n = Len(asker) + 1 /\ n \in Turns
  BY <1>1, LoneBegins DEF SpeakInv
<1>3. NewestRuns' /\ \A x \in OnWay : WasProduced(x, asker', produced')
  <2>1. CancelPid(p, Len(asker) + 1)
    BY <1>1, <1>2
  <2> QED BY <1>1, <2>1, BeginNewest DEF WasProduced
<1>4. ttsIn \in Seq(Frame) /\ Lined(TextsOf(ttsIn))
      /\ Behind(All(TextsOf(ttsIn)), All(TextsOf(outIn)) \union All(Spoken(sentences)) \union ToSet(pending))
  BY QueueTyped DEF SpeakInv, WayInv, WayLined
<1>5. /\ Lined(TextsOf(ttsIn')) /\ All(TextsOf(ttsIn')) = All(TextsOf(ttsIn))
      /\ Behind(All(TextsOf(ttsIn')), All(TextsOf(outIn)) \union All(Spoken(sentences)) \union ToSet(pending))
  <2>1. CASE ttsIn' = ttsIn
    BY <1>4, <2>1
  <2>2. CASE ttsIn' = ttsIn \o << StopFrame(p, n) >>
    <3>1. StopFrame(p, n) \in Frame /\ StopFrame(p, n).type = "stop"
      BY <1>2, FramesTyped DEF StopFrame
    <3> HIDE DEF n
    <3>2. ttsIn' = Append(ttsIn, StopFrame(p, n))
      BY <1>4, <2>2, <3>1
    <3> QED BY <1>4, <3>1, <3>2, WayGrows DEF SpeakInv
  <2> QED BY <1>1, <2>1, <2>2
<1> DEFINE new == {}
<1>6. All(TextsOf(ttsIn')) = All(TextsOf(ttsIn)) \union new /\ \A x \in new : WasProduced(x, asker', produced')
  BY <1>5
<1> HIDE DEF n, new
<1> QED BY <1>1, <1>3, <1>5, <1>6, WayPushed

LEMMA StopWay ==
  ASSUME WayInv, SpeakInv, NEW p \in Participants, Stop(p)
  PROVE  WayInv'
<1> DEFINE n == Len(asker')
           stop == StopFrame(p, n)
           text == TextFrame(p, n, 1, TRUE)
           front == All(TextsOf(outIn)) \union All(Spoken(sentences)) \union ToSet(pending)
<1>1. /\ Begin(p) /\ CancelPid(p, 0) /\ UNCHANGED << outIn, sentences, pending >>
      /\ ttsIn' = ttsIn \o << stop, text >> /\ produced' = [produced EXCEPT ![n] = 1]
  BY DEF Stop, Push, tts, output
<1>2. /\ n = Len(asker) + 1 /\ n \in Turns /\ n \in Nat /\ asker'[n] = p /\ NewestRuns'
      /\ \A x \in OnWay : x.turn < n /\ x.turn \in 1 .. n /\ x \in Piece
                            /\ x.pid = asker'[x.turn] /\ x.k <= produced[x.turn]
  BY <1>1, BeginNewest
<1> HIDE DEF n
<1>3. /\ stop \in Frame /\ stop.type = "stop" /\ text \in Frame /\ text.type = "text"
      /\ text.piece = [pid |-> p, turn |-> n, k |-> 1] /\ text.piece \in Piece
  <2>1. 1 \in 1 .. MaxChunks
    BY ConstantsAssumption
  <2> QED BY <1>2, <2>1, FramesTyped DEF StopFrame, TextFrame, Piece
<1> HIDE DEF stop, text
<1>4. Behind({text.piece}, OnWay)
  BY <1>2, <1>3 DEF Behind, Earlier
<1>5. \A x \in OnWay : WasProduced(x, asker', produced')
  <2>1. produced' = [produced EXCEPT ![n] = 1] /\ produced \in [Turns -> Nat]
    BY <1>1 DEF SpeakInv
  <2>2. ASSUME NEW x \in OnWay PROVE WasProduced(x, asker', produced')
    <3>1. x.turn # n /\ x.turn \in Turns
      BY <1>2 DEF Piece
    <3>2. produced'[x.turn] = produced[x.turn]
      BY <2>1, <3>1
    <3> QED BY <1>2, <3>2 DEF WasProduced, n
  <2> QED BY <2>2
<1>6. WasProduced(text.piece, asker', produced')
  <2>1. produced'[n] = 1
    BY <1>1, <1>2 DEF SpeakInv
  <2>2. text.piece.turn = n /\ text.piece.pid = p /\ text.piece.k = 1
    BY <1>3
  <2> QED BY <1>2, <1>3, <2>1, <2>2 DEF WasProduced, n
<1>7. ttsIn \in Seq(Frame) /\ Lined(TextsOf(ttsIn)) /\ Behind(All(TextsOf(ttsIn)), front)
  BY QueueTyped DEF SpeakInv, WayInv, WayLined
<1> DEFINE q == Append(ttsIn, stop)
<1>8. q \in Seq(Frame) /\ Lined(TextsOf(q)) /\ All(TextsOf(q)) = All(TextsOf(ttsIn)) /\ Behind(All(TextsOf(q)), front)
  BY <1>3, <1>7, WayGrows DEF SpeakInv
<1>9. ttsIn' = Append(q, text)
  BY <1>1, <1>3, <1>7
<1> HIDE DEF q
<1>10. Behind({text.piece}, front \union All(TextsOf(q)))
  BY <1>4, <1>8 DEF OnWay, Behind
<1>11. /\ Lined(TextsOf(ttsIn')) /\ All(TextsOf(ttsIn')) = All(TextsOf(ttsIn)) \union {text.piece}
       /\ Behind(All(TextsOf(ttsIn')), front)
  BY <1>3, <1>8, <1>9, <1>10, WayGrows DEF SpeakInv
<1> QED BY <1>1, <1>2, <1>5, <1>6, <1>11, WayPushed

\* Whatever is on its way for the participant is of an earlier turn, or an earlier chunk.
LEMMA ChunkWay ==
  ASSUME WayInv, SpeakInv, NEW t \in Turns, NEW ends \in BOOLEAN, Chunk(t, ends)
  PROVE  WayInv'
<1> DEFINE text == TextFrame(asker[t], t, produced[t] + 1, ends)
           front == All(TextsOf(outIn)) \union All(Spoken(sentences)) \union ToSet(pending)
<1>1. /\ status[t] = "running" /\ produced[t] < MaxChunks
      /\ produced' = [produced EXCEPT ![t] = @ + 1] /\ ttsIn' = ttsIn \o << text >>
      /\ UNCHANGED << asker, status, outIn, sentences, pending >>
  BY DEF Chunk, Push, tts, output
<1>2. /\ t \in 1 .. Len(asker) /\ asker[t] \in Participants /\ t \in Nat /\ Len(asker) \in Nat
      /\ produced \in [Turns -> Nat] /\ produced[t] \in Nat /\ MaxChunks \in Nat
  BY <1>1, TurnNumbers, ConstantsAssumption DEF SpeakInv
<1>3. /\ text \in Frame /\ text.type = "text" /\ text.piece \in Piece
      /\ text.piece = [pid |-> asker[t], turn |-> t, k |-> produced[t] + 1]
  <2>1. produced[t] + 1 \in 1 .. MaxChunks
    BY <1>1, <1>2
  <2> QED BY <1>2, <2>1, FramesTyped DEF TextFrame, Piece
<1> HIDE DEF text
<1>4. ASSUME NEW x \in OnWay, x.pid = asker[t] PROVE Earlier(x, text.piece)
  <2>1. x.turn \in 1 .. Len(asker) /\ asker[x.turn] = asker[t] /\ x.k <= produced[x.turn] /\ x \in Piece
    BY <1>4 DEF WayInv, WasProduced
  <2>2. x.turn <= t
    BY <1>1, <2>1 DEF WayInv, NewestRuns
  <2>3. x.k \in Nat /\ x.turn \in Nat
    BY <1>2, <2>1, ConstantsAssumption DEF Piece
  <2>4. text.piece.turn = t /\ text.piece.k = produced[t] + 1
    BY <1>3
  <2> QED BY <1>2, <2>1, <2>2, <2>3, <2>4 DEF Earlier
<1>5. Behind({text.piece}, OnWay)
  BY <1>3, <1>4 DEF Behind
<1>6. NewestRuns'
  BY <1>1 DEF WayInv, NewestRuns
<1>7. \A x \in OnWay : WasProduced(x, asker', produced')
  <2>1. ASSUME NEW x \in OnWay PROVE WasProduced(x, asker', produced')
    <3>1. WasProduced(x, asker, produced)
      BY DEF WayInv
    <3>2. x.turn \in Turns /\ x.k \in Int
      BY <3>1, ConstantsAssumption DEF WasProduced, Piece
    <3> DEFINE u == x.turn
    <3>3. produced[u] \in Nat /\ produced'[u] \in Nat /\ produced[u] <= produced'[u]
      <4>1. u \in Turns /\ produced' = [produced EXCEPT ![t] = produced[t] + 1]
        BY <1>1, <3>2
      <4> HIDE DEF u
      <4>2. CASE u = t
        BY <1>2, <4>1, <4>2
      <4>3. CASE u # t
        BY <1>2, <4>1, <4>3
      <4> QED BY <4>2, <4>3
    <3>4. x.k <= produced'[x.turn]
      BY <3>1, <3>2, <3>3 DEF WasProduced
    <3> QED BY <1>1, <3>1, <3>4 DEF WasProduced
  <2> QED BY <2>1
<1>8. WasProduced(text.piece, asker', produced')
  <2>1. produced'[t] = produced[t] + 1
    BY <1>1, <1>2
  <2>2. text.piece.turn = t /\ text.piece.pid = asker[t] /\ text.piece.k = produced[t] + 1
    BY <1>3
  <2> QED BY <1>1, <1>2, <1>3, <2>1, <2>2 DEF WasProduced
<1>9. ttsIn \in Seq(Frame) /\ Lined(TextsOf(ttsIn)) /\ Behind(All(TextsOf(ttsIn)), front)
  BY QueueTyped DEF SpeakInv, WayInv, WayLined
<1>10. Behind({text.piece}, front \union All(TextsOf(ttsIn)))
  BY <1>5 DEF OnWay
<1>11. ttsIn' = Append(ttsIn, text)
  BY <1>1, <1>3, <1>9
<1>12. /\ Lined(TextsOf(ttsIn')) /\ All(TextsOf(ttsIn')) = All(TextsOf(ttsIn)) \union {text.piece}
       /\ Behind(All(TextsOf(ttsIn')), front)
  BY <1>3, <1>9, <1>10, <1>11, WayGrows DEF SpeakInv
<1> QED BY <1>1, <1>6, <1>7, <1>8, <1>12, WayPushed

LEMMA FinishWay ==
  ASSUME WayInv, SpeakInv, NEW t \in Turns, Finish(t)
  PROVE  WayInv'
<1> DEFINE end == EndFrame(asker[t], t)
<1>1. /\ status[t] = "running" /\ status' = [status EXCEPT ![t] = "done"] /\ ttsIn' = ttsIn \o << end >>
      /\ UNCHANGED << asker, produced, outIn, sentences, pending >>
  BY DEF Finish, Push, tts, output
<1>2. end \in Frame /\ end.type = "end"
  BY <1>1, TurnNumbers, FramesTyped DEF SpeakInv, EndFrame
<1> HIDE DEF end
<1>3. ttsIn \in Seq(Frame) /\ Lined(TextsOf(ttsIn))
      /\ Behind(All(TextsOf(ttsIn)), All(TextsOf(outIn)) \union All(Spoken(sentences)) \union ToSet(pending))
  BY QueueTyped DEF SpeakInv, WayInv, WayLined
<1>4. ttsIn' = Append(ttsIn, end)
  BY <1>1, <1>2, <1>3
<1>5. /\ Lined(TextsOf(ttsIn')) /\ All(TextsOf(ttsIn')) = All(TextsOf(ttsIn))
      /\ Behind(All(TextsOf(ttsIn')), All(TextsOf(outIn)) \union All(Spoken(sentences)) \union ToSet(pending))
  BY <1>2, <1>3, <1>4, WayGrows DEF SpeakInv
<1>6. NewestRuns'
  BY <1>1 DEF WayInv, NewestRuns, SpeakInv, BrainInv, BrainTypes
<1>7. \A x \in OnWay : WasProduced(x, asker', produced')
  BY <1>1 DEF WayInv, WasProduced
<1> DEFINE new == {}
<1>8. All(TextsOf(ttsIn')) = All(TextsOf(ttsIn)) \union new /\ \A x \in new : WasProduced(x, asker', produced')
  BY <1>5
<1> HIDE DEF new
<1> QED BY <1>1, <1>5, <1>6, <1>7, <1>8, WayPushed

LEMMA HandleTextWay ==
  ASSUME WayInv, SpeakInv, HandleText
  PROVE  WayInv'
<1> DEFINE f == Head(ttsIn)
           out == All(TextsOf(outIn))
           said == All(Spoken(sentences))
           in == All(TextsOf(ttsIn))
           text == Append(pending, f.piece)
<1>1. /\ ttsIn # << >> /\ f.type = "text" /\ ttsIn' = Tail(ttsIn)
      /\ UNCHANGED << asker, produced, status, outIn >>
      /\ \/ sentences' = Append(sentences, [pid |-> f.piece.pid, text |-> text, wav |-> "wait"]) /\ pending' = << >>
         \/ sentences' = sentences /\ pending' = text
  BY DEF HandleText, Dispatch, brain, output
<1>2. /\ ttsIn \in Seq(Frame) /\ Len(ttsIn) \in Nat /\ 1 \in 1 .. Len(ttsIn) /\ f = ttsIn[1]
      /\ ttsIn' = SubSeq(ttsIn, 1 + 1, Len(ttsIn)) /\ f \in Frame
      /\ pending \in Seq(Piece) /\ sentences \in Seq(Sentence)
  BY <1>1, QueueTyped DEF SpeakInv, StopInv, SpeechTypes
<1>3. f.piece \in Piece /\ f.piece.pid \in Participants /\ ToSet(TextOf(f)) = {f.piece}
  BY <1>1, <1>2, FrameTurns, TextIs
<1>4. /\ Lined(TextsOf(ttsIn')) /\ All(TextsOf(ttsIn')) \subseteq in
      /\ {f.piece} \subseteq in /\ Behind(All(TextsOf(ttsIn')), {f.piece})
  <2>1. Lined(TextsOf(ttsIn))
    BY DEF WayInv, WayLined
  <2>2. /\ Lined(TextsOf(ttsIn')) /\ All(TextsOf(ttsIn')) \subseteq in
        /\ ToSet(TextOf(ttsIn[1])) \subseteq in /\ Behind(All(TextsOf(ttsIn')), ToSet(TextOf(ttsIn[1])))
    BY <1>2, <2>1, QueueShrinks
  <2>3. ToSet(TextOf(ttsIn[1])) = {f.piece}
    BY <1>2, <1>3
  <2> HIDE DEF f, in
  <2> QED BY <2>2, <2>3
<1>5. /\ Lined(TextsOf(outIn)) /\ Lined(Spoken(sentences)) /\ Sorted(pending)
      /\ Behind(said, out) /\ Behind(ToSet(pending), out \union said) /\ Behind(in, out \union said \union ToSet(pending))
  BY DEF WayInv, WayLined
<1>6. Behind({f.piece}, ToSet(pending))
  BY <1>4, <1>5 DEF Behind
<1>7. Sorted(text) /\ ToSet(text) = ToSet(pending) \union {f.piece} /\ text \in Seq(Piece)
  <2> DEFINE x == f.piece
  <2>1. x \in Piece /\ pending \in Seq(Piece) /\ Sorted(pending) /\ Behind({x}, ToSet(pending))
    BY <1>2, <1>3, <1>5, <1>6
  <2> HIDE DEF f, x
  <2>2. Sorted(Append(pending, x)) /\ ToSet(Append(pending, x)) = ToSet(pending) \union {x}
    BY <2>1, SortedGrows
  <2>3. Append(pending, x) \in Seq(Piece)
    BY <2>1
  <2> QED BY <2>2, <2>3 DEF x
<1> HIDE DEF f, out, said, in, text
<1>8. Behind(ToSet(text), out \union said) /\ Behind(All(TextsOf(ttsIn')), out \union said \union ToSet(text))
  BY <1>4, <1>5, <1>7 DEF Behind
<1>9. CASE sentences' = Append(sentences, [pid |-> f.piece.pid, text |-> text, wav |-> "wait"]) /\ pending' = << >>
  <2> DEFINE s == [pid |-> f.piece.pid, text |-> text, wav |-> "wait"]
  <2>1. s \in Sentence /\ s.text = text /\ sentences' = Append(sentences, s)
    BY <1>3, <1>7, <1>9 DEF Sentence
  <2> HIDE DEF s
  <2>2. Behind(ToSet(s.text), said)
    BY <1>8, <2>1 DEF Behind
  <2>3. Lined(Spoken(sentences')) /\ All(Spoken(sentences')) = said \union ToSet(text)
    <3>1. Sorted(s.text) /\ Behind(ToSet(s.text), All(Spoken(sentences))) /\ Lined(Spoken(sentences))
      BY <1>5, <1>7, <2>1, <2>2 DEF said
    <3>2. /\ Lined(Spoken(Append(sentences, s)))
          /\ All(Spoken(Append(sentences, s))) = All(Spoken(sentences)) \union ToSet(s.text)
      BY <1>2, <2>1, <3>1, SpokenGrows
    <3> QED BY <2>1, <3>2 DEF said
  <2>4. Sorted(pending') /\ ToSet(pending') = {}
    BY <1>9, SmallSorted
  <2>5. WayLined'
    BY <1>1, <1>4, <1>5, <1>8, <2>3, <2>4 DEF WayLined, Behind, out
  <2>6. OnWay' \subseteq OnWay
    BY <1>1, <1>4, <1>7, <2>3, <2>4 DEF OnWay, out, said, in
  <2> QED BY <1>1, <2>5, <2>6, WayKept DEF WayInv
<1>10. CASE sentences' = sentences /\ pending' = text
  <2>1. WayLined'
    BY <1>1, <1>4, <1>5, <1>7, <1>8, <1>10 DEF WayLined, out, said
  <2>2. OnWay' \subseteq OnWay
    BY <1>1, <1>4, <1>7, <1>10 DEF OnWay, out, said, in
  <2> QED BY <1>1, <2>1, <2>2, WayKept DEF WayInv
<1> QED BY <1>1, <1>9, <1>10

LEMMA HandleEndWay ==
  ASSUME WayInv, SpeakInv, HandleEnd
  PROVE  WayInv'
<1> DEFINE f == Head(ttsIn)
           out == All(TextsOf(outIn))
           said == All(Spoken(sentences))
           in == All(TextsOf(ttsIn))
           s == [pid |-> f.pid, text |-> pending, wav |-> "wait"]
<1>1. /\ ttsIn # << >> /\ f.type = "end" /\ ttsIn' = Tail(ttsIn) /\ pending' = << >>
      /\ UNCHANGED << asker, produced, status, outIn >>
      /\ sentences' = Append(sentences, s) \/ (pending = << >> /\ sentences' = sentences)
  BY DEF HandleEnd, Dispatch, brain, output
<1>2. /\ ttsIn \in Seq(Frame) /\ Len(ttsIn) \in Nat /\ 1 \in 1 .. Len(ttsIn)
      /\ ttsIn' = SubSeq(ttsIn, 1 + 1, Len(ttsIn)) /\ f \in Frame
      /\ pending \in Seq(Piece) /\ sentences \in Seq(Sentence)
  BY <1>1, QueueTyped DEF SpeakInv, StopInv, SpeechTypes
<1>3. Lined(TextsOf(ttsIn')) /\ All(TextsOf(ttsIn')) \subseteq in
  BY <1>2, QueueShrinks DEF WayInv, WayLined
<1>4. /\ Lined(TextsOf(outIn)) /\ Lined(Spoken(sentences)) /\ Sorted(pending)
      /\ Behind(said, out) /\ Behind(ToSet(pending), out \union said) /\ Behind(in, out \union said \union ToSet(pending))
  BY DEF WayInv, WayLined
<1>5. Sorted(pending') /\ ToSet(pending') = {}
  BY <1>1, SmallSorted
<1>6. s \in Sentence /\ s.text = pending
  <2>1. f.pid \in Participants
    BY <1>1, <1>2, FrameTurns
  <2> QED BY <1>2, <2>1 DEF Sentence
<1> HIDE DEF f, out, said, in, s
<1>7. Lined(Spoken(sentences')) /\ All(Spoken(sentences')) = said \union ToSet(pending)
  <2>1. CASE sentences' = Append(sentences, s)
    <3>1. Behind(ToSet(s.text), said)
      BY <1>4, <1>6 DEF Behind
    <3> QED BY <1>2, <1>4, <1>6, <2>1, <3>1, SpokenGrows DEF said
  <2>2. CASE pending = << >> /\ sentences' = sentences
    BY <1>4, <2>2, SmallSorted DEF said
  <2> QED BY <1>1, <2>1, <2>2
<1>8. WayLined'
  BY <1>1, <1>3, <1>4, <1>5, <1>7 DEF WayLined, Behind, out
<1>9. OnWay' \subseteq OnWay
  BY <1>1, <1>3, <1>5, <1>7 DEF OnWay, out, said, in
<1> QED BY <1>1, <1>8, <1>9, WayKept DEF WayInv

LEMMA HandleStopWay ==
  ASSUME WayInv, SpeakInv, HandleStop
  PROVE  WayInv'
<1>1. PICK n \in DOMAIN ttsIn :
        /\ ttsIn[n].type = "stop" /\ ttsIn' = SubSeq(ttsIn, n + 1, Len(ttsIn))
        /\ sentences' = << >> /\ pending' = << >> /\ outIn' = Append(outIn, ttsIn[n])
        /\ UNCHANGED << asker, produced, status >>
  BY DEF HandleStop, brain
<1>2. ttsIn \in Seq(Frame) /\ n \in 1 .. Len(ttsIn) /\ ttsIn[n] \in Frame /\ outIn \in Seq(Audio \union Frame)
  BY QueueTyped DEF SpeakInv, WayInv
<1>3. Lined(TextsOf(ttsIn')) /\ All(TextsOf(ttsIn')) \subseteq All(TextsOf(ttsIn))
  <2>1. Lined(TextsOf(ttsIn))
    BY DEF WayInv, WayLined
  <2>2. LET r == SubSeq(ttsIn, n + 1, Len(ttsIn))
        IN Lined(TextsOf(r)) /\ All(TextsOf(r)) \subseteq All(TextsOf(ttsIn))
    BY <1>2, <2>1, QueueShrinks
  <2> QED BY <1>1, <2>2
<1>4. /\ Lined(TextsOf(outIn)) /\ Behind(All(TextsOf(ttsIn)), All(TextsOf(outIn)))
  BY DEF WayInv, WayLined, Behind
<1>5. Sorted(TextOf(ttsIn[n])) /\ ToSet(TextOf(ttsIn[n])) = {}
  BY <1>1, TextIs
<1>6. /\ outIn' \in Seq(Audio \union Frame)
      /\ Lined(TextsOf(outIn')) /\ All(TextsOf(outIn')) = All(TextsOf(outIn))
  <2> DEFINE f == ttsIn[n]
  <2>1. f \in Audio \union Frame /\ Behind(ToSet(TextOf(f)), All(TextsOf(outIn))) /\ Sorted(TextOf(f))
    BY <1>2, <1>5 DEF Behind
  <2> HIDE DEF f
  <2>2. Lined(TextsOf(Append(outIn, f))) /\ All(TextsOf(Append(outIn, f))) = All(TextsOf(outIn)) \union ToSet(TextOf(f))
    BY <1>2, <1>4, <2>1, QueueGrows
  <2>3. Append(outIn, f) \in Seq(Audio \union Frame)
    BY <1>2, <2>1
  <2> QED BY <1>1, <1>5, <2>2, <2>3 DEF f
<1>7. /\ Sorted(pending') /\ ToSet(pending') = {} /\ Lined(Spoken(sentences')) /\ All(Spoken(sentences')) = {}
  <2>1. DOMAIN Spoken(sentences') = {}
    BY <1>1 DEF Spoken
  <2> QED BY <1>1, <2>1, SmallSorted DEF Lined, All
<1>8. WayLined'
  BY <1>3, <1>4, <1>6, <1>7 DEF WayLined, Behind
<1>9. OnWay' \subseteq OnWay
  BY <1>3, <1>6, <1>7 DEF OnWay
<1> QED BY <1>1, <1>6, <1>8, <1>9, WayKept

LEMMA SpeakWay ==
  ASSUME WayInv, SpeakInv, Speak
  PROVE  WayInv'
<1> DEFINE s == Head(sentences)
           out == All(TextsOf(outIn))
           said == All(Spoken(sentences))
           left == All(Spoken(sentences'))
<1>1. /\ sentences # << >> /\ sentences' = Tail(sentences)
      /\ outIn' = outIn \/ outIn' = Append(outIn, AudioFrame(s))
      /\ UNCHANGED << asker, produced, status, ttsIn, pending >>
  BY DEF Speak, brain
<1>2. sentences \in Seq(Sentence) /\ s \in Sentence /\ outIn \in Seq(Audio \union Frame)
  BY <1>1 DEF SpeakInv, StopInv, SpeechTypes, WayInv
<1>3. AudioFrame(s) \in Audio \union Frame /\ TextOf(AudioFrame(s)) = s.text
  <2>1. s.pid \in Participants /\ s.text \in Seq(Piece)
    BY <1>2 DEF Sentence
  <2> QED BY <2>1, TextIs DEF AudioFrame, Audio
<1>4. /\ Lined(Spoken(sentences')) /\ left \subseteq said
      /\ Sorted(s.text) /\ ToSet(s.text) \subseteq said /\ Behind(left, ToSet(s.text))
  BY <1>1, <1>2, SpokenShrinks DEF WayInv, WayLined
<1>5. /\ Lined(TextsOf(outIn)) /\ Sorted(pending) /\ Lined(TextsOf(ttsIn)) /\ Behind(said, out)
      /\ Behind(ToSet(pending), out \union said)
      /\ Behind(All(TextsOf(ttsIn)), out \union said \union ToSet(pending))
  BY DEF WayInv, WayLined
<1> DEFINE f == AudioFrame(s)
<1>6. outIn' \in Seq(Audio \union Frame) /\ Lined(TextsOf(outIn'))
      /\ (All(TextsOf(outIn')) = out \/ All(TextsOf(outIn')) = out \union ToSet(s.text))
  <2>1. CASE outIn' = outIn
    BY <1>2, <1>5, <2>1
  <2>2. CASE outIn' = Append(outIn, f)
    <3>1. Behind(ToSet(TextOf(f)), out) /\ Sorted(TextOf(f))
      BY <1>3, <1>4, <1>5 DEF Behind
    <3> HIDE DEF f
    <3>2. Lined(TextsOf(Append(outIn, f))) /\ All(TextsOf(Append(outIn, f))) = out \union ToSet(TextOf(f))
      BY <1>2, <1>3, <1>5, <3>1, QueueGrows DEF f
    <3>3. Append(outIn, f) \in Seq(Audio \union Frame)
      BY <1>2, <1>3 DEF f
    <3> QED BY <1>3, <2>2, <3>2, <3>3 DEF f
  <2> QED BY <1>1, <2>1, <2>2
<1> HIDE DEF f, s, out, said, left
<1>7. WayLined'
  BY <1>1, <1>4, <1>5, <1>6 DEF WayLined, Behind, left
<1>8. OnWay' \subseteq OnWay
  BY <1>1, <1>4, <1>6 DEF OnWay, out, said, left
<1> QED BY <1>1, <1>6, <1>7, <1>8, WayKept

LEMMA SynthesizedWay ==
  ASSUME WayInv, SpeakInv, NEW i \in DOMAIN sentences, NEW wav \in {"ok", "failed"}, Synthesized(i, wav)
  PROVE  WayInv'
<1>1. /\ sentences' = [sentences EXCEPT ![i].wav = wav]
      /\ UNCHANGED << asker, produced, status, ttsIn, pending, outIn >>
  BY DEF Synthesized, brain, output
<1>2. Spoken(sentences') = Spoken(sentences)
  <2>1. sentences \in Seq(Sentence)
    BY DEF SpeakInv, StopInv, SpeechTypes
  <2>2. DOMAIN sentences' = DOMAIN sentences /\ \A j \in DOMAIN sentences : sentences'[j].text = sentences[j].text
    BY <1>1, <2>1 DEF Sentence
  <2> QED BY <2>2 DEF Spoken
<1>3. WayLined' /\ OnWay' = OnWay
  BY <1>1, <1>2 DEF WayInv, WayLined, OnWay
<1> QED BY <1>1, <1>3, WayKept DEF WayInv

\* The output transport takes from the front of its queue.
LEMMA OutputWay ==
  ASSUME WayInv, SpeakInv, NEW n \in DOMAIN outIn, outIn' = SubSeq(outIn, n + 1, Len(outIn)),
         UNCHANGED << asker, produced, status, ttsIn, pending, sentences >>
  PROVE  WayInv'
<1>1. outIn \in Seq(Audio \union Frame) /\ n \in 1 .. Len(outIn)
  BY DEF WayInv
<1>2. outIn' \in Seq(Audio \union Frame)
  BY <1>1
<1>3. Lined(TextsOf(outIn')) /\ All(TextsOf(outIn')) \subseteq All(TextsOf(outIn))
  BY <1>1, QueueShrinks DEF WayInv, WayLined
<1>4. WayLined'
  BY <1>3 DEF WayInv, WayLined, Behind
<1>5. OnWay' \subseteq OnWay
  BY <1>3 DEF OnWay
<1> QED BY <1>2, <1>4, <1>5, WayKept

LEMMA WayQuiet ==
  ASSUME WayInv, UNCHANGED << asker, produced, ttsIn, pending, sentences, outIn >>,
         \A t \in Turns : status'[t] = "running" => status[t] = "running"
  PROVE  WayInv'
<1>1. WayLined' /\ OnWay' = OnWay
  BY DEF WayInv, WayLined, OnWay
<1> QED BY <1>1, WayKept DEF WayInv

LEMMA WayKeeps ==
  ASSUME WayInv, SpeakInv, [Next]_vars
  PROVE  WayInv'
<1>1. ASSUME NEW p \in Participants, Joined(p) \/ Left(p) \/ Query(p) \/ Stop(p) \/ Play(p) PROVE WayInv'
  <2>1. CASE Joined(p) \/ Play(p)
    BY <2>1, WayQuiet DEF Joined, Play, brain, tts, output
  <2>2. CASE Left(p)
    <3>1. UNCHANGED << asker, produced, ttsIn, pending, sentences, outIn >> /\ CancelPid(p, 0)
      BY <2>2 DEF Left, tts, output
    <3>2. \A t \in Turns : status'[t] = "running" => status[t] = "running"
      BY <3>1, TurnNumbers DEF CancelPid, SpeakInv
    <3> QED BY <3>1, <3>2, WayQuiet
  <2> QED BY <1>1, <2>1, <2>2, QueryWay, StopWay
<1>2. ASSUME NEW t \in Turns, Unwind(t) PROVE WayInv'
  <2>1. UNCHANGED << asker, produced, ttsIn, pending, sentences, outIn >> /\ status' = [status EXCEPT ![t] = "cancelled"]
    BY <1>2 DEF Unwind, tts, output
  <2>2. \A u \in Turns : status'[u] = "running" => status[u] = "running"
    BY <2>1 DEF SpeakInv, BrainInv, BrainTypes
  <2> QED BY <2>1, <2>2, WayQuiet
<1>3. CASE Write
  <2>1. outIn # << >> /\ outIn' = Tail(outIn) /\ UNCHANGED << asker, produced, status, ttsIn, pending, sentences >>
    BY <1>3 DEF Write, brain, tts
  <2>2. 1 \in DOMAIN outIn /\ outIn' = SubSeq(outIn, 1 + 1, Len(outIn))
    BY <2>1 DEF WayInv
  <2> QED BY <2>1, <2>2, OutputWay
<1>4. CASE OutputStop
  BY <1>4, OutputWay DEF OutputStop, brain, tts
<1>5. CASE UNCHANGED vars
  BY <1>5, WayQuiet DEF vars, brain, tts, output
<1>6. ASSUME NEW t \in Turns, Finish(t) PROVE WayInv'
  BY <1>6, FinishWay
<1>7. ASSUME NEW t \in Turns, NEW ends \in BOOLEAN, Chunk(t, ends) PROVE WayInv'
  BY <1>7, ChunkWay
<1>8. ASSUME NEW i \in DOMAIN sentences, NEW wav \in {"ok", "failed"}, Synthesized(i, wav) PROVE WayInv'
  BY <1>8, SynthesizedWay
<1> QED BY <1>1, <1>2, <1>3, <1>4, <1>5, <1>6, <1>7, <1>8, HandleTextWay, HandleEndWay, HandleStopWay, SpeakWay
        DEF Next

\* What a participant was answered is spoken in the order in which it was written, for any
\* number of participants, turns and chunks, and however tasks, synth calls, interruptions
\* and departures interleave.
THEOREM SpokenInOrder == Spec => []SpeechInOrder
<1> DEFINE I == SpeakInv /\ WayInv
<1>1. Init => I
  BY InitBrain, StopStarts, WayStarts DEF Init, SpeakInv
<1>2. I /\ [Next]_vars => I'
  BY NextBrain, StopsKeep, ChunksCounted, WayKeeps DEF SpeakInv
<1>3. I => SpeechInOrder
  BY WayOrdered DEF WayInv
<1> QED BY <1>1, <1>2, <1>3, PTL DEF Spec

-----------------------------------------------------------------------------
(* Listening.                                                              *)

Detector == [u : 0 .. MaxUtterances, speech : Nat, silent : Nat, length : Nat, pre : Nat, fired : BOOLEAN]

Arrivals == [type : {"joined", "left"}, pid : Speakers]

HearTypes ==
  /\ det \in [Speakers -> Detector]
  /\ owner \in Seq(Speakers) /\ Len(owner) <= MaxUtterances
  /\ start \in [Utterances -> {"none", "ready", "waits", "done"}]
  /\ probe \in [Utterances -> {"none", "sleeps", "stt", "interrupted", "over"}]
  /\ task \in [Speakers -> 0 .. MaxUtterances]
  /\ audio \in [u : 0 .. MaxUtterances, stage : {"idle", "cancel", "stt"}]
  /\ roster \in Seq(Arrivals) /\ (evicting => roster # << >>)
  /\ heard \in [Utterances -> Nat]

Active(u) == probe[u] \in {"sleeps", "stt", "interrupted"}

\* A probe is at work only for the utterance its speaker is in the middle of, and so
\* is on_speech_start; neither has told the gate of it before.
OfUtterance(u) ==
  /\ u > Len(owner) => start[u] = "none" /\ probe[u] = "none" /\ heard[u] = 0
  /\ start[u] # "waits"
  /\ start[u] = "ready" => det[owner[u]].u = u /\ probe[u] = "none" /\ heard[u] = 0
  /\ Active(u) => task[owner[u]] = u /\ det[owner[u]].u = u /\ heard[u] = 0
  /\ probe[u] = "interrupted" => owner[u] \in fired
  /\ heard[u] <= 1

\* The table names a speaker's own utterances; what the probe told of the one in
\* progress is in _stop_fired_for_current_utterance.
OfSpeaker(p) ==
  /\ task[p] # 0 => task[p] <= Len(owner) /\ owner[task[p]] = p
  /\ det[p].u # 0 =>
       /\ det[p].u <= Len(owner) /\ owner[det[p].u] = p
       /\ heard[det[p].u] # 0 => p \in fired
       /\ ~ det[p].fired => start[det[p].u] = "none" /\ probe[det[p].u] = "none" /\ heard[det[p].u] = 0

\* on_utterance has an utterance nobody has told of, and its speaker is silent.
OfAudio ==
  audio.stage # "idle" =>
    audio.u \in 1 .. Len(owner) /\ heard[audio.u] = 0 /\ det[owner[audio.u]].u = 0

\* An eviction that waits finds nothing begun for its participant meanwhile.
OfEviction ==
  evicting =>
    \A u \in Utterances : start[u] # "ready" /\ (Active(u) => owner[u] # Head(roster).pid)

HearInv ==
  /\ \A u \in Utterances : OfUtterance(u)
  /\ \A p \in Speakers : OfSpeaker(p)
  /\ OfAudio /\ OfEviction

LEMMA HearStarts == HearingInit => HearTypes /\ HearInv
<1> SUFFICES ASSUME HearingInit PROVE HearTypes /\ HearInv
  OBVIOUS
<1>1. MaxUtterances \in Nat /\ MaxUtterances > 0 /\ PreRoll \in Nat
  BY HearingAssumption
<1>2. Quiet \in Detector
  BY <1>1 DEF Quiet, Detector
<1>3. HearTypes
  BY <1>1, <1>2 DEF HearingInit, HearTypes
<1>4. HearInv
  BY DEF HearingInit, HearInv, OfUtterance, OfSpeaker, OfAudio, OfEviction, Active, Quiet
<1> QED BY <1>3, <1>4

-----------------------------------------------------------------------------
(* Types.                                                                  *)

LEMMA FedType ==
  ASSUME NEW d \in Detector, NEW loud \in BOOLEAN, owner \in Seq(Speakers), Fed(d, loud).u <= MaxUtterances
  PROVE  Fed(d, loud) \in Detector
<1>1. /\ MinSpeech \in Nat /\ Silence \in Nat /\ PreRoll \in Nat /\ MaxUtterances \in Nat /\ Len(owner) \in Nat
  BY HearingAssumption
<1>2. \A n, m \in Nat : Low(n, m) \in Nat
  BY DEF Low
<1>3. /\ d.u \in 0 .. MaxUtterances /\ {d.speech, d.silent, d.length, d.pre} \subseteq Nat /\ d.fired \in BOOLEAN
      /\ d = [u |-> d.u, speech |-> d.speech, silent |-> d.silent, length |-> d.length, pre |-> d.pre, fired |-> d.fired]
  BY DEF Detector
<1>6. /\ d.speech + 1 \in Nat /\ d.silent + 1 \in Nat /\ d.pre + 1 \in Nat
      /\ d.length + 1 \in Nat /\ d.length + d.pre + 1 \in Nat
  BY <1>3
<1>4. CASE loud
  <2> DEFINE v == IF d.u = 0 THEN Len(owner) + 1 ELSE d.u
             b == d.fired \/ d.speech = MinSpeech - 1
  <2>1. Fed(d, loud) = [u |-> v, speech |-> Low(d.speech + 1, MinSpeech), silent |-> 0,
                        length |-> d.length + d.pre + 1, pre |-> 0, fired |-> b]
    BY <1>4 DEF Fed
  <2>2. v \in 0 .. MaxUtterances
    BY <1>1, <1>3, <2>1
  <2>3. b \in BOOLEAN
    OBVIOUS
  <2> HIDE DEF v, b
  <2>4. Low(d.speech + 1, MinSpeech) \in Nat /\ d.length + d.pre + 1 \in Nat
    BY <1>1, <1>2, <1>6
  <2> QED BY <2>1, <2>2, <2>3, <2>4 DEF Detector
<1>5. CASE ~ loud
  <2>1. /\ Low(d.silent + 1, Silence) \in Nat /\ Low(d.pre + 1, PreRoll) \in Nat /\ d.length + 1 \in Nat
    BY <1>1, <1>2, <1>6
  <2>2. Fed(d, loud) \in {[d EXCEPT !.length = d.length + 1, !.silent = Low(d.silent + 1, Silence)],
                          [d EXCEPT !.pre = Low(d.pre + 1, PreRoll)]}
    BY <1>5 DEF Fed
  <2> QED BY <2>1, <2>2 DEF Detector
<1> QED BY <1>4, <1>5

LEMMA HearNumbers ==
  ASSUME HearTypes
  PROVE  /\ Len(owner) \in Nat /\ MaxUtterances \in Nat /\ Len(owner) <= MaxUtterances
         /\ \A u \in 1 .. Len(owner) : owner[u] \in Speakers /\ u \in Utterances
         /\ \A u \in Utterances : u \in Nat /\ u > 0
<1>1. owner \in Seq(Speakers) /\ Len(owner) <= MaxUtterances /\ MaxUtterances \in Nat
  BY HearingAssumption DEF HearTypes
<1>2. Len(owner) \in Nat /\ \A u \in 1 .. Len(owner) : owner[u] \in Speakers
  BY <1>1
<1> QED BY <1>1, <1>2 DEF Utterances

LEMMA HearKeepsTypes ==
  ASSUME HearTypes, [HearingNext]_hearingVars
  PROVE  HearTypes'
<1>0. MaxUtterances \in Nat /\ \A u \in Utterances : u \in 0 .. MaxUtterances
  BY HearingAssumption DEF Utterances
<1>1. ASSUME NEW p \in Speakers, CancelProbe(p)
      PROVE  /\ task' \in [Speakers -> 0 .. MaxUtterances]
             /\ probe' \in [Utterances -> {"none", "sleeps", "stt", "interrupted", "over"}]
  <2>1. 0 \in 0 .. MaxUtterances /\ task' = [task EXCEPT ![p] = 0]
    BY <1>0, <1>1 DEF CancelProbe
  <2>2. \/ probe' = probe
        \/ probe' = [probe EXCEPT ![task[p]] = "over"]
    BY <1>1 DEF CancelProbe
  <2> QED BY <2>1, <2>2 DEF HearTypes
<1>2. Quiet \in Detector
  BY HearingAssumption DEF Quiet, Detector
<1>3. ASSUME NEW p \in Speakers, Leave(p) \/ Join(p) \/ WindowCloses(p) PROVE HearTypes'
  <2>1. \A type \in {"joined", "left"} : [type |-> type, pid |-> p] \in Arrivals
    BY DEF Arrivals
  <2>2. roster' \in Seq(Arrivals)
    <3>1. roster \in Seq(Arrivals)
      BY DEF HearTypes
    <3>2. roster' = roster \/ \E f \in Arrivals : roster' = Append(roster, f)
      BY <1>3, <2>1 DEF Leave, Join, WindowCloses
    <3> QED BY <3>1, <3>2
  <2>3. roster' # << >> \/ roster' = roster
    BY <1>3 DEF Leave, Join, WindowCloses, HearTypes
  <2> QED BY <1>3, <2>2, <2>3 DEF Leave, Join, WindowCloses, HearTypes, probes, history
<1>4. ASSUME NEW p \in Speakers, NEW loud \in BOOLEAN, HearChunk(p, loud) PROVE HearTypes'
  <2> DEFINE d == Fed(det[p], loud)
  <2>1. d \in Detector
    BY <1>4, FedType DEF HearTypes, HearChunk
  <2>2. d.u \in 0 .. MaxUtterances
    BY <2>1 DEF Detector
  <2>3. owner' = (IF d.u > Len(owner) THEN Append(owner, p) ELSE owner) /\ UNCHANGED << roster, evicting, heard >>
        /\ start' = (IF d.fired /\ ~det[p].fired THEN [start EXCEPT ![d.u] = "ready"] ELSE start)
    BY <1>4 DEF HearChunk
  <2>4. owner' \in Seq(Speakers) /\ Len(owner') <= MaxUtterances
    <3>1. CASE d.u > Len(owner)
      <4> HIDE DEF d
      <4> QED BY <1>0, <2>2, <2>3, <3>1 DEF HearTypes
    <3>2. CASE ~ (d.u > Len(owner))
      BY <2>3, <3>2 DEF HearTypes
    <3> QED BY <3>1, <3>2
  <2>5. start' \in [Utterances -> {"none", "ready", "waits", "done"}]
    <3> HIDE DEF d
    <3> QED BY <2>3 DEF HearTypes
  <2>6. CASE det' = [det EXCEPT ![p] = d] /\ UNCHANGED << probe, task, audio >>
    <3> HIDE DEF d
    <3> QED BY <2>1, <2>3, <2>4, <2>5, <2>6 DEF HearTypes
  <2>7. CASE /\ det' = [det EXCEPT ![p] = Quiet] /\ CancelProbe(p)
             /\ \/ audio' = [u |-> d.u, stage |-> "cancel"]
                \/ Finalize(d.u)
    <3>1. audio' \in [u : 0 .. MaxUtterances, stage : {"idle", "cancel", "stt"}]
      <4> HIDE DEF d
      <4> QED BY <1>0, <2>2, <2>7 DEF Finalize
    <3> QED BY <1>1, <1>2, <2>3, <2>4, <2>5, <2>7, <3>1 DEF HearTypes
  <2> QED BY <1>4, <2>6, <2>7 DEF HearChunk
<1>5. ASSUME NEW u \in Utterances, SpeechStart(u) PROVE HearTypes'
  <2>1. start' \in [Utterances -> {"none", "ready", "waits", "done"}]
    BY <1>5 DEF SpeechStart, OpenProbe, HearTypes
  <2>2. /\ task' \in [Speakers -> 0 .. MaxUtterances]
        /\ probe' \in [Utterances -> {"none", "sleeps", "stt", "interrupted", "over"}]
    <3>1. \/ task' = [task EXCEPT ![owner[u]] = u] /\ probe' = [probe EXCEPT ![u] = "sleeps"]
          \/ task' = [task EXCEPT ![owner[u]] = 0] /\ probe' \in {probe, [probe EXCEPT ![task[owner[u]]] = "over"]}
      BY <1>5 DEF SpeechStart, OpenProbe, CancelProbe
    <3>2. u \in 0 .. MaxUtterances /\ 0 \in 0 .. MaxUtterances
      BY <1>0
    <3>3. \A x \in 0 .. MaxUtterances : [task EXCEPT ![owner[u]] = x] \in [Speakers -> 0 .. MaxUtterances]
      BY DEF HearTypes
    <3>4. \A v : \A x \in {"sleeps", "over"} :
            [probe EXCEPT ![v] = x] \in [Utterances -> {"none", "sleeps", "stt", "interrupted", "over"}]
      BY DEF HearTypes
    <3>5. probe \in [Utterances -> {"none", "sleeps", "stt", "interrupted", "over"}]
      BY DEF HearTypes
    <3> QED BY <3>1, <3>2, <3>3, <3>4, <3>5
  <2> QED BY <1>5, <2>1, <2>2 DEF SpeechStart, HearTypes
<1>6. ASSUME NEW u \in Utterances, SpeechStartResumes(u) PROVE HearTypes'
  BY <1>0, <1>6 DEF SpeechStartResumes, OpenProbe, HearTypes
<1>7. ASSUME NEW u \in Utterances, ProbeWakes(u) \/ ProbeHearsNothing(u) PROVE HearTypes'
  <2>1. PICK to \in {"stt", "over"} : probe' = [probe EXCEPT ![u] = to]
    BY <1>7 DEF ProbeWakes, ProbeHearsNothing
  <2>2. probe' \in [Utterances -> {"none", "sleeps", "stt", "interrupted", "over"}]
    BY <2>1 DEF HearTypes
  <2> QED BY <1>7, <2>2 DEF ProbeWakes, ProbeHearsNothing, HearTypes, history
<1>8. ASSUME NEW u, Hear(u) PROVE heard' \in [Utterances -> Nat]
  <2>1. heard \in [Utterances -> Nat] /\ heard' = [heard EXCEPT ![u] = heard[u] + 1]
    BY <1>8 DEF Hear, HearTypes
  <2>2. CASE u \in Utterances
    BY <2>1, <2>2
  <2>3. CASE u \notin Utterances
    BY <2>1, <2>3
  <2> QED BY <2>2, <2>3
<1>9. ASSUME NEW u \in Utterances, ProbeHearsStop(u) PROVE HearTypes'
  BY <1>8, <1>9 DEF ProbeHearsStop, HearTypes
<1>10. ASSUME NEW u \in Utterances, ProbePushes(u) PROVE HearTypes'
  <2>1. heard' \in [Utterances -> Nat]
    BY <1>8, <1>10 DEF ProbePushes
  <2>2. probe' = [probe EXCEPT ![u] = "over"] /\ UNCHANGED << det, owner, start, task, audio, roster, evicting >>
    BY <1>10 DEF ProbePushes
  <2>3. probe' \in [Utterances -> {"none", "sleeps", "stt", "interrupted", "over"}]
    BY <2>2 DEF HearTypes
  <2> QED BY <2>1, <2>2, <2>3 DEF HearTypes
<1>11. ASSUME NEW text, Transcribed(text) PROVE HearTypes'
  <2>1. heard' \in [Utterances -> Nat]
    BY <1>8, <1>11 DEF Transcribed, HearTypes
  <2>2. /\ audio' = [u |-> 0, stage |-> "idle"]
        /\ UNCHANGED << det, owner, start, probe, task, roster, evicting >>
    BY <1>11 DEF Transcribed
  <2> QED BY <1>0, <2>1, <2>2 DEF HearTypes
<1>12. CASE FinalizeResumes
  BY <1>0, <1>12 DEF FinalizeResumes, Finalize, HearTypes
<1>13. ASSUME roster # << >> PROVE Head(roster) \in Arrivals /\ Head(roster).pid \in Speakers /\ Tail(roster) \in Seq(Arrivals)
  <2>1. roster \in Seq(Arrivals)
    BY DEF HearTypes
  <2>2. Head(roster) \in Arrivals /\ Tail(roster) \in Seq(Arrivals)
    BY <1>13, <2>1
  <2> QED BY <2>2 DEF Arrivals
<1>14. CASE JoinPasses
  BY <1>13, <1>14 DEF JoinPasses, PassOn, HearTypes, probes, history
<1>15. CASE Evict
  <2>1. roster # << >> /\ CancelProbe(Head(roster).pid) /\ UNCHANGED << owner, start, audio, heard >>
    BY <1>15 DEF Evict, history
  <2>2. CASE UNCHANGED << det, roster >>
    BY <1>1, <1>13, <2>1, <2>2 DEF HearTypes
  <2>3. CASE roster' = Tail(roster) /\ det' = [det EXCEPT ![Head(roster).pid] = Quiet] /\ ~ evicting'
    BY <1>1, <1>2, <1>13, <2>1, <2>3 DEF HearTypes
  <2> QED BY <1>15, <2>2, <2>3 DEF Evict, PassOn, Forget
<1>16. CASE EvictResumes
  <2>1. /\ roster' = Tail(roster) /\ det' \in [Speakers -> Detector] /\ ~ evicting'
        /\ UNCHANGED << owner, start, probe, task, audio, heard >>
    BY <1>2, <1>16 DEF EvictResumes, PassOn, Forget, HearTypes, history
  <2>2. roster # << >>
    BY <1>16 DEF EvictResumes, HearTypes
  <2> QED BY <1>13, <2>1, <2>2 DEF HearTypes
<1>17. CASE GateHears \/ GateSeesRoster
  BY <1>17 DEF GateHears, GateSeesRoster, HearTypes, probes, history
<1>18. CASE UNCHANGED hearingVars
  BY <1>18 DEF hearingVars, HearTypes, probes, history
<1> QED BY <1>3, <1>4, <1>5, <1>6, <1>7, <1>9, <1>10, <1>11, <1>12, <1>14, <1>15, <1>16, <1>17, <1>18
        DEF HearingNext

-----------------------------------------------------------------------------
(* Nothing is told twice.                                                  *)

LEMMA ActiveFacts ==
  ASSUME HearTypes, HearInv, NEW u \in Utterances, Active(u) \/ start[u] = "ready"
  PROVE  /\ u \in 1 .. Len(owner) /\ owner[u] \in Speakers /\ det[owner[u]].u = u /\ heard[u] = 0
         /\ Active(u) => task[owner[u]] = u /\ Live(owner[u])
<1>1. u \in Nat /\ u > 0 /\ u <= Len(owner)
  BY HearNumbers DEF HearInv, OfUtterance, Active
<1>2. u \in 1 .. Len(owner) /\ owner[u] \in Speakers
  BY <1>1, HearNumbers
<1> QED BY <1>1, <1>2 DEF HearInv, OfUtterance, Active, Live

\* A live probe is that of the utterance its speaker is in.
LEMMA LiveFacts ==
  ASSUME HearTypes, HearInv, NEW p \in Speakers
  PROVE  /\ Live(p) => /\ task[p] \in Utterances /\ Active(task[p]) /\ owner[task[p]] = p
                       /\ det[p].u = task[p] /\ heard[task[p]] = 0
         /\ ~ Live(p) => \A u \in Utterances : Active(u) => owner[u] # p
<1>1. task[p] # 0 => task[p] \in Utterances /\ owner[task[p]] = p
  BY HearNumbers DEF HearTypes, HearInv, OfSpeaker, Utterances
<1>2. Live(p) => task[p] # 0 /\ Active(task[p])
  BY DEF Live, Active
<1> QED BY <1>1, <1>2, ActiveFacts

\* Steps that move at most probes to their end.
LEMMA QuietHearing ==
  ASSUME HearTypes, HearInv,
         UNCHANGED << det, owner, start, task, fired, audio, heard >>,
         \A u \in Utterances : \/ probe'[u] = probe[u]
                               \/ Active(u) /\ probe'[u] \in {"stt", "over"},
         evicting' => evicting /\ Head(roster') = Head(roster)
  PROVE  HearInv'
<1>1. \A u \in Utterances : (Active(u)' => Active(u)) /\ (probe'[u] = "none" <=> probe[u] = "none")
                            /\ (probe'[u] = "interrupted" => probe[u] = "interrupted")
  BY DEF Active
<1>2. \A u \in Utterances : OfUtterance(u)'
  BY <1>1 DEF HearInv, OfUtterance
<1>3. \A p \in Speakers : OfSpeaker(p)'
  <2> TAKE p \in Speakers
  <2>1. det[p].u # 0 => det[p].u \in Utterances
    BY HearNumbers DEF HearTypes, Detector, Utterances
  <2> QED BY <1>1, <2>1 DEF HearInv, OfSpeaker
<1>4. OfAudio' /\ OfEviction'
  BY <1>1 DEF HearInv, OfAudio, OfEviction
<1> QED BY <1>2, <1>3, <1>4 DEF HearInv

\* on_speech_start: no probe of the speaker is live, so nothing is waited for.
LEMMA StartsAtOnce ==
  ASSUME HearTypes, HearInv, NEW u \in Utterances, SpeechStart(u)
  PROVE  HearInv'
<1> DEFINE p == owner[u]
<1>1. /\ u \in 1 .. Len(owner) /\ p \in Speakers /\ det[p].u = u /\ heard[u] = 0 /\ start[u] = "ready"
      /\ probe[u] = "none" /\ u # 0 /\ u \in 0 .. MaxUtterances
  BY ActiveFacts, HearNumbers DEF SpeechStart, HearInv, OfUtterance, HearTypes
<1>2. ~ Live(p)
  BY <1>1, LiveFacts DEF Active
<1>3. /\ fired' = fired \ {p} /\ task' = [task EXCEPT ![p] = u] /\ start' = [start EXCEPT ![u] = "done"]
      /\ probe' = [probe EXCEPT ![u] = "sleeps"] /\ UNCHANGED << det, owner, audio, roster, evicting, heard >>
  BY <1>2 DEF SpeechStart, OpenProbe
<1> HIDE DEF p
<1>4. \A v \in Utterances : Active(v) => owner[v] # p
  BY <1>1, <1>2, LiveFacts
<1>5. /\ task'[p] = u /\ \A q \in Speakers : q # p => task'[q] = task[q]
      /\ start'[u] = "done" /\ \A v \in Utterances : v # u => start'[v] = start[v] /\ probe'[v] = probe[v]
      /\ probe'[u] = "sleeps"
  BY <1>1, <1>3 DEF HearTypes
<1>6. OfUtterance(u)'
  BY <1>1, <1>3, <1>5, HearNumbers DEF OfUtterance, Active, p
<1>7. ASSUME NEW v \in Utterances, v # u PROVE OfUtterance(v)'
  <2>1. OfUtterance(v) /\ (Active(v)' <=> Active(v))
    BY <1>5, <1>7 DEF HearInv, Active
  <2>2. Active(v) => owner[v] # p /\ owner[v] \in Speakers
    BY <1>4, ActiveFacts
  <2>3. probe[v] = "interrupted" => Active(v)
    BY DEF Active
  <2> QED BY <1>3, <1>5, <1>7, <2>1, <2>2, <2>3 DEF OfUtterance
<1>8. ASSUME NEW q \in Speakers PROVE OfSpeaker(q)'
  <2>1. det[q].u # 0 => det[q].u \in Utterances
    BY HearNumbers DEF HearTypes, Detector, Utterances
  <2>2. CASE q = p
    BY <1>1, <1>3, <1>5, <2>2, HearNumbers DEF HearInv, OfSpeaker, p
  <2>3. CASE q # p
    <3>1. det[q].u # u
      BY <1>1, <2>3 DEF HearInv, OfSpeaker, p
    <3> QED BY <1>3, <1>5, <2>1, <2>3, <3>1 DEF HearInv, OfSpeaker
  <2> QED BY <2>2, <2>3
<1>9. OfAudio' /\ OfEviction'
  BY <1>1, <1>3 DEF HearInv, OfAudio, OfEviction
<1> QED BY <1>6, <1>7, <1>8, <1>9 DEF HearInv

\* The probe tells the gate, or is about to: for an utterance told of by nobody.
LEMMA ProbeTells ==
  ASSUME HearTypes, HearInv, NEW u \in Utterances, Active(u),
         UNCHANGED << det, owner, start, task, audio, roster, evicting >>,
         \A v \in Utterances : v # u => probe'[v] = probe[v] /\ heard'[v] = heard[v],
         fired \subseteq fired', owner[u] \in fired',
         \/ probe'[u] = "interrupted" /\ heard'[u] = 0
         \/ probe'[u] = "over" /\ heard'[u] = 1
  PROVE  HearInv'
<1>1. /\ u \in 1 .. Len(owner) /\ owner[u] \in Speakers /\ det[owner[u]].u = u /\ heard[u] = 0
      /\ task[owner[u]] = u /\ u # 0 /\ start[u] # "ready" /\ start[u] # "waits" /\ probe[u] # "none"
  BY ActiveFacts, HearNumbers DEF HearInv, OfUtterance, Active
<1>2. \A v \in Utterances : Active(v)' => Active(v)
  BY DEF Active
<1>3. OfUtterance(u)'
  BY <1>1, HearNumbers DEF OfUtterance, Active
<1>4. \A v \in Utterances : v # u => OfUtterance(v)'
  BY DEF HearInv, OfUtterance, Active
<1>5. ASSUME NEW q \in Speakers PROVE OfSpeaker(q)'
  <2>1. det[q].u # 0 => det[q].u \in Utterances
    BY HearNumbers DEF HearTypes, Detector, Utterances
  <2>2. CASE q = owner[u]
    BY <1>1, <2>2 DEF HearInv, OfSpeaker
  <2>3. CASE q # owner[u]
    <3>1. det[q].u # u
      BY <1>1, <2>3 DEF HearInv, OfSpeaker
    <3> QED BY <2>1, <2>3, <3>1 DEF HearInv, OfSpeaker
  <2> QED BY <2>2, <2>3
<1>6. OfAudio'
  <2> SUFFICES ASSUME audio.stage # "idle" PROVE audio.u # u /\ OfAudio
    <3>1. audio.u \in 1 .. Len(owner) => audio.u \in Utterances
      BY HearNumbers
    <3> QED BY <3>1 DEF OfAudio
  <2> QED BY <1>1 DEF HearInv, OfAudio
<1>7. OfEviction'
  BY <1>2 DEF HearInv, OfEviction
<1> QED BY <1>3, <1>4, <1>5, <1>6, <1>7 DEF HearInv

\* on_utterance: its speaker is silent, so no probe and no start is at work for it.
LEMMA UtteranceEnds ==
  ASSUME HearTypes, HearInv, audio.stage # "idle",
         UNCHANGED << det, owner, start, probe, task, roster, evicting >>,
         \/ /\ UNCHANGED heard /\ audio'.stage = "stt" /\ audio'.u = audio.u /\ UNCHANGED fired
         \/ /\ UNCHANGED heard /\ audio'.stage = "idle"
            /\ fired' \in {fired, fired \ {owner[audio.u]}}
         \/ /\ heard' = [heard EXCEPT ![audio.u] = heard[audio.u] + 1]
            /\ audio'.stage = "idle" /\ UNCHANGED fired
  PROVE  HearInv'
<1> DEFINE w == audio.u
<1>1. /\ w \in 1 .. Len(owner) /\ w \in Utterances /\ owner[w] \in Speakers /\ heard[w] = 0
      /\ det[owner[w]].u = 0
  BY HearNumbers DEF HearInv, OfAudio
<1>2. \A v \in Utterances : Active(v) \/ start[v] = "ready" =>
        v # w /\ owner[v] # owner[w] /\ det[owner[v]].u = v /\ owner[v] \in Speakers
  BY <1>1, ActiveFacts, HearNumbers
<1>3. \A v \in Utterances : /\ v # w => heard'[v] = heard[v]
                            /\ heard'[v] <= 1
  BY <1>1 DEF HearTypes, HearInv, OfUtterance
<1>4. \A q \in Speakers : q # owner[w] => (q \in fired' <=> q \in fired)
  OBVIOUS
<1>5. ASSUME NEW v \in Utterances PROVE OfUtterance(v)'
  <2>1. OfUtterance(v) /\ (probe[v] = "interrupted" => Active(v))
    BY DEF HearInv, Active
  <2>2. v > Len(owner) => v # w
    BY <1>1, HearNumbers
  <2> QED BY <1>2, <1>3, <1>4, <2>1, <2>2 DEF OfUtterance, Active
<1>6. ASSUME NEW q \in Speakers PROVE OfSpeaker(q)'
  <2>1. det[q].u # 0 => det[q].u \in Utterances /\ q # owner[w] /\ det[q].u # w
    <3>1. det[q].u # 0 => det[q].u \in Utterances
      BY HearNumbers DEF HearTypes, Detector, Utterances
    <3>2. det[q].u # 0 => owner[det[q].u] = q
      BY DEF HearInv, OfSpeaker
    <3> QED BY <1>1, <3>1, <3>2
  <2> QED BY <1>3, <1>4, <2>1 DEF HearInv, OfSpeaker
<1>7. OfAudio'
  BY <1>1 DEF OfAudio
<1>8. OfEviction'
  BY DEF HearInv, OfEviction, Active
<1> QED BY <1>5, <1>6, <1>7, <1>8 DEF HearInv

\* A participant is forgotten when none of its probes and starts is at work.
LEMMA ForgetKeeps ==
  ASSUME HearTypes, HearInv, NEW p \in Speakers,
         det' = [det EXCEPT ![p] = Quiet], fired' = fired \ {p},
         \A q \in Speakers : task'[q] \in {task[q], 0} /\ (q # p => task'[q] = task[q]),
         UNCHANGED << owner, start, probe, audio, heard >>, ~ evicting',
         \A u \in Utterances : start[u] # "ready" /\ (Active(u) => owner[u] # p)
  PROVE  HearInv'
<1>1. det'[p].u = 0 /\ \A q \in Speakers : q # p => det'[q] = det[q]
  BY DEF HearTypes, Quiet
<1>2. ASSUME NEW v \in Utterances PROVE OfUtterance(v)'
  <2>1. OfUtterance(v) /\ (probe[v] = "interrupted" => Active(v))
    BY DEF HearInv, Active
  <2>2. Active(v) => owner[v] \in Speakers \ {p}
    BY ActiveFacts
  <2> QED BY <1>1, <2>1, <2>2 DEF OfUtterance, Active
<1>3. \A q \in Speakers : OfSpeaker(q)'
  BY <1>1 DEF HearInv, OfSpeaker
<1>4. OfAudio'
  BY <1>1, HearNumbers DEF HearInv, OfAudio
<1> QED BY <1>2, <1>3, <1>4 DEF HearInv, OfEviction

LEMMA EvictKeeps ==
  ASSUME HearTypes, HearInv, Punctual, Evict
  PROVE  HearInv'
<1> DEFINE p == Head(roster).pid
<1>1. p \in Speakers /\ roster # << >>
  <2>1. roster \in Seq(Arrivals) /\ roster # << >>
    BY DEF Evict, HearTypes
  <2>2. Head(roster) \in Arrivals
    BY <2>1
  <2> QED BY <2>1, <2>2 DEF Arrivals
<1>2. /\ \A u \in Utterances : start[u] # "ready"
      /\ CancelProbe(p) /\ UNCHANGED << owner, start, audio, heard >>
  BY DEF Evict, Punctual, history
<1>3. CASE Live(p) /\ UNCHANGED << det, buffer, fired, roster, gate >>
  <2>1. /\ task[p] \in Utterances /\ Active(task[p]) /\ owner[task[p]] = p /\ det[p].u = task[p] /\ heard[task[p]] = 0
    BY <1>1, <1>3, LiveFacts
  <2>2. /\ probe' = [probe EXCEPT ![task[p]] = "over"] /\ task' = [task EXCEPT ![p] = 0]
    BY <1>2, <1>3 DEF CancelProbe
  <2>3. /\ probe'[task[p]] = "over" /\ \A u \in Utterances : u # task[p] => probe'[u] = probe[u]
        /\ task'[p] = 0 /\ \A q \in Speakers : q # p => task'[q] = task[q]
    BY <1>1, <2>1, <2>2 DEF HearTypes
  <2>4. \A u \in Utterances : /\ Active(u)' => Active(u) /\ u # task[p] /\ owner[u] \in Speakers \ {p}
                              /\ probe'[u] = "none" => probe[u] = "none"
    BY <1>1, <2>1, <2>3, ActiveFacts DEF Active
  <2>5. ASSUME NEW u \in Utterances PROVE OfUtterance(u)'
    <3>1. OfUtterance(u)
      BY DEF HearInv
    <3>2. probe[u] = "none" <=> probe'[u] = "none"
      BY <2>1, <2>3 DEF Active
    <3>3. probe'[u] = "interrupted" => probe[u] = "interrupted"
      BY <2>3
    <3> QED BY <1>2, <1>3, <2>3, <2>4, <3>1, <3>2, <3>3 DEF OfUtterance, Active
  <2>6. ASSUME NEW q \in Speakers PROVE OfSpeaker(q)'
    <3>1. det[q].u # 0 => det[q].u \in Utterances
      BY HearNumbers DEF HearTypes, Detector, Utterances
    <3>2. OfSpeaker(q)
      BY DEF HearInv
    <3>3. probe[task[p]] # "none"
      BY <2>1 DEF Active
    <3>4. det[q].u # 0 /\ ~ det[q].fired => det[q].u # task[p]
      BY <3>2, <3>3 DEF OfSpeaker
    <3> QED BY <1>2, <1>3, <2>3, <3>1, <3>2, <3>4 DEF OfSpeaker
  <2>7. OfAudio'
    BY <1>2, <1>3 DEF HearInv, OfAudio
  <2>8. OfEviction'
    BY <1>2, <1>3, <2>4 DEF OfEviction
  <2> QED BY <2>5, <2>6, <2>7, <2>8 DEF HearInv
<1>4. CASE ~ Live(p) /\ Forget(p) /\ PassOn
  <2>1. \A u \in Utterances : Active(u) => owner[u] # p
    BY <1>1, <1>4, LiveFacts
  <2>2. /\ task' = [task EXCEPT ![p] = 0] /\ probe' = probe
    BY <1>2, <1>4 DEF CancelProbe
  <2>3. \A q \in Speakers : task'[q] \in {task[q], 0} /\ (q # p => task'[q] = task[q])
    BY <2>2 DEF HearTypes
  <2>4. det' = [det EXCEPT ![p] = Quiet] /\ fired' = fired \ {p} /\ ~ evicting'
    BY <1>4 DEF Forget, PassOn
  <2> HIDE DEF p
  <2> QED BY <1>1, <1>2, <2>1, <2>2, <2>3, <2>4, ForgetKeeps
<1> QED BY <1>3, <1>4 DEF Evict

LEMMA EvictResumesKeeps ==
  ASSUME HearTypes, HearInv, EvictResumes
  PROVE  HearInv'
<1>1. PICK p : p = Head(roster).pid
  OBVIOUS
<1>2. p \in Speakers
  <2>1. roster \in Seq(Arrivals) /\ roster # << >>
    BY DEF EvictResumes, HearTypes
  <2>2. Head(roster) \in Arrivals
    BY <2>1
  <2> QED BY <1>1, <2>1, <2>2 DEF Arrivals
<1>3. \A u \in Utterances : start[u] # "ready" /\ (Active(u) => owner[u] # p)
  BY <1>1 DEF EvictResumes, HearInv, OfEviction
<1>4. /\ det' = [det EXCEPT ![p] = Quiet] /\ fired' = fired \ {p} /\ ~ evicting'
      /\ UNCHANGED << owner, start, probe, task, audio, heard >>
  BY <1>1 DEF EvictResumes, Forget, PassOn, history
<1> QED BY <1>2, <1>3, <1>4, ForgetKeeps

\* An utterance is over: its speaker's probe is no more, and if the gate was told of
\* it, on_utterance sees the flag.
LEMMA UtteranceOver ==
  ASSUME HearTypes, HearInv, NEW p \in Speakers, NEW w \in 1 .. Len(owner), owner[w] = p,
         det' = [det EXCEPT ![p] = Quiet], CancelProbe(p), UNCHANGED << owner, start, heard >>,
         fired' \in {fired, fired \ {p}}, ~ evicting', \A u \in Utterances : start[u] # "ready",
         audio'.stage # "idle" => audio'.u = w /\ heard[w] = 0
  PROVE  HearInv'
<1>1. det'[p].u = 0 /\ \A q \in Speakers : q # p => det'[q] = det[q]
  BY DEF HearTypes, Quiet
<1>2. task'[p] = 0 /\ \A q \in Speakers : q # p => task'[q] = task[q]
  BY DEF HearTypes, CancelProbe
<1>3. \A u \in Utterances : /\ Active(u)' => Active(u) /\ owner[u] \in Speakers \ {p}
                            /\ probe'[u] = "none" <=> probe[u] = "none"
                            /\ probe'[u] = "interrupted" => probe[u] = "interrupted"
  <2>1. CASE ~ Live(p)
    <3>1. probe' = probe
      BY <2>1 DEF CancelProbe
    <3> QED BY <2>1, <3>1, LiveFacts, ActiveFacts DEF Active
  <2>2. CASE Live(p)
    <3>1. task[p] \in Utterances /\ Active(task[p])
      BY <2>2, LiveFacts
    <3>2. probe'[task[p]] = "over" /\ \A u \in Utterances : u # task[p] => probe'[u] = probe[u]
      BY <2>2, <3>1 DEF CancelProbe, HearTypes
    <3>3. \A u \in Utterances : Active(u) /\ u # task[p] => owner[u] \in Speakers \ {p}
      BY ActiveFacts
    <3> QED BY <3>1, <3>2, <3>3 DEF Active
  <2> QED BY <2>1, <2>2
<1>4. ASSUME NEW u \in Utterances PROVE OfUtterance(u)'
  <2>1. OfUtterance(u) /\ (probe'[u] = "interrupted" => Active(u)')
    BY DEF HearInv, Active
  <2> QED BY <1>1, <1>2, <1>3, <2>1 DEF OfUtterance
<1>5. ASSUME NEW q \in Speakers PROVE OfSpeaker(q)'
  <2>1. OfSpeaker(q) /\ (det[q].u # 0 => det[q].u \in Utterances)
    BY SMTT(20), HearNumbers DEF HearTypes, Detector, Utterances, HearInv
  <2> QED BY <1>1, <1>2, <1>3, <2>1 DEF OfSpeaker
<1>6. OfAudio'
  BY <1>1 DEF OfAudio
<1> QED BY <1>4, <1>5, <1>6 DEF HearInv, OfEviction

LEMMA FedFacts ==
  ASSUME NEW d \in Detector, NEW loud \in BOOLEAN, owner \in Seq(Speakers)
  PROVE  /\ d.u # 0 => Fed(d, loud).u = d.u
         /\ d.u = 0 => Fed(d, loud).u = IF loud THEN Len(owner) + 1 ELSE 0
         /\ d.fired => Fed(d, loud).fired
         /\ ~ loud => (Fed(d, loud).fired <=> d.fired)
         /\ loud => Fed(d, loud).silent = 0
<1>1. d = [u |-> d.u, speech |-> d.speech, silent |-> d.silent, length |-> d.length, pre |-> d.pre, fired |-> d.fired]
  BY DEF Detector
<1>2. CASE loud
  BY <1>2 DEF Fed
<1>3. CASE ~ loud
  BY <1>1, <1>3 DEF Fed
<1> QED BY <1>2, <1>3

LEMMA ChunkKeeps ==
  ASSUME HearTypes, HearInv, Punctual, Punctual', NEW p \in Speakers, NEW loud \in BOOLEAN, HearChunk(p, loud)
  PROVE  HearInv'
<1>1. PICK d : d = Fed(det[p], loud)
  OBVIOUS
<1>2. /\ audio.stage = "idle" /\ roster = << >> /\ ~ evicting /\ d.u <= MaxUtterances
      /\ \A u \in Utterances : start[u] # "ready"
      /\ owner' = IF d.u > Len(owner) THEN Append(owner, p) ELSE owner
      /\ start' = IF d.fired /\ ~det[p].fired THEN [start EXCEPT ![d.u] = "ready"] ELSE start
      /\ UNCHANGED << roster, evicting, heard >>
  BY <1>1 DEF HearChunk, Punctual, Settled, HearTypes
<1>3. det[p] \in Detector /\ owner \in Seq(Speakers) /\ det[p].u \in 0 .. MaxUtterances
  BY DEF HearTypes, Detector
<1>4. /\ det[p].u # 0 => d.u = det[p].u
      /\ det[p].u = 0 => d.u = IF loud THEN Len(owner) + 1 ELSE 0
      /\ det[p].fired => d.fired
      /\ ~ loud => (d.fired <=> det[p].fired)
      /\ loud => d.silent = 0
  BY <1>1, <1>3, FedFacts
<1>5. /\ Len(owner) \in Nat /\ \A u \in Utterances : u \in Nat /\ u > 0
      /\ d.u # 0 => d.u \in Utterances
      /\ OfSpeaker(p)
  BY <1>2, <1>3, <1>4, HearNumbers DEF Utterances, HearInv
<1>6. CASE det' = [det EXCEPT ![p] = d] /\ UNCHANGED << probe, task, fired, audio >>
  <2>1. det'[p] = d /\ \A q \in Speakers : q # p => det'[q] = det[q]
    BY <1>6 DEF HearTypes
  <2>2. /\ Len(owner') \in Nat /\ Len(owner) <= Len(owner')
        /\ \A u \in 1 .. Len(owner) : owner'[u] = owner[u]
        /\ d.u > Len(owner) => owner'[d.u] = p /\ d.u <= Len(owner')
    <3>1. CASE d.u > Len(owner)
      <4>1. d.u = Len(owner) + 1
        BY <1>3, <1>4, <1>5, <3>1 DEF OfSpeaker
      <4> QED BY <1>2, <1>3, <3>1, <4>1
    <3>2. CASE ~ (d.u > Len(owner))
      BY <1>2, <1>5, <3>2
    <3> QED BY <3>1, <3>2
  <2>3. d.u # 0 => d.u <= Len(owner') /\ owner'[d.u] = p
    <3>1. CASE d.u > Len(owner)
      BY <2>2, <3>1
    <3>2. CASE ~ (d.u > Len(owner)) /\ d.u # 0
      <4>1. d.u = det[p].u /\ d.u \in 1 .. Len(owner) /\ owner[d.u] = p
        BY <1>3, <1>4, <1>5, <3>2 DEF OfSpeaker
      <4> QED BY <1>5, <2>2, <4>1
    <3> QED BY <3>1, <3>2
  <2>4. \A v \in Utterances : v # d.u => start'[v] = start[v]
    BY <1>2 DEF HearTypes
  <2>5. ~ d.fired \/ det[p].fired => start' = start
    BY <1>2
  <2>6. d.u # 0 => /\ ~ det[p].fired => start[d.u] = "none" /\ probe[d.u] = "none" /\ heard[d.u] = 0
                   /\ heard[d.u] # 0 => p \in fired
    <3>1. CASE det[p].u # 0
      BY <1>4, <1>5, <3>1 DEF OfSpeaker
    <3>2. CASE det[p].u = 0 /\ d.u # 0
      <4>1. d.u > Len(owner) /\ OfUtterance(d.u)
        BY <1>4, <1>5, <3>2 DEF HearInv
      <4> QED BY <4>1 DEF OfUtterance
    <3> QED BY <3>1, <3>2
  <2>7. ASSUME NEW v \in Utterances PROVE OfUtterance(v)'
    <3>1. OfUtterance(v)
      BY DEF HearInv
    <3>2. v > Len(owner') => v # d.u /\ v > Len(owner)
      BY <1>5, <2>2, <2>3
    <3>3. start'[v] # "waits" /\ (start'[v] = "ready" => v = d.u /\ d.fired /\ ~ det[p].fired)
      BY <1>2, <2>4, <2>5, <3>1 DEF OfUtterance, HearTypes
    <3>4. Active(v) => owner'[v] = owner[v] /\ owner[v] \in Speakers /\ det'[owner[v]].u = v
      BY <1>4, <1>5, <2>1, <2>2, ActiveFacts
    <3>5. start'[v] = "ready" => det'[owner'[v]].u = v /\ probe[v] = "none" /\ heard[v] = 0
      BY <1>5, <2>1, <2>3, <2>6, <3>3
    <3> QED BY <1>2, <1>6, <2>4, <3>1, <3>2, <3>3, <3>4, <3>5 DEF OfUtterance, Active
  <2>8. ASSUME NEW q \in Speakers PROVE OfSpeaker(q)'
    <3>1. OfSpeaker(q) /\ det[q].u \in Nat /\ task[q] \in Nat
      BY HearNumbers DEF HearInv, HearTypes, Detector
    <3>2. task[q] # 0 => task[q] <= Len(owner') /\ owner'[task[q]] = q
      BY <1>5, <2>2, <3>1 DEF OfSpeaker
    <3>3. CASE q = p
      BY ZenonT(40), <1>2, <1>4, <1>6, <2>1, <2>3, <2>5, <2>6, <3>2, <3>3 DEF OfSpeaker
    <3>4. CASE q # p
      <4>1. det[q].u # 0 => /\ det[q].u <= Len(owner') /\ owner'[det[q].u] = q /\ det[q].u # d.u
                            /\ det[q].u \in Utterances
        BY <1>5, <2>2, <2>3, <3>1, <3>4, HearNumbers DEF OfSpeaker
      <4> QED BY <1>2, <1>6, <2>1, <2>4, <3>1, <3>2, <3>4, <4>1 DEF OfSpeaker
    <3> QED BY <3>3, <3>4
  <2> QED BY <1>2, <1>6, <2>7, <2>8 DEF HearInv, OfAudio, OfEviction
<1>7. CASE /\ Complete(d) /\ det' = [det EXCEPT ![p] = Quiet] /\ CancelProbe(p)
           /\ cutOff' = IF d.length >= MaxLength THEN cutOff \union {d.u} ELSE cutOff
           /\ \/ Live(p) /\ audio' = [u |-> d.u, stage |-> "cancel"] /\ UNCHANGED fired
              \/ ~ Live(p) /\ Finalize(d.u)
  <2>1. d.u # 0 /\ d.silent = Silence /\ Silence # 0
    BY <1>7, HearingAssumption DEF Complete, Punctual
  <2>2. ~ loud /\ d.u = det[p].u /\ (d.fired <=> det[p].fired)
    BY <1>4, <2>1
  <2>3. d.u \in 1 .. Len(owner) /\ owner[d.u] = p /\ (heard[d.u] # 0 => p \in fired)
    BY <1>5, <2>1, <2>2 DEF OfSpeaker
  <2>4. owner' = owner /\ start' = start
    BY <1>2, <1>5, <2>2, <2>3
  <2>5. fired' \in {fired, fired \ {p}} /\ (audio'.stage # "idle" => audio'.u = d.u /\ heard[d.u] = 0)
    <3>1. CASE Live(p) /\ audio' = [u |-> d.u, stage |-> "cancel"] /\ UNCHANGED fired
      <4>1. det[p].u = task[p] /\ heard[task[p]] = 0
        BY <3>1, LiveFacts
      <4> QED BY <2>2, <3>1, <4>1
    <3>2. CASE Finalize(d.u)
      BY <2>3, <2>4, <3>2 DEF Finalize
    <3> QED BY <1>7, <3>1, <3>2
  <2> QED BY <1>2, <1>7, <2>3, <2>4, <2>5, UtteranceOver
<1> QED BY <1>1, <1>6, <1>7 DEF HearChunk

LEMMA HearKeeps ==
  ASSUME HearTypes, Punctual => HearInv, [HearingNext]_hearingVars, Punctual'
  PROVE  HearInv'
<1>1. Punctual
  <2>1. condition' = condition /\ cutOff \subseteq cutOff'
    BY ZenonT(40) DEF HearingNext, hearingVars, Leave, Join, WindowCloses, HearChunk, SpeechStart, SpeechStartResumes,
           ProbeWakes, ProbeHearsNothing, ProbeHearsStop, ProbePushes, Transcribed, FinalizeResumes, JoinPasses,
           Evict, EvictResumes, GateHears, GateSeesRoster, history
  <2> QED BY <2>1 DEF Punctual
<1> USE <1>1
<1>2. ASSUME NEW p \in Speakers, Leave(p) \/ Join(p) \/ WindowCloses(p) PROVE HearInv'
  <2>1. /\ UNCHANGED << det, owner, start, task, probe, fired, audio, heard, evicting >>
        /\ roster' = roster \/ \E f \in Arrivals : roster' = Append(roster, f)
    BY <1>2 DEF Leave, Join, WindowCloses, probes, history, Arrivals
  <2>2. evicting => Head(roster') = Head(roster)
    <3>1. roster \in Seq(Arrivals) /\ (evicting => roster # << >>)
      BY DEF HearTypes
    <3> QED BY <2>1, <3>1
  <2> QED BY <2>1, <2>2, QuietHearing
<1>3. ASSUME NEW u \in Utterances, ProbeWakes(u) \/ ProbeHearsNothing(u) PROVE HearInv'
  <2>1. PICK to \in {"stt", "over"} : probe' = [probe EXCEPT ![u] = to] /\ Active(u)
    BY <1>3 DEF ProbeWakes, ProbeHearsNothing, Active
  <2>2. \A v \in Utterances : probe'[v] = probe[v] \/ (Active(v) /\ probe'[v] \in {"stt", "over"})
    BY <2>1 DEF HearTypes
  <2> QED BY <1>3, <2>2, QuietHearing DEF ProbeWakes, ProbeHearsNothing, history
<1>4. ASSUME NEW u \in Utterances, ProbeHearsStop(u) \/ ProbePushes(u) PROVE HearInv'
  <2>1. Active(u) /\ heard[u] = 0 /\ OfUtterance(u)
    BY <1>4, ActiveFacts DEF ProbeHearsStop, ProbePushes, Active, HearInv
  <2>2. /\ UNCHANGED << det, owner, start, task, audio, roster, evicting >>
        /\ fired \subseteq fired' /\ owner[u] \in fired'
    BY <1>4, <2>1 DEF ProbeHearsStop, ProbePushes, OfUtterance
  <2>3. \A v \in Utterances : v # u => probe'[v] = probe[v] /\ heard'[v] = heard[v]
    BY <1>4 DEF ProbeHearsStop, ProbePushes, Hear, HearTypes
  <2>4. \/ probe'[u] = "interrupted" /\ heard'[u] = 0
        \/ probe'[u] = "over" /\ heard'[u] = 1
    <3>1. \/ probe' = [probe EXCEPT ![u] = "interrupted"] /\ heard' = heard
          \/ probe' = [probe EXCEPT ![u] = "over"] /\ Hear(u)
      BY <1>4 DEF ProbeHearsStop, ProbePushes
    <3>2. u \in DOMAIN probe /\ u \in DOMAIN heard
      BY DEF HearTypes
    <3>3. Hear(u) => heard'[u] = 1
      BY <2>1, <3>2 DEF Hear
    <3> QED BY <2>1, <3>1, <3>2, <3>3
  <2> QED BY <2>1, <2>2, <2>3, <2>4, ProbeTells
<1>5. ASSUME NEW text, Transcribed(text) PROVE HearInv'
  BY <1>5, UtteranceEnds DEF Transcribed, Hear
<1>6. CASE FinalizeResumes
  <2>1. owner' = owner /\ audio.stage = "cancel" /\ UNCHANGED << det, start, probe, task, roster, evicting, heard >>
        /\ Finalize(audio.u)
    BY <1>6 DEF FinalizeResumes
  <2> QED BY <2>1, UtteranceEnds DEF Finalize
<1>7. CASE JoinPasses \/ GateHears \/ GateSeesRoster
  BY <1>7, QuietHearing DEF JoinPasses, PassOn, GateHears, GateSeesRoster, probes, history
<1>8. CASE UNCHANGED hearingVars
  BY <1>8, QuietHearing DEF hearingVars, probes, history
<1>9. ASSUME NEW u \in Utterances, SpeechStartResumes(u) PROVE HearInv'
  BY <1>9 DEF SpeechStartResumes, HearInv, OfUtterance
<1> QED BY <1>2, <1>3, <1>4, <1>5, <1>6, <1>7, <1>8, <1>9, StartsAtOnce, ChunkKeeps, EvictKeeps, EvictResumesKeeps
        DEF HearingNext

\* No utterance is told to the gate twice, by its probe and by on_utterance, however
\* probes, utterances, departures and returns interleave; but for bursts of audio.
THEOREM ToldOnce == HearingSpec => []HeardOnce
<1> DEFINE I == HearTypes /\ (Punctual => HearInv)
<1>1. HearingInit => I
  BY HearStarts
<1>2. I /\ [HearingNext]_hearingVars => I'
  BY HearKeepsTypes, HearKeeps
<1>3. I => HeardOnce
  BY DEF HeardOnce, HearInv, OfUtterance
<1> QED BY <1>1, <1>2, <1>3, PTL DEF HearingSpec

-----------------------------------------------------------------------------
(* What an utterance that is suppressed, an utterance that ended and a     *)
(* participant that left have behind them.                                 *)

\* What a chunk does to the speaker's utterance: it goes on or begins, or it ends.
LEMMA ChunkEffect ==
  ASSUME HearTypes, HearInv, Punctual, Punctual', NEW p \in Speakers, NEW loud \in BOOLEAN, HearChunk(p, loud)
  PROVE  /\ p \in present /\ audio.stage = "idle"
         /\ UNCHANGED << present, roster, condition, started, heard >>
         /\ \A q \in Speakers : q # p => det'[q] = det[q]
         /\ \A u \in 1 .. Len(owner) : u \in 1 .. Len(owner') /\ owner'[u] = owner[u]
         /\ \A u \in Utterances : start'[u] \in {start[u], "ready"}
         /\ \/ /\ det'[p].u = det[p].u \/ (det[p].u = 0 /\ det'[p].u \in {0, Len(owner) + 1})
               /\ UNCHANGED << probe, task, fired, stopped, suppressed >> /\ Accumulate(p)
            \/ /\ det'[p] = Quiet /\ det[p].u \in 1 .. Len(owner) /\ owner[det[p].u] = p
               /\ owner' = owner /\ CancelProbe(p)
               /\ \/ Live(p) /\ UNCHANGED << buffer, fired, stopped, suppressed >>
                  \/ ~ Live(p) /\ Finalize(det[p].u)
<1>1. PICK d : d = Fed(det[p], loud)
  OBVIOUS
<1>2. /\ p \in present /\ audio.stage = "idle" /\ d.u <= MaxUtterances
      /\ owner' = IF d.u > Len(owner) THEN Append(owner, p) ELSE owner
      /\ start' = IF d.fired /\ ~det[p].fired THEN [start EXCEPT ![d.u] = "ready"] ELSE start
      /\ UNCHANGED << present, roster, condition, started, heard >>
  BY <1>1 DEF HearChunk
<1>3. det[p] \in Detector /\ owner \in Seq(Speakers) /\ det[p].u \in 0 .. MaxUtterances
  BY DEF HearTypes, Detector
<1>4. /\ det[p].u # 0 => d.u = det[p].u
      /\ det[p].u = 0 => d.u = IF loud THEN Len(owner) + 1 ELSE 0
      /\ ~ loud => (d.fired <=> det[p].fired)
      /\ loud => d.silent = 0
  BY <1>1, <1>3, FedFacts
<1>5. /\ Len(owner) \in Nat /\ OfSpeaker(p)
      /\ det[p].u # 0 => det[p].u \in 1 .. Len(owner) /\ owner[det[p].u] = p
  BY <1>3, HearNumbers DEF HearInv, OfSpeaker
<1>6. \A u \in Utterances : start'[u] \in {start[u], "ready"}
  BY <1>2 DEF HearTypes
<1>7. \A u \in 1 .. Len(owner) : u \in 1 .. Len(owner') /\ owner'[u] = owner[u]
  <2>1. owner' \in {owner, Append(owner, p)}
    BY <1>2
  <2> QED BY <1>3, <1>5, <2>1
<1>8. CASE /\ det' = [det EXCEPT ![p] = d] /\ Accumulate(p)
           /\ UNCHANGED << probe, task, fired, stopped, suppressed >>
  <2>1. det'[p] = d /\ \A q \in Speakers : q # p => det'[q] = det[q]
    BY <1>8 DEF HearTypes
  <2>2. d.u = det[p].u \/ (det[p].u = 0 /\ d.u \in {0, Len(owner) + 1})
    BY <1>4
  <2> QED BY <1>2, <1>6, <1>7, <1>8, <2>1, <2>2
<1>9. CASE /\ Complete(d) /\ det' = [det EXCEPT ![p] = Quiet] /\ CancelProbe(p)
           /\ cutOff' = IF d.length >= MaxLength THEN cutOff \union {d.u} ELSE cutOff
           /\ \/ Live(p) /\ UNCHANGED << buffer, fired, stopped, suppressed >>
              \/ ~ Live(p) /\ Finalize(d.u)
  <2>1. d.u # 0 /\ d.silent = Silence /\ Silence # 0
    BY <1>9, HearingAssumption DEF Complete, Punctual
  <2>2. d.u = det[p].u /\ det[p].u # 0
    BY <1>4, <2>1
  <2>3. det'[p] = Quiet /\ \A q \in Speakers : q # p => det'[q] = det[q]
    BY <1>9 DEF HearTypes
  <2>4. owner' = owner
    BY <1>2, <1>5, <2>2
  <2> QED BY <1>2, <1>5, <1>6, <1>7, <1>9, <2>2, <2>3, <2>4
<1> QED BY <1>1, <1>8, <1>9 DEF HearChunk

\* What is in the flag was told of the utterance the speaker is in, and what was
\* suppressed has been told.
SaidInv ==
  "slow push" \notin condition =>
    /\ \A p \in fired : p \in Speakers /\ det[p].u \in Utterances /\ heard[det[p].u] = 1
    /\ \A u \in suppressed : u \in Utterances /\ heard[u] = 1

LEMMA QuietIs == Quiet.u = 0 /\ \A u \in Utterances : u # 0
BY HearingAssumption DEF Quiet, Utterances

LEMMA TaskIs == HearTypes => \A q \in Speakers : task[q] # 0 => task[q] \in Utterances
<1> SUFFICES ASSUME HearTypes, NEW q \in Speakers, task[q] # 0 PROVE task[q] \in Utterances
  OBVIOUS
<1>1. task[q] \in 0 .. MaxUtterances
  BY DEF HearTypes
<1> QED BY <1>1, HearingAssumption DEF Utterances

\* The flag names speakers in the middle of an utterance.
LEMMA SaidFacts ==
  ASSUME HearTypes, SaidInv, "slow push" \notin condition, NEW p \in fired
  PROVE  p \in Speakers /\ det[p].u # 0 /\ heard[det[p].u] = 1
<1>1. p \in Speakers /\ det[p].u \in Utterances /\ heard[det[p].u] = 1
  BY DEF SaidInv
<1> QED BY <1>1, QuietIs

LEMMA SaidKept ==
  ASSUME SaidInv, condition' = condition,
         "slow push" \notin condition =>
           /\ \A u \in Utterances : heard'[u] \in {heard[u], 1}
           /\ \A p \in fired' :
                \/ p \in fired /\ det'[p].u = det[p].u
                \/ p \in Speakers /\ det'[p].u \in Utterances /\ heard'[det'[p].u] = 1
           /\ \A u \in suppressed' : u \in suppressed \/ (u \in Utterances /\ heard'[u] = 1)
  PROVE  SaidInv'
<1> SUFFICES ASSUME "slow push" \notin condition
             PROVE  /\ \A p \in fired' : p \in Speakers /\ det'[p].u \in Utterances /\ heard'[det'[p].u] = 1
                    /\ \A u \in suppressed' : u \in Utterances /\ heard'[u] = 1
  BY DEF SaidInv
<1>1. ASSUME NEW u \in Utterances, heard[u] = 1 PROVE heard'[u] = 1
  BY <1>1
<1>2. ASSUME NEW p \in fired' PROVE p \in Speakers /\ det'[p].u \in Utterances /\ heard'[det'[p].u] = 1
  BY <1>1 DEF SaidInv
<1>3. ASSUME NEW u \in suppressed' PROVE u \in Utterances /\ heard'[u] = 1
  BY <1>1 DEF SaidInv
<1> QED BY <1>2, <1>3

\* An utterance that has ended is not the one its speaker is in, and what has begun
\* was announced.
EndedInv ==
  /\ \A u \in stopped : u \in 1 .. Len(owner) /\ det[owner[u]].u # u
  /\ \A u \in Utterances : start[u] = "done" => u \in started

\* A participant that left is forgotten, or its leave is still on its way.
LeftFrame(p) == [type |-> "left", pid |-> p]

Forgotten(p) == det[p] = Quiet /\ buffer[p] = "closed" /\ ~ Live(p) /\ p \notin fired

LeftInv ==
  /\ buffer \in [Speakers -> {"closed", "empty", "audio"}]
  /\ \A p \in Speakers \ present : LeftFrame(p) \in ToSet(roster) \/ Forgotten(p)

EarInv == SaidInv /\ EndedInv /\ LeftInv

LEMMA EarStarts == HearingInit => EarInv
BY DEF HearingInit, EarInv, SaidInv, EndedInv, LeftInv

LEMMA EndedKept ==
  ASSUME HearTypes, EndedInv, stopped' = stopped, started \subseteq started',
         \A u \in 1 .. Len(owner) : u \in 1 .. Len(owner') /\ owner'[u] = owner[u],
         \A u \in 1 .. Len(owner) : det'[owner[u]].u = u => det[owner[u]].u = u,
         \A u \in Utterances : start'[u] = "done" => start[u] = "done" \/ u \in started'
  PROVE  EndedInv'
BY HearNumbers DEF EndedInv

LEMMA LeftKept ==
  ASSUME LeftInv, buffer' \in [Speakers -> {"closed", "empty", "audio"}], roster' = roster, present' = present,
         \A p \in Speakers \ present : Forgotten(p) => Forgotten(p)'
  PROVE  LeftInv'
BY DEF LeftInv

\* Steps that leave utterances and their speakers alone.
LEMMA QuietEar ==
  ASSUME HearTypes, EarInv, LeftInv',
         UNCHANGED << det, owner, start, fired, started, stopped, suppressed, heard, condition >>
  PROVE  EarInv'
<1>1. SaidInv'
  BY SaidKept DEF EarInv
<1>2. EndedInv'
  BY DEF EarInv, EndedInv
<1> QED BY <1>1, <1>2 DEF EarInv

LEMMA StartEar ==
  ASSUME HearTypes, HearInv, EarInv, NEW u \in Utterances, SpeechStart(u)
  PROVE  EarInv'
<1>1. PICK p \in Speakers : p = owner[u] /\ u \in 1 .. Len(owner) /\ det[p].u = u /\ start[u] = "ready"
  BY ActiveFacts DEF SpeechStart
<1>2. probe[u] = "none"
  BY <1>1 DEF HearInv, OfUtterance
<1>3. ~ Live(p)
  BY <1>1, <1>2, LiveFacts DEF Active
<1>4. /\ fired' = fired \ {p} /\ task' = [task EXCEPT ![p] = u] /\ start' = [start EXCEPT ![u] = "done"]
      /\ probe' = [probe EXCEPT ![u] = "sleeps"] /\ buffer' = [buffer EXCEPT ![p] = "empty"]
      /\ started' = started \union {u}
      /\ UNCHANGED << present, det, owner, roster, heard, stopped, suppressed, condition >>
  BY <1>1, <1>3 DEF SpeechStart, OpenProbe
<1>5. SaidInv'
  BY <1>4, SaidKept DEF EarInv
<1>6. EndedInv'
  <2>1. \A v \in Utterances : start'[v] = "done" => start[v] = "done" \/ v \in started'
    BY <1>4 DEF HearTypes
  <2> QED BY <1>4, <2>1, EndedKept, HearNumbers DEF EarInv
<1>7. LeftInv'
  <2>1. buffer' \in [Speakers -> {"closed", "empty", "audio"}]
    BY <1>4 DEF EarInv, LeftInv
  <2>2. ASSUME NEW q \in Speakers, Forgotten(q) PROVE Forgotten(q)'
    <3>1. q # p
      BY <1>1, <2>2, HearNumbers DEF Forgotten, Quiet
    <3>2. task[q] # u
      BY <1>1, <3>1, HearNumbers DEF HearInv, OfSpeaker
    <3>3. task'[q] = task[q] /\ buffer'[q] = buffer[q] /\ \A v \in Utterances : v # u => probe'[v] = probe[v]
      BY <1>4, <3>1 DEF HearTypes, EarInv, LeftInv
    <3>4. task[q] # 0 => task[q] \in Utterances
      BY TaskIs
    <3> QED BY <1>4, <2>2, <3>2, <3>3, <3>4 DEF Forgotten, Live
  <2> QED BY <1>4, <2>1, <2>2, LeftKept DEF EarInv
<1> QED BY <1>5, <1>6, <1>7 DEF EarInv

\* A probe that is awake comes to its end, with or without a "stop".
LEMMA ProbeEar ==
  ASSUME HearTypes, HearInv, EarInv, NEW u \in Utterances, Active(u),
         UNCHANGED << present, det, owner, start, task, roster, started, stopped, suppressed, condition >>,
         \A v \in Utterances : v # u => probe'[v] = probe[v],
         \A v \in Utterances : heard'[v] \in {heard[v], 1},
         buffer' \in {buffer, [buffer EXCEPT ![owner[u]] = "closed"]},
         fired' = fired \/ (fired' = fired \union {owner[u]} /\ ("slow push" \notin condition => heard'[u] = 1))
  PROVE  EarInv'
<1>1. PICK p \in Speakers : p = owner[u] /\ u \in 1 .. Len(owner) /\ det[p].u = u
  BY ActiveFacts
<1>5. u # 0
  BY QuietIs
<1>2. SaidInv'
  <2>1. "slow push" \notin condition =>
          \A q \in fired' : \/ q \in fired /\ det'[q].u = det[q].u
                            \/ q \in Speakers /\ det'[q].u \in Utterances /\ heard'[det'[q].u] = 1
    BY <1>1
  <2> QED BY <2>1, SaidKept DEF EarInv
<1>3. EndedInv'
  <2>1. EndedInv
    BY DEF EarInv
  <2> QED BY <2>1, EndedKept
<1>4. LeftInv'
  <2>1. buffer' \in [Speakers -> {"closed", "empty", "audio"}]
    BY DEF EarInv, LeftInv
  <2>2. ASSUME NEW q \in Speakers, Forgotten(q) PROVE Forgotten(q)'
    <3>1. q # p
      BY <1>1, <1>5, <2>2, QuietIs DEF Forgotten
    <3>2. task[q] # u
      BY <1>1, <1>5, <3>1 DEF HearInv, OfSpeaker
    <3>3. buffer'[q] = buffer[q] /\ (q \in fired' => q \in fired)
      BY <1>1, <3>1 DEF EarInv, LeftInv
    <3>4. task[q] # 0 => task[q] \in Utterances
      BY TaskIs
    <3>5. ~ Live(q)'
      BY <2>2, <3>2, <3>4 DEF Forgotten, Live
    <3> QED BY <2>2, <3>3, <3>5 DEF Forgotten
  <2> QED BY <2>1, <2>2, LeftKept DEF EarInv
<1> QED BY <1>2, <1>3, <1>4 DEF EarInv

\* CancelProbe leaves others' probes alone, and makes none live.
LEMMA CancelFacts ==
  ASSUME HearTypes, HearInv, NEW p \in Speakers, CancelProbe(p)
  PROVE  /\ task'[p] = 0 /\ ~ Live(p)'
         /\ \A q \in Speakers : ~ Live(q) => ~ Live(q)'
<1>1. task'[p] = 0 /\ \A q \in Speakers : q # p => task'[q] = task[q]
  BY DEF CancelProbe, HearTypes
<1>2. \A v \in Utterances : probe'[v] \in {probe[v], "over"}
  BY DEF CancelProbe, HearTypes
<1>3. \A q \in Speakers : task[q] # 0 => task[q] \in Utterances
  BY TaskIs
<1> QED BY <1>1, <1>2, <1>3 DEF Live

\* on_utterance, or its end: the utterance w of a speaker that is silent.
LEMMA FinalizeEar ==
  ASSUME HearTypes, HearInv, HearInv', EarInv, NEW w \in 1 .. Len(owner), NEW p \in Speakers, owner[w] = p,
         det'[p] = Quiet, \A q \in Speakers : q # p => det'[q] = det[q],
         UNCHANGED << present, owner, roster, condition, started, heard >>,
         \A u \in Utterances : start'[u] \in {start[u], "ready"},
         \A q \in Speakers : ~ Live(q) => ~ Live(q)',
         \/ UNCHANGED << buffer, fired, stopped, suppressed >> /\ ("slow push" \notin condition => p \notin fired)
         \/ Finalize(w) /\ ("slow push" \notin condition /\ p \in fired => heard[w] = 1)
  PROVE  EarInv'
<1>1. w \in Utterances /\ w # 0 /\ det'[p].u = 0
  <2>1. w \in Utterances
    BY HearNumbers
  <2> QED BY <2>1, QuietIs
<1>2. /\ buffer' \in {buffer, [buffer EXCEPT ![p] = "closed"]}
      /\ fired' \subseteq fired /\ ("slow push" \notin condition => p \notin fired')
      /\ stopped' \in {stopped, stopped \union {w}}
      /\ suppressed' = suppressed \/ (suppressed' = suppressed \union {w} /\ p \in fired /\ Finalize(w))
  BY DEF Finalize, CloseBuffer
<1>3. SaidInv'
  <2>1. ASSUME "slow push" \notin condition, NEW q \in fired' PROVE q \in fired /\ det'[q].u = det[q].u
    BY <1>2, <2>1 DEF EarInv, SaidInv
  <2>2. ASSUME "slow push" \notin condition, NEW u \in suppressed'
        PROVE  u \in suppressed \/ (u \in Utterances /\ heard'[u] = 1)
    BY <1>1, <1>2, <2>2
  <2> QED BY <2>1, <2>2, SaidKept DEF EarInv
<1>4. EndedInv'
  <2>1. \A u \in stopped' : u \in 1 .. Len(owner) /\ det'[owner[u]].u # u
    <3>1. \A u \in stopped : u \in 1 .. Len(owner) /\ det[owner[u]].u # u
      BY DEF EarInv, EndedInv
    <3>2. \A u \in 1 .. Len(owner) : owner[u] \in Speakers /\ u # 0
      BY HearNumbers, QuietIs
    <3>3. ASSUME NEW u \in 1 .. Len(owner), det[owner[u]].u # u PROVE det'[owner[u]].u # u
      BY <1>1, <3>2, <3>3
    <3>4. det'[owner[w]].u # w
      BY <1>1
    <3>5. \A u \in stopped' : u \in stopped \/ u = w
      BY <1>2
    <3> QED BY <3>1, <3>3, <3>4, <3>5
  <2>2. \A u \in Utterances : start'[u] = "done" => u \in started'
    BY DEF EarInv, EndedInv
  <2> QED BY <2>1, <2>2 DEF EndedInv
<1>5. LeftInv'
  <2>1. buffer' \in [Speakers -> {"closed", "empty", "audio"}]
    BY <1>2 DEF EarInv, LeftInv
  <2>2. ASSUME NEW q \in Speakers, Forgotten(q) PROVE Forgotten(q)'
    <3>1. buffer'[q] = "closed" /\ q \notin fired' /\ ~ Live(q)'
      BY <1>2, <2>2 DEF Forgotten, EarInv, LeftInv
    <3>2. det'[q] = Quiet
      BY <2>2 DEF Forgotten
    <3> QED BY <3>1, <3>2 DEF Forgotten
  <2> QED BY <2>1, <2>2, LeftKept DEF EarInv
<1> QED BY <1>3, <1>4, <1>5 DEF EarInv

LEMMA ChunkEar ==
  ASSUME HearTypes, HearInv, HearInv', EarInv, Punctual, Punctual',
         NEW p \in Speakers, NEW loud \in BOOLEAN, HearChunk(p, loud)
  PROVE  EarInv'
<1>1. /\ p \in present /\ audio.stage = "idle"
      /\ UNCHANGED << present, roster, condition, started, heard >>
      /\ \A q \in Speakers : q # p => det'[q] = det[q]
      /\ \A u \in 1 .. Len(owner) : u \in 1 .. Len(owner') /\ owner'[u] = owner[u]
      /\ \A u \in Utterances : start'[u] \in {start[u], "ready"}
  BY ChunkEffect
<1>2. CASE /\ det'[p].u = det[p].u \/ (det[p].u = 0 /\ det'[p].u \in {0, Len(owner) + 1})
           /\ UNCHANGED << probe, task, fired, stopped, suppressed >> /\ Accumulate(p)
  <2>1. SaidInv'
    <3>1. ASSUME "slow push" \notin condition, NEW q \in fired PROVE det'[q].u = det[q].u
      <4>1. q \in Speakers /\ det[q].u # 0
        BY <3>1, SaidFacts DEF EarInv
      <4> QED BY <1>1, <1>2, <4>1
    <3> QED BY <1>1, <1>2, <3>1, SaidKept DEF EarInv
  <2>2. EndedInv'
    <3>1. ASSUME NEW u \in 1 .. Len(owner), det'[owner[u]].u = u PROVE det[owner[u]].u = u
      <4>1. u # Len(owner) + 1 /\ u # 0 /\ owner[u] \in Speakers
        BY HearNumbers
      <4> QED BY <1>1, <1>2, <3>1, <4>1
    <3> QED BY <1>1, <1>2, <3>1, EndedKept DEF EarInv
  <2>3. LeftInv'
    <3>1. buffer' = [buffer EXCEPT ![p] = IF buffer[p] = "closed" THEN buffer[p] ELSE "audio"]
          /\ buffer \in [Speakers -> {"closed", "empty", "audio"}]
      BY <1>2 DEF Accumulate, EarInv, LeftInv
    <3>2. buffer' \in [Speakers -> {"closed", "empty", "audio"}]
      BY <3>1
    <3>3. ASSUME NEW q \in Speakers \ present, Forgotten(q) PROVE Forgotten(q)'
      BY <1>1, <1>2, <3>1, <3>3 DEF Forgotten, Live
    <3> QED BY <1>1, <3>2, <3>3, LeftKept DEF EarInv
  <2> QED BY <2>1, <2>2, <2>3 DEF EarInv
<1>3. CASE /\ det'[p] = Quiet /\ det[p].u \in 1 .. Len(owner) /\ owner[det[p].u] = p
           /\ owner' = owner /\ CancelProbe(p)
           /\ \/ Live(p) /\ UNCHANGED << buffer, fired, stopped, suppressed >>
              \/ ~ Live(p) /\ Finalize(det[p].u)
  <2>1. PICK w \in 1 .. Len(owner) : w = det[p].u
    BY <1>3
  <2>2. \A q \in Speakers : ~ Live(q) => ~ Live(q)'
    BY <1>3, CancelFacts
  <2>3. "slow push" \notin condition /\ p \in fired => heard[w] = 1
    BY <2>1 DEF EarInv, SaidInv
  <2>4. Live(p) => heard[w] = 0
    BY <2>1, LiveFacts
  <2>5. \/ UNCHANGED << buffer, fired, stopped, suppressed >> /\ ("slow push" \notin condition => p \notin fired)
        \/ Finalize(w) /\ ("slow push" \notin condition /\ p \in fired => heard[w] = 1)
    <3>1. CASE Live(p) /\ UNCHANGED << buffer, fired, stopped, suppressed >>
      <4>1. heard[w] # 1
        BY <2>4, <3>1
      <4> QED BY <2>3, <3>1, <4>1
    <3>2. CASE Finalize(det[p].u)
      BY <2>1, <2>3, <3>2
    <3> QED BY <1>3, <3>1, <3>2
  <2>6. owner[w] = p /\ owner' = owner /\ det'[p] = Quiet
    BY <1>3, <2>1
  <2> QED BY <1>1, <2>2, <2>5, <2>6, FinalizeEar
<1> QED BY <1>2, <1>3, ChunkEffect

LEMMA ResumeEar ==
  ASSUME HearTypes, HearInv, HearInv', EarInv, FinalizeResumes
  PROVE  EarInv'
<1>1. PICK w \in 1 .. Len(owner) : w = audio.u /\ det[owner[w]].u = 0 /\ owner[w] \in Speakers
  BY HearNumbers DEF FinalizeResumes, HearInv, OfAudio
<1>2. PICK p \in Speakers : p = owner[w]
  BY <1>1
<1>3. "slow push" \notin condition => p \notin fired
  BY <1>1, <1>2, SaidFacts DEF EarInv
<1>4. /\ Finalize(w) /\ UNCHANGED << present, det, owner, start, probe, task, roster, condition, started, heard >>
  BY <1>1 DEF FinalizeResumes
<1>5. /\ buffer' = [buffer EXCEPT ![p] = "closed"] /\ fired' \subseteq fired
      /\ stopped' \in {stopped, stopped \union {w}}
      /\ suppressed' = suppressed \/ (suppressed' = suppressed \union {w} /\ p \in fired)
  BY <1>2, <1>4 DEF Finalize, CloseBuffer
<1>6. SaidInv'
  BY <1>3, <1>4, <1>5, SaidKept DEF EarInv
<1>7. EndedInv'
  <2>1. w # 0 /\ det[owner[w]].u # w
    BY <1>1, HearNumbers
  <2> QED BY <1>4, <1>5, <2>1 DEF EarInv, EndedInv
<1>8. LeftInv'
  <2>1. buffer' \in [Speakers -> {"closed", "empty", "audio"}]
    BY <1>5 DEF EarInv, LeftInv
  <2>2. ASSUME NEW q \in Speakers, Forgotten(q) PROVE Forgotten(q)'
    BY <1>4, <1>5, <2>2 DEF Forgotten, Live, EarInv, LeftInv
  <2> QED BY <1>4, <2>1, <2>2, LeftKept DEF EarInv
<1> QED BY <1>6, <1>7, <1>8 DEF EarInv

\* A join or a leave has passed: what it was about is settled.
LEMMA PassEar ==
  ASSUME HearTypes, LeftInv, roster # << >>, roster' = Tail(roster), present' = present,
         NEW p, p = Head(roster).pid,
         buffer' \in [Speakers -> {"closed", "empty", "audio"}],
         \A q \in Speakers : Forgotten(q) => Forgotten(q)',
         Head(roster).type = "left" => Forgotten(p)'
  PROVE  LeftInv'
<1>1. ASSUME NEW q \in Speakers \ present PROVE (LeftFrame(q) \in ToSet(roster) \/ Forgotten(q))'
  <2>1. CASE Forgotten(q)
    BY <1>1, <2>1
  <2>2. CASE LeftFrame(q) \in ToSet(roster)
    <3>1. roster \in Seq(Arrivals)
      BY DEF HearTypes
    <3>2. PICK i \in 1 .. Len(roster) : roster[i] = LeftFrame(q)
      BY <2>2, <3>1 DEF ToSet
    <3>3. CASE i = 1
      <4>1. Head(roster).type = "left" /\ p = q
        BY <3>1, <3>2, <3>3 DEF LeftFrame
      <4> QED BY <4>1
    <3>4. CASE i # 1
      <4>1. /\ i - 1 \in 1 .. Len(Tail(roster)) /\ Tail(roster)[i - 1] = roster[i]
            /\ DOMAIN Tail(roster) = 1 .. Len(Tail(roster))
        BY <3>1, <3>2, <3>4
      <4>2. LeftFrame(q) \in ToSet(Tail(roster))
        BY <3>2, <4>1 DEF ToSet
      <4> QED BY <4>2
    <3> QED BY <3>3, <3>4
  <2> QED BY <1>1, <2>1, <2>2 DEF LeftInv
<1> QED BY <1>1 DEF LeftInv

\* A participant leaves or is back.
LEMMA SessionEar ==
  ASSUME HearTypes, EarInv, NEW p \in Speakers, Leave(p) \/ Join(p)
  PROVE  EarInv'
<1>1. /\ UNCHANGED << det, owner, start, probe, task, buffer, fired, started, stopped, suppressed, heard, condition >>
      /\ \/ present' = present \ {p} /\ roster' = Append(roster, LeftFrame(p))
         \/ present' = present \union {p} /\ \E f \in Arrivals : roster' = Append(roster, f)
  BY DEF Leave, Join, probes, history, LeftFrame, Arrivals
<1>2. roster \in Seq(Arrivals) /\ LeftFrame(p) \in Arrivals
  BY DEF HearTypes, LeftFrame, Arrivals
<1>3. PICK f \in Arrivals : roster' = Append(roster, f) /\ (p \notin present' => f = LeftFrame(p))
  BY <1>1, <1>2
<1>4. ToSet(roster') = ToSet(roster) \union {f}
  BY <1>2, <1>3, Appended
<1>5. \A q \in Speakers : Forgotten(q) => Forgotten(q)'
  BY <1>1 DEF Forgotten, Live
<1>6. LeftInv'
  <2>1. buffer' \in [Speakers -> {"closed", "empty", "audio"}]
    BY <1>1 DEF EarInv, LeftInv
  <2>2. ASSUME NEW q \in Speakers \ present' PROVE (LeftFrame(q) \in ToSet(roster) \/ Forgotten(q))'
    <3>1. CASE q = p
      BY <1>3, <1>4, <2>2, <3>1 DEF LeftFrame
    <3>2. CASE q # p
      <4>1. q \in Speakers \ present
        BY <1>1, <2>2, <3>2
      <4> QED BY <1>4, <1>5, <4>1 DEF EarInv, LeftInv, LeftFrame
    <3> QED BY <3>1, <3>2
  <2> QED BY <2>1, <2>2 DEF LeftInv
<1> QED BY <1>1, <1>6, QuietEar

\* _evict_participant, once nothing of the participant is at work.
LEMMA ForgetEar ==
  ASSUME HearTypes, EarInv, NEW p \in Speakers, roster # << >>, p = Head(roster).pid,
         Forget(p), roster' = Tail(roster), ~ Live(p)', \A q \in Speakers : ~ Live(q) => ~ Live(q)',
         UNCHANGED << present, owner, start, started, stopped, suppressed, heard, condition >>
  PROVE  EarInv'
<1>1. /\ det'[p] = Quiet /\ \A q \in Speakers : q # p => det'[q] = det[q]
      /\ fired' = fired \ {p}
  BY DEF Forget, HearTypes
<1>2. buffer \in [Speakers -> {"closed", "empty", "audio"}] /\ buffer' = [buffer EXCEPT ![p] = "closed"]
  BY DEF Forget, CloseBuffer, EarInv, LeftInv
<1>3. SaidInv'
  <2>1. ASSUME "slow push" \notin condition, NEW q \in fired' PROVE q \in fired /\ det'[q].u = det[q].u
    <3>1. q \in fired /\ q # p
      BY <1>1
    <3>2. q \in Speakers
      BY <2>1, <3>1, SaidFacts DEF EarInv
    <3> QED BY <1>1, <3>1, <3>2
  <2> QED BY <2>1, SaidKept DEF EarInv
<1>4. EndedInv'
  <2>1. ASSUME NEW u \in 1 .. Len(owner), det'[owner[u]].u = u PROVE det[owner[u]].u = u
    <3>1. u # 0 /\ owner[u] \in Speakers
      BY HearNumbers, QuietIs
    <3> QED BY <1>1, <2>1, <3>1, QuietIs
  <2>2. EndedInv
    BY DEF EarInv
  <2> QED BY <2>1, <2>2, EndedKept
<1>5. LeftInv'
  <2>1. buffer' \in [Speakers -> {"closed", "empty", "audio"}] /\ buffer'[p] = "closed"
        /\ \A q \in Speakers : q # p => buffer'[q] = buffer[q]
    BY <1>2
  <2>2. Forgotten(p)'
    BY <1>1, <2>1 DEF Forgotten
  <2>3. ASSUME NEW q \in Speakers, Forgotten(q) PROVE Forgotten(q)'
    <3>1. q # p => det'[q] = Quiet /\ buffer'[q] = "closed" /\ ~ Live(q)' /\ q \notin fired'
      BY <1>1, <2>1, <2>3 DEF Forgotten
    <3> QED BY <2>2, <3>1 DEF Forgotten
  <2> QED BY <2>1, <2>2, <2>3, PassEar DEF EarInv
<1> QED BY <1>3, <1>4, <1>5 DEF EarInv

LEMMA EvictEar ==
  ASSUME HearTypes, HearInv, EarInv, Evict \/ EvictResumes
  PROVE  EarInv'
<1>1. roster # << >>
  BY DEF Evict, EvictResumes, HearTypes
<1>2. PICK p \in Speakers : p = Head(roster).pid
  <2>1. roster \in Seq(Arrivals)
    BY DEF HearTypes
  <2>2. Head(roster) \in Arrivals
    BY <1>1, <2>1
  <2> QED BY <2>2 DEF Arrivals
<1>3. UNCHANGED << present, owner, start, started, stopped, suppressed, heard, condition >>
  BY DEF Evict, EvictResumes, history
<1>4. CASE EvictResumes
  <2>1. \A u \in Utterances : Active(u) => owner[u] # p
    BY <1>2, <1>4 DEF EvictResumes, HearInv, OfEviction
  <2>2. ~ Live(p)
    BY <2>1, LiveFacts
  <2>3. UNCHANGED << probe, task >> /\ Forget(p) /\ roster' = Tail(roster)
    BY <1>2, <1>4 DEF EvictResumes, PassOn
  <2>4. ~ Live(p)' /\ \A q \in Speakers : ~ Live(q) => ~ Live(q)'
    BY <2>2, <2>3 DEF Live
  <2> QED BY <1>1, <1>2, <1>3, <2>3, <2>4, ForgetEar
<1>5. CASE Evict
  <2>1. ~ Live(p)' /\ \A q \in Speakers : ~ Live(q) => ~ Live(q)'
    BY <1>2, <1>5, CancelFacts DEF Evict
  <2>2. CASE Forget(p) /\ roster' = Tail(roster)
    BY <1>1, <1>2, <1>3, <2>1, <2>2, ForgetEar
  <2>3. CASE UNCHANGED << det, buffer, fired, roster >>
    <3>1. buffer' \in [Speakers -> {"closed", "empty", "audio"}]
      BY <2>3 DEF EarInv, LeftInv
    <3>2. \A q \in Speakers : Forgotten(q) => Forgotten(q)'
      BY <2>1, <2>3 DEF Forgotten
    <3>3. LeftInv'
      BY <1>3, <2>3, <3>1, <3>2, LeftKept DEF EarInv
    <3> QED BY <1>3, <2>3, <3>3, QuietEar
  <2> QED BY <1>2, <1>5, <2>2, <2>3 DEF Evict, PassOn
<1> QED BY <1>4, <1>5

LEMMA TranscribedEar ==
  ASSUME HearTypes, HearInv, EarInv, NEW text, Transcribed(text)
  PROVE  EarInv'
<1>1. PICK w \in 1 .. Len(owner) : w = audio.u
  BY DEF Transcribed, HearInv, OfAudio
<1>2. w \in Utterances /\ heard[w] = 0 /\ owner[w] \in Speakers
  BY <1>1, HearNumbers DEF Transcribed, HearInv, OfAudio
<1>3. UNCHANGED << present, det, owner, start, probe, task, fired, roster, condition, started, stopped, suppressed >>
      /\ Accumulate(owner[w]) /\ (heard' = heard \/ Hear(w))
  BY <1>1 DEF Transcribed
<1>4. \A u \in Utterances : heard'[u] \in {heard[u], 1}
  BY <1>2, <1>3 DEF Hear, HearTypes
<1>5. SaidInv'
  BY <1>3, <1>4, SaidKept DEF EarInv
<1>6. EndedInv'
  BY <1>3 DEF EarInv, EndedInv
<1>7. LeftInv'
  <2>1. PICK p \in Speakers : p = owner[w]
    BY <1>2
  <2>2. buffer' = [buffer EXCEPT ![p] = IF buffer[p] = "closed" THEN buffer[p] ELSE "audio"]
        /\ buffer \in [Speakers -> {"closed", "empty", "audio"}]
    BY <1>3, <2>1 DEF Accumulate, EarInv, LeftInv
  <2>3. buffer' \in [Speakers -> {"closed", "empty", "audio"}]
    BY <2>2
  <2>4. ASSUME NEW q \in Speakers, Forgotten(q) PROVE Forgotten(q)'
    BY <1>3, <2>2, <2>4 DEF Forgotten, Live
  <2> QED BY <1>3, <2>3, <2>4, LeftKept DEF EarInv
<1> QED BY <1>5, <1>6, <1>7 DEF EarInv

\* The probe of u goes on, ends, or tells the gate.
LEMMA ProbesEar ==
  ASSUME HearTypes, HearInv, EarInv, NEW u \in Utterances,
         ProbeWakes(u) \/ ProbeHearsNothing(u) \/ ProbeHearsStop(u) \/ ProbePushes(u)
  PROVE  EarInv'
<1>1. Active(u)
  BY DEF ProbeWakes, ProbeHearsNothing, ProbeHearsStop, ProbePushes, Active
<1>2. u \in 1 .. Len(owner) /\ heard[u] = 0 /\ (probe[u] = "interrupted" => owner[u] \in fired)
  BY <1>1, ActiveFacts DEF HearInv, OfUtterance
<1>3. ASSUME ProbeWakes(u) \/ ProbeHearsNothing(u) PROVE EarInv'
  <2>1. PICK to \in {"stt", "over"} : probe' = [probe EXCEPT ![u] = to]
    BY <1>3 DEF ProbeWakes, ProbeHearsNothing
  <2>2. UNCHANGED << present, det, owner, start, task, buffer, fired, roster, condition,
                     started, stopped, suppressed, heard >>
    BY <1>3 DEF ProbeWakes, ProbeHearsNothing, history
  <2>3. ASSUME NEW q \in Speakers, Forgotten(q) PROVE Forgotten(q)'
    <3>1. task[q] # 0 => task[q] \in Utterances
      BY TaskIs
    <3>2. \A v \in Utterances : v # u => probe'[v] = probe[v]
      BY <2>1 DEF HearTypes
    <3>3. ~ Live(q)'
      BY <1>1, <2>2, <2>3, <3>1, <3>2 DEF Forgotten, Live, Active
    <3> QED BY <2>2, <2>3, <3>3 DEF Forgotten
  <2>4. buffer' \in [Speakers -> {"closed", "empty", "audio"}]
    BY <2>2 DEF EarInv, LeftInv
  <2>5. LeftInv'
    BY <2>2, <2>3, <2>4, LeftKept DEF EarInv
  <2> QED BY <2>2, <2>5, QuietEar
<1>4. ASSUME ProbeHearsStop(u) \/ ProbePushes(u) PROVE EarInv'
  <2>1. UNCHANGED << present, det, owner, start, task, roster, started, stopped, suppressed, condition >>
    BY <1>4 DEF ProbeHearsStop, ProbePushes
  <2>2. \A v \in Utterances : v # u => probe'[v] = probe[v]
    BY <1>4 DEF ProbeHearsStop, ProbePushes, HearTypes
  <2>3. UNCHANGED heard \/ Hear(u)
    BY <1>4 DEF ProbeHearsStop, ProbePushes
  <2>4. (\A v \in Utterances : heard'[v] \in {heard[v], 1}) /\ (Hear(u) => heard'[u] = 1)
    BY <1>2, <2>3 DEF Hear, HearTypes
  <2>5. buffer' \in {buffer, [buffer EXCEPT ![owner[u]] = "closed"]}
    BY <1>4 DEF ProbeHearsStop, ProbePushes, CloseBuffer
  <2>6. fired' = fired \/ (fired' = fired \union {owner[u]} /\ ("slow push" \notin condition => heard'[u] = 1))
    BY <1>4, <2>4 DEF ProbeHearsStop, ProbePushes
  <2> QED BY <1>1, <2>1, <2>2, <2>4, <2>5, <2>6, ProbeEar
<1> QED BY <1>3, <1>4

LEMMA EarKeeps ==
  ASSUME HearTypes, Punctual => HearInv /\ EarInv, [HearingNext]_hearingVars, Punctual'
  PROVE  EarInv'
<1>1. Punctual
  <2>1. condition' = condition /\ cutOff \subseteq cutOff'
    BY ZenonT(40) DEF HearingNext, hearingVars, Leave, Join, WindowCloses, HearChunk, SpeechStart, SpeechStartResumes,
           ProbeWakes, ProbeHearsNothing, ProbeHearsStop, ProbePushes, Transcribed, FinalizeResumes, JoinPasses,
           Evict, EvictResumes, GateHears, GateSeesRoster, history
  <2> QED BY <2>1 DEF Punctual
<1>2. HearInv /\ EarInv
  BY <1>1
<1>3. HearInv'
  BY HearKeeps
<1>4. ASSUME UNCHANGED << present, det, owner, probes, roster, condition, history >> PROVE EarInv'
  <2>1. LeftInv'
    BY <1>2, <1>4 DEF EarInv, LeftInv, Forgotten, Live, LeftFrame, probes
  <2> QED BY <1>2, <1>4, <2>1, QuietEar DEF probes, history
<1>5. CASE UNCHANGED hearingVars \/ GateHears \/ GateSeesRoster \/ \E p \in Speakers : WindowCloses(p)
  BY <1>4, <1>5 DEF hearingVars, GateHears, GateSeesRoster, WindowCloses
<1>6. CASE JoinPasses
  <2>1. /\ UNCHANGED << present, det, owner, probes, condition, history >>
        /\ roster # << >> /\ Head(roster).type = "joined" /\ roster' = Tail(roster)
    BY <1>6 DEF JoinPasses, PassOn
  <2>2. \A q \in Speakers : Forgotten(q) => Forgotten(q)'
    BY <2>1 DEF Forgotten, Live, probes
  <2>3. buffer' \in [Speakers -> {"closed", "empty", "audio"}]
    BY <1>2, <2>1 DEF EarInv, LeftInv, probes
  <2>4. PICK p : p = Head(roster).pid
    OBVIOUS
  <2>5. LeftInv'
    BY <1>2, <2>1, <2>2, <2>3, <2>4, PassEar DEF EarInv
  <2> QED BY <1>2, <2>1, <2>5, QuietEar DEF probes, history
<1>7. ASSUME NEW u \in Utterances, SpeechStartResumes(u) PROVE EarInv'
  BY <1>2, <1>7 DEF SpeechStartResumes, HearInv, OfUtterance
<1> QED
  BY <1>1, <1>2, <1>3, <1>5, <1>6, <1>7, SessionEar, ChunkEar, StartEar, ProbesEar, TranscribedEar, ResumeEar, EvictEar
  DEF HearingNext

\* All that is known of the listening half: without bursts of audio, the books of the gate
\* and of the detectors agree with what was told.
HeardSoFar == HearTypes /\ (Punctual => HearInv /\ EarInv)

\* The inductive invariant of VadSttProcessor (vad_stt.py:86-191, 332-367) holds throughout.
THEOREM HearingKeepsUp == HearingSpec => []HeardSoFar
<1>1. HearingInit => HeardSoFar
  BY HearStarts, EarStarts DEF HeardSoFar
<1>2. HeardSoFar /\ [HearingNext]_hearingVars => HeardSoFar'
  <2>1. ASSUME HeardSoFar, [HearingNext]_hearingVars, Punctual' PROVE HearInv' /\ EarInv'
    BY <2>1, HearKeeps, EarKeeps DEF HeardSoFar
  <2> QED BY <2>1, HearKeepsTypes DEF HeardSoFar
<1> QED BY <1>1, <1>2, PTL DEF HearingSpec

\* An utterance is suppressed only if the gate has been told of it: the probe's "stop"
\* of one utterance never swallows another one (vad_stt.py:169-184).
THEOREM SuppressedWereHeard == HearingSpec => []SuppressedWasHeard
<1>1. HeardSoFar => SuppressedWasHeard
  BY DEF HeardSoFar, SuppressedWasHeard, EarInv, SaidInv
<1> QED BY <1>1, HearingKeepsUp, PTL

\* Consumers see an utterance begin before they see it end, and a probe is at work only
\* while somebody speaks (vad_stt.py:90-93).
THEOREM BeginsBeforeItEnds == HearingSpec => []StartsBeforeItStops
<1>1. HeardSoFar => StartsBeforeItStops
  <2> SUFFICES ASSUME HearTypes, Punctual, HearInv, EarInv PROVE StartsBeforeItStops
    BY DEF HeardSoFar, StartsBeforeItStops
  <2>1. ASSUME NEW u \in stopped, start[u] # "none" PROVE u \in started
    <3>1. u \in 1 .. Len(owner) /\ det[owner[u]].u # u
      BY DEF EarInv, EndedInv
    <3>2. u \in Utterances
      BY <3>1, HearNumbers
    <3>3. start[u] # "ready" /\ start[u] # "waits"
      BY <3>1, <3>2 DEF HearInv, OfUtterance
    <3>4. start[u] = "done"
      BY <2>1, <3>2, <3>3 DEF HearTypes
    <3> QED BY <3>2, <3>4 DEF EarInv, EndedInv
  <2>2. ASSUME NEW p \in Speakers, Live(p) PROVE det[p].u = task[p]
    BY <2>2, LiveFacts
  <2> QED BY <2>1, <2>2 DEF StartsBeforeItStops
<1> QED BY <1>1, HearingKeepsUp, PTL

\* Once a participant's leave is handled, no detector at work, buffer, probe or flag of it
\* is left (vad_stt.py:340-348).
THEOREM LeaversAreForgotten == HearingSpec => []LeaversForgotten
<1>1. HeardSoFar => LeaversForgotten
  <2> SUFFICES ASSUME EarInv, roster = << >>, NEW p \in Speakers \ present PROVE Forgotten(p)
    BY DEF HeardSoFar, LeaversForgotten, Forgotten
  <2>1. LeftFrame(p) \notin ToSet(roster)
    BY DEF ToSet
  <2> QED BY <2>1 DEF EarInv, LeftInv
<1> QED BY <1>1, HearingKeepsUp, PTL

-----------------------------------------------------------------------------
(* What the gate was told, and by whom.  Here audio may come in bursts.    *)

\* Frames whose speaker is known.
OwnedFrames == {f \in GateFrame : f.type = "transcript" => f.u <= Len(owner)}

\* An utterance has an owner before anything is begun for it.
Begun ==
  /\ \A u \in Utterances : start[u] # "none" \/ probe[u] # "none" => u <= Len(owner)
  /\ \A p \in Speakers : det[p].u <= Len(owner)
  /\ audio.stage # "idle" => audio.u \in 1 .. Len(owner)

Windows == window \subseteq Speakers /\ DOMAIN last = Speakers /\ WindowFollowsPhrase

GateInv == HearTypes /\ Begun /\ gateIn \in Seq(OwnedFrames) /\ Windows

LEMMA GateStarts == HearingInit => GateInv
<1> SUFFICES ASSUME HearingInit PROVE GateInv
  OBVIOUS
<1>1. Begun /\ gateIn \in Seq(OwnedFrames)
  BY DEF HearingInit, Begun, Quiet
<1> QED BY <1>1, HearStarts DEF GateInv, Windows, WindowFollowsPhrase, HearingInit

LEMMA OwnedGrow ==
  ASSUME HearTypes, HearTypes', Len(owner) <= Len(owner')
  PROVE  OwnedFrames \subseteq OwnedFrames' /\ (gateIn \in Seq(OwnedFrames) => gateIn \in Seq(OwnedFrames'))
<1>1. OwnedFrames \subseteq OwnedFrames'
  <2> SUFFICES ASSUME NEW f \in OwnedFrames, f.type = "transcript" PROVE f.u <= Len(owner')
    BY DEF OwnedFrames
  <2>1. f \in GateFrame /\ f.u <= Len(owner)
    BY DEF OwnedFrames
  <2>2. f.u \in Utterances
    BY <2>1 DEF GateFrame
  <2> QED BY <2>1, <2>2, HearNumbers DEF HearTypes
<1> DEFINE S == OwnedFrames
           T == OwnedFrames'
<1> HIDE DEF S, T
<1>2. S \subseteq T => (gateIn \in Seq(S) => gateIn \in Seq(T))
  OBVIOUS
<1> QED BY <1>1, <1>2 DEF S, T

LEMMA TranscriptOwned ==
  ASSUME HearTypes, NEW u \in Utterances, u <= Len(owner), NEW text \in Texts
  PROVE  Transcript(u, text) \in OwnedFrames
  BY DEF Transcript, OwnedFrames, GateFrame

\* Steps that begin nothing and hand the gate at most what is owned.
LEMMA NothingBegun ==
  ASSUME GateInv, HearTypes', owner' = owner, UNCHANGED << window, last >>,
         \A u \in Utterances : /\ start'[u] # "none" => start[u] # "none"
                               /\ probe'[u] # "none" => start[u] # "none" \/ probe[u] # "none",
         \A p \in Speakers : det'[p].u = det[p].u \/ det'[p].u = 0,
         audio'.stage # "idle" => audio.stage # "idle" /\ audio'.u = audio.u,
         gateIn' \in Seq(OwnedFrames)
  PROVE  GateInv'
<1>1. Len(owner) \in Nat
  BY HearNumbers DEF GateInv
<1>2. Begun'
  <2>1. \A p \in Speakers : det'[p].u <= Len(owner)
    BY <1>1 DEF Begun, GateInv
  <2>2. ASSUME NEW u \in Utterances, start'[u] # "none" \/ probe'[u] # "none" PROVE u <= Len(owner)
    <3>1. start[u] # "none" \/ probe[u] # "none"
      BY <2>2
    <3> QED BY <3>1 DEF Begun, GateInv
  <2>3. audio'.stage # "idle" => audio'.u \in 1 .. Len(owner)
    BY DEF Begun, GateInv
  <2> QED BY <2>1, <2>2, <2>3 DEF Begun
<1>3. OwnedFrames' = OwnedFrames
  BY DEF OwnedFrames
<1>4. Windows'
  BY DEF Windows, WindowFollowsPhrase, GateInv
<1> QED BY <1>2, <1>3, <1>4 DEF GateInv

\* A chunk of audio names its utterance.
LEMMA ChunkBegins ==
  ASSUME GateInv, HearTypes', NEW p \in Speakers, NEW loud \in BOOLEAN, HearChunk(p, loud)
  PROVE  GateInv'
<1> DEFINE d == Fed(det[p], loud)
<1>1. Len(owner) \in Nat /\ det[p] \in Detector /\ det[p].u \in Nat /\ det[p].u <= Len(owner)
  <2>1. HearTypes /\ Begun
    BY DEF GateInv
  <2>2. Len(owner) \in Nat
    BY <2>1, HearNumbers
  <2>3. det[p] \in Detector
    BY <2>1 DEF HearTypes
  <2> QED BY <2>1, <2>2, <2>3 DEF Begun, Detector
<1>2. d.u = det[p].u \/ (d.u = Len(owner) + 1)
  BY <1>1 DEF Fed, Detector
<1>3. d.fired /\ ~ det[p].fired => d.u # 0
  BY <1>1 DEF Fed, Detector
<1>4. owner' = (IF d.u > Len(owner) THEN Append(owner, p) ELSE owner) /\ UNCHANGED << gateIn, window, last >>
      /\ start' = (IF d.fired /\ ~det[p].fired THEN [start EXCEPT ![d.u] = "ready"] ELSE start)
  BY DEF HearChunk, gate
<1>5. Len(owner') \in Nat /\ Len(owner) <= Len(owner') /\ d.u <= Len(owner') /\ d.u \in Nat
  <2>1. owner \in Seq(Speakers)
    BY DEF GateInv, HearTypes
  <2> HIDE DEF d
  <2>2. CASE d.u > Len(owner)
    BY <1>1, <1>2, <1>4, <2>1, <2>2
  <2>3. CASE ~ (d.u > Len(owner))
    BY <1>1, <1>2, <1>4, <2>3
  <2> QED BY <2>2, <2>3
<1>6. \A u \in Utterances : probe'[u] # "none" => probe[u] # "none"
  <2>1. probe' = probe \/ CancelProbe(p)
    BY DEF HearChunk
  <2> QED BY <2>1 DEF CancelProbe, Live, GateInv, HearTypes
<1>7. \A q \in Speakers : det'[q].u \in {det[q].u, d.u, 0}
  <2>1. det' = [det EXCEPT ![p] = d] \/ det' = [det EXCEPT ![p] = Quiet]
    BY DEF HearChunk
  <2>2. det \in [Speakers -> Detector] /\ Quiet.u = 0
    BY QuietIs DEF GateInv, HearTypes
  <2> HIDE DEF d
  <2>3. \A q \in Speakers : det'[q] \in {det[q], d, Quiet}
    BY <2>1, <2>2
  <2> QED BY <2>2, <2>3
<1>8. audio'.stage # "idle" => audio'.u = d.u /\ d.u # 0
  <2>1. audio.stage = "idle"
    BY DEF HearChunk
  <2>2. \/ audio' = audio
        \/ Complete(d) /\ (audio' = [u |-> d.u, stage |-> "cancel"] \/ Finalize(d.u))
    BY DEF HearChunk
  <2> HIDE DEF d
  <2> QED BY <2>1, <2>2 DEF Complete, Finalize
<1>9. \A u \in Utterances : start'[u] # "none" => start[u] # "none" \/ u = d.u
  <2> HIDE DEF d
  <2> QED BY <1>4 DEF GateInv, HearTypes
<1> HIDE DEF d
<1>10. \A u \in Utterances : u \in Nat
  BY HearNumbers DEF GateInv
<1>11. Begun'
  <2>1. ASSUME NEW u \in Utterances, start'[u] # "none" \/ probe'[u] # "none" PROVE u <= Len(owner')
    BY <1>1, <1>5, <1>6, <1>9, <1>10, <2>1 DEF GateInv, Begun
  <2>2. ASSUME NEW q \in Speakers PROVE det'[q].u <= Len(owner')
    <3>1. det[q].u \in Nat /\ det[q].u <= Len(owner)
      BY DEF GateInv, Begun, HearTypes, Detector
    <3> QED BY <1>1, <1>5, <1>7, <3>1
  <2>3. ASSUME audio'.stage # "idle" PROVE audio'.u \in 1 .. Len(owner')
    BY <1>5, <1>8, <2>3
  <2> QED BY <2>1, <2>2, <2>3 DEF Begun
<1>12. gateIn' \in Seq(OwnedFrames')
  BY <1>4, <1>5, OwnedGrow DEF GateInv
<1> QED BY <1>4, <1>11, <1>12 DEF GateInv, Windows, WindowFollowsPhrase

LEMMA CancelBegins ==
  ASSUME HearTypes, NEW p, CancelProbe(p)
  PROVE  \A u \in Utterances : probe'[u] # "none" => probe[u] # "none"
  BY DEF CancelProbe, Live, HearTypes

\* on_speech_start and the probe, up to what it tells the gate.
LEMMA ProbeBegins ==
  ASSUME GateInv, HearTypes', NEW u \in Utterances,
         \/ SpeechStart(u) \/ SpeechStartResumes(u) \/ ProbeWakes(u)
         \/ ProbeHearsNothing(u) \/ ProbeHearsStop(u) \/ ProbePushes(u)
  PROVE  GateInv'
<1>1. HearTypes /\ gateIn \in Seq(OwnedFrames) /\ << >> \in Seq(OwnedFrames)
  BY DEF GateInv
<1>2. owner' = owner /\ UNCHANGED << window, last, det, audio >>
  BY DEF SpeechStart, SpeechStartResumes, ProbeWakes, ProbeHearsNothing, ProbeHearsStop, ProbePushes, Interrupt, gate
<1>3. probe \in [Utterances -> {"none", "sleeps", "stt", "interrupted", "over"}]
      /\ (start[u] # "none" \/ probe[u] # "none")
  BY <1>1 DEF SpeechStart, SpeechStartResumes, ProbeWakes, ProbeHearsNothing, ProbeHearsStop, ProbePushes, HearTypes
<1>4. \A v \in Utterances : start'[v] # "none" => start[v] # "none"
  <2>1. \/ start' = start
        \/ start[u] # "none" /\ \E x : start' = [start EXCEPT ![u] = x]
    BY DEF SpeechStart, SpeechStartResumes, OpenProbe, ProbeWakes, ProbeHearsNothing, ProbeHearsStop, ProbePushes
  <2> QED BY <1>1, <2>1 DEF HearTypes
<1>5. \A v \in Utterances : probe'[v] # "none" => start[v] # "none" \/ probe[v] # "none"
  <2>1. CASE CancelProbe(owner[u])
    BY <1>1, <2>1, CancelBegins
  <2>2. CASE \E x : probe' = [probe EXCEPT ![u] = x]
    BY <1>3, <2>2
  <2> QED BY <2>1, <2>2
          DEF SpeechStart, SpeechStartResumes, OpenProbe, ProbeWakes, ProbeHearsNothing, ProbeHearsStop, ProbePushes
<1>6. Transcript(u, "stop") \in OwnedFrames
  <2>1. u <= Len(owner)
    BY <1>3 DEF GateInv, Begun
  <2>2. "stop" \in Texts
    BY DEF Texts
  <2> QED BY <1>1, <2>1, <2>2, TranscriptOwned
<1>7. gateIn' \in Seq(OwnedFrames)
  <2>1. gateIn' \in {gateIn, << >>, << Transcript(u, "stop") >>, Append(gateIn, Transcript(u, "stop"))}
    BY DEF SpeechStart, SpeechStartResumes, ProbeWakes, ProbeHearsNothing, ProbeHearsStop, ProbePushes,
           Interrupt, PushToGate, gate
  <2>2. ASSUME NEW S, NEW x \in S, NEW q \in Seq(S) PROVE {q, << >>, << x >>, Append(q, x)} \subseteq Seq(S)
    OBVIOUS
  <2> QED BY <1>1, <1>6, <2>1, <2>2
<1> QED BY <1>2, <1>4, <1>5, <1>7, NothingBegun

\* on_utterance and its transcript.
LEMMA UtteranceBegins ==
  ASSUME GateInv, HearTypes', FinalizeResumes \/ \E text \in Texts \union {"nothing"} : Transcribed(text)
  PROVE  GateInv'
<1>1. HearTypes /\ gateIn \in Seq(OwnedFrames)
  BY DEF GateInv
<1>2. CASE FinalizeResumes
  <2>1. UNCHANGED << owner, window, last, det, start, probe, gateIn >>
    BY <1>2 DEF FinalizeResumes, gate
  <2>2. audio'.stage # "idle" => audio.stage # "idle" /\ audio'.u = audio.u
    BY <1>2 DEF FinalizeResumes, Finalize
  <2> QED BY <1>1, <2>1, <2>2, NothingBegun
<1>3. ASSUME NEW text \in Texts \union {"nothing"}, Transcribed(text) PROVE GateInv'
  <2>1. audio.u \in Utterances /\ audio.u <= Len(owner)
    BY <1>1, <1>3, HearNumbers DEF GateInv, Begun, Transcribed
  <2>2. \/ gateIn' = gateIn
        \/ text \in Texts /\ gateIn' = Append(gateIn, Transcript(audio.u, text))
    BY <1>3 DEF Transcribed, PushToGate
  <2>3. gateIn' \in Seq(OwnedFrames)
    BY <1>1, <2>1, <2>2, TranscriptOwned
  <2> QED BY <1>3, <2>3, NothingBegun DEF Transcribed
<1> QED BY <1>2, <1>3

\* The session, and the joins and leaves that pass.
LEMMA RosterBegins ==
  ASSUME GateInv, HearTypes', (\E p \in Speakers : Leave(p) \/ Join(p)) \/ JoinPasses \/ Evict \/ EvictResumes
  PROVE  GateInv'
<1>1. HearTypes /\ gateIn \in Seq(OwnedFrames)
  BY DEF GateInv
<1>2. owner' = owner /\ UNCHANGED << window, last, start, audio >>
  BY DEF Leave, Join, JoinPasses, Evict, EvictResumes, PassOn, gate, probes, history
<1>3. \A u \in Utterances : probe'[u] # "none" => probe[u] # "none"
  BY <1>1, CancelBegins DEF Leave, Join, JoinPasses, Evict, EvictResumes, probes
<1>4. \A p \in Speakers : det'[p].u = det[p].u \/ det'[p].u = 0
  <2>1. det' = det \/ \E p : det' = [det EXCEPT ![p] = Quiet]
    BY DEF Leave, Join, JoinPasses, Evict, EvictResumes, Forget
  <2> QED BY <1>1, <2>1, QuietIs DEF HearTypes
<1>5. gateIn' \in Seq(OwnedFrames)
  <2>1. \/ gateIn' = gateIn
        \/ roster # << >> /\ gateIn' = Append(gateIn, Head(roster))
    BY <1>1 DEF Leave, Join, JoinPasses, Evict, EvictResumes, PassOn, PushToGate, gate, HearTypes
  <2>2. roster # << >> => Head(roster) \in OwnedFrames
    <3>1. roster \in Seq(Arrivals)
      BY <1>1 DEF HearTypes
    <3>2. roster # << >> => Head(roster) \in Arrivals
      BY <3>1
    <3> QED BY <3>2 DEF Arrivals, OwnedFrames, GateFrame
  <2> QED BY <1>1, <2>1, <2>2
<1> QED BY <1>2, <1>3, <1>4, <1>5, NothingBegun

\* VoiceGate.feed opens a window for the phrase alone, and what else the gate hears of a
\* participant closes it.
LEMMA GateBegins ==
  ASSUME GateInv, HearTypes', GateHears \/ GateSeesRoster \/ \E p \in Speakers : WindowCloses(p)
  PROVE  GateInv'
<1>1. HearTypes /\ gateIn \in Seq(OwnedFrames) /\ Windows
  BY DEF GateInv
<1>2. UNCHANGED << det, owner, start, probe, audio >>
  BY DEF GateHears, GateSeesRoster, WindowCloses, probes
<1>3. Begun' /\ OwnedFrames' = OwnedFrames
  BY <1>2 DEF GateInv, Begun, OwnedFrames
<1>4. gateIn # << >> => Head(gateIn) \in OwnedFrames /\ Tail(gateIn) \in Seq(OwnedFrames)
  BY <1>1
<1>5. gateIn' \in Seq(OwnedFrames)
  BY <1>1, <1>4 DEF GateHears, GateSeesRoster, WindowCloses
<1>6. Windows'
  <2>1. CASE GateHears
    <3> DEFINE f == Head(gateIn)
               p == owner[f.u]
               v == Verdict(p, f.text)
    <3>1. /\ last' = [last EXCEPT ![p] = v]
          /\ window' = IF v = "phrase" THEN window \union {p} ELSE window \ {p}
      BY <2>1 DEF GateHears, Decide
    <3>2. p \in Speakers
      <4>1. f \in GateFrame /\ f.type = "transcript" /\ f.u <= Len(owner)
        BY <1>4, <2>1 DEF GateHears, OwnedFrames
      <4>2. f.u \in Utterances
        BY <4>1 DEF GateFrame
      <4> QED BY <1>1, <4>1, <4>2, HearNumbers
    <3> HIDE DEF p, v
    <3> QED BY <1>1, <3>1, <3>2 DEF Windows, WindowFollowsPhrase
  <2>2. CASE GateSeesRoster
    <3> DEFINE f == Head(gateIn)
    <3>1. /\ last' = [last EXCEPT ![f.pid] = IF f.type = "left" THEN "left" ELSE @]
          /\ window' = IF f.type = "left" THEN window \ {f.pid} ELSE window
      BY <2>2 DEF GateSeesRoster
    <3> HIDE DEF f
    <3> QED BY <1>1, <3>1 DEF Windows, WindowFollowsPhrase
  <2>3. CASE \E p \in Speakers : WindowCloses(p)
    BY <1>1, <2>3 DEF Windows, WindowFollowsPhrase, WindowCloses
  <2> QED BY <2>1, <2>2, <2>3
<1> QED BY <1>3, <1>5, <1>6 DEF GateInv

LEMMA GateKeeps == GateInv /\ [HearingNext]_hearingVars => GateInv'
<1> SUFFICES ASSUME GateInv, [HearingNext]_hearingVars PROVE GateInv'
  OBVIOUS
<1>1. HearTypes'
  BY HearKeepsTypes DEF GateInv
<1>2. CASE UNCHANGED hearingVars
  BY <1>2, <1>1, NothingBegun DEF hearingVars, gate, probes, GateInv
<1>3. CASE HearingNext
  BY <1>1, <1>3, ChunkBegins, ProbeBegins, UtteranceBegins, RosterBegins, GateBegins DEF HearingNext
<1> QED BY <1>2, <1>3

\* A participant's window is open only if the magic phrase alone was the last thing the gate
\* heard of it, so that ambient speech is a query at most once per phrase; also when
\* audio comes in bursts (xr_ai_voicegate/gate.py:174-246).
THEOREM WindowsFollowPhrases == HearingSpec => []WindowFollowsPhrase
<1>1. GateInv => WindowFollowsPhrase
  BY DEF GateInv, Windows
<1> QED BY <1>1, GateStarts, GateKeeps, PTL DEF HearingSpec
=============================================================================
