---------------------------- MODULE TurnFeedback ----------------------------
(***************************************************************************)
(* What a turn of xr-render-demo says and shows while its agentic loop     *)
(* runs: a quick acknowledgement, the progress of its tools, the ticker    *)
(* that reports every few seconds that it is still working, the answer.    *)
(* A turn is a task of the brain and its ticker a task of the turn; a new  *)
(* query, an interruption or a leave cancels the turn where it waits.      *)
(*                                                                         *)
(* The loop itself is SceneAgent's: here it ends, well or badly, some time.*)
(***************************************************************************)
EXTENDS Integers, Sequences

CONSTANTS
  MaxTurns,  \* bound: queries of the participant
  MaxShown   \* bound: lines of progress in a turn

ASSUME FeedbackAssumption == MaxTurns \in Nat /\ MaxShown \in Nat

Turns == 1 .. MaxTurns

VARIABLES
  at,        \* at[t]: what the turn waits for
  outcome,   \* outcome[t]: how its loop ended
  ticker,    \* ticker[t]: what the still-working task waits for
  cancelled, \* cancelled[t]: a cancellation is on its way to the task
  silenced,  \* history: cancel() was called on the turn
  swallowed, \* history: a cancellation was taken for the ticker's
  output     \* output: the lines on the panel and for TTS, in their order

feedbackVars == <<at, outcome, ticker, cancelled, silenced, swallowed, output>>

Waits   == {"none", "ack", "showAck", "speakAck", "loop", "flush", "ticker", "show", "speak", "over"}
Kinds   == {"ack", "progress", "answer"}
Panel   == [turn : Turns, kind : Kinds, to : {"panel"}]
Speech  == [turn : Turns, kind : {"ack", "answer"}, to : {"speech"}]
Line(t, kind, to) == [turn |-> t, kind |-> kind, to |-> to]

FeedbackTypeOK ==
  /\ at \in [Turns -> Waits] /\ outcome \in [Turns -> {"none", "done", "error", "interrupted"}]
  /\ ticker \in [Turns -> {"off", "sleep", "ask", "send", "cancelled"}]
  /\ {cancelled, silenced, swallowed} \subseteq [Turns -> BOOLEAN]
  /\ output \in Seq(Panel \union Speech)

FeedbackInit ==
  /\ at = [t \in Turns |-> "none"] /\ outcome = [t \in Turns |-> "none"]
  /\ ticker = [t \in Turns |-> "off"]
  /\ cancelled = [t \in Turns |-> FALSE] /\ silenced = [t \in Turns |-> FALSE]
  /\ swallowed = [t \in Turns |-> FALSE] /\ output = <<>>

Go(t, to)   == at' = [at EXCEPT ![t] = to]
InFlight    == {t \in Turns : at[t] \notin {"none", "over"}}
Current     == {t \in InFlight : \A u \in InFlight : u <= t}
Shown(t)    == SelectSeq(output, LAMBDA l : l.turn = t /\ l.kind = "progress")

\* _cancel_pid: the task in flight is cancelled, which it learns when it resumes.
CancelCurrent ==
  /\ cancelled' = [t \in Turns |-> cancelled[t] \/ (t \in Current /\ ~silenced[t])]
  /\ silenced'  = [t \in Turns |-> silenced[t] \/ t \in Current]

\* _spawn_query: a new turn takes the place of the one in flight.
Query(t) ==
  /\ at[t] = "none" /\ \A u \in 1 .. t - 1 : at[u] # "none"
  /\ CancelCurrent /\ Go(t, "ack")
  /\ UNCHANGED <<outcome, ticker, swallowed, output>>

\* An interruption or the leave of the participant.
Interruption ==
  /\ \E t \in Current : ~silenced[t]
  /\ CancelCurrent
  /\ UNCHANGED <<at, outcome, ticker, swallowed, output>>

-----------------------------------------------------------------------------
(* A turn that is not cancelled where it waits.                            *)

Runs(t) == ~cancelled[t]
Keep    == UNCHANGED <<cancelled, silenced, swallowed>>

\* The loop starts, and with a turn that needs thinking its ticker.
StartLoop(t) ==
  /\ Go(t, "loop")
  /\ \E first \in {"off", "sleep"} : ticker' = [ticker EXCEPT ![t] = first]

\* _quick_ack: an acknowledgement and whether to think, or nothing within its time.
QuickAck(t) ==
  /\ at[t] = "ack" /\ Runs(t)
  /\ (Go(t, "showAck") /\ UNCHANGED ticker) \/ StartLoop(t)
  /\ UNCHANGED <<outcome, output>> /\ Keep

ShowAck(t) ==
  /\ at[t] = "showAck" /\ Runs(t)
  /\ output' = Append(output, Line(t, "ack", "panel")) /\ Go(t, "speakAck")
  /\ UNCHANGED <<outcome, ticker>> /\ Keep

SpeakAck(t) ==
  /\ at[t] = "speakAck" /\ Runs(t)
  /\ output' = Append(output, Line(t, "ack", "speech")) /\ StartLoop(t)
  /\ UNCHANGED outcome /\ Keep

\* _agentic_loop: a tool call shows its progress on the panel.
ToolProgress(t) ==
  /\ at[t] = "loop" /\ Runs(t) /\ Len(Shown(t)) < MaxShown
  /\ output' = Append(output, Line(t, "progress", "panel"))
  /\ UNCHANGED <<at, outcome, ticker>> /\ Keep

\* mutant: the ticker is awaited and not cancelled
LoopEndsUncancelled(t) ==
  /\ at[t] = "loop" /\ Runs(t)
  /\ \E how \in {"done", "error"} : outcome' = [outcome EXCEPT ![t] = how]
  /\ Go(t, IF ticker[t] = "off" THEN "show" ELSE "ticker")
  /\ UNCHANGED <<ticker, output>> /\ Keep

\* The loop returns its answer or raises: the ticker is cancelled and awaited.
LoopEnds(t) ==
  /\ at[t] = "loop" /\ Runs(t)
  /\ \E how \in {"done", "error"} : outcome' = [outcome EXCEPT ![t] = how]
  /\ IF ticker[t] = "off"
       THEN Go(t, "show") /\ UNCHANGED ticker
       ELSE Go(t, "ticker") /\ ticker' = [ticker EXCEPT ![t] = "cancelled"]
  /\ UNCHANGED output /\ Keep

\* The ticker has ended: what the wait raises is taken for the ticker's
\* cancellation, be it that or the turn's own.
TickerEnds(t) ==
  /\ at[t] = "ticker" /\ ticker[t] = "cancelled"
  /\ ticker' = [ticker EXCEPT ![t] = "off"]
  /\ Go(t, IF outcome[t] = "interrupted" THEN "over" ELSE "show")
  /\ cancelled' = [cancelled EXCEPT ![t] = FALSE]
  /\ swallowed' = [swallowed EXCEPT ![t] = @ \/ cancelled[t]]
  /\ UNCHANGED <<outcome, silenced, output>>

ShowAnswer(t) ==
  /\ at[t] = "show" /\ Runs(t)
  /\ output' = Append(output, Line(t, "answer", "panel")) /\ Go(t, "speak")
  /\ UNCHANGED <<outcome, ticker>> /\ Keep

SpeakAnswer(t) ==
  /\ at[t] = "speak" /\ Runs(t)
  /\ output' = Append(output, Line(t, "answer", "speech")) /\ Go(t, "over")
  /\ UNCHANGED <<outcome, ticker>> /\ Keep

-----------------------------------------------------------------------------
(* A turn that is cancelled where it waits.                                *)

\* Outside the loop the turn ends there.
Raise(t) ==
  /\ cancelled[t] /\ at[t] \in {"ack", "showAck", "speakAck", "show", "speak"}
  /\ Go(t, "over") /\ cancelled' = [cancelled EXCEPT ![t] = FALSE]
  /\ UNCHANGED <<outcome, ticker, silenced, swallowed, output>>

\* mutant: a cancelled loop is one that failed
LoopFails(t) ==
  /\ cancelled[t] /\ at[t] = "loop"
  /\ outcome' = [outcome EXCEPT ![t] = "error"] /\ Go(t, "show")
  /\ cancelled' = [cancelled EXCEPT ![t] = FALSE] /\ ticker' = [ticker EXCEPT ![t] = "off"]
  /\ UNCHANGED <<silenced, swallowed, output>>

\* In the loop it first flushes the participant's audio, the ticker still running.
LoopCancelled(t) ==
  /\ cancelled[t] /\ at[t] = "loop"
  /\ outcome' = [outcome EXCEPT ![t] = "interrupted"] /\ Go(t, "flush")
  /\ cancelled' = [cancelled EXCEPT ![t] = FALSE]
  /\ UNCHANGED <<ticker, silenced, swallowed, output>>

Flushed(t) ==
  /\ at[t] = "flush"
  /\ IF ticker[t] = "off"
       THEN Go(t, "over") /\ UNCHANGED ticker
       ELSE Go(t, "ticker") /\ ticker' = [ticker EXCEPT ![t] = "cancelled"]
  /\ UNCHANGED <<outcome, output>> /\ Keep

-----------------------------------------------------------------------------
(* The ticker.                                                             *)

\* _still_working_loop: it sleeps, asks for a sentence, which it may not get in
\* time, shows it and sleeps again.
Tick(t) ==
  /\ \/ ticker[t] = "sleep" /\ ticker' = [ticker EXCEPT ![t] = "ask"] /\ UNCHANGED output
     \/ /\ ticker[t] = "ask" /\ UNCHANGED output
        /\ \E next \in {"send", "sleep"} : ticker' = [ticker EXCEPT ![t] = next]
     \/ /\ ticker[t] = "send" /\ Len(Shown(t)) < MaxShown
        /\ output' = Append(output, Line(t, "progress", "panel"))
        /\ ticker' = [ticker EXCEPT ![t] = "sleep"]
  /\ UNCHANGED <<at, outcome>> /\ Keep

TurnRuns(t) ==
  \/ QuickAck(t) \/ ShowAck(t) \/ SpeakAck(t) \/ LoopEnds(t) \/ TickerEnds(t) \/ ShowAnswer(t) \/ SpeakAnswer(t)
  \/ Raise(t) \/ LoopCancelled(t) \/ Flushed(t)

FeedbackNext ==
  \/ Interruption
  \/ \E t \in Turns : Query(t) \/ TurnRuns(t) \/ ToolProgress(t) \/ Tick(t)

\* The model answers or the client's time is up, and a task that can run does.
FeedbackSpec == FeedbackInit /\ [][FeedbackNext]_feedbackVars /\ \A t \in Turns : WF_feedbackVars(TurnRuns(t))

-----------------------------------------------------------------------------
(* Properties.                                                             *)

Place(kind) == CASE kind = "ack" -> 1 [] kind = "progress" -> 2 [] kind = "answer" -> 3

\* Of one turn, whichever of its tasks writes, the acknowledgement comes before
\* the progress and the progress before the answer.
TurnInOrder ==
  \A i, j \in 1 .. Len(output) :
    i < j /\ output[i].turn = output[j].turn => Place(output[i].kind) <= Place(output[j].kind)

\* A turn that was cancelled says no more, unless the cancellation met it while it
\* waited for its ticker to end.
SilencedUnlessSwallowed ==
  [][\A t \in Turns : silenced[t] /\ output' # output /\ output'[Len(output')].turn = t =>
       \/ swallowed[t]
       \/ output'[Len(output')] = Line(t, "progress", "panel")]_feedbackVars

\* A query that nothing cancels is answered aloud.
AnsweredAloud ==
  \A t \in Turns : (at[t] # "none") ~>
    (silenced[t] \/ \E i \in 1 .. Len(output) : output[i] = Line(t, "answer", "speech"))

\* What the code does not keep: a turn that was cancelled gives no answer.
CancelledIsSilent ==
  [][\A t \in Turns : silenced[t] =>
       output' = output \/ output'[Len(output')] # Line(t, "answer", "speech")]_feedbackVars
=============================================================================
