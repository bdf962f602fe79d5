----------------------------- MODULE RenderDemoMC -----------------------------
(* The render demo on small instances: the launch of XR for a client and the   *)
(* turns of the agent over the scene of render-mcp, the turns of two clients   *)
(* over a scene that LOVR shows, and what a turn shows and says.  A behaviour  *)
(* is about one of them, its part, and the others stay as they begin.          *)
EXTENDS SceneAgent, TurnFeedback

VARIABLE part

allVars == <<part, vars, feedbackVars>>

\* An object was added to the scene; LOVR runs and shows it, or was never launched.
FirstBox == [id |-> <<CHOOSE t \in Types : TRUE, 0>>, val |-> CHOOSE v \in Vals : TRUE]
OneObject(lovrNow) ==
  /\ objects = <<FirstBox>> /\ counters = [t \in Types |-> IF t = FirstBox.id[1] THEN 1 ELSE 0]
  /\ lovr = lovrNow
  /\ \/ lovr = "up" /\ started = TRUE /\ envFile = TRUE /\ launches = 1 /\ shown = {FirstBox}
     \/ lovr = "none" /\ started = FALSE /\ envFile \in BOOLEAN /\ launches = 0 /\ shown = {}
  /\ failed = FALSE /\ starts = 0 /\ todo = <<>> /\ parked = {} /\ resyncing = FALSE
  /\ wire = <<>> /\ missed = FALSE

MCInit ==
  /\ part \in {"launch", "turns", "feedback"}
  /\ FeedbackInit /\ AgentInit
  /\ \/ part = "turns" /\ OneObject("up")
     \/ part = "launch" /\ OneObject("none")
     \/ part = "feedback" /\ SceneInit /\ ~envFile

\* Bounds: what the turns next to a launch and those over a running scene call, and
\* how often.
Asked(calls) == \A p \in Participants : call'[p] \in {None} \union calls
Once         == \A p \in Participants : step'[p] <= 1
LaunchCalls  == {c \in Calls : \/ c.tool = "other"
                               \/ c.tool = "add" /\ c.type # FirstBox.id[1] /\ c.val = FirstBox.val
                               \/ c.tool = "update" /\ c.id = FirstBox.id
                                  /\ c.val = CHOOSE v \in Vals : v # FirstBox.val}
TurnCalls    == {c \in Calls : /\ c.tool \notin {"other", "add"} /\ c.id = FirstBox.id
                               /\ c.tool = "retype" => c.val = FirstBox.val}

\* A step of a part.
Of(p, A) == part = p /\ A /\ UNCHANGED part
LaunchPart   == Of("launch", Next) /\ UNCHANGED feedbackVars
                /\ asks' <= 1 /\ Once /\ Asked(LaunchCalls)
TurnsPart    == Of("turns", Next) /\ UNCHANGED <<sessions, feedbackVars>>
                /\ (asks' > 1 => Once) /\ Asked(TurnCalls)
FeedbackPart == Of("feedback", FeedbackNext) /\ UNCHANGED vars

MCNext == LaunchPart \/ TurnsPart \/ FeedbackPart

\* The fairness of each part's own specification, for the part that runs.
MCSpec ==
  /\ MCInit /\ [][MCNext]_allVars
  /\ \A p \in Participants : /\ WF_vars(part = "launch" /\ SessionStep(p))
                             /\ WF_vars(part = "launch" /\ Speak(p))
  /\ \A t \in Turns : WF_feedbackVars(part = "feedback" /\ TurnRuns(t))
===============================================================================
