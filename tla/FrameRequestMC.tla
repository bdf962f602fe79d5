--------------------------- MODULE FrameRequestMC ---------------------------
(* Frames on demand, on small instances: the requests of the processors at  *)
(* the hub, and the vision module that waits for a fresh frame and asks a   *)
(* model about it.  A behaviour is about one of them, its part, and the     *)
(* other stays as it begins.                                                *)
EXTENDS FrameRequest, Vision

CONSTANTS agent, video, ask1, ask2, ask3

VARIABLE part

allVars == <<part, vars, visionVars>>

\* Two callers in one process, a third in another process.
AgentAndVideo == [c \in Calls |-> IF c = ask3 THEN video ELSE agent]

MCInit ==
  /\ part \in {"requests", "vision"}
  /\ Init /\ VisionInit
  /\ part # "requests" => faults = {}
  /\ part # "vision" => kind = "ask"

\* Bound: who asks for whole answers does not come back.
OnceIfWhole == kind = "perceive" => \A p \in Participants : session'[p] <= 1

\* A step of a part.
Part(p, A) == part = p /\ A /\ UNCHANGED part
RequestsPart == Part("requests", Next) /\ UNCHANGED visionVars
VisionPart   == Part("vision", VisionNext) /\ UNCHANGED vars /\ OnceIfWhole

MCNext == RequestsPart \/ VisionPart

\* The fairness of each part's own specification, for the part that runs.
MCSpec ==
  /\ MCInit /\ [][MCNext]_allVars
  /\ \A p \in Processors : WF_vars(part = "requests" /\ HandleRequest(p))
  /\ \A p \in Processors : WF_vars(part = "requests" /\ (DispatchSignal(p) \/ DispatchData(p)))
  /\ \A c \in Calls : /\ WF_vars(part = "requests" /\ Sent(c))
                      /\ WF_vars(part = "requests" /\ Return(c))
                      /\ WF_vars(part = "requests" /\ TimeOut(c))
  /\ \A a \in Asks : WF_visionVars(part = "vision" /\ a \in DOMAIN questions /\ TaskStep(a))
  /\ \A a \in Asks :
       SF_visionVars(part = "vision" /\ a \in DOMAIN questions /\ (StreamEnds(a) \/ StreamFails(a)))
  /\ SF_visionVars(part = "vision" /\ Tick)
=============================================================================
