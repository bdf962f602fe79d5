-------------------------------- MODULE VoiceMC --------------------------------
(* The voice pipeline on small instances: its speaking half and its listening *)
(* half.  A behaviour is about one of them, its part, and the other stays as  *)
(* it begins.                                                                 *)
EXTENDS VoiceTurn, Listening

CONSTANTS alice, bob

VARIABLE part

allVars == <<part, vars, hearingVars>>

MCConditions == {{"phrases", "leave"}, {"slow push"}, {"burst"}}

MCInit ==
  /\ part \in {"speaking", "listening"}
  /\ Init /\ HearingInit
  /\ part # "speaking" => setting = {}
  /\ part # "listening" => condition = {"burst"}

\* Bounds: bob comes only when nobody drains or leaves, and is answered in one chunk.
AloneIfSet == setting # {} => joined' \subseteq {alice}
ShortForBob == \A t \in DOMAIN asker' : asker'[t] = bob => produced'[t] <= 1

\* A step of a part.
Of(p, A) == part = p /\ A /\ UNCHANGED part
SpeakingPart  == Of("speaking", Next) /\ UNCHANGED hearingVars /\ AloneIfSet /\ ShortForBob
ListeningPart == Of("listening", HearingNext) /\ UNCHANGED vars

MCNext == SpeakingPart \/ ListeningPart

\* The fairness of each part's own specification, for the part that runs.
MCSpec ==
  /\ MCInit /\ [][MCNext]_allVars
  /\ WF_vars(part = "speaking" /\ Speak)
  /\ WF_vars(part = "speaking" /\ Write)
  /\ WF_vars(part = "speaking" /\ OutputStop)
  /\ WF_vars(part = "speaking" /\ (HandleText \/ HandleEnd \/ HandleStop))
  /\ WF_vars(/\ part = "speaking"
             /\ \E i \in DOMAIN sentences, wav \in {"ok", "failed"} : Synthesized(i, wav))
  /\ WF_hearingVars(part = "listening" /\ GateHears)
  /\ WF_hearingVars(part = "listening" /\ GateSeesRoster)
  /\ \A u \in Utterances : WF_hearingVars(part = "listening" /\ ProbePushes(u))
================================================================================
