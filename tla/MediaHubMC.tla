----------------------------- MODULE MediaHubMC -----------------------------
(* Small deployments of MediaHub for TLC.                                  *)
EXTENDS MediaHub

CONSTANTS alice, bob, cam1, cam2, e1, e2, c1, c2

\* One connector, as xr_media_hub/__main__.py runs it.
OneId    == [e \in Endpoints |-> c1]
OneHome  == [p \in Participants |-> {e1}]
\* Two connectors, or two incarnations of one; participants may move.
TwoIds   == [e \in Endpoints |-> IF e = e1 THEN c1 ELSE c2]
AnyHome  == [p \in Participants |-> Endpoints]

\* A camera each, or two cameras (or one, republished) of one participant.
OwnCams  == [t \in Tracks |-> IF t = cam1 THEN alice ELSE bob]
AliceCams == [t \in Tracks |-> alice]
=============================================================================
