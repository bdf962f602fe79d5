------------------------------- MODULE HubMediaMC -------------------------------
(* What the hub does with media beside the frame path, on small instances: the *)
(* return audio of its connector, and its video recorder with the server that  *)
(* reads the recordings.  A behaviour is about one of them, its part, and the  *)
(* other stays as it begins.                                                   *)
EXTENDS ReturnAudio, Recording, TLC

CONSTANTS alice, bob

VARIABLE part

Symmetry == Permutations(Participants)

allVars == <<part, vars, recorderVars>>

\* Only the camera of bob changes its resolution.
OneChanges == [p \in Pids |-> IF p = "bob" THEN {"small", "large"} ELSE {"small"}]
OneWindow == {<<1, 2>>}

MCInit ==
  /\ part \in {"return audio", "recorder"}
  /\ Init /\ RecorderInit
  /\ part # "return audio" => faults = {}
  /\ part # "recorder" => dirs = <<>>

\* A step of a part.
Of(p, A) == part = p /\ A /\ UNCHANGED part
ReturnAudioPart == Of("return audio", Next) /\ UNCHANGED recorderVars
RecorderPart    == Of("recorder", RecorderNext) /\ UNCHANGED vars

MCNext == ReturnAudioPart \/ RecorderPart

MCSpec == MCInit /\ [][MCNext]_allVars
=================================================================================
