-------------------------------- MODULE ToolsMC --------------------------------
(* What the agents' tools rest on, on small instances: the spatial tools of    *)
(* the OpenXR server, the transcript store, and the harness that scores a      *)
(* model on mirrors of the tools.  A behaviour is about one of them, its part, *)
(* and the others stay as they begin.                                          *)
EXTENDS Spatial, Transcripts, EvalHarness, TLC

CONSTANTS r1, r2

VARIABLE part

Symmetry == Permutations(Requests)

allVars == << part, spatialVars, storeVars, evalVars >>

\* Heads facing -z, -x and between -z and +x, looking level, up, straight up and
\* down, upright, tilted and upside down.
HeadTurns  == {<< 0, 1 >>, << 1, 1 >>, << -1, 2 >>}
HeadNods   == {<< 0, 1 >>, << 1, 2 >>, << 1, 1 >>, << -1, 1 >>}
HeadTilts  == {<< 0, 1 >>, << 1, 0 >>}
TwoPoints  == {<< 0, 1600, 0 >>, << 600, 1600, -800 >>}
Metres     == {1000, 500, -500}
Steps      == {<< 500, 0, 0 >>, << 0, -500, 1000 >>, << -500, 500, -500 >>}
Schedule   == << 1, 2, 4 >>

\* Four names: two of one file name, one that is the other's second file name,
\* and one with white space after it.
Names == {"a b", "a_b", "a_b_2", "a_b "}
FileNames == [s \in Names |-> CASE s \in {"a b", "a_b"} -> "a_b"
                                [] s = "a_b_2" -> "a_b_2"
                                [] s = "a_b " -> "a_b_"]
Stripped == [s \in Names |-> IF s = "a_b " THEN "a_b" ELSE s]
StemTable ==
  [f \in {"a_b", "a_b_2", "a_b_"} |->
    CASE f = "a_b"   -> << "a_b", "a_b_2", "a_b_3", "a_b_4", "a_b_5" >>
      [] f = "a_b_2" -> << "a_b_2", "a_b_2_2", "a_b_2_3", "a_b_2_4" >>
      [] f = "a_b_"  -> << "a_b_", "a_b__2", "a_b__3" >>]
Paths == << "a_b", "a_b_", "a_b_2", "a_b_2_2", "a_b_2_3", "a_b_2_4", "a_b_3", "a_b_4",
            "a_b_5", "a_b__2", "a_b__3" >>

\* Three cases: a move with history, two adds whose expectations overlap, and
\* "any path is fine" with a predicate; replies of up to two calls,
\* of which the first may be malformed.
Ball == << "sphere", 0 >>
Cube == << "box", 0 >>

C(name, args) == [name |-> name, form |-> "object", args |-> args]
NoArgs        == [k \in {} |-> 0]

AddBall(x) == C("add_primitive", [prim_type |-> "sphere", x |-> x, y |-> x])
MoveX      == C("update_primitive", [obj_id |-> Cube, x |-> 1])
MoveY      == C("update_primitive", [obj_id |-> Cube, y |-> 1])
Ahead      == C("position_ahead", NoArgs)
Odd        == {[name |-> "update_primitive", form |-> f, args |-> NoArgs] : f \in {"null", "garbled"}}

MCCalls   == {AddBall(0), AddBall(1), MoveX, MoveY, Ahead} \cup Odd
MCReplies == {<< >>} \cup {<< a >> : a \in MCCalls} \cup {<< a, b >> : a \in MCCalls, b \in MCCalls \ Odd}

Table == (Cube :> [prim_type |-> "box", x |-> 0, y |-> 1])
         @@ (Ball :> [prim_type |-> "sphere", x |-> 0, y |-> 0])

MCCases ==
  << [scene |-> Table, history |-> << "earlier" >>, extra |-> FALSE, predicate |-> "none",
      result |-> << [tool |-> "update_primitive", args |-> [obj_id |-> {Cube}, x |-> {1}, y |-> {1}]] >>,
      vocab |-> TRUE, quoted |-> FALSE],
     [scene |-> << >>, history |-> << >>, extra |-> TRUE, predicate |-> "none",
      result |-> << [tool |-> "add_primitive", args |-> [x |-> {0, 1}]],
                    [tool |-> "add_primitive", args |-> [x |-> {0}]] >>,
      vocab |-> FALSE, quoted |-> TRUE],
     [scene |-> Table, history |-> << >>, extra |-> TRUE, predicate |-> "stacked",
      result |-> << >>, vocab |-> TRUE, quoted |-> FALSE] >>

MCPrompts == UNION {[1 .. n -> LineKinds] : n \in 0 .. 3}

MCInit ==
  /\ part \in {"spatial", "transcripts", "eval"}
  /\ SpatialInit /\ StoreInit /\ EvalInit
  /\ part # "spatial" => runtime = "none"
  /\ part # "transcripts" => records = [s \in Stems |-> Absent0]
  /\ part # "eval" => strict = FALSE /\ prompt = << >> /\ selected = {1}

\* A step of a part.
Of(p, A) == part = p /\ A /\ UNCHANGED part
SpatialPart == Of("spatial", SpatialNext) /\ UNCHANGED << storeVars, evalVars >>
StorePart   == Of("transcripts", StoreNext) /\ UNCHANGED << spatialVars, evalVars >>
EvalPart    == Of("eval", EvalNext) /\ UNCHANGED << spatialVars, storeVars >>

MCNext == SpatialPart \/ StorePart \/ EvalPart

MCSpec == MCInit /\ [][MCNext]_allVars
================================================================================
