---------------------------- MODULE EvalHarness ----------------------------
(***************************************************************************)
(* The evaluation harness of the render demo's agent prompt                *)
(* (agent-samples/xr-render-demo/eval/eval.py): it audits the prompt       *)
(* against its cases, runs every case against the language model with the  *)
(* tools faked, and scores the calls the model made.  The spatial tools it *)
(* fakes are in Spatial.                                                   *)
(*                                                                         *)
(* The model and the HTTP service are external: any reply, any failure.    *)
(***************************************************************************)
EXTENDS Integers, Sequences, FiniteSets, Functions

CONSTANTS CaseList,      \* CASES: [scene, history, result, extra, predicate, vocab, quoted]
          ModelReplies,  \* what the model may answer: sequences of tool calls
          Prompts,       \* system prompts: sequences of kinds of line
          MaxSteps,      \* _MAX_STEPS
          Attempts       \* posts of one step: 3 in the code

ToolCalls == UNION {Range(s) : s \in ModelReplies}

(***************************************************************************)
(* The audit of the prompt: _check_prompt_eval_overlap                     *)
(*                                                                         *)
(* A line is a fence, blank, prose, the marker of a worked example, a line *)
(* with a colour or shape of the cases' vocabulary, or a line that quotes  *)
(* a case's utterance or coordinates.                                      *)
(***************************************************************************)
LineKinds == {"fence", "blank", "prose", "marker", "word", "quote"}

ASSUME EvalAssumption ==
  /\ MaxSteps \in Nat \ {0} /\ Attempts \in Nat \ {0}
  /\ ModelReplies \subseteq Seq(ToolCalls)
  /\ Prompts \subseteq Seq(LineKinds)
  /\ Len(CaseList) \in Nat
  /\ \A c \in 1 .. Len(CaseList) : CaseList[c].result \in Seq(Range(CaseList[c].result))

\* _extract_example_blocks, line by line.  The inner loop of a marked section runs
\* to the first blank line, whatever it meets.
ScanStart == [fence |-> FALSE, section |-> FALSE, in |-> {}]
ScanLine(s, k, n) ==
  CASE s.section /\ k = "blank" -> [s EXCEPT !.section = FALSE]
    [] s.section /\ k # "blank" -> [s EXCEPT !.in = @ \cup {n}]
    [] ~ s.section /\ k = "fence" -> [s EXCEPT !.fence = ~ @]
    [] ~ s.section /\ k # "fence" /\ s.fence -> [s EXCEPT !.in = @ \cup {n}]
    [] ~ s.section /\ k = "marker" /\ ~ s.fence ->
         [s EXCEPT !.section = TRUE, !.in = @ \cup {n}]
    [] OTHER -> s

\* The numbers of the lines in some block.
Blocks(lines) ==
  LET scan[n \in 0 .. Len(lines)] ==
        IF n = 0 THEN ScanStart ELSE ScanLine(scan[n - 1], lines[n], n)
  IN  scan[Len(lines)].in

Overlapping(lines, cases) ==
  {c \in cases :
     \/ CaseList[c].quoted /\ \E n \in 1 .. Len(lines) : lines[n] = "quote"
     \/ CaseList[c].vocab /\ \E n \in Blocks(lines) : lines[n] = "word"}

(***************************************************************************)
(* Scoring: a call is [name, form, args], form telling arguments that are  *)
(* an object from ones that are null and ones that are not JSON.           *)
(***************************************************************************)
Mutating == {"add_primitive", "update_primitive", "remove_primitive"}
Graded(ok) == IF ok THEN "passed" ELSE "failed"   \* or "raised"

\* _resolve_arg: an argument an update leaves out is the object's in the fixture
Given(call, k, scene) ==
  IF k \in DOMAIN call.args THEN {call.args[k]}
  ELSE IF /\ call.name = "update_primitive"
          /\ "obj_id" \in DOMAIN call.args /\ call.args.obj_id \in DOMAIN scene
          /\ k \in DOMAIN scene[call.args.obj_id]
       THEN {scene[call.args.obj_id][k]}
       ELSE {}

\* _match_call: the expectation names a tool and the values its arguments may have
Matches(call, exp, scene) ==
  /\ call.name = exp.tool /\ call.form = "object"
  /\ \A k \in DOMAIN exp.args : Given(call, k, scene) \cap exp.args[k] # {}

\* It raises on arguments that are null, or not JSON, of the tool it looks for.
Chokes(call, exp) == call.name = exp.tool /\ call.form # "object"

\* The positions of the mutating calls among those of a rollout.
Muts(tcs) == {i \in 1 .. Len(tcs) : tcs[i].name \in Mutating}

\* _became: the facets are seen in the adds and updates, together or apart
Became(facets, tcs) ==
  LET sets == {tcs[i] : i \in {j \in Muts(tcs) : tcs[j].name # "remove_primitive"}} IN
  IF \E c \in sets : c.form # "object" THEN "raised"
  ELSE Graded(\A k \in DOMAIN facets :
                \E c \in sets : k \in DOMAIN c.args /\ c.args[k] \in facets[k])

\* _stacked_vertically: one column, and every two adds apart in height
Stacked(tcs) ==
  LET adds     == {i \in Muts(tcs) : tcs[i].name = "add_primitive"}
      at(i, k) == IF k \in DOMAIN tcs[i].args THEN tcs[i].args[k] ELSE 0
  IN  IF Cardinality(adds) < 2 THEN "failed"
      ELSE IF \E i \in adds : tcs[i].form # "object" THEN "raised"
      ELSE Graded(\A i, j \in adds : i # j => at(i, "x") = at(j, "x") /\ at(i, "y") # at(j, "y"))

Holds(predicate, tcs) ==
  CASE predicate = "none"    -> "passed"
    [] predicate = "stacked" -> Stacked(tcs)
    [] OTHER                 -> Became([prim_type |-> {predicate}], tcs)

(***************************************************************************)
(* State                                                                   *)
(***************************************************************************)
VARIABLES phase,     \* audit, start, post, reply, check, exited, crashed
          strict,    \* --strict-overlap
          prompt,    \* the system prompt, until it has been audited
          selected,  \* the cases still to run: --only or .only selects some
          case,      \* the case that is running
          chat,      \* _CASE_HISTORY and _CASE_MOVES
          fixture,   \* _FIXTURE_SCENE
          counter,   \* _ADD_COUNTER
          built,     \* ghost: what the rollout's messages were built from
          ids,       \* ghost: the ids the fake add_primitive gave out
          round, attempt,
          calls,     \* all_calls
          left,      \* unmatched_actuals of _check: their positions
          unmet,     \* an expectation found no call
          met,       \* expectations looked at
          received,  \* the tool calls of the last reply, still to be executed
          results,   \* the cases scored so far: TRUE or FALSE
          exitCode

evalVars == << phase, strict, prompt, selected, case, chat, fixture, counter, built, ids,
           round, attempt, calls, left, unmet, met, received, results, exitCode >>

scoring == << left, unmet, met >>

Nothing == << >>

EvalTypeOK ==
  /\ phase \in {"audit", "start", "post", "reply", "check", "exited", "crashed"}
  /\ strict \in BOOLEAN /\ prompt \in Prompts
  /\ UNION {selected, DOMAIN results} \subseteq 1 .. Len(CaseList)
  /\ case \in 0 .. Len(CaseList)
  /\ round \in 0 .. MaxSteps /\ attempt \in 0 .. Attempts
  /\ left \subseteq Muts(calls) /\ (case > 0 => met <= Len(CaseList[case].result))
  /\ unmet \in BOOLEAN /\ exitCode \in -1 .. 2
  /\ \A p \in DOMAIN counter : counter[p] \in Nat

EvalInit ==
  /\ phase = "audit" /\ strict \in BOOLEAN /\ prompt \in Prompts
  /\ selected \in (SUBSET (1 .. Len(CaseList))) \ {{}}
  /\ case = 0 /\ chat = << >> /\ fixture = Nothing /\ counter = Nothing
  /\ built = Nothing /\ ids = << >>
  /\ round = 0 /\ attempt = 0 /\ calls = << >> /\ received = << >>
  /\ left = {} /\ unmet = FALSE /\ met = 0
  /\ results = [c \in {} |-> TRUE]
  /\ exitCode = -1

\* main: an overlap ends a strict run before any request, and is a warning else.
\* The text of the prompt plays no further part here.
Audit ==
  /\ phase = "audit"
  /\ IF strict /\ Overlapping(prompt, selected) # {}
     THEN phase' = "exited" /\ exitCode' = 2
     ELSE phase' = "start" /\ UNCHANGED exitCode
  /\ prompt' = << >>
  /\ UNCHANGED << strict, selected, case, chat, fixture, counter, built, ids, round,
                  attempt, calls, scoring, received, results >>

\* _set_case_history, _set_case_moves
SetHistory(h) == h

\* The next case, in the order of the list; _run_one resets its scratch state
\* and builds the messages.
StartCase ==
  /\ phase = "start" /\ selected # {}
  /\ LET c == CHOOSE c \in selected : \A d \in selected : c <= d IN
     /\ case' = c /\ selected' = selected \ {c}
     /\ chat' = SetHistory(CaseList[c].history)
     /\ fixture' = CaseList[c].scene
     /\ built' = [history |-> chat', scene |-> fixture']
  /\ counter' = Nothing /\ ids' = << >>
  /\ phase' = "post" /\ round' = 1 /\ attempt' = 1 /\ calls' = << >>
  /\ UNCHANGED << strict, prompt, scoring, received, results, exitCode >>

\* An exception of _run_one scores the case as failed: "network error".
Score(ok) ==
  /\ results' = [c \in DOMAIN results \cup {case} |-> IF c = case THEN ok ELSE results[c]]
  /\ phase' = "start"
  /\ round' = 0 /\ attempt' = 0

\* A 5xx, a timeout or a network error: again after a pause, three times in all.
PostFails ==
  /\ phase = "post"
  /\ IF attempt < Attempts
     THEN attempt' = attempt + 1 /\ UNCHANGED << phase, round, calls, results >>
     ELSE Score(FALSE) /\ calls' = << >>
  /\ UNCHANGED << strict, prompt, selected, case, chat, fixture, counter, built, ids,
                  scoring, received, exitCode >>

\* Any other failure raises at once: a 4xx, a body without choices.
PostRefused ==
  /\ phase = "post"
  /\ Score(FALSE) /\ calls' = << >>
  /\ UNCHANGED << strict, prompt, selected, case, chat, fixture, counter, built, ids,
                  scoring, received, exitCode >>

\* A reply ends the rollout when it calls no tool, or when it is the last one
\* allowed: its calls are then scored but never executed.
PostAnswers(tcs) ==
  /\ phase = "post"
  /\ calls' = calls \o tcs
  /\ IF tcs = << >> \/ round >= MaxSteps
     THEN phase' = "check" /\ left' = Muts(calls') /\ unmet' = FALSE /\ met' = 0 /\ UNCHANGED received
     ELSE phase' = "reply" /\ received' = tcs /\ UNCHANGED scoring
  /\ UNCHANGED << strict, prompt, selected, case, chat, fixture, counter, built, ids,
                  round, attempt, results, exitCode >>

\* _exec_tool: an argument text that is not JSON raises for every tool, a null
\* for the tools that look into their arguments.
ExecRaises(call) ==
  \/ call.form = "garbled"
  \/ call.form = "null" /\ call.name \notin {"update_primitive", "remove_primitive"}

PrimOf(call)  == IF "prim_type" \in DOMAIN call.args THEN call.args.prim_type ELSE "sphere"
Count(p)      == IF p \in DOMAIN counter THEN counter[p] ELSE 0

AddCount(p)   == [q \in DOMAIN counter \cup {p} |-> IF q = p THEN Count(p) + 1 ELSE counter[q]]

\* One tool call of the reply is executed, in order.
Exec ==
  /\ phase = "reply" /\ received # << >>
  /\ IF ExecRaises(Head(received))
     THEN Score(FALSE) /\ received' = << >> /\ calls' = << >> /\ UNCHANGED << counter, ids >>
     ELSE /\ received' = Tail(received)
          /\ IF Head(received).name = "add_primitive"
             THEN LET p == PrimOf(Head(received)) IN
                  /\ ids' = Append(ids, << p, Count(p) >>)
                  /\ counter' = AddCount(p)
             ELSE UNCHANGED << counter, ids >>
          /\ UNCHANGED << phase, round, attempt, results, calls >>
  /\ UNCHANGED << strict, prompt, selected, case, chat, fixture, built, scoring, exitCode >>

\* The results go back to the model, in the next step's messages.
NextStep ==
  /\ phase = "reply" /\ received = << >>
  /\ phase' = "post" /\ round' = round + 1 /\ attempt' = 1
  /\ UNCHANGED << strict, prompt, selected, case, chat, fixture, counter, built, ids,
                  calls, scoring, received, results, exitCode >>

\* Mutant: a call that met one expectation is left there for the next.
RemoveNone(S, i) == S

Popped(S, i) == S \ {i}

\* The matching loop of _check: each expectation takes the first call that fits.
\* _check is called outside the try: what it raises ends the harness.
MatchNext ==
  /\ phase = "check" /\ met < Len(CaseList[case].result)
  /\ LET exp   == CaseList[case].result[met + 1]
         hit   == {i \in left : Matches(calls[i], exp, CaseList[case].scene)}
         first == CHOOSE i \in hit : \A j \in hit : i <= j
         seen  == {i \in left : hit = {} \/ i <= first}
     IN  IF \E i \in seen : Chokes(calls[i], exp)
         THEN phase' = "crashed" /\ UNCHANGED scoring
         ELSE /\ met' = met + 1
              /\ unmet' = (unmet \/ hit = {})
              /\ left' = IF hit = {} THEN left ELSE Popped(left, first)
              /\ UNCHANGED phase
  /\ UNCHANGED << strict, prompt, selected, case, chat, fixture, counter, built, ids,
                  round, attempt, calls, received, results, exitCode >>

\* No call at all, an expectation without a call, an extra call, the predicate.
Grade(c) ==
  IF \/ c.result = << >> /\ Muts(calls) = {}
     \/ unmet
     \/ ~ c.extra /\ left # {}
  THEN "failed" ELSE Holds(c.predicate, calls)

Check ==
  /\ phase = "check" /\ met = Len(CaseList[case].result)
  /\ \E v \in {Grade(CaseList[case])} :
       IF v = "raised"
       THEN phase' = "crashed" /\ UNCHANGED << round, attempt, calls, results, scoring >>
       ELSE Score(v = "passed") /\ calls' = << >> /\ left' = {} /\ unmet' = FALSE /\ met' = 0
  /\ UNCHANGED << strict, prompt, selected, case, chat, fixture, counter, built, ids,
                  received, exitCode >>

\* sys.exit(0 if passed == total else 1)
ExitRun ==
  /\ phase = "start" /\ selected = {}
  /\ phase' = "exited"
  /\ exitCode' = IF \A c \in DOMAIN results : results[c] THEN 0 ELSE 1
  /\ UNCHANGED << strict, prompt, selected, case, chat, fixture, counter, built, ids,
                  round, attempt, calls, scoring, received, results >>

EvalNext ==
  \/ Audit \/ StartCase \/ PostFails \/ PostRefused \/ Exec \/ NextStep \/ MatchNext
  \/ Check \/ ExitRun
  \/ \E tcs \in ModelReplies : PostAnswers(tcs)

EvalSpec == EvalInit /\ [][EvalNext]_evalVars

(***************************************************************************)
(* Properties                                                              *)
(***************************************************************************)
\* A case passes only on calls of its own that meet its expectations one by one:
\* no call stands for two expectations, and a silent rollout never passes.
Meetings(tcs, c) ==
  {f \in [1 .. Len(c.result) -> Muts(tcs)] :
     /\ \A i, j \in DOMAIN f : f[i] = f[j] => i = j
     /\ \A i \in DOMAIN f : Matches(tcs[f[i]], c.result[i], c.scene)}

PassedMeansMet ==
  [][\A c \in DOMAIN results' \ DOMAIN results :
       results'[c] => /\ Muts(calls) # {}
                      /\ \E f \in Meetings(calls, CaseList[c]) :
                           CaseList[c].extra \/ Range(f) = Muts(calls)]_evalVars

\* Nothing of one case is seen by the next: a rollout's context is its own case's,
\* and the ids its fake adds gave out are its own and all different.
RolloutsIsolated ==
  phase \in {"post", "reply", "check"} =>
    /\ built = [history |-> CaseList[case].history, scene |-> CaseList[case].scene]
    /\ \A i, j \in 1 .. Len(ids) : ids[i] = ids[j] => i = j
    /\ \A i \in 1 .. Len(ids) : ids[i][2] < Len(ids)

\* The docstring of _extract_example_blocks, for a prompt with no fence inside a
\* marked section: the lines between two fences, and those from a marker outside
\* of them to the next blank line.
FencesBefore(lines, n) == Cardinality({i \in 1 .. n - 1 : lines[i] = "fence"})
InExample(lines, n) ==
  /\ lines[n] # "fence"
  /\ \/ FencesBefore(lines, n) % 2 = 1
     \/ \E i \in 1 .. n : /\ lines[i] = "marker" /\ FencesBefore(lines, i) % 2 = 0
                          /\ \A j \in i .. n : lines[j] \notin {"blank", "fence"}
NestsNoFence(lines) ==
  \A i, j \in 1 .. Len(lines) :
    i < j /\ lines[i] = "marker" /\ lines[j] = "fence" /\ FencesBefore(lines, i) % 2 = 0
      => \E k \in i .. j : lines[k] = "blank"

\* A strict run asks the model nothing if a worked example uses the vocabulary of
\* a case it is going to run.
LeaksStopStrictRuns ==
  [][phase = "audit" /\ phase' = "start" /\ strict /\ NestsNoFence(prompt) =>
       ~ \E c \in selected, n \in 1 .. Len(prompt) :
           CaseList[c].vocab /\ prompt[n] = "word" /\ InExample(prompt, n)]_evalVars

(***************************************************************************)
(* Statements of the repository that the code does not keep                *)
(***************************************************************************)
\* The docstring of _check: "Order-independent".  A rollout whose calls meet the
\* expectations one by one is not failed for the order they came in.
OrderIndependent ==
  [][\A c \in DOMAIN results' \ DOMAIN results :
       phase = "check" /\ CaseList[c].extra /\ CaseList[c].predicate = "none" /\
       CaseList[c].result # << >> /\ Meetings(calls, CaseList[c]) # {} => results'[c]]_evalVars

\* The docstring of _exec_tool: "add_primitive returns a fresh per-rollout id".
IdsAreFresh ==
  \A i \in 1 .. Len(ids) : phase = "post" => ids[i] \notin DOMAIN fixture

\* Every case that was chosen gets a line and a result.
EveryCaseScored == phase # "crashed"

\* The docstring of _check_prompt_eval_overlap, with fences in a section too.
LeaksAlwaysStopStrictRuns ==
  [][phase = "audit" /\ phase' = "start" /\ strict =>
       ~ \E c \in selected, n \in 1 .. Len(prompt) :
           CaseList[c].vocab /\ prompt[n] = "word" /\ FencesBefore(prompt, n) % 2 = 1]_evalVars
=============================================================================
