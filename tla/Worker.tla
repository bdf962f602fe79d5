------------------------------- MODULE Worker -------------------------------
(***************************************************************************)
(* main() of the two samples' workers.  It waits until every server has    *)
(* answered a probe, touches its ready file, and runs the voice pipeline   *)
(* until a signal or the pipeline's own end; then it closes its clients.   *)
(* The render demo connects to its MCP servers in between, and asks each   *)
(* for its tools, which it keeps for the life of the worker.               *)
(*                                                                         *)
(* Servers come and go on their own.  A probe, a connection and a request  *)
(* for tools are one step each.                                            *)
(***************************************************************************)
EXTENDS Integers, Sequences

CONSTANTS
  Servers,   \* what is probed
  Tooled,    \* the MCP servers among them
  MaxLapses  \* bound: times a server goes down

ASSUME WorkerAssumption == Tooled \subseteq Servers /\ MaxLapses \in Nat

\* The clients that the end of main() closes, in order, and those whose failure
\* to close it catches.
Closed == [simple |-> <<"stt", "vlm", "tts">>, render |-> <<"llm", "agent_llm", "vlm">>]
Caught == [simple |-> {"stt", "vlm", "tts"}, render |-> {"vlm"}]

VARIABLES
  sample,      \* whose worker it is
  at,          \* where main() is, or how it has ended
  serving,     \* servers that answer
  pending,     \* servers whose probe has not succeeded
  connected,   \* servers with an MCP client
  asked,       \* servers that were asked for their tools
  tools,       \* servers whose tools the model has
  touched,     \* the ready file exists
  cancelAsked, \* cancel_requested
  closings,    \* how many of the clients close() was called on
  answered,    \* history: servers that have answered a probe
  lapses,      \* history: times a server went down
  lapsed       \* history: servers that went down after they had answered a probe

workerVars == <<sample, at, serving, pending, connected, asked, tools, touched, cancelAsked, closings, answered, lapses, lapsed>>
progress   == <<pending, answered, connected, asked, tools, touched>>
world      == <<serving, lapses, lapsed>>

WorkerTypeOK ==
  /\ sample \in DOMAIN Closed
  /\ at \in {"probing", "connecting", "discovering", "setup", "pipeline", "closing", "over", "killed", "failed"}
  /\ UNION {serving, pending, answered, lapsed} \subseteq Servers
  /\ tools \subseteq asked /\ asked \subseteq connected /\ connected \subseteq Tooled
  /\ {touched, cancelAsked} \subseteq BOOLEAN
  /\ closings \in 0 .. Len(Closed[sample]) /\ lapses \in 0 .. MaxLapses

WorkerInit ==
  /\ sample \in DOMAIN Closed /\ at = "probing"
  /\ serving = {} /\ pending = Servers /\ connected = {} /\ asked = {} /\ tools = {}
  /\ touched = FALSE /\ cancelAsked = FALSE /\ closings = 0 /\ answered = {} /\ lapses = 0 /\ lapsed = {}

-----------------------------------------------------------------------------
(* The servers and the launcher.                                           *)

ServerUp(s) ==
  /\ s \notin serving /\ serving' = serving \union {s}
  /\ UNCHANGED <<sample, at, progress, cancelAsked, closings, lapses, lapsed>>

ServerDown(s) ==
  /\ s \in serving /\ serving' = serving \ {s}
  /\ lapses < MaxLapses /\ lapses' = lapses + 1
  /\ lapsed' = lapsed \union ({s} \intersect answered)
  /\ UNCHANGED <<sample, at, progress, cancelAsked, closings>>

\* A signal ends main() where it is until the handlers are installed; then the
\* first one asks the pipeline to end, and no other counts.
Terminate ==
  /\ \/ at \in {"probing", "connecting", "discovering", "setup"} /\ at' = "killed" /\ UNCHANGED cancelAsked
     \/ at = "pipeline" /\ ~cancelAsked /\ cancelAsked' = TRUE /\ UNCHANGED at
  /\ UNCHANGED <<sample, progress, closings, world>>

-----------------------------------------------------------------------------
(* main()                                                                  *)

\* mutant: one pass over the probes
ProbeOnce(s) ==
  /\ at = "probing" /\ s \in pending
  /\ pending' = pending \ {s} /\ answered' = answered \union ({s} \intersect serving)
  /\ UNCHANGED <<sample, at, connected, asked, tools, touched, cancelAsked, closings, world>>

\* wait_for_services: a probe that fails is tried again in the next round.
Probe(s) ==
  /\ at = "probing" /\ s \in pending /\ s \in serving
  /\ pending' = pending \ {s} /\ answered' = answered \union ({s} \intersect serving)
  /\ UNCHANGED <<sample, at, connected, asked, tools, touched, cancelAsked, closings, world>>

Ready ==
  /\ at = "probing" /\ pending = {}
  /\ touched' = TRUE /\ at' = IF sample = "simple" THEN "setup" ELSE "connecting"
  /\ UNCHANGED <<sample, pending, answered, connected, asked, tools, cancelAsked, closings, world>>

\* A connection that fails ends the worker.
ConnectMcp(s) ==
  /\ at = "connecting" /\ s \in Tooled \ connected
  /\ \/ /\ s \in serving /\ connected' = connected \union {s}
        /\ at' = IF connected' = Tooled THEN "discovering" ELSE at
     \/ s \notin serving /\ at' = "failed" /\ UNCHANGED connected
  /\ UNCHANGED <<sample, pending, answered, asked, tools, touched, cancelAsked, closings, world>>

\* A request for tools that fails is a warning.
ListTools(s) ==
  /\ at = "discovering" /\ s \in Tooled \ asked
  /\ asked' = asked \union {s} /\ tools' = tools \union ({s} \intersect serving)
  /\ at' = IF asked' = Tooled THEN "setup" ELSE at
  /\ UNCHANGED <<sample, pending, answered, connected, touched, cancelAsked, closings, world>>

\* The pipeline is built, the handlers are installed, and it runs.
RunPipeline ==
  /\ at = "setup" /\ at' = "pipeline"
  /\ UNCHANGED <<sample, progress, cancelAsked, closings, world>>

\* The pipeline ends when it is asked to, on its idle limit, or by a failure.
PipelineEnds ==
  /\ at = "pipeline" /\ at' = "closing"
  /\ UNCHANGED <<sample, progress, cancelAsked, closings, world>>

\* close() on the next client; where a failure is not caught it ends main().
CloseClient ==
  /\ at = "closing"
  /\ closings' = closings + 1
  /\ \E fails \in BOOLEAN :
       at' = IF (fails /\ Closed[sample][closings'] \notin Caught[sample]) \/ closings' = Len(Closed[sample])
             THEN "over" ELSE at
  /\ UNCHANGED <<sample, progress, cancelAsked, world>>

-----------------------------------------------------------------------------
WorkerRuns ==
  \/ Ready \/ RunPipeline \/ CloseClient
  \/ cancelAsked /\ PipelineEnds
  \/ \E s \in Servers : Probe(s) \/ ConnectMcp(s) \/ ListTools(s)

WorkerNext ==
  \/ WorkerRuns \/ PipelineEnds \/ Terminate
  \/ \E s \in Servers : ServerUp(s) \/ ServerDown(s)

\* The event loop runs, and the pipeline ends when it is asked to.
WorkerSpec == WorkerInit /\ [][WorkerNext]_workerVars /\ WF_workerVars(WorkerRuns)

-----------------------------------------------------------------------------
(* Properties.                                                             *)

\* A render demo whose model misses the tools of a server has lost that server
\* after it had answered its probe: starting in any order costs no tools.
ToolsLostToLapse ==
  sample = "render" /\ at = "pipeline" => Tooled \ tools \subseteq lapsed

\* A worker that is asked to end does, wherever it is.
EndsWhenAsked == cancelAsked ~> at \in {"over", "killed", "failed"}

\* The simple sample calls close() on each of its clients, also when one fails.
EachIsClosed == sample = "simple" /\ at = "over" => closings = Len(Closed[sample])

\* What the code does not keep: the render demo closes its clients, too.
AllAreClosed == at = "over" => closings = Len(Closed[sample])
=============================================================================
