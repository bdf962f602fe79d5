--------------------------- MODULE ManagedProcess ---------------------------
(***************************************************************************)
(* ManagedProcess of the launcher library, as render-mcp uses it for LOVR: *)
(* a child with a pipe each for its stdout and its stderr, a task per pipe *)
(* that forwards its lines to the log file and to the terminal, and a      *)
(* context whose end terminates the child, cancels the two tasks and       *)
(* closes the file.                                                        *)
(*                                                                         *)
(* A line is "quiet" (for the file), "loud" (a warning or an error, for    *)
(* the terminal too) or "huge": longer than the limit of readline.         *)
(***************************************************************************)
EXTENDS Integers, Sequences

CONSTANTS
  MaxLines,  \* bound: lines the child writes to a pipe
  PipeRoom   \* lines a pipe and its reader hold

ASSUME ChildAssumption == MaxLines \in Nat /\ PipeRoom \in Nat \ {0}

Streams == {"stdout", "stderr"}
Kinds == {"quiet", "loud", "huge"}

VARIABLES
  prog,       \* the child: "runs", "gone"
  written,    \* written[s]: the lines of the child, in their order
  taken,      \* taken[s]: how many of them the forwarder has read
  forwarder,  \* forwarder[s]: "runs", "ended", "failed", "cancelled", "over"
  context,    \* "open", "terminating", "cleanup", "closed"
  sink,       \* the log file: "none", "open", "closed"
  file,       \* file[s]: the lines that are in it, by number
  terminal,   \* terminal[s]: those printed
  unwritable  \* history: the file refused a line

childVars == <<prog, written, taken, forwarder, context, sink, file, terminal, unwritable>>

ChildTypeOK ==
  /\ prog \in {"runs", "gone"} /\ written \in [Streams -> Seq(Kinds)]
  /\ taken \in [Streams -> 0 .. MaxLines]
  /\ forwarder \in [Streams -> {"runs", "ended", "failed", "cancelled", "over"}]
  /\ context \in {"open", "terminating", "cleanup", "closed"}
  /\ sink \in {"none", "open", "closed"} /\ unwritable \in BOOLEAN
  /\ {file, terminal} \subseteq [Streams -> SUBSET (1 .. MaxLines)]

ChildInit ==
  /\ prog = "runs" /\ written = [s \in Streams |-> <<>>] /\ taken = [s \in Streams |-> 0]
  /\ forwarder = [s \in Streams |-> "runs"] /\ context = "open" /\ sink \in {"none", "open"}
  /\ file = [s \in Streams |-> {}] /\ terminal = [s \in Streams |-> {}] /\ unwritable = FALSE

Held(s) == Len(written[s]) - taken[s]

-----------------------------------------------------------------------------
(* The child.                                                              *)

\* A write to a full pipe blocks.
WriteLine(s, kind) ==
  /\ prog = "runs" /\ Held(s) < PipeRoom /\ Len(written[s]) < MaxLines
  /\ written' = [written EXCEPT ![s] = Append(@, kind)]
  /\ UNCHANGED <<prog, taken, forwarder, context, sink, file, terminal, unwritable>>

\* It ends by itself, or on SIGTERM.
Quit ==
  /\ prog = "runs" /\ prog' = "gone"
  /\ UNCHANGED <<written, taken, forwarder, context, sink, file, terminal, unwritable>>

-----------------------------------------------------------------------------
(* _forward                                                                *)

\* Where a line goes: without a file to the terminal, and there too when the file
\* refuses it.
Route(s, n, kind) ==
  \/ /\ sink = "open" /\ file' = [file EXCEPT ![s] = @ \union {n}]
     /\ terminal' = IF kind = "loud" THEN [terminal EXCEPT ![s] = @ \union {n}] ELSE terminal
     /\ UNCHANGED unwritable
  \/ /\ terminal' = [terminal EXCEPT ![s] = @ \union {n}]
     /\ unwritable' = (unwritable \/ sink = "open") /\ UNCHANGED file

\* mutant: one pipe is drained after the other
TakeInTurn(s) ==
  LET n == taken[s] + 1 IN
  /\ forwarder[s] = "runs" /\ Held(s) > 0
  /\ s = "stderr" => forwarder["stdout"] = "ended"
  /\ taken' = [taken EXCEPT ![s] = n]
  /\ IF written[s][n] = "huge"
       THEN forwarder' = [forwarder EXCEPT ![s] = "failed"] /\ UNCHANGED <<file, terminal, unwritable>>
       ELSE Route(s, n, written[s][n]) /\ UNCHANGED forwarder
  /\ UNCHANGED <<prog, written, context, sink>>

\* readline raises on a line that is too long, which ends the task.
Take(s) ==
  LET n == taken[s] + 1 IN
  /\ forwarder[s] = "runs" /\ Held(s) > 0
  /\ taken' = [taken EXCEPT ![s] = n]
  /\ IF written[s][n] = "huge"
       THEN forwarder' = [forwarder EXCEPT ![s] = "failed"] /\ UNCHANGED <<file, terminal, unwritable>>
       ELSE Route(s, n, written[s][n]) /\ UNCHANGED forwarder
  /\ UNCHANGED <<prog, written, context, sink>>

\* The pipe is empty and the child is gone; or the task is cancelled.
ForwarderEnds(s) ==
  /\ \/ forwarder[s] = "runs" /\ Held(s) = 0 /\ prog = "gone"
     \/ forwarder[s] = "cancelled"
  /\ forwarder' = [forwarder EXCEPT ![s] = IF @ = "runs" THEN "ended" ELSE "over"]
  /\ UNCHANGED <<prog, written, taken, context, sink, file, terminal, unwritable>>

-----------------------------------------------------------------------------
(* The end of the context.                                                 *)

\* The forwarders are cancelled, whatever the pipes still hold.
Cleanup ==
  /\ context' = "cleanup"
  /\ forwarder' = [s \in Streams |-> IF forwarder[s] = "runs" THEN "cancelled" ELSE forwarder[s]]
  /\ UNCHANGED <<written, taken, sink, file, terminal, unwritable>>

\* The server shuts down, or has seen the child exit: a child that runs gets a
\* SIGTERM.
Leave ==
  /\ context = "open"
  /\ \/ prog = "gone" /\ Cleanup /\ UNCHANGED prog
     \/ /\ prog = "runs" /\ context' = "terminating"
        /\ UNCHANGED <<prog, written, taken, forwarder, sink, file, terminal, unwritable>>

\* The child has ended, or the time is over and it is killed.
ChildTerminated ==
  /\ context = "terminating"
  /\ prog' = "gone" /\ Cleanup

CloseSink ==
  /\ context = "cleanup" /\ \A s \in Streams : forwarder[s] # "cancelled"
  /\ context' = "closed" /\ sink' = IF sink = "none" THEN sink ELSE "closed"
  /\ UNCHANGED <<prog, written, taken, forwarder, file, terminal, unwritable>>

-----------------------------------------------------------------------------
ChildNext ==
  \/ Quit \/ Leave \/ ChildTerminated \/ CloseSink
  \/ \E s \in Streams : Take(s) \/ ForwarderEnds(s) \/ \E kind \in Kinds : WriteLine(s, kind)

ClosingStep == ChildTerminated \/ CloseSink

\* The tasks run, and the wait for the child has a limit.
ChildSpec ==
  /\ ChildInit /\ [][ChildNext]_childVars
  /\ WF_childVars(ClosingStep)
  /\ \A s \in Streams : WF_childVars(Take(s)) /\ WF_childVars(ForwarderEnds(s))

-----------------------------------------------------------------------------
(* Properties.                                                             *)

\* A file that refused no line has every line the forwarders have read, but those
\* they cannot read: it is not closed under them.
FileIsComplete ==
  sink # "none" /\ ~unwritable =>
    \A s \in Streams : file[s] = {n \in 1 .. taken[s] : written[s][n] # "huge"}

\* A child that a full pipe may block gets room again, unless a huge line has ended
\* the task that would make it.
StuckNeedsHugeLine ==
  \A s \in Streams : Held(s) = PipeRoom ~> (Held(s) < PipeRoom \/ context # "open" \/ forwarder[s] = "failed")

\* Leaving the context ends the child and comes to an end itself, whatever the
\* child and its output do.
ClosingEnds == (context = "terminating") ~> (context = "closed" /\ prog = "gone")

\* What the code does not keep: output does not block a child for ever.
NeverStuck ==
  \A s \in Streams : Held(s) = PipeRoom ~> (Held(s) < PipeRoom \/ context # "open" \/ prog = "gone")

\* Nor are the last lines of a child that ends by itself sure to be in the log.
LastWordsKept ==
  context = "closed" => \A s \in Streams : taken[s] = Len(written[s])
=============================================================================
