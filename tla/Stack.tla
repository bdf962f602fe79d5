--------------------------------- MODULE Stack ---------------------------------
(***************************************************************************)
(* The launcher's run_stack and the processes it starts: groups started in *)
(* order, each awaited by the ready files of its members, then the monitor *)
(* and the shutdown; together with the wrappers of the model servers,      *)
(* whose service (a container, or a server in a session of its own) is not *)
(* in the process group that the launcher signals.                         *)
(*                                                                         *)
(* A process is `uv run` with the program under it, which end together.    *)
(* What a signal does at once in the program (the default action, or the   *)
(* end of an idle loop) is part of the launcher's step.                    *)
(***************************************************************************)
EXTENDS Integers, Sequences, FiniteSets, Functions

CONSTANTS
  Processes,
  Items,           \* the list given to run_stack: a sequence of groups, each a
                   \* sequence of processes (a Process is a group of one)
  Mode,            \* launch_mode of each process
  Backend,         \* "plain": the process is the service; "container": vLLM in
                   \* docker; "detached": a server with start_new_session=True
                   \* (the STT server, vLLM from pip)
  ExitAfterReady,
  Stubborn,        \* processes that do not end on SIGTERM
  Faults,          \* what may happen, at most one of it in a behaviour:
                   \*   "term": SIGTERM to the launcher outside its monitor
                   \*   "untracked": Ctrl-C between Popen and launched[...] =
                   \*   "mash": Ctrl-C again, while _shutdown waits for the end
                   \*   of a process after SIGTERM, once or several times
                   \*   "escape": so, and Ctrl-C anywhere else in _shutdown
                   \*   "late": a container the daemon creates although the
                   \*           client that asked for it is terminated
  MaxLaunches      \* bound: times the stack is started

ASSUME ConstantsAssumption ==
  /\ IsFiniteSet(Processes)
  /\ Items \in Seq(Seq(Processes))
  /\ Mode \in [Processes -> {"own", "persist", "reuse"}]
  /\ Backend \in [Processes -> {"plain", "container", "detached"}]
  /\ \A p \in Processes : Mode[p] = "persist" => Backend[p] # "plain"
  /\ ExitAfterReady \in BOOLEAN
  /\ Stubborn \subseteq {p \in Processes : Backend[p] = "plain"}
  /\ Faults \subseteq {"term", "untracked", "mash", "escape", "late"}
  /\ MaxLaunches \in Nat

VARIABLES
  faults,    \* the member of Faults that may happen in this behaviour, or none
  launches,  \* starts of the stack so far
  phase,     \* where run_stack is: "starting", "monitor", "stop" (the first loop of
             \* _shutdown), "reap" (the second), "killing" (the wait after a
             \* SIGKILL that Ctrl-C has caused), "gone"
  item,      \* index of the group that is being started
  launched,  \* keys of `launched`, in insertion order
  aborted,
  index,     \* position in `launched` of _shutdown's loops
  ready,     \* processes whose ready file exists
  proc,      \* proc[p]: "none", "starting", "waiting" (for its service's
             \* /health), "touched" (ready, handlers not yet restored), "up",
             \* "handling", "removing" (the signal handler), "exited"
  child,     \* child[p]: the docker client or the server p has started lives
  service    \* service[p]: "absent", "stopped" (a container), "starting",
             \* "healthy"

vars == <<faults, launches, phase, item, launched, aborted, index,
          ready, proc, child, service>>
launcherVars == <<launches, phase, item, launched, aborted, index>>

Sources == {p \in Processes : Backend[p] # "plain"}

TypeOK ==
  /\ faults \subseteq Faults
  /\ launches \in 0 .. MaxLaunches
  /\ phase \in {"starting", "monitor", "stop", "reap", "killing", "gone"}
  /\ item \in 1 .. Len(Items) + 1
  /\ launched \in Seq(Processes) /\ IsInjective(launched)
  /\ aborted \in BOOLEAN
  /\ index \in 1 .. Len(launched) + 1
  /\ proc \in [Processes -> {"none", "starting", "waiting", "touched", "up",
                             "handling", "removing", "exited"}]
  /\ ready \subseteq {p \in Processes : proc[p] # "none"}
  /\ child \in [Sources -> BOOLEAN]
  /\ service \in [Sources -> {"absent", "stopped", "starting", "healthy"}]

Init ==
  /\ faults \in {{}} \union {{f} : f \in Faults}
  /\ launches = 0 /\ phase = "gone" /\ item = 1 /\ launched = <<>>
  /\ aborted = FALSE /\ index = 1 /\ ready = {}
  /\ proc = [p \in Processes |-> "none"]
  /\ child = [p \in Sources |-> FALSE]
  /\ service = [p \in Sources |-> "absent"]

-----------------------------------------------------------------------------
(* run_stack                                                               *)

Become(p, state) == proc' = [proc EXCEPT ![p] = state]
Exited(p) == proc[p] = "exited"

\* The user starts the stack, when nothing of an earlier start is on its way
\* (a bound). Wrappers that were left idle do nothing to a later start.
Launch ==
  /\ phase = "gone" /\ launches < MaxLaunches
  /\ \A p \in Processes :
       proc[p] \in {"none", "exited"} \/ (proc[p] = "up" /\ Backend[p] # "plain")
  /\ launches' = launches + 1
  /\ phase' = "starting" /\ item' = 1 /\ launched' = <<>>
  /\ aborted' = FALSE /\ index' = 1 /\ ready' = {}
  /\ proc' = [p \in Processes |-> "none"]
  /\ UNCHANGED <<faults, child, service>>

\* The members of the group that are started, those that are not yet, and the
\* first of these.
Members == {p \in Range(Items[item]) : Mode[p] # "reuse"}
ToSpawn == Members \ Range(launched)
IsNext(p) ==
  \E i \in DOMAIN Items[item] :
    /\ Items[item][i] = p /\ p \in ToSpawn
    /\ \A j \in 1 .. i - 1 : Items[item][j] \notin ToSpawn

Starting == phase = "starting"

\* _spawn and launched[name] = .
Spawn ==
  /\ Starting
  /\ \E p \in ToSpawn : IsNext(p) /\ launched' = Append(launched, p) /\ Become(p, "starting")
  /\ UNCHANGED <<faults, launches, phase, item, aborted, index, ready, child, service>>

\* Every member of the group has its ready file: the next group, or the end of
\* the start.
GroupReady ==
  /\ Starting /\ ToSpawn = {} /\ Members \subseteq ready
  /\ item' = item + 1
  /\ phase' = IF item < Len(Items) THEN "starting"
              ELSE IF ExitAfterReady THEN "stop" ELSE "monitor"
  /\ UNCHANGED <<faults, launches, launched, aborted, index, ready, proc, child, service>>

\* A member has exited, and every thread of _wait_ready_parallel has ended.
GroupFailed ==
  /\ Starting /\ ToSpawn = {}
  /\ \A p \in Members : p \in ready \/ Exited(p)
  /\ \E p \in Members : Exited(p)
  /\ phase' = "stop" /\ aborted' = TRUE
  /\ UNCHANGED <<faults, launches, item, launched, index, ready, proc, child, service>>

\* Ctrl-C, or SIGTERM to the monitor; an exception of _spawn does the same.
Interrupt ==
  /\ phase \in {"starting", "monitor"}
  /\ phase' = "stop" /\ aborted' = Starting
  /\ UNCHANGED <<faults, launches, item, launched, index, ready, proc, child, service>>

\* Ctrl-C after the Popen of _spawn, before its result is in `launched`.
InterruptSpawn ==
  /\ "untracked" \in faults
  /\ Starting
  /\ \E p \in ToSpawn : IsNext(p) /\ Become(p, "starting")
  /\ phase' = "stop" /\ aborted' = TRUE
  /\ UNCHANGED <<faults, launches, item, launched, index, ready, child, service>>

\* SIGTERM has its default action outside the monitor.
Terminated ==
  /\ "term" \in faults
  /\ phase \in {"starting", "stop", "reap", "killing"}
  /\ phase' = "gone"
  /\ UNCHANGED <<faults, launches, item, launched, aborted, index, ready, proc, child, service>>

\* mutant: only the process started last is watched
MonitorLast ==
  /\ phase = "monitor"
  /\ Exited(launched[Len(launched)])
  /\ phase' = "stop"
  /\ UNCHANGED <<faults, launches, item, launched, aborted, index, ready, proc, child, service>>

\* _monitor sees that a process has exited.
Monitor ==
  /\ phase = "monitor"
  /\ \E p \in Range(launched) : Exited(p)
  /\ phase' = "stop"
  /\ UNCHANGED <<faults, launches, item, launched, aborted, index, ready, proc, child, service>>

-----------------------------------------------------------------------------
(* _shutdown                                                               *)

\* no_kill
Skip == IF aborted THEN {} ELSE {p \in Processes : Mode[p] # "own"}

Ended(p) == p \in Skip \/ Exited(p)

\* The docker wrapper installs its handlers at some time while it starts, and
\* restores the old ones soon after the ready file.
HandlersOn(p)  == Backend[p] = "container" /\ proc[p] \in {"starting", "waiting", "touched"}
HandlersOff(p) == Backend[p] # "container" \/ proc[p] \in {"starting", "up"}

\* What SIGTERM to its group makes of p: a docker wrapper that has its handlers
\* installed runs them, any other process ends or ignores it.
Signalled(p, state) ==
  \/ state = proc[p] /\ (Ended(p) \/ p \in Stubborn)
  \/ /\ ~Ended(p) /\ p \notin Stubborn
     /\ \/ state = "handling" /\ HandlersOn(p)
        \/ state = "exited" /\ HandlersOff(p)

\* The first loop of _shutdown: the next process is signalled, or passed over.
StopNext ==
  /\ phase = "stop" /\ index <= Len(launched)
  /\ \E state \in {proc[launched[index]], "handling", "exited"} :
       Signalled(launched[index], state) /\ Become(launched[index], state)
  /\ index' = index + 1
  /\ UNCHANGED <<faults, launches, phase, item, launched, aborted, ready, child, service>>

\* The second loop begins, with the deadline that all waits have in common.
BeginReap ==
  /\ phase = "stop" /\ index > Len(launched)
  /\ phase' = "reap" /\ index' = 1
  /\ UNCHANGED <<faults, launches, item, launched, aborted, ready, proc, child, service>>

Reaping == phase = "reap" /\ index <= Len(launched)

\* The second loop of _shutdown: p.wait returns, or is not called.
Reap ==
  /\ Reaping /\ Ended(launched[index])
  /\ index' = index + 1
  /\ UNCHANGED <<faults, launches, phase, item, launched, aborted, ready, proc, child, service>>

Return ==
  /\ phase = "reap" /\ ~Reaping
  /\ phase' = "gone"
  /\ UNCHANGED <<faults, launches, item, launched, aborted, index, ready, proc, child, service>>

\* mutant: what does not end is left alone
ForceKillWarns ==
  /\ Reaping
  /\ launched[index] \in Stubborn /\ ~Ended(launched[index])
  /\ \A p \in Range(launched) : Ended(p) \/ p \in Stubborn
  /\ phase' = "gone"
  /\ UNCHANGED <<faults, launches, item, launched, aborted, index, ready, proc, child, service>>

\* The time-out of p.wait, when everything that ends by itself has ended: the
\* process is killed, and as no time remains, the loop is left; so it is if Ctrl-C
\* interrupts the wait for its end.
ForceKill ==
  /\ Reaping
  /\ launched[index] \in Stubborn /\ ~Ended(launched[index])
  /\ \A p \in Range(launched) : Ended(p) \/ p \in Stubborn
  /\ Become(launched[index], "exited")
  /\ phase' = "gone"
  /\ UNCHANGED <<faults, launches, item, launched, aborted, index, ready, child, service>>

\* Ctrl-C in p.wait: the process is killed, whatever it is about to do, and waited
\* for again.
InterruptWait ==
  /\ faults \intersect {"mash", "escape"} # {}
  /\ Reaping /\ ~Ended(launched[index])
  /\ Become(launched[index], "exited") /\ phase' = "killing"
  /\ UNCHANGED <<faults, launches, item, launched, aborted, index, ready, child, service>>

\* That wait returns, and the loop goes on with the time that remains.
KillDone ==
  /\ phase = "killing"
  /\ phase' = "reap" /\ index' = index + 1
  /\ UNCHANGED <<faults, launches, item, launched, aborted, ready, proc, child, service>>

\* That wait has taken the time that remained, and the loop is left.  Nothing but
\* processes that ignore SIGTERM takes as long.
TimeOver ==
  /\ phase = "killing"
  /\ \A p \in Range(launched) : Ended(p) \/ p \in Stubborn
  /\ phase' = "gone"
  /\ UNCHANGED <<faults, launches, item, launched, aborted, index, ready, proc, child, service>>

\* Ctrl-C in the first loop, between two waits or in the wait after SIGKILL, whose
\* "except Exception" does not catch it: _shutdown is left as it stands.
InterruptShutdown ==
  /\ "escape" \in faults
  /\ phase \in {"stop", "reap", "killing"}
  /\ phase' = "gone"
  /\ UNCHANGED <<faults, launches, item, launched, aborted, index, ready, proc, child, service>>

-----------------------------------------------------------------------------
(* The processes                                                           *)

Plain(p) == Backend[p] = "plain"

\* A process without a service of its own becomes ready, or exits.
PlainReady(p) ==
  /\ Plain(p) /\ proc[p] = "starting"
  /\ Become(p, "up") /\ ready' = ready \union {p}
  /\ UNCHANGED <<faults, launcherVars, child, service>>

PlainExit(p) ==
  /\ Plain(p) /\ proc[p] \in {"starting", "up"}
  /\ Become(p, "exited")
  /\ UNCHANGED <<faults, launcherVars, ready, child, service>>

\* The ready file; a docker wrapper has its handlers still installed.
Touch(p) ==
  /\ ready' = ready \union {p}
  /\ Become(p, IF Backend[p] = "container" THEN "touched" ELSE "up")

\* A wrapper adopts the service that is up, or starts one. A container of that
\* name or a server on that port that is not healthy is in the way of the new
\* one, which ends at once.
StartService(p) ==
  /\ ~Plain(p) /\ proc[p] = "starting"
  /\ \/ /\ service[p] = "healthy"
        /\ Touch(p)
        /\ UNCHANGED <<child, service>>
     \/ /\ service[p] # "healthy"
        /\ Become(p, "waiting")
        /\ child' = [child EXCEPT ![p] = service[p] # "starting"]
        /\ service' = [service EXCEPT ![p] = IF Backend[p] = "detached" THEN "starting" ELSE @]
        /\ UNCHANGED ready
  /\ UNCHANGED <<faults, launcherVars>>

\* The docker daemon starts the container the client has asked for.
Created(p) ==
  /\ ~Plain(p) /\ child[p] /\ service[p] \in {"absent", "stopped"}
  /\ service' = [service EXCEPT ![p] = "starting"]
  /\ UNCHANGED <<faults, launcherVars, ready, proc, child>>

\* The model is loaded: /health answers.
Load(p) ==
  /\ ~Plain(p) /\ service[p] = "starting"
  /\ service' = [service EXCEPT ![p] = "healthy"]
  /\ UNCHANGED <<faults, launcherVars, ready, proc, child>>

\* The service dies.
Crash(p) ==
  /\ ~Plain(p) /\ service[p] \in {"starting", "healthy"}
  /\ service' = [service EXCEPT ![p] = IF Backend[p] = "container" THEN "stopped" ELSE "absent"]
  /\ child' = [child EXCEPT ![p] = FALSE]
  /\ UNCHANGED <<faults, launcherVars, ready, proc>>

\* wait_until_healthy returns.
Healthy(p) ==
  /\ proc[p] = "waiting" /\ service[p] = "healthy"
  /\ Touch(p)
  /\ UNCHANGED <<faults, launcherVars, child, service>>

\* wait_until_healthy finds the child dead, or the STT wrapper's time is over.
GiveUp(p) ==
  /\ proc[p] = "waiting" /\ ~child[p]
  /\ Become(p, "exited")
  /\ UNCHANGED <<faults, launcherVars, ready, child, service>>

\* The docker wrapper restores the handlers and goes idle.
Restore(p) ==
  /\ proc[p] = "touched"
  /\ Become(p, "up")
  /\ UNCHANGED <<faults, launcherVars, ready, child, service>>

\* idle_until_stopped returns as the service is gone.
IdleExit(p) ==
  /\ ~Plain(p) /\ proc[p] = "up" /\ service[p] # "healthy"
  /\ Become(p, "exited")
  /\ UNCHANGED <<faults, launcherVars, ready, child, service>>

\* The handler of the docker wrapper: the client is terminated, the container
\* of that name stopped if there is one.
HandlerStop(p) ==
  /\ proc[p] = "handling"
  /\ Become(p, "removing")
  /\ service' = [service EXCEPT ![p] = IF @ = "absent" THEN "absent" ELSE "stopped"]
  /\ \/ child' = [child EXCEPT ![p] = FALSE]
     \/ "late" \in faults /\ service[p] = "absent" /\ UNCHANGED child
  /\ UNCHANGED <<faults, launcherVars, ready>>

\* The handler removes the container and exits.
HandlerRemove(p) ==
  /\ proc[p] = "removing"
  /\ Become(p, "exited")
  /\ service' = [service EXCEPT ![p] = IF @ = "stopped" THEN "absent" ELSE @]
  /\ UNCHANGED <<faults, launcherVars, ready, child>>

\* --stop: stop_persistent_servers passes over what is not healthy.
StopPersistent(p) ==
  /\ phase = "gone" /\ ~Plain(p) /\ service[p] = "healthy"
  /\ service' = [service EXCEPT ![p] = "absent"]
  /\ child' = [child EXCEPT ![p] = FALSE]
  /\ UNCHANGED <<faults, launcherVars, ready, proc>>

-----------------------------------------------------------------------------
LauncherStep ==
  \/ Spawn \/ GroupReady \/ GroupFailed \/ Monitor
  \/ StopNext \/ BeginReap \/ Reap \/ KillDone \/ TimeOver \/ Return \/ ForceKill

UserStep ==
  \/ Launch \/ Interrupt \/ InterruptSpawn \/ Terminated
  \/ InterruptWait \/ InterruptShutdown

\* What a process or its service does if nothing goes wrong.
Progress(p) ==
  \/ PlainReady(p) \/ StartService(p) \/ Created(p) \/ Load(p)
  \/ Healthy(p) \/ GiveUp(p) \/ Restore(p) \/ IdleExit(p)
  \/ HandlerStop(p) \/ HandlerRemove(p)

Next ==
  \/ LauncherStep \/ UserStep
  \/ \E p \in Processes : Progress(p) \/ PlainExit(p) \/ Crash(p) \/ StopPersistent(p)

Spec == Init /\ [][Next]_vars

\* The launcher's loops go on; a process and its service get on with their
\* start, and an idle wrapper with its polls.
FairSpec ==
  /\ Spec
  /\ WF_vars(LauncherStep)
  /\ \A p \in Processes : WF_vars(Progress(p))

-----------------------------------------------------------------------------
(* Properties.                                                             *)

\* The processes behind the one at which the second loop of _shutdown was left.
Unreached == {launched[i] : i \in index + 1 .. Len(launched)}

\* Whatever way run_stack ends (Ctrl-C or SIGTERM in any phase, an exit before
\* or after readiness, Ctrl-C in the waits for what was stopped), no process it owns
\* outlives it, and one that ignores SIGTERM is killed; only of those that ignore it
\* and stand behind another that used up the time of the loop does _shutdown take no more
\* notice.  Excepted are the faults that keep _shutdown from running to its end or
\* from knowing the process.
OwnProcessesStopped ==
  phase = "gone" /\ faults \intersect {"term", "untracked", "escape"} = {}
    => \A p \in Processes : Mode[p] = "own" =>
         proc[p] \in {"none", "exited"} \/ p \in Stubborn \intersect Unreached

\* "Terminate all running processes; escalate to SIGKILL after the timeout": not
\* if two ignore SIGTERM.
StubbornAreKilled ==
  phase = "gone" => \A p \in Range(launched) : Mode[p] = "own" => Exited(p)

HalfStarted(p) == service[p] = "starting" \/ (child[p] /\ service[p] # "healthy")

\* When run_stack is over, no container is on its way to readiness, wherever
\* the wrapper was when it was stopped: the docker wrapper's signal handler
\* together with the abort of run_stack.
ContainersTornDown ==
  phase = "gone" /\ faults = {}
    => \A p \in Sources : Backend[p] = "container" => ~HalfStarted(p)

\* The same whatever happens.
ContainersTornDownAlways ==
  phase = "gone" => \A p \in Sources : Backend[p] = "container" => ~HalfStarted(p)

\* The same of every service (docs/source/components/launcher-and-process-model.md).
NothingHalfStarted ==
  phase = "gone" /\ faults = {} => \A p \in Sources : ~HalfStarted(p)

\* After an end that is no abort, a wrapper that persists has gone only if its
\* service has: the launcher has signalled none of them.
PersistOutlives ==
  phase = "gone" /\ ~aborted /\ faults = {}
    => \A p \in Range(launched) :
         Mode[p] = "persist" /\ Exited(p) => service[p] # "healthy"

\* A process that exits, in a start or under the monitor, brings the stack
\* down, although others start slowly or ignore SIGTERM.
FailFast ==
  (phase # "gone" /\ \E p \in Range(launched) : Exited(p)) ~> (phase = "gone")
================================================================================
