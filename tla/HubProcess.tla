----------------------------- MODULE HubProcess -----------------------------
(***************************************************************************)
(* The media hub as a process on a host.  main starts the LiveKit          *)
(* connector: the codec check, the LiveKit container, the token server,    *)
(* the web server with its certificate, the connection to the room; then   *)
(* it touches the ready file, installs its signal handlers and runs until  *)
(* a signal.  Containers and the certificate's two files outlive a process *)
(* that is killed, and the host may change its addresses between two runs. *)
(*                                                                         *)
(* One attribute of a step is left to chance: whether the port is taken,   *)
(* the container exits, the room can be reached, the process is killed.    *)
(***************************************************************************)
EXTENDS Integers

CONSTANTS
  Addresses,  \* addresses the host may have
  MaxRuns,    \* bound: starts of the hub
  MaxMoves    \* bound: changes of the host's addresses

ASSUME HubAssumption == MaxRuns \in Nat /\ MaxMoves \in Nat

VARIABLES
  stage,              \* where main() is, "off" when there is no process
  setting,            \* what the configuration asks for, what the host offers
  container,          \* the container of that name: none, booting, up
  dockerRun,          \* the "docker run" child: none, alive, exited
  handle,             \* LiveKitDocker._proc is set
  token, web,         \* the two servers: off, binding, bound
  readyFile,          \* the ready file
  docker,             \* the stop of the container during shutdown: idle, going, done
  connector,          \* the tasks of the connector: off, running, over
  stopped,            \* a signal has been received
  keyFile, certFile,  \* the two files, as the number of the pair they belong to
  names,              \* addresses the certificate in certFile is good for, "old" if none
  addresses,          \* the host's addresses
  starts,             \* history: starts of the hub
  moves,              \* history: changes of addresses
  moved,              \* history: the host has moved since a key was last written
  gaveUp,             \* history: a start has given up waiting for the port
  killed,             \* history: the last process was killed
  foundPort,          \* history: the port that this run found open was its own container's
  told                \* history: what the operator was shown when the last process ended

host     == <<setting, addresses, moves, moved>>
files    == <<keyFile, certFile, names>>
livekit  == <<container, dockerRun, handle, docker, gaveUp, foundPort>>
servers  == <<token, web>>
process  == <<connector, stopped, readyFile>>
hubVars  == <<stage, host, files, livekit, servers, process, starts, killed, told>>

\* "codecs": NVDEC and NVENC are there, or the check is skipped; "foreign":
\* something else listens on the LiveKit port.
\* "selfSigned": the web server has TLS and no certificate of the operator's.
Switches == {"codecs", "docker", "token", "web", "selfSigned", "foreign"}

NoPair == 0
Phases == {"off", "boot", "token", "cert", "pair", "web", "connect", "run", "closing"}

HubTypeOK ==
  /\ stage \in Phases /\ setting \in SUBSET Switches
  /\ container \in {"none", "booting", "up"} /\ dockerRun \in {"none", "alive", "exited"}
  /\ {token, web} \subseteq {"off", "bound"} /\ docker \in {"idle", "going", "done"}
  /\ connector \in {"off", "running", "over"}
  /\ {handle, readyFile, stopped, moved, gaveUp, killed, foundPort} \subseteq BOOLEAN
  /\ {keyFile, certFile} \subseteq 0 .. 2 * MaxRuns + 1
  /\ names \in SUBSET Addresses \union {{"old"}}
  /\ addresses \in SUBSET Addresses /\ starts \in 0 .. MaxRuns /\ moves \in 0 .. MaxMoves
  /\ told \in {"nothing", "banner", "trace"}

HubInit ==
  /\ stage = "off" /\ setting \in SUBSET Switches
  /\ container = "none" /\ dockerRun = "none" /\ handle = FALSE /\ docker = "idle"
  /\ token = "off" /\ web = "off" /\ readyFile = FALSE /\ connector = "off" /\ stopped = FALSE
  /\ addresses \in SUBSET Addresses /\ moves = 0 /\ moved = FALSE
  /\ \/ keyFile = NoPair /\ certFile = NoPair /\ names = {}
     \/ keyFile = 1 /\ certFile = 1 /\ names \in {{"old"}, Addresses}
  /\ starts = 0 /\ gaveUp = FALSE /\ killed = FALSE /\ foundPort = FALSE /\ told = "nothing"

-----------------------------------------------------------------------------
(* The process ends.                                                       *)

\* mutant: no exit hook
NoAtExit == container' = container

\* _atexit_kill: the container is stopped if there is a docker run to stop.
AtExit ==
  container' = IF handle /\ dockerRun = "alive" THEN "none" ELSE container

\* Everything of the process goes: its child, its sockets, its tasks.
Gone ==
  /\ stage' = "off" /\ dockerRun' = "none" /\ handle' = FALSE /\ docker' = "idle"
  /\ token' = "off" /\ web' = "off" /\ connector' = "off" /\ stopped' = FALSE
  /\ foundPort' = FALSE

\* main returns or an exception leaves it, a StartupError as the banner it carries:
\* the exit hooks run.
Exit(shown) ==
  /\ Gone /\ AtExit /\ killed' = FALSE /\ told' = shown
  /\ UNCHANGED <<host, files, readyFile, starts, gaveUp>>

\* SIGKILL at any time, SIGTERM before the handlers are installed: no hook runs.
Killed ==
  /\ stage # "off"
  /\ Gone /\ killed' = TRUE /\ told' = "nothing"
  /\ UNCHANGED <<host, files, container, readyFile, starts, gaveUp>>

\* SIGINT before the handlers are installed ends the start where it waits.
InterruptStart ==
  /\ stage \in {"boot", "token", "web", "connect"}
  /\ Exit("nothing")

-----------------------------------------------------------------------------
(* LiveKitDocker.                                                          *)

\* main begins: without the codecs it refuses with a banner; "docker rm", which
\* clears a stale container of that name, raises where there is no docker.  The
\* launcher has removed the ready file of the run before.
StartHub ==
  /\ stage = "off" /\ starts < MaxRuns
  /\ starts' = starts + 1 /\ readyFile' = FALSE
  /\ \/ /\ {"codecs", "docker"} \subseteq setting
        /\ stage' = "boot" /\ container' = "booting" /\ dockerRun' = "alive" /\ handle' = TRUE
        /\ gaveUp' = FALSE /\ killed' = FALSE /\ told' = "nothing"
     \/ /\ "codecs" \notin setting /\ told' = "banner"
        /\ UNCHANGED <<stage, container, dockerRun, handle, gaveUp, killed>>
     \/ /\ "codecs" \in setting /\ "docker" \notin setting /\ told' = "trace"
        /\ UNCHANGED <<stage, container, dockerRun, handle, gaveUp, killed>>
  /\ UNCHANGED <<host, files, servers, docker, foundPort, connector, stopped>>

\* The server in the container opens its port, unless the port is taken.
PortOpens ==
  /\ container = "booting" /\ "foreign" \notin setting
  /\ container' = "up"
  /\ UNCHANGED <<stage, host, files, dockerRun, handle, docker, gaveUp, foundPort, servers,
                 process, starts, killed, told>>

\* The server in the container ends, for the port it did not get or any other
\* reason; its docker run ends with it.
ContainerExits ==
  /\ container # "none"
  /\ container' = "none" /\ dockerRun' = IF dockerRun = "alive" THEN "exited" ELSE dockerRun
  /\ UNCHANGED <<stage, host, files, handle, docker, gaveUp, foundPort, servers, process,
                 starts, killed, told>>

PortIsOpen == container = "up" \/ "foreign" \in setting

\* _teardown_failed_start: docker run is killed, which leaves its container alone,
\* and forgotten, which leaves the exit hook nothing to do.
TeardownFailedStart ==
  /\ Gone /\ killed' = FALSE /\ told' = "banner"
  /\ UNCHANGED <<container, host, files, readyFile, starts>>

PortFound ==
  /\ dockerRun = "alive" /\ PortIsOpen
  /\ stage' = "token" /\ foundPort' = (container = "up")
  /\ UNCHANGED <<host, files, container, dockerRun, handle, docker, gaveUp, servers, process,
                 starts, killed, told>>

DockerRunExited ==
  dockerRun = "exited" /\ TeardownFailedStart /\ UNCHANGED gaveUp

\* _wait_ready: docker run has exited, the port is open, or time is up.
WaitReady ==
  /\ stage = "boot"
  /\ \/ DockerRunExited
     \/ PortFound
     \/ dockerRun = "alive" /\ ~PortIsOpen /\ TeardownFailedStart /\ gaveUp' = TRUE

-----------------------------------------------------------------------------
(* The token server and the web server.                                    *)

\* start of either, and wait_until_bound: it is bound, or has exited or run out of
\* time, which fails the start of the connector.
StartToken ==
  /\ stage = "token"
  /\ \/ /\ stage' = "cert" /\ token' = IF "token" \in setting THEN "bound" ELSE "off"
        /\ UNCHANGED <<host, files, livekit, web, process, starts, killed, told>>
     \/ "token" \in setting /\ Exit("trace")

\* The cached certificate is one for a CA and good for every address of the host.
CertIsGood ==
  /\ certFile # NoPair /\ keyFile # NoPair
  /\ "old" \notin names /\ addresses \subseteq names

NextPair == 2 * starts

\* The key is written before its certificate.
FirstFile == "key"

Write(file) ==
  IF file = "key"
    THEN keyFile' = NextPair /\ UNCHANGED <<certFile, names>>
    ELSE certFile' = NextPair /\ names' = addresses /\ UNCHANGED keyFile

\* ensure_self_signed_cert: the cached pair, else the first file of a new one.
EnsureCert ==
  /\ stage = "cert"
  /\ LET ours == {"web", "selfSigned"} \subseteq setting
     IN \/ /\ "web" \notin setting
           /\ stage' = "connect" /\ UNCHANGED <<files, moved>>
        \/ /\ "web" \in setting /\ (ours => CertIsGood)
           /\ stage' = "web" /\ UNCHANGED <<files, moved>>
        \/ /\ ours /\ ~CertIsGood
           /\ stage' = "pair" /\ Write(FirstFile) /\ moved' = FALSE
  /\ UNCHANGED <<setting, addresses, moves, livekit, servers, process, starts, killed, told>>

\* The second file, a write later.
WritePair ==
  /\ stage = "pair"
  /\ stage' = "web" /\ Write(CHOOSE f \in {"key", "cert"} : f # FirstFile)
  /\ UNCHANGED <<host, livekit, servers, process, starts, killed, told>>

PairFits == "selfSigned" \in setting => keyFile = certFile

WebBound ==
  /\ PairFits /\ web' = "bound" /\ stage' = "connect"
  /\ UNCHANGED <<host, files, livekit, token, process, starts, killed, told>>

\* A key that is not the certificate's keeps the server from starting, as a port
\* that is taken does.
StartWeb ==
  /\ stage = "web"
  /\ WebBound \/ Exit("trace")

-----------------------------------------------------------------------------
(* The room, the signals and the end.                                      *)

\* The endpoint is registered and the room is joined, or not; then main touches
\* the ready file, installs its handlers and starts its tasks.
Connect ==
  /\ stage = "connect"
  /\ \/ /\ stage' = "run" /\ readyFile' = TRUE /\ connector' = "running"
        /\ UNCHANGED <<host, files, livekit, servers, stopped, starts, killed, told>>
     \/ Exit("trace")

\* LiveKitConnector.run returns once a task of it has failed.  Nobody waits for it.
ConnectorEnds ==
  /\ stage = "run" /\ connector = "running"
  /\ connector' = "over"
  /\ UNCHANGED <<stage, host, files, livekit, servers, stopped, readyFile, starts, killed, told>>

\* SIGINT or SIGTERM sets an event, as often as it comes.
Signal ==
  /\ stage = "run" /\ ~stopped
  /\ stopped' = TRUE
  /\ UNCHANGED <<stage, host, files, livekit, servers, connector, readyFile, starts, killed, told>>

\* LiveKitDocker.stop begins: the handle is given up first; a docker run that has
\* exited needs no stop.
StopDocker ==
  /\ handle' = FALSE
  /\ docker' = IF dockerRun = "alive" THEN "going" ELSE "done"

\* main goes on: the hub's sockets are closed, the connector's stop begins.
BeginStop ==
  /\ stage = "run" /\ stopped
  /\ stage' = "closing" /\ StopDocker
  /\ UNCHANGED <<host, files, container, dockerRun, gaveUp, foundPort, servers, process,
                 starts, killed, told>>

\* "docker stop" in the executor has returned.
DockerStopped ==
  /\ docker = "going"
  /\ docker' = "done" /\ container' = "none"
  /\ dockerRun' = IF dockerRun = "alive" THEN "exited" ELSE dockerRun
  /\ UNCHANGED <<stage, host, files, handle, gaveUp, foundPort, servers, process, starts, killed, told>>

\* The room is left and the servers have stopped, or leaving the room raised: main
\* waits for "docker stop" either way, as the loop's executor is shut down last.
StopServers ==
  /\ stage = "closing" /\ connector # "off"
  /\ token' = "off" /\ web' = "off" /\ connector' = "off"
  /\ UNCHANGED <<stage, host, files, livekit, stopped, readyFile, starts, killed, told>>

EndHub ==
  /\ stage = "closing" /\ connector = "off" /\ docker = "done"
  /\ Exit("nothing")

\* The host joins or leaves a network.
Move ==
  /\ stage = "off" /\ moves < MaxMoves
  /\ addresses' \in SUBSET Addresses \ {addresses}
  /\ moves' = moves + 1 /\ moved' = TRUE
  /\ UNCHANGED <<stage, setting, files, livekit, servers, process, starts, killed, told>>

MainStep ==
  \/ WaitReady \/ StartToken \/ EnsureCert \/ WritePair \/ StartWeb \/ Connect
  \/ BeginStop \/ StopServers \/ DockerStopped \/ EndHub

HubNext ==
  \/ StartHub \/ MainStep \/ PortOpens \/ ContainerExits \/ ConnectorEnds \/ Signal
  \/ Killed \/ InterruptStart \/ Move

\* Every wait of the start has a limit, and "docker stop" kills what does not end.
HubSpec == HubInit /\ [][HubNext]_hubVars /\ WF_hubVars(MainStep)

-----------------------------------------------------------------------------
(* Properties.                                                             *)

\* A hub that was not killed leaves no container, whatever raised and wherever it
\* was interrupted, unless its start gave up waiting for the port.
LeakNeedsTimeout == stage = "off" /\ ~killed /\ ~gaveUp => container = "none"

\* Ready means that what the configuration asks for is being served.
ReadyMeansServed ==
  [][~readyFile /\ readyFile' =>
       /\ "token" \in setting => token' = "bound"
       /\ "web" \in setting => web' = "bound"]_hubVars

\* An interrupted start leaves no key and certificate that do not fit for the
\* next start at the same addresses to use.
MismatchNeedsMove == stage = "web" /\ ~PairFits => moved

\* A hub that starts is ready or gone in the end, and one that is told to stop ends.
StartsAndStops == (stage = "boot" ~> stage \in {"run", "off"}) /\ (stopped ~> stage = "off")

\* What the code does not keep: "the container is killed if Python exits without
\* stop()"; the port found open is the container's own; a hub that is ready and
\* runs serves its room; a host that is back at its addresses can start.
NoContainerLeft  == stage = "off" /\ ~killed => container = "none"
PortIsOwn        == stage = "token" /\ dockerRun = "alive" => foundPort
RunsWhileReady   == stage = "run" => connector = "running"
PairAlwaysFits   == stage = "web" => PairFits
\* The modes an operator can fix, no docker among them, end in the banner.
FailsWithBanner  == [][(stage \in {"off", "boot"} /\ told # "trace") => told' # "trace"]_hubVars
=============================================================================
