----------------------------- MODULE Processes_proof -----------------------------
(***************************************************************************)
(* Proofs about the processes of a deployment: the samples' worker, the    *)
(* hub on its host, a managed child process, the speech and CloudXR        *)
(* services, and the launcher's stack.  Each part has the invariant that   *)
(* its steps keep, lemmas on the steps, and the theorems that follow.      *)
(***************************************************************************)
EXTENDS Worker, HubProcess, ManagedProcess, Services, Stack, FiniteSetTheorems,
        SequenceTheorems, TLAPS

-----------------------------------------------------------------------------
(* Worker.                                                                 *)

\* What the worker knows of the servers.  A server that has answered and does not
\* serve has lapsed since; main() is past its probes only when every server has
\* answered, past its connections and its requests only when no MCP server is left.
WorkerInv ==
  /\ WorkerTypeOK
  /\ answered \subseteq serving \union lapsed
  /\ at = "probing" => pending \union answered = Servers
  /\ at \in {"connecting", "discovering", "setup", "pipeline"} => answered = Servers
  /\ asked \ tools \subseteq lapsed
  /\ at = "discovering" => connected = Tooled
  /\ at \in {"setup", "pipeline"} /\ sample = "render" => asked = Tooled

\* How far the closing of the clients has come.
ClosingInv ==
  /\ at = "closing" => closings < Len(Closed[sample])
  /\ at \notin {"closing", "over"} => closings = 0
  /\ EachIsClosed

LEMMA ClientLists ==
  /\ DOMAIN Closed = {"simple", "render"}
  /\ \A x \in DOMAIN Closed : Len(Closed[x]) = 3
  /\ \A i \in 1 .. 3 : Closed["simple"][i] \in Caught["simple"]
  BY DEF Closed, Caught

LEMMA WorkerStarts == WorkerInit => WorkerInv /\ ClosingInv
<1> SUFFICES ASSUME WorkerInit PROVE WorkerInv /\ ClosingInv
  OBVIOUS
<1>1. WorkerTypeOK
  <2>1. UNION {serving, pending, answered, lapsed} \subseteq Servers
    BY DEF WorkerInit
  <2>2. closings \in 0 .. Len(Closed[sample]) /\ lapses \in 0 .. MaxLapses
    BY WorkerAssumption, ClientLists DEF WorkerInit
  <2> QED BY <2>1, <2>2 DEF WorkerInit, WorkerTypeOK
<1> QED BY <1>1 DEF WorkerInit, WorkerInv, ClosingInv, EachIsClosed

LEMMA WorkerSteps ==
  ASSUME WorkerInv, ClosingInv, [WorkerNext]_workerVars
  PROVE  WorkerInv' /\ ClosingInv'
<1> USE WorkerAssumption, ClientLists DEF WorkerInv, WorkerTypeOK, ClosingInv, EachIsClosed
<1>1. ASSUME NEW s \in Servers, ServerUp(s) PROVE WorkerInv' /\ ClosingInv'
  BY <1>1 DEF ServerUp, progress
<1>2. ASSUME NEW s \in Servers, ServerDown(s) PROVE WorkerInv' /\ ClosingInv'
  BY <1>2 DEF ServerDown, progress
<1>3. CASE Terminate
  BY <1>3 DEF Terminate, progress, world
<1>4. ASSUME NEW s \in Servers, Probe(s) PROVE WorkerInv' /\ ClosingInv'
  BY <1>4 DEF Probe, world
<1>5. CASE Ready
  BY <1>5 DEF Ready, world
<1>6. ASSUME NEW s \in Servers, ConnectMcp(s) PROVE WorkerInv' /\ ClosingInv'
  BY <1>6 DEF ConnectMcp, world
<1>7. ASSUME NEW s \in Servers, ListTools(s) PROVE WorkerInv' /\ ClosingInv'
  BY <1>7 DEF ListTools, world
<1>8. CASE RunPipeline
  BY <1>8 DEF RunPipeline, progress, world
<1>9. CASE PipelineEnds
  BY <1>9 DEF PipelineEnds, progress, world
<1>10. CASE CloseClient
  BY <1>10 DEF CloseClient, progress, world
<1>11. CASE UNCHANGED workerVars
  BY <1>11 DEF workerVars
<1> QED
  BY <1>1, <1>2, <1>3, <1>4, <1>5, <1>6, <1>7, <1>8, <1>9, <1>10, <1>11 DEF WorkerNext, WorkerRuns

\* The worker's variables keep their types.
THEOREM WorkerTypes == WorkerSpec => []WorkerTypeOK
<1>1. WorkerInv => WorkerTypeOK
  BY DEF WorkerInv
<1> QED BY <1>1, WorkerStarts, WorkerSteps, PTL DEF WorkerSpec

\* StartStages in any order costs no tools: for any servers, of which any may have
\* tools, a render demo whose model misses the tools of one has lost that server
\* between its probe and the request.
THEOREM ToolsLost == WorkerSpec => []ToolsLostToLapse
<1>1. WorkerInv => ToolsLostToLapse
  BY DEF WorkerInv, ToolsLostToLapse
<1> QED BY <1>1, WorkerStarts, WorkerSteps, PTL DEF WorkerSpec

\* The simple sample calls close() on each of its clients, whichever of the calls
\* fail.
THEOREM ClientsClosed == WorkerSpec => []EachIsClosed
<1>1. ClosingInv => EachIsClosed
  BY DEF ClosingInv
<1> QED BY <1>1, WorkerStarts, WorkerSteps, PTL DEF WorkerSpec

-----------------------------------------------------------------------------
(* HubProcess: the container.                                              *)

\* Stages of a start, in which the handle of the "docker run" child is held.
StartStages == {"boot", "token", "cert", "pair", "web", "connect", "run"}

\* A container is in reach of the process that runs: its docker run is alive and
\* the exit hook has a handle on it, or the stop that took the handle is going on.
\* Only a process that was killed or gave up leaves one behind.
ContainerInv ==
  /\ stage \in StartStages \union {"off", "closing"}
  /\ stage # "off" /\ container # "none" => dockerRun = "alive"
  /\ stage \in StartStages => handle
  /\ stage = "closing" => docker # "idle" /\ (docker = "done" => container = "none")
  /\ docker = "going" => stage = "closing"
  /\ LeakNeedsTimeout

LEMMA ContainerStarts == HubInit => ContainerInv
  BY DEF HubInit, ContainerInv, LeakNeedsTimeout, StartStages

LEMMA ContainerSteps ==
  ASSUME ContainerInv, [HubNext]_hubVars
  PROVE  ContainerInv'
<1> USE DEF ContainerInv, LeakNeedsTimeout, StartStages, host, files, livekit, servers, process
<1>1. CASE StartHub
  BY <1>1 DEF StartHub
<1>2. CASE WaitReady
  BY <1>2 DEF WaitReady, DockerRunExited, PortFound, TeardownFailedStart, Gone
<1>3. CASE StartToken
  BY <1>3 DEF StartToken, Exit, Gone, AtExit
<1>4. CASE EnsureCert
  BY <1>4 DEF EnsureCert
<1>5. CASE WritePair
  BY <1>5 DEF WritePair
<1>6. CASE StartWeb
  BY <1>6 DEF StartWeb, WebBound, Exit, Gone, AtExit
<1>7. CASE Connect
  BY <1>7 DEF Connect, Exit, Gone, AtExit
<1>8. CASE BeginStop
  BY <1>8 DEF BeginStop, StopDocker
<1>9. CASE StopServers
  BY <1>9 DEF StopServers
<1>10. CASE DockerStopped
  BY <1>10 DEF DockerStopped
<1>11. CASE EndHub
  BY <1>11 DEF EndHub, Exit, Gone, AtExit
<1>12. CASE PortOpens
  BY <1>12 DEF PortOpens
<1>13. CASE ContainerExits
  BY <1>13 DEF ContainerExits
<1>14. CASE ConnectorEnds
  BY <1>14 DEF ConnectorEnds
<1>15. CASE Signal
  BY <1>15 DEF Signal
<1>16. CASE Killed
  BY <1>16 DEF Killed, Gone
<1>17. CASE InterruptStart
  BY <1>17 DEF InterruptStart, Exit, Gone, AtExit
<1>18. CASE Move
  BY <1>18 DEF Move
<1>19. CASE UNCHANGED hubVars
  BY <1>19 DEF hubVars
<1> QED
  BY <1>1, <1>2, <1>3, <1>4, <1>5, <1>6, <1>7, <1>8, <1>9, <1>10, <1>11, <1>12, <1>13, <1>14,
     <1>15, <1>16, <1>17, <1>18, <1>19 DEF HubNext, MainStep

\* However the hub ends, by an error of any step of its start, an interrupt, or a
\* stop that races the container's own end, no container stays on the host unless
\* the process was killed or its start gave up waiting for the port.
THEOREM NoLeak == HubSpec => []LeakNeedsTimeout
<1>1. ContainerInv => LeakNeedsTimeout
  BY DEF ContainerInv
<1> QED BY <1>1, ContainerStarts, ContainerSteps, PTL DEF HubSpec

-----------------------------------------------------------------------------
(* HubProcess: the certificate, and what is served.                        *)

\* The key is never missing where there is a certificate.  While the host has not
\* moved since a key was written, a certificate that is not its key's is one that
\* the next start renews, whatever start it is that was interrupted between the
\* two files.
PairInv ==
  /\ {starts, keyFile, certFile} \subseteq Nat
  /\ stage # "off" => starts # 0
  /\ keyFile = NoPair => certFile = NoPair
  /\ stage = "pair" => keyFile = NextPair
  /\ ~moved /\ keyFile # certFile => ~CertIsGood
  /\ MismatchNeedsMove

\* The servers that are asked for are bound at every later stage of the start.
ServedInv ==
  /\ stage \in {"cert", "pair", "web", "connect"} /\ "token" \in setting => token = "bound"
  /\ stage = "connect" /\ "web" \in setting => web = "bound"

LEMMA SecondFile == (CHOOSE f \in {"key", "cert"} : f # FirstFile) = "cert"
  BY DEF FirstFile

LEMMA PairStarts == HubInit => PairInv /\ ServedInv
  BY DEF HubInit, PairInv, ServedInv, MismatchNeedsMove, PairFits, CertIsGood, NoPair

LEMMA PairSteps ==
  ASSUME PairInv, ServedInv, [HubNext]_hubVars
  PROVE  PairInv' /\ ServedInv'
<1> USE DEF PairInv, ServedInv, MismatchNeedsMove, PairFits, CertIsGood, NextPair, NoPair,
            host, files, livekit, servers, process
<1>1. CASE StartHub
  BY <1>1 DEF StartHub
<1>2. CASE WaitReady
  BY <1>2 DEF WaitReady, DockerRunExited, PortFound, TeardownFailedStart, Gone
<1>3. CASE StartToken
  BY <1>3 DEF StartToken, Exit, Gone
<1>4. CASE EnsureCert
  BY <1>4 DEF EnsureCert, Write, FirstFile
<1>5. CASE WritePair
  BY <1>5, SecondFile DEF WritePair, Write
<1>6. CASE StartWeb
  BY <1>6 DEF StartWeb, WebBound, Exit, Gone
<1>7. CASE Connect
  BY <1>7 DEF Connect, Exit, Gone
<1>8. CASE BeginStop
  BY <1>8 DEF BeginStop
<1>9. CASE StopServers
  BY <1>9 DEF StopServers
<1>10. CASE DockerStopped
  BY <1>10 DEF DockerStopped
<1>11. CASE EndHub
  BY <1>11 DEF EndHub, Exit, Gone
<1>12. CASE PortOpens
  BY <1>12 DEF PortOpens
<1>13. CASE ContainerExits
  BY <1>13 DEF ContainerExits
<1>14. CASE ConnectorEnds
  BY <1>14 DEF ConnectorEnds
<1>15. CASE Signal
  BY <1>15 DEF Signal
<1>16. CASE Killed
  BY <1>16 DEF Killed, Gone
<1>17. CASE InterruptStart
  BY <1>17 DEF InterruptStart, Exit, Gone
<1>18. CASE Move
  BY <1>18 DEF Move
<1>19. CASE UNCHANGED hubVars
  BY <1>19 DEF hubVars
<1> QED
  BY <1>1, <1>2, <1>3, <1>4, <1>5, <1>6, <1>7, <1>8, <1>9, <1>10, <1>11, <1>12, <1>13, <1>14,
     <1>15, <1>16, <1>17, <1>18, <1>19 DEF HubNext, MainStep

\* The web server finds a key that is not its certificate's only on a host whose
\* addresses have changed since that key was written: a start killed between the
\* two files leaves nothing the next start would use, however many starts follow.
THEOREM InterruptedPairRenewed == HubSpec => []MismatchNeedsMove
<1>1. PairInv => MismatchNeedsMove
  BY DEF PairInv
<1> QED BY <1>1, PairStarts, PairSteps, PTL DEF HubSpec

\* The ready file appears only in a step after which every server that the
\* configuration asks for is bound.
THEOREM ReadyIsServed == HubSpec => ReadyMeansServed
<1>1. ASSUME ServedInv, [HubNext]_hubVars, ~readyFile, readyFile'
      PROVE  ("token" \in setting => token' = "bound") /\ ("web" \in setting => web' = "bound")
  <2>1. Connect
    BY <1>1
    DEF HubNext, MainStep, hubVars, StartHub, WaitReady, DockerRunExited, PortFound,
        TeardownFailedStart, StartToken, EnsureCert, WritePair, StartWeb, WebBound, BeginStop,
        StopServers, DockerStopped, EndHub, PortOpens, ContainerExits, ConnectorEnds, Signal,
        Killed, InterruptStart, Move, Exit, process
  <2> QED BY <1>1, <2>1 DEF Connect, Exit, ServedInv, servers
<1>2. ServedInv /\ [HubNext]_hubVars =>
        [~readyFile /\ readyFile' =>
           /\ "token" \in setting => token' = "bound"
           /\ "web" \in setting => web' = "bound"]_hubVars
  BY <1>1
<1> QED BY <1>2, PairStarts, PairSteps, PTL DEF HubSpec, ReadyMeansServed

-----------------------------------------------------------------------------
(* ManagedProcess.                                                         *)

\* A forwarder reads no line once the file is closed: the context closes it only
\* after both have ended.
ChildInv ==
  /\ ChildTypeOK
  /\ \A s \in Streams : Len(written[s]) <= MaxLines /\ taken[s] <= Len(written[s])
  /\ context \in {"cleanup", "closed"} => \A s \in Streams : forwarder[s] # "runs"
  /\ sink = "closed" => context = "closed"
  /\ FileIsComplete

LEMMA ChildStarts == ChildInit => ChildInv
<1> SUFFICES ASSUME ChildInit PROVE ChildInv
  OBVIOUS
<1>1. /\ \A s \in Streams : written[s] = <<>> /\ taken[s] = 0 /\ file[s] = {}
      /\ written \in [Streams -> Seq(Kinds)]
  BY DEF ChildInit
<1>2. ChildTypeOK
  <2>1. file \in [Streams -> SUBSET (1 .. MaxLines)] /\ terminal \in [Streams -> SUBSET (1 .. MaxLines)]
    BY DEF ChildInit
  <2>2. taken \in [Streams -> 0 .. MaxLines]
    BY ChildAssumption DEF ChildInit
  <2> QED BY <1>1, <2>1, <2>2 DEF ChildInit, ChildTypeOK
<1>3. FileIsComplete
  BY <1>1 DEF FileIsComplete
<1> QED BY <1>1, <1>2, <1>3, ChildAssumption DEF ChildInit, ChildInv

LEMMA TakeKeeps ==
  ASSUME ChildInv, NEW s \in Streams, Take(s)
  PROVE  ChildInv'
<1> DEFINE n == taken[s] + 1
<1>1. /\ n \in 1 .. MaxLines /\ n <= Len(written[s]) /\ written[s][n] \in Kinds
      /\ sink \in {"none", "open"}
  BY ChildAssumption DEF Take, Held, ChildInv, ChildTypeOK
<1>2. /\ taken' = [taken EXCEPT ![s] = n]
      /\ UNCHANGED <<prog, written, context, sink>>
      /\ forwarder[s] = "runs"
      /\ forwarder' \in {forwarder, [forwarder EXCEPT ![s] = "failed"]}
      /\ file' \in {file, [file EXCEPT ![s] = @ \union {n}]}
      /\ terminal' \in {terminal, [terminal EXCEPT ![s] = @ \union {n}]}
      /\ unwritable' \in BOOLEAN /\ (unwritable => unwritable')
  BY DEF Take, Route, ChildInv, ChildTypeOK
<1>3. ChildTypeOK'
  <2>1. /\ file' \in [Streams -> SUBSET (1 .. MaxLines)]
        /\ terminal' \in [Streams -> SUBSET (1 .. MaxLines)]
    <3>1. file \in [Streams -> SUBSET (1 .. MaxLines)] /\ terminal \in [Streams -> SUBSET (1 .. MaxLines)]
      BY DEF ChildInv, ChildTypeOK
    <3> HIDE DEF n
    <3> QED BY <1>1, <1>2, <3>1
  <2>2. taken' \in [Streams -> 0 .. MaxLines]
    BY <1>1, <1>2, ChildAssumption DEF ChildInv, ChildTypeOK
  <2>3. forwarder' \in [Streams -> {"runs", "ended", "failed", "cancelled", "over"}]
    BY <1>2 DEF ChildInv, ChildTypeOK
  <2> QED BY <1>2, <2>1, <2>2, <2>3 DEF ChildInv, ChildTypeOK
<1>4. FileIsComplete'
  <2> SUFFICES ASSUME sink # "none", ~unwritable', NEW t \in Streams
               PROVE  file'[t] = {m \in 1 .. taken'[t] : written[t][m] # "huge"}
    BY <1>2 DEF FileIsComplete
  <2>1. file[t] = {m \in 1 .. taken[t] : written[t][m] # "huge"} /\ taken[t] \in Nat
    BY <1>2 DEF ChildInv, ChildTypeOK, FileIsComplete
  <2>2. file' = IF written[s][n] = "huge" THEN file ELSE [file EXCEPT ![s] = @ \union {n}]
    BY <1>1 DEF Take, Route
  <2>3. CASE t # s
    BY <1>2, <2>1, <2>2, <2>3 DEF ChildInv, ChildTypeOK
  <2>4. CASE t = s
    <3>1. taken'[t] = taken[t] + 1 /\ n = taken[t] + 1
      BY <1>2, <2>4 DEF ChildInv, ChildTypeOK
    <3>2. 1 .. taken'[t] = (1 .. taken[t]) \union {n}
      BY <2>1, <3>1
    <3>3. file'[t] = IF written[t][n] = "huge" THEN file[t] ELSE file[t] \union {n}
      BY <2>2, <2>4 DEF ChildInv, ChildTypeOK
    <3> HIDE DEF n
    <3> QED BY <2>1, <3>2, <3>3
  <2> QED BY <2>3, <2>4
<1>5. \A t \in Streams : Len(written[t]) <= MaxLines /\ taken'[t] <= Len(written[t])
  BY <1>1, <1>2 DEF ChildInv, ChildTypeOK
<1> QED BY <1>1, <1>2, <1>3, <1>4, <1>5 DEF ChildInv, ChildTypeOK

LEMMA WriteKeeps ==
  ASSUME ChildInv, NEW s \in Streams, NEW kind \in Kinds, WriteLine(s, kind)
  PROVE  ChildInv'
<1>1. /\ written' = [written EXCEPT ![s] = Append(@, kind)]
      /\ UNCHANGED <<prog, taken, forwarder, context, sink, file, terminal, unwritable>>
      /\ Len(written[s]) < MaxLines
  BY DEF WriteLine
<1>2. /\ written' \in [Streams -> Seq(Kinds)]
      /\ Len(written'[s]) = Len(written[s]) + 1
      /\ \A t \in Streams : /\ Len(written[t]) \in Nat /\ Len(written[t]) <= Len(written'[t])
                            /\ \A m \in 1 .. Len(written[t]) : written'[t][m] = written[t][m]
                            /\ t # s => written'[t] = written[t]
  BY <1>1 DEF ChildInv, ChildTypeOK
<1>3. ChildTypeOK'
  BY <1>1, <1>2 DEF ChildInv, ChildTypeOK
<1>4. FileIsComplete'
  <2> SUFFICES ASSUME sink # "none", ~unwritable, NEW t \in Streams
               PROVE  file[t] = {m \in 1 .. taken[t] : written'[t][m] # "huge"}
    BY <1>1 DEF FileIsComplete
  <2>1. \A m \in 1 .. taken[t] : written'[t][m] = written[t][m]
    BY <1>2 DEF ChildInv, ChildTypeOK
  <2> QED BY <2>1 DEF ChildInv, FileIsComplete
<1>5. \A t \in Streams : Len(written'[t]) <= MaxLines /\ taken'[t] <= Len(written'[t])
  BY <1>1, <1>2, ChildAssumption DEF ChildInv, ChildTypeOK
<1> QED BY <1>1, <1>2, <1>3, <1>4, <1>5 DEF ChildInv

LEMMA ChildSteps ==
  ASSUME ChildInv, [ChildNext]_childVars
  PROVE  ChildInv'
<1> USE DEF ChildInv, ChildTypeOK, FileIsComplete
<1>1. CASE Quit
  BY <1>1 DEF Quit
<1>2. CASE Leave
  BY <1>2 DEF Leave, Cleanup
<1>3. CASE ChildTerminated
  BY <1>3 DEF ChildTerminated, Cleanup
<1>4. CASE CloseSink
  BY <1>4 DEF CloseSink
<1>5. ASSUME NEW s \in Streams, Take(s) PROVE ChildInv'
  BY <1>5, TakeKeeps
<1>6. ASSUME NEW s \in Streams, ForwarderEnds(s) PROVE ChildInv'
  BY <1>6 DEF ForwarderEnds
<1>7. ASSUME NEW s \in Streams, NEW kind \in Kinds, WriteLine(s, kind) PROVE ChildInv'
  BY <1>7, WriteKeeps
<1>8. CASE UNCHANGED childVars
  BY <1>8 DEF childVars
<1> QED BY <1>1, <1>2, <1>3, <1>4, <1>5, <1>6, <1>7, <1>8 DEF ChildNext

\* A log file that refused no line has every line that was read and can be, for
\* any number of lines and any size of the pipes: the end of the context does not
\* close it under a forwarder.
THEOREM LogComplete == ChildSpec => []FileIsComplete
<1>1. ChildInv => FileIsComplete
  BY DEF ChildInv
<1> QED BY <1>1, ChildStarts, ChildSteps, PTL DEF ChildSpec

-----------------------------------------------------------------------------
(* Services.                                                               *)

ServiceTypes ==
  /\ program \in Services
  /\ wrapper \in [Starts -> {"off", "check", "poll", "watch", "run", "wait", "ended"}]
  /\ server \in [Starts -> {"none", "check", "load", "bind", "serve", "watch", "close", "dead"}]
  /\ thread \in [Requests -> {Idle} \union [of : Starts, at : {"wait", "inside"}]]
  /\ lock \in [Starts -> Requests \union {Nobody}]

\* A thread inside a model that is not re-entrant holds that server's lock.
LockInv ==
  program \in Serializing =>
    \A r \in Requests : thread[r].at = "inside" => lock[thread[r].of] = r

\* A CloudXR wrapper polls and waits, and has ended only with its runtime.
RuntimeInv ==
  /\ program = "cloudxr" => \A w \in Starts : wrapper[w] \notin {"check", "watch"}
  /\ RuntimeStopped

ServiceInv == ServiceTypes /\ LockInv /\ RuntimeInv

LEMMA ServiceStarts == ServicesInit => ServiceInv
  BY DEF ServicesInit, ServiceInv, ServiceTypes, LockInv, RuntimeInv, RuntimeStopped, Idle

\* The end of a server takes its threads and its lock, and no other's.
LEMMA ThreadsGoneKeeps ==
  ASSUME ServiceTypes, LockInv, NEW w \in Starts, ThreadsGone(w), UNCHANGED program
  PROVE  /\ thread' \in [Requests -> {Idle} \union [of : Starts, at : {"wait", "inside"}]]
         /\ lock' \in [Starts -> Requests \union {Nobody}]
         /\ LockInv'
  BY DEF ServiceTypes, LockInv, ThreadsGone, Idle

LEMMA DiesKeeps ==
  ASSUME ServiceInv, NEW w \in Starts, Dies(w)
  PROVE  ServiceInv'
<1>1. ServiceTypes'
  BY ThreadsGoneKeeps DEF ServiceInv, ServiceTypes, Dies
<1>2. RuntimeInv'
  BY DEF ServiceInv, ServiceTypes, RuntimeInv, RuntimeStopped, Dies
<1> QED BY <1>1, <1>2, ThreadsGoneKeeps DEF ServiceInv, Dies

LEMMA RequestKeeps ==
  ASSUME ServiceInv, NEW r \in Requests,
         \/ Enter(r) \/ EnterVoice(r) \/ CallReturns(r) \/ \E w \in Starts : Ask(r, w)
  PROVE  ServiceInv'
<1>1. /\ UNCHANGED <<program, wrapper, server>>
      /\ thread[r] \in {Idle} \union [of : Starts, at : {"wait", "inside"}]
  BY DEF ServiceInv, ServiceTypes, Enter, EnterVoice, CallReturns, Ask
<1>2. ServiceTypes' /\ LockInv'
  <2>1. CASE Enter(r)
    BY <1>1, <2>1, ServicesAssumption DEF ServiceInv, ServiceTypes, LockInv, Enter, Idle
  <2>2. CASE EnterVoice(r)
    BY <1>1, <2>2 DEF ServiceInv, ServiceTypes, LockInv, EnterVoice, Serializing, Idle
  <2>3. CASE CallReturns(r)
    BY <1>1, <2>3, ServicesAssumption DEF ServiceInv, ServiceTypes, LockInv, CallReturns, Idle
  <2>4. ASSUME NEW w \in Starts, Ask(r, w) PROVE ServiceTypes' /\ LockInv'
    BY <1>1, <2>4 DEF ServiceInv, ServiceTypes, LockInv, Ask, Idle
  <2> QED BY <2>1, <2>2, <2>3, <2>4
<1> QED BY <1>1, <1>2 DEF ServiceInv, RuntimeInv, RuntimeStopped

LEMMA ServiceSteps ==
  ASSUME ServiceInv, [ServicesNext]_servicesVars
  PROVE  ServiceInv'
<1>1. ASSUME NEW w \in Starts,
             Start(w) \/ WrapperSteps(w) \/ RuntimeUp(w) \/ ProxyFails(w)
               \/ ServerChecks(w) \/ ServerWatches(w) \/ LoadModel(w)
      PROVE  ServiceInv'
  <2>1. UNCHANGED <<program, thread, lock>>
    BY <1>1 DEF Start, WrapperSteps, CheckFirst, Poll, Watch, WaitRuntime, RuntimeUp, ProxyFails,
                ServerChecks, ServerWatches, LoadModel
  <2>2. ServiceTypes'
    BY <1>1, <2>1
    DEF ServiceInv, ServiceTypes, Start, WrapperSteps, CheckFirst, Poll, Watch, WaitRuntime,
        RuntimeUp, ProxyFails, ServerChecks, ServerWatches, LoadModel, Wrapper, Server, Detached
  <2>3. RuntimeInv'
    BY ZenonT(40), <1>1, <2>1
    DEF ServiceInv, ServiceTypes, RuntimeInv, RuntimeStopped, Start, WrapperSteps, CheckFirst, Poll, Watch,
        WaitRuntime, RuntimeUp, ProxyFails, ServerChecks, ServerWatches, LoadModel, Wrapper,
        Server, Detached, Alone
  <2> QED BY <2>1, <2>2, <2>3 DEF ServiceInv, LockInv
<1>2. ASSUME NEW w \in Starts, EndService(w) PROVE ServiceInv'
  <2>1. CASE Alone /\ server[w] = "serve"
    BY <1>2, <2>1 DEF ServiceInv, ServiceTypes, LockInv, RuntimeInv, RuntimeStopped, EndService, Server, Alone
  <2>2. CASE ~(Alone /\ server[w] = "serve") /\ Detached
    BY <1>2, <2>2 DEF ServiceInv, ServiceTypes, LockInv, RuntimeInv, RuntimeStopped, EndService, Detached
  <2>3. CASE ~(Alone /\ server[w] = "serve") /\ ~Detached
    <3>1. ThreadsGone(w) /\ UNCHANGED program
      BY <1>2, <2>3 DEF EndService
    <3>2. ServiceTypes' /\ RuntimeInv'
      BY <1>2, <2>3, <3>1, ThreadsGoneKeeps
      DEF ServiceInv, ServiceTypes, RuntimeInv, RuntimeStopped, EndService
    <3> QED BY <3>1, <3>2, ThreadsGoneKeeps DEF ServiceInv
  <2> QED BY <2>1, <2>2, <2>3
<1>3. ASSUME NEW w \in Starts, ServerCrash(w) \/ LoadFails(w) \/ Drained(w) \/ Bind(w)
      PROVE  ServiceInv'
  <2>1. CASE Dies(w)
    BY <2>1, DiesKeeps
  <2>2. CASE Server(w, "bind", "serve") /\ UNCHANGED <<program, wrapper, thread, lock>>
    BY <2>2 DEF ServiceInv, ServiceTypes, LockInv, RuntimeInv, RuntimeStopped, Server
  <2> QED BY <1>3, <2>1, <2>2 DEF ServerCrash, LoadFails, Drained, Bind
<1>4. ASSUME NEW r \in Requests,
             \/ Enter(r) \/ EnterVoice(r) \/ CallReturns(r) \/ \E w \in Starts : Ask(r, w)
      PROVE  ServiceInv'
  BY <1>4, RequestKeeps
<1>5. CASE UNCHANGED servicesVars
  BY <1>5 DEF servicesVars, ServiceInv, ServiceTypes, LockInv, RuntimeInv, RuntimeStopped
<1> QED BY <1>1, <1>2, <1>3, <1>4, <1>5 DEF ServicesNext, ServerSteps

\* A speech model that is not re-entrant has one thread in it, for any number of
\* servers and requests: each thread inside is the one that its server's lock names,
\* wherever a server dies or is ended under its requests.
THEOREM ModelsNotShared == ServicesSpec => []OneInModel
<1>1. ServiceInv => OneInModel
  <2> SUFFICES ASSUME ServiceInv, program \in Serializing, NEW w \in Starts
               PROVE  Cardinality({r \in Requests : thread[r] = [of |-> w, at |-> "inside"]}) <= 1
    BY DEF OneInModel
  <2> DEFINE inside == {r \in Requests : thread[r] = [of |-> w, at |-> "inside"]}
  <2>1. inside \subseteq {lock[w]}
    BY DEF ServiceInv, LockInv
  <2>2. IsFiniteSet({lock[w]}) /\ Cardinality({lock[w]}) = 1
    BY FS_Singleton
  <2> QED BY <2>1, <2>2, FS_Subset
<1> QED BY <1>1, ServiceStarts, ServiceSteps, PTL DEF ServicesSpec

\* A CloudXR wrapper that has ended has stopped its runtime, on every way out.
THEOREM RuntimesStopped == ServicesSpec => []RuntimeStopped
<1>1. ServiceInv => RuntimeStopped
  BY DEF ServiceInv, RuntimeInv
<1> QED BY <1>1, ServiceStarts, ServiceSteps, PTL DEF ServicesSpec

-----------------------------------------------------------------------------
(* Stack.                                                                  *)

StackTypes ==
  /\ phase \in {"starting", "monitor", "stop", "reap", "killing", "gone"}
  /\ proc \in [Processes -> {"none", "starting", "waiting", "touched", "up",
                             "handling", "removing", "exited"}]
  /\ launched \in Seq(Range(launched))
  /\ index \in Nat \ {0}

\* The faults under which the launcher's shutdown need not run, or know a process.
Orderly == faults \intersect {"term", "untracked", "escape"} = {}

OwnRunning == {p \in Processes : Mode[p] = "own" /\ ~Exited(p)}

\* The launcher knows every process there is.
AllKnown == \A p \in Processes : proc[p] # "none" => p \in Range(launched)

\* What the first loop of the shutdown has passed is on its way out or ignores SIGTERM;
\* what the second has passed has ended.
Doomed(p) == p \in OwnRunning => proc[p] \in {"none", "handling", "removing"} \/ p \in Stubborn

Signalling == \A i \in 1 .. Len(launched) : i < index => Doomed(launched[i])

ShuttingDown ==
  /\ \A p \in Processes : Doomed(p)
  /\ \A i \in 1 .. Len(launched) : i < index => launched[i] \notin OwnRunning

StackInv ==
  /\ StackTypes
  /\ Orderly => /\ AllKnown
                /\ phase \in {"starting", "monitor"} => index = 1
                /\ phase = "stop" => Signalling
                /\ phase \in {"reap", "killing"} => ShuttingDown
                /\ phase = "killing" => launched[index] \notin OwnRunning
  /\ OwnProcessesStopped

\* launched[name] = ... : the name is the last of them.
LEMMA LaunchedAppend ==
  ASSUME NEW s, s \in Seq(Range(s)), NEW e
  PROVE  /\ Append(s, e) \in Seq(Range(Append(s, e)))
         /\ Range(Append(s, e)) = Range(s) \union {e}
<1> DEFINE t == Append(s, e)
<1>1. /\ s \in Seq(Range(s) \union {e}) /\ Len(s) \in Nat /\ DOMAIN s = 1 .. Len(s)
  BY DEF Range
<1>2. /\ t \in Seq(Range(s) \union {e}) /\ Len(t) = Len(s) + 1 /\ DOMAIN t = 1 .. Len(t)
      /\ \A i \in 1 .. Len(s) : t[i] = s[i]
      /\ t[Len(t)] = e
  BY <1>1
<1> HIDE DEF t
<1>3. Range(t) = Range(s) \union {e}
  BY <1>1, <1>2 DEF Range
<1> QED BY <1>2, <1>3 DEF t

LEMMA StackStarts == Init => StackInv
  BY DEF Init, StackInv, StackTypes, AllKnown, OwnProcessesStopped, Range

\* Steps of a process or its service: none begins, none that has exited comes back.
LEMMA ProcessKeeps ==
  ASSUME StackInv, NEW p \in Processes,
         Progress(p) \/ PlainExit(p) \/ Crash(p) \/ StopPersistent(p)
  PROVE  StackInv'
<1>1. /\ UNCHANGED <<faults, phase, launched, aborted, index>>
      /\ \/ UNCHANGED proc
         \/ /\ proc[p] \in {"starting", "waiting", "touched", "up"}
            /\ \E s \in {"waiting", "touched", "up", "exited"} : Become(p, s)
         \/ /\ proc[p] \in {"handling", "removing"}
            /\ \E s \in {"removing", "exited"} : Become(p, s)
  BY DEF launcherVars, Progress, PlainReady, PlainExit, StartService, Touch, Created, Load, Crash,
         Healthy, GiveUp, Restore, IdleExit, HandlerStop, HandlerRemove, StopPersistent
<1>2. StackTypes' /\ (Orderly' <=> Orderly)
  BY <1>1 DEF StackInv, StackTypes, Become, Orderly
<1>3. /\ \A q \in Processes : proc[q] = "none" <=> proc'[q] = "none"
      /\ \A q \in Processes : proc[q] = "exited" => proc'[q] = "exited"
  BY <1>1 DEF StackInv, StackTypes, Become
<1>4. Orderly => AllKnown'
  BY <1>1, <1>3 DEF StackInv, AllKnown
<1>5. /\ \A q \in Processes : q \in OwnRunning' => q \in OwnRunning
      /\ \A q \in Processes : Doomed(q) => Doomed(q)'
      /\ \A q : q \notin OwnRunning => q \notin OwnRunning'
  BY <1>1, <1>3 DEF StackInv, StackTypes, Doomed, OwnRunning, Exited, Become
<1>6. Orderly /\ phase = "stop" => Signalling'
  <2>1. \A q : Doomed(q) => Doomed(q)'
    BY <1>5 DEF Doomed, OwnRunning
  <2> QED BY <1>1, <2>1 DEF StackInv, Signalling
<1>7. Orderly /\ phase \in {"reap", "killing"} => ShuttingDown'
  BY <1>1, <1>5 DEF StackInv, ShuttingDown
<1>8. Orderly /\ phase = "killing" => launched[index] \notin OwnRunning'
  BY <1>5 DEF StackInv
<1>9. OwnProcessesStopped'
  BY <1>1, <1>3 DEF StackInv, OwnProcessesStopped, Unreached
<1> QED BY <1>1, <1>2, <1>4, <1>6, <1>7, <1>8, <1>9 DEF StackInv

\* The start and its ends: Spawn alone makes a process known as it begins.
LEMMA StartKeeps ==
  ASSUME StackInv,
         Launch \/ Spawn \/ GroupReady \/ GroupFailed \/ Interrupt \/ Monitor \/ InterruptSpawn
  PROVE  StackInv'
<1>1. CASE Launch
  <2>1. /\ launched' = <<>> /\ index' = 1 /\ phase' = "starting"
        /\ proc' = [p \in Processes |-> "none"] /\ faults' = faults
    BY <1>1 DEF Launch
  <2> QED BY <2>1 DEF StackInv, StackTypes, Orderly, AllKnown, OwnProcessesStopped, Range
<1>2. CASE Spawn
  <2>1. PICK p : /\ launched' = Append(launched, p) /\ proc' = [proc EXCEPT ![p] = "starting"]
                 /\ UNCHANGED <<faults, phase, index>> /\ phase = "starting"
    BY <1>2 DEF Spawn, Become, Starting
  <2>2. launched' \in Seq(Range(launched')) /\ Range(launched') = Range(launched) \union {p}
    BY <2>1, LaunchedAppend DEF StackInv, StackTypes
  <2>3. StackTypes'
    BY <2>1, <2>2 DEF StackInv, StackTypes
  <2>4. Orderly' => AllKnown'
    BY <2>1, <2>2 DEF StackInv, StackTypes, Orderly, AllKnown
  <2>5. Orderly' => index' = 1
    BY <2>1 DEF StackInv, Orderly
  <2> QED BY <2>1, <2>3, <2>4, <2>5 DEF StackInv, OwnProcessesStopped
<1>3. CASE GroupReady \/ GroupFailed \/ Interrupt \/ Monitor
  <2>1. /\ UNCHANGED <<faults, launched, index, proc>>
        /\ phase \in {"starting", "monitor"} /\ phase' \in {"starting", "monitor", "stop"}
    BY <1>3 DEF GroupReady, GroupFailed, Interrupt, Monitor, Starting
  <2>2. Orderly => index = 1
    BY <2>1 DEF StackInv
  <2>3. Orderly => Signalling'
    BY <2>1, <2>2 DEF Signalling
  <2> QED BY <2>1, <2>2, <2>3 DEF StackInv, StackTypes, Orderly, AllKnown, OwnProcessesStopped
<1>4. CASE InterruptSpawn
  <2>1. PICK p : /\ "untracked" \in faults /\ UNCHANGED <<faults, launched, index>> /\ phase' = "stop"
                 /\ proc' = [proc EXCEPT ![p] = "starting"]
    BY <1>4 DEF InterruptSpawn, Become
  <2> QED BY <2>1 DEF StackInv, StackTypes, Orderly, OwnProcessesStopped
<1> QED BY <1>1, <1>2, <1>3, <1>4

\* The shutdown.
LEMMA ShutdownKeeps ==
  ASSUME StackInv,
         \/ StopNext \/ BeginReap \/ Reap \/ KillDone \/ TimeOver \/ Return
         \/ Terminated \/ ForceKill \/ InterruptWait \/ InterruptShutdown
  PROVE  StackInv'
<1>0. /\ index \in Nat \ {0} /\ Len(launched) \in Nat
      /\ \A i \in 1 .. Len(launched) : launched[i] \in Range(launched)
      /\ \A p \in Range(launched) : \E i \in 1 .. Len(launched) : p = launched[i]
  BY DEF StackInv, StackTypes, Range
<1>1. CASE StopNext
  <2>7. PICK k : k = launched[index]
    OBVIOUS
  <2>8. index \in 1 .. Len(launched)
    BY <1>0, <1>1 DEF StopNext
  <2>1. PICK state \in {proc[k], "handling", "exited"} :
          /\ Signalled(k, state) /\ proc' = [proc EXCEPT ![k] = state]
          /\ phase = "stop" /\ phase' = "stop" /\ index' = index + 1 /\ k \in Range(launched)
          /\ UNCHANGED <<faults, launched, aborted>>
    BY <1>0, <1>1, <2>7, <2>8 DEF StopNext, Become
  <2>9. proc' = proc \/ state \in {"handling", "exited"}
    BY <2>1 DEF StackInv, StackTypes
  <2>2. StackTypes'
    <3>1. /\ proc \in [Processes -> {"none", "starting", "waiting", "touched", "up",
                                 "handling", "removing", "exited"}]
          /\ launched \in Seq(Range(launched)) /\ index + 1 \in Nat \ {0}
      BY <1>0 DEF StackInv, StackTypes
    <3>2. proc' \in [Processes -> {"none", "starting", "waiting", "touched", "up",
                                 "handling", "removing", "exited"}]
      BY <2>1, <2>9, <3>1
    <3> QED BY <2>1, <3>1, <3>2 DEF StackTypes
  <2>3. Orderly' => AllKnown'
    BY <2>1 DEF StackInv, StackTypes, Orderly, AllKnown
  <2>4. \A p : Doomed(p) => Doomed(p)'
    BY <2>1 DEF StackInv, StackTypes, Doomed, OwnRunning, Exited
  <2>5. Doomed(k)'
    <3>1. Mode[k] = "own" => k \notin Skip
      BY DEF Skip
    <3> QED BY <2>1, <3>1 DEF StackInv, StackTypes, Doomed, OwnRunning, Exited, Ended, Signalled
  <2>6. Orderly => Signalling'
    <3> SUFFICES ASSUME Orderly, NEW i \in 1 .. Len(launched), i < index + 1
                 PROVE  Doomed(launched[i])'
      BY <2>1 DEF Signalling
    <3>1. i < index \/ i = index
      BY <1>0
    <3>2. CASE i < index
      BY <2>1, <2>4, <3>2 DEF StackInv, Signalling
    <3>3. CASE i = index
      BY <2>1, <2>5, <2>7, <3>3
    <3> QED BY <3>1, <3>2, <3>3
  <2> QED BY <2>1, <2>2, <2>3, <2>6 DEF StackInv, Orderly, OwnProcessesStopped
<1>2. CASE BeginReap
  <2>1. /\ phase = "stop" /\ index > Len(launched) /\ phase' = "reap" /\ index' = 1
        /\ UNCHANGED <<faults, launched, proc>>
    BY <1>2 DEF BeginReap
  <2>2. Orderly => \A p \in Processes : Doomed(p)
    <3> SUFFICES ASSUME Orderly, NEW p \in Processes, proc[p] # "none" PROVE Doomed(p)
      BY DEF Doomed
    <3>1. PICK i \in 1 .. Len(launched) : p = launched[i]
      BY <1>0 DEF StackInv, AllKnown
    <3>2. i < index
      BY <1>0, <2>1
    <3> QED BY <2>1, <3>1, <3>2 DEF StackInv, Signalling
  <2>3. Orderly => ShuttingDown'
    BY <2>1, <2>2 DEF ShuttingDown, Doomed, OwnRunning, Exited
  <2> QED BY <2>1, <2>3 DEF StackInv, StackTypes, Orderly, AllKnown, OwnProcessesStopped
<1>7. CASE Reap \/ KillDone
  <2>1. /\ phase \in {"reap", "killing"} /\ phase' = "reap" /\ index' = index + 1
        /\ UNCHANGED <<faults, launched, aborted, proc>>
    BY <1>7 DEF Reap, Reaping, KillDone
  <2>2. Orderly => launched[index] \notin OwnRunning
    BY <1>7 DEF Reap, KillDone, Ended, Skip, OwnRunning, StackInv
  <2>3. Orderly => ShuttingDown'
    <3> SUFFICES ASSUME Orderly, NEW i \in 1 .. Len(launched), i < index + 1
                 PROVE  ShuttingDown /\ launched[i] \notin OwnRunning
      BY <2>1 DEF StackInv, ShuttingDown, Doomed, OwnRunning, Exited
    <3>1. i < index \/ i = index
      BY <1>0
    <3> QED BY <2>1, <2>2, <3>1 DEF StackInv, ShuttingDown
  <2> QED
    BY <1>0, <2>1, <2>3 DEF StackInv, StackTypes, Orderly, AllKnown, OwnProcessesStopped
<1>3. CASE Return
  <2>1. /\ phase = "reap" /\ index > Len(launched) /\ phase' = "gone"
        /\ UNCHANGED <<faults, launched, index, proc>>
    BY <1>3 DEF Return, Reaping, StackInv, StackTypes
  <2>2. Orderly => OwnRunning \subseteq {p \in Processes : proc[p] = "none"}
    BY <1>0, <2>1 DEF StackInv, AllKnown, ShuttingDown, OwnRunning
  <2> QED
    BY <2>1, <2>2
    DEF StackInv, StackTypes, Orderly, AllKnown, OwnProcessesStopped, OwnRunning, Exited
<1>4. CASE Terminated \/ InterruptShutdown
  <2>1. /\ "term" \in faults \/ "escape" \in faults
        /\ phase' = "gone" /\ UNCHANGED <<faults, launched, index, proc>>
    BY <1>4 DEF Terminated, InterruptShutdown
  <2> QED BY <2>1 DEF StackInv, StackTypes, Orderly, OwnProcessesStopped
<1>5. CASE ForceKill
  <2> DEFINE k == launched[index]
  <2>1. /\ phase = "reap" /\ k \in Stubborn /\ phase' = "gone"
        /\ \A p \in Range(launched) : Ended(p) \/ p \in Stubborn
        /\ proc' = [proc EXCEPT ![k] = "exited"]
        /\ UNCHANGED <<faults, launched, index>>
    BY <1>5 DEF ForceKill, Reaping, Become
  <2> HIDE DEF k
  <2>2. Orderly => \A p \in Processes : Mode[p] = "own" =>
                     proc'[p] \in {"none", "exited"} \/ p \in Stubborn \intersect Unreached
    <3> SUFFICES ASSUME Orderly, NEW p \in Processes, Mode[p] = "own", p # k,
                        proc[p] \notin {"none", "exited"}
                 PROVE  p \in Stubborn \intersect Unreached
      BY <2>1 DEF StackInv, StackTypes
    <3>1. PICK i \in 1 .. Len(launched) : p = launched[i]
      BY <1>0 DEF StackInv, AllKnown
    <3>2. p \in Stubborn
      BY <1>0, <2>1, <3>1 DEF Ended, Skip, Exited
    <3>3. i > index
      <4>1. p \in OwnRunning
        BY DEF OwnRunning, Exited
      <4>2. i # index /\ ~ (i < index)
        BY <2>1, <3>1, <4>1 DEF StackInv, ShuttingDown, k
      <4> QED BY <1>0, <4>2
    <3>4. i \in index + 1 .. Len(launched)
      BY <1>0, <3>3
    <3> QED BY <3>1, <3>2, <3>4 DEF Unreached
  <2>3. k \in Range(launched)
    BY <1>5 DEF ForceKill, Reaping, StackInv, StackTypes, Range, k
  <2>4. Orderly' => AllKnown'
    BY <2>1, <2>3 DEF StackInv, StackTypes, Orderly, AllKnown, Range
  <2>5. Unreached' = Unreached
    BY <2>1 DEF Unreached
  <2> QED BY <2>1, <2>2, <2>4, <2>5 DEF StackInv, StackTypes, Orderly, OwnProcessesStopped
<1>6. CASE InterruptWait
  <2> DEFINE k == launched[index]
  <2>1. /\ phase = "reap" /\ phase' = "killing" /\ k \in Range(launched)
        /\ proc' = [proc EXCEPT ![k] = "exited"]
        /\ UNCHANGED <<faults, launched, aborted, index>>
    BY <1>0, <1>6 DEF InterruptWait, Reaping, Become
  <2> HIDE DEF k
  <2>2. Orderly => AllKnown' /\ ShuttingDown' /\ k \notin OwnRunning'
    BY <2>1 DEF StackInv, StackTypes, AllKnown, ShuttingDown, Doomed, OwnRunning, Exited
  <2>3. k = launched'[index']
    BY <2>1 DEF k
  <2> QED BY <2>1, <2>2, <2>3 DEF StackInv, StackTypes, Orderly, OwnProcessesStopped
<1>8. CASE TimeOver
  <2>1. /\ phase = "killing" /\ phase' = "gone"
        /\ \A p \in Range(launched) : Ended(p) \/ p \in Stubborn
        /\ UNCHANGED <<faults, launched, index, proc>>
    BY <1>8 DEF TimeOver
  <2>2. Orderly => \A p \in Processes : Mode[p] = "own" =>
                     proc[p] \in {"none", "exited"} \/ p \in Stubborn \intersect Unreached
    <3> SUFFICES ASSUME Orderly, NEW p \in Processes, Mode[p] = "own", proc[p] \notin {"none", "exited"}
                 PROVE  p \in Stubborn \intersect Unreached
      OBVIOUS
    <3>1. PICK i \in 1 .. Len(launched) : p = launched[i]
      BY <1>0 DEF StackInv, AllKnown
    <3>2. p \in Stubborn
      BY <1>0, <2>1, <3>1 DEF Ended, Skip, Exited
    <3>3. p \in OwnRunning
      BY DEF OwnRunning, Exited
    <3>4. i # index /\ ~ (i < index)
      BY <2>1, <3>1, <3>3 DEF StackInv, ShuttingDown
    <3>5. i \in index + 1 .. Len(launched)
      BY <1>0, <3>4
    <3> QED BY <3>1, <3>2, <3>5 DEF Unreached
  <2>3. Unreached' = Unreached
    BY <2>1 DEF Unreached
  <2> QED BY <2>1, <2>2, <2>3 DEF StackInv, StackTypes, Orderly, AllKnown, OwnProcessesStopped
<1> QED BY <1>1, <1>2, <1>3, <1>4, <1>5, <1>6, <1>7, <1>8

LEMMA StackSteps == StackInv /\ [Next]_vars => StackInv'
<1> SUFFICES ASSUME StackInv, [Next]_vars PROVE StackInv'
  OBVIOUS
<1>1. CASE UNCHANGED vars
  BY <1>1
  DEF vars, StackInv, StackTypes, Orderly, AllKnown, Signalling, ShuttingDown, Doomed, OwnRunning,
      Exited, OwnProcessesStopped, Unreached
<1> QED
  BY <1>1, ProcessKeeps, StartKeeps, ShutdownKeeps DEF Next, LauncherStep, UserStep

\* However run_stack ends (a process that fails, Ctrl-C or SIGTERM at any point of
\* the start, further Ctrl-C in the waits of the shutdown), no process of its own
\* outlives it but those that ignore SIGTERM behind one that used up the time of the
\* loop: for any stack, any number of starts and of processes that ignore SIGTERM.
THEOREM NoProcessLeft == Spec => []OwnProcessesStopped
<1>1. StackInv => OwnProcessesStopped
  BY DEF StackInv
<1> QED BY <1>1, StackStarts, StackSteps, PTL DEF Spec

-----------------------------------------------------------------------------
(* The wrappers of the model servers and their services.                   *)

WrapTypes ==
  /\ child \in [Sources -> BOOLEAN]
  /\ service \in [Sources -> {"absent", "stopped", "starting", "healthy"}]
  /\ ready \subseteq Processes

\* A service is half started only while its wrapper waits for it or removes it; the one
\* a wrapper is idle for is healthy, or is no more.
Wraps(p) ==
  /\ p \in ready => proc[p] \notin {"none", "starting", "waiting"}
  /\ proc[p] \in {"touched", "up"} => ~ HalfStarted(p)
  /\ Backend[p] = "container" =>
       /\ HalfStarted(p) => proc[p] \in {"waiting", "handling"}
       /\ proc[p] = "waiting" /\ ~ child[p] => service[p] # "starting"
  /\ proc[p] \in {"handling", "removing"} => phase \in {"stop", "reap", "gone"} /\ p \notin Skip
  /\ proc[p] = "exited" /\ p \in ready /\ p \in Skip => service[p] # "healthy" /\ ~ HalfStarted(p)

\* After a start that was not aborted all are ready; what the shutdown does not skip is on
\* its way out, and has ended when the launcher is gone.
Known == Processes \intersect Range(launched)

Leaving(p) == p \in Skip \/ Plain(p) \/ proc[p] \in {"handling", "removing", "exited"}

Launched ==
  /\ phase = "starting" => Range(launched) \subseteq ready \union Members
  /\ phase # "starting" /\ ~ aborted => Range(launched) \subseteq ready
  /\ phase \in {"starting", "monitor"} => ~ aborted
  /\ phase # "killing" /\ (phase \in {"starting", "monitor"} => index = 1)
  /\ phase = "stop" =>
       \A i \in 1 .. Len(launched) : i < index /\ launched[i] \in Processes => Leaving(launched[i])
  /\ phase = "reap" =>
       /\ \A p \in Known : Leaving(p)
       /\ \A i \in 1 .. Len(launched) : i < index /\ launched[i] \in Processes => Ended(launched[i])
  /\ phase = "gone" => \A p \in Known : Plain(p) \/ Ended(p)

WrapInv == WrapTypes /\ (faults = {} => (\A p \in Sources : Wraps(p)) /\ Launched)

LEMMA WrapStarts == Init => WrapInv
<1> SUFFICES ASSUME Init PROVE WrapInv
  OBVIOUS
<1>1. WrapTypes
  BY DEF Init, WrapTypes
<1>2. ASSUME NEW p \in Sources PROVE Wraps(p)
  <2>1. p \in Processes /\ proc[p] = "none" /\ service[p] = "absent" /\ child[p] = FALSE /\ p \notin ready
    BY <1>2 DEF Init, Sources
  <2> QED BY <2>1 DEF Wraps, HalfStarted
<1>3. Launched
  BY DEF Init, Launched, Known, Range
<1> QED BY <1>1, <1>2, <1>3 DEF WrapInv

LEMMA StepTypes ==
  ASSUME StackInv, WrapTypes, [Next]_vars
  PROVE  WrapTypes'
<1>0. ready' \subseteq Processes
  <2>1. ready \subseteq Processes
    BY DEF WrapTypes
  <2>2. ASSUME NEW p \in Processes, Progress(p) \/ PlainExit(p) \/ Crash(p) \/ StopPersistent(p)
        PROVE  ready' = ready \/ ready' = ready \union {p}
    BY <2>2 DEF Progress, PlainReady, PlainExit, StartService, Touch, Created, Load, Crash,
         Healthy, GiveUp, Restore, IdleExit, HandlerStop, HandlerRemove, StopPersistent, Become
  <2>3. CASE LauncherStep \/ UserStep \/ UNCHANGED vars
    BY <2>1, <2>3 DEF LauncherStep, UserStep, vars, Launch, Spawn, GroupReady, GroupFailed, Monitor, StopNext,
     BeginReap, Reap, KillDone, TimeOver, Return, ForceKill, Interrupt, InterruptSpawn, Terminated, InterruptWait,
     InterruptShutdown
  <2> QED BY <2>1, <2>2, <2>3 DEF Next
<1>1. CASE UNCHANGED << child, service >>
  BY <1>0, <1>1 DEF WrapTypes
<1>2. ASSUME NEW p \in Processes, Progress(p) \/ Crash(p) \/ StopPersistent(p), ~ UNCHANGED << child, service >>
      PROVE  WrapTypes'
  <2>1. ~ Plain(p) => p \in Sources
    BY DEF Plain, Sources
  <2>2. service \in [Sources -> {"absent", "stopped", "starting", "healthy"}] /\ child \in [Sources -> BOOLEAN]
    BY DEF WrapTypes
  <2>3. ASSUME NEW x PROVE LET f == [service EXCEPT ![p] = x] IN
            x \in {"absent", "stopped", "starting", "healthy"} \/ p \notin Sources \/ x = service[p]
            => f \in [Sources -> {"absent", "stopped", "starting", "healthy"}]
    BY <2>2
  <2>4. ASSUME NEW b \in BOOLEAN PROVE [child EXCEPT ![p] = b] \in [Sources -> BOOLEAN]
    BY <2>2
  <2>5. /\ child' = child \/ \E b \in BOOLEAN : child' = [child EXCEPT ![p] = b]
        /\ \/ service' = service
           \/ \E s \in {"absent", "stopped", "starting", "healthy", service[p]} : service' = [service EXCEPT ![p] = s]
    <3>1. CASE StartService(p)
      BY <3>1 DEF StartService, Touch
    <3>2. CASE Crash(p) \/ StopPersistent(p)
      BY <3>2 DEF Crash, StopPersistent
    <3>3. CASE HandlerStop(p) \/ HandlerRemove(p)
      BY <3>3 DEF HandlerStop, HandlerRemove
    <3>4. CASE Created(p) \/ Load(p)
      BY <3>4 DEF Created, Load
    <3> QED BY <1>2, <3>1, <3>2, <3>3, <3>4 DEF Progress, PlainReady, Healthy, Touch, GiveUp, Restore, IdleExit
  <2> QED BY <1>0, <2>2, <2>3, <2>4, <2>5 DEF WrapTypes
<1> QED
  BY <1>1, <1>2 DEF Next, LauncherStep, UserStep, vars, Launch, Spawn, GroupReady, GroupFailed, Monitor, StopNext,
     BeginReap, Reap, KillDone, TimeOver, Return, ForceKill, Interrupt, InterruptSpawn, Terminated, InterruptWait,
     InterruptShutdown, PlainExit

\* What a step of a wrapper or its service does, for the wrapper itself.
LEMMA OwnStepWraps ==
  ASSUME StackInv, WrapTypes, "late" \notin faults, NEW p \in Sources, Wraps(p),
         Progress(p) \/ PlainExit(p) \/ Crash(p) \/ StopPersistent(p)
  PROVE  Wraps(p)'
<1>1. /\ p \in Processes /\ ~ Plain(p) /\ proc \in [Processes -> {"none", "starting", "waiting", "touched", "up",
                                                          "handling", "removing", "exited"}]
      /\ child \in [Sources -> BOOLEAN]
      /\ service \in [Sources -> {"absent", "stopped", "starting", "healthy"}]
  BY DEF Sources, Plain, StackInv, StackTypes, WrapTypes
<1>2. UNCHANGED << phase, aborted >> /\ (p \in Skip' <=> p \in Skip)
  BY DEF launcherVars, Progress, PlainReady, PlainExit, StartService, Created, Load, Crash,
         Healthy, GiveUp, Restore, IdleExit, HandlerStop, HandlerRemove, StopPersistent, Skip
<1>3. CASE StartService(p)
  <2>1. proc[p] = "starting"
    BY <1>3 DEF StartService
  <2>2. CASE /\ service[p] = "healthy" /\ Touch(p) /\ UNCHANGED << child, service >>
    BY <1>1, <1>2, <2>1, <2>2 DEF Wraps, Touch, Become, HalfStarted
  <2>3. CASE /\ service[p] # "healthy" /\ Become(p, "waiting") /\ UNCHANGED ready
             /\ child' = [child EXCEPT ![p] = service[p] # "starting"]
             /\ service' = [service EXCEPT ![p] = IF Backend[p] = "detached" THEN "starting" ELSE service[p]]
    <3>1. proc'[p] = "waiting" /\ (child'[p] <=> service[p] # "starting")
          /\ (Backend[p] = "container" => service'[p] = service[p])
      BY <1>1, <2>3 DEF Become
    <3>2. p \notin ready
      BY <2>1 DEF Wraps
    <3> QED BY <2>1, <2>3, <3>1, <3>2 DEF Wraps, HalfStarted
  <2> QED BY <1>3, <2>2, <2>3 DEF StartService
<1>4. CASE Created(p) \/ Load(p)
  BY <1>1, <1>2, <1>4 DEF Created, Load, Wraps, HalfStarted
<1>5. CASE Healthy(p) \/ GiveUp(p)
  BY <1>1, <1>2, <1>5 DEF Healthy, GiveUp, Touch, Become, Wraps, HalfStarted
<1>6. CASE Restore(p) \/ IdleExit(p)
  BY <1>1, <1>2, <1>6 DEF Restore, IdleExit, Become, Wraps, HalfStarted
<1>7. CASE HandlerStop(p) \/ HandlerRemove(p)
  BY <1>1, <1>2, <1>7 DEF HandlerStop, HandlerRemove, Become, Wraps, HalfStarted
<1>8. CASE Crash(p) \/ StopPersistent(p)
  BY <1>1, <1>2, <1>8 DEF Crash, StopPersistent, Wraps, HalfStarted
<1> QED BY <1>1, <1>3, <1>4, <1>5, <1>6, <1>7, <1>8 DEF Progress, PlainReady, PlainExit

LEMMA ProcessWraps ==
  ASSUME StackInv, WrapInv, faults = {}, NEW p \in Processes,
         Progress(p) \/ PlainExit(p) \/ Crash(p) \/ StopPersistent(p)
  PROVE  (\A q \in Sources : Wraps(q)') /\ Launched'
<1>1. /\ UNCHANGED << phase, item, launched, aborted, index >>
      /\ ready' = ready \/ ready' = ready \union {p}
      /\ proc' = proc \/ \E x : proc' = [proc EXCEPT ![p] = x]
      /\ service' = service \/ \E x : service' = [service EXCEPT ![p] = x]
      /\ child' = child \/ \E x : child' = [child EXCEPT ![p] = x]
  BY DEF launcherVars, Progress, PlainReady, PlainExit, StartService, Touch, Created, Load, Crash,
         Healthy, GiveUp, Restore, IdleExit, HandlerStop, HandlerRemove, StopPersistent, Become
<1>2. ASSUME NEW q \in Sources PROVE Wraps(q)'
  <2>1. CASE q = p
    BY <2>1, OwnStepWraps DEF WrapInv
  <2>2. CASE q # p
    <3>1. proc'[q] = proc[q] /\ service'[q] = service[q] /\ child'[q] = child[q] /\ (q \in ready' <=> q \in ready)
      BY <1>1, <2>2 DEF StackInv, StackTypes, WrapInv, WrapTypes, Sources
    <3> QED BY <1>1, <3>1 DEF WrapInv, Wraps, HalfStarted, Skip
  <2> QED BY <2>1, <2>2
<1>3. \A q \in Processes : /\ proc[q] = "exited" => proc'[q] = "exited"
                           /\ proc[q] \in {"handling", "removing"} => proc'[q] \in {"handling", "removing", "exited"}
  BY DEF launcherVars, Progress, PlainReady, PlainExit, StartService, Touch, Created, Load, Crash,
         Healthy, GiveUp, Restore, IdleExit, HandlerStop, HandlerRemove, StopPersistent, Become, StackInv, StackTypes
<1>4. ready \subseteq ready' /\ Known' = Known /\ Members' = Members /\ Skip' = Skip
  BY <1>1 DEF Known, Members, Skip
<1>5. Launched'
  <2>1. Launched
    BY DEF WrapInv
  <2>2. \A q \in Processes : Ended(q) => (q \in Skip \/ proc'[q] = "exited")
    BY <1>3 DEF Ended, Exited
  <2>6. /\ \A q \in Processes : Leaving(q) => Leaving(q)'
        /\ phase # "killing" /\ (phase \in {"starting", "monitor"} => index = 1)
    BY <1>1, <1>3, <1>4, <2>1 DEF Leaving, Launched, Plain
  <2>7. phase = "stop" =>
          \A i \in 1 .. Len(launched) : i < index /\ launched[i] \in Processes => Leaving(launched[i])'
    BY <1>1, <2>1, <2>6 DEF Launched
  <2>3. phase = "reap" =>
          /\ \A q \in Known : Leaving(q)'
          /\ \A i \in 1 .. Len(launched) :
               i < index /\ launched[i] \in Processes => launched[i] \in Skip \/ proc'[launched[i]] = "exited"
    BY <1>3, <2>1, <2>2, <2>6 DEF Launched, Known
  <2>4. phase = "gone" => \A q \in Known : Plain(q) \/ q \in Skip \/ proc'[q] = "exited"
    BY <2>1, <2>2 DEF Launched, Known
  <2>5. /\ phase = "starting" => Range(launched) \subseteq ready' \union Members
        /\ phase # "starting" /\ ~ aborted => Range(launched) \subseteq ready'
        /\ phase \in {"starting", "monitor"} => ~ aborted
    BY <1>4, <2>1 DEF Launched
  <2> QED BY <1>1, <1>4, <2>3, <2>4, <2>5, <2>6, <2>7 DEF Launched, Ended, Exited, Plain
<1> QED BY <1>2, <1>5

\* The start: what is spawned is a member of the group, and a group is passed when its
\* members are ready.
LEMMA StartWraps ==
  ASSUME StackInv, WrapInv, faults = {},
         Launch \/ Spawn \/ GroupReady \/ GroupFailed \/ Interrupt \/ Monitor
  PROVE  (\A q \in Sources : Wraps(q)') /\ Launched'
<1>1. \A q \in Sources : q \in Processes
  BY DEF Sources
<1>2. CASE Launch
  <2>1. /\ launched' = <<>> /\ phase' = "starting" /\ ready' = {} /\ proc' = [q \in Processes |-> "none"]
        /\ UNCHANGED << child, service >> /\ phase = "gone"
    BY <1>2 DEF Launch
  <2>2. ASSUME NEW q \in Sources PROVE Wraps(q)'
    <3>1. proc'[q] = "none" /\ q \notin ready'
      BY <1>1, <2>1
    <3>2. Backend[q] = "container" => ~ HalfStarted(q)
      <4> SUFFICES ASSUME Backend[q] = "container", HalfStarted(q) PROVE FALSE
        OBVIOUS
      <4>1. proc[q] \in {"waiting", "handling"} /\ q \in Processes
        BY <1>1 DEF WrapInv, Wraps
      <4> QED BY <1>2, <4>1 DEF Launch
    <3> QED BY <2>1, <3>1, <3>2 DEF Wraps, HalfStarted
  <2>3. Launched'
    <3>1. Range(launched') = {} /\ aborted' = FALSE /\ index' = 1
      BY <1>2 DEF Launch, Range
    <3> QED BY <2>1, <3>1 DEF Launched
  <2> QED BY <2>2, <2>3
<1>3. CASE Spawn
  <2>1. PICK p : /\ p \in ToSpawn /\ launched' = Append(launched, p) /\ proc' = [proc EXCEPT ![p] = "starting"]
                 /\ UNCHANGED << phase, item, aborted, index, ready, child, service >> /\ phase = "starting"
    BY <1>3 DEF Spawn, Become, Starting
  <2>2. p \in Members /\ p \notin Range(launched) /\ Range(launched') = Range(launched) \union {p}
    BY <2>1, LaunchedAppend DEF ToSpawn, StackInv, StackTypes
  <2>3. ASSUME NEW q \in Sources PROVE Wraps(q)'
    <3>1. CASE q = p
      <4>1. proc[q] = "none" /\ proc'[q] = "starting"
        BY <1>1, <2>1, <2>2, <3>1 DEF StackInv, StackTypes, AllKnown, Orderly
      <4> QED BY <2>1, <4>1 DEF WrapInv, Wraps, HalfStarted
    <3>2. CASE q # p
      <4>1. proc'[q] = proc[q]
        BY <1>1, <2>1, <3>2 DEF StackInv, StackTypes
      <4> QED BY <2>1, <4>1 DEF WrapInv, Wraps, HalfStarted, Skip
    <3> QED BY <3>1, <3>2
  <2>4. Launched'
    BY <2>1, <2>2 DEF WrapInv, Launched, Members
  <2> QED BY <2>3, <2>4
<1>4. CASE GroupReady
  <2>1. /\ Members \subseteq ready /\ phase = "starting" /\ phase' \in {"starting", "stop", "monitor"}
        /\ UNCHANGED << launched, aborted, index, ready, proc, child, service >>
    BY <1>4 DEF GroupReady, Starting
  <2> QED BY <2>1 DEF WrapInv, Launched, Wraps, HalfStarted, Skip
<1>5. CASE GroupFailed \/ Interrupt \/ Monitor
  <2>1. /\ phase \in {"starting", "monitor"} /\ phase' = "stop"
        /\ phase = "starting" => aborted'
        /\ phase = "monitor" => ~ aborted' /\ ~ aborted
        /\ UNCHANGED << launched, index, ready, proc, child, service >>
    <3>1. phase = "monitor" => ~ aborted
      BY DEF WrapInv, Launched
    <3>2. CASE GroupFailed
      BY <3>2 DEF GroupFailed, Starting
    <3>3. CASE Interrupt
      BY <3>1, <3>3 DEF Interrupt, Starting
    <3>4. CASE Monitor
      BY <3>1, <3>4 DEF Monitor
    <3> QED BY <1>5, <3>2, <3>3, <3>4
  <2>2. Skip' \subseteq Skip
    BY <2>1 DEF Skip
  <2>3. ASSUME NEW q \in Sources PROVE Wraps(q)'
    BY <2>1, <2>2 DEF WrapInv, Wraps, HalfStarted
  <2>4. Launched'
    BY <2>1 DEF WrapInv, Launched
  <2> QED BY <2>3, <2>4
<1> QED BY <1>2, <1>3, <1>4, <1>5

\* The shutdown, when no fault interferes with it.
LEMMA ShutdownWraps ==
  ASSUME StackInv, WrapInv, faults = {}, StopNext \/ BeginReap \/ Reap \/ KillDone \/ TimeOver \/ Return \/ ForceKill
  PROVE  (\A q \in Sources : Wraps(q)') /\ Launched'
<1>1. /\ \A q \in Sources : q \in Processes /\ ~ Plain(q) /\ q \notin Stubborn
      /\ \A q \in Stubborn : Plain(q)
      /\ proc \in [Processes -> {"none", "starting", "waiting", "touched", "up", "handling", "removing", "exited"}]
  BY ConstantsAssumption DEF Sources, Plain, StackInv, StackTypes
<1>6. index \in Nat \ {0} /\ Len(launched) \in Nat
  BY DEF StackInv, StackTypes
<1>2. CASE StopNext
  <2>7. PICK k : k = launched[index]
    OBVIOUS
  <2>1. PICK state \in {proc[k], "handling", "exited"} :
          /\ Signalled(k, state) /\ proc' = [proc EXCEPT ![k] = state]
          /\ phase = "stop" /\ phase' = "stop" /\ index' = index + 1
          /\ UNCHANGED << launched, aborted, ready, child, service >>
    BY <1>2, <2>7 DEF StopNext, Become
  <2>2. Skip' = Skip /\ Known' = Known /\ \A q : Plain(q)' <=> Plain(q)
    BY <2>1 DEF Skip, Known, Plain
  <2>3. \/ proc' = proc
        \/ /\ k \notin Skip /\ state \in {"handling", "exited"}
           /\ Backend[k] = "container" /\ state = "exited" => proc[k] \in {"starting", "up"}
    BY <1>1, <2>1 DEF Signalled, HandlersOff, HandlersOn, Ended
  <2>4. ASSUME NEW q \in Sources PROVE Wraps(q)'
    <3>1. Wraps(q)
      BY DEF WrapInv
    <3>2. CASE proc'[q] = proc[q]
      BY <2>1, <2>2, <3>1, <3>2 DEF Wraps, HalfStarted
    <3>3. CASE proc'[q] # proc[q]
      <4>1. q = k /\ proc'[k] = state
        BY <1>1, <2>1, <3>3
      <4>2. /\ q \notin Skip /\ proc'[q] \in {"handling", "exited"}
            /\ Backend[q] = "container" /\ proc'[q] = "exited" => proc[q] \in {"starting", "up"}
        BY <2>3, <3>3, <4>1
      <4> QED BY <2>1, <2>2, <3>1, <4>2 DEF Wraps, HalfStarted
    <3> QED BY <3>2, <3>3
  <2>5. ASSUME NEW i \in 1 .. Len(launched), i < index + 1, launched[i] \in Processes
        PROVE  Leaving(launched[i])'
    <3>1. \A q \in Processes : Leaving(q) => Leaving(q)'
      BY <1>1, <2>1, <2>2, <2>3 DEF Leaving
    <3>2. CASE i < index
      BY <2>1, <2>5, <3>1, <3>2 DEF WrapInv, Launched
    <3>3. CASE i = index
      <4>1. k \in Processes /\ launched[i] = k
        BY <2>5, <2>7, <3>3
      <4>2. k \in Skip \/ Plain(k) \/ proc'[k] \in {"handling", "removing", "exited"}
        BY <1>1, <2>1, <4>1 DEF Signalled, Ended, Exited
      <4> QED BY <2>1, <2>2, <4>1, <4>2 DEF Leaving
    <3> QED BY <1>6, <2>5, <3>2, <3>3
  <2>6. Launched'
    <3>1. ~ aborted => Range(launched) \subseteq ready
      BY <2>1 DEF WrapInv, Launched
    <3> QED BY <2>1, <2>5, <3>1 DEF Launched
  <2> QED BY <2>4, <2>6
<1>7. CASE BeginReap
  <2>1. /\ phase = "stop" /\ phase' = "reap" /\ index' = 1 /\ index > Len(launched)
        /\ UNCHANGED << launched, aborted, ready, proc, child, service >>
    BY <1>7 DEF BeginReap
  <2>2. ASSUME NEW q \in Known PROVE Leaving(q)
    <3>1. PICK i \in 1 .. Len(launched) : q = launched[i]
      BY DEF Known, Range, StackInv, StackTypes
    <3>2. i < index /\ launched[i] \in Processes
      BY <1>6, <2>1, <3>1 DEF Known
    <3> QED BY <2>1, <3>1, <3>2 DEF WrapInv, Launched
  <2>3. Launched'
    BY <2>1, <2>2 DEF WrapInv, Launched, Known, Leaving, Skip, Plain
  <2>4. \A q \in Sources : Wraps(q)'
    BY <2>1 DEF WrapInv, Wraps, HalfStarted, Skip
  <2> QED BY <2>3, <2>4
<1>8. CASE KillDone
  BY <1>8 DEF KillDone, WrapInv, Launched
<1>9. CASE TimeOver
  BY <1>9 DEF TimeOver, WrapInv, Launched
<1>3. CASE Reap
  <2>1. /\ phase = "reap" /\ index' = index + 1 /\ Ended(launched[index])
        /\ UNCHANGED << phase, launched, aborted, ready, proc, child, service >>
    BY <1>3 DEF Reap, Reaping
  <2>2. ASSUME NEW i \in 1 .. Len(launched), i < index + 1, launched[i] \in Processes PROVE Ended(launched[i])
    BY <2>1, <2>2 DEF WrapInv, Launched, StackInv, StackTypes
  <2>3. Launched'
    BY <2>1, <2>2 DEF WrapInv, Launched, Known, Leaving, Ended, Exited, Skip, Plain
  <2>4. \A q \in Sources : Wraps(q)'
    BY <2>1 DEF WrapInv, Wraps, HalfStarted, Skip
  <2> QED BY <2>3, <2>4
<1>4. CASE Return
  <2>1. /\ phase = "reap" /\ ~ (index <= Len(launched)) /\ phase' = "gone"
        /\ UNCHANGED << launched, aborted, index, ready, proc, child, service >>
    BY <1>4 DEF Return, Reaping
  <2>2. ASSUME NEW q \in Known PROVE Ended(q)
    <3>1. PICK i \in 1 .. Len(launched) : q = launched[i]
      BY DEF Known, Range, StackInv, StackTypes
    <3>2. i < index /\ launched[i] \in Processes
      BY <2>1, <3>1 DEF Known, StackInv, StackTypes
    <3> QED BY <2>1, <3>1, <3>2 DEF WrapInv, Launched
  <2>3. Launched'
    BY <2>1, <2>2 DEF WrapInv, Launched, Known, Ended, Exited, Skip
  <2>4. \A q \in Sources : Wraps(q)'
    BY <2>1 DEF WrapInv, Wraps, HalfStarted, Skip
  <2> QED BY <2>3, <2>4
<1>5. CASE ForceKill
  <2>1. PICK k : k = launched[index]
    OBVIOUS
  <2>2. /\ phase = "reap" /\ k \in Stubborn /\ phase' = "gone" /\ proc' = [proc EXCEPT ![k] = "exited"]
        /\ \A p \in Range(launched) : Ended(p) \/ p \in Stubborn
        /\ UNCHANGED << launched, aborted, index, ready, child, service >>
    BY <1>5, <2>1 DEF ForceKill, Reaping, Become
  <2>3. \A q \in Processes : q \notin Stubborn => proc'[q] = proc[q]
    BY <1>1, <2>2
  <2>4. \A q \in Sources : Wraps(q)'
    BY <1>1, <2>2, <2>3 DEF WrapInv, Wraps, HalfStarted, Skip
  <2>5. Launched'
    <3>1. ASSUME NEW q \in Known PROVE Plain(q) \/ Ended(q)'
      BY <1>1, <2>2, <2>3 DEF Known, Ended, Exited, Skip
    <3>2. Known' = Known /\ \A q : Plain(q)' <=> Plain(q)
      BY <2>2 DEF Known, Plain
    <3>3. ~ aborted => Range(launched) \subseteq ready
      BY <2>2 DEF WrapInv, Launched
    <3> QED BY <2>2, <3>1, <3>2, <3>3 DEF Launched
  <2> QED BY <2>4, <2>5
<1> QED BY <1>2, <1>3, <1>4, <1>5, <1>7, <1>8, <1>9

LEMMA WrapSteps == StackInv /\ WrapInv /\ [Next]_vars => WrapInv'
<1> SUFFICES ASSUME StackInv, WrapInv, [Next]_vars PROVE WrapInv'
  OBVIOUS
<1>1. WrapTypes'
  BY StepTypes DEF WrapInv
<1>2. faults' = faults
  BY DEF Next, LauncherStep, UserStep, vars, launcherVars, Launch, Spawn, GroupReady, GroupFailed, Monitor, StopNext,
     BeginReap, Reap, KillDone, TimeOver, Return, ForceKill, Interrupt, InterruptSpawn, Terminated, InterruptWait,
     InterruptShutdown, Progress, PlainReady, PlainExit,
     StartService, Created, Load, Crash, Healthy, GiveUp, Restore, IdleExit, HandlerStop, HandlerRemove, StopPersistent
<1>3. ASSUME faults = {} PROVE (\A q \in Sources : Wraps(q)') /\ Launched'
  <2>1. CASE UNCHANGED vars
    BY <1>3, <2>1 DEF vars, Leaving, WrapInv, Wraps, HalfStarted, Skip, Launched, Known, Members, Ended, Exited, Plain
  <2>2. ~ InterruptSpawn /\ ~ Terminated /\ ~ InterruptWait /\ ~ InterruptShutdown
    BY <1>3 DEF InterruptSpawn, Terminated, InterruptWait, InterruptShutdown
  <2> QED BY <1>3, <2>1, <2>2, ProcessWraps, StartWraps, ShutdownWraps DEF Next, LauncherStep, UserStep
<1> QED BY <1>1, <1>2, <1>3 DEF WrapInv

LEMMA StackStays == Spec => [](StackInv /\ WrapInv)
BY StackStarts, StackSteps, WrapStarts, WrapSteps, PTL DEF Spec

\* When run_stack is over, no container is on its way to readiness, wherever its wrapper
\* was when it was stopped: the signal handler of the docker wrapper together with the
\* abort of run_stack, which signals the wrappers that persist too.
THEOREM NoContainerHalfStarted == Spec => []ContainersTornDown
<1>1. StackInv /\ WrapInv => ContainersTornDown
  <2> SUFFICES ASSUME StackInv, WrapInv, phase = "gone", faults = {},
                      NEW p \in Sources, Backend[p] = "container", HalfStarted(p)
               PROVE  FALSE
    BY DEF ContainersTornDown
  <2>1. p \in Processes /\ ~ Plain(p) /\ Wraps(p) /\ Launched
    BY DEF Sources, Plain, WrapInv
  <2>2. proc[p] \in {"waiting", "handling"}
    BY <2>1 DEF Wraps
  <2>3. p \in Known
    BY <2>1, <2>2 DEF Known, StackInv, AllKnown, Orderly
  <2>4. p \in Skip
    BY <2>1, <2>2, <2>3 DEF Launched, Ended, Exited
  <2>5. p \in ready
    BY <2>1, <2>3, <2>4 DEF Launched, Known, Skip
  <2> QED BY <2>1, <2>2, <2>4, <2>5 DEF Wraps
<1> QED BY <1>1, StackStays, PTL

\* After an end that is no abort, a wrapper that persists has gone only if its service has.
THEOREM PersistentOutlive == Spec => []PersistOutlives
<1>1. StackInv /\ WrapInv => PersistOutlives
  <2> SUFFICES ASSUME WrapInv, phase = "gone", ~ aborted, faults = {},
                      NEW p \in Range(launched), Mode[p] = "persist", Exited(p)
               PROVE  service[p] # "healthy"
    BY DEF PersistOutlives
  <2>1. Launched
    BY DEF WrapInv
  <2>2. p \in ready
    BY <2>1 DEF Launched
  <2>3. p \in Sources
    <3>1. p \in Processes
      BY <2>2 DEF WrapInv, WrapTypes
    <3> QED BY <3>1, ConstantsAssumption DEF Sources
  <2>4. Wraps(p) /\ p \in Skip /\ proc[p] = "exited"
    BY <2>3 DEF WrapInv, Exited, Skip, Sources
  <2> QED BY <2>2, <2>4 DEF Wraps
<1> QED BY <1>1, StackStays, PTL
=============================================================================
