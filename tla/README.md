# A TLA+ model of XR-AI

XR-AI connects people who wear or hold an XR device to AI agents. This directory has a
specification of it: the media hub with its shared-memory frame path, its recorder and its start
and stop; the processor endpoints that agents are built on; vision and voice; the way back for
synthesized audio; the launcher, the wrappers and servers it starts; and the render demo with its
MCP servers, its agent and the harness that evaluates it.
The modules are translated from the source; `PROJECT.json` maps every definition to the lines it
stands for (`map`), lists the model-checking runs (`runs`), the mutants that show that each
property can fail (`mutants`), disagreements between code and documentation (`findings`), what is
hard to test in the code (`hazards`), and the theorems (`theorems`).

To check one configuration or one module of proofs:

    tlc -workers 2 -config hub_frames.cfg MediaHubMC
    tlapm MediaHub_proof.tla

## 1. The system

    LiveKit room ──> RoomClient ──> ConnectorEndpoint ══ring══> HubEndpoint ──PUB──> ProcessorEndpoint
        ^                                   ^  └──PUSH/PULL──────────^ │ │             │  (agents, video-mcp ...)
        └── return tracks ── RoomClient <───┴─────── PUB/SUB ──────────┘ │<────PUSH────┘
                                                                         └─> recorder ─> files ─> video-mcp
    ProcessorEndpoint ──> pipecat: VAD/STT ─> gate ─> brain (vision, agentic loop) ─> TTS ─> output
    brain ──HTTP──> MCP servers: render-mcp ──PUSH──> LOVR; oxr-mcp ──> OpenXR runtime; transcript-mcp ─> files
    launcher ──> hub, model servers (containers, detached processes), MCP servers, worker

| Component | Where | State | Operations | What is hard, and what makes it correct |
|---|---|---|---|---|
| Hub | `server-runtime/.../ipc/_hub.py` | rings by connector, connector of each participant, latest slot and view per track | register, join, leave, frame signal, frame request, audio, data, roster request, return sends, close | one ordered stream per connector, but writers that do not wait; a slot has one owner, views are intact and inside an open ring, churn leaks nothing |
| Shared-memory ring | `agent-sdk/xr_ai_agent/_shm.py` | state byte and pixels of each slot | claim, write, read, release | full ring; two processes; no slot in two hands |
| Connector endpoint | `.../ipc/_connector.py` | ring, frame counters, subscriptions | register, push_frame, notify joined/left, receive loop, close | a send suspends at the high-water mark and may be cancelled there |
| LiveKit room client | `.../livekit/_room_client.py` | track tasks, return tracks and their pipes | room callbacks, video and audio stream tasks, return audio, flush, permissions | callbacks between the awaits of tasks; nothing survives its participant, nobody hears another's answer |
| Recorder, video-mcp's reader | `.../video/_recorder.py`, `video-mcp` | encoder and chunk per track, files and their directories | frame, rotate, flush, evict, leave; query, frame at a time, listing | two processes on one set of files; nothing missing between two frames kept, no frame of another participant |
| Hub process, LiveKit services | `xr_media_hub/__main__.py`, `.../livekit/_docker.py`, `_tls.py`, ... | container, ports, certificate, ready file | start step by step, failure, signal, stop, kill | what outlives a process; no container left over, the certificate fits the key |
| Processor endpoint | `agent-sdk/xr_ai_agent/_processor.py` | roster, subscriptions, pending frame requests | subscribe, request_frame, dispatch, roster catch-up | PUB/SUB loses messages; the roster agrees with the hub, answers are not old, callers wake up |
| Vision | `agent-sdk/xr-ai-capabilities`, `simple-vlm-example/worker/agent.py` | latest signal per track, an event per participant, a task per question, badge | signal, ask, perceive, wait, stream, cancel, release | a shared event that every waiter clears; "no frame" is true, a leave cancels only its own |
| Brain, streaming TTS, output transport | `agent-sdk/xr-ai-pipecat/.../brain.py`, `streaming_tts.py`, `transport.py` | one task per query, text not yet a sentence, ordered queue of sentences, target participant | query, supersede, stop, join/leave, text, end of reply, sentence ready, audio write | cancellation that unwinds late, interruptions that overtake, results out of order |
| VAD/STT processor, detector, voice gate | `vad_stt.py`, `voice_gate.py`, `utils/xr-ai-vad`, `utils/xr-ai-voicegate` | a detector, a probe with its buffer, a suppression flag per participant; follow-up windows | chunk of audio, speech start, utterance, probe, join/leave, transcript | four kinds of tasks that interleave at awaits; each stop is told once, no utterance is lost to another's stop |
| Launcher, managed child, vLLM wrapper | `utils/xr-ai-launcher`, `utils/xr-ai-vllm` | processes, containers, pipes | start, wait ready, monitor, shut down, adopt; forward output | signals and exits in every phase; nothing owned is left running, output blocks nobody |
| STT and TTS servers, CloudXR runtime | `ai-services`, `cloudxr-runtime` | wrapper, detached server, port, model lock | start, reuse, load, bind, health check, request, stop | a server nobody is the parent of; its end is noticed |
| Workers' main | `*/worker/*_worker.py`, `services.py` | services that answered, tools, clients | probe, ready, connect, list tools, signal, close | servers that come and go; no tools are lost by starting in any order |
| render-mcp and LOVR | `render-mcp/render_mcp/__main__.py`, `xr_app/main.lua` | the scene, twice; started flag; PUSH socket | tools, launch, resync, watch, exit | two processes that may differ |
| Render demo's agent | `xr-render-demo/worker/processors.py`, `agent.py` | turns, snapshot, move log, history, ticker, XR session | agentic loop, undo log, progress, ticker, XR launch | turns that overlap and are cancelled inside a tool call; the log is true, a query is answered aloud |
| oxr-mcp, vec-mcp | `oxr-mcp`, `vec-mcp` | an OpenXR session, its thread, a lock | get pose, spatial tools, retry, close | a thread that outlives its request; the geometry of every pose |
| transcript-mcp | `transcript-mcp` | a file and a sidecar per source | append, query, statistics, listing | names that collide, torn lines, kills between two steps |
| Evaluation harness | `xr-render-demo/eval/eval.py` | fake scene, calls, results | audit, rollout, fake tools, retry, score | state shared by cases; a pass is earned |
| Models SDK, LLM/VLM servers, codec, audio conversion, logging, clients, tests, docs | several | little or none | - | read, not modelled (section 5) |

## 2. Modules

| Module | Models | Checked in | Proved in |
|---|---|---|---|
| `FrameCustody` | the abstract life of a ring slot: free, writing, in transit, held, lost | `MediaHubMC` | `MediaHub_proof` |
| `MediaHub` | frame path: room client's track tasks, connector endpoint, ring, PUSH socket, hub | `MediaHubMC` | `MediaHub_proof` |
| `SharedSnapshot` | what the callers of `request_frame` are promised: one answer for all who wait in a process | `FrameRequestMC` | `FrameRequest_proof` |
| `FrameRequest` | frame requests on demand, their shared futures, the PUB stream of signals and answers | `FrameRequestMC` | `FrameRequest_proof` |
| `Vision` | the wait for a fresh frame, questions spoken, typed or from a tool, streaming, cancellation | `FrameRequestMC` | `FrameRequest_proof` |
| `Roster` | who is there: hub, PUB filter, processors' rosters and subscriptions | `RosterMC` | `Roster_proof` |
| `ReturnAudio` | audio from the agent to a participant's own LiveKit track | `HubMediaMC` | `HubMedia_proof` |
| `Recording` | encoders, chunk files, eviction; the reader in video-mcp | `HubMediaMC` | `HubMedia_proof` |
| `VoiceTurn` | queries, replies, sentences, stops | `VoiceMC` | `VoiceTurn_proof` |
| `Listening` | chunks of audio to transcripts to decisions of the gate | `VoiceMC` | `VoiceTurn_proof` |
| `Stack` | `run_stack`: start in groups, monitor, abort, shutdown; wrappers, containers and detached servers | `ProcessesMC` | `Processes_proof` |
| `HubProcess` | one start after another of the hub on a host: container, token and web server, certificate | `ProcessesMC` | `Processes_proof` |
| `ManagedProcess` | a child with two pipes, forwarding tasks and log file | `ProcessesMC` | `Processes_proof` |
| `Worker` | `main()` of both samples' workers, with the servers they wait for | `ProcessesMC` | `Processes_proof` |
| `Services` | STT wrapper and detached server, the two TTS servers, the CloudXR wrapper | `ProcessesMC` | `Processes_proof` |
| `RenderScene` | render-mcp's scene and LOVR's | `RenderDemoMC` | `RenderDemo_proof` |
| `SceneAgent` (extends `RenderScene`) | the agentic loop on top of render-mcp, move log, XR launch | `RenderDemoMC` | `RenderDemo_proof` |
| `TurnFeedback` | acknowledgement, progress, ticker and answer of a turn | `RenderDemoMC` | `RenderDemo_proof` |
| `Spatial` | the OpenXR session; head-relative tools, vector tools, the harness's copies | `ToolsMC` | `Tools_proof` |
| `Transcripts` | the transcript store | `ToolsMC` | `Tools_proof` |
| `EvalHarness` | audit, rollouts and scores | `ToolsMC` | `Tools_proof` |

How they meet:

* `SceneAgent` is composed with `RenderScene`: its tool calls are actions of the scene, whose
  launch, resync, exit and full socket go on in between.
* `MediaHub` and `FrameRequest` meet in the hub's latest view of a track: `FrameRequest` numbers
  the frames in the order in which `MediaHub` hands views over. `Vision`'s signals are those that
  `FrameRequest` delivers, its fetch of a frame is a `request_frame` that is answered or refused.
* `Roster` and `MediaHub` both model joins and leaves in the hub, once for the slots and once for
  what processors are told.
* `Listening` ends with the gate's decision (`answer`), `VoiceTurn` begins with it (`Query`,
  `Stop`); `VoiceTurn` ends with audio handed to the hub, and `ReturnAudio` takes it from there.
* `Recording` contains both processes that use the files, and `Spatial` both implementations of
  the geometry: the servers' and the harness's.
* `Stack` sees of a process only whether it gets ready and ends; `HubProcess`, `Worker` and
  `Services` are the inside of such processes, and `GoneIsNoticed`, `StartsAndStops` say that what
  `Stack` waits for comes.

Modules that share no state are checked in one run for the sake of few runs: the MC module has a
variable `part`, chosen at the start, that says whose behaviour it is; the other parts stay in one
initial state. The reachable states are the sum, not the product, of the parts, and each part has
the fairness of its own specification (`WF_vars(part = "..." /\ ...)`).

### How state and actions correspond to the code

Tasks of one process share an asyncio event loop, so an action is what a handler does from one
await to the next. Where an await can really wait (a ZMQ send at its high-water mark, a call of
LiveKit, a service, a cancelled task that has to end) the handler is two actions with a state in
between; where it cannot, the handler is one action. A queue (ZMQ socket, pipecat's queue between
two processors, LiveKit's source) is a sequence. Files of another process's reach change one
operation at a time, and threads step between any two operations that a lock does not hold together.

*MediaHub.* `slots[e][s]` is the state byte of a slot and the frame whose pixels are in it,
`push[e]` the PUSH/PULL socket of an endpoint, `registry`, `connector`, `held` are the hub's
`_connectors`, `_participant_connector` and `_latest_slots`; `task[t]` is the task of a track.
`BeginWrite`/`FinishWrite` are `push_frame` with its claim of a slot, `HandleFrame`,
`HandleJoined`, `HandleLeft`, `HandleRegistration` the branches of `_dispatch`. The header written
before the state byte becomes READY is one step: reader and writer meet only through the signal.

*FrameRequest.* `pending[p]` is `_pending`'s entry for the track, `call[c]` where a caller is,
`inbox[p]` the SUB queue. `Request` is `request_frame` up to its send, `Sent` the send, `Return`
and `TimeOut` the two ends of `wait_for`.

*Vision.* `latest[p, t]` is the age of the newest signal of a track, `Fresh` the comparison with
`frame_max_age_s`; `event[p]` is the shared event, which `Signal` sets and a waiter clears before
it looks and again after it was woken in vain or timed out, `left[a]` what is left of the slice and of the deadline of a
wait. `TimerFires` does not ask whether the event is set: `wait_for` may time out in the pass of the loop in which a signal
sets it, and the event is cleared all the same. A question is a task of the brain:
`Start`, `Wait…`, `Acquired`, `Token`, `StreamEnds` or `StreamFails`, `Close`. `queue` is what the
pipeline brings to the brain in order (spoken questions, departures), `TypeQuestion` overtakes it.

*Roster.* `filter[q]` is what the PUB socket knows of a subscriber, `control[q]` the
subscriptions under way, `inbox[q]` events under way. ZMQ itself is external: subscriptions
arrive in order, some time after they are made; a message nobody subscribes to is dropped.

*ReturnAudio.* `entry[p]` is `_return_audio`, `tracks` what LiveKit has published, `allowed` what
the permissions say, `pipe[p]` and `source[p]` the two queues of audio, `leaving` the departures
whose handlers wait.

*Recording.* `encoders[p]` is `_encoders`, `job` the flush of a chunk with what follows it
(`OpenData`, `FillData`, `WriteMeta`, `Prune` are its file operations), `files` the chunk files
with whether the `.264` and the `.json` are complete, `dirs` the directories and their `.identity`,
`reader` the tool call in progress: `Ask` lists the directory, `LoadMeta` reads one `.json`, `Read`
one `.264`; the chunks it has still to look at are a set, taken in the order of their starts.
`started` has the start of every chunk begun: the clock counts microseconds, and no two chunks of a
participant start in the same one (`Fresh`). A frame is the time it was taken; H.264 is external, but for what an encoder has not
yet given out (`EndEncode`).

*VoiceTurn.* `inflight[p]` is `_inflight`, `status[t]` the task of a turn, `pending` and
`sentences` are `_pending` and the queue of `StreamingTtsProcessor`, `ttsIn` and `outIn` the
queues in front of the TTS processor and the output transport. Pipecat is external: an
`InterruptionFrame` drops the data frames that are queued at a processor and is handled before
any that come later.

*Listening.* `det[p]` is the detector (speech, silence and length are counted in chunks), `probe`,
`task`, `buffer`, `fired` the probe's task, `_probe_task`, `_probe_buffer` and
`_stop_fired_for_current_utterance`. `Chunk` is `_handle_audio` with `feed` and, when the utterance
is complete, `on_utterance` up to its first wait. Audio is a system frame and is handled in the
task that receives it; joins, leaves and transcripts go through the processor's queue. What
Silero, the STT service and `STOP_RE` make of the audio is a free choice. When the gate handles a
transcript, it changes its own state before it awaits anything, so `GateHears` is one action.

*Stack.* `phase` is where `run_stack` is, `item` and `launched` its position and its dictionary,
`proc[p]` a process with `uv` around it, `service[p]` what a wrapper looks after and `child[p]`
the docker client or server it has started; the service is in another session and lives on when the
wrapper is killed. `Spawn` is `_spawn` with the entry in `launched`, `GroupReady` and `GroupFailed` the two
ends of `_wait_ready` and `_wait_ready_parallel` (a process alone is a group of one), `StopNext`
one round of the first loop of `_shutdown`, `BeginReap`, `Reap` and `ForceKill` the second. Ctrl-C in its `p.wait` is
`InterruptWait`: the process is killed and waited for again (`KillDone`, or `TimeOver` if that took the time that
remained). The wait after SIGKILL stands under `except Exception`, which a further Ctrl-C escapes, as it does
anywhere between the waits and in the first loop: `InterruptShutdown` leaves `_shutdown` as it stands. A process that reacts to SIGTERM
by ending has ended at once, since nobody looks before `p.wait`; the handler of the docker wrapper
takes two steps, and only while it is installed (`HandlersOn`, `HandlersOff`). Whether a process that is slow counts as one that ignores SIGTERM
(`Stubborn`) is a matter of `_STOP_TIMEOUT`: the others end before the deadline. Docker, vLLM and the NeMo server are external.

*HubProcess.* `stage` is where `main` is; `container`, `keyFile`, `certFile` are what outlives the
process, `setting` what the configuration switches on. `Exit` is the `finally` of each level that
has been entered, `AtExit` the handler that `_docker.py` registers, `Killed` is SIGKILL.

*ManagedProcess.* `written[s]`, `taken[s]` are the two ends of a pipe that holds `PipeRoom` lines,
`forwarder[s]` the task of `_forward`, `context` the async context manager.

*Worker.* `at` is where `main()` is; `Probe` asks one server, `Ready` touches the ready file,
`ConnectMcp` and `ListTools` are the render demo's, `CloseClient` one client of the `finally`.

*Services.* `wrapper[w]` is the process that the launcher has started, `server[w]` the one that has the model
(itself for the synthesizers, a detached one for STT, the runtime for CloudXR), `thread[r]` a request
in a thread of the executor. A behaviour is about one `program`.

*RenderScene, SceneAgent.* `objects` and `counters` are the server's scene, `shown` LOVR's, `wire`
the messages between them (at most `HighWater`), `started` the flag that forwards calls. A place is
a value of `Vals`. `Resync` packs the next object of its list and sends it, or waits with the packed object in `parked`
until LOVR has room (`Unpark`) or the deadline comes (`GiveUp`): an update of that object in between is
refused and lost, which sets `missed`, one of an object that is still in the list (`todo`) is not.
`turn[p]`, `step[p]`, `call[p]`, `reply[p]` are a turn of the loop. `Serve` is a request that the server carries out, with its answer or,
if that is lost, the error that `_call_mcp` makes of it; `Fail` is an error before the server has seen it; either way the turn
goes on. `orphans` are the requests whose callers were cancelled or told of an error. `update_primitive` is the calls
"update" and, with a new type, "retype", whose answer has no reason. `preMove`, `moves` are the two tables of the undo
log; `from[p]` remembers where the call of a turn found the object it moved, and `unseen` the objects that were moved
without the snapshot being told in time. What the language model calls next is a free choice (`Think`).

*TurnFeedback.* `at[t]` is a turn's task, `ticker[t]` its ticker's, `output` what was shown or said,
in order. `LoopCancelled` is the `except CancelledError` at `processors.py:424`.

*Spatial.* Lengths are thousandths of a metre and a head orientation is an integer quaternion
(turn, nod and tilt by their half-angle tangents), chosen so that every sine and cosine is a multiple
of 1/25 and no rounding is involved: `ExactAssumption` states what that means, and TLC evaluates it
on the instance.
`Answer` is what oxr-mcp and vec-mcp answer, `LocalAnswer` what `eval.py` answers.
`request[r]` is a tool call in its executor thread, `TakeLock`, `TryOpen`, `GetPose` what it does
under the lock, `Stop` the end of the session on `close()`.

*Transcripts.* `records[s]` are the lines of a file, `identity[s]` its sidecar. `AddTranscript`,
`Resolve`, `OpenSidecar`, `WriteSidecar`, `AppendRecord` are the steps of one call; `Query`,
`Stats`, `ListSources` are operators on the files.

*EvalHarness.* `Blocks` is `_extract_example_blocks` on kinds of lines; `phase` walks through
audit, cases, replies, tool calls and `_check`, whose greedy matching is one expectation a step over
the set of positions of mutating calls not yet taken.

### Faults and settings

Some properties hold only while something does not happen. A variable chosen at the start
(`faults`, `setting`, `condition`, `wentWrong`) says what may happen in a behaviour, so that one run has the
behaviours with it and those without, and a property names its condition (`faults = {} => ...`).

## 3. What the runs check

Runs that must pass. `A ⊎ B` are parts of one run, as explained in section 2.

| Run | Instance | Properties |
|---|---|---|
| `hub_frames` | `MediaHub`: 1 connector, 2 participants with a camera each, 2 slots, 2 frames, with and without late frames and cancelled sends | `SlotOwnership`, `ResidueNeedsFault`, `ImplementsCustody`, `RingRecovers` |
| `request_frames` | `FrameRequest`: 1 process, 2 callers, 3 frames, queues of 3, with and without loss, cancellation and absence ⊎ `Vision`: 1 participant who leaves and returns, 2 cameras, 2 questions, every frame size up to 3 | `WaitersRegistered`, `SnapshotNotOlder`, `KeyIsFreed`, `ImplementsSnapshots`, `UnavailableIsTrue`, `LeaveCancelsOwn`, `EveryAskEnds` |
| `roster_audience` | `Roster`: 1 processor that exits and comes back, 2 participants, 1 restart of the hub | `AgreesUntilRestart`, `AudienceFollowsRoster`, `AudienceSettles` |
| `hub_media` | `ReturnAudio`: 2 participants, 4 chunks or flushes, 3 tracks ⊎ `Recording`: 2 cameras whose owners share a directory name, chunks of 2 frames, a limit of 2 bytes, one fault of disk, encoder or end | `PermissionsFollowTracks`, `FlushDropsBacklog`, `StaleTrackNeedsFault`, `NoHoles`, `OwnFramesOnly`, `CompleteChunksFound` |
| `voice` | `VoiceTurn`: 2 participants, 2 turns of 2 chunks, plain, with drain, or with leaves ⊎ `Listening`: 2 participants, 2 utterances; phrases and leaves, pushes that suspend, or bursts | `OneQueryInFlight`, `StopSilencesTurn`, `EchoMatchesSpeech`, `SentencesLeave`, `HeardOnce`, `StopsAreAcknowledged` |
| `processes` | `Stack`: 2 starts of 5 processes in 4 groups (a reused container, a container and a detached server in parallel, a hub and a worker that ignore SIGTERM), at most one fault ⊎ `HubProcess`: 3 starts on a host with 2 addresses and 2 moves ⊎ `ManagedProcess`: 2 lines of each kind, pipes for 1 ⊎ `Worker`: 3 servers, 2 lapses ⊎ `Services`: 2 starts, 2 requests | `OwnProcessesStopped`, `FailFast`, `LeakNeedsTimeout`, `StuckNeedsHugeLine`, `ToolsLostToLapse`, `GoneIsNoticed` |
| `render_demo` | `SceneAgent` over `RenderScene`: 2 queries of 2 participants, 2 tool calls each, 1 object in 3 places that changes its type, lost requests and replies, 1 launch ⊎ `TurnFeedback`: 2 turns of 2 lines of progress | `MovesTruthful`, `LaunchAnswered`, `SilencedUnlessSwallowed`, `AnsweredAloud` |
| `tools` | `Spatial`: 3 turns × 4 nods × 2 tilts of the head at 2 places, every tool with every direction, 2 requests, 6 attempts ⊎ `Transcripts`: 4 names of 3 file names, 3 records, 2 faults ⊎ `EvalHarness`: every prompt of up to 3 lines, every choice of 3 cases, replies of up to 2 calls, 2 steps | `AnswersFaceUser`, `SurvivorNeedsOrphan`, `LossesNeedFaults`, `PassedMeansMet` |

The types and the plainer properties of the same instances are in `hub_frames_more.cfg`,
`request_frames_more.cfg`, `hub_media_more.cfg`, `voice_more.cfg`, `processes_more.cfg`,
`render_demo_more.cfg` and `tools_more.cfg`, each for the MC module of the run it is named after:
the type invariants, `ViewsIntact` (a part of `SlotOwnership`), `NewerFrameOnly`, `DeliveredInOrder`, `BadgeNeedsAsk`, `PiggybackNeedsFault`,
`WithinLimit`, `SteadyIsNear`, `SpeechInOrder`, `DrainsKeepTurnsApart`,
`SuppressedWasHeard`, `StartsBeforeItStops`, `LeaversForgotten`, `WindowFollowsPhrase`,
`ContainersTornDown`, `PersistOutlives`, `MismatchNeedsMove`, `ReadyMeansServed`,
`StartsAndStops`, `FileIsComplete`, `ClosingEnds`, `EndsWhenAsked`, `EachIsClosed`, `OneInModel`,
`RuntimeStopped`, `DriftNeedsMiss`, `TurnInOrder`, `LogsOnSchedule`, `MirrorsAgree`, `RolloutsIsolated`, `OwnRecordsOnly`,
`StatsSpanRecords`, `LeaksStopStrictRuns`.

Runs that end in a counterexample, each with a finding that quotes the text it contradicts:

| Run | Property | What happens |
|---|---|---|
| `return_leave_race` | `LeaversUnpublished` | a participant leaves while its return track is being published, and the track stays |
| `voice_superseded` | `OneTurnPerSentence` | the unfinished sentence of a cancelled reply starts the next one |
| `stack_abort_detached` | `NothingHalfStarted` | Ctrl-C while the STT server loads leaves the server behind |
| `turn_cancelled` | `CancelledIsSilent` | a cancellation that meets a turn where it waits for its ticker is taken for the ticker's, and the cancelled turn answers into the next one |

### Known limits

More statements fail. They are defined in the modules, next to what holds, under "what the code
does not keep", and each can be seen by putting it into the configuration named here, changed as
the second column says. They show a limit that the code documents, a promise of a comment or
docstring that it does not keep, or a deployment nobody has.

| Property | Configuration and change | What it shows |
|---|---|---|
| `ChurnLeavesNoResidue` | `hub_frames` | a frame signalled after its participant's leave, or a send that is cancelled, loses its slot |
| `EndedTrackReleased` | `hub_frames`, `Owner <- AliceCams` | a track that ends keeps its slot until its participant leaves |
| `ViewFromOriginatingConnector` | `hub_frames`, endpoints `{e1, e2}` with `TwoIds`, `AnyHome` | with two connectors, a participant that moves is read in the wrong ring |
| `ViewsIntact` | `hub_frames`, endpoints `{e1, e2}` with `OneId`, `AnyHome`, `PushHWM = 5` | a connector process restarted with signals in flight |
| `PiggybackRidesRequest` | `request_frames` | a caller joins a request that the hub has dropped without an answer (`_processor.py:350` says it is in flight) |
| `PendingCallsAreLive` | `request_frames` | a cancelled caller's future stays under the key |
| `LeaveCancelsOwnAlways`, `BadgeWhileStreaming`, `FailureIsHeard` | `request_frames` | a typed question of the next session is cancelled by the last one's leave; the badge is cleared by the question before; a question that raises is not spoken about |
| `RosterAgrees` | `roster_hub_restart.cfg`; or `roster_audience`, `HandshakeInTime = FALSE` | people who left while the hub was down stay in the rosters; a roster request that overtakes the SUB handshake is never repeated |
| `FullStream` | `roster_audience` | a participant's first messages come before the subscription |
| `NoCrossTalk`, `StopIsScoped`, `StopImmediate`, `EndMarkerPerTurn` | `voice` | text of two replies in one sentence and one participant's stop that silences another (`docs/changelog.md:600-607`); audio written after the flush of a stop; a cancelled turn has no end marker (`frames.py:67-69` promises one) |
| `OnlySpeechIsUttered` | `voice` | a sound shorter than `min_speech`, then silence up to the length limit, is an utterance |
| `StubbornAreKilled` | `stack_two_stubborn.cfg` | of two processes that ignore SIGTERM only the first is killed: its wait has used up the time of both |
| `ContainersTornDownAlways` | `processes` | a second Ctrl-C kills the wrapper before it has stopped its container; so does a container created late |
| `NoContainerLeft`, `PortIsOwn`, `RunsWhileReady`, `PairAlwaysFits`, `FailsWithBanner` | `processes` | a start that gives up on its port leaves the container; the port found open may be somebody else's; a hub whose connector has ended stays up; a key without its certificate is used by the next start; `docker rm` without docker ends in a traceback (`_docker.py:86`) |
| `NeverStuck`, `LastWordsKept` | `processes` | a line longer than `readline`'s limit ends the task that reads it and the child blocks; the last lines of a child are not in the log |
| `AllAreClosed` | `processes` | the render demo's worker stops closing its clients at the first that fails |
| `RuntimeIsNoticed`, `EndsOnlyIfGone`, `ReadyMeansPort` | `processes` | a CloudXR runtime that dies after it was ready is not noticed; one slow health check ends the STT wrapper (`stt_server/__main__.py:256`); a synthesizer touches its ready file before it has its port |
| `EncoderOrFailed`, `StampIsOfFrame` | `hub_media` | a track without an encoder that is not marked failed; the time stamp of a frame is off by more than the interval after a pause of the camera |
| `MovesTruthfulAlways`, `StartedMeansRestored`, `ReadyIsTrue` | `render_demo` | a move by a turn that was cancelled, or told of an error after it, is not in the log, and the next one is logged from the wrong place; "LOVR connected AND scene restored" does not hold when an operation was refused during the launch; `render.ready` is told when LOVR has gone again |
| `YawIsHeading`, `MirrorsAgreeOnNull`, `NothingLeaks` | `tools` | yaw 90 faces -x, not +x as the docstring says; a null origin is an error of one and an answer of the other; an OpenXR instance whose device session fails is entered and forgotten |
| `NothingLost`, `ExactlyItsOwn`, `ListedHaveRecords` | `tools` | a torn line swallows the next record; two names equal but for white space answer each other's records; a source is listed before it has a record |
| `IdsAreFresh`, `EveryCaseScored`, `OrderIndependent`, `LeaksAlwaysStopStrictRuns` | `tools` | the fake ids can be those of the fixture; one malformed call ends the whole run (`eval.py:2311`); greedy matching depends on the order; a fence inside a section hides what follows |

### Bounds, and why they are enough

* Two participants are what it takes for one to receive what was meant for the other, and two
  tracks of one participant or of two give the same slots to two owners. One is enough where
  the state of participants is separate (`Vision`, `FrameRequest`'s single track).
* A ring of two slots is full with one view and one signal; the scan wraps around. The theorems
  cover any size.
* Two frames of a track are the least at which one replaces another, three in `request_frames`,
  where one is announced, one is older and one newer. Two callers of one process share a key; an
  answer asked for by another process differs from it only in who asked, and the theorem
  `SnapshotsInOrder` has any number of processes.
* In `voice` the second participant comes only when the first neither drains nor leaves
  (`AloneIfSet`), and is answered in one chunk (`ShortForBob`): two replies that mix need no more.
  Two utterances let the flag, the probe or the buffer of one meet the other; each has as many
  chunks as the limits allow.
* `Vision`'s clock counts seconds, as far as freshness, slice and deadline go; frames of widths and
  heights 2 and 3 are the even and the odd ones. A participant comes back only where questions are
  spoken or typed (`OnceIfWhole`): how a question waits and is cancelled does not depend on its kind.
* `Recording` has one instant of the clock at which a question is asked and one window, `MaxBytes = 2`
  makes the second chunk evict the first, `ChunkFrames = 2` ends a chunk with one frame behind
  another. One thing goes wrong per behaviour, at any place.
* The second start of a stack meets what the first has left (a healthy service, a stopped
  container, with a fault a half-started one), the third start of the hub meets a certificate that
  was written at an address the host has left and come back to. Two stubborn processes are
  one more than `_shutdown` kills.
* A pipe with room for one line and two lines is a pipe that fills up. `PollLimit` is the number of health
  checks before a wrapper gives up: with two there is one that is too early and one that is not.
* `render_demo` has one object with three places: the place before a move, the one after it and
  the one another turn, or a call whose answer was lost, has put it. `HighWater = 1` is a socket that is full after one message.
* `Stem` gives as many second choices of a file name as the instance can need; a call that needed one more would
  wait in `Resolve`, where the code goes on counting.
* Six attempts go over the log schedule 1, 2, 4 of `tools`. The four names have one pair with the same file
  name, one name that is the other's second choice, and one that differs by white space only.
  Every prompt of three lines covers a marker or a fence, what it encloses and what ends it.
* Bounds on queues (`MaxPush`, `MaxInbox`, `MaxQueued`, ...) are guards of the actions that would
  exceed them: the sender is late, which the real sender may always be. Where a queue at its limit
  changes what the code does (the PUSH high-water mark, the SUB queue), it is modelled as such.

The instances stop when their counters are used up, and say so in the configuration
(`CHECK_DEADLOCK FALSE`); that nothing stops too early is what the temporal properties say.

### Fairness

Liveness assumes what the event loops give: a task that is ready is run. The specifications therefore have
weak fairness of the receive loops (`Dispatch`, `HandleRequest`, `DispatchEvent`), of the
straight-line ends of handlers, of timers (`wait_for` has one), of the handlers of queued frames,
of the tasks of a turn (`TurnRuns`, `SessionStep`), of forwarding tasks, of `main()` of the hub and of a worker,
and, in `VoiceTurn`, of the TTS service, which answers or fails since its HTTP client has a
time-out. `Vision` has strong fairness of its clock, which other tasks may run in front of, and of the
end of a stream that may always bring another token first: `max_tokens` bounds it. In `Services` the steps of all wrappers are one
fairness condition, and those of all servers another; each has finitely many steps. In `Stack` the
launcher's loops go on, and each process gets ready or exits. People who join, leave, speak, ask or stop
are never fair, nor are exits, crashes, kills and moves, the language model's choices, the STT
service, a publication in LiveKit, LOVR, or an OpenXR runtime.

## 4. What is proved

The proofs hold for all values of the constants that satisfy the assumptions of the modules.

* **Types.** `TypeCorrect` in `MediaHub_proof`, `FrameRequest_proof` and `Roster_proof`;
  `ReturnTypesHold`, `WorkerTypes`, `AgentTypes`. For the other modules the types the proofs need are
  the first conjuncts of the invariants named below.
* **A slot has one owner** (`SlotsOwned`, `ViewsSafe`). `ViewsIntact` alone is not inductive: a
  frame may be overwritten because a signal in flight names a slot that somebody else holds. The
  inductive invariant `SlotOwnership` adds that signals name READY slots with their own frame
  (`SignalsIntact`), that no two of signals in flight and views share a slot (`Unshared`), and that
  messages stay at connectors their participants may use (`AtHome`). It assumes one connector per
  participant and one incarnation of each (`OneConnector`); the second to fourth rows of the table of known
  limits show that it has to. The proof goes by who sends (push grows by one),
  who receives (push becomes shorter, so the sub-sequence inherits), who releases, and the two
  actions that do more, `FinishWrite` and `HandleFrame`.
* **No residue without a fault** (`ChurnIsClean`). `AllAccounted`: the tables of the hub, carried
  forward over the messages of an endpoint that it has not handled yet, agree with the endpoint's room; a signal in
  flight finds, when its turn comes, the ring registered and the owner of its track present, so none is
  dropped and a READY slot is in flight or viewed (`ReadyInCustody`). It takes `SlotOwnership`
  and `OneConnector`; a restarted or second connector may drop a signal without any fault.
* **Refinement** (`CustodyImplemented`). With `SlotOwnership`, each step of the frame path moves
  each slot along one edge of `FrameCustody`, or not at all.
* **No lost wake-up** (`NoLostWakeup`) and **no old answer** (`SnapshotsInOrder`). The second needs
  `DeliveredInOrder`: what is under way to a processor is in the order of the frames and no older
  than what it has seen, and a registered call asked for something the processor has seen.
  **Shared requests fly** (`SharedRequestsFly`): by `CarriedInv`, in behaviours in which no participant
  is absent, no call is cancelled and no message is lost, futures under a key have their request in flight.
* **Refinement** (`SnapshotsImplemented`). To its callers `request_frame` is `SharedSnapshot`, whatever is
  lost or cancelled: one answer for all calls that wait in a process, a frame that was taken, old for
  none of them. The mapping merges the sending of a request with the wait (`StageSeen`) and hides the
  answer to a call that was cancelled (`GotSeen`), whose future stays in the list. `FuturesInv` and
  `WaitersRegistered` make the list, but for the cancelled, the set of the waiters; `DeliveredInOrder` makes
  the frame new enough.
* **Subscriptions follow the roster** (`AudienceFollows`), with `Follows` for the commands under
  way: what the filter will be once they have arrived. It needs no assumption on restarts.
* **Rosters converge** (`RosterConverges`), assuming the handshake is in time, until the first
  restart of the hub. `Converging` adds to the agreement that there are no ghosts before the
  replay, and that a processor which has asked is heard.
* **One query in flight** (`OneInFlight`) for any number of participants and turns. `BrainInv` has
  the types of the brain's variables, that the table names its askers, and that tasks have begun
  before they are known.
* **A stop silences** (`StopsSilence`). In `StopInv` a task that runs has begun after every
  interruption of its participant, handled or not (`RunningUnstopped`), and text that is behind an
  interruption is not older than it (`TextAfterStop`), so that handling it drops all that is older.
* **The echo is what was said** (`EchoIsSpoken`). While one participant alone has asked, `EchoInv` puts
  the queues in order: the frames of an earlier turn come before those of a later one, an
  interruption is the first frame of its turn and an end marker the last. So an interruption takes nothing
  of a reply whose end marker is behind it, and the marker finds all its sentences said.
* **Drains keep replies apart** (`DrainsSeparate`). Text is open while no end of a sentence or of the
  reply follows it in its frame. In `ApartInv`, while drains are on, nobody leaves and one participant alone has
  asked, text of another turn follows open text, in the queue or in `_pending`, only if the
  interruption its turn began with is still on its way, and handling that empties the buffer. Two
  participants share the buffer, so that for them the property is false and
  `DrainsKeepTurnsApart` asks for one (the hazard at `streaming_tts.py:141`).
* **Spoken in order** (`SpokenInOrder`), for any participants and settings. `WayInv` has the text on its way
  as four queues of texts: each is in order, and each stands behind the one nearer to the ear. A step moves the front of
  a queue to the end of the next, or drops it. What the brain adds is later than all there is of its
  participant, since the text on its way was produced and the task that runs is its participant's newest.
* **Told once** (`ToldOnce`). `HearInv` ties four records of an utterance together: the detector,
  the probe, the table of probes and the flag that a stop was fired. It holds while audio comes at
  its pace (`Punctual`), which is the condition of `HeardOnce` itself. `EarInv` builds on it:
  what is suppressed, and what a flag stands for, was told (`SuppressedWereHeard`); an utterance ends
  after it began for all who are told (`BeginsBeforeItEnds`); and a participant that left is
  forgotten, or its leave is still on its way (`LeaversAreForgotten`).
* **Windows follow phrases** (`WindowsFollowPhrases`), with bursts of audio too. `GateInv` needs of
  the detectors only that an utterance has an owner before a probe, a task or a transcript names
  it (`Begun`), so that the gate closes the window of the one who spoke.
* **Questions about the camera** (`NoFrameMeansNoFrame`, `DeparturesCancelOwn`, `BadgeIsHonest`).
  `TableInv` has the types and that a question at work is the one its participant has in `inflight`;
  `OwnInv` adds that the sessions in the queue are in order (`SessionsInOrder`), so that a departure
  finds only questions of the session it ends; `ToldInv` that a question which waited when a fresh
  signal came, its slice's timer not yet due, has been told of it; `BadgeInv` that a question which puts the badge back has left the table.
* **Return audio** (`Permissions`, `FlushedBacklog`, `TracksOwned`). `TracksInv` says what a published track, an
  entry and a permission say of one another while handlers wait; `OrderInv` that what waits for a
  participant ascends, is newer than its last flush and older than what is still on the wire; `OwnedInv`
  that, without the race and without a failure, a published track is in the table of somebody
  who is there or on its way out, and none is being published for somebody who is not.
* **Recordings** (`OwnRecordings`, `FinishedAreFound`, `KeptWithoutHoles`, `SteadyFramesNear`). `OwnerInv`: the
  `.identity` of a directory agrees with every track, flush, file and tool call that uses it.
  `NamesInv`: a chunk that is being made has its name to itself and a finished one is not written
  again; this needs that starts differ (`Fresh`). With it a call's list stays true of the files that
  are left (`FoundInv`): a complete chunk waits to be looked at or is known by its true end, and what
  is known of a chunk ends no later than the chunk. `OrderedInv`: as long as nothing has gone wrong
  that loses frames, a participant's files follow one another, come before its flush and its memory, and
  only the oldest frames of all are missing; the oldest file of all is the oldest of its participant.
  `KnownInv`: what a call has read in a `.json` describes a chunk that neither a track nor a flush writes
  again (`Settled`), so it stays true past the eviction of the file; `DataInv`: a `.json` comes after its
  `.264`. The rest is arithmetic, `NearFrame` and `NearStamp`. It showed that the bound in
  `SteadyIsNear`, one interval, held in small chunks only (three frames at an interval of 5, asked at 11:
  the frame at 5): the reader spreads n - 1 frames over n intervals and rounds, which costs half an interval more.
  `LimitHolds`: in `LimitInv` only a flush adds files, and it ends with the pruning by total bytes. What
  `Total`, a fold of the library over the set of files, is for finitely many files is proved
  by hand (`TotalsTyped`).
* **Processes.** `NoProcessLeft` (`StackInv`: the launcher knows every process it has
  started, after the first loop of its shutdown each is on its way out or ignores SIGTERM, and what the
  second loop has passed has ended) is for any number of processes that ignore SIGTERM, and excepts those of them that stand
  behind another in the loop (`Unreached`; `stack_two_stubborn.cfg` shows why), and the behaviours in which the launcher is cut short: SIGTERM outside its monitor, Ctrl-C
  inside `_spawn`, between two waits of `_shutdown` or behind its SIGKILL. `NoContainerHalfStarted` and `PersistentOutlive`, with
  `WrapInv`, for behaviours without a fault: a service is half started only while its wrapper waits
  for it or removes it; after a start that was not aborted all processes were ready; what the shutdown
  does not skip has ended. `NoLeak` (`ContainerInv`),
  `InterruptedPairRenewed` (`PairInv`), `ReadyIsServed` (`ServedInv`) about the hub on its host;
  `LogComplete` (`ChildInv`); `ToolsLost`, `ClientsClosed` (`WorkerInv`, `ClosingInv`);
  `ModelsNotShared` and `RuntimesStopped` (`ServiceInv`: a thread in a model has its lock, or the
  model is re-entrant; a wrapper past its end has stopped its runtime).
* **Render demo.** `SceneKeeps` (`SceneInv`), `LogIsTrue`: in `AgentInv`, `Truth` says that the snapshot has
  the place of every object that is not `unseen`, but for the one move of it that a turn has made and not yet recorded, which
  started where the snapshot says. It holds whichever turns overlap, are cancelled or lose their answers,
  since what they move without telling the snapshot is `unseen` until the snapshot is taken anew.
  `LinesInOrder` and `CancelledTurnsStop` (`FeedbackInv`, `OrderInv`). `DriftIsExplained`: in
  `MirrorInv`, what LOVR has, what it is sent, the object that waits packed and what the resync has yet to pack come to the scene
  until an operation is missed (`ComesTo`); an update in the queue finds its object, or it would be
  dropped; and no id is twice in the list, so that a tool call writes one object.
* **Tools.** `SessionsClosed` (`PoseInv`). `MirrorsFaithful` is about any pose, not the ones of the
  run: harness and server compute the same, term by term. `PlacingIsTrue` is about every head and
  distance of `ExactAssumption`. Its core, `GroundIdentity`: what a head turns ahead and right to
  are, seen from above, as a right angle is, shrunk by the height of its up; so right stays right
  until the head is upside down. `GroundIs` takes the direction on the ground from the gaze, or from
  the right of a gaze straight up or down, and `AlongMeasured` and `SideMeasured` place along it.
  `RolloutsApart` (`RolloutInv`, `IdsInv`)
  and `PassesAreMet` (`MatchInv`: what the greedy matching has taken is one to one). `LeaksAreStopped`: `Scanned` says what
  the line-by-line scan of the prompt has behind each line in the words of its docstring, for
  prompts of any length. `FailuresLogged`: the
  index into the log schedule is never behind the failures in a row (`ScheduleInv`), for any ascending schedule
  of positive numbers (`ScheduleAssumption`).
* **Transcripts** (`AcknowledgedIsFound`, `AnswersOwnRecords`), for one call at a time
  (`Callers = {c}`: the tools are plain functions without an await, which the event loop runs to their
  end; a FastMCP that ran them in threads would need a lock around `append`). `StoreInv`: a source has one
  sidecar, every stem before it is taken and stays so (`Passed`), hence the call that goes past them finds
  it or makes it once; a file holds records of the source in its sidecar only (`HomeInv`); the line that the next
  write will damage was not acknowledged (`TornInv`). The losses are counted with `Budget`: records
  gone and files with a line without its end are together no more than the faults. `StatsSpan` is for
  any number of calls at once: `FilesInv` has the shape of the files, and `Summed` what the loop of `stats`
  has behind each line. It needs timestamps after 1970, since `stats` takes an `earliest` of 0 for
  none yet; `StatsSpanRecords` says so.
* **Loops over data.** The induction theorems of the library take operators, which the provers cannot
  instantiate. `LeaksAreStopped`, `StatsSpan` and `LimitHolds` go by a least counterexample instead
  (`LeastExists`): the recursive function exists up to every line, and what is claimed of it holds
  before the first line and behind every line that follows one where it holds.

Assumptions on constants, beyond their types: sets of processes and of participants whose number counts are finite, `Nobody` is not a request of `Spatial` or of `Services`, `"none"` is not
an identity or a resolution of `Recording`, a source of `Transcripts` is not blank, `ByName` lists each stem once, and what
`Spatial` divides it divides without a rest (`ExactAssumption`; the code rounds to three decimals, where
the theorems then hold to that precision only); its log schedule ascends (`ScheduleAssumption`). Conditions on behaviours are in the properties.

Only model-checked:

* all liveness, which is outside what the proof system does.

## 5. Not modelled

Section 1 and `components` in `PROJECT.json` name the parts. Left out for good: pixel formats and audio
conversion, codec, configuration, the contents of tokens, HTTP clients and servers without state,
clients, logging, drawing in LOVR, prompts and the recovery of tool calls from text (any call is
possible), the cases of the harness (data). Of modelled parts, left out are: the files in which video-mcp returns what it has read (named by the sanitized identity and the times
asked for, `video_mcp_server/__main__.py:536-538, 645-648`, so that two participants with one such name may overwrite each
other's), statistics, return data and
broadcasts (no state), audio and data messages except as traffic a filter lets through, what a
user callback does (a callback that raises ends its process: `_processor.py:459`), in the room
client the participants who are there when it connects, and
real time: time-outs may come at any moment after they are set, but in `Vision` and `Recording`, whose
clocks matter to what they promise.

## 6. Plan

Done, in this order: `MediaHub` with `FrameCustody`, its proofs and refinement; `FrameRequest`;
`Roster`; `ReturnAudio`; `VoiceTurn`; `Listening`; `Stack`; `RenderScene` with `SceneAgent`;
`Recording`; `Spatial`; `EvalHarness`; `Vision`; `HubProcess`; `Transcripts`; `TurnFeedback`;
`ManagedProcess`; `Worker`; `Services`.

To model: `RoomClient`'s connect with participants present and its reconnects, together with
`MediaHub`.
