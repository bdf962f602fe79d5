----------------------------- MODULE ProcessesMC -----------------------------
(* The processes of a deployment, on small instances: the launcher with its *)
(* stack, the hub's own start and stop, a managed child, a sample's worker, *)
(* the services on models and on the XR runtime.                            *)
(* They share no state here, so a behaviour is about one of them, its part, *)
(* and the others stay as they begin.                                       *)
EXTENDS Stack, HubProcess, ManagedProcess, Worker, Services, TLC

CONSTANTS vlm, hub, llm, stt, worker

\* A reused server, a process alone, two model servers in parallel, a worker.
StackItems == << <<vlm>>, <<hub>>, <<llm, stt>>, <<worker>> >>
StackModes == (vlm :> "reuse") @@ (hub :> "own") @@ (llm :> "persist")
              @@ (stt :> "persist") @@ (worker :> "own")
StackBackends == (vlm :> "container") @@ (hub :> "plain") @@ (llm :> "container")
                 @@ (stt :> "detached") @@ (worker :> "plain")

\* Only the speech server and the worker.
SpeechItems == << <<stt>>, <<worker>> >>
SpeechModes == (stt :> "persist") @@ (worker :> "own")
SpeechBackends == (stt :> "detached") @@ (worker :> "plain")

VARIABLE part

Parts == {"stack", "hub", "child", "worker", "service"}
allVars == <<part, vars, hubVars, childVars, workerVars, servicesVars>>

MCInit ==
  /\ part \in Parts
  /\ Init /\ HubInit /\ ChildInit /\ WorkerInit /\ ServicesInit
  /\ part # "stack" => faults = {}
  /\ part # "hub" => setting = {} /\ addresses = {} /\ keyFile = NoPair
  /\ part # "child" => sink = "none"
  /\ part # "worker" => sample = "simple"
  /\ part # "service" => program = "piper" /\ ~slow

\* A step of a part.
Of(p, A) == part = p /\ A /\ UNCHANGED part
StackPart  == Of("stack", Next) /\ UNCHANGED <<hubVars, childVars, workerVars, servicesVars>>
HubPart    == Of("hub", HubNext) /\ UNCHANGED <<vars, childVars, workerVars, servicesVars>>
ChildPart  == Of("child", ChildNext) /\ UNCHANGED <<vars, hubVars, workerVars, servicesVars>>
WorkerPart == Of("worker", WorkerNext) /\ UNCHANGED <<vars, hubVars, childVars, servicesVars>>
ServicePart == Of("service", ServicesNext) /\ UNCHANGED <<vars, hubVars, childVars, workerVars>>

MCNext == StackPart \/ HubPart \/ ChildPart \/ WorkerPart \/ ServicePart

\* The fairness of each part's own specification, for the part that runs.
MCSpec ==
  /\ MCInit /\ [][MCNext]_allVars
  /\ WF_vars(part = "stack" /\ LauncherStep)
  /\ \A p \in Processes : WF_vars(part = "stack" /\ Progress(p))
  /\ WF_hubVars(part = "hub" /\ MainStep)
  /\ WF_childVars(part = "child" /\ ClosingStep)
  /\ \A s \in Streams : /\ WF_childVars(part = "child" /\ Take(s))
                        /\ WF_childVars(part = "child" /\ ForwarderEnds(s))
  /\ WF_workerVars(part = "worker" /\ WorkerRuns)
  /\ WF_servicesVars(part = "service" /\ \E w \in Starts : WrapperSteps(w))
  /\ WF_servicesVars(part = "service" /\ \E w \in Starts : ServerSteps(w))
==============================================================================
