------------------------------- MODULE Services -------------------------------
(***************************************************************************)
(* The services a stack starts on models and on the XR runtime: the speech *)
(* recognizer with its wrapper and its server in a session of its own, the *)
(* two synthesizers, which are their own servers, and the CloudXR runtime  *)
(* in a child process.  A start of any of them says that it is ready once, *)
(* by its ready file, and tells the launcher that it is over by ending.    *)
(*                                                                         *)
(* Servers answer on one port.  A health check is one step.                *)
(***************************************************************************)
EXTENDS Integers, FiniteSets

CONSTANTS
  Starts,    \* starts of the service, with the server each of them may spawn
  Requests,  \* threads of a server's executor
  PollLimit, \* polls before a start gives up: 120 in the code
  Nobody

ASSUME ServicesAssumption == PollLimit \in Nat \ {0} /\ Nobody \notin Requests

Services == {"stt", "magpie", "piper", "cloudxr"}
Serializing == {"stt", "magpie"}  \* whose model is entered under a lock

VARIABLES
  program,  \* which service it is
  slow,     \* a health check may time out though the server is there
  wrapper,  \* where the process that the launcher started is
  polls,    \* health checks of a start before it was ready
  readied,  \* starts whose ready file exists
  server,   \* where the server of each start is; a synthesizer is its own
  thread,   \* what each executor thread works on
  lock      \* the model lock of each server, held by a thread or nobody

servicesVars == <<program, slow, wrapper, polls, readied, server, thread, lock>>

Idle == [of |-> Nobody, at |-> "idle"]
Detached == program = "stt"
Alone    == program \in {"magpie", "piper"}

ServicesTypeOK ==
  /\ program \in Services /\ slow \in BOOLEAN
  /\ wrapper \in [Starts -> {"off", "check", "poll", "watch", "run", "wait", "ended"}]
  /\ polls \in [Starts -> 0 .. PollLimit] /\ readied \subseteq Starts
  /\ server \in [Starts -> {"none", "check", "load", "bind", "serve", "watch", "close", "dead"}]
  /\ thread \in [Requests -> {Idle} \union [of : Starts, at : {"wait", "inside"}]]
  /\ lock \in [Starts -> Requests \union {Nobody}]

ServicesInit ==
  /\ program \in Services /\ slow \in BOOLEAN
  /\ wrapper = [w \in Starts |-> "off"] /\ polls = [w \in Starts |-> 0] /\ readied = {}
  /\ server = [w \in Starts |-> "none"]
  /\ thread = [r \in Requests |-> Idle] /\ lock = [w \in Starts |-> Nobody]

-----------------------------------------------------------------------------
(* Processes.                                                              *)

\* /health answers 200 when the server on the port has its model.
Up == \E w \in Starts : server[w] = "serve"
Answers200(ok) == IF ok THEN Up ELSE ~Up \/ slow

Wrapper(w, from, to) == wrapper[w] = from /\ wrapper' = [wrapper EXCEPT ![w] = to]
Server(w, from, to)  == server[w] = from /\ server' = [server EXCEPT ![w] = to]

\* The threads of a server that is gone are gone, and so is its lock.
ThreadsGone(w) ==
  /\ thread' = [r \in Requests |-> IF thread[r].of = w THEN Idle ELSE thread[r]]
  /\ lock' = [lock EXCEPT ![w] = Nobody]

\* The launcher starts the service: the recognizer's wrapper looks for a server
\* first, a synthesizer loads its model, CloudXR spawns the runtime and waits.
Start(w) ==
  /\ IF Detached THEN Wrapper(w, "off", "check") /\ UNCHANGED server
     ELSE /\ Wrapper(w, "off", IF Alone THEN "run" ELSE "poll")
          /\ Server(w, "none", "load")
  /\ program = "cloudxr" => \A v \in Starts \ {w} : server[v] \in {"none", "dead"}
  /\ UNCHANGED <<program, slow, polls, readied, thread, lock>>

\* The recognizer's wrapper: a server that answers is reused, else one is spawned
\* in a session of its own.
CheckFirst(w) ==
  /\ \/ Answers200(TRUE) /\ Wrapper(w, "check", "watch") /\ readied' = readied \union {w} /\ UNCHANGED server
     \/ Answers200(FALSE) /\ Wrapper(w, "check", "poll") /\ Server(w, "none", "check") /\ UNCHANGED readied
  /\ UNCHANGED <<program, slow, polls, thread, lock>>

\* It polls until the server is healthy, and gives up at the limit.
Poll(w) ==
  /\ Detached
  /\ \/ /\ Answers200(TRUE) /\ Wrapper(w, "poll", "watch")
        /\ readied' = readied \union {w} /\ UNCHANGED polls
     \/ /\ Answers200(FALSE) /\ polls' = [polls EXCEPT ![w] = @ + 1]
        /\ Wrapper(w, "poll", IF polls'[w] = PollLimit THEN "ended" ELSE "poll")
        /\ UNCHANGED readied
  /\ UNCHANGED <<program, slow, server, thread, lock>>

\* mutant: a check that fails is tried again
WatchOn(w) ==
  /\ Answers200(TRUE) /\ Wrapper(w, "watch", "watch")
  /\ UNCHANGED <<program, slow, polls, readied, server, thread, lock>>

\* _idle_until_stopped: any failure of the check means that the server is gone.
Watch(w) ==
  /\ Answers200(FALSE) /\ Wrapper(w, "watch", "ended")
  /\ UNCHANGED <<program, slow, polls, readied, server, thread, lock>>

-----------------------------------------------------------------------------
(* The recognizer's server and the synthesizers.                           *)

\* The recognizer's server itself looks for another before it loads the model.
ServerChecks(w) ==
  /\ \/ Answers200(TRUE) /\ Server(w, "check", "watch")
     \/ Answers200(FALSE) /\ Server(w, "check", "load")
  /\ UNCHANGED <<program, slow, wrapper, polls, readied, thread, lock>>

ServerWatches(w) ==
  /\ Answers200(FALSE) /\ Server(w, "watch", "dead")
  /\ UNCHANGED <<program, slow, wrapper, polls, readied, thread, lock>>

\* The model is loaded before the port is opened; a synthesizer says that it is
\* ready in between.
LoadModel(w) ==
  /\ program # "cloudxr" /\ Server(w, "load", "bind")
  /\ readied' = IF Alone THEN readied \union {w} ELSE readied
  /\ UNCHANGED <<program, slow, wrapper, polls, thread, lock>>

\* A process that ends; a synthesizer ends with its server.
Dies(w) ==
  /\ server' = [server EXCEPT ![w] = "dead"]
  /\ wrapper' = IF Alone THEN [wrapper EXCEPT ![w] = "ended"] ELSE wrapper
  /\ ThreadsGone(w) /\ UNCHANGED <<program, slow, polls, readied>>

\* A model that cannot be found or loaded ends the process at startup.
LoadFails(w) == program # "cloudxr" /\ server[w] = "load" /\ Dies(w)

\* The port is opened, unless another server has it.
Bind(w) ==
  /\ server[w] = "bind"
  /\ IF Up THEN Dies(w)
     ELSE /\ Server(w, "bind", "serve")
          /\ UNCHANGED <<program, slow, wrapper, polls, readied, thread, lock>>

\* A server ends of itself or is killed.
ServerCrash(w) == server[w] \in {"check", "load", "bind", "serve", "watch", "close"} /\ Dies(w)

\* The launcher ends what it has started.  The recognizer's server does not hear
\* of it; a synthesizer that serves finishes its requests first; CloudXR ends its
\* runtime wherever it is.
EndService(w) ==
  /\ wrapper[w] \notin {"off", "ended"}
  /\ IF Alone /\ server[w] = "serve"
     THEN /\ Server(w, "serve", "close")
          /\ UNCHANGED <<program, slow, wrapper, polls, readied, thread, lock>>
     ELSE /\ wrapper' = [wrapper EXCEPT ![w] = "ended"]
          /\ IF Detached THEN UNCHANGED <<server, thread, lock>>
             ELSE server' = [server EXCEPT ![w] = "dead"] /\ ThreadsGone(w)
          /\ UNCHANGED <<program, slow, polls, readied>>

Drained(w) == server[w] = "close" /\ (\A r \in Requests : thread[r].of # w) /\ Dies(w)

-----------------------------------------------------------------------------
(* Requests: each is a call in a thread of the executor.                   *)

Ask(r, w) ==
  /\ program # "cloudxr" /\ server[w] = "serve" /\ thread[r] = Idle
  /\ thread' = [thread EXCEPT ![r] = [of |-> w, at |-> "wait"]]
  /\ UNCHANGED <<program, slow, wrapper, polls, readied, server, lock>>

\* transcribe, synthesize: under the lock of the model if it is not re-entrant.
Enter(r) ==
  /\ program \in Serializing /\ thread[r].at = "wait" /\ lock[thread[r].of] = Nobody
  /\ thread' = [thread EXCEPT ![r].at = "inside"]
  /\ lock' = [lock EXCEPT ![thread[r].of] = r]
  /\ UNCHANGED <<program, slow, wrapper, polls, readied, server>>

\* Piper's voice is used by any number of threads.
EnterVoice(r) ==
  /\ program = "piper" /\ thread[r].at = "wait"
  /\ thread' = [thread EXCEPT ![r].at = "inside"]
  /\ UNCHANGED <<program, slow, wrapper, polls, readied, server, lock>>

\* The call returns or raises; the lock is given back on both ways.
CallReturns(r) ==
  /\ thread[r].at = "inside"
  /\ thread' = [thread EXCEPT ![r] = Idle]
  /\ lock' = [lock EXCEPT ![thread[r].of] = IF @ = r THEN Nobody ELSE @]
  /\ UNCHANGED <<program, slow, wrapper, polls, readied, server>>

-----------------------------------------------------------------------------
(* CloudXR.                                                                *)

\* The runtime's lock file appears.
RuntimeUp(w) ==
  /\ program = "cloudxr" /\ Server(w, "load", "serve")
  /\ UNCHANGED <<program, slow, wrapper, polls, readied, thread, lock>>

\* _wait_with_progress: the child is dead, or time is over.
Hopeless(w) == server[w] = "dead" \/ polls[w] = PollLimit

\* It looks for the lock file; if there is no hope the runtime is stopped and the
\* wrapper ends.
WaitRuntime(w) ==
  /\ program = "cloudxr"
  /\ \/ /\ server[w] = "serve" /\ Wrapper(w, "poll", "wait")
        /\ readied' = readied \union {w} /\ UNCHANGED <<polls, server>>
     \/ /\ server[w] = "load" /\ polls[w] < PollLimit /\ Wrapper(w, "poll", "poll")
        /\ polls' = [polls EXCEPT ![w] = @ + 1] /\ UNCHANGED <<readied, server>>
     \/ /\ Hopeless(w)
        /\ Wrapper(w, "poll", "ended") /\ server' = [server EXCEPT ![w] = "dead"]
        /\ UNCHANGED <<polls, readied>>
  /\ UNCHANGED <<program, slow, thread, lock>>

\* The proxy fails, which it does not without a WebRTC profile: the end as well.
ProxyFails(w) ==
  /\ program = "cloudxr" /\ Wrapper(w, "wait", "ended")
  /\ server' = [server EXCEPT ![w] = "dead"]
  /\ UNCHANGED <<program, slow, polls, readied, thread, lock>>

-----------------------------------------------------------------------------
WrapperSteps(w) == CheckFirst(w) \/ Poll(w) \/ Watch(w) \/ WaitRuntime(w)
ServerSteps(w)  == ServerChecks(w) \/ ServerWatches(w) \/ LoadModel(w) \/ LoadFails(w) \/ Bind(w) \/ Drained(w)

ServicesNext ==
  \/ \E w \in Starts : \/ Start(w) \/ EndService(w) \/ ServerCrash(w) \/ RuntimeUp(w) \/ ProxyFails(w)
                       \/ WrapperSteps(w) \/ ServerSteps(w)
                       \/ \E r \in Requests : Ask(r, w)
  \/ \E r \in Requests : Enter(r) \/ EnterVoice(r) \/ CallReturns(r)

\* Some process takes its next step; each has only so many of them.
ServicesSpec ==
  /\ ServicesInit /\ [][ServicesNext]_servicesVars
  /\ WF_servicesVars(\E w \in Starts : WrapperSteps(w))
  /\ WF_servicesVars(\E w \in Starts : ServerSteps(w))

-----------------------------------------------------------------------------
(* Properties.                                                             *)

\* A server that could still answer somebody.
Coming == \E w \in Starts : server[w] \in {"check", "load", "bind", "serve", "close"}

\* A speech service whose server is gone ends itself, whoever had spawned that
\* server and however far it had come, so that the launcher hears of it: a start
\* that lives with no server to come does not stay.
GoneIsNoticed ==
  \A w \in Starts :
    program # "cloudxr" /\ wrapper[w] # "off" /\ ~Coming ~> wrapper[w] = "ended" \/ Coming

\* A model that is not re-entrant has one thread in it, whatever requests come.
OneInModel ==
  program \in Serializing =>
    \A w \in Starts : Cardinality({r \in Requests : thread[r] = [of |-> w, at |-> "inside"]}) <= 1

\* CloudXR leaves no runtime behind, wherever it is stopped or fails.
RuntimeStopped ==
  program = "cloudxr" => \A w \in Starts : wrapper[w] = "ended" => server[w] = "dead"

\* What the code does not keep: the CloudXR wrapper looks at its runtime no more
\* once it is ready, so that a runtime that dies later is not noticed, ...
RuntimeIsNoticed ==
  \A w \in Starts :
    program = "cloudxr" /\ wrapper[w] # "off" /\ ~Coming ~> wrapper[w] = "ended" \/ Coming

\* ... and "any urlopen failure means the persisted server is gone" (stt_server's
\* __main__.py:256): one check that takes too long ends the wrapper.
EndsOnlyIfGone ==
  [][\A w \in Starts : wrapper[w] = "watch" /\ wrapper'[w] = "ended" => program # "stt" \/ ~Up]_servicesVars

\* A synthesizer is ready before it has its port, and may never get it.
ReadyMeansPort == \A w \in readied : program = "cloudxr" \/ wrapper[w] = "ended" \/ Up
=============================================================================
