---------------------------- MODULE FrameRequest ----------------------------
(***************************************************************************)
(* On-demand pixels for one video track: ProcessorEndpoint.request_frame   *)
(* and its dispatch of FRAME_SIGNAL and FRAME_DATA, the hub's FRAME_REQUEST *)
(* handler, and the PUSH and PUB sockets between them.                     *)
(*                                                                         *)
(* Frames are numbered in the order in which the hub takes them, across    *)
(* departures of the participant; MediaHub models how the hub comes by     *)
(* them.  A processor process runs several request_frame coroutines        *)
(* ("calls") in one event loop.                                            *)
(***************************************************************************)
EXTENDS Integers, Sequences, FiniteSets

CONSTANTS
  Processors,
  Calls,        \* the callers of request_frame, each with one call at a time
  ProcOf,       \* [Calls -> Processors]
  MaxFrame,     \* bound: frames of the track
  MaxQueue,     \* SUB high-water mark, in messages
  MaxRequests,  \* PUSH high-water mark: requests of a processor under way
  FaultSets     \* the combinations of Faults a behaviour may have

\* "loss": the hub drops what does not fit into a queue (without it, only
\* behaviours in which everything fits); "cancellation": the task that awaits a
\* call may be cancelled; "absence": the participant may leave and come back.
Faults == {"loss", "cancellation", "absence"}

ASSUME ConstantsAssumption ==
  /\ FaultSets \subseteq SUBSET Faults
  /\ ProcOf \in [Calls -> Processors]
  /\ MaxFrame \in Nat /\ MaxQueue \in Nat /\ MaxRequests \in Nat

Frames == 1 .. MaxFrame
Message == [type : {"signal", "data"}, frame : Frames]

VARIABLES
  taken,     \* frames the hub has taken so far
  held,      \* the frame whose slot the hub holds, 0 for none
  inbox,     \* inbox[p]: messages on the SUB socket of p, oldest first
  requests,  \* requests[p]: FRAME_REQUESTs of p the hub has not handled
  seen,      \* seen[p]: the newest FrameSignal the callbacks of p have, or 0
  pending,   \* pending[p]: the futures under the track's key in _pending
  call,      \* call[c]: where the coroutine is
  asked,     \* asked[c]: the frame of the signal the call was made with, or 0
  result,    \* result[c]: the frame the future of the call has, or 0
  faults     \* what may go wrong in this behaviour

vars == <<taken, held, inbox, requests, seen, pending, call, asked, result, faults>>
hubVars == <<taken, held>>
callVars == <<pending, call, asked, result>>

States == {"idle", "sending", "waiting", "returned", "timedout", "cancelled"}

TypeOK ==
  /\ taken \in 0 .. MaxFrame
  /\ held \in 0 .. MaxFrame
  /\ inbox \in [Processors -> Seq(Message)]
  /\ requests \in [Processors -> 0 .. MaxRequests]
  /\ seen \in [Processors -> 0 .. MaxFrame]
  /\ pending \in [Processors -> SUBSET Calls]
  /\ call \in [Calls -> States]
  /\ asked \in [Calls -> 0 .. MaxFrame]
  /\ result \in [Calls -> 0 .. MaxFrame]
  /\ faults \in FaultSets

Init ==
  /\ taken = 0 /\ held = 0
  /\ inbox = [p \in Processors |-> <<>>]
  /\ requests = [p \in Processors |-> 0]
  /\ seen = [p \in Processors |-> 0]
  /\ pending = [p \in Processors |-> {}]
  /\ call = [c \in Calls |-> "idle"]
  /\ asked = [c \in Calls |-> 0]
  /\ result = [c \in Calls |-> 0]
  /\ faults \in FaultSets

-----------------------------------------------------------------------------
(* The hub.                                                                *)

\* PUB: a copy to every subscriber whose queue is not full.
Publish(m) ==
  /\ "loss" \in faults \/ \A p \in Processors : Len(inbox[p]) < MaxQueue
  /\ inbox' = [p \in Processors |->
                 IF Len(inbox[p]) < MaxQueue THEN Append(inbox[p], m) ELSE inbox[p]]

\* mutant: the first frame stays, later ones are only announced
TakeFrameKeepsFirst ==
  /\ taken < MaxFrame
  /\ taken' = taken + 1
  /\ held' = IF held = 0 THEN taken + 1 ELSE held
  /\ Publish([type |-> "signal", frame |-> taken + 1])
  /\ UNCHANGED <<faults, requests, seen, callVars>>

\* FRAME_SIGNAL: hold the new slot, then publish the metadata.
TakeFrame ==
  /\ taken < MaxFrame
  /\ taken' = taken + 1
  /\ held' = taken + 1
  /\ Publish([type |-> "signal", frame |-> taken + 1])
  /\ UNCHANGED <<faults, requests, seen, callVars>>

\* PARTICIPANT_EVENT(joined=False): the slot goes back.
ParticipantLeft ==
  /\ "absence" \in faults
  /\ held # 0
  /\ held' = 0
  /\ UNCHANGED <<faults, taken, inbox, requests, seen, callVars>>

\* FRAME_REQUEST: copy the held slot to whoever subscribes to the track, and
\* say nothing when there is none.
HandleRequest(p) ==
  /\ requests[p] > 0
  /\ requests' = [requests EXCEPT ![p] = @ - 1]
  /\ IF held = 0 THEN UNCHANGED inbox
     ELSE Publish([type |-> "data", frame |-> held])
  /\ UNCHANGED <<faults, hubVars, seen, callVars>>

-----------------------------------------------------------------------------
(* The processor.                                                          *)

\* mutant: a new call takes the key over
RequestTakesOver(c) ==
  /\ call[c] = "idle" /\ seen[ProcOf[c]] > 0
  /\ asked' = [asked EXCEPT ![c] = seen[ProcOf[c]]]
  /\ call' = [call EXCEPT ![c] = "sending"]
  /\ pending' = [pending EXCEPT ![ProcOf[c]] = {c}]
  /\ UNCHANGED <<faults, hubVars, inbox, requests, seen, result>>

\* request_frame(signal), called with the newest signal the callbacks have
\* seen: share the request that is under way, or start one.
Request(c) ==
  LET p == ProcOf[c]
  IN  /\ call[c] = "idle"
      /\ seen[p] > 0
      /\ asked' = [asked EXCEPT ![c] = seen[p]]
      /\ call' = [call EXCEPT ![c] = IF pending[p] = {} THEN "sending" ELSE "waiting"]
      /\ pending' = [pending EXCEPT ![p] = @ \union {c}]
      /\ UNCHANGED <<faults, hubVars, inbox, requests, seen, result>>

\* The PUSH socket takes the FRAME_REQUEST: at once, or when the hub is back.
Sent(c) ==
  /\ call[c] = "sending"
  /\ requests[ProcOf[c]] < MaxRequests
  /\ call' = [call EXCEPT ![c] = "waiting"]
  /\ requests' = [requests EXCEPT ![ProcOf[c]] = @ + 1]
  /\ UNCHANGED <<faults, hubVars, inbox, seen, pending, asked, result>>

Receive(p, type) ==
  /\ inbox[p] # <<>>
  /\ Head(inbox[p]).type = type
  /\ inbox' = [inbox EXCEPT ![p] = Tail(@)]

DispatchSignal(p) ==
  /\ Receive(p, "signal")
  /\ seen' = [seen EXCEPT ![p] = Head(inbox[p]).frame]
  /\ UNCHANGED <<faults, hubVars, requests, callVars>>

\* mutant: the futures are resolved and the key stays
DispatchDataKeepsKey(p) ==
  /\ Receive(p, "data")
  /\ result' = [c \in Calls |-> IF c \in pending[p] THEN Head(inbox[p]).frame ELSE result[c]]
  /\ UNCHANGED <<faults, pending, hubVars, requests, seen, call, asked>>

\* mutant: one future gets the frame, and the key goes
DispatchDataToFirst(p) ==
  /\ Receive(p, "data")
  /\ result' = IF pending[p] = {} THEN result
               ELSE [result EXCEPT ![CHOOSE c \in pending[p] : TRUE] = Head(inbox[p]).frame]
  /\ pending' = [pending EXCEPT ![p] = {}]
  /\ UNCHANGED <<faults, hubVars, requests, seen, call, asked>>

\* FRAME_DATA: every future under the key gets the frame, and the key goes.
\* The futures of cancelled calls are in the list as well.
DispatchData(p) ==
  /\ Receive(p, "data")
  /\ result' = [c \in Calls |-> IF c \in pending[p] THEN Head(inbox[p]).frame ELSE result[c]]
  /\ pending' = [pending EXCEPT ![p] = {}]
  /\ UNCHANGED <<faults, hubVars, requests, seen, call, asked>>

\* wait_for returns the future's frame.
Return(c) ==
  /\ call[c] = "waiting" /\ result[c] # 0
  /\ call' = [call EXCEPT ![c] = "returned"]
  /\ UNCHANGED <<faults, hubVars, inbox, requests, seen, pending, asked, result>>

\* wait_for gives up: the future leaves the list, and the last one takes the
\* key with it.
TimeOut(c) ==
  /\ call[c] = "waiting" /\ result[c] = 0
  /\ call' = [call EXCEPT ![c] = "timedout"]
  /\ pending' = [pending EXCEPT ![ProcOf[c]] = @ \ {c}]
  /\ UNCHANGED <<faults, hubVars, inbox, requests, seen, asked, result>>

\* CancelledError, in send() or in wait_for(), is no TimeoutError: the
\* shielded future stays where it is.
Cancel(c) ==
  /\ "cancellation" \in faults
  /\ call[c] \in {"sending", "waiting"}
  /\ call' = [call EXCEPT ![c] = "cancelled"]
  /\ UNCHANGED <<faults, hubVars, inbox, requests, seen, pending, asked, result>>

\* The caller may call again.
Again(c) ==
  /\ call[c] \in {"returned", "timedout", "cancelled"}
  /\ c \notin pending[ProcOf[c]]
  /\ call' = [call EXCEPT ![c] = "idle"]
  /\ asked' = [asked EXCEPT ![c] = 0]
  /\ result' = [result EXCEPT ![c] = 0]
  /\ UNCHANGED <<faults, hubVars, inbox, requests, seen, pending>>

-----------------------------------------------------------------------------
Next ==
  \/ TakeFrame \/ ParticipantLeft
  \/ \E p \in Processors : HandleRequest(p) \/ DispatchSignal(p) \/ DispatchData(p)
  \/ \E c \in Calls :
       Request(c) \/ Sent(c) \/ Return(c) \/ TimeOut(c) \/ Cancel(c) \/ Again(c)

Spec == Init /\ [][Next]_vars

\* The hub handles what it is sent, the receive loop runs, sockets are
\* writable again in time, and every wait_for has a timer.
Fairness ==
  /\ \A p \in Processors :
       WF_vars(HandleRequest(p)) /\ WF_vars(DispatchSignal(p) \/ DispatchData(p))
  /\ \A c \in Calls : WF_vars(Sent(c)) /\ WF_vars(Return(c)) /\ WF_vars(TimeOut(c))

FairSpec == Spec /\ Fairness

-----------------------------------------------------------------------------
(* Properties.                                                             *)

Live(c) == call[c] \in {"sending", "waiting"}

\* No lost wake-up: a call that waits without an answer has its future where
\* the next FRAME_DATA of the track will find it.
WaitersRegistered ==
  \A c \in Calls : Live(c) /\ result[c] = 0 => c \in pending[ProcOf[c]]

\* A call never gets an older frame than the one its signal announced, though
\* it may share an answer another call asked for, perhaps in another process:
\* signals and answers come through one PUB socket in the order the hub sent
\* them.
SnapshotNotOlder ==
  \A c \in Calls : result[c] # 0 => result[c] >= asked[c]

\* What a processor has seen is no newer than what is under way to it, and
\* that is in the order of the frames: with it SnapshotNotOlder is inductive.
DeliveredInOrder ==
  /\ SnapshotNotOlder
  /\ \A c \in Calls : call[c] = "idle" => result[c] = 0 /\ c \notin pending[ProcOf[c]]
  /\ held \in {0, taken}
  /\ \A p \in Processors :
       /\ seen[p] <= taken
       /\ \A i \in 1 .. Len(inbox[p]) :
            seen[p] <= inbox[p][i].frame /\ inbox[p][i].frame <= taken
       /\ \A i, j \in 1 .. Len(inbox[p]) : i < j => inbox[p][i].frame <= inbox[p][j].frame
       /\ \A c \in pending[p] : ProcOf[c] = p /\ asked[c] <= seen[p]

Answers(p) == {i \in 1 .. Len(inbox[p]) : inbox[p][i].type = "data"}

\* A request is in flight: not yet sent, not yet handled, or answered.
InFlight(p) ==
  \/ \E c \in Calls : ProcOf[c] = p /\ call[c] = "sending"
  \/ requests[p] > 0
  \/ Answers(p) # {}

\* A call that finds the key taken has a request in flight to share.
PiggybackRidesRequest ==
  [][\A c \in Calls : call[c] = "idle" /\ call'[c] = "waiting" => InFlight(ProcOf[c])]_vars

\* It does unless the participant was away, somebody was cancelled, or a
\* message was lost.
PiggybackNeedsFault ==
  [][\A c \in Calls : faults = {} /\ call[c] = "idle" /\ call'[c] = "waiting"
       => InFlight(ProcOf[c])]_vars

\* The futures under the key are those of calls that are still waiting.
PendingCallsAreLive ==
  \A p \in Processors : \A c \in pending[p] : Live(c)

\* While the participant stays, nobody is cancelled and no queue overflows, a
\* request is answered: callers that overlap never keep the key for ever.
KeyIsFreed ==
  \A p \in Processors : faults = {} /\ pending[p] # {} ~> pending[p] = {}

\* What the callers of request_frame see of it.
StageSeen == [c \in Calls |-> IF call[c] = "sending" THEN "waiting" ELSE call[c]]
GotSeen   == [c \in Calls |-> IF call[c] = "cancelled" THEN 0 ELSE result[c]]

Snapshots == INSTANCE SharedSnapshot WITH
  Callers <- Calls,
  Homes   <- Processors,
  HomeOf  <- ProcOf,
  newest  <- taken,
  stage   <- StageSeen,
  wants   <- asked,
  got     <- GotSeen

\* The key, its list of futures, the two sockets and the hub between them
\* implement SharedSnapshot: no call that waits is left out of an answer, gets
\* another frame than those it waits with, or one older than it asked for.
ImplementsSnapshots == Snapshots!Spec
=============================================================================
