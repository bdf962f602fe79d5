-------------------------------- MODULE Roster --------------------------------
(***************************************************************************)
(* Who is there: the hub's table of participants, the "participant" topic  *)
(* of its PUB socket, and the roster each ProcessorEndpoint keeps of it    *)
(* (auto_subscribe=True), with the roster request of a processor that      *)
(* starts in mid-session.                                                  *)
(*                                                                         *)
(* A SUB socket tells the PUB socket what it subscribes to by messages of  *)
(* its own, one after the other; until one has arrived, the PUB socket     *)
(* drops what the subscriber would have wanted.                            *)
(***************************************************************************)
EXTENDS Integers, Sequences, FiniteSets, Functions

CONSTANTS
  Processors,
  Participants,
  Presence,         \* the "participant" topic; a participant is the topic of
                    \* its own traffic
  HandshakeInTime,  \* TRUE: the SUB handshake takes less than
                    \* _ROSTER_HANDSHAKE_WAIT
  MaxRestarts,      \* bound: times the hub is restarted
  MaxInbox,         \* bound: events waiting at a SUB socket
  MaxControl        \* bound: subscriptions a SUB socket has under way

ASSUME ConstantsAssumption ==
  /\ IsFiniteSet(Participants)
  /\ Presence \notin Participants
  /\ HandshakeInTime \in BOOLEAN
  /\ MaxRestarts \in Nat /\ MaxInbox \in Nat /\ MaxControl \in Nat

Topics  == Participants \union {Presence}
Event   == [pid : Participants, joined : BOOLEAN]
Command == [topics : SUBSET Topics, subscribe : BOOLEAN]

VARIABLES
  connected,  \* _participant_connector: who the hub says is there
  restarts,   \* hub restarts so far
  phase,      \* phase[q]: "off", "settling" until the roster request is sent,
              \* "asked" until the hub has handled it, then "replayed"
  control,    \* control[q]: subscriptions on their way to the hub
  filter,     \* filter[q]: topics the hub sends q
  inbox,      \* inbox[q]: participant events q has not dispatched
  roster,     \* roster[q]: _participants, and the keys of _subscribed
  missed      \* history: processors that were not sent some traffic although
              \* their roster request had been answered

vars == <<connected, restarts, phase, control, filter, inbox, roster, missed>>
processorVars == <<phase, control, filter, roster>>

TypeOK ==
  /\ connected \subseteq Participants
  /\ restarts \in 0 .. MaxRestarts
  /\ phase \in [Processors -> {"off", "settling", "asked", "replayed"}]
  /\ control \in [Processors -> Seq(Command)]
  /\ filter \in [Processors -> SUBSET Topics]
  /\ inbox \in [Processors -> Seq(Event)]
  /\ roster \in [Processors -> SUBSET Participants]
  /\ missed \subseteq Processors

Init ==
  /\ connected = {} /\ restarts = 0 /\ missed = {}
  /\ phase = [q \in Processors |-> "off"]
  /\ control = [q \in Processors |-> <<>>]
  /\ filter = [q \in Processors |-> {}]
  /\ inbox = [q \in Processors |-> <<>>]
  /\ roster = [q \in Processors |-> {}]

-----------------------------------------------------------------------------
(* The hub.                                                                *)

\* Publish participant events to whoever subscribes to them.
Announce(events) ==
  /\ \A q \in Processors : Len(inbox[q]) + Len(events) <= MaxInbox
  /\ inbox' = [q \in Processors |->
                 IF Presence \in filter[q] THEN inbox[q] \o events ELSE inbox[q]]

\* PARTICIPANT_EVENT, from any connector.
HubJoined(p) ==
  /\ connected' = connected \union {p}
  /\ Announce(<<[pid |-> p, joined |-> TRUE]>>)
  /\ UNCHANGED <<restarts, processorVars, missed>>

HubLeft(p) ==
  /\ connected' = connected \ {p}
  /\ Announce(<<[pid |-> p, joined |-> FALSE]>>)
  /\ UNCHANGED <<restarts, processorVars, missed>>

\* ROSTER_REQUEST: replay a join for everybody, to everybody.  request_roster
\* may be called again later, and the request of a process that has exited
\* may still be under way.
HubReplaysRoster(q) ==
  /\ phase[q] # "settling"
  /\ phase' = [phase EXCEPT ![q] = IF @ = "off" THEN "off" ELSE "replayed"]
  /\ \E pids \in Bijection(1 .. Cardinality(connected), connected) :
       Announce([i \in DOMAIN pids |-> [pid |-> pids[i], joined |-> TRUE]])
  /\ UNCHANGED <<connected, restarts, control, filter, roster, missed>>

\* AUDIO_CHUNK, DATA_MESSAGE or FRAME_SIGNAL of a participant who is there.
HubPublishes(p) ==
  /\ p \in connected
  /\ missed' = missed \union
       {q \in Processors : phase[q] = "replayed" /\ p \notin filter[q]}
  /\ UNCHANGED <<connected, restarts, processorVars, inbox>>

\* The PUB socket learns of one subscription.
HubSubscribes(q) ==
  /\ control[q] # <<>>
  /\ LET c == Head(control[q])
     IN filter' = [filter EXCEPT ![q] =
                     IF c.subscribe THEN @ \union c.topics ELSE @ \ c.topics]
  /\ control' = [control EXCEPT ![q] = Tail(@)]
  /\ UNCHANGED <<connected, restarts, phase, inbox, roster, missed>>

-----------------------------------------------------------------------------
(* A processor process.                                                    *)

\* __init__ and run(): sockets, the global subscription, the receive loop.
Start(q) ==
  /\ phase[q] = "off"
  /\ phase' = [phase EXCEPT ![q] = "settling"]
  /\ control' = [control EXCEPT ![q] = <<[topics |-> {Presence}, subscribe |-> TRUE]>>]
  /\ UNCHANGED <<connected, restarts, filter, inbox, roster, missed>>

\* _catch_up_roster, after its sleep.
RequestRoster(q) ==
  /\ phase[q] = "settling"
  /\ HandshakeInTime => Presence \in filter[q]
  /\ phase' = [phase EXCEPT ![q] = "asked"]
  /\ UNCHANGED <<connected, restarts, control, filter, inbox, roster, missed>>

\* mutant: joins are taken into the roster, leaves are not
DispatchEventIgnoresLeave(q) ==
  /\ inbox[q] # <<>>
  /\ inbox' = [inbox EXCEPT ![q] = Tail(@)]
  /\ roster' = [roster EXCEPT ![q] =
                  IF Head(inbox[q]).joined THEN @ \union {Head(inbox[q]).pid} ELSE @]
  /\ UNCHANGED <<connected, restarts, phase, control, filter, missed>>

\* mutant: nothing is subscribed to
ResubscribeNever(q, event) == <<>>

\* The commands subscribe() or unsubscribe() gives the socket, which knows
\* what it has asked for: a participant already in the roster gets no second
\* SUBSCRIBE, one who is not gets no UNSUBSCRIBE.
Resubscribe(q, event) ==
  IF event.joined = (event.pid \in roster[q]) THEN <<>>
  ELSE <<[topics |-> {event.pid}, subscribe |-> event.joined]>>

\* PARTICIPANT_EVENT: roster and subscriptions first, callbacks later.
DispatchEvent(q) ==
  /\ inbox[q] # <<>> /\ Len(control[q]) < MaxControl
  /\ LET event == Head(inbox[q])
     IN  /\ roster' = [roster EXCEPT ![q] =
                         IF event.joined THEN @ \union {event.pid} ELSE @ \ {event.pid}]
         /\ control' = [control EXCEPT ![q] = @ \o Resubscribe(q, event)]
  /\ inbox' = [inbox EXCEPT ![q] = Tail(@)]
  /\ UNCHANGED <<connected, restarts, phase, filter, missed>>

\* stop(), or a callback raised and the process exits: its sockets go with it.
Exit(q) ==
  /\ phase[q] # "off"
  /\ phase' = [phase EXCEPT ![q] = "off"]
  /\ control' = [control EXCEPT ![q] = <<>>]
  /\ filter' = [filter EXCEPT ![q] = {}]
  /\ inbox' = [inbox EXCEPT ![q] = <<>>]
  /\ roster' = [roster EXCEPT ![q] = {}]
  /\ missed' = missed \ {q}
  /\ UNCHANGED <<connected, restarts>>

\* mutant: the sockets ask for the global topic only
HubRestartForgets ==
  /\ restarts < MaxRestarts
  /\ restarts' = restarts + 1 /\ connected' = {}
  /\ filter' = [q \in Processors |-> {}]
  /\ control' = [q \in Processors |->
                   IF phase[q] = "off" THEN <<>>
                   ELSE <<[topics |-> {Presence}, subscribe |-> TRUE]>>]
  /\ UNCHANGED <<phase, inbox, roster, missed>>

\* The hub process is replaced: its tables are empty, the sockets reconnect
\* and subscribe again, and nobody is told.
HubRestart ==
  /\ restarts < MaxRestarts
  /\ restarts' = restarts + 1
  /\ connected' = {}
  /\ filter' = [q \in Processors |-> {}]
  /\ control' = [q \in Processors |->
                   IF phase[q] = "off" THEN <<>>
                   ELSE <<[topics |-> {Presence} \union roster[q], subscribe |-> TRUE]>>]
  /\ UNCHANGED <<phase, inbox, roster, missed>>

-----------------------------------------------------------------------------
Hub ==
  \/ \E p \in Participants : HubJoined(p) \/ HubLeft(p) \/ HubPublishes(p)
  \/ \E q \in Processors : HubReplaysRoster(q) \/ HubSubscribes(q)
  \/ HubRestart

Processor(q) == Start(q) \/ RequestRoster(q) \/ DispatchEvent(q) \/ Exit(q)

Next == Hub \/ \E q \in Processors : Processor(q)

Spec == Init /\ [][Next]_vars

\* Subscriptions arrive and the receive loop runs.
Fairness ==
  \A q \in Processors : WF_vars(HubSubscribes(q)) /\ WF_vars(DispatchEvent(q))

FairSpec == Spec /\ Fairness

-----------------------------------------------------------------------------
(* Properties.                                                             *)

\* The roster once the events have been dispatched: the last event about a
\* participant decides, and without one the roster there was before.
RosterAfter(events, before) ==
  {p \in Participants :
     LET about == {i \in DOMAIN events : events[i].pid = p}
     IN  \/ about = {} /\ p \in before
         \/ \E i \in about : events[i].joined /\ \A j \in about : j <= i}

\* The topics the hub sends once the subscriptions have arrived.
FilterAfter(commands, before) ==
  {t \in Topics :
     LET about == {i \in DOMAIN commands : t \in commands[i].topics}
     IN  \/ about = {} /\ t \in before
         \/ \E i \in about : commands[i].subscribe /\ \A j \in about : j <= i}

\* A processor whose roster request was answered has the participants of the
\* hub in its roster, up to the events under way to it: it missed no join and
\* no leave, whenever it started and whatever was replayed meanwhile.
RosterAgrees ==
  \A q \in Processors : phase[q] = "replayed" =>
    RosterAfter(inbox[q], roster[q]) = connected

\* The subscriptions at the hub follow the roster, in every process, through
\* restarts of the hub: the traffic of the people in the roster and of nobody
\* else is sent to q, up to the subscriptions under way.
AudienceFollowsRoster ==
  \A q \in Processors : phase[q] # "off" =>
    FilterAfter(control[q], filter[q]) = roster[q] \union {Presence}

\* The inductive invariant behind RosterAgrees: a processor has no ghosts in
\* its roster even before the replay, and hears of everything after it.
Converging ==
  /\ RosterAgrees
  /\ \A q \in Processors : RosterAfter(inbox[q], roster[q]) \subseteq connected
  /\ \A q \in Processors :
       /\ phase[q] \in {"asked", "replayed"} => Presence \in filter[q]
       /\ \A i \in DOMAIN control[q] :
            Presence \in control[q][i].topics => control[q][i].subscribe
       /\ Presence \notin filter[q] => inbox[q] = <<>> /\ roster[q] = {}

\* A restarted hub tells nobody who has left: until then, processors converge.
AgreesUntilRestart == restarts = 0 => Converging

\* While somebody stays connected, every processor that runs is sent their
\* traffic in the end.
AudienceSettles ==
  \A q \in Processors, p \in Participants :
    (phase[q] = "replayed" /\ p \in connected)
      ~> (p \in filter[q] \/ p \notin connected \/ phase[q] # "replayed" \/ restarts > 0)

\* A processor that runs is sent everything participants send.
FullStream == missed = {}
===============================================================================
