----------------------------- MODULE Roster_proof -----------------------------
(***************************************************************************)
(* Proofs about Roster: types, that subscriptions follow the roster, and   *)
(* that the roster follows the hub.  The latter rest on how After and      *)
(* SentAfter, which ask for the last word on a participant or a topic in a *)
(* queue, change when something is appended or taken off.                  *)
(***************************************************************************)
EXTENDS Roster, TLAPS, SequenceTheorems, FiniteSetTheorems

USE ConstantsAssumption

-----------------------------------------------------------------------------
(* The last word in a queue.                                               *)

\* Dispatching two queues is dispatching one and then the other.
LEMMA RosterConcat ==
  ASSUME NEW s \in Seq(Event), NEW t \in Seq(Event), NEW B
  PROVE  RosterAfter(s \o t, B) = RosterAfter(t, RosterAfter(s, B))
<1> SUFFICES ASSUME NEW p \in Participants
    PROVE  p \in RosterAfter(s \o t, B) <=> p \in RosterAfter(t, RosterAfter(s, B))
  BY DEF RosterAfter
<1> DEFINE st == s \o t
           n == Len(s)
           A(u) == {i \in DOMAIN u : u[i].pid = p}
<1>1. /\ n \in Nat /\ Len(t) \in Nat
      /\ DOMAIN s = 1 .. n /\ DOMAIN t = 1 .. Len(t) /\ DOMAIN st = 1 .. n + Len(t)
      /\ \A i \in 1 .. n : st[i] = s[i]
      /\ \A i \in 1 .. Len(t) : st[n + i] = t[i]
  OBVIOUS
<1>2. \A i \in DOMAIN st : i \in 1 .. n \/ (i - n \in 1 .. Len(t) /\ st[i] = t[i - n])
  BY <1>1
<1> HIDE DEF st, n
<1>3. CASE A(t) = {}
  <2>1. A(st) = A(s)
    <3>1. ASSUME NEW i \in A(st) PROVE i \in A(s)
      BY <1>1, <1>2, <1>3, <3>1
    <3>2. ASSUME NEW i \in A(s) PROVE i \in A(st)
      BY <1>1, <3>2
    <3> QED BY <3>1, <3>2
  <2>2. \A i \in A(s) : st[i] = s[i]
    BY <1>1
  <2>3. p \in RosterAfter(st, B) <=> p \in RosterAfter(s, B)
    BY <2>1, <2>2 DEF RosterAfter
  <2>4. p \in RosterAfter(t, RosterAfter(s, B)) <=> p \in RosterAfter(s, B)
    BY <1>3 DEF RosterAfter
  <2> QED BY <2>3, <2>4 DEF st
<1>4. CASE A(t) # {}
  <2>1. PICK k \in A(t) : TRUE
    BY <1>4
  <2>2. k + n \in A(st) /\ k \in 1 .. Len(t)
    BY <1>1, <2>1
  <2>3. ASSUME p \in RosterAfter(st, B) PROVE p \in RosterAfter(t, RosterAfter(s, B))
    <3>1. PICK i \in A(st) : st[i].joined /\ \A j \in A(st) : j <= i
      BY <2>2, <2>3 DEF RosterAfter
    <3>2. i - n \in 1 .. Len(t) /\ st[i] = t[i - n]
      BY <1>1, <1>2, <2>2, <3>1
    <3>3. ASSUME NEW j \in A(t) PROVE j <= i - n
      <4>1. j + n \in A(st) /\ j \in 1 .. Len(t)
        BY <1>1, <3>3
      <4> QED BY <1>1, <3>1, <3>2, <4>1
    <3>4. i - n \in A(t) /\ t[i - n].joined
      BY <1>1, <3>1, <3>2
    <3> QED BY <3>3, <3>4 DEF RosterAfter
  <2>4. ASSUME p \in RosterAfter(t, RosterAfter(s, B)) PROVE p \in RosterAfter(st, B)
    <3>1. PICK i \in A(t) : t[i].joined /\ \A j \in A(t) : j <= i
      BY <1>4, <2>4 DEF RosterAfter
    <3>2. i \in 1 .. Len(t) /\ st[n + i] = t[i] /\ n + i \in A(st)
      BY <1>1, <3>1
    <3>3. ASSUME NEW j \in A(st) PROVE j <= n + i
      <4>1. CASE j \in 1 .. n
        BY <1>1, <3>2, <4>1
      <4>2. CASE j - n \in 1 .. Len(t) /\ st[j] = t[j - n]
        <5>1. j - n \in A(t)
          BY <1>1, <3>3, <4>2
        <5> QED BY <1>1, <3>1, <3>2, <3>3, <5>1
      <4> QED BY <1>2, <3>3, <4>1, <4>2
    <3> QED BY <3>1, <3>2, <3>3 DEF RosterAfter
  <2> QED BY <2>3, <2>4 DEF st
<1> QED BY <1>3, <1>4

LEMMA RosterNone == ASSUME NEW B \in SUBSET Participants PROVE RosterAfter(<<>>, B) = B
BY DEF RosterAfter

\* One event.
LEMMA RosterOne ==
  ASSUME NEW e \in Event, NEW B \in SUBSET Participants
  PROVE  RosterAfter(<<e>>, B) = IF e.joined THEN B \union {e.pid} ELSE B \ {e.pid}
<1>1. DOMAIN <<e>> = {1} /\ <<e>>[1] = e /\ e.pid \in Participants
  BY DEF Event
<1>2. ASSUME NEW p \in Participants
      PROVE  p \in RosterAfter(<<e>>, B) <=> (IF e.pid = p THEN e.joined ELSE p \in B)
  BY <1>1 DEF RosterAfter
<1> QED BY <1>1, <1>2 DEF RosterAfter

\* Dispatching the first event and then the others.
LEMMA RosterTail ==
  ASSUME NEW s \in Seq(Event), s # <<>>, NEW B
  PROVE  RosterAfter(s, B) = RosterAfter(Tail(s), RosterAfter(<<Head(s)>>, B))
<1>1. Head(s) \in Event /\ Tail(s) \in Seq(Event)
  BY HeadTailProperties
<1>2. s = <<Head(s)>> \o Tail(s) /\ <<Head(s)>> \in Seq(Event)
  BY <1>1
<1>3. RosterAfter(<<Head(s)>> \o Tail(s), B) = RosterAfter(Tail(s), RosterAfter(<<Head(s)>>, B))
  BY <1>1, <1>2, RosterConcat
<1> QED BY <1>2, <1>3

\* Two queues of subscriptions arrive as one and then the other.
LEMMA FilterConcat ==
  ASSUME NEW s \in Seq(Command), NEW t \in Seq(Command), NEW B
  PROVE  FilterAfter(s \o t, B) = FilterAfter(t, FilterAfter(s, B))
<1> SUFFICES ASSUME NEW p \in Topics
    PROVE  p \in FilterAfter(s \o t, B) <=> p \in FilterAfter(t, FilterAfter(s, B))
  BY DEF FilterAfter
<1> DEFINE st == s \o t
           n == Len(s)
           A(u) == {i \in DOMAIN u : p \in u[i].topics}
<1>1. /\ n \in Nat /\ Len(t) \in Nat
      /\ DOMAIN s = 1 .. n /\ DOMAIN t = 1 .. Len(t) /\ DOMAIN st = 1 .. n + Len(t)
      /\ \A i \in 1 .. n : st[i] = s[i]
      /\ \A i \in 1 .. Len(t) : st[n + i] = t[i]
  OBVIOUS
<1>2. \A i \in DOMAIN st : i \in 1 .. n \/ (i - n \in 1 .. Len(t) /\ st[i] = t[i - n])
  BY <1>1
<1> HIDE DEF st, n
<1>3. CASE A(t) = {}
  <2>1. A(st) = A(s)
    <3>1. ASSUME NEW i \in A(st) PROVE i \in A(s)
      BY <1>1, <1>2, <1>3, <3>1
    <3>2. ASSUME NEW i \in A(s) PROVE i \in A(st)
      BY <1>1, <3>2
    <3> QED BY <3>1, <3>2
  <2>2. \A i \in A(s) : st[i] = s[i]
    BY <1>1
  <2>3. p \in FilterAfter(st, B) <=> p \in FilterAfter(s, B)
    BY <2>1, <2>2 DEF FilterAfter
  <2>4. p \in FilterAfter(t, FilterAfter(s, B)) <=> p \in FilterAfter(s, B)
    BY <1>3 DEF FilterAfter
  <2> QED BY <2>3, <2>4 DEF st
<1>4. CASE A(t) # {}
  <2>1. PICK k \in A(t) : TRUE
    BY <1>4
  <2>2. k + n \in A(st) /\ k \in 1 .. Len(t)
    BY <1>1, <2>1
  <2>3. ASSUME p \in FilterAfter(st, B) PROVE p \in FilterAfter(t, FilterAfter(s, B))
    <3>1. PICK i \in A(st) : st[i].subscribe /\ \A j \in A(st) : j <= i
      BY <2>2, <2>3 DEF FilterAfter
    <3>2. i - n \in 1 .. Len(t) /\ st[i] = t[i - n]
      BY <1>1, <1>2, <2>2, <3>1
    <3>3. ASSUME NEW j \in A(t) PROVE j <= i - n
      <4>1. j + n \in A(st) /\ j \in 1 .. Len(t)
        BY <1>1, <3>3
      <4> QED BY <1>1, <3>1, <3>2, <4>1
    <3>4. i - n \in A(t) /\ t[i - n].subscribe
      BY <1>1, <3>1, <3>2
    <3> QED BY <3>3, <3>4 DEF FilterAfter
  <2>4. ASSUME p \in FilterAfter(t, FilterAfter(s, B)) PROVE p \in FilterAfter(st, B)
    <3>1. PICK i \in A(t) : t[i].subscribe /\ \A j \in A(t) : j <= i
      BY <1>4, <2>4 DEF FilterAfter
    <3>2. i \in 1 .. Len(t) /\ st[n + i] = t[i] /\ n + i \in A(st)
      BY <1>1, <3>1
    <3>3. ASSUME NEW j \in A(st) PROVE j <= n + i
      <4>1. CASE j \in 1 .. n
        BY <1>1, <3>2, <4>1
      <4>2. CASE j - n \in 1 .. Len(t) /\ st[j] = t[j - n]
        <5>1. j - n \in A(t)
          BY <1>1, <3>3, <4>2
        <5> QED BY <1>1, <3>1, <3>2, <3>3, <5>1
      <4> QED BY <1>2, <3>3, <4>1, <4>2
    <3> QED BY <3>1, <3>2, <3>3 DEF FilterAfter
  <2> QED BY <2>3, <2>4 DEF st
<1> QED BY <1>3, <1>4

LEMMA FilterNone == ASSUME NEW B \in SUBSET Topics PROVE FilterAfter(<<>>, B) = B
BY DEF FilterAfter

\* One subscription.
LEMMA FilterOne ==
  ASSUME NEW e \in Command, NEW B \in SUBSET Topics
  PROVE  FilterAfter(<<e>>, B) = IF e.subscribe THEN B \union e.topics ELSE B \ e.topics
<1>1. DOMAIN <<e>> = {1} /\ <<e>>[1] = e /\ e.topics \subseteq Topics
  BY DEF Command
<1>2. ASSUME NEW p \in Topics
      PROVE  p \in FilterAfter(<<e>>, B) <=> (IF p \in e.topics THEN e.subscribe ELSE p \in B)
  BY <1>1 DEF FilterAfter
<1> QED BY <1>1, <1>2 DEF FilterAfter

\* The first subscription arrives and then the others.
LEMMA FilterTail ==
  ASSUME NEW s \in Seq(Command), s # <<>>, NEW B
  PROVE  FilterAfter(s, B) = FilterAfter(Tail(s), FilterAfter(<<Head(s)>>, B))
<1>1. Head(s) \in Command /\ Tail(s) \in Seq(Command)
  BY HeadTailProperties
<1>2. s = <<Head(s)>> \o Tail(s) /\ <<Head(s)>> \in Seq(Command)
  BY <1>1
<1>3. FilterAfter(<<Head(s)>> \o Tail(s), B) = FilterAfter(Tail(s), FilterAfter(<<Head(s)>>, B))
  BY <1>1, <1>2, FilterConcat
<1> QED BY <1>2, <1>3

-----------------------------------------------------------------------------
(* Types.                                                                  *)

LEMMA AnnounceType ==
  ASSUME TypeOK, NEW events \in Seq(Event), Announce(events)
  PROVE  inbox' \in [Processors -> Seq(Event)]
<1>1. ASSUME NEW q \in Processors PROVE inbox[q] \o events \in Seq(Event)
  BY DEF TypeOK
<1> QED BY <1>1 DEF TypeOK, Announce

\* The events of a replay.
LEMMA ReplayType ==
  ASSUME TypeOK, NEW pids \in [1 .. Cardinality(connected) -> connected]
  PROVE  [i \in DOMAIN pids |-> [pid |-> pids[i], joined |-> TRUE]] \in Seq(Event)
<1>1. IsFiniteSet(connected) /\ connected \subseteq Participants
  BY FS_Subset DEF TypeOK
<1>2. Cardinality(connected) \in Nat
  BY <1>1, FS_CardinalityType
<1>3. \A i \in DOMAIN pids : [pid |-> pids[i], joined |-> TRUE] \in Event
  BY <1>1 DEF Event
<1> QED BY <1>2, <1>3

LEMMA InitType == Init => TypeOK
  BY DEF Init, TypeOK

LEMMA HubType == ASSUME TypeOK, Hub PROVE TypeOK'
<1>1. ASSUME NEW p \in Participants, HubJoined(p) PROVE TypeOK'
  <2>1. <<[pid |-> p, joined |-> TRUE]>> \in Seq(Event)
    BY DEF Event
  <2>2. inbox' \in [Processors -> Seq(Event)]
    BY <1>1, <2>1, AnnounceType DEF HubJoined
  <2> QED BY <1>1, <2>2 DEF HubJoined, TypeOK, processorVars
<1>2. ASSUME NEW p \in Participants, HubLeft(p) PROVE TypeOK'
  <2>1. <<[pid |-> p, joined |-> FALSE]>> \in Seq(Event)
    BY DEF Event
  <2>2. inbox' \in [Processors -> Seq(Event)]
    BY <1>2, <2>1, AnnounceType DEF HubLeft
  <2> QED BY <1>2, <2>2 DEF HubLeft, TypeOK, processorVars
<1>3. ASSUME NEW p \in Participants, HubPublishes(p) PROVE TypeOK'
  BY <1>3 DEF HubPublishes, TypeOK, processorVars
<1>4. ASSUME NEW q \in Processors, HubReplaysRoster(q) PROVE TypeOK'
  <2>1. inbox' \in [Processors -> Seq(Event)]
    BY <1>4, ReplayType, AnnounceType DEF HubReplaysRoster, Bijection, Injection, Surjection
  <2> QED BY <1>4, <2>1 DEF HubReplaysRoster, TypeOK
<1>5. ASSUME NEW q \in Processors, HubSubscribes(q) PROVE TypeOK'
  <2>1. Head(control[q]) \in Command /\ Tail(control[q]) \in Seq(Command)
    BY <1>5, HeadTailProperties DEF HubSubscribes, TypeOK
  <2>2. Head(control[q]).topics \subseteq Topics
    BY <2>1 DEF Command
  <2>3. control' \in [Processors -> Seq(Command)]
    BY <1>5, <2>1 DEF HubSubscribes, TypeOK
  <2>4. filter' \in [Processors -> SUBSET Topics]
    BY <1>5, <2>2 DEF HubSubscribes, TypeOK
  <2> QED BY <1>5, <2>3, <2>4 DEF HubSubscribes, TypeOK
<1>6. ASSUME HubRestart PROVE TypeOK'
  <2>1. ASSUME NEW q \in Processors
        PROVE  <<[topics |-> {Presence} \union roster[q], subscribe |-> TRUE]>> \in Seq(Command)
    BY DEF TypeOK, Command, Topics
  <2>2. control' \in [Processors -> Seq(Command)]
    BY <1>6, <2>1 DEF HubRestart
  <2> QED BY <1>6, <2>2 DEF HubRestart, TypeOK
<1> QED BY <1>1, <1>2, <1>3, <1>4, <1>5, <1>6 DEF Hub

LEMMA ResubscribeType ==
  ASSUME NEW q \in Processors, NEW event \in Event
  PROVE  Resubscribe(q, event) \in Seq(Command)
<1>1. event.pid \in Participants /\ event.joined \in BOOLEAN
  BY DEF Event
<1>2. [topics |-> {event.pid}, subscribe |-> event.joined] \in Command
  BY <1>1 DEF Command, Topics
<1> QED BY <1>2 DEF Resubscribe

LEMMA ProcessorType ==
  ASSUME TypeOK, NEW q \in Processors, Processor(q) PROVE TypeOK'
<1>1. CASE Start(q)
  <2>1. <<[topics |-> {Presence}, subscribe |-> TRUE]>> \in Seq(Command)
    BY DEF Command, Topics
  <2>2. control' \in [Processors -> Seq(Command)]
    BY <1>1, <2>1 DEF Start, TypeOK
  <2> QED BY <1>1, <2>2 DEF Start, TypeOK
<1>2. CASE RequestRoster(q)
  BY <1>2 DEF RequestRoster, TypeOK
<1>3. CASE DispatchEvent(q)
  <2>1. Head(inbox[q]) \in Event /\ Tail(inbox[q]) \in Seq(Event)
    BY <1>3, HeadTailProperties DEF DispatchEvent, TypeOK
  <2>2. Head(inbox[q]).pid \in Participants
    BY <2>1 DEF Event
  <2>3. control[q] \o Resubscribe(q, Head(inbox[q])) \in Seq(Command)
    BY <2>1, ResubscribeType DEF TypeOK
  <2>4. control' \in [Processors -> Seq(Command)]
    BY <1>3, <2>3 DEF DispatchEvent, TypeOK
  <2>5. inbox' \in [Processors -> Seq(Event)]
    BY <1>3, <2>1 DEF DispatchEvent, TypeOK
  <2>6. roster' \in [Processors -> SUBSET Participants]
    BY <1>3, <2>2 DEF DispatchEvent, TypeOK
  <2> QED BY <1>3, <2>4, <2>5, <2>6 DEF DispatchEvent, TypeOK
<1>4. CASE Exit(q)
  BY <1>4 DEF Exit, TypeOK
<1> QED BY <1>1, <1>2, <1>3, <1>4 DEF Processor

LEMMA NextType == ASSUME TypeOK, [Next]_vars PROVE TypeOK'
<1>1. CASE UNCHANGED vars
  BY <1>1 DEF vars, TypeOK
<1> QED BY <1>1, HubType, ProcessorType DEF Next

\* Every variable of Roster keeps its type, through starts, exits and hub
\* restarts, for any processors and participants.
THEOREM TypeCorrect == Spec => []TypeOK
<1> QED BY InitType, NextType, PTL DEF Spec

-----------------------------------------------------------------------------
(* Subscriptions follow the roster.                                        *)

\* AudienceFollowsRoster for one processor, and that a process which does not
\* run has no sockets.
Follows(q) ==
  IF phase[q] = "off"
  THEN filter[q] = {} /\ control[q] = <<>> /\ inbox[q] = <<>> /\ roster[q] = {}
  ELSE FilterAfter(control[q], filter[q]) = roster[q] \union {Presence}

\* What a processor's sockets do not see leaves Follows alone.
LEMMA FollowsUnchanged ==
  ASSUME NEW q \in Processors, Follows(q), phase'[q] = "off" <=> phase[q] = "off",
         filter'[q] = filter[q], control'[q] = control[q], roster'[q] = roster[q],
         phase[q] = "off" => inbox'[q] = inbox[q]
  PROVE  Follows(q)'
BY DEF Follows

LEMMA FollowsInit == Init => \A q \in Processors : Follows(q)
BY DEF Init, Follows

\* Events are published only to those who subscribe to them.
LEMMA AnnounceClean ==
  ASSUME TypeOK, NEW q \in Processors, Follows(q), NEW events, Announce(events),
         phase[q] = "off"
  PROVE  inbox'[q] = inbox[q]
BY DEF Announce, Follows, TypeOK

LEMMA HubSubscribesFollows ==
  ASSUME TypeOK, NEW r \in Processors, HubSubscribes(r), NEW q \in Processors, Follows(q)
  PROVE  Follows(q)'
<1>1. CASE q # r
  BY <1>1, FollowsUnchanged DEF HubSubscribes, TypeOK
<1>2. CASE q = r
  <2> DEFINE c == Head(control[q])
  <2>1. /\ phase[q] # "off" /\ phase' = phase /\ roster' = roster
        /\ control[q] # <<>> /\ control[q] \in Seq(Command)
        /\ c \in Command /\ filter[q] \in SUBSET Topics
        /\ control'[q] = Tail(control[q])
        /\ filter'[q] = IF c.subscribe THEN filter[q] \union c.topics ELSE filter[q] \ c.topics
    BY <1>2, HeadTailProperties DEF HubSubscribes, Follows, TypeOK
  <2>2. FilterAfter(control[q], filter[q]) = FilterAfter(Tail(control[q]), FilterAfter(<<c>>, filter[q]))
    BY <2>1, FilterTail
  <2>3. FilterAfter(<<c>>, filter[q]) = filter'[q]
    BY <2>1, FilterOne
  <2> QED BY <2>1, <2>2, <2>3 DEF Follows
<1> QED BY <1>1, <1>2

LEMMA HubRestartFollows ==
  ASSUME TypeOK, HubRestart, NEW q \in Processors, Follows(q)
  PROVE  Follows(q)'
<1>1. phase' = phase /\ roster' = roster /\ inbox' = inbox /\ filter'[q] = {}
  BY DEF HubRestart
<1>2. CASE phase[q] = "off"
  BY <1>1, <1>2 DEF HubRestart, Follows
<1>3. CASE phase[q] # "off"
  <2> DEFINE c == [topics |-> {Presence} \union roster[q], subscribe |-> TRUE]
  <2>1. c \in Command /\ control'[q] = <<c>>
    BY <1>3 DEF HubRestart, TypeOK, Command, Topics
  <2>2. FilterAfter(<<c>>, {}) = {Presence} \union roster[q]
    <3>1. FilterAfter(<<c>>, {}) = IF c.subscribe THEN {} \union c.topics ELSE {} \ c.topics
      BY <2>1, FilterOne
    <3> QED BY <3>1
  <2> QED BY <1>1, <1>3, <2>1, <2>2 DEF Follows
<1> QED BY <1>2, <1>3

LEMMA HubFollows ==
  ASSUME TypeOK, Hub, NEW q \in Processors, Follows(q) PROVE Follows(q)'
<1>1. ASSUME NEW p \in Participants, HubJoined(p) \/ HubLeft(p) PROVE Follows(q)'
  <2>1. /\ phase' = phase /\ control' = control /\ filter' = filter /\ roster' = roster
        /\ \E events : Announce(events)
    BY <1>1 DEF HubJoined, HubLeft, processorVars
  <2> QED BY <2>1, AnnounceClean, FollowsUnchanged
<1>2. ASSUME NEW p \in Participants, HubPublishes(p) PROVE Follows(q)'
  BY <1>2, FollowsUnchanged DEF HubPublishes, processorVars
<1>3. ASSUME NEW r \in Processors, HubReplaysRoster(r) PROVE Follows(q)'
  <2>1. /\ control' = control /\ filter' = filter /\ roster' = roster
        /\ phase'[q] = "off" <=> phase[q] = "off"
        /\ \E events : Announce(events)
    BY <1>3 DEF HubReplaysRoster, TypeOK
  <2> QED BY <2>1, AnnounceClean, FollowsUnchanged
<1> QED BY <1>1, <1>2, <1>3, HubSubscribesFollows, HubRestartFollows DEF Hub

LEMMA StartFollows ==
  ASSUME TypeOK, NEW q \in Processors, Follows(q), Start(q) PROVE Follows(q)'
<1> DEFINE c == [topics |-> {Presence}, subscribe |-> TRUE]
<1>1. c \in Command
  BY DEF Command, Topics
<1>2. FilterAfter(<<c>>, {}) = {Presence}
  <2>1. FilterAfter(<<c>>, {}) = IF c.subscribe THEN {} \union c.topics ELSE {} \ c.topics
    BY <1>1, FilterOne
  <2> QED BY <2>1
<1>3. /\ filter'[q] = {} /\ roster'[q] = {} /\ control'[q] = <<c>> /\ phase'[q] # "off"
  BY DEF Start, Follows, TypeOK
<1> QED BY <1>2, <1>3 DEF Follows

LEMMA DispatchEventFollows ==
  ASSUME TypeOK, NEW q \in Processors, Follows(q), DispatchEvent(q) PROVE Follows(q)'
<1> DEFINE e == Head(inbox[q])
<1>1. phase[q] # "off" /\ phase' = phase /\ filter' = filter
  BY DEF DispatchEvent, Follows
<1>2. e \in Event /\ e.pid \in Participants /\ e.joined \in BOOLEAN
  <2>1. e \in Event
    BY HeadTailProperties DEF DispatchEvent, TypeOK
  <2> QED BY <2>1 DEF Event
<1>3. /\ roster'[q] = IF e.joined THEN roster[q] \union {e.pid} ELSE roster[q] \ {e.pid}
      /\ control'[q] = control[q] \o Resubscribe(q, e)
  BY DEF DispatchEvent, TypeOK
<1> HIDE DEF e
<1>4. FilterAfter(control'[q], filter[q])
        = FilterAfter(Resubscribe(q, e), roster[q] \union {Presence})
  <2>1. control[q] \in Seq(Command) /\ Resubscribe(q, e) \in Seq(Command)
    BY <1>2, ResubscribeType DEF TypeOK
  <2>2. FilterAfter(control[q] \o Resubscribe(q, e), filter[q])
          = FilterAfter(Resubscribe(q, e), FilterAfter(control[q], filter[q]))
    BY <2>1, FilterConcat
  <2> QED BY <1>1, <1>3, <2>2 DEF Follows
<1>5. roster[q] \union {Presence} \in SUBSET Topics
  BY DEF TypeOK, Topics
<1>6. CASE e.joined = (e.pid \in roster[q])
  <2>1. Resubscribe(q, e) = <<>> /\ roster'[q] = roster[q]
    BY <1>2, <1>3, <1>6 DEF Resubscribe, TypeOK
  <2> QED BY <1>1, <1>4, <1>5, <2>1, FilterNone DEF Follows
<1>7. CASE e.joined # (e.pid \in roster[q])
  <2> DEFINE c == [topics |-> {e.pid}, subscribe |-> e.joined]
  <2>1. Resubscribe(q, e) = <<c>> /\ c \in Command
    BY <1>2, <1>7 DEF Resubscribe, Command, Topics
  <2>2. FilterAfter(<<c>>, roster[q] \union {Presence})
          = IF e.joined THEN (roster[q] \union {Presence}) \union {e.pid}
                        ELSE (roster[q] \union {Presence}) \ {e.pid}
    BY <1>5, <2>1, FilterOne
  <2>3. FilterAfter(control'[q], filter[q]) = roster'[q] \union {Presence}
    BY <1>2, <1>3, <1>4, <2>1, <2>2
  <2> QED BY <1>1, <2>3 DEF Follows
<1> QED BY <1>6, <1>7

LEMMA ProcessorFollows ==
  ASSUME TypeOK, NEW r \in Processors, Processor(r), NEW q \in Processors, Follows(q)
  PROVE  Follows(q)'
<1>1. CASE q # r
  BY <1>1, FollowsUnchanged
     DEF Processor, Start, RequestRoster, DispatchEvent, Exit, TypeOK
<1>2. CASE q = r
  <2>1. CASE RequestRoster(q)
    BY <2>1, FollowsUnchanged DEF RequestRoster, TypeOK
  <2>2. CASE Exit(q)
    BY <2>2 DEF Exit, Follows, TypeOK
  <2> QED BY <1>2, <2>1, <2>2, StartFollows, DispatchEventFollows DEF Processor
<1> QED BY <1>1, <1>2

LEMMA NextFollows ==
  ASSUME TypeOK, [Next]_vars, NEW q \in Processors, Follows(q) PROVE Follows(q)'
<1>1. CASE UNCHANGED vars
  BY <1>1, FollowsUnchanged DEF vars
<1> QED BY <1>1, HubFollows, ProcessorFollows DEF Next

\* The traffic of the people in a processor's roster, and of nobody else, is
\* sent to it once its subscriptions have arrived: whatever the order of
\* joins, leaves and replays, and through any number of hub restarts.
THEOREM AudienceFollows == Spec => []AudienceFollowsRoster
<1> DEFINE Inv == TypeOK /\ \A q \in Processors : Follows(q)
<1>1. Init => Inv
  BY InitType, FollowsInit
<1>2. Inv /\ [Next]_vars => Inv'
  BY NextType, NextFollows
<1>3. Inv => AudienceFollowsRoster
  BY DEF Follows, AudienceFollowsRoster
<1> QED BY <1>1, <1>2, <1>3, PTL DEF Spec

-----------------------------------------------------------------------------
(* The roster follows the hub, when the handshake is in time and the hub   *)
(* stays up.                                                               *)

Becomes(q) == RosterAfter(inbox[q], roster[q])

\* q hears of whatever is announced once the hub knows that it listens.
Hears(q) ==
  /\ phase[q] \in {"asked", "replayed"} => Presence \in filter[q]
  /\ \A i \in DOMAIN control[q] :
       Presence \in control[q][i].topics => control[q][i].subscribe
  /\ Presence \notin filter[q] => inbox[q] = <<>> /\ roster[q] = {}

Converges(q) ==
  /\ phase[q] = "replayed" => Becomes(q) = connected
  /\ Becomes(q) \subseteq connected
  /\ Hears(q)

LEMMA ConvergesAll == Converging <=> \A q \in Processors : Converges(q)
BY DEF Converging, RosterAgrees, Converges, Becomes, Hears

LEMMA ConvergesInit == ASSUME NEW q \in Processors, Init PROVE Converges(q)
BY RosterNone DEF Init, Converges, Becomes, Hears

\* What q will have after an announcement.
LEMMA AnnounceBecomes ==
  ASSUME TypeOK, NEW q \in Processors, Hears(q), NEW events \in Seq(Event), Announce(events),
         UNCHANGED <<control, filter, roster>>
  PROVE  /\ Presence \in filter[q] => Becomes(q)' = RosterAfter(events, Becomes(q))
         /\ Presence \notin filter[q] => Becomes(q)' = {}
         /\ (phase'[q] \in {"asked", "replayed"} => phase[q] \in {"asked", "replayed"})
              => Hears(q)'
<1>1. CASE Presence \in filter[q]
  <2>1. inbox'[q] = inbox[q] \o events /\ inbox[q] \in Seq(Event)
    BY <1>1 DEF Announce, TypeOK
  <2>2. RosterAfter(inbox[q] \o events, roster[q]) = RosterAfter(events, Becomes(q))
    BY <2>1, RosterConcat DEF Becomes
  <2> QED BY <1>1, <2>1, <2>2 DEF Becomes, Hears
<1>2. CASE Presence \notin filter[q]
  <2>1. inbox'[q] = <<>> /\ roster'[q] = {}
    BY <1>2 DEF Announce, Hears, TypeOK
  <2>2. RosterAfter(<<>>, {}) = {}
    BY RosterNone
  <2> QED BY <1>2, <2>1, <2>2 DEF Becomes, Hears
<1> QED BY <1>1, <1>2

LEMMA HubEventConverges ==
  ASSUME TypeOK, NEW p \in Participants, HubJoined(p) \/ HubLeft(p),
         NEW q \in Processors, Converges(q)
  PROVE  Converges(q)'
<1>1. PICK b \in BOOLEAN :
        /\ Announce(<<[pid |-> p, joined |-> b]>>)
        /\ connected' = IF b THEN connected \union {p} ELSE connected \ {p}
        /\ UNCHANGED <<phase, control, filter, roster>>
  BY DEF HubJoined, HubLeft, processorVars
<1> DEFINE e == [pid |-> p, joined |-> b]
<1>2. e \in Event /\ <<e>> \in Seq(Event) /\ e.pid = p /\ e.joined = b
  BY DEF Event
<1>3. Becomes(q) \in SUBSET Participants
  BY DEF Becomes, RosterAfter
<1>4. RosterAfter(<<e>>, Becomes(q))
        = IF e.joined THEN Becomes(q) \union {e.pid} ELSE Becomes(q) \ {e.pid}
  BY <1>2, <1>3, RosterOne
<1> HIDE DEF e
<1>5. /\ Presence \in filter[q] => Becomes(q)' = RosterAfter(<<e>>, Becomes(q))
      /\ Presence \notin filter[q] => Becomes(q)' = {}
      /\ Hears(q)'
  BY <1>1, <1>2, AnnounceBecomes DEF Converges, e
<1>6. CASE Presence \in filter[q]
  <2>1. Becomes(q)' = IF b THEN Becomes(q) \union {p} ELSE Becomes(q) \ {p}
    BY <1>2, <1>4, <1>5, <1>6
  <2> QED BY <1>1, <1>5, <2>1 DEF Converges
<1>7. CASE Presence \notin filter[q]
  BY <1>1, <1>5, <1>7 DEF Converges, Hears
<1> QED BY <1>6, <1>7

\* A replay makes up for whatever q did not hear.
LEMMA ReplayBecomes ==
  ASSUME NEW n, NEW pids \in Bijection(n, connected), NEW B \in SUBSET connected,
         connected \subseteq Participants, n \subseteq Nat
  PROVE  RosterAfter([i \in DOMAIN pids |-> [pid |-> pids[i], joined |-> TRUE]], B) = connected
<1> DEFINE t == [i \in DOMAIN pids |-> [pid |-> pids[i], joined |-> TRUE]]
<1>1. /\ pids \in [n -> connected] /\ \A p \in connected : \E i \in n : pids[i] = p
      /\ \A i, j \in n : pids[i] = pids[j] => i = j
  BY DEF Bijection, Injection, Surjection, IsInjective
<1>2. DOMAIN t = n /\ \A i \in n : t[i].pid = pids[i] /\ t[i].joined = TRUE
  BY <1>1
<1> HIDE DEF t
<1>3. ASSUME NEW p \in Participants, p \in RosterAfter(t, B) PROVE p \in connected
  <2>1. CASE p \in B
    BY <2>1
  <2>2. CASE p \notin B
    <3>1. PICK i \in DOMAIN t : t[i].pid = p
      BY <1>3, <2>2 DEF RosterAfter
    <3>2. pids[i] = p /\ i \in n
      BY <1>2, <3>1
    <3> QED BY <1>1, <3>2
  <2> QED BY <2>1, <2>2
<1>4. ASSUME NEW p \in connected PROVE p \in RosterAfter(t, B)
  <2> DEFINE about == {i \in DOMAIN t : t[i].pid = p}
  <2>1. PICK i \in n : pids[i] = p
    BY <1>1
  <2>2. i \in about /\ i <= i
    BY <1>1, <1>2, <2>1
  <2>3. ASSUME NEW j \in about PROVE j = i
    BY <1>1, <1>2, <2>1, <2>3
  <2> QED BY <1>2, <2>1, <2>2, <2>3 DEF RosterAfter
<1>5. RosterAfter(t, B) \subseteq Participants
  BY DEF RosterAfter
<1> QED BY <1>3, <1>4, <1>5 DEF t

LEMMA HubReplaysRosterConverges ==
  ASSUME TypeOK, NEW r \in Processors, HubReplaysRoster(r), NEW q \in Processors, Converges(q)
  PROVE  Converges(q)'
<1>1. PICK pids \in Bijection(1 .. Cardinality(connected), connected) :
        Announce([i \in DOMAIN pids |-> [pid |-> pids[i], joined |-> TRUE]])
  BY DEF HubReplaysRoster
<1> DEFINE t == [i \in DOMAIN pids |-> [pid |-> pids[i], joined |-> TRUE]]
<1>2. t \in Seq(Event)
  BY <1>1, ReplayType DEF Bijection, Injection
<1>3. connected \subseteq Participants /\ Cardinality(connected) \in Nat
  <2>1. IsFiniteSet(connected)
    BY FS_Subset DEF TypeOK
  <2> QED BY <2>1, FS_CardinalityType DEF TypeOK
<1>4. UNCHANGED <<connected, control, filter, roster>>
  BY DEF HubReplaysRoster
<1>5. phase'[q] \in {"asked", "replayed"} => phase[q] \in {"asked", "replayed"}
  BY DEF HubReplaysRoster, TypeOK
<1>6. RosterAfter(t, Becomes(q)) = connected
  BY <1>1, <1>3, ReplayBecomes DEF Converges
<1> HIDE DEF t
<1>7. /\ Presence \in filter[q] => Becomes(q)' = RosterAfter(t, Becomes(q))
      /\ Presence \notin filter[q] => Becomes(q)' = {}
      /\ Hears(q)'
  BY <1>1, <1>2, <1>4, <1>5, AnnounceBecomes DEF Converges, t
<1>8. phase'[q] = "replayed" => Presence \in filter[q]
  BY <1>5 DEF Converges, Hears
<1> QED BY <1>4, <1>6, <1>7, <1>8 DEF Converges

LEMMA HubSubscribesConverges ==
  ASSUME TypeOK, NEW r \in Processors, HubSubscribes(r), NEW q \in Processors, Converges(q)
  PROVE  Converges(q)'
<1>1. UNCHANGED <<connected, phase, inbox, roster>> /\ Becomes(q)' = Becomes(q)
  BY DEF HubSubscribes, Becomes
<1>2. CASE q # r
  BY <1>1, <1>2 DEF HubSubscribes, TypeOK, Converges, Hears
<1>3. CASE q = r
  <2>1. control[q] # <<>> /\ control[q] \in Seq(Command) /\ control'[q] = Tail(control[q])
    BY <1>3 DEF HubSubscribes, TypeOK
  <2>2. \A i \in DOMAIN Tail(control[q]) : i + 1 \in DOMAIN control[q] /\ Tail(control[q])[i] = control[q][i + 1]
    BY <2>1
  <2>3. 1 \in DOMAIN control[q] /\ Head(control[q]) = control[q][1]
    BY <2>1
  <2>4. Presence \in filter[q] => Presence \in filter'[q]
    BY <1>3, <2>3 DEF HubSubscribes, TypeOK, Converges, Hears
  <2>5. Hears(q)'
    BY <1>1, <2>1, <2>2, <2>4 DEF Converges, Hears
  <2> QED BY <1>1, <2>5 DEF Converges
<1> QED BY <1>2, <1>3

LEMMA DispatchEventConverges ==
  ASSUME TypeOK, NEW q \in Processors, DispatchEvent(q), Converges(q)
  PROVE  Converges(q)'
<1> DEFINE e == Head(inbox[q])
<1>1. /\ inbox[q] # <<>> /\ inbox[q] \in Seq(Event) /\ inbox'[q] = Tail(inbox[q])
      /\ roster[q] \in SUBSET Participants /\ e \in Event
      /\ roster'[q] = IF e.joined THEN roster[q] \union {e.pid} ELSE roster[q] \ {e.pid}
      /\ control'[q] = control[q] \o Resubscribe(q, e)
      /\ UNCHANGED <<connected, phase, filter>>
  BY HeadTailProperties DEF DispatchEvent, TypeOK
<1>2. RosterAfter(<<e>>, roster[q]) = roster'[q]
  BY <1>1, RosterOne
<1>3. Becomes(q)' = Becomes(q)
  BY <1>1, <1>2, RosterTail DEF Becomes
<1>4. Presence \in filter[q]
  BY <1>1 DEF Converges, Hears
<1>5. \A i \in DOMAIN control'[q] :
        Presence \in control'[q][i].topics => control'[q][i].subscribe
  <2>1. e.pid \in Participants
    BY <1>1 DEF Event
  <2>2. CASE Resubscribe(q, e) = <<>>
    BY <1>1, <2>2 DEF Converges, Hears, TypeOK
  <2>3. CASE Resubscribe(q, e) = <<[topics |-> {e.pid}, subscribe |-> e.joined]>>
    <3>1. control[q] \in Seq(Command)
      BY DEF TypeOK
    <3> DEFINE c == [topics |-> {e.pid}, subscribe |-> e.joined]
    <3>2. Presence \notin c.topics
      BY <2>1
    <3> HIDE DEF c
    <3>3. control'[q] = control[q] \o <<c>>
      BY <1>1, <2>3 DEF c
    <3>4. \A i \in DOMAIN (control[q] \o <<c>>) :
            \/ i \in DOMAIN control[q] /\ (control[q] \o <<c>>)[i] = control[q][i]
            \/ (control[q] \o <<c>>)[i] = c
      BY <3>1
    <3> QED BY <3>2, <3>3, <3>4 DEF Converges, Hears
  <2> QED BY <2>2, <2>3 DEF Resubscribe
<1> QED BY <1>1, <1>3, <1>4, <1>5 DEF Converges, Hears

LEMMA ProcessorConverges ==
  ASSUME TypeOK, HandshakeInTime, NEW r \in Processors, Processor(r),
         NEW q \in Processors, Converges(q)
  PROVE  Converges(q)'
<1>1. CASE q # r
  <2>1. /\ connected' = connected /\ phase'[q] = phase[q] /\ filter'[q] = filter[q]
        /\ control'[q] = control[q] /\ inbox'[q] = inbox[q] /\ roster'[q] = roster[q]
    BY <1>1 DEF Processor, Start, RequestRoster, DispatchEvent, Exit, TypeOK
  <2> QED BY <2>1 DEF Converges, Becomes, Hears
<1>2. CASE q = r /\ Start(q)
  <2>1. /\ UNCHANGED <<connected, filter, inbox, roster>> /\ phase'[q] = "settling"
        /\ control'[q] = <<[topics |-> {Presence}, subscribe |-> TRUE]>>
    BY <1>2 DEF Start, TypeOK
  <2> QED BY <2>1 DEF Converges, Becomes, Hears
<1>3. CASE q = r /\ RequestRoster(q)
  BY <1>3 DEF RequestRoster, TypeOK, Converges, Becomes, Hears
<1>4. CASE q = r /\ Exit(q)
  <2>1. /\ connected' = connected /\ phase'[q] = "off" /\ filter'[q] = {}
        /\ control'[q] = <<>> /\ inbox'[q] = <<>> /\ roster'[q] = {}
    BY <1>4 DEF Exit, TypeOK
  <2>2. RosterAfter(<<>>, {}) = {}
    BY RosterNone
  <2> QED BY <2>1, <2>2 DEF Converges, Becomes, Hears
<1> QED BY <1>1, <1>2, <1>3, <1>4, DispatchEventConverges DEF Processor

LEMMA NextConverges ==
  ASSUME TypeOK, HandshakeInTime, restarts' = 0, [Next]_vars, NEW q \in Processors, Converges(q)
  PROVE  Converges(q)'
<1>1. CASE UNCHANGED vars
  BY <1>1 DEF vars, Converges, Becomes, Hears
<1>2. ~HubRestart
  BY DEF HubRestart, TypeOK
<1>3. ASSUME NEW p \in Participants, HubPublishes(p) PROVE Converges(q)'
  BY <1>3 DEF HubPublishes, processorVars, Converges, Becomes, Hears
<1> QED BY <1>1, <1>2, <1>3, HubEventConverges, HubReplaysRosterConverges,
           HubSubscribesConverges, ProcessorConverges DEF Next, Hub

\* The number of restarts never falls.
LEMMA NoRestartBefore ==
  ASSUME TypeOK, [Next]_vars, restarts' = 0
  PROVE  restarts = 0
<1>1. CASE HubRestart
  BY <1>1 DEF HubRestart, TypeOK
<1>2. CASE ~HubRestart
  BY <1>2 DEF Next, Hub, Processor, vars, HubJoined, HubLeft, HubPublishes,
     HubReplaysRoster, HubSubscribes, Start, RequestRoster, DispatchEvent, Exit
<1> QED BY <1>1, <1>2

\* When the SUB handshake takes less than the wait before the roster request,
\* and until the hub is restarted, a processor whose request was answered
\* agrees with the hub on who is there, up to the events under way to it.
THEOREM RosterConverges ==
  ASSUME HandshakeInTime
  PROVE  Spec => []AgreesUntilRestart
<1> DEFINE Inv == TypeOK /\ (restarts = 0 => \A q \in Processors : Converges(q))
<1>1. Init => Inv
  BY InitType, ConvergesInit
<1>2. Inv /\ [Next]_vars => Inv'
  <2> SUFFICES ASSUME Inv, [Next]_vars PROVE Inv'
    OBVIOUS
  <2>1. TypeOK'
    BY NextType
  <2>2. ASSUME restarts' = 0, NEW q \in Processors PROVE Converges(q)'
    BY <2>2, NoRestartBefore, NextConverges
  <2> QED BY <2>1, <2>2
<1>3. Inv => AgreesUntilRestart
  BY ConvergesAll DEF AgreesUntilRestart
<1> QED BY <1>1, <1>2, <1>3, PTL DEF Spec
===============================================================================
