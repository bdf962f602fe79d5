--------------------------- MODULE SharedSnapshot ---------------------------
(***************************************************************************)
(* What request_frame promises to the coroutines that call it, with no     *)
(* sockets, keys or futures in it: calls that wait at one home share one   *)
(* answer, given to all of them at once; it is a frame that was taken, and *)
(* to none of them older than the frame it knew of when it asked; an       *)
(* answer that was given stays.  FrameRequest is shown to implement this   *)
(* specification.                                                          *)
(***************************************************************************)
EXTENDS Naturals

CONSTANTS
  Callers,
  Homes,
  HomeOf     \* [Callers -> Homes]

VARIABLES
  newest,    \* frames are numbered as they are taken: this is the last
  stage,     \* where a call is
  wants,     \* the frame a call knew of when it asked, or 0
  got        \* its answer, or 0

vars == <<newest, stage, wants, got>>

Init ==
  /\ newest = 0
  /\ stage = [c \in Callers |-> "idle"]
  /\ wants = [c \in Callers |-> 0]
  /\ got = [c \in Callers |-> 0]

Waiters(h) == {c \in Callers : HomeOf[c] = h /\ stage[c] = "waiting" /\ got[c] = 0}

Take == newest' = newest + 1 /\ UNCHANGED <<stage, wants, got>>

Moves(c, from, to) == stage[c] = from /\ stage' = [stage EXCEPT ![c] = to]

\* A call asks, of a frame it knows.
Ask(c) ==
  /\ Moves(c, "idle", "waiting")
  /\ \E f \in 1 .. newest : wants' = [wants EXCEPT ![c] = f]
  /\ UNCHANGED <<newest, got>>

\* Who waits at a home gets the frame that has come there.
Answer(h) ==
  /\ \E f \in 1 .. newest :
       /\ \A c \in Waiters(h) : wants[c] <= f
       /\ got' = [c \in Callers |-> IF c \in Waiters(h) THEN f ELSE got[c]]
  /\ UNCHANGED <<newest, stage, wants>>

Return(c) == Moves(c, "waiting", "returned") /\ got[c] # 0 /\ UNCHANGED <<newest, wants, got>>
GiveUp(c) == Moves(c, "waiting", "timedout") /\ got[c] = 0 /\ UNCHANGED <<newest, wants, got>>

\* A call that is cancelled returns nothing, whatever it was given.
Cancel(c) ==
  /\ Moves(c, "waiting", "cancelled")
  /\ got' = [got EXCEPT ![c] = 0]
  /\ UNCHANGED <<newest, wants>>

Again(c) ==
  /\ \E from \in {"returned", "timedout", "cancelled"} : Moves(c, from, "idle")
  /\ wants' = [wants EXCEPT ![c] = 0]
  /\ got' = [got EXCEPT ![c] = 0]
  /\ UNCHANGED newest

Next ==
  \/ Take
  \/ \E h \in Homes : Answer(h)
  \/ \E c \in Callers : Ask(c) \/ Return(c) \/ GiveUp(c) \/ Cancel(c) \/ Again(c)

Spec == Init /\ [][Next]_vars
=============================================================================
