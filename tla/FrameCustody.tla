---------------------------- MODULE FrameCustody ----------------------------
(***************************************************************************)
(* What the shared-memory frame path promises, with no queues, rings or    *)
(* participants in it: every slot ("cell") of every ring is in exactly one *)
(* custody at a time, custody moves only along the edges below, and the    *)
(* pixels of a cell change only while the producer has it.  MediaHub is    *)
(* shown to implement this specification.                                  *)
(***************************************************************************)
CONSTANTS
  Cells,     \* every slot of every ring
  Frames,    \* what a cell may contain
  NoFrame    \* a cell nobody has written, or that has been released; no frame

VARIABLES
  custodian, \* who has the cell
  pixels     \* what the cell contains

vars == <<custodian, pixels>>

Custodian == {"free", "writing", "transit", "held", "lost"}

TypeOK ==
  /\ custodian \in [Cells -> Custodian]
  /\ pixels \in [Cells -> Frames \union {NoFrame}]

Init ==
  /\ custodian = [c \in Cells |-> "free"]
  /\ pixels = [c \in Cells |-> NoFrame]

Moves(c, from, to) == custodian[c] = from /\ custodian'[c] = to
Keeps(c) == pixels'[c] = pixels[c]

\* The producer takes a free cell and fills it.
Claim(c) == Moves(c, "free", "writing") /\ pixels'[c] \in Frames

\* The producer hands the filled cell over, or dies with the signal unsent.
Publish(c) == (Moves(c, "writing", "transit") \/ Moves(c, "writing", "lost")) /\ Keeps(c)

\* The hub takes the cell it was signalled, or nobody ever will.
Accept(c) == (Moves(c, "transit", "held") \/ Moves(c, "transit", "lost")) /\ Keeps(c)

\* The hub gives the cell back to the producer.
Release(c) == Moves(c, "held", "free") /\ pixels'[c] = NoFrame

Rests(c) == custodian'[c] = custodian[c] /\ Keeps(c)

\* One step of the frame path may move several cells: a new frame of a track
\* takes one cell and gives another back.
Next ==
  /\ custodian' \in [Cells -> Custodian]
  /\ pixels' \in [Cells -> Frames \union {NoFrame}]
  /\ \A c \in Cells :
       Claim(c) \/ Publish(c) \/ Accept(c) \/ Release(c) \/ Rests(c)

Spec == Init /\ [][Next]_vars
=============================================================================
