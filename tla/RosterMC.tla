------------------------------- MODULE RosterMC -------------------------------
(* Small instances of Roster for TLC.                                      *)
EXTENDS Roster, TLC

CONSTANTS alice, bob, agent, video

Symmetry == Permutations(Participants) \union Permutations(Processors)
===============================================================================
