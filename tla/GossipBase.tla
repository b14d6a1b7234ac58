------------------------------- MODULE GossipBase -------------------------------
(* What the three parts of the gossip exchange share: who talks about what. *)
EXTENDS Integers, FiniteSets

CONSTANTS
  Peers,
  Msgs        \* message ids of topics we have a mesh for

ASSUME PartiesAssumption == IsFiniteSet(Peers) /\ IsFiniteSet(Msgs)
===============================================================================
