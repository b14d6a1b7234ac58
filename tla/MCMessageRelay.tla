----------------------------- MODULE MCMessageRelay -----------------------------
EXTENDS MessageRelay, TLC

Symmetry == Permutations(Peers)
=================================================================================
