----------------------------- MODULE MCScoreKeeping -----------------------------
EXTENDS ScoreKeeping, TLC

Symmetry == Permutations(Peers)
=================================================================================
