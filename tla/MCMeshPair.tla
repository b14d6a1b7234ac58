------------------------------- MODULE MCMeshPair -------------------------------
EXTENDS MeshPair

CONSTANTS a, b

OtherOf(n) == IF n = a THEN b ELSE a
===============================================================================
