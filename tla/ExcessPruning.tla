---------------------------- MODULE ExcessPruning ----------------------------
(***************************************************************************)
(* Which mesh peers survive when a heartbeat finds more than Dhi of them.  *)
(* index.ts sorts the peers by score, keeps the first Dscore, shuffles the *)
(* rest, and rotates outbound peers to the front of the array before it    *)
(* prunes everything from index D on.  ExcessKept is the same choice as a  *)
(* set of possible survivor sets; module ExcessArray runs the array code   *)
(* and is checked against it.                                              *)
(***************************************************************************)
EXTENDS Integers, FiniteSets

Smaller(a, b) == IF a < b THEN a ELSE b

(* T is a possible result of sorting m by descending score and taking the  *)
(* first n: nobody left out scores more than somebody taken.               *)
TopScored(T, m, n, sc) ==
  /\ T \subseteq m
  /\ Cardinality(T) = n
  /\ \A x \in T, y \in m \ T : sc[x] >= sc[y]

(* The survivors K of m.  S is the selection peersArray[0..D-1] after the  *)
(* shuffle, T its high-scoring head, out the outbound peers.  When S holds *)
(* fewer than Dout outbound peers they are rotated to the front, and then  *)
(* outbound peers from outside S are rotated in front of them, up to       *)
(* D - |S \cap out| of them (the code's ineed); what falls off the end of  *)
(* the selection are the non-outbound peers of S from its tail.            *)
ExcessKept(m, out, sc, D, Dscore, Dout) ==
  {K \in SUBSET m :
     /\ Cardinality(K) = D
     /\ \E T \in {U \in SUBSET m : TopScored(U, m, Dscore, sc)}, S \in SUBSET m :
          /\ T \subseteq S
          /\ Cardinality(S) = D
          /\ \/ /\ Cardinality(S \cap out) >= Dout
                /\ K = S
             \/ /\ Cardinality(S \cap out) < Dout
                /\ S \cap out \subseteq K
                /\ K \ S \subseteq out
                /\ Cardinality(K \ S) = Smaller(D - Cardinality(S \cap out),
                                                Cardinality((m \ S) \cap out))
                /\ LET rest == (K \cap S) \ out
                       head == T \ out
                   IN  /\ rest \subseteq head \/ head \subseteq rest
                       /\ \A x \in rest \cap head, y \in head \ rest : sc[x] >= sc[y]}
=============================================================================
