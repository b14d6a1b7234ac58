------------------------------ MODULE ExcessArray ------------------------------
(***************************************************************************)
(* The excess pruning of one heartbeat, on the array the code works on     *)
(* (src/src/index.ts, "do we have to many peers?"): sort the mesh by       *)
(* score, shuffle all but the first Dscore, rotate outbound peers to the   *)
(* front, prune from index D on.  Peers is the whole, oversubscribed mesh. *)
(* ExcessPruning states the same choice by sets, which the array code is   *)
(* shown to make.  Arrays are indexed from 1 here, from 0 in the code.     *)
(***************************************************************************)
EXTENDS ExcessPruning, Integers, Sequences, SequencesExt, FiniteSets

CONSTANTS Peers, D, Dscore, Dout, Scores

ASSUME MeshAssumption ==
  /\ IsFiniteSet(Peers) /\ Scores \subseteq Int
  /\ D \in Nat \ {0} /\ Dscore \in Nat /\ Dout \in Nat
  /\ Dscore <= D /\ 2 * Dout <= D /\ D < Cardinality(Peers)

VARIABLES
  outbound,   \* peers whose connection we dialed
  score,
  peersArray, \* the array, empty before the sort
  order,      \* the array as the shuffle left it, for the properties only
  stage,      \* full, inside, outside (the two loops), rotated or pruned
  have,       \* outbound peers among the first D, as counted before the loops
  at,         \* index the loop visits next
  need        \* rotations the loop may still make: ihave, then ineed

vars == <<outbound, score, peersArray, order, stage, have, at, need>>

Init ==
  /\ outbound \in SUBSET Peers
  /\ score \in [Peers -> Scores]
  /\ peersArray = <<>> /\ order = <<>>
  /\ stage = "full"
  /\ have = 0 /\ at = 0 /\ need = 0

(* Mutant: the head is shuffled with the rest. *)
ShuffledAll(sc) == SetToSeqs(DOMAIN sc)

(* The arrays a sort by descending score may give, once everything from    *)
(* index Dscore on is shuffled: their head is a sorted selection of the    *)
(* best, the rest is in any order.                                         *)
Shuffled(sc) ==
  {a \in SetToSeqs(Peers) :
     \A i \in 1..Dscore, j \in 1..Cardinality(Peers) : i < j => sc[a[i]] >= sc[a[j]]}

(* Mutant: the peer at i changes places with the first.                    *)
Swap(a, i) == [a EXCEPT ![1] = a[i], ![i] = a[1]]

(* rotate(i): element i goes to the front, those before it move right.     *)
Rotate(a, i) == [j \in DOMAIN a |-> IF j > i THEN a[j] ELSE IF j = 1 THEN a[i] ELSE a[j - 1]]

OutboundKept(a, out) == Cardinality({i \in 1..D : a[i] \in out})

(* The body of both loops: rotate the peer at index i if it is outbound.   *)
Visited(a, n, i, out) ==
  IF a[i] \in out THEN [arr |-> Rotate(a, i), need |-> n - 1] ELSE [arr |-> a, need |-> n]

(* Sort, shuffle and count. *)
Shuffle ==
  /\ stage = "full"
  /\ peersArray' \in Shuffled(score)
  /\ order' = peersArray'
  /\ have' = OutboundKept(peersArray', outbound)
  /\ stage' = IF have' < Dout THEN "inside" ELSE "rotated"
  /\ at' = 2 /\ need' = have'
  /\ UNCHANGED <<outbound, score>>

(* Mutant: the loops stop one index early. *)
GoesOnShort(last) == at < last /\ need > 0

(* The condition of both loops. *)
GoesOn(last) == at <= last /\ need > 0

Visit(last) ==
  /\ GoesOn(last)
  /\ LET v == Visited(peersArray, need, at, outbound)
     IN  peersArray' = v.arr /\ need' = v.need
  /\ at' = at + 1
  /\ UNCHANGED <<outbound, score, order, stage, have>>

(* Outbound peers of the selection, the first D, are moved to the front.   *)
BubbleInside == stage = "inside" /\ Visit(D)

InsideEnds ==
  /\ stage = "inside"
  /\ ~GoesOn(D)
  /\ stage' = "outside"
  /\ at' = D + 1 /\ need' = D - have
  /\ UNCHANGED <<outbound, score, peersArray, order, have>>

(* Outbound peers from outside the selection are moved in front of them.   *)
BubbleOutside == stage = "outside" /\ Visit(Len(peersArray))

OutsideEnds ==
  /\ stage = "outside"
  /\ ~GoesOn(Len(peersArray))
  /\ stage' = "rotated"
  /\ UNCHANGED <<outbound, score, peersArray, order, have, at, need>>

(* What is left when everything from index D on is pruned. *)
Prune ==
  /\ stage = "rotated"
  /\ peersArray' = SubSeq(peersArray, 1, D)
  /\ stage' = "pruned"
  /\ UNCHANGED <<outbound, score, order, have, at, need>>

Next == Shuffle \/ BubbleInside \/ InsideEnds \/ BubbleOutside \/ OutsideEnds \/ Prune

Spec == Init /\ [][Next]_vars

(* Whom the loops leave in the first D of the shuffled array a.  The       *)
(* outbound peers beyond D come in, nearest first, as far as there is room *)
(* (ineed); as many peers of the selection go, those that are not outbound *)
(* and stand last.                                                         *)
Survivors(a) ==
  LET kept      == OutboundKept(a, outbound)
      before(j) == Cardinality({k \in (D + 1)..j : a[k] \in outbound})
      come      == {j \in (D + 1)..Len(a) : a[j] \in outbound /\ before(j) <= D - kept}
      after(j)  == Cardinality({k \in j..D : a[k] \notin outbound})
      stay      == {j \in 1..D : a[j] \in outbound \/ after(j) > Cardinality(come)}
  IN  {a[j] : j \in IF kept < Dout THEN stay \cup come ELSE 1..D}

(* The rotations, each of which moves many peers one place to the right,   *)
(* leave exactly those whom the shuffled array chose: no outbound peer of  *)
(* the selection falls off its end, and of the others only the last do.    *)
(* (index.ts, rotate and the two loops around it)                          *)
OrderDecides == stage = "pruned" => ToSet(peersArray) = Survivors(order)

(* Over all ways to sort and to shuffle, the choices are what ExcessKept   *)
(* allows, no more and no less: the pruning of MeshRouter, which is stated *)
(* by sets, is as wide as the code's. (index.ts, "do we have to many       *)
(* peers?")                                                                *)
SurvivorsExact ==
  stage = "full" =>
    ExcessKept(Peers, outbound, score, D, Dscore, Dout) = {Survivors(a) : a \in Shuffled(score)}

(* Dout outbound peers survive, or all of them: rotating the one half of   *)
(* them never pushes the other half out (constants.ts, GossipsubDout).     *)
OutboundQuota ==
  stage = "pruned" =>
    Cardinality(ToSet(peersArray) \cap outbound) >= Smaller(Dout, Cardinality(outbound))
================================================================================
