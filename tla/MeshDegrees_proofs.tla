-------------------------- MODULE MeshDegrees_proofs --------------------------
(***************************************************************************)
(* Proofs about the size of a mesh and its share of outbound peers: what   *)
(* the stages of the heartbeat make of them one after the other, and how   *)
(* far GRAFTs, joins and heartbeats together can let inbound peers grow.   *)
(***************************************************************************)
EXTENDS MeshRouter_proofs, FiniteSetTheorems

(* A random choice of up to n peers of S (shuffle and slice): a subset, no *)
(* larger than n, and either n peers or all of S.                          *)
LEMMA SomeOfSize ==
  ASSUME NEW S, IsFiniteSet(S), NEW n \in Int, NEW a \in SomeOf(S, n)
  PROVE  /\ a \subseteq S
         /\ IsFiniteSet(a)
         /\ Cardinality(a) \in Nat
         /\ Cardinality(a) <= Larger(n, 0)
         /\ Cardinality(a) >= n \/ a = S
<1>1. a \in SUBSET S /\ Cardinality(a) = Smaller(Larger(n, 0), Cardinality(S))
  BY DEF SomeOf
<1>2. IsFiniteSet(a) /\ (Cardinality(S) = Cardinality(a) => S = a)
  BY <1>1, FS_Subset
<1>3. Cardinality(a) \in Nat /\ Cardinality(S) \in Nat
  BY <1>2, FS_CardinalityType
<1>4. Cardinality(a) <= Larger(n, 0)
  BY <1>1, <1>3 DEF Smaller, Larger
<1>5. Cardinality(a) >= n \/ Cardinality(a) = Cardinality(S)
  BY <1>1, <1>3 DEF Smaller, Larger
<1> QED
  BY <1>1, <1>2, <1>3, <1>4, <1>5

(* Two disjoint finite sets. *)
LEMMA DisjointUnion ==
  ASSUME NEW A, NEW B, IsFiniteSet(A), IsFiniteSet(B), A \cap B = {}
  PROVE  /\ IsFiniteSet(A \cup B)
         /\ Cardinality(A \cup B) = Cardinality(A) + Cardinality(B)
         /\ Cardinality(A) \in Nat /\ Cardinality(B) \in Nat
<1>1. Cardinality(A \cap B) = 0
  BY FS_EmptySet
<1>2. Cardinality(A) \in Nat /\ Cardinality(B) \in Nat
  BY FS_CardinalityType
<1>3. Cardinality(A \cup B) = Cardinality(A) + Cardinality(B) - Cardinality(A \cap B)
      /\ IsFiniteSet(A \cup B)
  BY FS_Union
<1> QED
  BY <1>1, <1>2, <1>3

(* A subset of a finite set is no larger. *)
LEMMA SmallerSubset ==
  ASSUME NEW B, IsFiniteSet(B), NEW A, A \subseteq B
  PROVE  /\ IsFiniteSet(A) /\ Cardinality(A) <= Cardinality(B)
         /\ Cardinality(A) \in Nat /\ Cardinality(B) \in Nat
<1>1. A \in SUBSET B
  OBVIOUS
<1>2. IsFiniteSet(A) /\ Cardinality(A) <= Cardinality(B)
  BY <1>1, FS_Subset
<1> QED
  BY <1>2, FS_CardinalityType

(* The union is no larger than the two sizes together. *)
LEMMA UnionSize ==
  ASSUME NEW A, NEW B, IsFiniteSet(A), IsFiniteSet(B)
  PROVE  /\ IsFiniteSet(A \cup B)
         /\ Cardinality(A \cup B) <= Cardinality(A) + Cardinality(B)
         /\ Cardinality(A) \in Nat /\ Cardinality(B) \in Nat /\ Cardinality(A \cup B) \in Nat
<1>1. Cardinality(A) \in Nat /\ Cardinality(B) \in Nat
  BY FS_CardinalityType
<1>2. /\ IsFiniteSet(A \cup B)
      /\ Cardinality(A \cup B) = Cardinality(A) + Cardinality(B) - Cardinality(A \cap B)
  BY FS_Union
<1>3. IsFiniteSet(A \cap B)
  BY FS_Intersection
<1>4. Cardinality(A \cap B) \in Nat /\ Cardinality(A \cup B) \in Nat
  BY <1>2, <1>3, FS_CardinalityType
<1> QED
  BY <1>1, <1>2, <1>4

-----------------------------------------------------------------------------

(* The pruning of an excess leaves D of the peers, and among them Dout     *)
(* outbound ones or all the outbound ones there were: the rotations that   *)
(* bring outbound peers to the front neither lose one that was selected    *)
(* nor stop short.  (index.ts, the "do we have too many peers" branch)     *)
THEOREM ExcessKeepsOutbound ==
  ASSUME NEW m, IsFiniteSet(m), NEW out, NEW sc,
         NEW K \in ExcessKept(m, out, sc, D, Dscore, Dout)
  PROVE  /\ K \subseteq m
         /\ Cardinality(K) = D
         /\ Cardinality(K \cap out) >= Dout \/ m \cap out \subseteq K
<1>1. K \in SUBSET m /\ Cardinality(K) = D
  BY DEF ExcessKept
<1>2. PICK S \in SUBSET m :
        \/ Cardinality(S \cap out) >= Dout /\ K = S
        \/ /\ S \cap out \subseteq K
           /\ K \ S \subseteq out
           /\ Cardinality(K \ S) = Smaller(D - Cardinality(S \cap out), Cardinality((m \ S) \cap out))
  BY DEF ExcessKept
<1>3. CASE Cardinality(S \cap out) >= Dout /\ K = S
  BY <1>1, <1>3
<1>4. CASE /\ S \cap out \subseteq K
           /\ K \ S \subseteq out
           /\ Cardinality(K \ S) = Smaller(D - Cardinality(S \cap out), Cardinality((m \ S) \cap out))
  <2> DEFINE missed == (m \ S) \cap out
             chosen == S \cap out
  <2>1. IsFiniteSet(missed) /\ IsFiniteSet(chosen) /\ IsFiniteSet(K)
    BY <1>1, SmallerSubset
  <2>2. K \ S \in SUBSET missed
    BY <1>1, <1>4
  <2>3. CASE Cardinality(K \ S) = Cardinality(missed)
    <3>1. missed = K \ S
      BY <2>1, <2>2, <2>3, FS_Subset
    <3> QED
      BY <1>1, <1>4, <3>1
  <2>4. CASE Cardinality(K \ S) # Cardinality(missed)
    <3>1. Cardinality(K \ S) = D - Cardinality(chosen)
      BY <1>4, <2>4 DEF Smaller
    <3>2. IsFiniteSet(K \ S) /\ chosen \cap (K \ S) = {}
      BY <2>1, <2>2, SmallerSubset
    <3>3. /\ Cardinality(chosen \cup (K \ S)) = Cardinality(chosen) + Cardinality(K \ S)
          /\ Cardinality(chosen) \in Nat
      BY <2>1, <3>2, DisjointUnion
    <3>4. chosen \cup (K \ S) \subseteq K \cap out /\ IsFiniteSet(K \cap out)
      BY <1>4, <2>1, SmallerSubset
    <3>5. /\ Cardinality(chosen \cup (K \ S)) <= Cardinality(K \cap out)
          /\ Cardinality(K \cap out) \in Nat
      BY <3>4, SmallerSubset
    <3> HIDE DEF missed, chosen
    <3>6. Cardinality(chosen \cup (K \ S)) = D
      BY <3>1, <3>3, DegreeAssumption
    <3> QED
      BY <1>1, <3>5, <3>6, DegreeAssumption
  <2> QED
    BY <1>1, <2>3, <2>4
<1> QED
  BY <1>2, <1>3, <1>4

-----------------------------------------------------------------------------

(* What the refill leaves: a mesh that needed no peers, or one of at most  *)
(* D, with Dlo of them or with every candidate in it.                      *)
LEMMA RefilledDegree ==
  ASSUME NEW kept, IsFiniteSet(kept), NEW more, IsFiniteSet(more), kept \cap more = {},
         NEW m \in Refilled(kept, more)
  PROVE  /\ IsFiniteSet(m) /\ Cardinality(m) \in Nat
         /\ kept \subseteq m
         /\ m = kept \/ Cardinality(m) <= D
         /\ Cardinality(m) >= Dlo \/ more \subseteq m
<1>0. Cardinality(kept) \in Nat
  BY FS_CardinalityType
<1>1. CASE Cardinality(kept) < Dlo
  <2>1. PICK a \in SomeOf(more, D - Cardinality(kept)) : m = kept \cup a
    BY <1>1 DEF Refilled
  <2>2. D - Cardinality(kept) \in Int /\ Larger(D - Cardinality(kept), 0) = D - Cardinality(kept)
    BY <1>0, <1>1, DegreeAssumption DEF Larger
  <2>3. /\ a \subseteq more /\ IsFiniteSet(a) /\ Cardinality(a) \in Nat
        /\ Cardinality(a) <= D - Cardinality(kept)
        /\ Cardinality(a) >= D - Cardinality(kept) \/ a = more
    BY <2>1, <2>2, SomeOfSize
  <2>4. kept \cap a = {}
    BY <2>3
  <2>5. IsFiniteSet(m) /\ Cardinality(m) = Cardinality(kept) + Cardinality(a)
    BY <2>1, <2>3, <2>4, DisjointUnion
  <2>6. Cardinality(m) <= D /\ (Cardinality(m) >= Dlo \/ a = more) /\ Cardinality(m) \in Nat
    BY <1>0, <2>3, <2>5, DegreeAssumption
  <2> QED
    BY <2>1, <2>5, <2>6
<1>2. CASE ~(Cardinality(kept) < Dlo)
  BY <1>0, <1>2, DegreeAssumption DEF Refilled
<1> QED
  BY <1>1, <1>2

(* What the trimming leaves: at most Dhi peers, no fewer than Dlo when     *)
(* anybody was pruned, and Dout outbound peers or all there were.          *)
LEMMA TrimmedDegree ==
  ASSUME NEW m, IsFiniteSet(m), NEW K \in Trimmed(m)
  PROVE  /\ K \subseteq m /\ IsFiniteSet(K) /\ Cardinality(K) \in Nat
         /\ Cardinality(K) <= Dhi
         /\ K = m \/ (Cardinality(K) = D /\ Cardinality(m) > Dhi)
         /\ Cardinality(K \cap outbound) >= Dout \/ m \cap outbound \subseteq K
<1>0. Cardinality(m) \in Nat
  BY FS_CardinalityType
<1>1. CASE Cardinality(m) > Dhi
  <2>1. K \in ExcessKept(m, outbound, score, D, Dscore, Dout)
    BY <1>1 DEF Trimmed
  <2>2. /\ K \subseteq m /\ Cardinality(K) = D
        /\ Cardinality(K \cap outbound) >= Dout \/ m \cap outbound \subseteq K
    BY <2>1, ExcessKeepsOutbound
  <2>3. IsFiniteSet(K)
    BY <2>2, SmallerSubset
  <2> QED
    BY <1>1, <2>2, <2>3, DegreeAssumption
<1>2. CASE ~(Cardinality(m) > Dhi)
  BY <1>0, <1>2, DegreeAssumption DEF Trimmed
<1> QED
  BY <1>1, <1>2

(* What filling the outbound quota leaves: outbound peers only are added,  *)
(* and unless the mesh is below Dlo there are Dout of them in the end or   *)
(* all the candidates are in.                                              *)
LEMMA WithOutboundDegree ==
  ASSUME NEW m, IsFiniteSet(m), NEW more, IsFiniteSet(more), m \cap more = {},
         NEW k \in WithOutbound(m, more)
  PROVE  /\ m \subseteq k /\ IsFiniteSet(k)
         /\ k \ outbound = m \ outbound
         /\ Cardinality(m) >= Dlo =>
              Cardinality(k \cap outbound) >= Dout \/ more \cap outbound \subseteq k
<1>1. CASE Cardinality(m) >= Dlo
  <2> DEFINE own == m \cap outbound
             near == more \cap outbound
  <2>1. PICK a \in SomeOf(near, Dout - Cardinality(own)) : k = m \cup a
    BY <1>1 DEF WithOutbound
  <2>2. IsFiniteSet(own) /\ IsFiniteSet(near) /\ Cardinality(own) \in Nat
    BY SmallerSubset
  <2>3. Dout - Cardinality(own) \in Int
    BY <2>2, DegreeAssumption
  <2>4. /\ a \subseteq near /\ IsFiniteSet(a) /\ Cardinality(a) \in Nat
        /\ Cardinality(a) >= Dout - Cardinality(own) \/ a = near
    BY <2>1, <2>2, <2>3, SomeOfSize
  <2>5. own \cap a = {} /\ k \cap outbound = own \cup a /\ k \ outbound = m \ outbound
    BY <2>1, <2>4
  <2>6. Cardinality(k \cap outbound) = Cardinality(own) + Cardinality(a)
    BY <2>2, <2>4, <2>5, DisjointUnion
  <2>7. Cardinality(k \cap outbound) >= Dout \/ a = near
    <3> HIDE DEF own, near
    <3> QED
      BY <2>2, <2>4, <2>6, DegreeAssumption
  <2>8. IsFiniteSet(k)
    BY <2>1, <2>4, UnionSize
  <2> QED
    BY <2>1, <2>5, <2>7, <2>8
<1>2. CASE ~(Cardinality(m) >= Dlo)
  BY <1>2 DEF WithOutbound
<1> QED
  BY <1>1, <1>2

(* What opportunistic grafting leaves: at most OppGraftPeers more.         *)
LEMMA WithBetterDegree ==
  ASSUME NEW m, IsFiniteSet(m), NEW more, IsFiniteSet(more), NEW tick,
         NEW k \in WithBetter(m, more, tick)
  PROVE  /\ m \subseteq k /\ IsFiniteSet(k)
         /\ IsFiniteSet(k \ m) /\ Cardinality(k \ m) <= OppGraftPeers
<1>1. CASE k = m
  <2>1. k \ m = {}
    BY <1>1
  <2> QED
    BY <1>1, <2>1, FS_EmptySet, DegreeAssumption
<1>2. CASE k # m
  <2> DEFINE better == {p \in more : score[p] > MedianScore(m)}
  <2>1. PICK a \in SomeOf(better, OppGraftPeers) : k = m \cup a
    BY <1>2 DEF WithBetter
  <2>2. IsFiniteSet(better)
    BY SmallerSubset
  <2>3. OppGraftPeers \in Int /\ Larger(OppGraftPeers, 0) = OppGraftPeers
    BY DegreeAssumption DEF Larger
  <2>4. IsFiniteSet(a) /\ Cardinality(a) \in Nat /\ Cardinality(a) <= OppGraftPeers
    BY <2>1, <2>2, <2>3, SomeOfSize
  <2>5. k \ m \subseteq a
    BY <2>1
  <2>6. IsFiniteSet(k \ m) /\ Cardinality(k \ m) <= Cardinality(a) /\ Cardinality(k \ m) \in Nat
    BY <2>4, <2>5, SmallerSubset
  <2>7. IsFiniteSet(k)
    BY <2>1, <2>4, UnionSize
  <2> QED
    BY <2>1, <2>3, <2>4, <2>6, <2>7
<1> QED
  BY <1>1, <1>2

(* The stages one after the other: none undoes what another achieved, and  *)
(* only the opportunistic one adds inbound peers to a mesh of Dhi.         *)
LEMMA MaintainedDegree ==
  ASSUME TypeOK, NEW t \in Topics, NEW cleared, NEW tick, NEW m \in Maintained(t, cleared, tick)
  PROVE  LET more == Candidates(t, cleared)
         IN  /\ Cardinality(m) >= Dlo \/ more \subseteq m
             /\ Cardinality(m \cap outbound) >= Dout \/ more \cap outbound \subseteq m
             /\ Cardinality(m \ outbound) <= Dhi + OppGraftPeers
<1> DEFINE more == Candidates(t, cleared)
           kept == {p \in mesh[t] : score[p] >= 0}
<1>1. PICK m1 \in Refilled(kept, more) :
        m \in UNION {UNION {WithBetter(m3, more \ (m1 \cup m3), tick)
                              : m3 \in WithOutbound(m2, more \ m1)} : m2 \in Trimmed(m1)}
  BY DEF Maintained
<1>2. PICK m2 \in Trimmed(m1) :
        m \in UNION {WithBetter(m3, more \ (m1 \cup m3), tick)
                       : m3 \in WithOutbound(m2, more \ m1)}
  BY <1>1
<1>3. PICK m3 \in WithOutbound(m2, more \ m1) : m \in WithBetter(m3, more \ (m1 \cup m3), tick)
  BY <1>2
<1>4. more \subseteq Peers /\ kept \subseteq Peers /\ kept \cap more = {}
  BY DEF TypeOK, Candidates, Reachable
<1>5. IsFiniteSet(more) /\ IsFiniteSet(kept)
  BY <1>4, PeerAssumption, SmallerSubset
<1>6. /\ IsFiniteSet(m1) /\ Cardinality(m1) \in Nat
      /\ kept \subseteq m1
      /\ m1 = kept \/ Cardinality(m1) <= D
      /\ Cardinality(m1) >= Dlo \/ more \subseteq m1
  BY <1>4, <1>5, RefilledDegree
<1>7. /\ m2 \subseteq m1 /\ IsFiniteSet(m2) /\ Cardinality(m2) \in Nat
      /\ Cardinality(m2) <= Dhi
      /\ m2 = m1 \/ (Cardinality(m2) = D /\ Cardinality(m1) > Dhi)
  BY <1>2, <1>6, TrimmedDegree
<1>8. IsFiniteSet(more \ m1) /\ m2 \cap (more \ m1) = {}
      /\ IsFiniteSet(more \ (m1 \cup m3))
  BY <1>5, <1>7, SmallerSubset
<1> HIDE DEF more, kept
<1>9. /\ m2 \subseteq m3 /\ IsFiniteSet(m3)
      /\ m3 \ outbound = m2 \ outbound
      /\ Cardinality(m2) >= Dlo =>
           Cardinality(m3 \cap outbound) >= Dout \/ (more \ m1) \cap outbound \subseteq m3
  BY <1>3, <1>7, <1>8, WithOutboundDegree
<1>10. /\ m3 \subseteq m /\ IsFiniteSet(m)
       /\ IsFiniteSet(m \ m3) /\ Cardinality(m \ m3) <= OppGraftPeers
  BY <1>3, <1>8, <1>9, WithBetterDegree
<1>11. m2 # m1 => Cardinality(m2) >= Dlo /\ m1 \cap more = {}
  BY <1>4, <1>6, <1>7, DegreeAssumption
<1>12. Cardinality(m) >= Dlo \/ more \subseteq m
  <2>1. Cardinality(m2) >= Dlo \/ more \subseteq m2
    BY <1>6, <1>11
  <2>2. Cardinality(m2) <= Cardinality(m) /\ Cardinality(m) \in Nat
    BY <1>9, <1>10, SmallerSubset
  <2> QED
    BY <1>7, <1>9, <1>10, <2>1, <2>2, DegreeAssumption
<1>13. Cardinality(m \cap outbound) >= Dout \/ more \cap outbound \subseteq m
  <2>1. CASE more \subseteq m2
    BY <1>9, <1>10, <2>1
  <2>2. CASE Cardinality(m2) >= Dlo /\ Cardinality(m3 \cap outbound) >= Dout
    <3>1. IsFiniteSet(m \cap outbound) /\ m3 \cap outbound \subseteq m \cap outbound
      BY <1>10, SmallerSubset
    <3>2. /\ Cardinality(m3 \cap outbound) <= Cardinality(m \cap outbound)
          /\ Cardinality(m3 \cap outbound) \in Nat /\ Cardinality(m \cap outbound) \in Nat
      BY <3>1, SmallerSubset
    <3> QED
      BY <2>2, <3>2, DegreeAssumption
  <2>3. CASE (more \ m1) \cap outbound \subseteq m3
    BY <1>9, <1>10, <1>11, <2>3
  <2>4. Cardinality(m2) >= Dlo \/ more \subseteq m2
    BY <1>6, <1>11
  <2> QED
    BY <1>9, <2>1, <2>2, <2>3, <2>4
<1>14. Cardinality(m \ outbound) <= Dhi + OppGraftPeers
  <2>1. m \ outbound \subseteq m2 \cup (m \ m3)
    BY <1>9
  <2>2. /\ IsFiniteSet(m2 \cup (m \ m3))
        /\ Cardinality(m2 \cup (m \ m3)) <= Cardinality(m2) + Cardinality(m \ m3)
        /\ Cardinality(m2 \cup (m \ m3)) \in Nat /\ Cardinality(m \ m3) \in Nat
    BY <1>7, <1>10, UnionSize
  <2>3. /\ Cardinality(m \ outbound) <= Cardinality(m2 \cup (m \ m3))
        /\ Cardinality(m \ outbound) \in Nat
    BY <2>1, <2>2, SmallerSubset
  <2> QED
    BY <1>7, <1>10, <2>2, <2>3, DegreeAssumption
<1> QED
  BY <1>12, <1>13, <1>14 DEF more

(* The only steps that complete a heartbeat are the ones that maintain.    *)
LEMMA CompletesMaintains ==
  ASSUME TypeOK, [Next]_vars, Completes
  PROVE  \E cleared, tick : Maintain(cleared, tick)
<1>1. ASSUME UNCHANGED hbVars PROVE FALSE
  BY <1>1 DEF Completes, hbVars
<1>2. CASE ConnectionStep
  BY <1>1, <1>2 DEF ConnectionStep, Connect, OutboundStreamOpens, OutboundStreamFails, Disconnect, LateRpcEnds
<1>3. CASE RpcStep
  BY <1>1, <1>3 DEF RpcStep, HandleSubscription, HandleGraftDirect, HandleGraftRefused,
                    HandleGraftAccepted, HandlePrune, HandlePruneGoesOn, HandlePruneFails
<1>4. CASE AppStep
  BY <1>1, <1>4 DEF AppStep, Join, Leave, Publish
<1>5. CASE HeartbeatStep
  <2>1. CASE Heartbeat
    BY <2>1 DEF Heartbeat
  <2>2. CASE DirectDialed
    BY <2>2 DEF DirectDialed
  <2>3. CASE HeartbeatDials
    BY <2>3 DEF HeartbeatDials, Completes
  <2>4. CASE DirectDialFails
    BY <2>4 DEF DirectDialFails, Completes
  <2>5. CASE SendPruneFails \/ \E p \in Peers : SendPrune(p)
    BY <2>5 DEF SendPruneFails, SendPrune, Completes
  <2> QED
    BY <1>5, <2>1, <2>2, <2>3, <2>4, <2>5 DEF HeartbeatStep
<1>6. CASE Tick \/ (\E p \in Peers, s \in Scores : ScoreChanges(p, s)) \/ UNCHANGED vars
  BY <1>1, <1>6 DEF Tick, ScoreChanges, vars
<1> QED
  BY <1>2, <1>3, <1>4, <1>5, <1>6 DEF Next

(* A heartbeat that completes leaves every joined topic with Dlo mesh      *)
(* peers and Dout outbound ones, or with nobody left to graft: refilling,  *)
(* trimming, the outbound quota and opportunistic grafting do not undo     *)
(* each other.  (index.ts, the body of this.mesh.forEach)                  *)
THEOREM HeartbeatRestores == Spec => HeartbeatRestoresDegree
<1> DEFINE A == Completes => \A t \in joined : LeavesNobody(t)
<1>1. TypeOK /\ [Next]_vars => A
  <2> SUFFICES ASSUME TypeOK, [Next]_vars, Completes, NEW t \in joined
               PROVE  LeavesNobody(t)
    OBVIOUS
  <2>1. PICK cleared, tick : Maintain(cleared, tick)
    BY CompletesMaintains
  <2>2. t \in Topics
    BY DEF TypeOK
  <2>3. mesh'[t] \in Maintained(t, cleared, tick) /\ backoff'[t] = cleared[t] \cup (mesh[t] \ mesh'[t])
    BY <2>1, <2>2 DEF Maintain
  <2> DEFINE more == Candidates(t, cleared)
             rest == {p \in Reachable(t) \ (mesh'[t] \cup Direct) : p \notin backoff'[t] /\ score[p] >= 0}
  <2>4. /\ Cardinality(mesh'[t]) >= Dlo \/ more \subseteq mesh'[t]
        /\ Cardinality(mesh'[t] \cap outbound) >= Dout \/ more \cap outbound \subseteq mesh'[t]
    BY <2>2, <2>3, MaintainedDegree
  <2>5. rest \subseteq more \ mesh'[t]
    BY <2>3 DEF Candidates
  <2>6. /\ Cardinality(mesh'[t]) >= Dlo \/ rest = {}
        /\ Cardinality(mesh'[t] \cap outbound) >= Dout \/ rest \cap outbound = {}
    BY <2>4, <2>5
  <2> QED
    BY <2>6 DEF LeavesNobody
<1>2. TypeOK /\ [Next]_vars => [A]_vars
  BY <1>1
<1> QED
  BY <1>2, TypeCorrect, PTL DEF Spec, HeartbeatRestoresDegree

(* A peer of negative score enters no mesh, by GRAFT, join, fanout or      *)
(* heartbeat, and one whose score has become negative does not survive a   *)
(* heartbeat that completes: what makes NegativeScoreLeaves true, without  *)
(* the fairness.  (index.ts, the score checks of handleGraft, join and the *)
(* heartbeat)                                                              *)
BadPeersOut ==
  [][\A p \in Peers, t \in Topics :
       score[p] < 0 /\ p \in mesh'[t] => p \in mesh[t] /\ ~Completes]_vars

THEOREM BadPeersGoAndStayOut == Spec => BadPeersOut
<1> DEFINE A == \A p \in Peers, t \in Topics :
                  score[p] < 0 /\ p \in mesh'[t] => p \in mesh[t] /\ ~Completes
<1>1. TypeOK /\ BackoffBook /\ [Next]_vars => A
  <2> SUFFICES ASSUME TypeOK, BackoffBook, [Next]_vars,
                      NEW p \in Peers, NEW t \in Topics, score[p] < 0, p \in mesh'[t]
               PROVE  p \in mesh[t] /\ ~Completes
    OBVIOUS
  <2>1. score[p] \in Int
    BY PeerAssumption DEF TypeOK
  <2>2. p \in mesh[t]
    BY <2>1, NewMeshPeer
  <2>3. ASSUME Completes PROVE FALSE
    <3>1. PICK cleared, tick : Maintain(cleared, tick)
      BY <2>3, CompletesMaintains
    <3>2. IF t \in joined THEN mesh'[t] \in Maintained(t, cleared, tick) ELSE mesh'[t] = {}
      BY <3>1 DEF Maintain
    <3> QED
      BY <2>1, <3>2, MaintainedFromCandidates
  <2> QED
    BY <2>2, <2>3
<1>2. TypeOK /\ BackoffBook /\ [Next]_vars => [A]_vars
  BY <1>1
<1> QED
  BY <1>2, BackoffBooked, PTL DEF Spec, BadPeersOut

-----------------------------------------------------------------------------

(* The fanout of a topic never holds more than D peers: publishing fills   *)
(* an empty one, the heartbeat tops it up, and nothing else adds to it.    *)
FanoutBounded == \A t \in Topics : Cardinality(fanout[t]) <= D

(* The two bounds are invariant together: a join starts a mesh from the    *)
(* fanout.                                                                 *)
DegreesBounded == FanoutBounded /\ InboundBounded

(* A step that adds nobody to a fanout or, inbound, to a mesh. *)
LEMMA NobodyAdded ==
  ASSUME TypeOK, DegreesBounded,
         \A t \in Topics : fanout'[t] \subseteq fanout[t],
         \A t \in Topics : mesh'[t] \ outbound' \subseteq mesh[t] \ outbound
  PROVE  DegreesBounded'
<1>0. InboundBound \in Int /\ D \in Int
  BY DegreeAssumption DEF InboundBound, Larger
<1>1. ASSUME NEW t \in Topics
      PROVE  Cardinality(fanout'[t]) <= D /\ Cardinality(mesh'[t] \ outbound') <= InboundBound
  <2>1. IsFiniteSet(fanout[t]) /\ IsFiniteSet(mesh[t] \ outbound)
    BY PeerAssumption, SmallerSubset DEF TypeOK
  <2>2. /\ Cardinality(fanout'[t]) <= Cardinality(fanout[t])
        /\ Cardinality(fanout'[t]) \in Nat /\ Cardinality(fanout[t]) \in Nat
    BY <2>1, SmallerSubset
  <2>3. /\ Cardinality(mesh'[t] \ outbound') <= Cardinality(mesh[t] \ outbound)
        /\ Cardinality(mesh'[t] \ outbound') \in Nat /\ Cardinality(mesh[t] \ outbound) \in Nat
    BY <2>1, SmallerSubset
  <2>4. Cardinality(fanout[t]) <= D /\ Cardinality(mesh[t] \ outbound) <= InboundBound
    BY DEF DegreesBounded, FanoutBounded, InboundBounded
  <2> QED
    BY <1>0, <2>2, <2>3, <2>4
<1> QED
  BY <1>1 DEF DegreesBounded, FanoutBounded, InboundBounded, InboundBound

(* A GRAFT is accepted of an outbound peer at any size, of another one     *)
(* only below Dhi.                                                         *)
LEMMA GraftBounded ==
  ASSUME TypeOK, DegreesBounded, NEW p \in Peers, NEW t \in Topics, HandleGraftAccepted(p, t)
  PROVE  DegreesBounded'
<1>1. outbound' = outbound /\ fanout' = fanout /\ mesh' = [mesh EXCEPT ![t] = @ \cup {p}]
  BY DEF HandleGraftAccepted, conn, fanVars
<1>2. CASE p \in outbound
  BY <1>1, <1>2, NobodyAdded DEF TypeOK
<1>3. CASE p \notin outbound
  <2>0. IsFiniteSet(mesh[t]) /\ Cardinality(mesh[t]) \in Nat
    BY PeerAssumption, SmallerSubset DEF TypeOK
  <2>1. Cardinality(mesh[t]) < Dhi
    BY <1>3, <2>0, DegreeAssumption DEF HandleGraftAccepted, GraftRefused
  <2>2. IsFiniteSet(mesh[t] \cup {p}) /\ Cardinality(mesh[t] \cup {p}) <= Cardinality(mesh[t]) + 1
    BY <2>0, FS_AddElement
  <2>3. /\ Cardinality((mesh[t] \cup {p}) \ outbound) <= Cardinality(mesh[t] \cup {p})
        /\ Cardinality((mesh[t] \cup {p}) \ outbound) \in Nat
        /\ Cardinality(mesh[t] \cup {p}) \in Nat
    BY <2>2, SmallerSubset
  <2>4. Cardinality((mesh[t] \cup {p}) \ outbound) <= InboundBound
    BY <2>0, <2>1, <2>2, <2>3, DegreeAssumption DEF InboundBound, Larger
  <2>5. \A u \in Topics : mesh'[u] = IF u = t THEN mesh[t] \cup {p} ELSE mesh[u]
    BY <1>1 DEF TypeOK
  <2> QED
    BY <1>1, <2>4, <2>5 DEF DegreesBounded, FanoutBounded, InboundBounded, InboundBound
<1> QED
  BY <1>2, <1>3

(* A join keeps at most the D peers of the fanout, and adds at most D when *)
(* it keeps fewer.                                                         *)
LEMMA JoinBounded ==
  ASSUME TypeOK, DegreesBounded, NEW t \in Topics, Join(t)
  PROVE  DegreesBounded'
<1> DEFINE kept == {p \in fanout[t] : MeshEligible(p, t)}
           more == {p \in Reachable(t) \ kept : MeshEligible(p, t)}
           n == IF Cardinality(kept) < D THEN D ELSE 0
<1>1. PICK new \in SomeOf(more, n) : mesh' = [mesh EXCEPT ![t] = kept \cup new]
  BY DEF Join
<1>2. outbound' = outbound /\ fanout' = [fanout EXCEPT ![t] = {}]
  BY DEF Join, conn
<1>3. IsFiniteSet(fanout[t]) /\ IsFiniteSet(more)
  BY PeerAssumption, SmallerSubset DEF TypeOK, Reachable
<1>4. /\ IsFiniteSet(kept) /\ Cardinality(kept) <= Cardinality(fanout[t])
      /\ Cardinality(kept) \in Nat /\ Cardinality(fanout[t]) \in Nat
  BY <1>3, SmallerSubset
<1>5. Cardinality(fanout[t]) <= D
  BY DEF DegreesBounded, FanoutBounded
<1>6. n \in Int /\ Larger(n, 0) = n
  BY <1>4, DegreeAssumption DEF Larger
<1>7. IsFiniteSet(new) /\ Cardinality(new) \in Nat /\ Cardinality(new) <= n
  BY <1>1, <1>3, <1>6, SomeOfSize
<1>8. Cardinality(kept) + Cardinality(new) <= 2 * D - 1
  BY <1>4, <1>5, <1>7, DegreeAssumption
<1>9. /\ IsFiniteSet(kept \cup new) /\ Cardinality(kept \cup new) \in Nat
      /\ Cardinality(kept \cup new) <= Cardinality(kept) + Cardinality(new)
  BY <1>4, <1>7, UnionSize
<1>10. /\ Cardinality((kept \cup new) \ outbound) <= Cardinality(kept \cup new)
       /\ Cardinality((kept \cup new) \ outbound) \in Nat
  BY <1>9, SmallerSubset
<1> HIDE DEF kept, more, n
<1>11. Cardinality((kept \cup new) \ outbound) <= InboundBound
  BY <1>4, <1>7, <1>8, <1>9, <1>10, DegreeAssumption DEF InboundBound, Larger
<1>12. \A u \in Topics : /\ mesh'[u] = IF u = t THEN kept \cup new ELSE mesh[u]
                         /\ fanout'[u] = IF u = t THEN {} ELSE fanout[u]
  BY <1>1, <1>2 DEF TypeOK
<1>13. Cardinality({}) <= D
  BY FS_EmptySet, DegreeAssumption
<1> QED
  BY <1>2, <1>11, <1>12, <1>13 DEF DegreesBounded, FanoutBounded, InboundBounded, InboundBound

(* A publication fills an empty fanout with at most D peers.               *)
LEMMA PublishBounded ==
  ASSUME TypeOK, DegreesBounded, NEW t \in Topics, Publish(t)
  PROVE  DegreesBounded'
<1> DEFINE near == {p \in Reachable(t) : score[p] >= PublishThreshold}
<1>1. PICK new \in (IF fanout[t] # {} THEN {fanout[t]} ELSE SomeOf(near, D)) :
        fanout' = [fanout EXCEPT ![t] = new]
  BY DEF Publish
<1>2. mesh' = mesh /\ outbound' = outbound
  BY DEF Publish, conn, meshVars
<1>3. Cardinality(new) <= D
  <2>1. CASE fanout[t] # {}
    BY <1>1, <2>1 DEF DegreesBounded, FanoutBounded
  <2>2. CASE fanout[t] = {}
    <3>1. IsFiniteSet(near)
      BY PeerAssumption, SmallerSubset DEF TypeOK, Reachable
    <3>2. D \in Int /\ Larger(D, 0) = D
      BY DegreeAssumption DEF Larger
    <3> QED
      BY <1>1, <2>2, <3>1, <3>2, SomeOfSize
  <2> QED
    BY <2>1, <2>2
<1>4. \A u \in Topics : fanout'[u] = IF u = t THEN new ELSE fanout[u]
  BY <1>1 DEF TypeOK
<1> QED
  BY <1>2, <1>3, <1>4 DEF DegreesBounded, FanoutBounded, InboundBounded
(* The maintenance of a heartbeat: MaintainedDegree bounds the meshes, and *)
(* the fanout is topped up to D, never beyond.                             *)
LEMMA MaintainBounded ==
  ASSUME TypeOK, DegreesBounded, NEW cleared, NEW tick, Maintain(cleared, tick)
  PROVE  DegreesBounded'
<1>0. outbound' = outbound /\ Cardinality({}) = 0
  BY FS_EmptySet DEF Maintain, conn
<1>1. ASSUME NEW t \in Topics PROVE Cardinality(fanout'[t]) <= D
  <2> DEFINE kept == {p \in fanout[t] : p \in topics[t] /\ score[p] >= PublishThreshold}
             more == {p \in Reachable(t) \ (kept \cup Direct) : score[p] >= PublishThreshold}
  <2>1. CASE fanout'[t] = {}
    BY <1>0, <2>1, DegreeAssumption
  <2>2. CASE fanout'[t] # {}
    <3>1. PICK a \in SomeOf(more, D - Cardinality(kept)) : fanout'[t] = kept \cup a
      BY <2>2 DEF Maintain, FanoutMaintained
    <3>2. IsFiniteSet(fanout[t]) /\ IsFiniteSet(more)
      BY PeerAssumption, SmallerSubset DEF TypeOK, Reachable
    <3>3. /\ IsFiniteSet(kept) /\ Cardinality(kept) <= Cardinality(fanout[t])
          /\ Cardinality(kept) \in Nat /\ Cardinality(fanout[t]) \in Nat
      BY <3>2, SmallerSubset
    <3>4. Cardinality(fanout[t]) <= D
      BY DEF DegreesBounded, FanoutBounded
    <3>5. /\ D - Cardinality(kept) \in Int
          /\ Larger(D - Cardinality(kept), 0) = D - Cardinality(kept)
      BY <3>3, <3>4, DegreeAssumption DEF Larger
    <3>6. IsFiniteSet(a) /\ Cardinality(a) \in Nat /\ Cardinality(a) <= D - Cardinality(kept)
      BY <3>1, <3>2, <3>5, SomeOfSize
    <3>7. /\ Cardinality(kept \cup a) <= Cardinality(kept) + Cardinality(a)
          /\ Cardinality(kept \cup a) \in Nat
      BY <3>3, <3>6, UnionSize
    <3> HIDE DEF kept, more
    <3> QED
      BY <3>1, <3>3, <3>6, <3>7, DegreeAssumption
  <2> QED
    BY <2>1, <2>2
<1>2. ASSUME NEW t \in Topics PROVE Cardinality(mesh'[t] \ outbound') <= InboundBound
  <2>1. CASE t \in joined
    <3>1. mesh'[t] \in Maintained(t, cleared, tick)
      BY <2>1 DEF Maintain
    <3>2. Cardinality(mesh'[t] \ outbound) <= Dhi + OppGraftPeers
      BY <3>1, MaintainedDegree
    <3>3. mesh'[t] \ outbound \subseteq Peers
      BY DEF Maintain
    <3>4. Cardinality(mesh'[t] \ outbound) \in Nat
      BY <3>3, PeerAssumption, SmallerSubset
    <3> QED
      BY <1>0, <3>2, <3>4, DegreeAssumption DEF InboundBound, Larger
  <2>2. CASE t \notin joined
    <3>1. mesh'[t] \ outbound' = {}
      BY <2>2 DEF Maintain
    <3> QED
      BY <1>0, <3>1, DegreeAssumption DEF InboundBound, Larger
  <2> QED
    BY <2>1, <2>2
<1> QED
  BY <1>1, <1>2 DEF DegreesBounded, FanoutBounded, InboundBounded, InboundBound

LEMMA DegreesBoundedStep == ASSUME TypeOK, DegreesBounded, [Next]_vars PROVE DegreesBounded'
<1>1. CASE ConnectionStep
  <2>1. PICK p \in Peers :
          \/ \E dialed \in {FALSE, (p \in Dialable)} : Connect(p, dialed)
          \/ OutboundStreamOpens(p)
          \/ OutboundStreamFails(p)
          \/ Disconnect(p)
          \/ LateRpcEnds(p)
    BY <1>1 DEF ConnectionStep
  <2>2. CASE Disconnect(p)
    <3>1. \A t \in Topics : mesh'[t] = mesh[t] \ {p} /\ fanout'[t] = fanout[t] \ {p}
      BY <2>2 DEF Disconnect
    <3>2. outbound' = outbound \ {p}
      BY <2>2 DEF Disconnect
    <3> QED
      BY <3>1, <3>2, NobodyAdded
  <2>3. CASE ~Disconnect(p)
    <3>1. mesh' = mesh /\ fanout' = fanout /\ outbound \subseteq outbound'
      BY <2>1, <2>3 DEF Connect, OutboundStreamOpens, OutboundStreamFails, LateRpcEnds,
                        meshVars, fanVars
    <3> QED
      BY <3>1, NobodyAdded
  <2> QED
    BY <2>2, <2>3
<1>2. CASE RpcStep
  <2>1. CASE \E p \in Peers, t \in Topics : HandleGraftAccepted(p, t)
    BY <2>1, GraftBounded
  <2>2. CASE ~\E p \in Peers, t \in Topics : HandleGraftAccepted(p, t)
    <3>1. outbound' = outbound /\ fanout' = fanout
      BY <1>2, <2>2 DEF RpcStep, HandleSubscription, HandleGraftDirect, HandleGraftRefused,
                        HandlePrune, HandlePruneGoesOn, HandlePruneFails, conn, fanVars
    <3>2. ASSUME NEW p, NEW ts, HandlePruneEntry(p, ts)
          PROVE  \A t \in Topics : mesh'[t] \subseteq mesh[t]
      <4>1. mesh' = [mesh EXCEPT ![Head(ts)] = @ \ {p}] \/ mesh' = mesh
        BY <3>2 DEF HandlePruneEntry, meshVars
      <4>2. mesh \in [Topics -> SUBSET Peers]
        BY DEF TypeOK
      <4> QED
        BY <4>1, <4>2
    <3>3. \A t \in Topics : mesh'[t] \subseteq mesh[t]
      BY <1>2, <2>2, <3>2 DEF RpcStep, HandleSubscription, HandleGraftDirect, HandleGraftRefused,
                              HandlePrune, HandlePruneGoesOn, HandlePruneFails, meshVars
    <3> QED
      BY <3>1, <3>3, NobodyAdded
  <2> QED
    BY <2>1, <2>2
<1>3. CASE AppStep
  <2>1. PICK t \in Topics : Join(t) \/ Leave(t) \/ Publish(t)
    BY <1>3 DEF AppStep
  <2>2. CASE Leave(t)
    <3>1. /\ outbound' = outbound /\ fanout' = fanout
          /\ \A u \in Topics : mesh'[u] \subseteq mesh[u]
      BY <2>2 DEF Leave, conn, fanVars, TypeOK
    <3> QED
      BY <3>1, NobodyAdded
  <2> QED
    BY <2>1, <2>2, JoinBounded, PublishBounded
<1>4. CASE HeartbeatStep
  <2>1. CASE Heartbeat \/ DirectDialed
    BY <2>1, MaintainBounded DEF Heartbeat, DirectDialed
  <2>2. CASE ~(Heartbeat \/ DirectDialed)
    <3>1. mesh' = mesh /\ fanout' = fanout /\ outbound' = outbound
      BY <1>4, <2>2 DEF HeartbeatStep, HeartbeatDials, DirectDialFails, SendPrune, SendPruneFails,
                        conn, meshVars, fanVars
    <3> QED
      BY <3>1, NobodyAdded
  <2> QED
    BY <2>1, <2>2
<1>5. CASE Tick \/ (\E p \in Peers, s \in Scores : ScoreChanges(p, s)) \/ UNCHANGED vars
  <2>1. mesh' = mesh /\ fanout' = fanout /\ outbound' = outbound
    BY <1>5 DEF Tick, ScoreChanges, vars, conn, meshVars, fanVars
  <2> QED
    BY <2>1, NobodyAdded
<1> QED
  BY <1>1, <1>2, <1>3, <1>4, <1>5 DEF Next

(* Whatever GRAFTs arrive, whenever topics are joined and left and however *)
(* the scores and connections change, no mesh ever holds more than         *)
(* max(2 D - 1, Dhi + OppGraftPeers) peers that dialed us.                 *)
(* (index.ts, handleGraft's check of Dhi together with join and heartbeat) *)
THEOREM InboundStaysBounded == Spec => []InboundBounded
<1>1. Init => DegreesBounded
  BY FS_EmptySet, DegreeAssumption
     DEF Init, DegreesBounded, FanoutBounded, InboundBounded, InboundBound, Larger
<1>2. TypeOK /\ DegreesBounded /\ [Next]_vars => DegreesBounded'
  BY DegreesBoundedStep
<1>3. DegreesBounded => InboundBounded
  BY DEF DegreesBounded
<1> QED
  BY <1>1, <1>2, <1>3, TypeCorrect, PTL DEF Spec
=============================================================================
