-------------------------- MODULE MeshRouter_proofs --------------------------
(***************************************************************************)
(* Proofs about MeshRouter for every set of peers, topics and parameters.  *)
(***************************************************************************)
EXTENDS MeshRouter, TLAPS

(* What one heartbeat may make of the mesh of a topic: nobody joins it but *)
(* the candidates, and who stays has no negative score.  (index.ts, the    *)
(* body of this.mesh.forEach)                                              *)
LEMMA MaintainedFromCandidates ==
  ASSUME NEW t, NEW cleared, NEW tick, NEW m \in Maintained(t, cleared, tick)
  PROVE  /\ m \subseteq mesh[t] \cup Candidates(t, cleared)
         /\ \A p \in m : score[p] >= 0
<1> DEFINE more == Candidates(t, cleared)
           kept == {p \in mesh[t] : score[p] >= 0}
<1> USE DEF SomeOf
<1>1. PICK m1 \in Refilled(kept, more) :
        m \in UNION {UNION {WithBetter(m3, more \ (m1 \cup m3), tick)
                              : m3 \in WithOutbound(m2, more \ m1)} : m2 \in Trimmed(m1)}
  BY DEF Maintained
<1>2. PICK m2 \in Trimmed(m1) :
        m \in UNION {WithBetter(m3, more \ (m1 \cup m3), tick)
                       : m3 \in WithOutbound(m2, more \ m1)}
  BY <1>1
<1>3. PICK m3 \in WithOutbound(m2, more \ m1) : m \in WithBetter(m3, more \ (m1 \cup m3), tick)
  BY <1>2
<1>4. m1 \subseteq kept \cup more
  BY DEF Refilled
<1>5. m2 \subseteq m1
  BY <1>2 DEF Trimmed, ExcessKept
<1>6. m3 \subseteq m2 \cup more
  BY <1>3 DEF WithOutbound
<1>7. m \subseteq m3 \cup more
  BY <1>3 DEF WithBetter
<1>8. m \subseteq kept \cup more /\ kept \subseteq mesh[t]
  BY <1>4, <1>5, <1>6, <1>7
<1>9. \A p \in kept \cup more : score[p] >= 0
  BY DEF Candidates
<1> QED
  BY <1>8, <1>9

LEMMA MaintainedTyped ==
  ASSUME TypeOK, NEW cleared, NEW tick, NEW t \in Topics, NEW m \in Maintained(t, cleared, tick)
  PROVE  m \subseteq Peers
<1>1. Candidates(t, cleared) \subseteq Peers /\ mesh[t] \subseteq Peers
  BY DEF TypeOK, Candidates, Reachable
<1> QED
  BY <1>1, MaintainedFromCandidates

(* The backoff book stays typed whatever links are backed off. *)
LEMMA BackoffTyped ==
  ASSUME TypeOK, NEW Added, NEW i \in Int, DoAddBackoff(Added, i)
  PROVE  backoff' \in [Topics -> SUBSET Peers] /\ left' \in [Topics -> [Peers -> Int]]
BY DEF TypeOK, DoAddBackoff, Larger

LEMMA PruneEntryTyped ==
  ASSUME TypeOK, NEW p \in Peers, NEW ts \in Seq(Topics), ts # <<>>, HandlePruneEntry(p, ts)
  PROVE  /\ backoff' \in [Topics -> SUBSET Peers]
         /\ left' \in [Topics -> [Peers -> Int]]
         /\ mesh' \in [Topics -> SUBSET Peers]
         /\ pruning' \in [Peers -> Seq(Topics)]
<1>0. Tail(ts) \in Seq(Topics) /\ <<>> \in Seq(Topics)
  OBVIOUS
<1>1. CASE Head(ts) \in joined
  <2>1. PICK b \in PeerBackoffs :
          DoAddBackoff({<<Head(ts), p>>}, IF b > 0 THEN b ELSE PruneBackoff)
    BY <1>1 DEF HandlePruneEntry
  <2>2. (IF b > 0 THEN b ELSE PruneBackoff) \in Int
    BY TimeAssumption
  <2>3. backoff' \in [Topics -> SUBSET Peers] /\ left' \in [Topics -> [Peers -> Int]]
    BY <2>1, <2>2, BackoffTyped
  <2>4. /\ mesh' = [mesh EXCEPT ![Head(ts)] = @ \ {p}]
        /\ pruning' = [pruning EXCEPT ![p] = Tail(ts)]
    BY <1>1 DEF HandlePruneEntry
  <2>5. mesh' \in [Topics -> SUBSET Peers]
    BY <1>1, <2>4 DEF TypeOK
  <2>6. pruning' \in [Peers -> Seq(Topics)]
    BY <1>0, <2>4 DEF TypeOK
  <2> QED
    BY <2>3, <2>5, <2>6
<1>2. CASE Head(ts) \notin joined
  BY <1>0, <1>2 DEF TypeOK, HandlePruneEntry, meshVars
<1> QED
  BY <1>1, <1>2

LEMMA PruneListsTyped ==
  ASSUME NEW ts \in PruneLists
  PROVE  ts \in Seq(Topics) /\ ts # <<>>
<1>1. PICK n \in 1..MaxPruneTopics : ts \in [1..n -> Topics]
  BY TimeAssumption DEF PruneLists
<1>2. n \in Nat /\ n >= 1
  BY <1>1
<1> QED
  BY <1>1, <1>2

LEMMA MaintainTyped ==
  ASSUME TypeOK, NEW cleared \in [Topics -> SUBSET Peers], NEW tick, Maintain(cleared, tick)
  PROVE  /\ mesh' \in [Topics -> SUBSET Peers]
         /\ backoff' \in [Topics -> SUBSET Peers]
         /\ left' \in [Topics -> [Peers -> Int]]
         /\ toprune' \in [Peers -> SUBSET Topics]
         /\ hb' \in {"idle", "dialing", "sending"}
         /\ fanoutTopics' \subseteq Topics
         /\ fanout' \in [Topics -> SUBSET Peers]
<1>1. mesh' \in [Topics -> SUBSET Peers] /\ fanout' \in [Topics -> SUBSET Peers]
  BY DEF Maintain
<1>2. backoff' \in [Topics -> SUBSET Peers]
  BY DEF Maintain, TypeOK
<1>3. left' \in [Topics -> [Peers -> Int]]
  <2>1. \A t \in Topics, p \in Peers : left[t][p] \in Int /\ Larger(left[t][p], PruneBackoff) \in Int
    BY TimeAssumption DEF TypeOK, Larger
  <2> QED
    BY <2>1 DEF Maintain
<1> QED
  BY <1>1, <1>2, <1>3 DEF Maintain, TypeOK

LEMMA ClearedTyped ==
  ASSUME TypeOK, NEW tick
  PROVE  /\ ClearedBackoff(tick) \in [Topics -> SUBSET Peers]
         /\ \A t \in Topics : ClearedBackoff(tick)[t] \subseteq backoff[t]
BY DEF TypeOK, ClearedBackoff

LEMMA NextTickTyped == ASSUME TypeOK PROVE NextTick \in Nat
BY TimeAssumption DEF TypeOK, NextTick

(* Every handler leaves every map in its declared shape. *)
LEMMA TypeCorrectStep == ASSUME TypeOK, [Next]_vars PROVE TypeOK'
<1>1. CASE ConnectionStep
  <2>1. PICK p \in Peers :
          \/ \E dialed \in {FALSE, (p \in Dialable)} : Connect(p, dialed)
          \/ OutboundStreamOpens(p)
          \/ OutboundStreamFails(p)
          \/ Disconnect(p)
          \/ LateRpcEnds(p)
    BY <1>1 DEF ConnectionStep
  <2>2. CASE \E dialed \in {FALSE, (p \in Dialable)} : Connect(p, dialed)
    BY <2>2 DEF TypeOK, Connect, meshVars, fanVars, hbVars
  <2>3. CASE OutboundStreamOpens(p)
    BY <2>3 DEF TypeOK, OutboundStreamOpens, meshVars, fanVars, hbVars
  <2>4. CASE OutboundStreamFails(p)
    BY <2>4 DEF TypeOK, OutboundStreamFails, meshVars, fanVars, hbVars
  <2>5. CASE Disconnect(p)
    BY <2>5 DEF TypeOK, Disconnect, meshVars, fanVars, hbVars
  <2>6. CASE LateRpcEnds(p)
    BY <2>6 DEF TypeOK, LateRpcEnds, meshVars, fanVars, hbVars
  <2> QED
    BY <2>1, <2>2, <2>3, <2>4, <2>5, <2>6
<1>2. CASE RpcStep
  <2>1. PICK p \in Peers :
          \/ \E t \in Topics : \/ \E subscribe \in BOOLEAN : HandleSubscription(p, t, subscribe)
                             \/ HandleGraftDirect(p, t)
                             \/ HandleGraftRefused(p, t)
                             \/ HandleGraftAccepted(p, t)
          \/ \E ts \in PruneLists : HandlePrune(p, ts)
          \/ HandlePruneGoesOn(p)
          \/ HandlePruneFails(p)
    BY <1>2 DEF RpcStep
  <2>2. ASSUME NEW t \in Topics, NEW subscribe \in BOOLEAN, HandleSubscription(p, t, subscribe)
        PROVE  TypeOK'
    BY <2>2 DEF TypeOK, HandleSubscription, conn, meshVars, fanVars, hbVars
  <2>3. ASSUME NEW t \in Topics, HandleGraftDirect(p, t) \/ HandleGraftRefused(p, t)
        PROVE  TypeOK'
    <3>1. DoAddBackoff({<<t, p>>}, PruneBackoff)
      BY <2>3 DEF HandleGraftDirect, HandleGraftRefused
    <3>2. backoff' \in [Topics -> SUBSET Peers] /\ left' \in [Topics -> [Peers -> Int]]
      BY <3>1, BackoffTyped, TimeAssumption
    <3> QED
      BY <2>3, <3>2 DEF TypeOK, HandleGraftDirect, HandleGraftRefused, conn, fanVars, hbVars
  <2>4. ASSUME NEW t \in Topics, HandleGraftAccepted(p, t)
        PROVE  TypeOK'
    BY <2>4 DEF TypeOK, HandleGraftAccepted, conn, fanVars, hbVars
  <2>5. ASSUME NEW ts \in PruneLists, HandlePrune(p, ts)
        PROVE  TypeOK'
    <3>1. ts \in Seq(Topics) /\ ts # <<>>
      BY PruneListsTyped
    <3>2. HandlePruneEntry(p, ts)
      BY <2>5 DEF HandlePrune
    <3> QED
      BY <2>5, <3>1, <3>2, PruneEntryTyped DEF TypeOK, HandlePrune, conn, fanVars, hbVars
  <2>6. CASE HandlePruneGoesOn(p)
    <3>1. pruning[p] \in Seq(Topics) /\ pruning[p] # <<>> /\ HandlePruneEntry(p, pruning[p])
      BY <2>6 DEF TypeOK, HandlePruneGoesOn
    <3> QED
      BY <2>6, <3>1, PruneEntryTyped DEF TypeOK, HandlePruneGoesOn, conn, fanVars, hbVars
  <2>7. CASE HandlePruneFails(p)
    <3>1. <<>> \in Seq(Topics)
      OBVIOUS
    <3> QED
      BY <2>7, <3>1 DEF TypeOK, HandlePruneFails, conn, meshVars, fanVars, hbVars
  <2> QED
    BY <2>1, <2>2, <2>3, <2>4, <2>5, <2>6, <2>7
<1>3. CASE AppStep
  <2>1. PICK t \in Topics : Join(t) \/ Leave(t) \/ Publish(t)
    BY <1>3 DEF AppStep
  <2>2. CASE Join(t)
    BY <2>2 DEF TypeOK, Join, SomeOf, Reachable, MeshEligible, conn, hbVars
  <2>3. CASE Leave(t)
    <3>1. backoff' \in [Topics -> SUBSET Peers] /\ left' \in [Topics -> [Peers -> Int]]
      BY <2>3, BackoffTyped, TimeAssumption DEF Leave
    <3> QED
      BY <2>3, <3>1 DEF TypeOK, Leave, conn, fanVars, hbVars
  <2>4. CASE Publish(t)
    BY <2>4, TimeAssumption DEF TypeOK, Publish, SomeOf, Reachable, conn, meshVars, hbVars
  <2> QED
    BY <2>1, <2>2, <2>3, <2>4
<1>4. CASE HeartbeatStep
  <2>1. CASE Heartbeat
    <3>1. ticks' \in Nat
      BY <2>1, NextTickTyped DEF Heartbeat
    <3>2. Maintain(ClearedBackoff(NextTick), NextTick)
      BY <2>1 DEF Heartbeat
    <3>3. ClearedBackoff(NextTick) \in [Topics -> SUBSET Peers]
      BY ClearedTyped
    <3>4. /\ mesh' \in [Topics -> SUBSET Peers]
          /\ backoff' \in [Topics -> SUBSET Peers]
          /\ left' \in [Topics -> [Peers -> Int]]
          /\ toprune' \in [Peers -> SUBSET Topics]
          /\ hb' \in {"idle", "dialing", "sending"}
          /\ fanoutTopics' \subseteq Topics
          /\ fanout' \in [Topics -> SUBSET Peers]
      BY <3>2, <3>3, MaintainTyped
    <3>5. UNCHANGED <<conn, topics, joined, score, fanoutLeft, pruning>>
      BY <3>2 DEF Maintain
    <3> QED
      BY <3>1, <3>4, <3>5 DEF TypeOK, conn
  <2>2. CASE HeartbeatDials
    BY <2>2, NextTickTyped, ClearedTyped DEF TypeOK, HeartbeatDials, conn, fanVars
  <2>3. CASE DirectDialed
    <3>1. Maintain(backoff, ticks) /\ backoff \in [Topics -> SUBSET Peers]
      BY <2>3 DEF DirectDialed, TypeOK
    <3> QED
      BY <2>3, <3>1, MaintainTyped DEF TypeOK, DirectDialed, Maintain, conn
  <2>4. CASE DirectDialFails
    BY <2>4 DEF TypeOK, DirectDialFails, conn, meshVars, fanVars
  <2>5. ASSUME NEW p \in Peers, SendPrune(p)
        PROVE  TypeOK'
    <3>1. backoff' \in [Topics -> SUBSET Peers] /\ left' \in [Topics -> [Peers -> Int]]
      BY <2>5, BackoffTyped, TimeAssumption DEF SendPrune
    <3> QED
      BY <2>5, <3>1 DEF TypeOK, SendPrune, conn, fanVars
  <2>6. CASE SendPruneFails
    BY <2>6 DEF TypeOK, SendPruneFails, conn, meshVars, fanVars
  <2> QED
    BY <1>4, <2>1, <2>2, <2>3, <2>4, <2>5, <2>6 DEF HeartbeatStep
<1>5. CASE Tick
  <2>1. Floor \in Int
    BY TimeAssumption DEF Floor
  <2> QED
    BY <1>5, <2>1 DEF TypeOK, Tick, Larger, conn, hbVars
<1>6. ASSUME NEW p \in Peers, NEW s \in Scores, ScoreChanges(p, s)
      PROVE  TypeOK'
  BY <1>6 DEF TypeOK, ScoreChanges, conn, meshVars, fanVars, hbVars
<1>7. CASE UNCHANGED vars
  BY <1>7 DEF TypeOK, vars, conn, meshVars, fanVars, hbVars
<1> QED
  BY <1>1, <1>2, <1>3, <1>4, <1>5, <1>6, <1>7 DEF Next

(* Type correctness of the router in every reachable state. *)
THEOREM TypeCorrect == Spec => []TypeOK
<1>1. Init => TypeOK
  BY TimeAssumption DEF Init, TypeOK, Floor
<1> QED
  BY <1>1, TypeCorrectStep, PTL DEF Spec

-----------------------------------------------------------------------------

(* Time is left only of a backoff that has an entry: what clearBackoff     *)
(* drops was over, so dropping an entry never frees a link early.          *)
BackoffBook == \A t \in Topics, p \in Peers : left[t][p] > 0 => p \in backoff[t]

LEMMA DoAddBackoffBook ==
  ASSUME TypeOK, BackoffBook, NEW Added, NEW i \in Int, DoAddBackoff(Added, i)
  PROVE  /\ BackoffBook'
         /\ \A t \in Topics, p \in Peers : left'[t][p] >= left[t][p]
         /\ \A t \in Topics, p \in Peers : <<t, p>> \in Added => left'[t][p] >= i
BY DEF TypeOK, BackoffBook, DoAddBackoff, Larger

LEMMA MaintainBook ==
  ASSUME TypeOK, BackoffBook, NEW cleared \in [Topics -> SUBSET Peers], NEW tick,
         \A t \in Topics, p \in Peers : left[t][p] > 0 => p \in cleared[t],
         Maintain(cleared, tick)
  PROVE  /\ BackoffBook'
         /\ \A t \in Topics, p \in Peers : left'[t][p] >= left[t][p]
         /\ \A t \in Topics : \A p \in mesh[t] \ mesh'[t] : left'[t][p] >= PruneBackoff
<1>1. \A t \in Topics : mesh[t] \subseteq Peers
  BY DEF TypeOK
<1>2. \A t \in Topics, p \in Peers :
        /\ left'[t][p] = IF p \in mesh[t] \ mesh'[t] THEN Larger(left[t][p], PruneBackoff)
                                                  ELSE left[t][p]
        /\ backoff'[t] = cleared[t] \cup (mesh[t] \ mesh'[t])
  BY DEF Maintain
<1>3. \A t \in Topics, p \in Peers :
        left[t][p] \in Int /\ Larger(left[t][p], PruneBackoff) \in Int
        /\ Larger(left[t][p], PruneBackoff) >= left[t][p]
        /\ Larger(left[t][p], PruneBackoff) >= PruneBackoff
  BY TimeAssumption DEF TypeOK, Larger
<1>4. \A t \in Topics, p \in Peers :
        /\ left'[t][p] >= left[t][p]
        /\ p \in mesh[t] \ mesh'[t] => left'[t][p] >= PruneBackoff
  BY <1>2, <1>3
<1>5. ASSUME NEW t \in Topics, NEW p \in Peers, left'[t][p] > 0
      PROVE  p \in backoff'[t]
  BY <1>2, <1>5
<1>6. BackoffBook'
  BY <1>5 DEF BackoffBook
<1> QED
  BY <1>1, <1>4, <1>6

LEMMA ClearedBook ==
  ASSUME TypeOK, BackoffBook, NEW tick
  PROVE  \A t \in Topics, p \in Peers : left[t][p] > 0 => p \in ClearedBackoff(tick)[t]
BY TimeAssumption DEF TypeOK, BackoffBook, ClearedBackoff

LEMMA BackoffGrows ==
  ASSUME TypeOK, BackoffBook, [Next]_vars, ~Tick
  PROVE  BackoffBook' /\ \A t \in Topics, p \in Peers : left'[t][p] >= left[t][p]
<1> DEFINE Goal == BackoffBook' /\ \A t \in Topics, p \in Peers : left'[t][p] >= left[t][p]
<1>0. ASSUME UNCHANGED <<backoff, left>> PROVE Goal
  BY <1>0 DEF TypeOK, BackoffBook
<1>1. ASSUME NEW Added, NEW i \in Int, DoAddBackoff(Added, i) PROVE Goal
  BY <1>1, DoAddBackoffBook
<1>2. CASE ConnectionStep
  BY <1>0, <1>2 DEF ConnectionStep, Connect, OutboundStreamOpens, OutboundStreamFails,
                    Disconnect, LateRpcEnds, meshVars
<1>3. CASE RpcStep
  <2>1. ASSUME NEW p \in Peers, NEW ts, HandlePruneEntry(p, ts) PROVE Goal
    <3>1. CASE Head(ts) \in joined
      <4>1. PICK b \in PeerBackoffs :
              DoAddBackoff({<<Head(ts), p>>}, IF b > 0 THEN b ELSE PruneBackoff)
        BY <2>1, <3>1 DEF HandlePruneEntry
      <4>2. (IF b > 0 THEN b ELSE PruneBackoff) \in Int
        BY TimeAssumption
      <4> QED
        BY <1>1, <4>1, <4>2
    <3>2. CASE Head(ts) \notin joined
      BY <1>0, <2>1, <3>2 DEF HandlePruneEntry, meshVars
    <3> QED
      BY <3>1, <3>2
  <2>2. PICK p \in Peers :
          \/ \E t \in Topics : \/ \E subscribe \in BOOLEAN : HandleSubscription(p, t, subscribe)
                             \/ HandleGraftDirect(p, t)
                             \/ HandleGraftRefused(p, t)
                             \/ HandleGraftAccepted(p, t)
          \/ \E ts \in PruneLists : HandlePrune(p, ts)
          \/ HandlePruneGoesOn(p)
          \/ HandlePruneFails(p)
    BY <1>3 DEF RpcStep
  <2>3. ASSUME NEW t \in Topics, HandleGraftDirect(p, t) \/ HandleGraftRefused(p, t) PROVE Goal
    BY <1>1, <2>3, TimeAssumption DEF HandleGraftDirect, HandleGraftRefused
  <2>4. ASSUME NEW t \in Topics, NEW subscribe, HandleSubscription(p, t, subscribe) PROVE Goal
    BY <1>0, <2>4 DEF HandleSubscription, meshVars
  <2>5. ASSUME NEW t \in Topics, HandleGraftAccepted(p, t) PROVE Goal
    BY <1>0, <2>5 DEF HandleGraftAccepted
  <2>6. ASSUME NEW ts, HandlePrune(p, ts) PROVE Goal
    BY <2>1, <2>6 DEF HandlePrune
  <2>7. CASE HandlePruneGoesOn(p)
    BY <2>1, <2>7 DEF HandlePruneGoesOn
  <2>8. CASE HandlePruneFails(p)
    BY <1>0, <2>8 DEF HandlePruneFails, meshVars
  <2> QED
    BY <2>2, <2>3, <2>4, <2>5, <2>6, <2>7, <2>8
<1>4. CASE AppStep
  <2>1. PICK t \in Topics : Join(t) \/ Leave(t) \/ Publish(t)
    BY <1>4 DEF AppStep
  <2>2. CASE Join(t)
    BY <1>0, <2>2 DEF Join
  <2>3. CASE Leave(t)
    BY <1>1, <2>3, TimeAssumption DEF Leave
  <2>4. CASE Publish(t)
    BY <1>0, <2>4 DEF Publish, meshVars
  <2> QED
    BY <2>1, <2>2, <2>3, <2>4
<1>5. CASE HeartbeatStep
  <2>1. CASE Heartbeat
    BY <2>1, ClearedTyped, ClearedBook, MaintainBook DEF Heartbeat
  <2>2. CASE HeartbeatDials
    BY <2>2, ClearedBook DEF HeartbeatDials, BackoffBook, TypeOK
  <2>3. CASE DirectDialed
    <3>1. backoff \in [Topics -> SUBSET Peers] /\ Maintain(backoff, ticks)
      BY <2>3 DEF DirectDialed, TypeOK
    <3> QED
      BY <3>1, MaintainBook DEF BackoffBook
  <2>4. CASE DirectDialFails
    BY <1>0, <2>4 DEF DirectDialFails, meshVars
  <2>5. ASSUME NEW p \in Peers, SendPrune(p) PROVE Goal
    BY <1>1, <2>5, TimeAssumption DEF SendPrune
  <2>6. CASE SendPruneFails
    BY <1>0, <2>6 DEF SendPruneFails, meshVars
  <2> QED
    BY <1>5, <2>1, <2>2, <2>3, <2>4, <2>5, <2>6 DEF HeartbeatStep
<1>6. ASSUME NEW p \in Peers, NEW s \in Scores, ScoreChanges(p, s) PROVE Goal
  BY <1>0, <1>6 DEF ScoreChanges, meshVars
<1>7. CASE UNCHANGED vars
  BY <1>0, <1>7 DEF vars, meshVars
<1> QED
  BY <1>2, <1>3, <1>4, <1>5, <1>6, <1>7 DEF Next

LEMMA TickBook == ASSUME TypeOK, BackoffBook, Tick PROVE BackoffBook'
BY TimeAssumption DEF TypeOK, BackoffBook, Tick, Larger, Floor

LEMMA BackoffBooked == Spec => [](TypeOK /\ BackoffBook)
<1>1. Init => BackoffBook
  BY TimeAssumption DEF Init, BackoffBook, Floor
<1>2. TypeOK /\ BackoffBook /\ [Next]_vars => BackoffBook'
  BY BackoffGrows, TickBook
<1> QED
  BY <1>1, <1>2, TypeCorrect, PTL DEF Spec

(* Whatever step puts a peer into a mesh: it is not a direct peer, its     *)
(* score is not negative, no time is left of its backoff, and it was known *)
(* to the router, as the sender of the RPC at hand, as a subscriber or     *)
(* from the fanout.                                                        *)
LEMMA NewMeshPeer ==
  ASSUME TypeOK, BackoffBook, [Next]_vars, NEW t \in Topics, NEW p \in mesh'[t] \ mesh[t]
  PROVE  /\ p \notin Direct
         /\ score[p] >= 0
         /\ left[t][p] <= 0
         /\ Heard(p) \/ p \in topics[t] \/ p \in fanout[t]
         /\ peers' = peers
         /\ t \in joined'
<1> DEFINE Goal == /\ p \notin Direct
                   /\ score[p] >= 0
                   /\ left[t][p] <= 0
                   /\ Heard(p) \/ p \in topics[t] \/ p \in fanout[t]
                   /\ peers' = peers
                   /\ t \in joined'
<1>0. ~(mesh' = mesh)
  OBVIOUS
<1>1. ASSUME NEW cleared \in [Topics -> SUBSET Peers], NEW tick, Maintain(cleared, tick),
             \A tt \in Topics, q \in Peers : left[tt][q] > 0 => q \in cleared[tt]
      PROVE  Goal
  <2>1. mesh' \in [Topics -> SUBSET Peers]
        /\ (IF t \in joined THEN mesh'[t] \in Maintained(t, cleared, tick) ELSE mesh'[t] = {})
        /\ peers' = peers /\ joined' = joined
    BY <1>1 DEF Maintain, conn
  <2>2. p \in Candidates(t, cleared) /\ t \in joined
    BY <2>1, MaintainedFromCandidates
  <2>3. p \in Peers /\ p \notin Direct /\ score[p] >= 0 /\ p \in topics[t] /\ p \notin cleared[t]
    BY <2>1, <2>2 DEF Candidates, Reachable
  <2>4. left[t][p] \in Int
    BY <2>3 DEF TypeOK
  <2> QED
    BY <1>1, <2>1, <2>3, <2>4
<1>2. CASE ConnectionStep
  BY <1>0, <1>2 DEF TypeOK, ConnectionStep, Connect, OutboundStreamOpens, OutboundStreamFails,
                    Disconnect, LateRpcEnds, meshVars
<1>3. CASE RpcStep
  <2>1. PICK q \in Peers :
          \/ \E u \in Topics : \/ \E subscribe \in BOOLEAN : HandleSubscription(q, u, subscribe)
                             \/ HandleGraftDirect(q, u)
                             \/ HandleGraftRefused(q, u)
                             \/ HandleGraftAccepted(q, u)
          \/ \E ts \in PruneLists : HandlePrune(q, ts)
          \/ HandlePruneGoesOn(q)
          \/ HandlePruneFails(q)
    BY <1>3 DEF RpcStep
  <2>2. ASSUME NEW u \in Topics, HandleGraftAccepted(q, u) PROVE Goal
    <3>1. u = t /\ p = q
      BY <2>2 DEF HandleGraftAccepted, TypeOK
    <3>2. p \in Peers /\ score[p] \in Int /\ left[t][p] \in Int
      <4>1. p \in Peers
        BY <3>1
      <4>2. score[p] \in Scores /\ left[t][p] \in Int
        BY <4>1 DEF TypeOK
      <4> QED
        BY <4>1, <4>2, PeerAssumption
    <3>3. ~BackedOff(p, t) /\ ~(score[p] < 0)
      BY <2>2, <3>1 DEF HandleGraftAccepted, GraftRefused
    <3>4. score[p] >= 0
      BY <3>2, <3>3
    <3>5. left[t][p] <= 0
      BY <3>2, <3>3 DEF BackedOff, BackoffBook
    <3> QED
      BY <2>2, <3>1, <3>4, <3>5 DEF HandleGraftAccepted, Graftable, conn
  <2>3. ASSUME NEW u \in Topics,
               HandleGraftDirect(q, u) \/ HandleGraftRefused(q, u)
                 \/ \E subscribe \in BOOLEAN : HandleSubscription(q, u, subscribe)
        PROVE  Goal
    BY <1>0, <2>3 DEF HandleGraftDirect, HandleGraftRefused, HandleSubscription, meshVars
  <2>4. ASSUME NEW ts, HandlePruneEntry(q, ts) PROVE FALSE
    <3>1. mesh' = mesh \/ mesh' = [mesh EXCEPT ![Head(ts)] = @ \ {q}]
      BY <2>4 DEF HandlePruneEntry, meshVars
    <3>2. mesh'[t] \subseteq mesh[t]
      BY <3>1 DEF TypeOK
    <3> QED
      BY <3>2
  <2>5. ASSUME HandlePruneFails(q) PROVE FALSE
    BY <1>0, <2>5 DEF HandlePruneFails, meshVars
  <2> QED
    BY <2>1, <2>2, <2>3, <2>4, <2>5 DEF HandlePrune, HandlePruneGoesOn
<1>4. CASE AppStep
  <2>1. PICK u \in Topics : Join(u) \/ Leave(u) \/ Publish(u)
    BY <1>4 DEF AppStep
  <2>2. CASE Join(u)
    <3>1. u = t
      BY <2>2 DEF Join, TypeOK
    <3>2. MeshEligible(p, t) /\ (p \in fanout[t] \/ p \in topics[t]) /\ peers' = peers
          /\ t \in joined'
      BY <2>2, <3>1 DEF Join, SomeOf, Reachable, TypeOK, conn
    <3>3. p \in Peers /\ left[t][p] \in Int
      BY <3>2 DEF TypeOK
    <3> QED
      BY <3>2, <3>3 DEF MeshEligible, BackoffBook
  <2>3. CASE Leave(u)
    BY <2>3 DEF Leave, TypeOK
  <2>4. CASE Publish(u)
    BY <1>0, <2>4 DEF Publish, meshVars
  <2> QED
    BY <2>1, <2>2, <2>3, <2>4
<1>5. CASE HeartbeatStep
  <2>1. CASE Heartbeat
    BY <1>1, <2>1, ClearedTyped, ClearedBook DEF Heartbeat
  <2>2. CASE DirectDialed
    <3>1. backoff \in [Topics -> SUBSET Peers] /\ Maintain(backoff, ticks)
      BY <2>2 DEF DirectDialed, TypeOK
    <3>2. \A u \in Topics, q \in Peers : left[u][q] > 0 => q \in backoff[u]
      BY DEF BackoffBook
    <3> QED
      BY <1>1, <3>1, <3>2
  <2>3. CASE HeartbeatDials \/ DirectDialFails \/ SendPruneFails \/ \E q \in Peers : SendPrune(q)
    BY <1>0, <2>3 DEF HeartbeatDials, DirectDialFails, SendPruneFails, SendPrune, meshVars
  <2> QED
    BY <1>5, <2>1, <2>2, <2>3 DEF HeartbeatStep
<1>6. CASE Tick \/ (\E q \in Peers, s \in Scores : ScoreChanges(q, s)) \/ UNCHANGED vars
  BY <1>0, <1>6 DEF Tick, ScoreChanges, vars, meshVars
<1> QED
  BY <1>2, <1>3, <1>4, <1>5, <1>6 DEF Next

-----------------------------------------------------------------------------

(* No step ever puts a direct peer into a mesh. *)
THEOREM DirectStaysOut == Spec => []NoDirectInMesh
<1>1. Init => NoDirectInMesh
  BY DEF Init, NoDirectInMesh
<1>2. TypeOK /\ BackoffBook /\ NoDirectInMesh /\ [Next]_vars => NoDirectInMesh'
  BY NewMeshPeer DEF NoDirectInMesh
<1> QED
  BY <1>1, <1>2, BackoffBooked, PTL DEF Spec

(* When the RPCs of direct peers only outlive their sender, removePeer     *)
(* leaves no trace of any other peer in the subscriptions, the fanout and  *)
(* the meshes, and nothing brings it back.                                 *)
Near == peers \cup Direct
Connected ==
  /\ late \subseteq Direct
  /\ \A t \in Topics : topics[t] \cup fanout[t] \cup mesh[t] \subseteq Near

LEMMA MaintainConnected ==
  ASSUME TypeOK, Connected, NEW cleared, NEW tick, Maintain(cleared, tick)
  PROVE  /\ late' = late /\ peers' = peers /\ topics' = topics
         /\ \A t \in Topics : fanout'[t] \subseteq Near
<1>1. late' = late /\ peers' = peers /\ topics' = topics
  BY DEF Maintain, conn
<1>2. ASSUME NEW t \in Topics PROVE fanout'[t] \subseteq topics[t]
  <2>1. IF t \in fanoutTopics' THEN fanout'[t] \in FanoutMaintained(t) ELSE fanout'[t] = {}
    BY DEF Maintain
  <2>2. \A f \in FanoutMaintained(t) : f \subseteq topics[t]
    BY DEF FanoutMaintained, SomeOf, Reachable
  <2> QED
    BY <2>1, <2>2
<1> QED
  BY <1>1, <1>2 DEF Connected, Near

(* Where the RPCs of direct peers only are handled after removePeer, a     *)
(* mesh holds connected peers only: no order of connections, RPCs, calls   *)
(* and heartbeats leaves or puts a removed peer there.                     *)
THEOREM MeshStaysConnected == ASSUME LateRpcs \subseteq Direct PROVE Spec => []MeshIsConnected
<1>1. Init => Connected
  BY DEF Init, Connected
<1>2. TypeOK /\ BackoffBook /\ Connected /\ [Next]_vars => Connected'
  <2> SUFFICES ASSUME TypeOK, BackoffBook, Connected, [Next]_vars
               PROVE  Connected'
    OBVIOUS
  <2> DEFINE Others == /\ late' \subseteq Direct
                       /\ \A t \in Topics : topics'[t] \cup fanout'[t] \subseteq Near'
  <2>1. CASE \E p \in Peers : Disconnect(p)
    BY <2>1 DEF Disconnect, Connected, Near, TypeOK
  <2>2. CASE Others /\ peers \subseteq peers'
    <3>1. ASSUME NEW t \in Topics, NEW p \in mesh'[t] PROVE p \in Near'
      <4>1. CASE p \in mesh[t]
        BY <2>2, <4>1 DEF Connected, Near
      <4>2. CASE p \notin mesh[t]
        BY <2>2, <3>1, <4>2, NewMeshPeer DEF Connected, Near, Heard
      <4> QED
        BY <4>1, <4>2
    <3> QED
      BY <2>2, <3>1 DEF Connected
  <2>3. CASE ConnectionStep
    BY <2>1, <2>2, <2>3 DEF ConnectionStep, Connect, OutboundStreamOpens, OutboundStreamFails,
                            LateRpcEnds, Connected, Near, fanVars
  <2>4. CASE RpcStep
    <3>1. peers' = peers /\ late' = late /\ fanout' = fanout
      BY <2>4 DEF RpcStep, HandleSubscription, HandleGraftDirect, HandleGraftRefused,
                  HandleGraftAccepted, HandlePrune, HandlePruneGoesOn, HandlePruneFails, conn, fanVars
    <3>2. \/ topics' = topics
          \/ \E p \in Peers, t \in Topics, subscribe \in BOOLEAN : HandleSubscription(p, t, subscribe)
      BY <2>4 DEF RpcStep, HandleGraftDirect, HandleGraftRefused,
                  HandleGraftAccepted, HandlePrune, HandlePruneGoesOn, HandlePruneFails
    <3>3. ASSUME NEW p \in Peers, NEW t \in Topics, NEW subscribe \in BOOLEAN,
                 HandleSubscription(p, t, subscribe)
          PROVE  \A u \in Topics : topics'[u] \subseteq topics[u] \cup {p} /\ p \in Near
      BY <3>3 DEF HandleSubscription, Heard, Connected, Near, TypeOK
    <3>4. \A t \in Topics : topics'[t] \subseteq Near
      BY <3>2, <3>3 DEF Connected
    <3> QED
      BY <2>2, <3>1, <3>4 DEF Connected, Near
  <2>5. CASE AppStep
    <3>1. PICK t \in Topics : Join(t) \/ Leave(t) \/ Publish(t)
      BY <2>5 DEF AppStep
    <3>2. peers' = peers /\ late' = late /\ topics' = topics
      BY <3>1 DEF Join, Leave, Publish, conn
    <3>3. CASE Join(t) \/ Leave(t)
      <4>1. \A u \in Topics : fanout'[u] \subseteq fanout[u]
        BY <3>3 DEF Join, Leave, fanVars, TypeOK
      <4> QED
        BY <2>2, <3>2, <4>1 DEF Connected, Near
    <3>4. CASE Publish(t)
      <4>1. PICK new : /\ new = fanout[t] \/ new \subseteq topics[t]
                       /\ fanout' = [fanout EXCEPT ![t] = new]
        BY <3>4 DEF Publish, SomeOf, Reachable
      <4>2. \A u \in Topics : fanout'[u] \subseteq fanout[u] \cup topics[u]
        BY <4>1 DEF TypeOK
      <4> QED
        BY <2>2, <3>2, <4>2 DEF Connected, Near
    <3> QED
      BY <3>1, <3>3, <3>4
  <2>6. CASE HeartbeatStep
    <3>1. ASSUME NEW cleared, NEW tick, Maintain(cleared, tick) PROVE Connected'
      BY <2>2, <3>1, MaintainConnected DEF Connected, Near
    <3>2. CASE Heartbeat \/ DirectDialed
      BY <3>1, <3>2 DEF Heartbeat, DirectDialed
    <3>3. CASE HeartbeatDials \/ DirectDialFails \/ SendPruneFails \/ \E q \in Peers : SendPrune(q)
      BY <2>2, <3>3 DEF HeartbeatDials, DirectDialFails, SendPruneFails, SendPrune, Connected, Near,
                        conn, fanVars
    <3> QED
      BY <2>6, <3>2, <3>3 DEF HeartbeatStep
  <2>7. CASE Tick \/ (\E q \in Peers, s \in Scores : ScoreChanges(q, s)) \/ UNCHANGED vars
    BY <2>2, <2>7 DEF Tick, ScoreChanges, vars, conn, fanVars, Connected, Near
  <2> QED
    BY <2>3, <2>4, <2>5, <2>6, <2>7 DEF Next
<1>3. Connected /\ NoDirectInMesh => MeshIsConnected
  BY DEF Connected, Near, NoDirectInMesh, MeshIsConnected
<1> QED
  BY <1>1, <1>2, <1>3, BackoffBooked, DirectStaysOut, PTL DEF Spec

-----------------------------------------------------------------------------

(* A topic we have not joined has no mesh peers. *)
NoIdleMesh == \A t \in Topics : mesh[t] # {} => t \in joined

(* Only leave takes a topic off the joined ones, and it empties its mesh.  *)
LEMMA LeftTopic ==
  ASSUME TypeOK, [Next]_vars, NEW t \in joined \ joined'
  PROVE  Leave(t)
<1>1. CASE ConnectionStep
  BY <1>1 DEF ConnectionStep, Connect, OutboundStreamOpens, OutboundStreamFails,
              Disconnect, LateRpcEnds
<1>2. CASE RpcStep
  BY <1>2 DEF RpcStep, HandleSubscription, HandleGraftDirect, HandleGraftRefused,
              HandleGraftAccepted, HandlePrune, HandlePruneGoesOn, HandlePruneFails
<1>3. CASE AppStep
  BY <1>3 DEF AppStep, Join, Leave, Publish
<1>4. CASE HeartbeatStep
  BY <1>4 DEF HeartbeatStep, Heartbeat, HeartbeatDials, DirectDialed, DirectDialFails,
              SendPrune, SendPruneFails, Maintain
<1>5. CASE Tick \/ (\E q \in Peers, s \in Scores : ScoreChanges(q, s)) \/ UNCHANGED vars
  BY <1>5 DEF Tick, ScoreChanges, vars
<1> QED
  BY <1>1, <1>2, <1>3, <1>4, <1>5 DEF Next

LEMMA IdleMeshIsEmpty == Spec => [](TypeOK /\ BackoffBook /\ NoIdleMesh)
<1>1. Init => NoIdleMesh
  BY DEF Init, NoIdleMesh
<1>2. TypeOK /\ BackoffBook /\ NoIdleMesh /\ [Next]_vars => NoIdleMesh'
  <2> SUFFICES ASSUME TypeOK, BackoffBook, NoIdleMesh, [Next]_vars,
                      NEW t \in Topics, NEW p \in mesh'[t]
               PROVE  t \in joined'
    BY DEF NoIdleMesh
  <2>1. CASE p \notin mesh[t]
    BY <2>1, NewMeshPeer
  <2>2. CASE p \in mesh[t] /\ t \notin joined'
    <3>1. t \in joined
      BY <2>2 DEF NoIdleMesh
    <3>2. Leave(t)
      BY <2>2, <3>1, LeftTopic
    <3> QED
      BY <3>2 DEF Leave, TypeOK
  <2> QED
    BY <2>1, <2>2
<1> QED
  BY <1>1, <1>2, BackoffBooked, PTL DEF Spec

-----------------------------------------------------------------------------

(* A peer that a step takes out of a mesh is gone, or a v1.0 peer of a     *)
(* topic being left, or backed off for at least MinQuiet.                  *)
LEMMA LeavingMeshPeer ==
  ASSUME TypeOK, BackoffBook, NoIdleMesh, [Next]_vars,
         NEW t \in Topics, NEW p \in mesh[t] \ mesh'[t]
  PROVE  p \notin peers' \/ (p \in V10 /\ t \notin joined') \/ left'[t][p] >= MinQuiet
<1> DEFINE Goal == p \notin peers' \/ (p \in V10 /\ t \notin joined') \/ left'[t][p] >= MinQuiet
<1>0. ~(mesh' = mesh) /\ p \in Peers
  BY DEF TypeOK
<1>1. ASSUME NEW cleared \in [Topics -> SUBSET Peers], NEW tick, Maintain(cleared, tick),
             \A tt \in Topics, q \in Peers : left[tt][q] > 0 => q \in cleared[tt]
      PROVE  Goal
  <2>1. left'[t][p] >= PruneBackoff
    BY <1>1, MaintainBook
  <2>2. left'[t][p] \in Int
    BY <1>0, <1>1, MaintainTyped
  <2> QED
    BY <2>1, <2>2, TimeAssumption
<1>2. CASE ConnectionStep
  <2>1. PICK q \in Peers : Disconnect(q)
    BY <1>0, <1>2 DEF ConnectionStep, Connect, OutboundStreamOpens, OutboundStreamFails,
                      LateRpcEnds, meshVars
  <2> QED
    BY <1>0, <2>1 DEF Disconnect, TypeOK
<1>3. CASE RpcStep
  <2>1. ASSUME NEW q \in Peers, NEW ts, HandlePruneEntry(q, ts) PROVE Goal
    <3>1. Head(ts) \in joined /\ mesh' = [mesh EXCEPT ![Head(ts)] = @ \ {q}]
      BY <1>0, <2>1 DEF HandlePruneEntry, meshVars
    <3>2. t = Head(ts) /\ p = q
      BY <3>1 DEF TypeOK
    <3>3. PICK b \in PeerBackoffs :
            DoAddBackoff({<<t, p>>}, IF b > 0 THEN b ELSE PruneBackoff)
      BY <2>1, <3>1, <3>2 DEF HandlePruneEntry
    <3>4. (IF b > 0 THEN b ELSE PruneBackoff) \in Int
          /\ (IF b > 0 THEN b ELSE PruneBackoff) >= MinQuiet
      BY TimeAssumption
    <3>5. left'[t][p] >= (IF b > 0 THEN b ELSE PruneBackoff) /\ left'[t][p] \in Int
      BY <1>0, <3>3, <3>4, DoAddBackoffBook, BackoffTyped
    <3> QED
      BY <3>4, <3>5, TimeAssumption
  <2>2. PICK q \in Peers :
          \/ \E u \in Topics : \/ \E subscribe \in BOOLEAN : HandleSubscription(q, u, subscribe)
                             \/ HandleGraftDirect(q, u)
                             \/ HandleGraftRefused(q, u)
                             \/ HandleGraftAccepted(q, u)
          \/ \E ts \in PruneLists : HandlePrune(q, ts)
          \/ HandlePruneGoesOn(q)
          \/ HandlePruneFails(q)
    BY <1>3 DEF RpcStep
  <2>3. ASSUME NEW u \in Topics, HandleGraftAccepted(q, u) PROVE FALSE
    BY <2>3 DEF HandleGraftAccepted, TypeOK
  <2>4. ASSUME NEW u \in Topics,
               HandleGraftDirect(q, u) \/ HandleGraftRefused(q, u)
                 \/ \E subscribe \in BOOLEAN : HandleSubscription(q, u, subscribe)
        PROVE  FALSE
    BY <1>0, <2>4 DEF HandleGraftDirect, HandleGraftRefused, HandleSubscription, meshVars
  <2>5. ASSUME HandlePruneFails(q) PROVE FALSE
    BY <1>0, <2>5 DEF HandlePruneFails, meshVars
  <2> QED
    BY <2>1, <2>2, <2>3, <2>4, <2>5 DEF HandlePrune, HandlePruneGoesOn
<1>4. CASE AppStep
  <2>1. PICK u \in Topics : Join(u) \/ Leave(u) \/ Publish(u)
    BY <1>4 DEF AppStep
  <2>2. CASE Join(u)
    <3>1. u = t
      BY <2>2 DEF Join, TypeOK
    <3> QED
      BY <2>2, <3>1 DEF Join, NoIdleMesh
  <2>3. CASE Leave(u)
    <3>1. u = t /\ t \notin joined'
      BY <2>3 DEF Leave, TypeOK
    <3>2. CASE SpeaksV10(p)
      BY <3>1, <3>2 DEF SpeaksV10
    <3>3. CASE ~SpeaksV10(p)
      <4>1. left'[t][p] >= UnsubBackoff /\ left'[t][p] \in Int
        <5> DEFINE dropped == {<<t, x>> : x \in {y \in mesh[t] : ~SpeaksV10(y)}}
        <5>1. DoAddBackoff(dropped, UnsubBackoff) /\ <<t, p>> \in dropped /\ UnsubBackoff \in Int
          BY <2>3, <3>1, <3>3, TimeAssumption DEF Leave
        <5> HIDE DEF dropped
        <5> QED
          BY <1>0, <5>1, DoAddBackoffBook, BackoffTyped
      <4> QED
        BY <4>1, TimeAssumption
    <3> QED
      BY <3>2, <3>3
  <2>4. CASE Publish(u)
    BY <1>0, <2>4 DEF Publish, meshVars
  <2> QED
    BY <2>1, <2>2, <2>3, <2>4
<1>5. CASE HeartbeatStep
  <2>1. CASE Heartbeat
    BY <1>1, <2>1, ClearedTyped, ClearedBook DEF Heartbeat
  <2>2. CASE DirectDialed
    <3>1. backoff \in [Topics -> SUBSET Peers] /\ Maintain(backoff, ticks)
      BY <2>2 DEF DirectDialed, TypeOK
    <3>2. \A u \in Topics, q \in Peers : left[u][q] > 0 => q \in backoff[u]
      BY DEF BackoffBook
    <3> QED
      BY <1>1, <3>1, <3>2
  <2>3. CASE HeartbeatDials \/ DirectDialFails \/ SendPruneFails \/ \E q \in Peers : SendPrune(q)
    BY <1>0, <2>3 DEF HeartbeatDials, DirectDialFails, SendPruneFails, SendPrune, meshVars
  <2> QED
    BY <1>5, <2>1, <2>2, <2>3 DEF HeartbeatStep
<1>6. CASE Tick \/ (\E q \in Peers, s \in Scores : ScoreChanges(q, s)) \/ UNCHANGED vars
  BY <1>0, <1>6 DEF Tick, ScoreChanges, vars, meshVars
<1> QED
  BY <1>2, <1>3, <1>4, <1>5, <1>6 DEF Next

(* The router implements MeshLinks: every handler, heartbeat step and app  *)
(* call is a Change of the abstract links, a clock tick is an Elapse.      *)
THEOREM RouterImplementsLinks == Spec => BackoffHonoured
<1>1. Init => Links!Init
  <2>1. Larger(Floor, 0) = 0
    BY TimeAssumption DEF Floor, Larger
  <2> QED
    BY <2>1 DEF Init, Links!Init
<1>2. TypeOK /\ BackoffBook /\ NoIdleMesh /\ [Next]_vars => [Links!Next]_(Links!linkVars)
  <2> SUFFICES ASSUME TypeOK, BackoffBook, NoIdleMesh, [Next]_vars
               PROVE  Links!Next \/ UNCHANGED Links!linkVars
    OBVIOUS
  <2>1. CASE Tick
    <3>1. \A t \in Topics, p \in Peers :
            Larger(left'[t][p], 0) = IF Larger(left[t][p], 0) > 0 THEN Larger(left[t][p], 0) - 1 ELSE 0
      BY <2>1, TimeAssumption DEF Tick, TypeOK, Larger, Floor
    <3>2. Links!Elapse
      BY <2>1, <3>1 DEF Links!Elapse, Tick, conn
    <3> QED
      BY <3>2 DEF Links!Next
  <2>2. CASE ~Tick
    <3>1. left' \in [Topics -> [Peers -> Int]]
      BY TypeCorrectStep DEF TypeOK
    <3>2. \A t \in Topics, p \in Peers : left'[t][p] >= left[t][p]
      BY <2>2, BackoffGrows
    <3>3. ASSUME NEW t \in Topics, NEW p \in Peers
          PROVE  /\ Links!ComesUp(p, t) => p \notin Direct /\ Larger(left[t][p], 0) = 0
                 /\ Links!GoesDown(p, t) => Links!Excused(p, t) \/ Larger(left'[t][p], 0) >= MinQuiet
                 /\ Larger(left'[t][p], 0) >= Larger(left[t][p], 0)
      <4>1. left[t][p] \in Int /\ left'[t][p] \in Int /\ left'[t][p] >= left[t][p]
        BY <3>1, <3>2 DEF TypeOK
      <4>2. Links!ComesUp(p, t) => p \notin Direct /\ Larger(left[t][p], 0) = 0
        BY <4>1, NewMeshPeer DEF Links!ComesUp, Larger
      <4>3. Links!GoesDown(p, t) => Links!Excused(p, t) \/ Larger(left'[t][p], 0) >= MinQuiet
        BY <4>1, LeavingMeshPeer, TimeAssumption DEF Links!GoesDown, Links!Excused, Larger
      <4>4. Larger(left'[t][p], 0) >= Larger(left[t][p], 0)
        BY <4>1 DEF Larger
      <4> QED
        BY <4>2, <4>3, <4>4
    <3>4. Links!Change
      BY <3>3 DEF Links!Change
    <3> QED
      BY <3>4 DEF Links!Next
  <2> QED
    BY <2>1, <2>2
<1> QED
  BY <1>1, <1>2, IdleMeshIsEmpty, PTL DEF Spec, BackoffHonoured, Links!Spec
=============================================================================
