---------------------------- MODULE PeerScore_proofs ----------------------------
(***************************************************************************)
(* Proofs about ScoreKeeping: the stats of peers keep their type, and what *)
(* PeerScore believes of connections, addresses, mesh and retention is     *)
(* what the router did.  And about DeliveryLedger: how often each sender   *)
(* of a message is credited and charged.                                   *)
(***************************************************************************)
EXTENDS ScoreKeeping, DeliveryLedger, TLAPS

(* ------------------------- transformers of stats ------------------------ *)

(* The bounds and caps are numbers.                                        *)
LEMMA Bounds ==
  /\ RetainScore \in Nat /\ Threshold \in Nat /\ Activation \in Nat
  /\ FirstCap \in Nat /\ MeshCap \in Nat /\ MaxPenalty \in Nat /\ MaxMeshTime \in Nat
BY ScoreAssumption

(* A new peer's stats, whatever its addresses, are stats.                  *)
LEMMA FreshStats ==
  ASSUME NEW ips \in SUBSET IPs
  PROVE  Fresh \in Stats /\ [Fresh EXCEPT !.knownIPs = ips] \in Stats
<1>1. 0 \in 0..RetainScore /\ 0 \in 0..MaxMeshTime /\ 0 \in 0..FirstCap /\ 0 \in 0..MeshCap /\ 0 \in 0..MaxPenalty
  BY Bounds
<1> QED BY <1>1, ZenonT(60) DEF Fresh, Stats

(* A deficit is squared and never negative; it is nonzero only while the   *)
(* delivery rate counts.                                                   *)
LEMMA DeficitNat ==
  ASSUME NEW s \in Stats
  PROVE  Deficit(s) \in Nat /\ (Deficit(s) > 0 => s.active)
<1>1. \A n \in Nat : n * n \in Nat
  OBVIOUS
<1>2. s.mesh \in Nat /\ Threshold \in Nat
  BY Bounds DEF Stats
<1>3. CASE s.active /\ s.mesh < Threshold
  <2>1. Threshold - s.mesh \in Nat
    BY <1>2, <1>3
  <2> QED BY <1>1, <1>3, <2>1 DEF Deficit
<1>4. CASE ~(s.active /\ s.mesh < Threshold)
  BY <1>4 DEF Deficit
<1> QED BY <1>3, <1>4

(* Being counted, credited or grafted keeps stats within their caps.       *)
LEMMA MarkedStats ==
  ASSUME NEW s \in Stats
  PROVE  Counted(s) \in Stats /\ FirstMarked(s) \in Stats /\ Grafted(s) \in Stats
<1>1. Capped(s.mesh + 1, MeshCap) \in 0..MeshCap /\ Capped(s.first + 1, FirstCap) \in 0..FirstCap
  BY Bounds DEF Capped, Stats
<1>2. Counted(s) \in Stats /\ Counted(s).first = s.first
  BY <1>1 DEF Counted, Stats
<1>3. FirstMarked(s) \in Stats
  BY <1>1, <1>2 DEF FirstMarked, Stats
<1>4. Grafted(s) \in Stats
  <2>1. 0 \in 0..MaxMeshTime
    BY Bounds
  <2> QED BY <2>1, ZenonT(60) DEF Grafted, Stats
<1> QED BY <1>2, <1>3, <1>4

(* Penalties keep stats stats as long as there is room for them.           *)
LEMMA PenalisedStats ==
  ASSUME NEW s \in Stats
  PROVE  /\ \A n \in 0..2 : Penalised(s, n).penalty <= MaxPenalty => Penalised(s, n) \in Stats
         /\ Pruned(s).penalty <= MaxPenalty => Pruned(s) \in Stats
         /\ Departed(s).penalty <= MaxPenalty => Departed(s) \in Stats
         /\ \A n \in 0..2 : Refused(s, n).penalty <= MaxPenalty => Refused(s, n) \in Stats
<1>1. Deficit(s) \in Nat
  BY DeficitNat
<1>2. s.penalty \in Nat /\ MaxPenalty \in Nat
  BY Bounds DEF Stats
<1>3. \A n \in 0..2 : Penalised(s, n).penalty <= MaxPenalty => Penalised(s, n) \in Stats
  BY <1>2 DEF Penalised, Stats
<1>4. 0 \in 0..MaxMeshTime /\ 0 \in 0..FirstCap /\ RetainScore \in 0..RetainScore
  BY Bounds
<1>5. ASSUME Pruned(s).penalty <= MaxPenalty PROVE Pruned(s) \in Stats
  <2>1. Pruned(s).penalty = s.penalty + Deficit(s)
    BY DEF Pruned, Stats
  <2>2. s.penalty + Deficit(s) \in 0..MaxPenalty
    BY <1>1, <1>2, <1>5, <2>1
  <2> QED BY <1>4, <2>2, ZenonT(60) DEF Pruned, Stats
<1>6. ASSUME Departed(s).penalty <= MaxPenalty PROVE Departed(s) \in Stats
  <2> DEFINE charge == IF s.inMesh THEN Deficit(s) ELSE 0
  <2>1. Departed(s).penalty = s.penalty + charge
    BY DEF Departed, Stats
  <2>2. s.penalty + charge \in 0..MaxPenalty
    BY <1>1, <1>2, <1>6, <2>1
  <2> QED BY <1>4, <2>2, ZenonT(60) DEF Departed, Stats
<1>7. ASSUME NEW n \in 0..2, Refused(s, n).penalty <= MaxPenalty
      PROVE  Refused(s, n) \in Stats
  <2> DEFINE t == [s EXCEPT !.penalty = @ + n]
  <2>1. Deficit(t) = Deficit(s) /\ t.penalty = s.penalty + n
    BY DEF Deficit, Stats
  <2>2. Refused(s, n).penalty = t.penalty + Deficit(t)
    BY DEF Refused, Penalised, Pruned, Stats
  <2>3. t.penalty + Deficit(t) \in 0..MaxPenalty
    BY <1>1, <1>2, <1>7, <2>1, <2>2
  <2>4. t \in [connected : BOOLEAN, left : 0..RetainScore, knownIPs : SUBSET IPs,
                inMesh : BOOLEAN, meshTime : 0..MaxMeshTime, active : BOOLEAN,
                first : 0..FirstCap, mesh : 0..MeshCap, penalty : Int]
    BY <1>2 DEF Stats
  <2> HIDE DEF t
  <2>5. Pruned(t) \in Stats
    BY <1>4, <2>3, <2>4, ZenonT(60) DEF Pruned, Stats
  <2> QED BY <2>5 DEF t, Refused, Penalised
<1> QED BY <1>3, <1>5, <1>6, <1>7

(* Decay and the passing of time keep stats stats.                         *)
LEMMA RefreshedStats ==
  ASSUME NEW s \in Stats, s.connected \/ s.left # 0
  PROVE  Refreshed(s) \in Stats
<1>1. \A cap \in Nat : \A n \in 0..cap : Decay(n) \in 0..cap
  BY DEF Decay
<1>2. Capped(s.meshTime + 1, MaxMeshTime) \in 0..MaxMeshTime
  BY Bounds DEF Capped, Stats
<1>3. Decay(s.first) \in 0..FirstCap /\ Decay(s.mesh) \in 0..MeshCap /\ Decay(s.penalty) \in 0..MaxPenalty
  BY <1>1, Bounds DEF Stats
<1>4. CASE ~s.connected
  BY <1>4, Bounds DEF Refreshed, Stats
<1>5. CASE s.connected
  BY <1>2, <1>3, <1>5, Bounds DEF Refreshed, Stats
<1> QED BY <1>4, <1>5

(* --------------------- what the transformers leave alone ---------------- *)

SameIdentity(s, t) == t.connected = s.connected /\ t.left = s.left /\ t.knownIPs = s.knownIPs
SameMesh(s, t) == t.inMesh = s.inMesh /\ t.active = s.active

(* Marks change neither who a peer is nor its mesh status.                 *)
LEMMA MarksKeep ==
  ASSUME NEW s \in Stats
  PROVE  /\ SameIdentity(s, Counted(s)) /\ SameMesh(s, Counted(s))
         /\ SameIdentity(s, FirstMarked(s)) /\ SameMesh(s, FirstMarked(s))
         /\ \A n : SameIdentity(s, Penalised(s, n)) /\ SameMesh(s, Penalised(s, n))
<1>1. SameIdentity(s, Counted(s)) /\ SameMesh(s, Counted(s))
  BY DEF SameIdentity, SameMesh, Counted, Stats
<1>2. Counted(s) \in Stats
  BY MarkedStats
<1>3. SameIdentity(Counted(s), FirstMarked(s)) /\ SameMesh(Counted(s), FirstMarked(s))
  BY <1>2 DEF SameIdentity, SameMesh, FirstMarked, Stats
<1>4. \A n : SameIdentity(s, Penalised(s, n)) /\ SameMesh(s, Penalised(s, n))
  BY DEF SameIdentity, SameMesh, Penalised, Stats
<1> QED BY <1>1, <1>3, <1>4 DEF SameIdentity, SameMesh

(* A graft and a PRUNE change the mesh status and not who a peer is.       *)
LEMMA MeshStatus ==
  ASSUME NEW s \in Stats
  PROVE  /\ SameIdentity(s, Grafted(s)) /\ Grafted(s).inMesh /\ ~Grafted(s).active
         /\ SameIdentity(s, Pruned(s)) /\ ~Pruned(s).inMesh /\ ~Pruned(s).active
         /\ \A n \in 0..2 : SameIdentity(s, Refused(s, n)) /\ ~Refused(s, n).inMesh /\ ~Refused(s, n).active
<1>1. SameIdentity(s, Grafted(s)) /\ Grafted(s).inMesh /\ ~Grafted(s).active
  BY DEF SameIdentity, Grafted, Stats
<1>2. SameIdentity(s, Pruned(s)) /\ ~Pruned(s).inMesh /\ ~Pruned(s).active
  BY DEF SameIdentity, Pruned, Stats
<1>3. ASSUME NEW n \in 0..2
      PROVE  SameIdentity(s, Refused(s, n)) /\ ~Refused(s, n).inMesh /\ ~Refused(s, n).active
  BY DEF SameIdentity, Refused, Penalised, Pruned, Stats
<1> QED BY <1>1, <1>2, <1>3

(* A retained peer keeps its addresses and is in no mesh.                  *)
LEMMA DepartedStatus ==
  ASSUME NEW s \in Stats
  PROVE  /\ Departed(s).knownIPs = s.knownIPs /\ Departed(s).left = RetainScore
         /\ ~Departed(s).connected /\ ~Departed(s).inMesh /\ ~Departed(s).active
BY DEF Departed, Stats

(* Time passes for retained peers, and for mesh peers.                     *)
LEMMA RefreshedStatus ==
  ASSUME NEW s \in Stats
  PROVE  /\ Refreshed(s).knownIPs = s.knownIPs /\ Refreshed(s).connected = s.connected
         /\ Refreshed(s).inMesh = s.inMesh
         /\ Refreshed(s).active => s.active \/ s.inMesh
         /\ ~s.connected => Refreshed(s).left = s.left - 1
<1>1. CASE ~s.connected
  BY <1>1 DEF Refreshed, Stats
<1>2. CASE s.connected
  BY <1>2 DEF Refreshed, Stats
<1> QED BY <1>1, <1>2

(* Marks of deliveries and penalties change the counters of those who are  *)
(* remembered and nothing else.                                            *)
Marked ==
  /\ UNCHANGED <<known, peerIPs, scoreCache, routing, records>>
  /\ stats' \in [Peers -> Stats]
  /\ \A p \in Peers \ known : stats'[p] = stats[p]
  /\ \A p \in known : SameIdentity(stats[p], stats'[p]) /\ SameMesh(stats[p], stats'[p])

(* Verdicts, duplicates and offences are marks.                            *)
LEMMA MarkingSteps ==
  ASSUME ScoreTypeOK, NEW p \in Peers, Delivery(p) \/ Rejection(p) \/ DuplicateOfValid(p) \/ Offence(p)
  PROVE  Marked
<1>a. stats \in [Peers -> Stats] /\ known \subseteq Peers
  BY DEF ScoreTypeOK
<1>b. \A s : SameIdentity(s, s) /\ SameMesh(s, s)
  BY DEF SameIdentity, SameMesh
<1>c. \A s \in Stats : Counted(s) \in Stats /\ FirstMarked(s) \in Stats
  BY MarkedStats
<1>d. \A s \in Stats, n \in 0..2 : Penalised(s, n).penalty <= MaxPenalty => Penalised(s, n) \in Stats
  BY PenalisedStats
<1>e. \A s \in Stats : /\ SameIdentity(s, Counted(s)) /\ SameMesh(s, Counted(s))
                       /\ SameIdentity(s, FirstMarked(s)) /\ SameMesh(s, FirstMarked(s))
                       /\ \A n : SameIdentity(s, Penalised(s, n)) /\ SameMesh(s, Penalised(s, n))
  BY MarksKeep
<1>1. CASE Delivery(p)
  <2>1. PICK others \in SUBSET known : DeliverMessage(p, others) /\ UNCHANGED <<routing, records>>
    BY <1>1 DEF Delivery
  <2>2. \A q \in Peers : stats'[q] = IF q \notin known THEN stats[q] ELSE IF q = p THEN FirstMarked(stats[q])
                                     ELSE IF q \in others THEN Counted(stats[q]) ELSE stats[q]
    BY <2>1 DEF DeliverMessage
  <2>3. stats' \in [Peers -> Stats]
    <3>1. stats' = [q \in Peers |-> stats'[q]]
      BY <2>1 DEF DeliverMessage
    <3> QED BY <1>a, <1>c, <2>2, <3>1
  <2> QED BY <1>a, <1>b, <1>e, <2>1, <2>2, <2>3 DEF DeliverMessage, Marked
<1>2. CASE Rejection(p)
  <2>1. PICK others \in SUBSET known : RejectMessage(p, others) /\ PenaltyRoom /\ UNCHANGED <<routing, records>>
    BY <1>2 DEF Rejection
  <2>2. \A q \in Peers : \E n \in 0..2 : stats'[q] = IF q \notin known THEN stats[q] ELSE Penalised(stats[q], n)
    BY <2>1 DEF RejectMessage
  <2>3. stats' \in [Peers -> Stats]
    <3>1. stats' = [q \in Peers |-> stats'[q]]
      BY <2>1 DEF RejectMessage
    <3>2. \A q \in Peers : stats'[q] \in Stats
      BY <1>a, <1>d, <2>1, <2>2 DEF PenaltyRoom
    <3> QED BY <3>1, <3>2
  <2> QED BY <1>a, <1>e, <2>1, <2>2, <2>3 DEF RejectMessage, Marked
<1>3. CASE DuplicateOfValid(p)
  <2>1. \A q \in Peers : stats'[q] = IF q \in {p} \cap known THEN Counted(stats[q]) ELSE stats[q]
    BY <1>3 DEF DuplicateOfValid, Mark, Update
  <2>2. stats' \in [Peers -> Stats]
    BY <1>3, <1>a, <1>c DEF DuplicateOfValid, Mark, Update
  <2> QED BY <1>3, <1>a, <1>b, <1>e, <2>1, <2>2 DEF DuplicateOfValid, Mark, Marked
<1>4. CASE Offence(p)
  <2>1. PICK n \in 1..2 :
          /\ stats' = [q \in Peers |-> IF q \in {p} \cap known THEN Penalised(stats[q], n) ELSE stats[q]]
          /\ PenaltyRoom /\ UNCHANGED <<known, peerIPs, scoreCache, routing, records>>
    BY <1>4 DEF Offence, Mark, Update
  <2>2. stats' \in [Peers -> Stats]
    BY <1>a, <1>d, <2>1 DEF PenaltyRoom
  <2> QED BY <1>a, <1>b, <1>e, <2>1, <2>2 DEF Marked
<1> QED BY <1>1, <1>2, <1>3, <1>4

(* ---------------------------- type correctness -------------------------- *)

(* A score asked for is cached as one of the three signs.                  *)
LEMMA AskedType ==
  ASSUME ScoreTypeOK, NEW S
  PROVE  Asked(S) \in [Peers -> {"none", "positive", "zero", "negative"}]
<1>1. \A p \in Peers : Score(p) \in {"none", "positive", "zero", "negative"}
  <2>1. \A n : Sign(n) \in {"positive", "zero", "negative"}
    BY DEF Sign
  <2> QED BY <2>1 DEF Score, ScoreTypeOK
<1> QED BY <1>1 DEF Asked, ScoreTypeOK

(* Each step of one peer keeps the types.                                  *)
LEMMA PeerStepType ==
  ASSUME TypeOK, NEW p \in Peers, PeerStep(p)
  PROVE  TypeOK'
<1> USE DEF TypeOK, ScoreTypeOK
<1>a. stats[p] \in Stats
  OBVIOUS
<1>b. \A S : Asked(S) \in [Peers -> {"none", "positive", "zero", "negative"}]
  BY AskedType
<1>c. 0 \in 0..(RetainScore + 1) /\ RetainScore + 1 \in 0..(RetainScore + 1)
  BY Bounds
<1>1. CASE Connect(p)
  <2>1. PICK ips \in {{}} \cup {{ip} : ip \in IPs} :
          /\ peers' = peers \cup {p} /\ AddPeer(p, ips)
          /\ address' = [address EXCEPT ![p] = ips]
          /\ stray' = (stray \cup ({p} \X stats[p].knownIPs)) \ ({p} \X ips)
          /\ owed' = [owed EXCEPT ![p] = 0]
          /\ UNCHANGED <<joined, mesh, toprune, uncredited>>
    BY <1>1 DEF Connect
  <2>2. ips \in SUBSET IPs
    OBVIOUS
  <2>3. [Fresh EXCEPT !.knownIPs = ips] \in Stats
    BY <2>2, FreshStats
  <2>4. stats' \in [Peers -> Stats] /\ known' \subseteq Peers /\ peerIPs' \in [IPs -> SUBSET Peers]
    BY <2>1, <2>3 DEF AddPeer
  <2>5. stats[p].knownIPs \subseteq IPs
    BY <1>a DEF Stats
  <2>6. stray' \subseteq Peers \X IPs
    BY <2>1, <2>5
  <2> QED BY <1>c, <2>1, <2>2, <2>4, <2>6 DEF AddPeer
<1>2. CASE Disconnect(p)
  <2>1. known' \subseteq Peers /\ scoreCache' \in [Peers -> {"none", "positive", "zero", "negative"}]
    BY <1>2, <1>b DEF Disconnect, RemovePeer
  <2>2. peerIPs' \in [IPs -> SUBSET Peers]
    BY <1>2 DEF Disconnect, RemovePeer, WithoutIPs
  <2>3. stats' \in [Peers -> Stats]
    <3>1. CASE Score(p) = "positive"
      <4>1. Fresh \in Stats
        BY FreshStats
      <4> QED BY <1>2, <3>1, <4>1 DEF Disconnect, RemovePeer
    <3>2. CASE Score(p) # "positive"
      <4>1. Departed(stats[p]) \in Stats
        BY <1>2, <1>a, <3>2, PenalisedStats DEF Disconnect, PenaltyRoom, RemovePeer, Update
      <4> QED BY <1>2, <3>2, <4>1 DEF Disconnect, RemovePeer, Update
    <3> QED BY <3>1, <3>2
  <2> QED BY <1>2, <1>c, <2>1, <2>2, <2>3 DEF Disconnect
<1>3. CASE GraftPeer(p)
  <2>1. Grafted(stats[p]) \in Stats
    BY <1>a, MarkedStats
  <2> QED BY <1>3, <1>b, <2>1 DEF GraftPeer, Graft, Update, Welcome, records
<1>4. CASE GraftRefused(p)
  <2>1. PICK n \in 0..2 :
          /\ \A q \in Peers : stats'[q].penalty <= MaxPenalty
          /\ stats' = [q \in Peers |-> IF q \in {p} \cap known THEN Refused(stats[q], n) ELSE stats[q]]
          /\ scoreCache' = Asked({p}) /\ UNCHANGED <<known, peerIPs, routing, records>>
    BY <1>4 DEF GraftRefused, PenaltyRoom, Update
  <2>2. p \in known => Refused(stats[p], n) \in Stats
    BY <1>a, <2>1, PenalisedStats
  <2> QED BY <1>b, <2>1, <2>2 DEF routing, records
<1>5. CASE PruneReceived(p)
  <2>1. p \in known => Pruned(stats[p]) \in Stats
    BY <1>5, <1>a, PenalisedStats DEF PruneReceived, Prune, Update, PenaltyRoom
  <2> QED BY <1>5, <1>b, <2>1 DEF PruneReceived, Prune, Update
<1>6. CASE HeartbeatPrune(p)
  BY <1>6, <1>b DEF HeartbeatPrune
<1>7. CASE MakePrune(p)
  <2>1. p \in known => Pruned(stats[p]) \in Stats
    BY <1>7, <1>a, PenalisedStats DEF MakePrune, Prune, Update, PenaltyRoom
  <2> QED BY <1>7, <2>1 DEF MakePrune, Prune, Update, records
<1>8. CASE Delivery(p) \/ Rejection(p) \/ DuplicateOfValid(p) \/ Offence(p)
  BY <1>8, MarkingSteps DEF Marked, routing, records
<1>9. CASE AskScore(p)
  BY <1>9, <1>b DEF AskScore, routing, records
<1>10. CASE ForgetCached(p)
  BY <1>10 DEF ForgetCached, CacheExpires, routing, records
<1> QED BY <1>1, <1>2, <1>3, <1>4, <1>5, <1>6, <1>7, <1>8, <1>9, <1>10 DEF PeerStep

(* So does every step.                                                     *)
LEMMA NextType == TypeOK /\ [Next]_vars => TypeOK'
<1> SUFFICES ASSUME TypeOK, [Next]_vars PROVE TypeOK'
  OBVIOUS
<1>b. \A S : Asked(S) \in [Peers -> {"none", "positive", "zero", "negative"}]
  BY AskedType DEF TypeOK
<1>c. Fresh \in Stats
  BY FreshStats
<1>1. CASE \E p \in Peers : PeerStep(p)
  BY <1>1, PeerStepType
<1>2. CASE Join
  BY <1>2, <1>b DEF Join, Welcome, TypeOK, ScoreTypeOK
<1>3. CASE Leave
  <2>1. \A p \in mesh \cap known : Pruned(stats[p]) \in Stats
    BY <1>3, PenalisedStats DEF Leave, Prune, Update, PenaltyRoom, TypeOK, ScoreTypeOK
  <2>2. stats' \in [Peers -> Stats]
    BY <1>3, <2>1 DEF Leave, Prune, Update, TypeOK, ScoreTypeOK
  <2> QED BY <1>3, <2>2 DEF Leave, Prune, TypeOK, ScoreTypeOK
<1>4. CASE Background
  <2>1. \A p \in known \ Expired : Refreshed(stats[p]) \in Stats
    BY RefreshedStats DEF Expired, TypeOK, ScoreTypeOK
  <2>2. stats' \in [Peers -> Stats]
    BY <1>4, <1>c, <2>1 DEF Background, RefreshScores, TypeOK, ScoreTypeOK
  <2>3. peerIPs' \in [IPs -> SUBSET Peers]
    BY <1>4 DEF Background, RefreshScores, WithoutIPs, TypeOK, ScoreTypeOK
  <2>4. owed' \in [Peers -> 0..(RetainScore + 1)]
    BY <1>4, Bounds DEF Background, TypeOK
  <2> QED BY <1>4, <2>2, <2>3, <2>4 DEF Background, RefreshScores, routing, TypeOK, ScoreTypeOK
<1>5. CASE Stop
  <2>1. 0 \in 0..(RetainScore + 1)
    BY Bounds
  <2> QED BY <1>5, <1>c, <2>1 DEF Stop, ScoreStop, TypeOK, ScoreTypeOK
<1>6. CASE UNCHANGED vars
  BY <1>6 DEF vars, scoreVars, routing, records, TypeOK, ScoreTypeOK
<1> QED BY <1>1, <1>2, <1>3, <1>4, <1>5, <1>6 DEF Next

(* All state of PeerScore and its callers keeps its type: the counters     *)
(* stay within their caps, mesh peers are connected.                       *)
THEOREM TypeCorrect == Spec => []TypeOK
<1>1. Init => TypeOK
  <2>1. Fresh \in Stats
    BY FreshStats
  <2>2. 0 \in 0..(RetainScore + 1)
    BY Bounds
  <2> QED BY <2>1, <2>2 DEF Init, ScoreInit, TypeOK, ScoreTypeOK
<1> QED BY <1>1, NextType, PTL DEF Spec

(* -------------------------------- the books ----------------------------- *)

(* An address somebody is remembered to use has not strayed.               *)
NoStray == \A p \in known : \A ip \in stats[p].knownIPs : <<p, ip>> \notin stray

(* What PeerScore remembers of connections and addresses, and for how long *)
(* it will.                                                                *)
Remembered ==
  /\ \A p \in Peers \ known : stats[p] = Fresh
  /\ \A p \in peers : p \in known /\ stats[p].connected /\ stats[p].knownIPs = address[p]
  /\ \A p \in Peers \ peers : p \in known => ~stats[p].connected /\ owed[p] = stats[p].left + 1
  /\ \A p \in Peers \ peers : p \notin known => owed[p] = 0
  /\ AddressesCountTheRemembered
  /\ NoStray

(* What it believes of the mesh: a delivery rate counts for peers it takes *)
(* for mesh peers only.                                                    *)
Believed ==
  /\ MeshAsScored
  /\ \A p \in known : stats[p].active => stats[p].inMesh
  /\ \A p \in known \ peers : ~stats[p].inMesh
  /\ mesh \cap toprune = {} /\ (~joined => mesh = {})

(* Steps that change neither who is remembered nor where.                  *)
Quiet ==
  /\ UNCHANGED <<known, peerIPs, peers, address, stray, owed>>
  /\ \A p \in Peers \ known : stats'[p] = stats[p]
  /\ \A p \in known : SameIdentity(stats[p], stats'[p])

(* Quiet steps keep the books.                                             *)
LEMMA QuietRemembers == TypeOK /\ Remembered /\ Quiet => Remembered'
BY DEF TypeOK, ScoreTypeOK, Remembered, Quiet, SameIdentity, AddressesCountTheRemembered, NoStray

(* Only connections, departures, time and stop are not quiet.              *)
LEMMA QuietSteps ==
  ASSUME TypeOK, NEW p \in Peers, PeerStep(p), ~Connect(p), ~Disconnect(p)
  PROVE  Quiet
<1> USE DEF Quiet
<1>a. \A q \in Peers : stats[q] \in Stats
  BY DEF TypeOK, ScoreTypeOK
<1>b. known \subseteq Peers
  BY DEF TypeOK, ScoreTypeOK
<1>c. \A s : SameIdentity(s, s)
  BY DEF SameIdentity
<1>1. CASE GraftPeer(p)
  BY <1>1, <1>a, <1>b, <1>c, MeshStatus DEF GraftPeer, Graft, Update, records
<1>2. CASE GraftRefused(p)
  BY <1>2, <1>a, <1>b, <1>c, MeshStatus DEF GraftRefused, Update, routing, records
<1>3. CASE PruneReceived(p)
  BY <1>3, <1>a, <1>b, <1>c, MeshStatus DEF PruneReceived, Prune, Update
<1>4. CASE HeartbeatPrune(p)
  BY <1>4, <1>c DEF HeartbeatPrune
<1>5. CASE MakePrune(p)
  BY <1>5, <1>a, <1>b, <1>c, MeshStatus DEF MakePrune, Prune, Update, records
<1>6. CASE Delivery(p) \/ Rejection(p) \/ DuplicateOfValid(p) \/ Offence(p)
  BY <1>6, MarkingSteps DEF TypeOK, Marked, routing, records
<1>7. CASE AskScore(p)
  BY <1>7, <1>c DEF AskScore, routing, records
<1>8. CASE ForgetCached(p)
  BY <1>8, <1>c DEF ForgetCached, CacheExpires, routing, records
<1> QED BY <1>1, <1>2, <1>3, <1>4, <1>5, <1>6, <1>7, <1>8 DEF PeerStep

(* A peer that connects is entered in the books, its old addresses stray.  *)
LEMMA ConnectRemembers ==
  ASSUME TypeOK, Remembered, NEW p \in Peers, Connect(p)
  PROVE  Remembered'
<1>1. PICK ips \in {{}} \cup {{ip} : ip \in IPs} :
        /\ p \notin peers /\ peers' = peers \cup {p} /\ AddPeer(p, ips)
        /\ address' = [address EXCEPT ![p] = ips]
        /\ stray' = (stray \cup ({p} \X stats[p].knownIPs)) \ ({p} \X ips)
        /\ owed' = [owed EXCEPT ![p] = 0]
  BY DEF Connect
<1>2. stats'[p].connected /\ stats'[p].knownIPs = ips /\ \A q \in Peers \ {p} : stats'[q] = stats[q]
  BY <1>1 DEF AddPeer, Fresh, TypeOK, ScoreTypeOK
<1>3. known' = known \cup {p} /\ address'[p] = ips /\ \A q \in Peers \ {p} : address'[q] = address[q] /\ owed'[q] = owed[q]
  BY <1>1 DEF AddPeer, TypeOK
<1>4. AddressesCountTheRemembered'
  <2> SUFFICES ASSUME NEW q \in Peers, NEW ip \in IPs
               PROVE  q \in peerIPs'[ip] <=> (q \in known' /\ ip \in stats'[q].knownIPs) \/ <<q, ip>> \in stray'
    BY DEF AddressesCountTheRemembered
  <2>1. q \in peerIPs[ip] <=> (q \in known /\ ip \in stats[q].knownIPs) \/ <<q, ip>> \in stray
    BY DEF Remembered, AddressesCountTheRemembered
  <2>2. peerIPs'[ip] = IF ip \in ips THEN peerIPs[ip] \cup {p} ELSE peerIPs[ip]
    BY <1>1 DEF AddPeer
  <2>3. CASE q = p
    <3>1. <<p, ip>> \in stray' <=> (<<p, ip>> \in stray \/ ip \in stats[p].knownIPs) /\ ip \notin ips
      BY <1>1
    <3>2. p \notin known => stats[p].knownIPs = {}
      BY DEF Remembered, Fresh
    <3> QED BY <1>2, <1>3, <2>1, <2>2, <2>3, <3>1, <3>2
  <2>4. CASE q # p
    <3>1. <<q, ip>> \in stray' <=> <<q, ip>> \in stray
      BY <1>1, <2>4
    <3> QED BY <1>2, <1>3, <2>1, <2>2, <2>4, <3>1
  <2> QED BY <2>3, <2>4
<1>5. NoStray'
  <2>1. ASSUME NEW ip \in ips PROVE <<p, ip>> \notin stray'
    BY <1>1, <2>1
  <2>2. ASSUME NEW q \in known, q # p, NEW ip \in stats[q].knownIPs PROVE <<q, ip>> \notin stray'
    BY <1>1, <2>2 DEF Remembered, NoStray
  <2> QED BY <1>2, <1>3, <2>1, <2>2 DEF NoStray, TypeOK, ScoreTypeOK
<1>6. \A q \in Peers \ known' : stats'[q] = Fresh
  BY <1>2, <1>3 DEF Remembered
<1>7. \A q \in peers' : q \in known' /\ stats'[q].connected /\ stats'[q].knownIPs = address'[q]
  BY <1>1, <1>2, <1>3 DEF Remembered, TypeOK
<1> QED BY <1>1, <1>2, <1>3, <1>4, <1>5, <1>6, <1>7 DEF Remembered

(* A peer that leaves is retained, or struck off with its addresses.       *)
LEMMA DisconnectRemembers ==
  ASSUME TypeOK, Remembered, NEW p \in Peers, Disconnect(p)
  PROVE  Remembered'
<1>1. p \in peers /\ p \in known /\ peers' = peers \ {p} /\ RemovePeer(p) /\ stray' = stray
  BY DEF Disconnect, RemovePeer
<1>2. \A q \in Peers \ {p} : address'[q] = address[q] /\ owed'[q] = owed[q]
  BY DEF Disconnect, TypeOK
<1>3. owed'[p] = IF Score(p) = "positive" THEN 0 ELSE RetainScore + 1
  BY DEF Disconnect, TypeOK
<1>4. CASE Score(p) = "positive"
  <2>1. known' = known \ {p} /\ peerIPs' = WithoutIPs({p}) /\ stats'[p] = Fresh
        /\ \A q \in Peers \ {p} : stats'[q] = stats[q]
    BY <1>1, <1>4 DEF RemovePeer, TypeOK, ScoreTypeOK
  <2>2. \A ip \in stats[p].knownIPs : <<p, ip>> \notin stray
    BY <1>1 DEF Remembered, NoStray
  <2>3. AddressesCountTheRemembered'
    BY <1>1, <2>1, <2>2 DEF Remembered, AddressesCountTheRemembered, WithoutIPs, Fresh
  <2>4. NoStray'
    BY <1>1, <2>1 DEF Remembered, NoStray, TypeOK, ScoreTypeOK
  <2> QED BY <1>1, <1>2, <1>3, <1>4, <2>1, <2>3, <2>4 DEF Remembered, TypeOK
<1>5. CASE Score(p) # "positive"
  <2>1. UNCHANGED <<known, peerIPs>> /\ stats'[p] = Departed(stats[p]) /\ \A q \in Peers \ {p} : stats'[q] = stats[q]
    BY <1>1, <1>5 DEF RemovePeer, Update, TypeOK, ScoreTypeOK
  <2>2. stats'[p].knownIPs = stats[p].knownIPs /\ stats'[p].left = RetainScore /\ ~stats'[p].connected
    BY <2>1, DepartedStatus DEF TypeOK, ScoreTypeOK
  <2>3. AddressesCountTheRemembered'
    BY <1>1, <2>1, <2>2 DEF Remembered, AddressesCountTheRemembered
  <2>4. NoStray'
    BY <1>1, <2>1, <2>2 DEF Remembered, NoStray, TypeOK, ScoreTypeOK
  <2> QED BY <1>1, <1>2, <1>3, <1>5, <2>1, <2>2, <2>3, <2>4 DEF Remembered, TypeOK
<1> QED BY <1>4, <1>5

(* Time strikes off who has been retained long enough.                     *)
LEMMA BackgroundRemembers ==
  ASSUME TypeOK, Remembered, Background
  PROVE  Remembered'
<1>1. known' = known \ Expired /\ peerIPs' = WithoutIPs(Expired) /\ UNCHANGED <<peers, address, stray>>
  BY DEF Background, RefreshScores, routing
<1>2. \A p \in Peers : stats[p] \in Stats /\ owed[p] \in Nat
  BY Bounds DEF TypeOK, ScoreTypeOK
<1>3. \A p \in Expired : stats'[p] = Fresh
  BY DEF Background, RefreshScores, Expired, TypeOK, ScoreTypeOK
<1>4. \A p \in known \ Expired : stats'[p] = Refreshed(stats[p])
  BY DEF Background, RefreshScores, TypeOK, ScoreTypeOK
<1>5. \A p \in Peers \ known : stats'[p] = stats[p]
  BY DEF Background, RefreshScores, Expired
<1>6. \A p \in Peers : owed'[p] = IF owed[p] > 0 THEN owed[p] - 1 ELSE 0
  BY DEF Background
<1>7. \A p \in known \ Expired : stats'[p].knownIPs = stats[p].knownIPs /\ stats'[p].connected = stats[p].connected
        /\ (~stats[p].connected => stats'[p].left = stats[p].left - 1)
  BY <1>2, <1>4, RefreshedStatus DEF TypeOK, ScoreTypeOK
<1>8. Expired \subseteq known \ peers /\ known \subseteq Peers
  BY DEF Expired, Remembered, TypeOK, ScoreTypeOK
<1>9. AddressesCountTheRemembered'
  BY <1>1, <1>3, <1>5, <1>7, <1>8 DEF Remembered, AddressesCountTheRemembered, WithoutIPs, NoStray
<1>10. \A p \in Peers \ known' : stats'[p] = Fresh
  BY <1>1, <1>3, <1>5 DEF Remembered
<1>11. \A p \in peers' : p \in known' /\ stats'[p].connected /\ stats'[p].knownIPs = address'[p]
  BY <1>1, <1>7, <1>8 DEF Remembered
<1>12. ASSUME NEW p \in Peers \ peers', p \in known'
       PROVE  ~stats'[p].connected /\ owed'[p] = stats'[p].left + 1
  <2>1. p \in known \ Expired /\ p \notin peers
    BY <1>1, <1>12
  <2>2. ~stats[p].connected /\ owed[p] = stats[p].left + 1 /\ stats[p].left \in Nat
    BY <1>2, <2>1 DEF Remembered, Stats
  <2> QED BY <1>6, <1>7, <2>1, <2>2
<1>13. ASSUME NEW p \in Peers \ peers', p \notin known'
       PROVE  owed'[p] = 0
  <2>1. CASE p \in Expired
    <3>1. p \in known /\ stats[p].left = 0
      BY <2>1 DEF Expired
    <3>2. owed[p] = 1
      BY <1>1, <1>2, <1>13, <3>1 DEF Remembered
    <3> QED BY <1>6, <3>2
  <2>2. CASE p \notin Expired
    <3>1. p \notin known /\ p \notin peers
      BY <1>1, <1>13, <2>2
    <3> QED BY <1>6, <3>1 DEF Remembered
  <2> QED BY <2>1, <2>2
<1>14. NoStray'
  BY <1>1, <1>7 DEF Remembered, NoStray
<1> QED BY <1>9, <1>10, <1>11, <1>12, <1>13, <1>14 DEF Remembered

(* Nobody is remembered by a node that has been stopped.                   *)
LEMMA StopRemembers ==
  ASSUME TypeOK, Stop
  PROVE  Remembered'
BY DEF Stop, ScoreStop, Remembered, AddressesCountTheRemembered, NoStray

(* Every step keeps the books.                                             *)
LEMMA NextRemembers == TypeOK /\ Remembered /\ [Next]_vars => Remembered'
<1> SUFFICES ASSUME TypeOK, Remembered, [Next]_vars PROVE Remembered'
  OBVIOUS
<1>a. \A s : SameIdentity(s, s)
  BY DEF SameIdentity
<1>1. ASSUME NEW p \in Peers, PeerStep(p) PROVE Remembered'
  <2>1. CASE Connect(p)
    BY <2>1, ConnectRemembers
  <2>2. CASE Disconnect(p)
    BY <2>2, DisconnectRemembers
  <2>3. CASE ~Connect(p) /\ ~Disconnect(p)
    BY <1>1, <2>3, QuietSteps, QuietRemembers
  <2> QED BY <2>1, <2>2, <2>3
<1>2. CASE Join
  BY <1>2, <1>a, QuietRemembers DEF Join, Quiet
<1>3. CASE Leave
  <2>1. \A q \in mesh \cap known : SameIdentity(stats[q], Pruned(stats[q]))
    BY MeshStatus DEF TypeOK, ScoreTypeOK
  <2>2. Quiet
    BY <1>3, <1>a, <2>1 DEF Leave, Prune, Update, Quiet, TypeOK, ScoreTypeOK
  <2> QED BY <2>2, QuietRemembers
<1>4. CASE Background
  BY <1>4, BackgroundRemembers
<1>5. CASE Stop
  BY <1>5, StopRemembers
<1>6. CASE UNCHANGED vars
  BY <1>6, <1>a, QuietRemembers DEF vars, scoreVars, routing, records, Quiet
<1> QED BY <1>1, <1>2, <1>3, <1>4, <1>5, <1>6 DEF Next

(* The types and the books hold together.                                  *)
LEMMA BooksKept == Spec => [](TypeOK /\ Remembered)
<1>1. Init => Remembered
  BY DEF Init, ScoreInit, Remembered, AddressesCountTheRemembered, NoStray
<1>2. TypeOK /\ Remembered /\ [Next]_vars => Remembered'
  BY NextRemembers
<1> QED BY <1>1, <1>2, TypeCorrect, PTL DEF Spec

(* removePeer, addPeer, refreshScores and stop, between them, leave no     *)
(* connected peer unscored or uncounted at its address: P6 sees every      *)
(* crowd.                                                                  *)
THEOREM ConnectedCounted == Spec => []ConnectedAreCounted
<1>1. TypeOK /\ Remembered => ConnectedAreCounted
  BY DEF Remembered, ConnectedAreCounted, AddressesCountTheRemembered, TypeOK
<1> QED BY <1>1, BooksKept, PTL

(* peerIPs is the inverse of knownIPs over all that is remembered, but for *)
(* the addresses that addPeer leaves behind when it overwrites.            *)
THEOREM AddressesExact == Spec => []AddressesCountTheRemembered
<1>1. TypeOK /\ Remembered => AddressesCountTheRemembered
  BY DEF Remembered
<1> QED BY <1>1, BooksKept, PTL

(* Who has left is remembered for as long as retainScore promises: nothing *)
(* that arrives late prolongs it or cuts it short.                         *)
THEOREM RetainedExactly == Spec => []RetainedAsLong
<1>1. ASSUME TypeOK, Remembered PROVE RetainedAsLong
  <2> SUFFICES ASSUME NEW p \in Peers \ peers PROVE p \in known <=> owed[p] > 0
    BY DEF RetainedAsLong
  <2>1. CASE p \in known
    <3>1. stats[p].left \in Nat
      BY <1>1, Bounds DEF TypeOK, ScoreTypeOK, Stats
    <3> QED BY <1>1, <2>1, <3>1 DEF Remembered
  <2>2. CASE p \notin known
    BY <1>1, <2>2 DEF Remembered
  <2> QED BY <2>1, <2>2
<1> QED BY <1>1, BooksKept, PTL

(* ---------------------------- mesh and deficit -------------------------- *)

(* Steps that change nobody's mesh status, in the mesh or in the stats.    *)
Still ==
  /\ UNCHANGED <<known, peers, joined, mesh, toprune, uncredited>>
  /\ \A p \in known : SameMesh(stats[p], stats'[p])

(* They keep the beliefs.                                                  *)
LEMMA StillBelieves == mesh \subseteq known /\ Believed /\ Still => Believed'
BY DEF Believed, MeshAsScored, Still, SameMesh

(* Steps that tell PeerScore that a peer is out of the mesh.               *)
Parts(p) ==
  /\ UNCHANGED <<known, peers, joined>>
  /\ mesh' = mesh \ {p} /\ uncredited' = uncredited \ {p} /\ toprune' \in {toprune, toprune \ {p}}
  /\ p \in known => ~stats'[p].inMesh /\ ~stats'[p].active
  /\ \A q \in known \ {p} : stats'[q] = stats[q]

(* They do, too.                                                           *)
LEMMA PartsBelieves ==
  ASSUME mesh \subseteq known, Believed, NEW p \in Peers, Parts(p)
  PROVE  Believed'
<1>1. MeshAsScored'
  BY DEF Believed, MeshAsScored, Parts
<1>2. mesh' \cap toprune' = {} /\ (~joined' => mesh' = {})
  BY DEF Believed, Parts
<1> QED BY <1>1, <1>2 DEF Believed, Parts

(* Every step of a peer keeps the beliefs: the PRUNE a heartbeat owes is   *)
(* remembered by toprune, which nobody grafts.                             *)
LEMMA PeerStepBelieves ==
  ASSUME TypeOK, Remembered, Believed, NEW p \in Peers, PeerStep(p)
  PROVE  Believed'
<1>a. \A q \in Peers : stats[q] \in Stats
  BY DEF TypeOK, ScoreTypeOK
<1>b. known \subseteq Peers /\ mesh \subseteq peers /\ uncredited \subseteq mesh /\ mesh \subseteq known
  BY DEF TypeOK, ScoreTypeOK, Remembered
<1>c. \A s : SameMesh(s, s)
  BY DEF SameMesh
<1>d. stats \in [Peers -> Stats]
  BY DEF TypeOK, ScoreTypeOK
<1>1. CASE Connect(p)
  <2>1. p \notin peers /\ peers' = peers \cup {p} /\ known' = known \cup {p} /\ UNCHANGED <<joined, mesh, toprune, uncredited>>
    BY <1>1 DEF Connect, AddPeer
  <2>2. ~stats'[p].inMesh /\ ~stats'[p].active /\ \A q \in Peers \ {p} : stats'[q] = stats[q]
    BY <1>1, <1>d DEF Connect, AddPeer, Fresh
  <2> QED BY <1>b, <2>1, <2>2 DEF Believed, MeshAsScored
<1>2. CASE Disconnect(p)
  <2>1. peers' = peers \ {p} /\ mesh' = mesh \ {p} /\ uncredited' = uncredited \ {p} /\ UNCHANGED <<joined, toprune>>
    BY <1>2 DEF Disconnect
  <2>2. known' \subseteq known /\ \A q \in Peers \ {p} : stats'[q] = stats[q]
    BY <1>2, <1>d DEF Disconnect, RemovePeer, Update
  <2>3. p \in known' => ~stats'[p].inMesh /\ ~stats'[p].active
    <3>1. CASE Score(p) = "positive"
      BY <1>2, <3>1 DEF Disconnect, RemovePeer
    <3>2. CASE Score(p) # "positive"
      BY <1>2, <1>a, <3>2, DepartedStatus DEF Disconnect, RemovePeer, Update
    <3> QED BY <3>1, <3>2
  <2>4. MeshAsScored'
    BY <1>b, <2>1, <2>2, <2>3 DEF Believed, MeshAsScored, TypeOK
  <2> QED BY <1>b, <2>1, <2>2, <2>3, <2>4 DEF Believed
<1>3. CASE GraftPeer(p)
  <2>1. p \in peers \ (mesh \cup toprune) /\ p \in known
    BY <1>3 DEF GraftPeer, Welcome, Remembered
  <2>2. joined' /\ mesh' = mesh \cup {p} /\ UNCHANGED <<known, peers, toprune, uncredited>>
    BY <1>3 DEF GraftPeer, Graft, records
  <2>3. stats'[p].inMesh /\ ~stats'[p].active /\ \A q \in known \ {p} : stats'[q] = stats[q]
    BY <1>3, <1>a, <1>b, <2>1, MeshStatus DEF GraftPeer, Graft, Update
  <2> QED BY <1>b, <2>1, <2>2, <2>3 DEF Believed, MeshAsScored
<1>4. CASE GraftRefused(p)
  BY <1>4, <1>a, <1>b, MeshStatus, PartsBelieves DEF GraftRefused, Update, routing, records, Parts
<1>5. CASE PruneReceived(p)
  BY <1>5, <1>a, <1>b, MeshStatus, PartsBelieves DEF PruneReceived, Prune, Update, Parts
<1>6. CASE HeartbeatPrune(p)
  BY <1>6, <1>b DEF HeartbeatPrune, Believed, MeshAsScored
<1>7. CASE MakePrune(p)
  <2>1. mesh' = mesh \ {p} /\ uncredited' = uncredited \ {p}
    BY <1>7, <1>b DEF MakePrune, records, Believed
  <2> QED BY <1>7, <1>a, <1>b, <2>1, MeshStatus, PartsBelieves DEF MakePrune, Prune, Update, records, Parts
<1>8. CASE Delivery(p) \/ Rejection(p) \/ DuplicateOfValid(p) \/ Offence(p)
  BY <1>8, <1>b, MarkingSteps, StillBelieves DEF TypeOK, Marked, routing, records, Still
<1>9. CASE AskScore(p)
  BY <1>9, <1>b, <1>c, StillBelieves DEF AskScore, routing, records, Still
<1>10. CASE ForgetCached(p)
  BY <1>10, <1>b, <1>c, StillBelieves DEF ForgetCached, CacheExpires, routing, records, Still
<1> QED BY <1>1, <1>2, <1>3, <1>4, <1>5, <1>6, <1>7, <1>8, <1>9, <1>10 DEF PeerStep

(* So does every step.                                                     *)
LEMMA NextBelieves == TypeOK /\ Remembered /\ Believed /\ [Next]_vars => Believed'
<1> SUFFICES ASSUME TypeOK, Remembered, Believed, [Next]_vars PROVE Believed'
  OBVIOUS
<1>a. \A q \in Peers : stats[q] \in Stats
  BY DEF TypeOK, ScoreTypeOK
<1>b. known \subseteq Peers /\ mesh \subseteq peers /\ uncredited \subseteq mesh /\ mesh \subseteq known
  BY DEF TypeOK, ScoreTypeOK, Remembered
<1>1. CASE \E p \in Peers : PeerStep(p)
  BY <1>1, PeerStepBelieves
<1>2. CASE Join
  <2>1. joined' /\ UNCHANGED <<known, stats, peers, toprune>> /\ mesh' = uncredited' /\ mesh' \cap mesh = {} /\ mesh' \cap toprune = {}
    BY <1>2 DEF Join, Welcome
  <2>2. mesh = {}
    BY <1>2 DEF Join, Believed
  <2> QED BY <2>1, <2>2 DEF Believed, MeshAsScored
<1>3. CASE Leave
  <2>1. \A q \in mesh \cap known : ~stats'[q].inMesh /\ ~stats'[q].active
    BY <1>3, <1>a, <1>b, MeshStatus DEF Leave, Prune, Update
  <2>2. \A q \in known \ mesh : stats'[q] = stats[q]
    BY <1>3, <1>b DEF Leave, Prune, Update
  <2>3. mesh' = {} /\ uncredited' = {} /\ UNCHANGED <<known, peers, toprune>>
    BY <1>3 DEF Leave, Prune
  <2> QED BY <1>b, <2>1, <2>2, <2>3 DEF Believed, MeshAsScored
<1>4. CASE Background
  <2>1. known' = known \ Expired /\ UNCHANGED <<peers, joined, mesh, toprune, uncredited>>
    BY <1>4 DEF Background, RefreshScores, routing
  <2>2. \A q \in known' : stats'[q] = Refreshed(stats[q])
    BY <1>4, <1>b DEF Background, RefreshScores
  <2>3. \A q \in known' : stats'[q].inMesh = stats[q].inMesh /\ (stats'[q].active => stats[q].active \/ stats[q].inMesh)
    BY <1>a, <1>b, <2>1, <2>2, RefreshedStatus
  <2>4. \A q \in peers : q \in known'
    BY <2>1 DEF Expired, Remembered
  <2> QED BY <1>b, <2>1, <2>3, <2>4 DEF Believed, MeshAsScored
<1>5. CASE Stop
  BY <1>5 DEF Stop, ScoreStop, Believed, MeshAsScored
<1>6. CASE UNCHANGED vars
  BY <1>6 DEF vars, scoreVars, routing, records, Believed, MeshAsScored
<1> QED BY <1>1, <1>2, <1>3, <1>4, <1>5, <1>6 DEF Next

(* Types, books and beliefs hold together.                                 *)
LEMMA BeliefsKept == Spec => [](TypeOK /\ Remembered /\ Believed)
<1>1. Init => Believed
  BY DEF Init, ScoreInit, Believed, MeshAsScored
<1>2. TypeOK /\ Remembered /\ Believed /\ [Next]_vars => Believed'
  BY NextBelieves
<1> QED BY <1>1, <1>2, BooksKept, PTL DEF Spec

(* graft, prune and removePeer are called wherever the router changes the  *)
(* mesh but in join, and a heartbeat that owes a PRUNE is the only delay.  *)
THEOREM MeshAsBelieved == Spec => []MeshAsScored
<1>1. Believed => MeshAsScored
  BY DEF Believed
<1> QED BY <1>1, BeliefsKept, PTL

(* Who stops being a mesh peer in deficit is charged for it.               *)
LEMMA Charged ==
  ASSUME NEW s \in Stats, Deficit(s) > 0
  PROVE  /\ Pruned(s).penalty >= s.penalty + Deficit(s)
         /\ \A n \in 0..2 : Refused(s, n).penalty >= s.penalty + Deficit(s)
         /\ s.inMesh => Departed(s).penalty >= s.penalty + Deficit(s)
<1>1. Deficit(s) \in Nat /\ s.penalty \in Nat
  BY DeficitNat DEF Stats
<1>2. Pruned(s).penalty = s.penalty + Deficit(s)
  BY DEF Pruned, Stats
<1>3. s.inMesh => Departed(s).penalty = s.penalty + Deficit(s)
  BY DEF Departed, Stats
<1>4. ASSUME NEW n \in 0..2 PROVE Refused(s, n).penalty = s.penalty + n + Deficit(s)
  <2> DEFINE t == [s EXCEPT !.penalty = @ + n]
  <2>1. Deficit(t) = Deficit(s) /\ t.penalty = s.penalty + n
    BY DEF Deficit, Stats
  <2>2. Refused(s, n).penalty = t.penalty + Deficit(t)
    BY DEF Refused, Penalised, Pruned, Stats
  <2> QED BY <2>1, <2>2
<1> QED BY <1>1, <1>2, <1>3, <1>4

Charge ==
  \A p \in known \cap known' :
    Deficit(stats[p]) > 0 /\ ~stats'[p].active
      => stats'[p].penalty >= stats[p].penalty + Deficit(stats[p])

(* No step of a peer lets a deficit off: only mesh peers run one, and they *)
(* are not grafted again.                                                  *)
LEMMA PeerStepCharges ==
  ASSUME TypeOK, Remembered, Believed, NEW p \in Peers, PeerStep(p)
  PROVE  Charge
<1> SUFFICES ASSUME NEW q \in known \cap known', Deficit(stats[q]) > 0, ~stats'[q].active
             PROVE  stats'[q].penalty >= stats[q].penalty + Deficit(stats[q])
  BY DEF Charge
<1>a. stats[q] \in Stats /\ q \in Peers /\ stats \in [Peers -> Stats]
  BY DEF TypeOK, ScoreTypeOK
<1>b. stats[q].active /\ stats[q].inMesh /\ q \in mesh \cup toprune /\ q \in peers
  BY <1>a, DeficitNat DEF Believed, MeshAsScored
<1>c. stats'[q].active = stats[q].active => FALSE
  BY <1>b
<1>1. CASE Connect(p)
  <2>1. q # p /\ stats'[q] = stats[q]
    BY <1>1, <1>a, <1>b DEF Connect, AddPeer
  <2> QED BY <1>c, <2>1
<1>2. CASE Disconnect(p)
  BY <1>2, <1>a, <1>b, <1>c, Charged DEF Disconnect, RemovePeer, Update
<1>3. CASE GraftPeer(p)
  <2>1. q # p
    BY <1>3, <1>b DEF GraftPeer, Welcome
  <2> QED BY <1>3, <1>a, <1>c, <2>1 DEF GraftPeer, Graft, Update
<1>4. CASE GraftRefused(p)
  BY <1>4, <1>a, <1>c, Charged DEF GraftRefused, Update
<1>5. CASE PruneReceived(p)
  BY <1>5, <1>a, <1>c, Charged DEF PruneReceived, Prune, Update
<1>6. CASE HeartbeatPrune(p)
  BY <1>6, <1>c DEF HeartbeatPrune
<1>7. CASE MakePrune(p)
  BY <1>7, <1>a, <1>c, Charged DEF MakePrune, Prune, Update
<1>8. CASE Delivery(p) \/ Rejection(p) \/ DuplicateOfValid(p) \/ Offence(p)
  BY <1>8, <1>c, MarkingSteps DEF TypeOK, Marked, SameMesh
<1>9. CASE AskScore(p)
  BY <1>9, <1>c DEF AskScore
<1>10. CASE ForgetCached(p)
  BY <1>10, <1>c DEF ForgetCached, CacheExpires
<1> QED BY <1>1, <1>2, <1>3, <1>4, <1>5, <1>6, <1>7, <1>8, <1>9, <1>10 DEF PeerStep

(* Nor does any other.                                                     *)
LEMMA NextCharges == TypeOK /\ Remembered /\ Believed /\ [Next]_vars => [Charge]_vars
<1> SUFFICES ASSUME TypeOK, Remembered, Believed, Next PROVE Charge
  OBVIOUS
<1>1. CASE \E p \in Peers : PeerStep(p)
  BY <1>1, PeerStepCharges
<1>2. ASSUME ~\E p \in Peers : PeerStep(p),
             NEW q \in known \cap known', Deficit(stats[q]) > 0, ~stats'[q].active
      PROVE  stats'[q].penalty >= stats[q].penalty + Deficit(stats[q])
  <2>a. stats[q] \in Stats /\ q \in Peers /\ stats[q].active
    BY <1>2, DeficitNat DEF TypeOK, ScoreTypeOK
  <2>1. CASE Join
    BY <1>2, <2>1, <2>a DEF Join
  <2>2. CASE Leave
    BY <1>2, <2>2, <2>a, Charged DEF Leave, Prune, Update
  <2>3. CASE Background
    <3>1. stats'[q] = Refreshed(stats[q])
      BY <1>2, <2>3, <2>a DEF Background, RefreshScores
    <3>2. Refreshed(stats[q]).active
      BY <2>a DEF Refreshed, Stats
    <3> QED BY <1>2, <3>1, <3>2
  <2>4. CASE Stop
    BY <1>2, <2>4 DEF Stop, ScoreStop
  <2> QED BY <1>2, <2>1, <2>2, <2>3, <2>4 DEF Next
<1> QED BY <1>1, <1>2 DEF Charge

(* A mesh peer that does not deliver what meshMessageDeliveriesThreshold   *)
(* asks for carries the deficit, squared, with it wherever it goes: out of *)
(* the mesh, or into retention.                                            *)
THEOREM DeficitsCharged == Spec => DeficitCharged
<1>1. TypeOK /\ Remembered /\ Believed /\ [Next]_vars => [Charge]_vars
  BY NextCharges
<1>2. [][Charge]_vars => DeficitCharged
  BY DEF Charge, DeficitCharged
<1> QED BY <1>1, <1>2, BeliefsKept, PTL DEF Spec
(* --------------------------- delivery records --------------------------- *)

Idle == atValidator = {} /\ atApp = {}

(* A copy that still waits for its verdict is the only one of its seenCache *)
(* entry, and has the first word in the record made since.                 *)
Flow ==
  /\ seenEntry \in {"none", "due"} => Idle
  /\ seenEntry = "none" => ~ofEntry /\ firsts = FirstsOf({})
  /\ ~Idle => firsts = FirstsOf({}) /\ (ofEntry => Open)
  /\ atValidator # {} => atApp = {}
  /\ atApp # {} => asyncMode
  /\ status = "none" => ~ofEntry
  /\ firsts \in {FirstsOf({})} \cup {FirstsOf({p}) : p \in Senders}
  /\ ofEntry /\ ~Open => firsts = FirstsOf(IF status = "valid" THEN judged ELSE {})
  /\ spared => ~ofEntry

(* What the record and the sums say of what PeerScore was told.            *)
Unjudged == early = tracked /\ timely = {} /\ after = Nobody /\ spared = FALSE

Again == {p \in Senders : after[p] > 0}

Book ==
  /\ Open <=> judged = {}
  /\ Open => Unjudged
  /\ status = "none" => tracked = {}
  /\ status = "valid" => tracked = early \cup Again
  /\ status \in {"invalid", "ignored"} => tracked = {}
  /\ timely \subseteq Again
  /\ \A p \in Senders : repeats[p] = RepeatsDue(p) /\ charges[p] = ChargesDue(p)

LedgerInv == LedgerTypeOK /\ Flow /\ Book

(* The type of the ledger in two parts, which steps change separately.     *)
RecordTyped ==
  /\ inWindow \in BOOLEAN /\ ofEntry \in BOOLEAN /\ spared \in BOOLEAN
  /\ status \in {"none", "unknown"} \cup Verdicts
  /\ tracked \subseteq Senders /\ judged \subseteq Senders
  /\ early \subseteq Senders /\ timely \subseteq Senders
  /\ repeats \in [Senders -> 0..1]
  /\ charges \in [Senders -> 0..(MaxRepeats + 2)]
  /\ after \in [Senders -> 0..MaxRepeats]

FlowTyped ==
  /\ asyncMode \in BOOLEAN /\ cached \in BOOLEAN
  /\ seenEntry \in {"none", "fresh", "due"}
  /\ atValidator \subseteq Senders /\ atApp \subseteq Senders

(* Together they are the type, for Flow bounds the first deliveries.       *)
LEMMA TypeParts ==
  /\ LedgerTypeOK => RecordTyped /\ FlowTyped
  /\ RecordTyped /\ FlowTyped /\ Flow => LedgerTypeOK
<1>1. LedgerTypeOK => RecordTyped /\ FlowTyped
  BY DEF LedgerTypeOK, RecordTyped, FlowTyped
<1>2. Flow => firsts \in [Senders -> 0..2]
  <2>1. \A S : FirstsOf(S) \in [Senders -> 0..2]
    BY DEF FirstsOf
  <2> QED BY <2>1 DEF Flow
<1> QED BY <1>1, <1>2, Zenon DEF LedgerTypeOK, RecordTyped, FlowTyped

(* Nobody has been credited or charged before the verdict.                 *)
LEMMA OpenBook ==
  ASSUME LedgerInv, Open
  PROVE  /\ \A q \in Senders : repeats[q] = 0 /\ charges[q] = 0 /\ after[q] = 0
         /\ judged = {} /\ early = tracked /\ timely = {} /\ spared = FALSE /\ Again = {}
<1>1. judged = {} /\ Unjudged
  BY DEF LedgerInv, Book
<1>2. \A q \in Senders : after[q] = 0
  BY <1>1 DEF Unjudged, Nobody
<1>3. \A q \in Senders : RepeatsDue(q) = 0 /\ ChargesDue(q) = 0
  BY DEF Open, RepeatsDue, ChargesDue
<1>4. \A q \in Senders : repeats[q] = 0 /\ charges[q] = 0
  BY <1>3 DEF LedgerInv, Book
<1> QED BY <1>1, <1>2, <1>4 DEF Unjudged, Again

(* validateMessage makes a record and changes nothing of one.              *)
LEMMA ValidatedStep ==
  ASSUME LedgerInv, TellValidated, UNCHANGED heard
  PROVE  RecordTyped' /\ Book'
<1>1. RecordTyped
  BY TypeParts DEF LedgerInv
<1>2. ofEntry' \in BOOLEAN /\ status' \in {"none", "unknown"} \cup Verdicts
  BY <1>1 DEF TellValidated, MadeHere, RecordTyped
<1>3. RecordTyped'
  BY <1>1, <1>2, Zenon DEF RecordTyped, TellValidated, sums, heard
<1>4. Open' <=> Open
  BY DEF TellValidated, Open
<1>5. UNCHANGED <<tracked, repeats, charges, judged, early, timely, after, spared>>
      /\ (status' \in Verdicts \/ status \in Verdicts => status' = status) /\ status' # "none"
  BY DEF TellValidated, sums, heard, Verdicts
<1>6. \A q \in Senders : RepeatsDue(q)' = RepeatsDue(q) /\ ChargesDue(q)' = ChargesDue(q)
  BY <1>5 DEF RepeatsDue, ChargesDue, Verdicts
<1>7. Book'
  BY <1>4, <1>5, <1>6 DEF LedgerInv, Book, Unjudged, Again, Verdicts, Nobody
<1> QED BY <1>3, <1>7

(* A delivery credits all that were tracked, or finds the verdict given.   *)
LEMMA DeliveredStep ==
  ASSUME LedgerInv, NEW p \in Senders, NEW n \in Nat, TellDelivered(p, n), NoteDelivered(p)
  PROVE  RecordTyped' /\ Book' /\ (Open => judged' = {p} /\ status' = "valid") /\ spared' = spared
<1>t. RecordTyped  BY TypeParts DEF LedgerInv
<1>o. ofEntry' \in BOOLEAN
  BY DEF TellDelivered, MadeHere
<1>1. CASE Open
  <2>1. /\ \A q \in Senders : repeats[q] = 0 /\ charges[q] = 0 /\ after[q] = 0
        /\ judged = {} /\ early = tracked /\ timely = {} /\ spared = FALSE /\ Again = {}
    BY <1>1, OpenBook
  <2>2. repeats' = [q \in Senders |-> IF q \in tracked \ {p} THEN 1 ELSE 0]
    BY <1>1, <2>1 DEF TellDelivered, Reward
  <2>3. status' = "valid" /\ inWindow' = TRUE /\ judged' = {p}
        /\ UNCHANGED <<tracked, charges, early, timely, after, spared>>
    BY <1>1, <2>1 DEF TellDelivered, NoteDelivered
  <2>4. RecordTyped'
    BY <1>t, <1>o, <2>2, <2>3 DEF RecordTyped, Verdicts
  <2>5. \A q \in Senders : repeats'[q] = RepeatsDue(q)' /\ charges'[q] = ChargesDue(q)'
    BY <2>1, <2>2, <2>3 DEF RepeatsDue, ChargesDue
  <2>6. Book'
    BY <2>1, <2>3, <2>5 DEF Book, Open, Again
  <2> QED BY <2>3, <2>4, <2>6
<1>2. CASE ~Open
  <2>1. judged # {}
    BY <1>2 DEF LedgerInv, Book
  <2>2. UNCHANGED <<status, inWindow, repeats, tracked, charges, judged, early, timely, after, spared>>
    BY <1>2, <2>1 DEF TellDelivered, NoteDelivered
  <2>3. RecordTyped'
    BY <1>t, <1>o, <2>2, Zenon DEF RecordTyped
  <2>4. Book'
    BY <2>2 DEF LedgerInv, Book, Open, Unjudged, Again, RepeatsDue, ChargesDue, Nobody
  <2> QED BY <1>2, <2>2, <2>3, <2>4
<1> QED BY <1>1, <1>2

(* A refusal charges all that were tracked, or finds the verdict given.    *)
LEMMA RejectedStep ==
  ASSUME LedgerInv, NEW p \in Senders, NEW v \in {"invalid", "ignored"}, TellRejected(p, v), NoteRejected(p)
  PROVE  RecordTyped' /\ Book' /\ (Open => spared' = spared /\ status' = v)
<1>t. RecordTyped  BY TypeParts DEF LedgerInv
<1>o. ofEntry' \in BOOLEAN
  BY DEF TellRejected, MadeHere
<1>n. MaxRepeats \in Nat
  BY LedgerAssumption
<1>1. CASE Open
  <2>1. /\ \A q \in Senders : repeats[q] = 0 /\ charges[q] = 0 /\ after[q] = 0
        /\ judged = {} /\ early = tracked /\ timely = {} /\ spared = FALSE /\ Again = {}
    BY <1>1, OpenBook
  <2>2. /\ status' = v /\ tracked' = {} /\ judged' = {p} /\ spared' = spared
        /\ UNCHANGED <<inWindow, repeats, early, timely, after>>
    BY <1>1, <2>1 DEF TellRejected, NoteRejected
  <2>3. charges' = [q \in Senders |-> IF v = "invalid"
                      THEN (IF q = p THEN 1 ELSE 0) + (IF q \in tracked THEN 1 ELSE 0) ELSE 0]
    <3>1. CASE v = "invalid"
      BY <1>1, <2>1, <3>1 DEF TellRejected, Blame
    <3>2. CASE v # "invalid"
      BY <1>t, <1>1, <2>1, <3>2 DEF TellRejected, RecordTyped
    <3> QED BY <3>1, <3>2
  <2>4. charges' \in [Senders -> 0..(MaxRepeats + 2)]
    BY <1>n, <2>3
  <2>5. RecordTyped'
    BY <1>t, <1>o, <2>2, <2>4 DEF RecordTyped, Verdicts
  <2>6. \A q \in Senders : repeats'[q] = RepeatsDue(q)' /\ charges'[q] = ChargesDue(q)'
    BY <2>1, <2>2, <2>3 DEF RepeatsDue, ChargesDue
  <2>7. Book'
    BY <2>1, <2>2, <2>6 DEF Book, Open, Again
  <2> QED BY <2>2, <2>5, <2>7
<1>2. CASE ~Open
  <2>1. judged # {}
    BY <1>2 DEF LedgerInv, Book
  <2>2. UNCHANGED <<status, tracked, charges, inWindow, repeats, judged, early, timely, after>> /\ spared' = TRUE
    BY <1>2, <2>1 DEF TellRejected, NoteRejected
  <2>3. RecordTyped'
    BY <1>t, <1>o, <2>2 DEF RecordTyped
  <2>4. Book'
    BY <1>2, <2>2 DEF LedgerInv, Book, Open, Again, RepeatsDue, ChargesDue
  <2> QED BY <1>2, <2>3, <2>4
<1> QED BY <1>1, <1>2

(* A duplicate is tracked, credited, charged or neither, by the verdict.   *)
LEMMA DuplicateStep ==
  ASSUME LedgerInv, NEW p \in Senders, TellDuplicate(p), NoteDuplicate(p)
  PROVE  RecordTyped' /\ Book' /\ (Open => Open') /\ UNCHANGED <<judged, spared>>
<1>t. RecordTyped  BY TypeParts DEF LedgerInv
<1>o. ofEntry' \in BOOLEAN
  BY DEF TellDuplicate, MadeHere
<1>n. MaxRepeats \in Nat
  BY LedgerAssumption
<1>s. UNCHANGED <<inWindow, judged, spared>>
  BY DEF TellDuplicate, NoteDuplicate
<1>1. CASE Open
  <2>1. /\ \A q \in Senders : repeats[q] = 0 /\ charges[q] = 0 /\ after[q] = 0
        /\ judged = {} /\ early = tracked /\ timely = {} /\ spared = FALSE /\ Again = {}
    BY <1>1, OpenBook
  <2>2. UNCHANGED <<repeats, charges, timely, after>> /\ early' = tracked \cup {p} /\ tracked' = tracked \cup {p}
        /\ status' = "unknown"
    <3>1. UNCHANGED <<timely, after>> /\ early' = tracked \cup {p}
      BY <2>1 DEF NoteDuplicate
    <3>2. p \in tracked => status = "unknown"
      BY <1>1 DEF LedgerInv, Book, Open
    <3> QED BY <1>1, <3>1, <3>2 DEF TellDuplicate, NewDuplicate, Open
  <2>3. RecordTyped'
    BY <1>t, <1>o, <1>s, <2>1, <2>2 DEF RecordTyped
  <2>4. \A q \in Senders : repeats'[q] = RepeatsDue(q)' /\ charges'[q] = ChargesDue(q)'
    BY <2>1, <2>2 DEF RepeatsDue, ChargesDue
  <2>5. after = Nobody
    BY <1>1 DEF LedgerInv, Book, Unjudged
  <2>6. Book' /\ Open'
    BY <1>s, <2>1, <2>2, <2>4, <2>5 DEF Book, Open, Unjudged, Again, Nobody
  <2> QED BY <1>s, <2>3, <2>6
<1>2. CASE ~Open
  <2>1. /\ after[p] < MaxRepeats /\ after' = [after EXCEPT ![p] = @ + 1] /\ early' = early
        /\ timely' = IF after[p] = 0 /\ inWindow THEN timely \cup {p} ELSE timely
    BY <1>2 DEF LedgerInv, Book, NoteDuplicate
  <2>2. after[p] \in 0..MaxRepeats /\ p \in DOMAIN after
    BY <1>t DEF RecordTyped
  <2>3. after' \in [Senders -> 0..MaxRepeats]
    <3>1. after[p] + 1 \in 0..MaxRepeats
      BY <1>n, <2>1, <2>2
    <3> QED BY <1>t, <2>1, <3>1 DEF RecordTyped
  <2>4. Again' = Again \cup {p}
    BY <1>t, <2>1, <2>2 DEF Again, RecordTyped
  <2>5. timely' \subseteq Again' /\ timely' \subseteq Senders
    BY <1>t, <2>1, <2>4 DEF LedgerInv, Book, RecordTyped
  <2>6. \A q \in Senders : repeats[q] = RepeatsDue(q) /\ charges[q] = ChargesDue(q)
    BY DEF LedgerInv, Book
  <2>7. status' = status /\ status \in Verdicts
    BY <1>t, <1>2 DEF TellDuplicate, NewDuplicate, RecordTyped, Open, Verdicts
  <2>8. CASE status = "valid"
    <3>1. tracked = early \cup Again
      BY <2>8 DEF LedgerInv, Book
    <3>2. tracked' = tracked \cup {p} /\ charges' = charges
      BY <1>2, <2>8 DEF TellDuplicate, NewDuplicate
    <3>3. \A q \in Senders : repeats'[q] = RepeatsDue(q)' /\ repeats' \in [Senders -> 0..1]
      <4>1. CASE p \in tracked
        <5>1. repeats' = repeats
          BY <4>1 DEF TellDuplicate, NewDuplicate
        <5>2. timely' \ early' = timely \ early
          BY <2>1, <2>2, <3>1, <4>1 DEF Again
        <5>3. \A q \in Senders : RepeatsDue(q)' = RepeatsDue(q)
          BY <1>s, <2>1, <2>7, <5>2 DEF RepeatsDue
        <5> QED BY <1>t, <2>6, <5>1, <5>3 DEF RecordTyped
      <4>2. CASE p \notin tracked
        <5>1. repeats' = [repeats EXCEPT ![p] = IF inWindow THEN @ + 1 ELSE @]
          BY <2>8, <4>2 DEF TellDuplicate, NewDuplicate, Open
        <5>2. p \notin early /\ p \notin timely /\ after[p] = 0
          BY <1>t, <2>2, <3>1, <4>2 DEF LedgerInv, Book, Again
        <5>3. repeats[p] = 0
          BY <2>6, <5>2 DEF RepeatsDue
        <5>4. repeats' = [repeats EXCEPT ![p] = IF inWindow THEN 1 ELSE 0]
          BY <5>1, <5>3
        <5>5. timely' = IF inWindow THEN timely \cup {p} ELSE timely
          BY <2>1, <5>2
        <5>6. RepeatsDue(p)' = IF inWindow THEN 1 ELSE 0
          BY <1>s, <2>1, <2>7, <2>8, <5>2, <5>5 DEF RepeatsDue
        <5>7. \A q \in Senders \ {p} : RepeatsDue(q)' = RepeatsDue(q)
          BY <1>s, <2>1, <2>7, <5>5 DEF RepeatsDue
        <5>8. repeats' \in [Senders -> 0..1]
          BY <1>t, <5>4 DEF RecordTyped
        <5>9. repeats'[p] = IF inWindow THEN 1 ELSE 0
          BY <1>t, <5>4 DEF RecordTyped
        <5>10. \A q \in Senders \ {p} : repeats'[q] = repeats[q]
          BY <1>t, <5>4 DEF RecordTyped
        <5> QED BY <2>6, <5>6, <5>7, <5>8, <5>9, <5>10
      <4> QED BY <4>1, <4>2
    <3>4. \A q \in Senders : charges'[q] = ChargesDue(q)'
      BY <2>6, <2>7, <2>8, <3>2 DEF ChargesDue
    <3>5. RecordTyped'
      BY <1>t, <1>o, <1>s, <2>1, <2>3, <2>5, <2>7, <3>2, <3>3 DEF RecordTyped
    <3>6. Book'
      BY <1>2, <1>s, <2>1, <2>4, <2>5, <2>7, <2>8, <3>1, <3>2, <3>3, <3>4 DEF LedgerInv, Book, Open
    <3> QED BY <1>2, <1>s, <3>5, <3>6
  <2>9. CASE status \in {"invalid", "ignored"}
    <3>1. tracked = {} /\ tracked' = {} /\ repeats' = repeats
          /\ charges' = IF status = "invalid" THEN [charges EXCEPT ![p] = @ + 1] ELSE charges
      BY <2>9 DEF LedgerInv, Book, TellDuplicate, NewDuplicate, Open
    <3>2. \A q \in Senders : repeats'[q] = RepeatsDue(q)'
      BY <2>6, <2>7, <2>9, <3>1 DEF RepeatsDue
    <3>3. \A q \in Senders : charges'[q] = ChargesDue(q)'
      <4>1. CASE status = "ignored"
        BY <2>6, <2>7, <3>1, <4>1 DEF ChargesDue
      <4>2. CASE status = "invalid"
        <5>1. charges' = [charges EXCEPT ![p] = @ + 1] /\ charges \in [Senders -> 0..(MaxRepeats + 2)]
          BY <1>t, <3>1, <4>2 DEF RecordTyped
        <5>2. \A q \in Senders \ {p} : charges'[q] = charges[q] /\ after'[q] = after[q]
          BY <1>t, <2>1, <5>1 DEF RecordTyped
        <5>3. charges'[p] = charges[p] + 1 /\ after'[p] = after[p] + 1
          BY <1>t, <2>1, <5>1 DEF RecordTyped
        <5>4. \A q \in Senders \ {p} : ChargesDue(q)' = ChargesDue(q)
          BY <1>s, <2>1, <2>7, <5>2 DEF ChargesDue
        <5>5. ChargesDue(p)' = ChargesDue(p) + 1
          BY <1>s, <2>1, <2>2, <2>7, <4>2, <5>3 DEF ChargesDue
        <5> QED BY <2>6, <5>2, <5>3, <5>4, <5>5
      <4> QED BY <2>9, <4>1, <4>2
    <3>4. charges' \in [Senders -> 0..(MaxRepeats + 2)]
      <4>1. \A q \in Senders : ChargesDue(q)' \in 0..(MaxRepeats + 2)
        BY <1>n, <2>3 DEF ChargesDue
      <4>2. charges' = [q \in Senders |-> charges'[q]]
        BY <1>t, <3>1 DEF RecordTyped
      <4> QED BY <3>3, <4>1, <4>2
    <3>5. RecordTyped'
      BY <1>t, <1>o, <1>s, <2>1, <2>3, <2>5, <2>7, <3>1, <3>4 DEF RecordTyped
    <3>6. Book'
      BY <1>2, <1>s, <2>1, <2>5, <2>7, <2>9, <3>1, <3>2, <3>3 DEF LedgerInv, Book, Open
    <3> QED BY <1>2, <1>s, <3>5, <3>6
  <2> QED BY <2>7, <2>8, <2>9 DEF Verdicts
<1> QED BY <1>1, <1>2

(* Steps that tell PeerScore nothing leave record and sums alone.          *)
LEMMA Unrecorded ==
  ASSUME LedgerInv, UNCHANGED <<status, tracked, ofEntry, repeats, charges, heard>>, inWindow' \in BOOLEAN
  PROVE  RecordTyped' /\ Book'
<1>1. RecordTyped'
  BY TypeParts, Zenon DEF LedgerInv, RecordTyped, heard
<1>2. Book'
  BY DEF LedgerInv, Book, Open, Unjudged, Again, RepeatsDue, ChargesDue, Nobody, heard
<1> QED BY <1>1, <1>2

(* The invariant is inductive: one step per action of index.ts and of time. *)
LEMMA Step == LedgerInv /\ [LedgerNext]_ledgerVars => LedgerInv'
<1> SUFFICES ASSUME LedgerInv, [LedgerNext]_ledgerVars PROVE LedgerInv'
  OBVIOUS
<1>i. Flow /\ FlowTyped /\ RecordTyped /\ Book
  BY TypeParts DEF LedgerInv
<1>p. FlowTyped' /\ RecordTyped' /\ Book' /\ Flow' => LedgerInv'
  BY TypeParts DEF LedgerInv, LedgerTypeOK, RecordTyped, FlowTyped, Flow, FirstsOf
<1>f. asyncMode' = asyncMode => \A S : FirstsOf(S)' = FirstsOf(S)
  BY DEF FirstsOf
<1>b. status = "none" => Open /\ spared = FALSE
  BY <1>i DEF Book, Open, Unjudged
<1>0. CASE UNCHANGED ledgerVars
  <2>1. UNCHANGED <<flowVars, drecVars, sums, heard>>
    BY <1>0 DEF ledgerVars
  <2>2. RecordTyped' /\ Book'
    BY <1>i, <2>1, Unrecorded DEF drecVars, sums, RecordTyped
  <2>3. FlowTyped'
    BY <1>i, <2>1 DEF FlowTyped, flowVars
  <2>4. Flow'
    BY <1>i, <2>1 DEF Flow, Idle, Open, FirstsOf, flowVars, drecVars, sums, heard
  <2> QED BY <1>p, <2>2, <2>3, <2>4
(* What every delivery of a copy and every refusal of one have in common.  *)
<1>d. ASSUME NEW p \in Senders, NEW n \in Nat, TellDelivered(p, n), NoteDelivered(p),
             firsts = FirstsOf({}), ofEntry => Open, n = (IF asyncMode THEN 2 ELSE 1),
             Idle', seenEntry' = "fresh", asyncMode' = asyncMode, FlowTyped'
      PROVE  LedgerInv'
  <2>1. RecordTyped' /\ Book' /\ (Open => judged' = {p} /\ status' = "valid") /\ spared' = spared
    BY <1>d, DeliveredStep
  <2>2. firsts' = FirstsOf({p})
    BY <1>d DEF TellDelivered, FirstsOf
  <2>3. status' # "none" /\ (ofEntry' => Open)
    BY <1>d DEF TellDelivered, MadeHere, Open
  <2>4. spared' => ~ofEntry'
    BY <1>i, <1>d, <2>1 DEF Flow, TellDelivered, MadeHere, Book, Open, Unjudged
  <2>5. firsts' \in {FirstsOf({})'} \cup {FirstsOf({q})' : q \in Senders}
    BY <1>d, <2>2 DEF FirstsOf
  <2>6. ofEntry' /\ ~Open' => firsts' = FirstsOf(IF status = "valid" THEN judged ELSE {})'
    <3> SUFFICES ASSUME ofEntry' PROVE firsts' = FirstsOf(IF status = "valid" THEN judged ELSE {})'
      OBVIOUS
    <3>1. judged' = {p} /\ status' = "valid"
      BY <2>1, <2>3
    <3> QED BY <1>d, <2>2, <3>1 DEF FirstsOf
  <2>7. Flow'
    BY <1>d, <2>3, <2>4, <2>5, <2>6 DEF Flow, Idle
  <2> QED BY <1>p, <1>d, <2>1, <2>7
<1>r. ASSUME NEW p \in Senders, NEW v \in {"invalid", "ignored"}, TellRejected(p, v), NoteRejected(p),
             firsts = FirstsOf({}), ofEntry => Open,
             Idle', seenEntry' = "fresh", asyncMode' = asyncMode, FlowTyped'
      PROVE  LedgerInv'
  <2>1. RecordTyped' /\ Book' /\ (Open => spared' = spared /\ status' = v)
    BY <1>r, RejectedStep
  <2>2. status' # "none" /\ (ofEntry' => Open) /\ firsts' = firsts
    BY <1>r DEF TellRejected, MadeHere, Open
  <2>3. firsts' = FirstsOf({})'
    BY <1>f, <1>r, <2>2
  <2>4. spared' => ~ofEntry'
    BY <1>b, <1>i, <1>r, <2>1, <2>2 DEF Flow, TellRejected, MadeHere, Book, Open, Unjudged
  <2>5. ofEntry' => firsts' = FirstsOf(IF status = "valid" THEN judged ELSE {})'
    <3> SUFFICES ASSUME ofEntry' PROVE firsts' = FirstsOf(IF status = "valid" THEN judged ELSE {})'
      OBVIOUS
    <3>1. status' # "valid"
      BY <2>1, <2>2
    <3> QED BY <1>r, <2>3, <3>1 DEF FirstsOf
  <2>6. Flow'
    BY <1>r, <2>2, <2>3, <2>4, <2>5 DEF Flow, Idle
  <2> QED BY <1>p, <1>r, <2>1, <2>6
(* And every step that tells PeerScore nothing while the entry goes on.    *)
<1>q. ASSUME UNCHANGED <<drecVars, sums, heard>>, asyncMode' = asyncMode, FlowTyped',
             seenEntry' \in {"none", "due"} => Idle', seenEntry' = "none" => seenEntry = "none",
             ~Idle' => ~Idle \/ seenEntry = "none",
             atValidator' # {} => atApp' = {}, atApp' # {} => asyncMode
      PROVE  LedgerInv'
  <2>1. RecordTyped' /\ Book'
    BY <1>i, <1>q, Unrecorded DEF drecVars, sums, RecordTyped
  <2>2. UNCHANGED <<status, ofEntry, firsts, judged, spared, asyncMode>> /\ (Open' <=> Open)
    BY <1>q DEF drecVars, sums, heard, Open
  <2>3. ~Idle' => firsts' = FirstsOf({})' /\ (ofEntry' => Open')
    BY <1>f, <1>i, <1>q, <2>2 DEF Flow
  <2>4. seenEntry' = "none" => ~ofEntry' /\ firsts' = FirstsOf({})'
    BY <1>f, <1>i, <1>q, <2>2 DEF Flow
  <2>5. firsts' \in {FirstsOf({})'} \cup {FirstsOf({c})' : c \in Senders}
    BY <1>i, <2>2 DEF Flow, FirstsOf
  <2>6. ofEntry' /\ ~Open' => firsts' = FirstsOf(IF status = "valid" THEN judged ELSE {})'
    BY <1>i, <2>2 DEF Flow, FirstsOf
  <2>7. Flow'
    BY <1>i, <1>q, <2>2, <2>3, <2>4, <2>5, <2>6 DEF Flow
  <2> QED BY <1>p, <1>q, <2>1, <2>7
<1>t. ASSUME NEW p \in Senders, TakeValid(p), Idle \/ (p \in atValidator /\ atValidator' = {}),
             asyncMode' = asyncMode, firsts = FirstsOf({}), ofEntry => Open,
             Idle => UNCHANGED atValidator, seenEntry' = "fresh"
      PROVE  LedgerInv'
  <2>1. atApp = {} /\ atValidator' = {}  BY <1>i, <1>t DEF Flow, Idle
  <2>2. CASE asyncMode
    <3>1. TellValidated /\ UNCHANGED heard /\ cached' = TRUE /\ (atApp' = {p} \/ atApp' = {})
      BY <1>t, <2>1, <2>2 DEF TakeValid
    <3>2. RecordTyped' /\ Book'  BY <3>1, ValidatedStep
    <3>3. firsts' = FirstsOf({})' /\ spared' = spared /\ status' # "none" /\ (Open' <=> Open)
      BY <1>f, <1>t, <3>1 DEF TellValidated, sums, heard, Open
    <3>4. ofEntry' => Open'
      BY <1>t, <3>1 DEF TellValidated, MadeHere, Open
    <3>5. FlowTyped'
      BY <1>i, <1>t, <2>1, <3>1 DEF FlowTyped
    <3>6. spared' => ~ofEntry'
      BY <1>b, <1>i, <3>1, <3>3 DEF TellValidated, MadeHere, Flow
    <3>7. Flow'
      BY <1>t, <2>1, <2>2, <3>3, <3>4, <3>6 DEF Flow
    <3> QED BY <1>p, <3>2, <3>5, <3>7
  <2>3. CASE ~asyncMode
    <3>1. TellDelivered(p, 1) /\ NoteDelivered(p) /\ cached' = TRUE /\ atApp' = {}
      BY <1>t, <2>1, <2>3 DEF TakeValid
    <3>2. FlowTyped' /\ Idle'
      BY <1>i, <1>t, <2>1, <3>1 DEF FlowTyped, Idle
    <3> QED BY <1>d, <1>t, <2>3, <3>1, <3>2
  <2> QED BY <2>2, <2>3
<1>1. ASSUME NEW p \in Senders, FirstCopyValid(p)  PROVE LedgerInv'
  <2>1. Idle /\ firsts = FirstsOf({}) /\ (ofEntry => Open)
    BY <1>i, <1>1 DEF FirstCopyValid, Flow
  <2> QED BY <1>1, <1>t, <2>1 DEF FirstCopyValid
<1>2. ASSUME NEW p \in Senders, ValidatorApproves(p)  PROVE LedgerInv'
  <2>1. seenEntry = "fresh" /\ firsts = FirstsOf({}) /\ (ofEntry => Open) /\ ~Idle
    BY <1>i, <1>2 DEF ValidatorApproves, Flow, FlowTyped, Idle
  <2> QED BY <1>2, <1>t, <2>1 DEF ValidatorApproves
<1>3. ASSUME NEW p \in Senders, FirstCopyValidated(p)  PROVE LedgerInv'
  <2>1. FlowTyped' /\ atApp = {} /\ atApp' = {}
    BY <1>i, <1>3 DEF FirstCopyValidated, FlowTyped, Flow, Idle
  <2>2. UNCHANGED <<drecVars, sums, heard>> /\ asyncMode' = asyncMode /\ seenEntry = "none" /\ seenEntry' = "fresh"
    BY <1>3 DEF FirstCopyValidated
  <2> QED BY <1>q, <2>1, <2>2
<1>4. ASSUME NEW p \in Senders, SeenCopy(p)  PROVE LedgerInv'
  <2>1. RecordTyped' /\ Book' /\ (Open => Open') /\ UNCHANGED <<judged, spared>>
    BY <1>4, DuplicateStep DEF SeenCopy
  <2>2. FlowTyped' /\ UNCHANGED <<seenEntry, atValidator, atApp, asyncMode, firsts>>
    BY <1>i, <1>4 DEF SeenCopy, TellDuplicate, FlowTyped, flowVars
  <2>3. status' # "none" /\ (~Open => status' = status)
    BY <1>i, <1>4 DEF SeenCopy, TellDuplicate, NewDuplicate, Open, Book
  <2>4. ofEntry' => ofEntry \/ status = "none"
    BY <1>4 DEF SeenCopy, TellDuplicate, MadeHere
  <2>5. firsts' \in {FirstsOf({})'} \cup {FirstsOf({q})' : q \in Senders}
    BY <1>i, <2>2 DEF Flow, FirstsOf
  <2>6. ofEntry' /\ ~Open' => firsts' = FirstsOf(IF status = "valid" THEN judged ELSE {})'
    <3> SUFFICES ASSUME ofEntry', ~Open' PROVE firsts' = FirstsOf(IF status = "valid" THEN judged ELSE {})'
      OBVIOUS
    <3>1. ~Open /\ ofEntry /\ status' = status
      BY <1>b, <2>1, <2>3, <2>4
    <3> QED BY <1>i, <2>1, <2>2, <3>1 DEF Flow, FirstsOf
  <2>7. seenEntry # "none" /\ (~Idle' => ~Idle) /\ (Idle => Idle')
    BY <1>4, <2>2 DEF SeenCopy, Idle
  <2>8. ~Idle' => firsts' = FirstsOf({})' /\ (ofEntry' => Open')
    BY <1>b, <1>f, <1>i, <2>1, <2>2, <2>4, <2>7 DEF Flow
  <2>9. spared' => ~ofEntry'
    BY <1>b, <1>i, <2>1, <2>4 DEF Flow
  <2>10. Flow'
    BY <1>i, <2>2, <2>3, <2>5, <2>6, <2>7, <2>8, <2>9 DEF Flow
  <2> QED BY <1>p, <2>1, <2>2, <2>10
<1>5. ASSUME NEW p \in Senders, NEW v \in {"invalid", "ignored"}, ValidatorDenies(p, v)  PROVE LedgerInv'
  <2>1. seenEntry = "fresh" /\ firsts = FirstsOf({}) /\ (ofEntry => Open) /\ Idle'
    BY <1>i, <1>5 DEF ValidatorDenies, Flow, FlowTyped, Idle
  <2>2. FlowTyped'
    BY <1>i, <1>5 DEF ValidatorDenies, FlowTyped
  <2> QED BY <1>5, <1>r, <2>1, <2>2 DEF ValidatorDenies
<1>6. ASSUME NEW p \in Senders, AppAccepts(p)  PROVE LedgerInv'
  <2>1. /\ seenEntry = "fresh" /\ firsts = FirstsOf({}) /\ (ofEntry => Open) /\ asyncMode /\ Idle'
        /\ seenEntry' = seenEntry /\ asyncMode' = asyncMode
    BY <1>i, <1>6 DEF AppAccepts, Flow, FlowTyped, Idle
  <2>2. FlowTyped'
    BY <1>i, <1>6 DEF AppAccepts, FlowTyped
  <2>3. CASE cached
    <3>1. TellDelivered(p, 2) /\ NoteDelivered(p)  BY <1>6, <2>3 DEF AppAccepts
    <3> QED BY <1>d, <2>1, <2>2, <3>1
  <2>4. CASE ~cached
    <3>1. UNCHANGED <<drecVars, sums, heard>>  BY <1>6, <2>4 DEF AppAccepts
    <3>2. atValidator' = {} /\ atApp' = {}  BY <2>1 DEF Idle
    <3> QED BY <1>q, <2>1, <2>2, <3>1, <3>2
  <2> QED BY <2>3, <2>4
<1>7. ASSUME NEW p \in Senders, NEW v \in {"invalid", "ignored"}, AppRefuses(p, v)  PROVE LedgerInv'
  <2>1. /\ seenEntry = "fresh" /\ firsts = FirstsOf({}) /\ (ofEntry => Open) /\ Idle'
        /\ seenEntry' = seenEntry /\ asyncMode' = asyncMode
    BY <1>i, <1>7 DEF AppRefuses, Flow, FlowTyped, Idle
  <2>2. FlowTyped'
    BY <1>i, <1>7 DEF AppRefuses, FlowTyped
  <2>3. CASE cached
    BY <1>7, <1>r, <2>1, <2>2, <2>3 DEF AppRefuses
  <2>4. CASE ~cached
    <3>1. UNCHANGED <<drecVars, sums, heard>>  BY <1>7, <2>4 DEF AppRefuses
    <3>2. atValidator' = {} /\ atApp' = {}  BY <2>1 DEF Idle
    <3> QED BY <1>q, <2>1, <2>2, <3>1, <3>2
  <2> QED BY <2>3, <2>4
<1>8. CASE PublishedByUs \/ LeavesCache \/ SeenEntryDue
  <2>1. UNCHANGED <<drecVars, sums, heard>> /\ UNCHANGED <<asyncMode, atValidator, atApp>>
        /\ (seenEntry' \in {"none", "due"} => Idle') /\ (seenEntry' = "none" => seenEntry = "none")
    BY <1>i, <1>8 DEF PublishedByUs, LeavesCache, SeenEntryDue, Idle, Flow
  <2>2. FlowTyped'
    BY <1>i, <1>8 DEF PublishedByUs, LeavesCache, SeenEntryDue, FlowTyped
  <2>3. (~Idle' => ~Idle) /\ (atValidator # {} => atApp = {}) /\ (atApp # {} => asyncMode)
    BY <1>i, <2>1 DEF Flow, Idle
  <2> QED BY <1>q, <2>1, <2>2, <2>3
<1>9. CASE SeenEntryDropped
  <2>1. /\ Idle /\ Idle' /\ ofEntry' = FALSE /\ firsts' = Nobody /\ asyncMode' = asyncMode
        /\ UNCHANGED <<status, tracked, inWindow, repeats, charges, heard>>
    BY <1>i, <1>9 DEF SeenEntryDropped, Flow, Idle
  <2>2. RecordTyped' /\ FlowTyped'
    BY <1>i, <1>9, <2>1, Zenon DEF SeenEntryDropped, RecordTyped, FlowTyped, heard
  <2>3. Book'
    BY <1>i, <2>1 DEF Book, Open, Unjudged, Again, RepeatsDue, ChargesDue, Nobody, heard
  <2>4. firsts' = FirstsOf({})'
    BY <2>1 DEF FirstsOf, Nobody
  <2>5. Flow'
    BY <2>1, <2>4 DEF Flow, Idle
  <2> QED BY <1>p, <2>2, <2>3, <2>5
<1>10. CASE WindowEnds
  <2>1. UNCHANGED <<status, tracked, ofEntry, sums, heard>> /\ UNCHANGED flowVars /\ inWindow' = FALSE
    BY <1>10 DEF WindowEnds
  <2>2. RecordTyped' /\ Book'
    BY <2>1, Unrecorded DEF sums
  <2>3. FlowTyped' /\ Flow'
    BY <1>i, <2>1 DEF FlowTyped, Flow, Idle, Open, FirstsOf, flowVars, sums, heard
  <2> QED BY <1>p, <2>2, <2>3
<1>11. CASE RecordDropped
  <2>1. /\ repeats' = Nobody /\ charges' = Nobody /\ after' = Nobody /\ judged' = {} /\ early' = {}
        /\ timely' = {} /\ spared' = FALSE /\ tracked' = {} /\ status' = "none" /\ inWindow' = FALSE
        /\ ofEntry' = FALSE /\ UNCHANGED flowVars /\ firsts' = firsts /\ (ofEntry => seenEntry = "due")
    BY <1>11 DEF RecordDropped
  <2>2. Nobody \in [Senders -> 0..1] /\ Nobody \in [Senders -> 0..MaxRepeats]
        /\ Nobody \in [Senders -> 0..(MaxRepeats + 2)] /\ \A q \in Senders : Nobody[q] = 0
    BY LedgerAssumption DEF Nobody
  <2>3. RecordTyped'
    BY <2>1, <2>2 DEF RecordTyped
  <2>4. Again' = {}
    BY <2>1, <2>2 DEF Again
  <2>5. \A q \in Senders : RepeatsDue(q)' = 0 /\ ChargesDue(q)' = 0
    BY <2>1 DEF RepeatsDue, ChargesDue
  <2>6. Nobody' = Nobody
    BY DEF Nobody
  <2>7. Book'
    BY <2>1, <2>2, <2>4, <2>5, <2>6 DEF Book, Open, Unjudged
  <2>8. FlowTyped' /\ UNCHANGED <<seenEntry, atValidator, atApp, asyncMode>>
    BY <1>i, <2>1 DEF FlowTyped, flowVars
  <2>9. firsts' \in {FirstsOf({})'} \cup {FirstsOf({q})' : q \in Senders}
        /\ (seenEntry' = "none" \/ ~Idle' => firsts' = FirstsOf({})')
    BY <1>i, <2>1, <2>8 DEF Flow, FirstsOf, Idle
  <2>10. Flow'
    BY <1>i, <2>1, <2>8, <2>9 DEF Flow, Idle
  <2> QED BY <1>p, <2>3, <2>7, <2>8, <2>10
<1> QED
  BY <1>0, <1>1, <1>2, <1>3, <1>4, <1>5, <1>6, <1>7, <1>8, <1>9, <1>10, <1>11 DEF LedgerNext

(* The verdict on a message credits and charges everyone who sent a copy    *)
(* exactly as often as it should, for any number of peers and copies.      *)
THEOREM VerdictsReachAll == LedgerSpec => []VerdictReachesAll
<1>1. LedgerInit => LedgerInv
  <2> SUFFICES ASSUME LedgerInit PROVE LedgerInv
    OBVIOUS
  <2>1. Nobody \in [Senders -> 0..1] /\ Nobody \in [Senders -> 0..MaxRepeats]
        /\ Nobody \in [Senders -> 0..(MaxRepeats + 2)] /\ \A q \in Senders : Nobody[q] = 0
    BY LedgerAssumption DEF Nobody
  <2>2. asyncMode \in BOOLEAN
    BY LedgerAssumption DEF LedgerInit
  <2>3. FlowTyped
    BY <2>2 DEF LedgerInit, FlowTyped
  <2>4. RecordTyped
    BY <2>1 DEF LedgerInit, RecordTyped
  <2>5. firsts = FirstsOf({})
    BY DEF LedgerInit, FirstsOf, Nobody
  <2>6. Flow
    BY <2>5 DEF LedgerInit, Flow, Idle
  <2>7. Again = {}
    BY <2>1 DEF LedgerInit, Again
  <2>8. \A q \in Senders : RepeatsDue(q) = 0 /\ ChargesDue(q) = 0
    BY DEF LedgerInit, RepeatsDue, ChargesDue
  <2>9. Book
    BY <2>1, <2>7, <2>8 DEF LedgerInit, Book, Open, Unjudged
  <2> QED BY <2>3, <2>4, <2>6, <2>9, TypeParts DEF LedgerInv
<1>2. LedgerInv => VerdictReachesAll
  BY DEF LedgerInv, Book, Flow, VerdictReachesAll
<1> QED BY <1>1, <1>2, Step, PTL DEF LedgerSpec
===============================================================================
