------------------------------- MODULE PeerScore -------------------------------
(***************************************************************************)
(* class PeerScore (src/src/score/peer-score.ts): what is remembered of    *)
(* each peer, how it decays, and when it is forgotten.  The operators are  *)
(* the methods of the class, as actions on its variables; who calls them   *)
(* is the business of the module that extends this one.                    *)
(*                                                                         *)
(* One topic is scored, and stats that do not exist yet are the default    *)
(* ones.  meshFailurePenalty, invalidMessageDeliveries and                 *)
(* behaviourPenalty, which all count against a peer, decay alike and have  *)
(* the same life, are one counter: penalty.  meshTime, which is read for   *)
(* mesh peers only, is 0 for others.  Time is counted in decay intervals   *)
(* and rounded up.                                                         *)
(***************************************************************************)
EXTENDS Integers, FiniteSets

CONSTANTS
  Peers, IPs,
  RetainScore,    \* intervals
  IPThreshold,    \* IPColocationFactorThreshold
  Threshold,      \* meshMessageDeliveriesThreshold
  Activation,     \* meshMessageDeliveriesActivation, in intervals
  FirstCap, MeshCap,   \* caps of the counters of deliveries
  MaxPenalty,     \* bound: the penalty counter
  MaxMeshTime,    \* bound: intervals of mesh time that are told apart
  TimeWeight, FirstWeight, MeshWeight, PenaltyWeight, IPWeight

ASSUME ScoreAssumption ==
  /\ {RetainScore, IPThreshold, Threshold, Activation, FirstCap, MeshCap, MaxPenalty, MaxMeshTime} \subseteq Nat
  /\ {TimeWeight, FirstWeight, MeshWeight, PenaltyWeight, IPWeight} \subseteq Nat
  /\ Activation < MaxMeshTime

VARIABLES
  known,       \* keys of peerStats
  stats,       \* values of peerStats, Fresh where there is none
  peerIPs,     \* IP -> peers tracked at it
  scoreCache   \* sign of the score cached and still valid, or "none"

scoreVars == <<known, stats, peerIPs, scoreCache>>

(* addPeer's stats; left is what is left of the retention (expire). *)
Fresh == [connected |-> TRUE, left |-> 0, knownIPs |-> {},
          inMesh |-> FALSE, meshTime |-> 0, active |-> FALSE,
          first |-> 0, mesh |-> 0, penalty |-> 0]

ScoreInit ==
  /\ known = {} /\ stats = [p \in Peers |-> Fresh]
  /\ peerIPs = [ip \in IPs |-> {}]
  /\ scoreCache = [p \in Peers |-> "none"]

(* ------------------------------- the score ------------------------------ *)

Capped(n, cap) == IF n < cap THEN n ELSE cap
Deficit(s) == IF s.active /\ s.mesh < Threshold THEN (Threshold - s.mesh) * (Threshold - s.mesh) ELSE 0

(* What a peer has earned by its own conduct: P1, P2, P3, and P3b, P4, P7. *)
Conduct(p) ==
  LET s == stats[p]
  IN  (IF s.inMesh THEN TimeWeight * s.meshTime ELSE 0) + FirstWeight * s.first
        - MeshWeight * Deficit(s) - PenaltyWeight * s.penalty

(* P6: crowded addresses count against whoever is known to use them. *)
Surplus(ip) == IF Cardinality(peerIPs[ip]) > IPThreshold THEN Cardinality(peerIPs[ip]) - IPThreshold ELSE 0
Crowded(p) == {ip \in stats[p].knownIPs : Surplus(ip) > 0}

(* A peer has one address at most, so the sum of P6 is one square. *)
ComputeScore(p) ==
  Conduct(p) - IF Crowded(p) = {} THEN 0 ELSE LET n == Surplus(CHOOSE ip \in Crowded(p) : TRUE) IN IPWeight * n * n

Sign(n) == IF n > 0 THEN "positive" ELSE IF n < 0 THEN "negative" ELSE "zero"

(* score(p): 0 for a stranger, the cached score as long as it is valid. *)
Score(p) ==
  IF p \notin known THEN "zero" ELSE IF scoreCache[p] # "none" THEN scoreCache[p] ELSE Sign(ComputeScore(p))

(* The cache once the scores of the peers in S have been asked for. *)
Asked(S) == [p \in Peers |-> IF p \in S \cap known THEN Score(p) ELSE scoreCache[p]]

(* ------------------------------ peers and IPs --------------------------- *)

Update(S, F(_)) == stats' = [p \in Peers |-> IF p \in S \cap known THEN F(stats[p]) ELSE stats[p]]
WithoutIPs(S) == [ip \in IPs |-> {p \in peerIPs[ip] : ~(p \in S /\ ip \in stats[p].knownIPs)}]

(* addPeer overwrites what was retained; addIP follows if the address has  *)
(* an IP.                                                                  *)
AddPeer(p, ips) ==
  /\ known' = known \cup {p}
  /\ stats' = [stats EXCEPT ![p] = [Fresh EXCEPT !.knownIPs = ips]]
  /\ peerIPs' = [ip \in IPs |-> IF ip \in ips THEN peerIPs[ip] \cup {p} ELSE peerIPs[ip]]
  /\ UNCHANGED scoreCache

(* Mutant: the mesh status is retained with the rest. *)
DepartedInMesh(s) == [s EXCEPT !.first = 0, !.connected = FALSE, !.left = RetainScore]

Departed(s) ==
  [s EXCEPT !.first = 0, !.penalty = @ + (IF s.inMesh THEN Deficit(s) ELSE 0),
            !.inMesh = FALSE, !.meshTime = 0, !.active = FALSE,
            !.connected = FALSE, !.left = RetainScore]

(* removePeer: a peer whose score is positive is forgotten, which leaves   *)
(* its cached score behind; others are retained.                           *)
RemovePeer(p) ==
  /\ p \in known
  /\ IF Score(p) = "positive"
     THEN /\ known' = known \ {p}
          /\ stats' = [stats EXCEPT ![p] = Fresh]
          /\ peerIPs' = WithoutIPs({p})
     ELSE Update({p}, Departed) /\ UNCHANGED <<known, peerIPs>>
  /\ scoreCache' = Asked({p})

(* Decay by a half, and to zero below one. *)
Decay(n) == n \div 2

Refreshed(s) ==
  IF ~s.connected THEN [s EXCEPT !.left = @ - 1]
  ELSE LET t == IF s.inMesh THEN Capped(s.meshTime + 1, MaxMeshTime) ELSE s.meshTime
       IN  [s EXCEPT !.first = Decay(@), !.mesh = Decay(@), !.penalty = Decay(@), !.meshTime = t,
                     !.active = @ \/ (s.inMesh /\ t > Activation)]

(* Mutant: whoever has no retention running is taken for expired. *)
ExpiredConnected == {p \in known : stats[p].left = 0}

(* Mutant: now >= expire. *)
ExpiredEarly == {p \in known : ~stats[p].connected /\ stats[p].left <= 1}

Expired == {p \in known : ~stats[p].connected /\ stats[p].left = 0}

(* Mutant: peers are forgotten but for their addresses. *)
RefreshScoresOnly ==
  /\ known' = known \ Expired
  /\ stats' = [p \in Peers |-> IF p \in Expired THEN Fresh ELSE IF p \in known THEN Refreshed(stats[p]) ELSE stats[p]]
  /\ scoreCache' = [p \in Peers |-> IF p \in Expired THEN "none" ELSE scoreCache[p]]
  /\ UNCHANGED peerIPs

(* refreshScores, run by the background timer every decay interval. *)
RefreshScores ==
  /\ known' = known \ Expired
  /\ stats' = [p \in Peers |-> IF p \in Expired THEN Fresh ELSE IF p \in known THEN Refreshed(stats[p]) ELSE stats[p]]
  /\ peerIPs' = WithoutIPs(Expired)
  /\ scoreCache' = [p \in Peers |-> IF p \in Expired THEN "none" ELSE scoreCache[p]]

(* A cached score is valid for scoreCacheValidityMs. *)
CacheExpires(p) ==
  /\ scoreCache[p] # "none"
  /\ scoreCache' = [scoreCache EXCEPT ![p] = "none"]
  /\ UNCHANGED <<known, stats, peerIPs>>

(* stop: the cache is not cleared. *)
ScoreStop ==
  /\ known' = {} /\ stats' = [p \in Peers |-> Fresh]
  /\ peerIPs' = [ip \in IPs |-> {}]
  /\ UNCHANGED scoreCache

(* ------------------------------- mesh and marks ------------------------- *)

Grafted(s) == [s EXCEPT !.inMesh = TRUE, !.meshTime = 0, !.active = FALSE]
Pruned(s) == [s EXCEPT !.penalty = @ + Deficit(s), !.active = FALSE, !.inMesh = FALSE, !.meshTime = 0]

Graft(S) == Update(S, Grafted) /\ UNCHANGED <<known, peerIPs>>
Prune(S) == Update(S, Pruned) /\ UNCHANGED <<known, peerIPs>>

(* Mutant: the counter is not capped. *)
CountedUncapped(s) == IF s.inMesh THEN [s EXCEPT !.mesh = @ + 1] ELSE s

Counted(s) == IF s.inMesh THEN [s EXCEPT !.mesh = Capped(@ + 1, MeshCap)] ELSE s
FirstMarked(s) == [Counted(s) EXCEPT !.first = Capped(@ + 1, FirstCap)]
Penalised(s, n) == [s EXCEPT !.penalty = @ + n]

(* deliverMessage: others had sent copies while it was being validated. *)
DeliverMessage(from, others) ==
  /\ stats' = [p \in Peers |-> IF p \notin known THEN stats[p]
                               ELSE IF p = from THEN FirstMarked(stats[p])
                               ELSE IF p \in others THEN Counted(stats[p]) ELSE stats[p]]
  /\ UNCHANGED <<known, peerIPs, scoreCache>>

(* rejectMessage: a sender that has sent a second copy counts twice. *)
RejectMessage(from, others) ==
  /\ stats' = [p \in Peers |-> IF p \notin known THEN stats[p]
                               ELSE Penalised(stats[p], (IF p = from THEN 1 ELSE 0) + (IF p \in others THEN 1 ELSE 0))]
  /\ UNCHANGED <<known, peerIPs, scoreCache>>

(* markDuplicateMessageDelivery in the window, markInvalidMessageDelivery, *)
(* addPenalty.                                                             *)
Mark(p, F(_)) == Update({p}, F) /\ UNCHANGED <<known, peerIPs, scoreCache>>

(* Bound: no counter of penalties grows beyond MaxPenalty. *)
PenaltyRoom == \A p \in Peers : stats'[p].penalty <= MaxPenalty

Stats == [connected : BOOLEAN, left : 0..RetainScore, knownIPs : SUBSET IPs,
          inMesh : BOOLEAN, meshTime : 0..MaxMeshTime, active : BOOLEAN,
          first : 0..FirstCap, mesh : 0..MeshCap, penalty : 0..MaxPenalty]

ScoreTypeOK ==
  /\ known \subseteq Peers
  /\ stats \in [Peers -> Stats]
  /\ peerIPs \in [IPs -> SUBSET Peers]
  /\ scoreCache \in [Peers -> {"none", "positive", "zero", "negative"}]
================================================================================
