------------------------------ MODULE Gossip_proofs ------------------------------
(***************************************************************************)
(* Proofs about the parts of the gossip exchange: the intake of RPCs, the  *)
(* sending of gossip, the answers to IWANTs and the requests with their    *)
(* promises.                                                               *)
(***************************************************************************)
EXTENDS GossipExchange, FiniteSetTheorems, FunctionTheorems, TLAPS

(* ---------------------------- intake of RPCs ---------------------------- *)

(* The whitelist keeps its type: entries are counted and timed within      *)
(* bounds.                                                                 *)
LEMMA AdmissionTyped ==
  AdmissionTypeOK /\ [AdmissionNext]_admissionVars => AdmissionTypeOK'
<1> SUFFICES ASSUME AdmissionTypeOK, [AdmissionNext]_admissionVars PROVE AdmissionTypeOK'
  OBVIOUS
<1> USE WhitelistAssumption DEF AdmissionTypeOK
<1>1. ASSUME NEW p \in Peers, NEW s \in Standings, ScoreMoves(p, s) PROVE AdmissionTypeOK'
  BY <1>1 DEF ScoreMoves, whitelist
<1>2. ASSUME NEW p \in Peers, AcceptWhitelisted(p) PROVE AdmissionTypeOK'
  BY <1>2 DEF AcceptWhitelisted, Whitelisted
<1>3. ASSUME NEW p \in Peers, AcceptByScore(p) PROVE AdmissionTypeOK'
  BY <1>3 DEF AcceptByScore
<1>4. ASSUME NEW p \in Peers, ForgetWhitelisted(p) PROVE AdmissionTypeOK'
  BY <1>4 DEF ForgetWhitelisted
<1>5. CASE TickAdmission
  BY <1>5 DEF TickAdmission
<1>6. CASE UNCHANGED admissionVars
  BY <1>6 DEF admissionVars, whitelist
<1> QED BY <1>1, <1>2, <1>3, <1>4, <1>5, <1>6 DEF AdmissionNext

(* What a gray peer got past the graylist is counted in the entry it has,  *)
(* and the entry expires before the peer has been gray for too long.       *)
GrayBook ==
  \A p \in Peers : standing[p] = "gray" =>
    /\ p \in acceptFromWhitelist => slipped[p] <= messagesAccepted[p]
    /\ acceptLeft[p] >= 0 => grayFor[p] + acceptLeft[p] <= WhitelistDuration

(* Every step keeps the book.                                              *)
LEMMA GrayBookKept ==
  AdmissionTypeOK /\ GrayBook /\ [AdmissionNext]_admissionVars => GrayBook'
<1> SUFFICES ASSUME AdmissionTypeOK, GrayBook, [AdmissionNext]_admissionVars PROVE GrayBook'
  OBVIOUS
<1> USE WhitelistAssumption DEF AdmissionTypeOK, GrayBook
<1>1. ASSUME NEW p \in Peers, NEW s \in Standings, ScoreMoves(p, s) PROVE GrayBook'
  BY <1>1 DEF ScoreMoves, whitelist
<1>2. ASSUME NEW p \in Peers, AcceptWhitelisted(p) PROVE GrayBook'
  BY <1>2 DEF AcceptWhitelisted, Whitelisted
<1>3. ASSUME NEW p \in Peers, AcceptByScore(p) PROVE GrayBook'
  BY <1>3 DEF AcceptByScore
<1>4. ASSUME NEW p \in Peers, ForgetWhitelisted(p) PROVE GrayBook'
  BY <1>4 DEF ForgetWhitelisted
<1>5. CASE TickAdmission
  BY <1>5 DEF TickAdmission
<1>6. CASE UNCHANGED admissionVars
  BY <1>6 DEF admissionVars, whitelist
<1> QED BY <1>1, <1>2, <1>3, <1>4, <1>5, <1>6 DEF AdmissionNext

(* Only an RPC of a whitelisted peer slips through.                        *)
LEMMA SlipWithinQuota ==
  ASSUME AdmissionTypeOK, GrayBook, [AdmissionNext]_admissionVars,
         NEW p \in Peers, slipped'[p] > slipped[p]
  PROVE  slipped'[p] <= WhitelistMax /\ grayFor[p] <= WhitelistDuration
<1> USE WhitelistAssumption DEF AdmissionTypeOK, GrayBook
<1>1. ASSUME NEW q \in Peers, AcceptWhitelisted(q)
      PROVE  slipped'[p] <= WhitelistMax /\ grayFor[p] <= WhitelistDuration
  BY <1>1 DEF AcceptWhitelisted, Whitelisted
<1>2. ASSUME NEW q \in Peers, NEW s \in Standings, ScoreMoves(q, s) PROVE FALSE
  BY <1>2 DEF ScoreMoves
<1>3. CASE slipped' = slipped
  BY <1>3
<1> QED BY <1>1, <1>2, <1>3
     DEF AdmissionNext, admissionVars, AcceptByScore, ForgetWhitelisted, TickAdmission

(* For any quota and duration: a peer that has become gray has at most     *)
(* ACCEPT_FROM_WHITELIST_MAX_MESSAGES RPCs accepted, and only within       *)
(* ACCEPT_FROM_WHITELIST_DURATION_MS.                                      *)
THEOREM GrayWithinQuota == AdmissionSpec => GrayQuota
<1> DEFINE Step == \A p \in Peers : slipped'[p] > slipped[p] =>
                     slipped'[p] <= WhitelistMax /\ grayFor[p] <= WhitelistDuration
<1>1. AdmissionInit => AdmissionTypeOK /\ GrayBook
  BY WhitelistAssumption DEF AdmissionInit, AdmissionTypeOK, GrayBook, Standings
<1>2. AdmissionTypeOK /\ GrayBook /\ [AdmissionNext]_admissionVars => [Step]_admissionVars
  BY SlipWithinQuota
<1>3. [][Step]_admissionVars => GrayQuota
  BY DEF GrayQuota
<1> QED BY <1>1, <1>2, <1>3, AdmissionTyped, GrayBookKept, PTL DEF AdmissionSpec

(* --------------------------- sending of gossip -------------------------- *)

(* The counters of IHAVEs stay numbers.                                    *)
LEMMA SendingTyped ==
  SendingTypeOK /\ [SendingNext]_sendingVars => SendingTypeOK'
<1> SUFFICES ASSUME SendingTypeOK, [SendingNext]_sendingVars PROVE SendingTypeOK'
  OBVIOUS
<1> USE EmitAssumption DEF SendingTypeOK, sums
<1>1. ASSUME NEW p \in Peers, StreamOpens(p) \/ StreamGone(p) PROVE SendingTypeOK'
  BY <1>1 DEF StreamOpens, StreamGone
<1>2. ASSUME NEW ps, Taken(ps)
      PROVE  gossip' \in [Peers -> Nat] /\ delivered' \in [Peers -> Nat]
  BY <1>2 DEF Taken
<1>3. ASSUME NEW p \in Peers, SendRpc(p) PROVE SendingTypeOK'
  BY <1>2, <1>3 DEF SendRpc
<1>4. ASSUME NEW ps \in SUBSET Peers, PublishRpc(ps) PROVE SendingTypeOK'
  BY <1>2, <1>4 DEF PublishRpc
<1>5. ASSUME NEW ps \in SUBSET outStreams, HeartbeatEmits(ps) PROVE SendingTypeOK'
  <2>1. beating' \in BOOLEAN /\ aborted' \in BOOLEAN
    BY <1>5, Zenon DEF HeartbeatEmits
  <2> QED BY <1>5, <2>1 DEF HeartbeatEmits
<1>6. CASE HeartbeatFlushes
  <2>1. beating' \in BOOLEAN /\ aborted' \in BOOLEAN
    BY <1>6, Zenon DEF HeartbeatFlushes
  <2> QED BY <1>6, <2>1 DEF HeartbeatFlushes
<1>7. CASE HeartbeatAborts \/ StopClears
  <2>1. beating' \in BOOLEAN /\ aborted' \in BOOLEAN
    BY <1>7, Zenon DEF HeartbeatAborts, StopClears
  <2> QED BY <1>7, <2>1 DEF HeartbeatAborts, StopClears
<1>8. CASE UNCHANGED sendingVars
  BY <1>8 DEF sendingVars
<1> QED BY <1>1, <1>3, <1>4, <1>5, <1>6, <1>7, <1>8 DEF SendingNext

(* No step loses an IHAVE or sends one again, and only a heartbeat that    *)
(* has not ended or has failed leaves any pending.                         *)
LEMMA SendingKept ==
  ASSUME SendingTypeOK, GossipAccounted, GossipIsFlushed, [SendingNext]_sendingVars
  PROVE  GossipAccounted' /\ GossipIsFlushed'
<1> USE DEF SendingTypeOK, GossipAccounted, GossipIsFlushed, sums
<1>1. ASSUME NEW p \in Peers, StreamOpens(p) \/ StreamGone(p)
      PROVE  GossipAccounted' /\ GossipIsFlushed'
  BY <1>1 DEF StreamOpens, StreamGone
<1>2. ASSUME NEW ps, Taken(ps), UNCHANGED <<addressed, dropped, beating, aborted>>
      PROVE  GossipAccounted' /\ GossipIsFlushed'
  BY <1>2 DEF Taken
<1>3. ASSUME NEW p \in Peers, SendRpc(p) PROVE GossipAccounted' /\ GossipIsFlushed'
  BY <1>2, <1>3 DEF SendRpc
<1>4. ASSUME NEW ps \in SUBSET Peers, PublishRpc(ps) PROVE GossipAccounted' /\ GossipIsFlushed'
  BY <1>2, <1>4 DEF PublishRpc
<1>5. ASSUME NEW ps \in SUBSET outStreams, HeartbeatEmits(ps)
      PROVE  GossipAccounted' /\ GossipIsFlushed'
  BY <1>5 DEF HeartbeatEmits
<1>6. CASE HeartbeatFlushes
  BY <1>6 DEF HeartbeatFlushes
<1>7. CASE HeartbeatAborts \/ StopClears
  BY <1>7 DEF HeartbeatAborts, StopClears
<1>8. CASE UNCHANGED sendingVars
  BY <1>8 DEF sendingVars
<1> QED BY <1>1, <1>3, <1>4, <1>5, <1>6, <1>7, <1>8 DEF SendingNext

(* Types and accounts hold together.                                       *)
LEMMA SendingSafe == SendingSpec => [](SendingTypeOK /\ GossipAccounted /\ GossipIsFlushed)
<1>1. SendingInit => SendingTypeOK /\ GossipAccounted /\ GossipIsFlushed
  <2> SUFFICES ASSUME SendingInit PROVE SendingTypeOK /\ GossipAccounted /\ GossipIsFlushed
    OBVIOUS
  <2>1. beating \in BOOLEAN /\ aborted \in BOOLEAN
    BY Zenon DEF SendingInit
  <2> QED BY <2>1, EmitAssumption DEF SendingInit, SendingTypeOK, GossipAccounted, GossipIsFlushed
<1>2. SendingTypeOK /\ GossipAccounted /\ GossipIsFlushed /\ [SendingNext]_sendingVars
        => (SendingTypeOK /\ GossipAccounted /\ GossipIsFlushed)'
  BY SendingTyped, SendingKept
<1> QED BY <1>1, <1>2, PTL DEF SendingSpec

(* For any peers: every IHAVE a heartbeat addresses to a peer is sent      *)
(* once, pending or given up.                                              *)
THEOREM GossipIsAccounted == SendingSpec => []GossipAccounted
BY SendingSafe, PTL

(* For any peers: heartbeats that end flush all gossip.                    *)
THEOREM GossipAlwaysFlushed == SendingSpec => []GossipIsFlushed
BY SendingSafe, PTL

(* --------------------------- answers to IWANTs -------------------------- *)

(* No more is served than was asked for, nor than is allowed.              *)
Answered ==
  /\ iwantCounts \in [Msgs -> [Peers -> 0..(Retransmission + 1)]]
  /\ served \in [Msgs -> [Peers -> Nat]]
  /\ \A m \in Msgs, p \in Peers : served[m][p] <= iwantCounts[m][p] /\ served[m][p] <= Retransmission

(* Only an IWANT and an eviction touch the counts.                         *)
LEMMA AnsweredKept == Answered /\ [WantsNext]_wantVars => Answered'
<1> SUFFICES ASSUME Answered, [WantsNext]_wantVars PROVE Answered'
  OBVIOUS
<1> USE WantsAssumption DEF Answered
<1>1. ASSUME NEW p \in Peers, NEW m \in Msgs, HandleIWant(p, m) PROVE Answered'
  <2>1. PICK names \in 1..2 :
          LET asks == iwantCounts[m][p] + names IN
          /\ iwantCounts' = [iwantCounts EXCEPT ![m][p] = IF asks > Retransmission THEN Retransmission + 1 ELSE asks]
          /\ \/ iwantCounts[m][p] < Retransmission
                /\ served' = [served EXCEPT ![m][p] = @ + 1]
             \/ UNCHANGED served
    BY <1>1 DEF HandleIWant
  <2> DEFINE asks == iwantCounts[m][p] + names
             count == IF asks > Retransmission THEN Retransmission + 1 ELSE asks
  <2>2. /\ iwantCounts[m][p] \in 0..(Retransmission + 1) /\ served[m][p] \in Nat
        /\ count \in 0..(Retransmission + 1)
        /\ count >= iwantCounts[m][p]
        /\ iwantCounts[m][p] < Retransmission => count >= iwantCounts[m][p] + 1
    OBVIOUS
  <2>3. iwantCounts' = [iwantCounts EXCEPT ![m][p] = count]
    BY <2>1
  <2> HIDE DEF asks, count
  <2>4. iwantCounts' \in [Msgs -> [Peers -> 0..(Retransmission + 1)]]
    BY <2>2, <2>3
  <2>5. CASE UNCHANGED served
    BY <2>2, <2>3, <2>4, <2>5
  <2>6. CASE iwantCounts[m][p] < Retransmission /\ served' = [served EXCEPT ![m][p] = @ + 1]
    BY <2>2, <2>3, <2>4, <2>6
  <2> QED BY <2>1, <2>5, <2>6
<1>2. ASSUME NEW m \in Msgs, Evict(m) PROVE Answered'
  BY <1>2 DEF Evict
<1>3. CASE UNCHANGED <<iwantCounts, served>>
  BY <1>3
<1> QED BY <1>1, <1>2, <1>3
     DEF WantsNext, wantVars, answers, Enter, Gone, HandleIdontwant, IdontwantGoesOn, IdontwantWaits,
         IdontwantIsLost, Cache, HeartbeatExpires, StopForgets

(* For any limit: a peer is sent a cached message so often at most,        *)
(* whatever it asks, leaves and comes back.                                *)
THEOREM ServedAtMost == WantsSpec => []ServedWithinLimit
<1>1. WantsInit => Answered
  BY WantsAssumption DEF WantsInit, Answered
<1>2. Answered => ServedWithinLimit
  BY DEF Answered, ServedWithinLimit
<1> QED BY <1>1, <1>2, AnsweredKept, PTL DEF WantsSpec

(* ----------------------------- IDONTWANTs -------------------------------- *)

(* The ids a peer named so many heartbeats ago.                            *)
Named(p, a) == {i \in Ids : idontwants[p][i] = a}

(* Of every age there are no more than one heartbeat's allowance, of the   *)
(* current one no more than were counted, and none of a peer that is gone. *)
NamedBounded ==
  \A p \in Peers :
    /\ \A a \in 0..(McacheLength - 1) : Cardinality(Named(p, a)) <= IdontwantMax
    /\ Cardinality(Named(p, 0)) <= idontwantCounts[p]
    /\ p \notin members \cup haunting => idontwants[p] = None

(* Noting ids counts them, and makes them no older.                        *)
LEMMA NoteKept ==
  ASSUME WantsTypeOK, NamedBounded, NEW p \in Peers, NEW ids \in SUBSET Ids, Note(p, ids), UNCHANGED members
  PROVE  /\ idontwantCounts' \in [Peers -> 0..IdontwantMax]
         /\ idontwants' \in [Peers -> [Ids -> -1..(McacheLength - 1)]]
         /\ haunting' \subseteq Peers
         /\ NamedBounded'
<1>1. PICK names \in Cardinality(ids)..(IdontwantMax - idontwantCounts[p]) :
        idontwantCounts' = [idontwantCounts EXCEPT ![p] = @ + names]
  BY DEF Note
<1>2. idontwants' = [idontwants EXCEPT ![p] = [i \in Ids |-> IF i \in ids THEN 0 ELSE @[i]]]
  BY DEF Note
<1>3. haunting' = IF p \in members THEN haunting ELSE haunting \cup {p}
  BY DEF Note
<1>4. /\ idontwantCounts \in [Peers -> 0..IdontwantMax]
      /\ idontwants \in [Peers -> [Ids -> -1..(McacheLength - 1)]]
      /\ haunting \subseteq Peers /\ IdontwantMax \in Nat /\ McacheLength \in Nat \ {0}
  BY WantsAssumption DEF WantsTypeOK
<1>5. IsFiniteSet(ids) /\ Cardinality(ids) \in Nat
  BY WantsAssumption, FS_Subset, FS_CardinalityType
<1>6. /\ names \in Nat /\ names >= Cardinality(ids)
      /\ idontwantCounts[p] + names \in 0..IdontwantMax
  BY <1>4, <1>5
<1>7. idontwantCounts' \in [Peers -> 0..IdontwantMax]
  BY <1>1, <1>4, <1>6
<1>8. idontwants' \in [Peers -> [Ids -> -1..(McacheLength - 1)]]
  BY <1>2, <1>4
<1>9. NamedBounded'
  <2> SUFFICES ASSUME NEW q \in Peers
               PROVE  /\ \A a \in 0..(McacheLength - 1) : Cardinality(Named(q, a)') <= IdontwantMax
                      /\ Cardinality(Named(q, 0)') <= idontwantCounts'[q]
                      /\ q \notin members \cup haunting' => idontwants'[q] = None
    BY DEF NamedBounded, Named
  <2>1. CASE q # p
    <3>1. idontwants'[q] = idontwants[q] /\ idontwantCounts'[q] = idontwantCounts[q]
      BY <1>1, <1>2, <1>4, <2>1
    <3>2. haunting \subseteq haunting'
      BY <1>3
    <3> QED
      BY <3>1, <3>2 DEF NamedBounded, Named
  <2>2. CASE q = p
    <3>1. \A i \in Ids : idontwants'[p][i] = IF i \in ids THEN 0 ELSE idontwants[p][i]
      BY <1>2, <1>4
    <3>2. /\ IsFiniteSet(Named(p, 0)) /\ Cardinality(Named(p, 0)) \in Nat
          /\ Cardinality(Named(p, 0)) <= idontwantCounts[p]
      BY WantsAssumption, FS_Subset, FS_CardinalityType DEF Named, NamedBounded
    <3>3. Named(p, 0)' = Named(p, 0) \cup ids
      BY <3>1 DEF Named
    <3>4. Cardinality(Named(p, 0)') <= idontwantCounts[p] + names
      <4>1. /\ Cardinality(Named(p, 0) \cup ids)
                 = Cardinality(Named(p, 0)) + Cardinality(ids) - Cardinality(Named(p, 0) \cap ids)
            /\ Cardinality(Named(p, 0) \cap ids) \in Nat
        BY <1>5, <3>2, FS_Union, FS_Intersection, FS_CardinalityType
      <4>2. idontwantCounts[p] \in Nat
        BY <1>4
      <4>3. Cardinality(Named(p, 0) \cup ids) <= idontwantCounts[p] + names
        BY <1>5, <1>6, <3>2, <4>1, <4>2
      <4> QED
        BY <3>3, <4>3
    <3>5. idontwantCounts'[p] = idontwantCounts[p] + names
      BY <1>1, <1>4
    <3>6. ASSUME NEW a \in 0..(McacheLength - 1) PROVE Cardinality(Named(p, a)') <= IdontwantMax
      <4>0. IsFiniteSet(Named(p, 0)') /\ Cardinality(Named(p, 0)') \in Nat
        BY <1>5, <3>2, <3>3, FS_Union, FS_CardinalityType
      <4>1. CASE a = 0
        BY <1>4, <1>6, <3>4, <4>0, <4>1
      <4>2. CASE a # 0
        <5>1. Named(p, a)' \in SUBSET Named(p, a)
          BY <3>1, <4>2 DEF Named
        <5>2. /\ IsFiniteSet(Named(p, a)) /\ Cardinality(Named(p, a)) \in Nat
              /\ Cardinality(Named(p, a)) <= IdontwantMax
          BY WantsAssumption, FS_Subset, FS_CardinalityType DEF Named, NamedBounded
        <5>3. Cardinality(Named(p, a)') <= Cardinality(Named(p, a)) /\ Cardinality(Named(p, a)') \in Nat
          BY <5>1, <5>2, FS_Subset, FS_CardinalityType
        <5> QED
          BY <1>4, <5>2, <5>3
      <4> QED
        BY <4>1, <4>2
    <3>7. p \in members \cup haunting'
      BY <1>3
    <3> QED
      BY <2>2, <3>4, <3>5, <3>6, <3>7
  <2> QED
    BY <2>1, <2>2
<1>10. haunting' \subseteq Peers
  BY <1>3, <1>4
<1> QED
  BY <1>7, <1>8, <1>9, <1>10

(* A heartbeat makes every id one heartbeat older, and drops the oldest.   *)
LEMMA ExpireKept ==
  ASSUME WantsTypeOK, NamedBounded, HeartbeatExpires
  PROVE  WantsTypeOK' /\ NamedBounded'
<1>1. /\ idontwantCounts' = [p \in Peers |-> 0]
      /\ idontwants' = [p \in Peers |-> [i \in Ids |->
           IF idontwants[p][i] \in 0..(McacheLength - 2) THEN idontwants[p][i] + 1 ELSE -1]]
      /\ UNCHANGED <<members, haunting>>
  BY DEF HeartbeatExpires, Expire
<1>2. /\ idontwants \in [Peers -> [Ids -> -1..(McacheLength - 1)]]
      /\ IdontwantMax \in Nat /\ McacheLength \in Nat \ {0}
  BY WantsAssumption DEF WantsTypeOK
<1>3. WantsTypeOK'
  BY <1>1, <1>2 DEF HeartbeatExpires, answers, WantsTypeOK
<1>4. ASSUME NEW p \in Peers
      PROVE  /\ Named(p, 0)' = {}
             /\ \A a \in 0..(McacheLength - 1) : a # 0 => Named(p, a)' = Named(p, a - 1)
  <2>1. \A i \in Ids : /\ idontwants'[p][i] # 0
                       /\ \A a \in 1..(McacheLength - 1) : idontwants'[p][i] = a <=> idontwants[p][i] = a - 1
    <3> SUFFICES ASSUME NEW i \in Ids
                 PROVE  /\ idontwants'[p][i] # 0
                        /\ \A a \in 1..(McacheLength - 1) : idontwants'[p][i] = a <=> idontwants[p][i] = a - 1
      OBVIOUS
    <3>1. idontwants'[p][i] = IF idontwants[p][i] \in 0..(McacheLength - 2) THEN idontwants[p][i] + 1 ELSE -1
      BY <1>1
    <3>2. idontwants[p][i] \in -1..(McacheLength - 1)
      BY <1>2
    <3> QED
      BY <1>2, <3>1, <3>2
  <2>2. \A a \in 0..(McacheLength - 1) : a # 0 => a \in 1..(McacheLength - 1)
    BY <1>2
  <2> QED
    BY <2>1, <2>2 DEF Named
<1>5. Cardinality({}) = 0
  BY FS_EmptySet
<1>6. ASSUME NEW p \in Peers, NEW a \in 0..(McacheLength - 1)
      PROVE  Cardinality(Named(p, a)') <= IdontwantMax
  <2>1. CASE a = 0
    <3>1. Named(p, 0)' = {}
      BY <1>4
    <3>2. Cardinality(Named(p, 0)') = 0
      BY <1>5, <3>1
    <3> QED
      BY <1>2, <2>1, <3>2
  <2>2. CASE a # 0
    <3>1. Named(p, a)' = Named(p, a - 1) /\ a - 1 \in 0..(McacheLength - 1)
      BY <1>2, <1>4, <2>2
    <3> QED
      BY <3>1 DEF NamedBounded
  <2> QED
    BY <2>1, <2>2
<1>7. ASSUME NEW p \in Peers, p \notin members \cup haunting
      PROVE  idontwants'[p] = None
  <2>1. idontwants[p] = None
    BY <1>7 DEF NamedBounded
  <2> QED
    BY <1>1, <2>1 DEF None
<1>8. \A p \in Peers : Cardinality(Named(p, 0)') <= idontwantCounts'[p]
  <2> SUFFICES ASSUME NEW p \in Peers PROVE Cardinality(Named(p, 0)') <= idontwantCounts'[p]
    OBVIOUS
  <2>1. Named(p, 0)' = {}
    BY <1>4
  <2>2. Cardinality(Named(p, 0)') = 0
    BY <1>5, <2>1
  <2>3. idontwantCounts'[p] = 0
    BY <1>1
  <2> QED
    BY <2>2, <2>3
<1> QED
  BY <1>1, <1>3, <1>6, <1>7, <1>8 DEF NamedBounded, Named

(* A peer that is forgotten leaves nothing named.                          *)
LEMMA NothingNamed ==
  ASSUME NEW p \in Peers, idontwants[p] = None, NEW a \in Nat
  PROVE  Cardinality(Named(p, a)) = 0
<1>1. Named(p, a) = {}
  BY DEF Named, None
<1> QED
  BY <1>1, FS_EmptySet

LEMMA ForgottenNamesNothing ==
  ASSUME NEW p \in Peers, idontwants'[p] = None, idontwantCounts'[p] \in Nat, NEW a \in Nat
  PROVE  Cardinality(Named(p, a)') = 0
<1>1. Named(p, a)' = {}
  BY DEF Named, None
<1> QED
  BY <1>1, FS_EmptySet

LEMMA NamedBoundedKept ==
  ASSUME WantsTypeOK, Answered', NamedBounded, [WantsNext]_wantVars
  PROVE  WantsTypeOK' /\ NamedBounded'
<1> USE WantsAssumption
<1>1. None \in [Ids -> -1..(McacheLength - 1)]
  BY DEF None
<1>2. iwantCounts' \in [Msgs -> [Peers -> 0..(Retransmission + 1)]] /\ served' \in [Msgs -> [Peers -> Nat]]
  BY DEF Answered
<1>3. ASSUME UNCHANGED statuses, members \subseteq members', members' \subseteq Peers,
             suspended' \subseteq Peers, cached' \subseteq Msgs
      PROVE  WantsTypeOK' /\ NamedBounded'
  <2>1. WantsTypeOK'
    BY <1>2, <1>3 DEF statuses, WantsTypeOK
  <2> QED
    BY <1>3, <2>1 DEF NamedBounded, Named, statuses
<1>4. ASSUME NEW p \in Peers, Enter(p) \/ IdontwantWaits(p) \/ IdontwantIsLost(p)
      PROVE  WantsTypeOK' /\ NamedBounded'
  <2>1. /\ UNCHANGED <<statuses, cached>> /\ members \subseteq members' /\ members' \subseteq Peers
        /\ suspended' \subseteq Peers
    BY <1>4 DEF Enter, IdontwantWaits, IdontwantIsLost, answers, WantsTypeOK
  <2> QED
    BY <1>3, <2>1 DEF WantsTypeOK
<1>5. ASSUME NEW m \in Msgs, Cache(m) \/ Evict(m) \/ \E p \in Peers : HandleIWant(p, m)
      PROVE  WantsTypeOK' /\ NamedBounded'
  <2>1. UNCHANGED <<members, suspended, statuses>> /\ cached' \subseteq Msgs
    BY <1>5 DEF Cache, Evict, HandleIWant, WantsTypeOK
  <2> QED
    BY <1>3, <2>1 DEF WantsTypeOK
<1>6. CASE UNCHANGED wantVars
  <2>1. UNCHANGED <<members, suspended, statuses, cached>>
    BY <1>6 DEF wantVars, answers
  <2> QED
    BY <1>3, <2>1 DEF WantsTypeOK
<1>7. ASSUME NEW p \in Peers, Gone(p) PROVE WantsTypeOK' /\ NamedBounded'
  <2>1. /\ members' = members \ {p} /\ haunting' = haunting \ {p}
        /\ idontwantCounts' = [idontwantCounts EXCEPT ![p] = 0]
        /\ idontwants' = [idontwants EXCEPT ![p] = None]
        /\ UNCHANGED <<suspended, cached>>
    BY <1>7 DEF Gone, answers
  <2>2. WantsTypeOK'
    BY <1>1, <1>2, <2>1 DEF WantsTypeOK
  <2>3. ASSUME NEW q \in Peers
        PROVE  /\ \A a \in 0..(McacheLength - 1) : Cardinality(Named(q, a)') <= IdontwantMax
               /\ Cardinality(Named(q, 0)') <= idontwantCounts'[q]
               /\ q \notin members' \cup haunting' => idontwants'[q] = None
    <3>1. CASE q = p
      <4>1. idontwants'[q] = None /\ idontwantCounts'[q] = 0
        BY <2>1, <3>1 DEF WantsTypeOK
      <4> QED
        BY <4>1, ForgottenNamesNothing
    <3>2. CASE q # p
      <4>1. idontwants'[q] = idontwants[q] /\ idontwantCounts'[q] = idontwantCounts[q]
        BY <2>1, <3>2 DEF WantsTypeOK
      <4> QED
        BY <2>1, <3>2, <4>1 DEF NamedBounded, Named
    <3> QED
      BY <3>1, <3>2
  <2> QED
    BY <2>2, <2>3 DEF NamedBounded, Named
<1>8. ASSUME NEW p \in Peers, NEW ids \in SUBSET Ids \ {{}}, HandleIdontwant(p, ids) \/ IdontwantGoesOn(p, ids)
      PROVE  WantsTypeOK' /\ NamedBounded'
  <2>1. Note(p, ids) /\ UNCHANGED <<members, cached>> /\ suspended' \subseteq suspended
    BY <1>8 DEF HandleIdontwant, IdontwantGoesOn, answers
  <2>2. /\ idontwantCounts' \in [Peers -> 0..IdontwantMax]
        /\ idontwants' \in [Peers -> [Ids -> -1..(McacheLength - 1)]]
        /\ haunting' \subseteq Peers
        /\ NamedBounded'
    BY <2>1, NoteKept
  <2> QED
    BY <1>2, <2>1, <2>2 DEF WantsTypeOK
<1>9. CASE StopForgets
  <2>1. /\ members' = {} /\ haunting' = {}
        /\ idontwantCounts' = [p \in Peers |-> 0] /\ idontwants' = [p \in Peers |-> None]
        /\ UNCHANGED <<suspended, cached>>
    BY <1>9 DEF StopForgets, answers
  <2>2. WantsTypeOK'
    BY <1>1, <1>2, <2>1 DEF WantsTypeOK
  <2>3. \A p \in Peers : idontwants'[p] = None /\ idontwantCounts'[p] = 0
    BY <2>1
  <2>4. \A p \in Peers, a \in Nat : Cardinality(Named(p, a)') = 0
    BY <2>3, ForgottenNamesNothing
  <2> QED
    BY <2>2, <2>3, <2>4 DEF NamedBounded
<1> QED
  BY <1>4, <1>5, <1>6, <1>7, <1>8, <1>9, ExpireKept DEF WantsNext

LEMMA WantsSafe == WantsSpec => [](WantsTypeOK /\ Answered /\ NamedBounded)
<1>1. WantsInit => Answered
  BY WantsAssumption DEF WantsInit, Answered
<1>2. WantsInit => WantsTypeOK /\ NamedBounded
  <2> SUFFICES ASSUME WantsInit PROVE WantsTypeOK /\ NamedBounded
    OBVIOUS
  <2>1. WantsTypeOK
    BY WantsAssumption DEF WantsInit, WantsTypeOK, None
  <2>2. \A p \in Peers : idontwants[p] = None /\ idontwantCounts[p] = 0
    BY DEF WantsInit
  <2>3. \A p \in Peers, a \in Nat : Cardinality(Named(p, a)) = 0
    BY <2>2, NothingNamed
  <2>4. IdontwantMax \in Nat /\ \A a \in 0..(McacheLength - 1) : a \in Nat
    BY WantsAssumption
  <2>5. NamedBounded
    BY <2>2, <2>3, <2>4 DEF NamedBounded
  <2> QED
    BY <2>1, <2>5
<1>3. WantsTypeOK /\ Answered /\ NamedBounded /\ [WantsNext]_wantVars => (WantsTypeOK /\ Answered /\ NamedBounded)'
  BY AnsweredKept, NamedBoundedKept
<1> QED
  BY <1>1, <1>2, <1>3, PTL DEF WantsSpec

(* A set cut into L slices of at most N elements has no more than N * L:   *)
(* an element is numbered by its slice and its place there.                *)
LEMMA Slices ==
  ASSUME NEW L \in Nat \ {0}, NEW N \in Nat, NEW S, NEW slice \in [S -> 0..(L - 1)], IsFiniteSet(S),
         \A a \in 0..(L - 1) : Cardinality({s \in S : slice[s] = a}) <= N
  PROVE  Cardinality(S) <= N * L
<1> DEFINE Part(a) == {s \in S : slice[s] = a}
           place == [a \in 0..(L - 1) |-> CHOOSE f : f \in Injection(Part(a), 1..N)]
           number == [s \in S |-> <<slice[s], place[slice[s]][s]>>]
<1>1. ASSUME NEW a \in 0..(L - 1) PROVE place[a] \in Injection(Part(a), 1..N)
  <2>1. IsFiniteSet(Part(a))
    BY FS_Subset
  <2>2. Cardinality(Part(a)) \in Nat /\ ExistsBijection(1..Cardinality(Part(a)), Part(a))
    BY <2>1, FS_CardinalityType
  <2>3. ExistsBijection(Part(a), 1..Cardinality(Part(a)))
    BY <2>2, Fun_ExistsBijSymmetric
  <2>4. PICK f : f \in Bijection(Part(a), 1..Cardinality(Part(a)))
    BY <2>3, Fun_ExistsBij
  <2>5. f \in Injection(Part(a), 1..Cardinality(Part(a)))
    BY <2>4 DEF Bijection
  <2> HIDE DEF Part
  <2>6. f \in [Part(a) -> 1..Cardinality(Part(a))] /\ \A s, t \in Part(a) : f[s] = f[t] => s = t
    BY <2>5 DEF Injection, IsInjective
  <2>7. f \in [Part(a) -> 1..N]
    <3>1. Cardinality(Part(a)) <= N
      BY DEF Part
    <3> QED
      BY <2>2, <2>6, <3>1
  <2>8. f \in Injection(Part(a), 1..N)
    BY <2>6, <2>7 DEF Injection, IsInjective
  <2> QED
    BY <2>8 DEF place
<1>2. ASSUME NEW s \in S PROVE s \in Part(slice[s]) /\ place[slice[s]][s] \in 1..N
  <2>1. s \in Part(slice[s])
    OBVIOUS
  <2>2. place[slice[s]] \in [Part(slice[s]) -> 1..N]
    BY <1>1 DEF Injection
  <2> QED
    BY <2>1, <2>2
<1>3. ASSUME NEW s \in S, NEW t \in S, number[s] = number[t] PROVE s = t
  <2>1. slice[s] = slice[t] /\ place[slice[s]][s] = place[slice[s]][t]
    <3> HIDE DEF place
    <3>1. <<slice[s], place[slice[s]][s]>> = <<slice[t], place[slice[t]][t]>>
      BY <1>3
    <3> QED
      BY <3>1
  <2>2. s \in Part(slice[s]) /\ t \in Part(slice[s])
    BY <2>1
  <2>3. place[slice[s]] \in Injection(Part(slice[s]), 1..N)
    BY <1>1
  <2> HIDE DEF place, Part, number
  <2> QED
    BY <2>1, <2>2, <2>3 DEF Injection, IsInjective
<1>4. number \in Injection(S, (0..(L - 1)) \X (1..N))
  <2>1. number \in [S -> (0..(L - 1)) \X (1..N)]
    BY <1>2
  <2> HIDE DEF number
  <2> QED
    BY <1>3, <2>1, Fun_IsInj
<1>5. /\ IsFiniteSet(0..(L - 1)) /\ Cardinality(0..(L - 1)) = L
      /\ IsFiniteSet(1..N) /\ Cardinality(1..N) = N
  BY FS_Interval
<1>6. IsFiniteSet((0..(L - 1)) \X (1..N)) /\ Cardinality((0..(L - 1)) \X (1..N)) = L * N
  BY <1>5, FS_Product
<1>7. Cardinality(S) <= L * N
  BY <1>4, <1>6, FS_Injection
<1>8. L * N = N * L
  OBVIOUS
<1> QED
  BY <1>7, <1>8

(* For any allowance and length: the IDONTWANTs kept of a connected peer   *)
(* are no more than idontwantMaxMessages for every heartbeat of            *)
(* mcacheLength, and none are kept of a peer that is gone, unless an RPC   *)
(* of it was handled later.                                                *)
THEOREM IdontwantsAtMost == WantsSpec => []IdontwantsBounded
<1>1. WantsTypeOK /\ NamedBounded => IdontwantsBounded
  <2> SUFFICES ASSUME WantsTypeOK, NamedBounded, NEW p \in Peers
               PROVE  Cardinality({i \in Ids : idontwants[p][i] >= 0}) <=
                        IF p \in members \cup haunting THEN IdontwantMax * McacheLength ELSE 0
    BY DEF IdontwantsBounded
  <2> DEFINE S == {i \in Ids : idontwants[p][i] >= 0}
             slice == [i \in S |-> idontwants[p][i]]
  <2>1. idontwants[p] \in [Ids -> -1..(McacheLength - 1)] /\ McacheLength \in Nat \ {0} /\ IdontwantMax \in Nat
    BY WantsAssumption DEF WantsTypeOK
  <2>2. IsFiniteSet(S)
    BY WantsAssumption, FS_Subset
  <2>3. CASE p \notin members \cup haunting
    <3>1. S = {}
      BY <2>3 DEF NamedBounded, None
    <3> QED
      BY <2>3, <3>1, FS_EmptySet
  <2>4. CASE p \in members \cup haunting
    <3>1. slice \in [S -> 0..(McacheLength - 1)]
      BY <2>1
    <3>2. ASSUME NEW a \in 0..(McacheLength - 1)
          PROVE  Cardinality({i \in S : slice[i] = a}) <= IdontwantMax
      <4>1. {i \in S : slice[i] = a} = Named(p, a)
        BY <2>1 DEF Named
      <4> QED
        BY <4>1 DEF NamedBounded
    <3> HIDE DEF S, slice
    <3>3. Cardinality(S) <= IdontwantMax * McacheLength
      BY <2>1, <2>2, <3>1, <3>2, Slices
    <3> QED
      BY <2>4, <3>3 DEF S
  <2> QED
    BY <2>3, <2>4
<1> QED
  BY <1>1, WantsSafe, PTL

(* ------------------------------- requests ------------------------------- *)

(* What an IWANT asks for is new and within the allowance.                 *)
LEMMA IWantBounds ==
  ASSUME RequestsTypeOK, NEW p \in Peers, NEW ids \in SUBSET Msgs, NEW iwant \in IWant(p, ids),
         iasked[p] < MaxIHaveLength
  PROVE  /\ iwant \in SUBSET Msgs
         /\ Cardinality(iwant) \in Nat
         /\ iasked[p] + Cardinality(iwant) \in 0..MaxIHaveLength
<1>1. iwant \in SUBSET Msgs
  BY DEF IWant
<1>2. Cardinality(iwant) \in Nat /\ Cardinality(ids \ seen) \in Nat
  BY <1>1, PartiesAssumption, FS_Subset, FS_CardinalityType
<1>3. iasked[p] \in Nat /\ MaxIHaveLength \in Nat
  BY LimitAssumption DEF RequestsTypeOK
<1>4. Cardinality(iwant) <= MaxIHaveLength - iasked[p]
  BY <1>2, <1>3 DEF IWant
<1> QED BY <1>1, <1>2, <1>3, <1>4

(* Sending or not, the tracer keeps its type.                              *)
LEMMA SendIWantTyped ==
  ASSUME RequestsTypeOK, NEW p \in Peers, NEW ids \in SUBSET Msgs, SendIWant(p, ids)
  PROVE  /\ promises' \subseteq Pairs /\ left' \in [Peers -> [Msgs -> -1..Followup]]
         /\ asked' \in [Peers -> Nat] /\ owing' \subseteq Pairs /\ age' = age
<1>1. Cardinality(ids) \in Nat
  BY PartiesAssumption, FS_Subset, FS_CardinalityType
<1>2. CASE UNCHANGED <<tracer, asked, owing, age>>
  BY <1>2 DEF RequestsTypeOK, tracer
<1>3. CASE ~UNCHANGED <<tracer, asked, owing, age>>
  <2>1. PICK m \in ids : AddPromise(p, m) /\ owing' = owing \cup {<<p, m>>}
    BY <1>3 DEF SendIWant
  <2>2. asked' = [asked EXCEPT ![p] = @ + Cardinality(ids)] /\ age' = age
    BY <1>3 DEF SendIWant
  <2> QED BY <1>1, <2>1, <2>2, LimitAssumption DEF AddPromise, RequestsTypeOK, Pairs
<1> QED BY <1>2, <1>3

(* Settling and forgiving keep types.                                      *)
LEMMA SettleTyped ==
  ASSUME RequestsTypeOK, NEW m \in Msgs, Settle(m)
  PROVE  /\ promises' \subseteq Pairs /\ left' \in [Peers -> [Msgs -> -1..Followup]]
         /\ owing' \subseteq Pairs /\ age' \in [Peers -> [Msgs -> 0..(Followup + 1)]]
         /\ charged' = charged
BY LimitAssumption DEF Settle, Forgive, RequestsTypeOK, Pairs

(* The requests keep their type: nothing is asked beyond the allowance.    *)
LEMMA RequestsTyped ==
  RequestsTypeOK /\ [RequestsNext]_requestVars => RequestsTypeOK'
<1> SUFFICES ASSUME RequestsTypeOK, [RequestsNext]_requestVars PROVE RequestsTypeOK'
  OBVIOUS
<1> USE LimitAssumption DEF copies, counters, tracer, ledger
<1>1. ASSUME NEW p \in Peers, CountIHave(p)
      PROVE  peerhave' \in [Peers -> 0..(MaxIHaveMessages + 1)]
  BY <1>1 DEF CountIHave, RequestsTypeOK
<1>2. ASSUME NEW p \in Peers, NEW ids \in SUBSET Msgs, IHaveIgnored(p, ids) PROVE RequestsTypeOK'
  BY <1>1, <1>2 DEF IHaveIgnored, RequestsTypeOK
<1>3. ASSUME NEW p \in Peers, NEW ids \in SUBSET Msgs, IHaveAsks(p, ids) PROVE RequestsTypeOK'
  <2>1. PICK iwant \in IWant(p, ids) :
          /\ iasked' = [iasked EXCEPT ![p] = @ + Cardinality(iwant)]
          /\ SendIWant(p, iwant)
    BY <1>3 DEF IHaveAsks
  <2>2. iwant \in SUBSET Msgs /\ iasked[p] + Cardinality(iwant) \in 0..MaxIHaveLength
    BY <1>3, IWantBounds DEF IHaveAsks, Askable
  <2> QED BY <1>1, <1>3, <2>1, <2>2, SendIWantTyped DEF IHaveAsks, RequestsTypeOK
<1>4. ASSUME NEW p \in Peers, NEW ids \in SUBSET Msgs, IHaveWaits(p, ids) PROVE RequestsTypeOK'
  <2>1. PICK iwant \in IWant(p, ids) :
          /\ iasked' = [iasked EXCEPT ![p] = @ + Cardinality(iwant)]
          /\ replying' = [replying EXCEPT ![p] = iwant]
    BY <1>4 DEF IHaveWaits
  <2>2. iwant \in SUBSET Msgs /\ iasked[p] + Cardinality(iwant) \in 0..MaxIHaveLength
    BY <1>4, IWantBounds DEF IHaveWaits, Askable
  <2> QED BY <1>1, <1>4, <2>1, <2>2 DEF IHaveWaits, RequestsTypeOK
<1>5. ASSUME NEW p \in Peers, IWantGoesOut(p) PROVE RequestsTypeOK'
  <2>1. replying[p] \in SUBSET Msgs
    BY DEF RequestsTypeOK
  <2> QED BY <1>5, <2>1, SendIWantTyped DEF IWantGoesOut, RequestsTypeOK
<1>6. ASSUME NEW p \in Peers, IWantIsLost(p) PROVE RequestsTypeOK'
  BY <1>6 DEF IWantIsLost, RequestsTypeOK
<1>7. ASSUME NEW m \in Msgs, Duplicate(m) \/ FirstCopy(m) \/ ValidatorDecides(m) \/ PublishOwn(m)
      PROVE  RequestsTypeOK'
  BY <1>7, SettleTyped DEF Duplicate, FirstCopy, ValidatorDecides, PublishOwn, RequestsTypeOK
<1>8. ASSUME NEW m \in Msgs, FirstCopyToValidator(m) PROVE RequestsTypeOK'
  BY <1>8 DEF FirstCopyToValidator, RequestsTypeOK
<1>9. ASSUME UNCHANGED replying, carried' = [p \in Peers |-> Cardinality(replying[p])]
      PROVE  carried' \in [Peers -> Nat]
  BY <1>9, PartiesAssumption, FS_Subset, FS_CardinalityType DEF RequestsTypeOK
<1>10. CASE HeartbeatCharges
  BY <1>9, <1>10 DEF HeartbeatCharges, Broken, RequestsTypeOK
<1>11. CASE RestartRequests
  BY <1>9, <1>11 DEF RestartRequests, RequestsTypeOK, Zero
<1>12. CASE TickRequests
  BY <1>12 DEF TickRequests, RequestsTypeOK
<1>13. CASE UNCHANGED requestVars
  BY <1>13 DEF requestVars, RequestsTypeOK
<1> QED BY <1>2, <1>3, <1>4, <1>5, <1>6, <1>7, <1>8, <1>10, <1>11, <1>12, <1>13 DEF RequestsNext

(* What was sent and what is about to be sent is counted, or was counted   *)
(* before the last reset.                                                  *)
AskedCounted ==
  \A p \in Peers : asked[p] + Cardinality(replying[p]) <= iasked[p] + carried[p]

(* Every step keeps the count.                                             *)
LEMMA AskedCountedKept ==
  ASSUME RequestsTypeOK, AskedCounted, [RequestsNext]_requestVars
  PROVE  AskedCounted'
<1> USE DEF copies, counters, tracer, ledger
<1>1. \A p \in Peers : /\ asked[p] \in Nat /\ iasked[p] \in Nat /\ carried[p] \in Nat
                        /\ Cardinality(replying[p]) \in Nat
  BY PartiesAssumption, FS_Subset, FS_CardinalityType DEF RequestsTypeOK
<1>2. Cardinality({}) = 0
  BY FS_EmptySet
<1>3. ASSUME NEW p \in Peers, NEW ids \in SUBSET Msgs, IHaveAsks(p, ids) PROVE AskedCounted'
  <2>1. PICK iwant \in IWant(p, ids) :
          /\ iasked' = [iasked EXCEPT ![p] = @ + Cardinality(iwant)]
          /\ SendIWant(p, iwant)
    BY <1>3 DEF IHaveAsks
  <2>2. Cardinality(iwant) \in Nat
    BY <1>3, IWantBounds DEF IHaveAsks, Askable
  <2>3. UNCHANGED asked \/ asked' = [asked EXCEPT ![p] = @ + Cardinality(iwant)]
    BY <2>1 DEF SendIWant
  <2> QED BY <1>1, <1>3, <2>1, <2>2, <2>3 DEF IHaveAsks, AskedCounted, RequestsTypeOK
<1>4. ASSUME NEW p \in Peers, NEW ids \in SUBSET Msgs, IHaveWaits(p, ids) PROVE AskedCounted'
  <2>1. PICK iwant \in IWant(p, ids) :
          /\ iasked' = [iasked EXCEPT ![p] = @ + Cardinality(iwant)]
          /\ replying' = [replying EXCEPT ![p] = iwant]
    BY <1>4 DEF IHaveWaits
  <2>2. Cardinality(iwant) \in Nat
    BY <1>4, IWantBounds DEF IHaveWaits, Askable
  <2> QED BY <1>1, <1>2, <1>4, <2>1, <2>2 DEF IHaveWaits, AskedCounted, RequestsTypeOK
<1>5. ASSUME NEW p \in Peers, IWantGoesOut(p) PROVE AskedCounted'
  <2>1. UNCHANGED asked \/ asked' = [asked EXCEPT ![p] = @ + Cardinality(replying[p])]
    BY <1>5 DEF IWantGoesOut, SendIWant
  <2> QED BY <1>1, <1>2, <1>5, <2>1 DEF IWantGoesOut, AskedCounted, RequestsTypeOK
<1>6. ASSUME NEW p \in Peers, IWantIsLost(p) PROVE AskedCounted'
  BY <1>1, <1>2, <1>6 DEF IWantIsLost, AskedCounted, RequestsTypeOK
<1>7. CASE HeartbeatCharges \/ RestartRequests
  <2>1. \A p \in Peers : asked'[p] = 0 /\ iasked'[p] = 0 /\ carried'[p] = Cardinality(replying'[p])
    BY <1>7 DEF HeartbeatCharges, RestartRequests
  <2> QED BY <1>1, <1>7, <2>1 DEF HeartbeatCharges, RestartRequests, AskedCounted
<1>8. CASE UNCHANGED <<asked, replying, iasked, carried>>
  BY <1>8 DEF AskedCounted
<1> QED BY <1>3, <1>4, <1>5, <1>6, <1>7, <1>8
     DEF RequestsNext, requestVars, IHaveIgnored, Duplicate, FirstCopy, FirstCopyToValidator,
         ValidatorDecides, PublishOwn, TickRequests

(* The tracer's promises are the requests not answered, and their expiry   *)
(* mirrors the age of those.                                               *)
PromisesMirror ==
  /\ owing = promises
  /\ \A p \in Peers, m \in Msgs :
       IF <<p, m>> \in promises
       THEN left[p][m] = IF age[p][m] > Followup THEN -1 ELSE Followup - age[p][m]
       ELSE age[p][m] = 0

(* Sending keeps the mirror: a new promise and a new request are both      *)
(* fresh, of one that exists neither starts anew.                          *)
LEMMA SendIWantMirrors ==
  ASSUME RequestsTypeOK, PromisesMirror, NEW p \in Peers, NEW ids \in SUBSET Msgs, SendIWant(p, ids)
  PROVE  PromisesMirror'
<1>1. CASE UNCHANGED <<tracer, asked, owing, age>>
  BY <1>1 DEF tracer, PromisesMirror
<1>2. CASE ~UNCHANGED <<tracer, asked, owing, age>>
  <2>1. PICK m \in ids : AddPromise(p, m) /\ owing' = owing \cup {<<p, m>>}
    BY <1>2 DEF SendIWant
  <2>2. age' = age
    BY <1>2 DEF SendIWant
  <2> QED BY <2>1, <2>2, LimitAssumption DEF AddPromise, PromisesMirror, RequestsTypeOK
<1> QED BY <1>1, <1>2

(* So does every step.                                                     *)
LEMMA MirrorKept ==
  ASSUME RequestsTypeOK, PromisesMirror, [RequestsNext]_requestVars
  PROVE  PromisesMirror'
<1> USE DEF copies, counters, tracer, ledger
<1>1. ASSUME NEW p \in Peers, NEW ids \in SUBSET Msgs, IHaveAsks(p, ids) PROVE PromisesMirror'
  <2>1. PICK iwant \in IWant(p, ids) : SendIWant(p, iwant)
    BY <1>1 DEF IHaveAsks
  <2> QED BY <2>1, SendIWantMirrors DEF IWant
<1>2. ASSUME NEW p \in Peers, IWantGoesOut(p) PROVE PromisesMirror'
  <2>1. replying[p] \in SUBSET Msgs
    BY DEF RequestsTypeOK
  <2> QED BY <1>2, <2>1, SendIWantMirrors DEF IWantGoesOut
<1>3. ASSUME NEW m \in Msgs, Settle(m) PROVE PromisesMirror'
  BY <1>3 DEF Settle, Forgive, PromisesMirror, RequestsTypeOK
<1>4. CASE HeartbeatCharges
  BY <1>4 DEF HeartbeatCharges, Broken, PromisesMirror, RequestsTypeOK
<1>5. CASE RestartRequests
  BY <1>5 DEF RestartRequests, Zero, PromisesMirror
<1>6. CASE TickRequests
  BY <1>6, LimitAssumption DEF TickRequests, PromisesMirror, RequestsTypeOK
<1>7. CASE UNCHANGED <<promises, left, owing, age>>
  BY <1>7 DEF PromisesMirror
<1> QED BY <1>1, <1>2, <1>3, <1>4, <1>5, <1>6, <1>7
     DEF RequestsNext, requestVars, IHaveIgnored, IHaveWaits, IWantIsLost, Duplicate, FirstCopy,
         FirstCopyToValidator, ValidatorDecides, PublishOwn

(* Types, counts and promises hold together.                               *)
LEMMA RequestsSafe == RequestsSpec => [](RequestsTypeOK /\ AskedCounted /\ PromisesMirror)
<1>1. RequestsInit => RequestsTypeOK /\ AskedCounted /\ PromisesMirror
  BY LimitAssumption, FS_EmptySet
     DEF RequestsInit, RequestsTypeOK, AskedCounted, PromisesMirror, Zero, Pairs
<1>2. RequestsTypeOK /\ AskedCounted /\ PromisesMirror /\ [RequestsNext]_requestVars
        => (RequestsTypeOK /\ AskedCounted /\ PromisesMirror)'
  BY RequestsTyped, AskedCountedKept, MirrorKept
<1> QED BY <1>1, <1>2, PTL DEF RequestsSpec

(* For any limit: no more ids are asked of a peer between two heartbeats   *)
(* than GossipsubMaxIHaveLength and those of an IWANT suspended at the     *)
(* first.                                                                  *)
THEOREM AskedAtMost == RequestsSpec => []AskedWithinLimit
<1>1. RequestsTypeOK /\ AskedCounted => AskedWithinLimit
  <2> SUFFICES ASSUME RequestsTypeOK, AskedCounted, NEW p \in Peers
               PROVE  asked[p] <= MaxIHaveLength + carried[p]
    BY DEF AskedWithinLimit
  <2>1. Cardinality(replying[p]) \in Nat
    BY PartiesAssumption, FS_Subset, FS_CardinalityType DEF RequestsTypeOK
  <2> QED BY <2>1, LimitAssumption DEF RequestsTypeOK, AskedCounted
<1> QED BY <1>1, RequestsSafe, PTL

(* For any window: a heartbeat charges the requests that are overdue, all  *)
(* of them and no others.                                                  *)
THEOREM ChargesAreDue == RequestsSpec => PenaltiesAreDue
<1> DEFINE Step == HeartbeatCharges => charged' = Overdue
<1>1. RequestsTypeOK /\ PromisesMirror => Broken = Overdue
  BY LimitAssumption DEF RequestsTypeOK, PromisesMirror, Broken, Overdue, Pairs
<1>2. RequestsTypeOK /\ PromisesMirror /\ [RequestsNext]_requestVars => [Step]_requestVars
  BY <1>1 DEF HeartbeatCharges
<1>3. [][Step]_requestVars => PenaltiesAreDue
  BY DEF PenaltiesAreDue
<1> QED BY <1>2, <1>3, RequestsSafe, PTL DEF RequestsSpec

(* -------------------------------- types --------------------------------- *)

(* For any peers, messages and limits: every part of the exchange keeps    *)
(* its types, so its counters keep within their limits.                    *)
THEOREM TypeCorrect == ExchangeSpec => []TypeOK
<1>1. AdmissionInit => AdmissionTypeOK
  BY WhitelistAssumption DEF AdmissionInit, AdmissionTypeOK, Standings
<1>2. AdmissionSpec => []AdmissionTypeOK
  BY <1>1, AdmissionTyped, PTL DEF AdmissionSpec
<1>3. RequestsTypeOK /\ SendingTypeOK /\ WantsTypeOK /\ AdmissionTypeOK => TypeOK
  BY DEF TypeOK
<1> QED BY <1>2, <1>3, RequestsSafe, SendingSafe, WantsSafe, PTL DEF ExchangeSpec
===================================================================================
