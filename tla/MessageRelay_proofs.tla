-------------------------- MODULE MessageRelay_proofs --------------------------
(* Proofs about MessageRelay, for any sets of peers and messages, any       *)
(* window count and any bounds the assumptions allow.                       *)
EXTENDS MessageRelay, FiniteSetTheorems, TLAPS

(* ------------------- the methods of the message cache ------------------- *)

CacheOK == CacheTypeOK /\ UnvalidatedCounted

LEMMA UnvalidatedIsFinite ==
  ASSUME CacheOK
  PROVE  /\ IsFiniteSet(msgs) /\ IsFiniteSet(msgs \ validated)
         /\ Cardinality(msgs \ validated) \in Nat
BY CacheAssumption, FS_Subset, FS_CardinalityType DEF CacheOK, CacheTypeOK

LEMMA PutOK ==
  ASSUME CacheOK, NEW m \in Msgs, NEW valid \in BOOLEAN, Put(m, valid)
  PROVE  CacheOK'
<1>1. CASE m \in msgs
  BY <1>1 DEF Put, cacheVars, CacheOK, CacheTypeOK, UnvalidatedCounted
<1>2. CASE m \notin msgs
  <2>1. CacheTypeOK'
    BY <1>2, CacheAssumption DEF Put, CacheOK, CacheTypeOK, Windows
  <2>2. UnvalidatedCounted'
    <3>1. CASE valid
      <4>1. msgs' \ validated' = msgs \ validated /\ notValidatedCount' = notValidatedCount
        BY <1>2, <3>1 DEF Put
      <4> QED
        BY <4>1 DEF CacheOK, UnvalidatedCounted
    <3>2. CASE ~valid
      <4>1. /\ msgs' \ validated' = (msgs \ validated) \cup {m}
            /\ notValidatedCount' = notValidatedCount + 1
        BY <1>2, <3>2 DEF Put, CacheOK, CacheTypeOK
      <4>2. Cardinality((msgs \ validated) \cup {m}) <= Cardinality(msgs \ validated) + 1
        <5>1. IsFiniteSet(msgs \ validated) /\ Cardinality(msgs \ validated) \in Nat
          BY UnvalidatedIsFinite
        <5>2. m \notin msgs \ validated
          BY <1>2
        <5>3. Cardinality((msgs \ validated) \cup {m}) = Cardinality(msgs \ validated) + 1
          BY <5>1, <5>2, FS_AddElement
        <5> QED
          BY <5>1, <5>3
      <4>3. Cardinality((msgs \ validated) \cup {m}) \in Nat
        BY UnvalidatedIsFinite, FS_AddElement, FS_CardinalityType
      <4> QED
        BY <4>1, <4>2, <4>3, UnvalidatedIsFinite DEF CacheOK, UnvalidatedCounted, CacheTypeOK
    <3> QED
      BY <3>1, <3>2
  <2> QED
    BY <2>1, <2>2 DEF CacheOK
<1> QED
  BY <1>1, <1>2

LEMMA ObserveDuplicateOK ==
  ASSUME CacheOK, NEW m \in Msgs, NEW p \in Peers, ObserveDuplicate(m, p)
  PROVE  CacheOK'
BY DEF ObserveDuplicate, CacheOK, CacheTypeOK, UnvalidatedCounted

LEMMA ValidateOK ==
  ASSUME CacheOK, NEW m \in Msgs, Validate(m)
  PROVE  CacheOK'
<1>1. CASE m \notin msgs \/ m \in validated
  <2>1. /\ msgs' = msgs /\ validated' = validated /\ history' = history
        /\ notValidatedCount' = notValidatedCount
        /\ originatingPeers' \in [Msgs -> SUBSET Peers]
    BY <1>1 DEF Validate, cacheVars, CacheOK, CacheTypeOK
  <2> QED
    BY <2>1 DEF CacheOK, CacheTypeOK, UnvalidatedCounted
<1>2. CASE m \in msgs /\ m \notin validated
  <2>1. /\ msgs' = msgs /\ validated' = validated \cup {m} /\ history' = history
        /\ notValidatedCount' = notValidatedCount - 1
        /\ originatingPeers' \in [Msgs -> SUBSET Peers]
    BY <1>2 DEF Validate, CacheOK, CacheTypeOK
  <2>2. msgs' \ validated' = (msgs \ validated) \ {m}
    BY <2>1
  <2>3. /\ Cardinality((msgs \ validated) \ {m}) = Cardinality(msgs \ validated) - 1
        /\ Cardinality((msgs \ validated) \ {m}) \in Nat
    BY <1>2, UnvalidatedIsFinite, FS_RemoveElement, FS_CardinalityType
  <2> QED
    BY <1>2, <2>1, <2>2, <2>3, UnvalidatedIsFinite DEF CacheOK, CacheTypeOK, UnvalidatedCounted
<1> QED
  BY <1>1, <1>2

LEMMA RemoveOK ==
  ASSUME CacheOK, NEW m \in Msgs, Remove(m)
  PROVE  CacheOK'
<1>1. CacheTypeOK'
  BY DEF Remove, CacheOK, CacheTypeOK
<1>2. msgs' \ validated' \in SUBSET (msgs \ validated) /\ notValidatedCount' = notValidatedCount
  BY DEF Remove
<1>3. /\ Cardinality(msgs' \ validated') <= Cardinality(msgs \ validated)
      /\ Cardinality(msgs' \ validated') \in Nat
  BY <1>2, UnvalidatedIsFinite, FS_Subset, FS_CardinalityType
<1> QED
  BY <1>1, <1>2, <1>3, UnvalidatedIsFinite DEF CacheOK, CacheTypeOK, UnvalidatedCounted

LEMMA ShiftOK ==
  ASSUME CacheOK, Shift
  PROVE  CacheOK'
<1> DEFINE dropped == history[Capacity - 1] \cap msgs
           unval   == msgs \ validated
<1>1. /\ msgs' = msgs \ dropped /\ validated' = validated \ dropped
      /\ notValidatedCount' = notValidatedCount - Cardinality(dropped \ validated)
      /\ originatingPeers' \in [Msgs -> SUBSET Peers]
      /\ history' \in [Windows -> SUBSET Msgs]
  BY CacheAssumption DEF Shift, CacheOK, CacheTypeOK, Windows
<1>2. unval' = unval \ (dropped \ validated) /\ dropped \ validated \in SUBSET unval
  BY <1>1
<1>3. /\ Cardinality(unval \ (dropped \ validated)) =
           Cardinality(unval) - Cardinality(dropped \ validated)
      /\ Cardinality(unval \ (dropped \ validated)) \in Nat
      /\ Cardinality(dropped \ validated) \in Nat
  <2>1. IsFiniteSet(unval) /\ IsFiniteSet(dropped \ validated)
        /\ IsFiniteSet(unval \ (dropped \ validated))
    BY <1>2, UnvalidatedIsFinite, FS_Subset
  <2>2. /\ unval = (unval \ (dropped \ validated)) \cup (dropped \ validated)
        /\ (unval \ (dropped \ validated)) \cap (dropped \ validated) = {}
    BY <1>2
  <2> HIDE DEF unval, dropped
  <2>3. Cardinality((unval \ (dropped \ validated)) \cup (dropped \ validated))
          = Cardinality(unval \ (dropped \ validated)) + Cardinality(dropped \ validated) - 0
    BY <2>1, <2>2, FS_Union, FS_EmptySet
  <2>4. /\ Cardinality(unval \ (dropped \ validated)) \in Nat
        /\ Cardinality(dropped \ validated) \in Nat
    BY <2>1, FS_CardinalityType
  <2> QED
    BY <2>2, <2>3, <2>4
<1> HIDE DEF unval, dropped
<1>4. notValidatedCount >= Cardinality(unval) /\ Cardinality(unval) \in Nat
      /\ notValidatedCount \in Nat
  BY UnvalidatedIsFinite DEF unval, CacheOK, CacheTypeOK, UnvalidatedCounted
<1>5. notValidatedCount' >= Cardinality(unval') /\ notValidatedCount' \in Nat
  BY <1>1, <1>2, <1>3, <1>4
<1>6. msgs' \subseteq Msgs /\ validated' \subseteq msgs'
  BY <1>1 DEF CacheOK, CacheTypeOK
<1> QED
  BY <1>1, <1>5, <1>6 DEF unval, CacheOK, CacheTypeOK, UnvalidatedCounted

(* -------------------------- type correctness --------------------------- *)

RelayTyped == TypeOK /\ UnvalidatedCounted

LEMMA GossipIDsTyped == ASSUME CacheTypeOK PROVE GossipIDs \subseteq Msgs
BY DEF GossipIDs, CacheTypeOK

LEMMA ForwardTyped ==
  ASSUME sent \in [Msgs -> SUBSET Peers], NEW m \in Msgs, NEW p, NEW exclude, Forward(m, p, exclude)
  PROVE  sent' \in [Msgs -> SUBSET Peers]
BY DEF Forward, PeersToForward

LEMMA MarkSeenTyped ==
  ASSUME TypeOK, NEW p, NEW m \in Msgs, MarkSeen(p, m)
  PROVE  seen' \in [Msgs -> 0..SeenTTL] /\ entries' \in [Msgs -> 0..MaxEntries]
BY RelayAssumption DEF TypeOK, MarkSeen

LEMMA DeliverTyped ==
  ASSUME RelayTyped, NEW p \in Peers, NEW m \in Msgs, Deliver(p, m)
  PROVE  /\ CacheOK'
         /\ deliveries' \in [Msgs -> Nat]
         /\ reporting' \subseteq Copies
         /\ sent' \in [Msgs -> SUBSET Peers]
<1>1. CacheOK /\ (~asyncValidation) \in BOOLEAN
  BY DEF RelayTyped, TypeOK, CacheOK
<1>2. CacheOK'
  BY <1>1, PutOK DEF Deliver
<1>3. deliveries' \in [Msgs -> Nat]
  BY DEF Deliver, RelayTyped, TypeOK
<1>4. reporting' \subseteq Copies /\ sent' \in [Msgs -> SUBSET Peers]
  BY ForwardTyped DEF Deliver, RelayTyped, TypeOK, Copies
<1> QED
  BY <1>2, <1>3, <1>4

LEMMA TypedStep ==
  ASSUME RelayTyped, [Next]_vars
  PROVE  RelayTyped'
<1> USE DEF RelayTyped
<1>1. CacheOK /\ TypeOK
  BY DEF TypeOK, CacheOK
<1>2. SUFFICES CacheOK' /\ TypeOK'
  BY DEF CacheOK
<1>0. ASSUME UNCHANGED cacheVars PROVE CacheOK'
  BY <1>0, <1>1 DEF cacheVars, CacheOK, CacheTypeOK, UnvalidatedCounted
<1>3. ASSUME NEW p \in Peers, NEW m \in Msgs, Receive(p, m) \/ CopyInvalid(p, m) \/ ValidatorRefuses(p, m)
      PROVE  CacheOK' /\ TypeOK'
  <2>1. CacheOK'
    BY <1>0, <1>3 DEF Receive, CopyInvalid, ValidatorRefuses
  <2>2. /\ checking' \subseteq Copies /\ validating' \subseteq Copies /\ reporting' \subseteq Copies
        /\ UNCHANGED <<asyncValidation, seen, beat, records>>
    BY <1>1, <1>3 DEF Receive, CopyInvalid, ValidatorRefuses, TypeOK, Copies
  <2> QED
    BY <1>1, <2>1, <2>2 DEF TypeOK, CacheOK, records, beat
<1>4. ASSUME NEW p \in Peers, NEW m \in Msgs, Duplicate(p, m)
      PROVE  CacheOK' /\ TypeOK'
  <2>1. CacheOK'
    BY <1>1, <1>4, ObserveDuplicateOK DEF Duplicate
  <2> QED
    BY <1>1, <1>4, <2>1 DEF Duplicate, TypeOK, CacheOK, beat
<1>5. ASSUME NEW p \in Peers, NEW m \in Msgs, FirstCopy(p, m)
      PROVE  CacheOK' /\ TypeOK'
  <2>1. Deliver(p, m) /\ MarkSeen(p, m)
    BY <1>5 DEF FirstCopy
  <2> QED
    BY <1>1, <1>5, <2>1, DeliverTyped, MarkSeenTyped DEF FirstCopy, TypeOK, CacheOK, beat
<1>6. ASSUME NEW p \in Peers, NEW m \in Msgs, FirstCopyToValidator(p, m)
      PROVE  CacheOK' /\ TypeOK'
  <2>1. MarkSeen(p, m)
    BY <1>6 DEF FirstCopyToValidator
  <2>2. CacheOK'
    BY <1>1, <1>6 DEF FirstCopyToValidator, CacheOK, CacheTypeOK, UnvalidatedCounted, cacheVars
  <2> QED
    BY <1>1, <1>6, <2>1, <2>2, MarkSeenTyped DEF FirstCopyToValidator, TypeOK, CacheOK, beat, Copies
<1>7. ASSUME NEW p \in Peers, NEW m \in Msgs, ValidatorAccepts(p, m)
      PROVE  CacheOK' /\ TypeOK'
  <2>1. Deliver(p, m)
    BY <1>7 DEF ValidatorAccepts
  <2> QED
    BY <1>1, <1>7, <2>1, DeliverTyped DEF ValidatorAccepts, TypeOK, CacheOK, beat
<1>8. ASSUME NEW p \in Peers, NEW m \in Msgs, ReportAccept(p, m)
      PROVE  CacheOK' /\ TypeOK'
  <2>1. CacheOK'
    BY <1>1, <1>8, ValidateOK DEF ReportAccept
  <2>2. sent' \in [Msgs -> SUBSET Peers]
    BY <1>1, <1>8, ForwardTyped DEF ReportAccept, TypeOK
  <2> QED
    BY <1>1, <1>8, <2>1, <2>2 DEF ReportAccept, TypeOK, CacheOK, beat
<1>9. ASSUME NEW p \in Peers, NEW m \in Msgs, ReportRefuse(p, m)
      PROVE  CacheOK' /\ TypeOK'
  <2>1. CacheOK'
    BY <1>1, <1>9, RemoveOK DEF ReportRefuse
  <2>2. promised' \in [Msgs -> 0..(Capacity + 1)]
    BY <1>1, <1>9, CacheAssumption DEF ReportRefuse, TypeOK
  <2> QED
    BY <1>1, <1>9, <2>1, <2>2 DEF ReportRefuse, TypeOK, CacheOK, beat
<1>10. ASSUME NEW m \in Msgs, Publish(m)
       PROVE  CacheOK' /\ TypeOK'
  <2>1. CacheOK'
    BY <1>1, <1>10, PutOK DEF Publish
  <2>2. seen' \in [Msgs -> 0..SeenTTL] /\ entries' \in [Msgs -> 0..MaxEntries]
    BY <1>1, <1>10, RelayAssumption DEF Publish, TypeOK
  <2>3. sent' \in [Msgs -> SUBSET Peers]
    BY <1>1, <1>10 DEF Publish, TypeOK
  <2> QED
    BY <1>1, <1>10, <2>1, <2>2, <2>3 DEF Publish, TypeOK, CacheOK, beat, flow
<1>11. CASE HeartbeatGossip
  <2>1. CacheOK'
    BY <1>1, <1>11 DEF HeartbeatGossip, CacheOK, CacheTypeOK, UnvalidatedCounted, cacheVars
  <2>2. seen' \in [Msgs -> 0..SeenTTL]
    BY <1>1, <1>11, RelayAssumption DEF HeartbeatGossip, TypeOK
  <2>3. promised' \in [Msgs -> 0..(Capacity + 1)]
    BY <1>1, <1>11, CacheAssumption DEF HeartbeatGossip, TypeOK
  <2> QED
    BY <1>1, <1>11, <2>1, <2>2, <2>3 DEF HeartbeatGossip, TypeOK, CacheOK, flow
<1>12. CASE HeartbeatShift
  <2>1. CacheOK'
    BY <1>1, <1>12, ShiftOK DEF HeartbeatShift
  <2>2. promised' \in [Msgs -> 0..(Capacity + 1)]
    BY <1>1, <1>12, CacheAssumption DEF HeartbeatShift, TypeOK
  <2> QED
    BY <1>1, <1>12, <2>1, <2>2 DEF HeartbeatShift, TypeOK, CacheOK, flow
<1>13. CASE HeartbeatAborts
  <2>1. CacheOK'
    BY <1>0, <1>13 DEF HeartbeatAborts
  <2>2. aborts' \in 0..MaxAborts /\ shiftDue' \in BOOLEAN
    <3>1. aborts \in 0..MaxAborts /\ aborts < MaxAborts /\ aborts' = aborts + 1 /\ shiftDue' = FALSE
      BY <1>1, <1>13 DEF HeartbeatAborts, TypeOK
    <3>2. aborts' \in 0..MaxAborts
      BY <3>1, RelayAssumption
    <3> QED
      BY <3>1, <3>2
  <2>3. UNCHANGED <<asyncValidation, checking, validating, reporting, seen, entries, deliveries,
                    heard, missed, sent, promised>>
    BY <1>13 DEF HeartbeatAborts, flow, records
  <2> QED
    BY <1>1, <2>1, <2>2, <2>3 DEF TypeOK, CacheOK
<1>14. CASE UNCHANGED vars
  BY <1>1, <1>14 DEF vars, TypeOK, CacheOK, CacheTypeOK,
       UnvalidatedCounted, cacheVars, flow, records, beat
<1> QED
  BY <1>3, <1>4, <1>5, <1>6, <1>7, <1>8, <1>9, <1>10, <1>11, <1>12, <1>13, <1>14 DEF Next, CopyStep

LEMMA RelayTypeCorrect == Spec => []RelayTyped
<1>1. Init => RelayTyped
  <2>1. Init => Cardinality(msgs \ validated) = 0
    BY FS_EmptySet DEF Init, CacheInit
  <2>2. Init => CacheTypeOK /\ UnvalidatedCounted
    BY <2>1 DEF Init, CacheInit, CacheTypeOK, UnvalidatedCounted
  <2>3. 0 \in 0..SeenTTL /\ 0 \in 0..MaxAborts /\ 0 \in 0..MaxEntries /\ 0 \in 0..(Capacity + 1)
    BY CacheAssumption, RelayAssumption
  <2> QED
    <3> SUFFICES ASSUME Init PROVE TypeOK
      BY <2>2 DEF RelayTyped
    <3>1. /\ asyncValidation \in BOOLEAN
          /\ checking \subseteq Copies /\ validating \subseteq Copies /\ reporting \subseteq Copies
          /\ shiftDue \in BOOLEAN /\ aborts \in 0..MaxAborts
      BY <2>3, RelayAssumption DEF Init
    <3>2. /\ seen \in [Msgs -> 0..SeenTTL] /\ entries \in [Msgs -> 0..MaxEntries]
          /\ deliveries \in [Msgs -> Nat] /\ promised \in [Msgs -> 0..(Capacity + 1)]
      BY <2>3 DEF Init
    <3>3. /\ heard \in [Msgs -> SUBSET Peers] /\ missed \in [Msgs -> SUBSET Peers]
          /\ sent \in [Msgs -> SUBSET Peers]
      BY DEF Init
    <3> QED
      BY <2>2, <3>1, <3>2, <3>3 DEF TypeOK
<1>2. RelayTyped /\ [Next]_vars => RelayTyped'
  BY TypedStep
<1> QED
  BY <1>1, <1>2, PTL DEF Spec

(* Every variable keeps its type; for notValidatedCount, never negative,   *)
(* this is no matter of course.                                            *)
THEOREM TypeCorrect == Spec => []TypeOK
BY RelayTypeCorrect, PTL DEF RelayTyped

(* The count never falls below the messages that are not validated.        *)
THEOREM CountMissesNone == Spec => []UnvalidatedCounted
BY RelayTypeCorrect, PTL DEF RelayTyped

(* ------------------- one copy at a time, one window each ---------------- *)

(* A message in no window. *)
Fresh(m) == \A i \in Windows : m \notin history[i]

(* A copy a topic validator works on was marked seen at most one heartbeat *)
(* ago, is the only one of its message, is not cached and not delivered.   *)
CopyPending ==
  /\ \A c \in validating :
       /\ seen[c[2]] >= SeenTTL - 1
       /\ deliveries[c[2]] < entries[c[2]]
       /\ Fresh(c[2])
  /\ \A c, d \in validating : c[2] = d[2] => c = d

(* What is in a window was marked seen as many heartbeats ago as the       *)
(* window is old, give or take the aborted ones, the one under way and the *)
(* one its topic validator took.                                           *)
StillSeen ==
  \A i \in Windows : \A m \in history[i] :
    seen[m] + i + aborts + (IF shiftDue THEN 2 ELSE 1) >= SeenTTL

OneWindow == \A i, j \in Windows : history[i] \cap history[j] # {} => i = j

(* A promised message is cached and its window is far enough from the end. *)
PromiseKept ==
  \A m \in Msgs : promised[m] > 0 =>
    m \in msgs /\ \A i \in Windows : m \in history[i] => promised[m] <= Capacity - i

PipeInv == CopyPending /\ DeliveredOnce
HistInv == CachedInHistory /\ StillSeen /\ OneWindow /\ PromiseKept
RelayInv == PipeInv /\ HistInv

(* ------------------------------- windows ------------------------------- *)

LEMMA InHistoryIsSeen ==
  ASSUME RelayTyped, StillSeen, NEW i \in Windows, NEW m \in history[i]
  PROVE  m \in Msgs /\ seen[m] > 0
<1>1. m \in Msgs /\ seen[m] \in Nat /\ aborts \in 0..MaxAborts
  BY DEF RelayTyped, TypeOK, CacheTypeOK
<1>2. seen[m] + i + aborts + (IF shiftDue THEN 2 ELSE 1) >= SeenTTL
  BY DEF StillSeen
<1>3. (IF shiftDue THEN 2 ELSE 1) <= 2 /\ (IF shiftDue THEN 2 ELSE 1) \in Nat
  OBVIOUS
<1> QED
  BY <1>1, <1>2, <1>3, CacheAssumption, RelayAssumption DEF Windows

LEMMA UnseenIsFresh ==
  ASSUME RelayTyped, StillSeen, NEW m \in Msgs, seen[m] = 0
  PROVE  Fresh(m)
BY InHistoryIsSeen DEF Fresh, RelayTyped, TypeOK

LEMMA FreshPut ==
  ASSUME RelayTyped, CachedInHistory, NEW m \in Msgs, Fresh(m), NEW valid, Put(m, valid)
  PROVE  msgs' = msgs \cup {m} /\ history' = [history EXCEPT ![0] = @ \cup {m}]
BY DEF CachedInHistory, Fresh, Put

(* Nothing enters a window, and what leaves the cache is not promised.     *)
LEMMA HistSame ==
  ASSUME RelayTyped, RelayTyped', HistInv, UNCHANGED <<history, aborts, shiftDue>>,
         msgs' \subseteq msgs,
         \A n \in Msgs : seen'[n] >= seen[n],
         \A n \in Msgs : promised'[n] = 0 \/ (promised'[n] = promised[n] /\ (n \in msgs => n \in msgs'))
  PROVE  HistInv'
<1>1. CachedInHistory' /\ OneWindow'
  BY DEF HistInv, CachedInHistory, OneWindow
<1>2. StillSeen'
  <2> SUFFICES ASSUME NEW i \in Windows, NEW m \in history[i]
               PROVE  seen'[m] + i + aborts + (IF shiftDue THEN 2 ELSE 1) >= SeenTTL
    BY DEF StillSeen
  <2>1. m \in Msgs /\ seen[m] \in Nat /\ seen'[m] \in Nat /\ i \in Nat /\ aborts \in Nat
        /\ SeenTTL \in Nat
    BY CacheAssumption, RelayAssumption DEF RelayTyped, TypeOK, CacheTypeOK, Windows
  <2>2. seen[m] + i + aborts + (IF shiftDue THEN 2 ELSE 1) >= SeenTTL
    BY DEF HistInv, StillSeen
  <2>3. seen'[m] >= seen[m] /\ (IF shiftDue THEN 2 ELSE 1) \in Nat
    BY <2>1
  <2> QED
    BY <2>1, <2>2, <2>3
<1>3. PromiseKept'
  BY DEF HistInv, PromiseKept
<1> QED
  BY <1>1, <1>2, <1>3 DEF HistInv

(* A message in no window enters the current one.                          *)
LEMMA HistPut ==
  ASSUME RelayTyped, RelayTyped', HistInv, NEW m \in Msgs, Fresh(m), NEW valid, Put(m, valid),
         UNCHANGED <<aborts, shiftDue, promised>>,
         seen'[m] >= SeenTTL - 1,
         \A n \in Msgs : n # m => seen'[n] = seen[n]
  PROVE  HistInv'
<1>1. msgs' = msgs \cup {m} /\ history' = [history EXCEPT ![0] = @ \cup {m}]
  BY FreshPut DEF HistInv
<1>2. 0 \in Windows /\ history \in [Windows -> SUBSET Msgs]
  BY CacheAssumption DEF Windows, RelayTyped, TypeOK, CacheTypeOK
<1>3. \A i \in Windows : /\ m \in history'[i] <=> i = 0
                         /\ \A n \in Msgs : n # m => (n \in history'[i] <=> n \in history[i])
                         /\ history'[i] \subseteq Msgs
  BY <1>1, <1>2 DEF Fresh
<1>4. CachedInHistory'
  BY <1>1, <1>2, <1>3 DEF HistInv, CachedInHistory, RelayTyped, TypeOK, CacheTypeOK
<1>5. OneWindow'
  <2> SUFFICES ASSUME NEW i \in Windows, NEW j \in Windows, NEW n \in history'[i] \cap history'[j]
               PROVE  i = j
    BY DEF OneWindow
  <2> QED
    BY <1>3 DEF HistInv, OneWindow
<1>6. StillSeen'
  <2> SUFFICES ASSUME NEW i \in Windows, NEW n \in history'[i]
               PROVE  seen'[n] + i + aborts + (IF shiftDue THEN 2 ELSE 1) >= SeenTTL
    BY DEF StillSeen
  <2>1. n \in Msgs /\ seen[n] \in Nat /\ seen'[n] \in Nat /\ i \in Nat /\ aborts \in Nat
        /\ SeenTTL \in Nat
    BY <1>3, CacheAssumption, RelayAssumption DEF RelayTyped, TypeOK, CacheTypeOK, Windows
  <2>2. (IF shiftDue THEN 2 ELSE 1) \in Nat /\ (IF shiftDue THEN 2 ELSE 1) >= 1
    OBVIOUS
  <2>3. CASE n = m
    BY <2>1, <2>2, <2>3
  <2>4. CASE n # m
    BY <1>3, <2>1, <2>4 DEF HistInv, StillSeen
  <2> QED
    BY <2>3, <2>4
<1>7. PromiseKept'
  <2> SUFFICES ASSUME NEW n \in Msgs, promised[n] > 0
               PROVE  n \in msgs' /\ \A i \in Windows : n \in history'[i] => promised[n] <= Capacity - i
    BY DEF PromiseKept
  <2>1. n \in msgs /\ \A i \in Windows : n \in history[i] => promised[n] <= Capacity - i
    BY DEF HistInv, PromiseKept
  <2>2. n # m
    BY <2>1 DEF HistInv, CachedInHistory, Fresh
  <2> QED
    BY <1>1, <1>3, <2>1, <2>2
<1> QED
  BY <1>4, <1>5, <1>6, <1>7 DEF HistInv

(* seenCache.prune and emitGossip: everything seen ages, and what is       *)
(* advertised is promised from a window before Gossip on.                  *)
LEMMA HistGossip == ASSUME RelayTyped, HistInv, HeartbeatGossip PROVE HistInv'
<1>1. UNCHANGED <<msgs, history, aborts>> /\ ~shiftDue /\ shiftDue'
  BY DEF HeartbeatGossip, cacheVars
<1>2. CachedInHistory' /\ OneWindow'
  BY <1>1 DEF HistInv, CachedInHistory, OneWindow
<1>3. StillSeen'
  <2> SUFFICES ASSUME NEW i \in Windows, NEW n \in history[i]
               PROVE  seen'[n] + i + aborts + 2 >= SeenTTL
    BY <1>1 DEF StillSeen
  <2>1. n \in Msgs /\ seen[n] \in Nat /\ seen[n] > 0 /\ i \in Nat /\ aborts \in Nat /\ SeenTTL \in Nat
    BY InHistoryIsSeen, CacheAssumption, RelayAssumption
       DEF HistInv, RelayTyped, TypeOK, CacheTypeOK, Windows
  <2>2. seen[n] + i + aborts + 1 >= SeenTTL
    BY <1>1 DEF HistInv, StillSeen
  <2>3. seen'[n] = seen[n] - 1
    BY <2>1 DEF HeartbeatGossip
  <2> QED
    BY <2>1, <2>2, <2>3
<1>4. PromiseKept'
  <2> SUFFICES ASSUME NEW n \in Msgs, promised'[n] > 0
               PROVE  n \in msgs /\ \A i \in Windows : n \in history[i] => promised'[n] <= Capacity - i
    BY <1>1 DEF PromiseKept
  <2>1. CASE n \in GossipIDs
    <3>1. n \in msgs
      BY <2>1 DEF GossipIDs, RelayTyped, TypeOK, CacheTypeOK
    <3>2. PICK k \in 0..(Gossip - 1) : n \in history[k]
      BY <2>1 DEF GossipIDs
    <3>3. k \in Windows /\ k \in Int /\ k <= Gossip - 1
      BY <3>2, CacheAssumption DEF Windows
    <3>4. ASSUME NEW i \in Windows, n \in history[i] PROVE i = k
      BY <3>2, <3>3, <3>4 DEF HistInv, OneWindow
    <3>5. promised'[n] = Capacity - Gossip + 1
      BY <2>1 DEF HeartbeatGossip
    <3> QED
      BY <3>1, <3>3, <3>4, <3>5, CacheAssumption
  <2>2. CASE n \notin GossipIDs
    BY <2>2 DEF HeartbeatGossip, HistInv, PromiseKept
  <2> QED
    BY <2>1, <2>2
<1> QED
  BY <1>2, <1>3, <1>4 DEF HistInv

(* mcache.shift: every window moves, every promise is one shift shorter.   *)
LEMMA HistShift == ASSUME RelayTyped, HistInv, HeartbeatShift PROVE HistInv'
<1> DEFINE dropped == history[Capacity - 1] \cap msgs
<1>1. /\ msgs' = msgs \ dropped /\ UNCHANGED <<seen, aborts>> /\ shiftDue /\ ~shiftDue'
      /\ history' = [i \in Windows |-> IF i = 0 THEN {} ELSE history[i - 1]]
      /\ promised' = [m \in Msgs |-> IF promised[m] > 0 THEN promised[m] - 1 ELSE 0]
  BY DEF HeartbeatShift, Shift
<1>2. \A i \in Windows : \A n \in history'[i] : i \in Nat /\ i - 1 \in Windows /\ n \in history[i - 1] /\ n \in Msgs
  BY <1>1, CacheAssumption DEF Windows, RelayTyped, TypeOK, CacheTypeOK
<1>3. \A i \in Windows : i # Capacity - 1 => i + 1 \in Windows /\ history'[i + 1] = history[i]
  BY <1>1, CacheAssumption DEF Windows
<1>4. CachedInHistory'
  <2> SUFFICES ASSUME NEW n \in msgs' PROVE \E i \in Windows : n \in history'[i]
    BY DEF CachedInHistory
  <2>1. PICK i \in Windows : n \in history[i]
    BY <1>1 DEF HistInv, CachedInHistory
  <2>2. i # Capacity - 1
    BY <1>1, <2>1
  <2> QED
    BY <1>3, <2>1, <2>2
<1>5. OneWindow'
  <2> SUFFICES ASSUME NEW i \in Windows, NEW j \in Windows, NEW n \in history'[i] \cap history'[j]
               PROVE  i = j
    BY DEF OneWindow
  <2>1. /\ i \in Nat /\ j \in Nat /\ i - 1 \in Windows /\ j - 1 \in Windows
        /\ n \in history[i - 1] \cap history[j - 1]
    BY <1>2
  <2>2. i - 1 = j - 1
    BY <2>1 DEF HistInv, OneWindow
  <2> QED
    BY <2>1, <2>2
<1>6. StillSeen'
  <2> SUFFICES ASSUME NEW i \in Windows, NEW n \in history'[i]
               PROVE  seen[n] + i + aborts + 1 >= SeenTTL
    BY <1>1 DEF StillSeen
  <2>1. i \in Nat /\ i - 1 \in Windows /\ n \in history[i - 1] /\ n \in Msgs
    BY <1>2
  <2>2. seen[n] + (i - 1) + aborts + 2 >= SeenTTL
    BY <1>1, <2>1 DEF HistInv, StillSeen
  <2>3. seen[n] \in Nat /\ aborts \in Nat /\ SeenTTL \in Nat
    BY <2>1, RelayAssumption DEF RelayTyped, TypeOK
  <2> QED
    BY <2>1, <2>2, <2>3
<1>7. PromiseKept'
  <2> SUFFICES ASSUME NEW n \in Msgs, promised'[n] > 0
               PROVE  n \in msgs' /\ \A i \in Windows : n \in history'[i] => promised'[n] <= Capacity - i
    BY DEF PromiseKept
  <2>1. promised[n] \in Int /\ promised[n] > 1 /\ promised'[n] = promised[n] - 1
    BY <1>1 DEF RelayTyped, TypeOK
  <2>2. n \in msgs /\ \A i \in Windows : n \in history[i] => promised[n] <= Capacity - i
    BY <2>1 DEF HistInv, PromiseKept
  <2>3. n \notin history[Capacity - 1]
    BY <2>1, <2>2, CacheAssumption DEF Windows
  <2>4. ASSUME NEW i \in Windows, n \in history'[i] PROVE promised'[n] <= Capacity - i
    <3>1. i \in Nat /\ i - 1 \in Windows /\ n \in history[i - 1]
      BY <1>2, <2>4
    <3>2. promised[n] <= Capacity - (i - 1)
      BY <2>2, <3>1
    <3> QED
      BY <2>1, <3>1, <3>2, CacheAssumption
  <2> QED
    BY <1>1, <2>2, <2>3, <2>4
<1> QED
  BY <1>4, <1>5, <1>6, <1>7 DEF HistInv

LEMMA HistAborts == ASSUME RelayTyped, HistInv, HeartbeatAborts PROVE HistInv'
<1>1. UNCHANGED <<msgs, history, seen, promised>> /\ shiftDue /\ ~shiftDue' /\ aborts' = aborts + 1
  BY DEF HeartbeatAborts, cacheVars, records
<1>2. CachedInHistory' /\ OneWindow' /\ PromiseKept'
  BY <1>1 DEF HistInv, CachedInHistory, OneWindow, PromiseKept
<1>3. StillSeen'
  <2> SUFFICES ASSUME NEW i \in Windows, NEW n \in history[i]
               PROVE  seen[n] + i + (aborts + 1) + 1 >= SeenTTL
    BY <1>1 DEF StillSeen
  <2>1. seen[n] + i + aborts + 2 >= SeenTTL
    BY <1>1 DEF HistInv, StillSeen
  <2>2. n \in Msgs /\ seen[n] \in Nat /\ aborts \in Nat /\ SeenTTL \in Nat /\ i \in Nat
    BY CacheAssumption, RelayAssumption DEF RelayTyped, TypeOK, CacheTypeOK, Windows
  <2> QED
    BY <2>1, <2>2
<1> QED
  BY <1>2, <1>3 DEF HistInv

(* ---------------------------- pending copies ---------------------------- *)

(* No copy enters the topic validator, no message enters a window.         *)
LEMMA PipeSame ==
  ASSUME RelayTyped, RelayTyped', PipeInv, UNCHANGED <<entries, deliveries>>,
         validating' \subseteq validating,
         \A n \in Msgs : Fresh(n) => Fresh(n)',
         \A c \in validating' : seen'[c[2]] >= SeenTTL - 1
  PROVE  PipeInv'
<1>1. \A c \in validating : c[2] \in Msgs
  BY DEF RelayTyped, TypeOK, Copies
<1>2. DeliveredOnce'
  BY DEF PipeInv, DeliveredOnce
<1>3. CopyPending'
  BY <1>1 DEF PipeInv, CopyPending
<1> QED
  BY <1>2, <1>3 DEF PipeInv

(* A message no validator works on is put into the current window.         *)
LEMMA PipePut ==
  ASSUME RelayTyped, RelayTyped', PipeInv, NEW m \in Msgs,
         history' = [history EXCEPT ![0] = @ \cup {m}],
         validating' \subseteq validating,
         \A c \in validating' : c[2] # m,
         \A n \in Msgs : n # m => seen'[n] = seen[n] /\ entries'[n] = entries[n] /\ deliveries'[n] = deliveries[n],
         deliveries'[m] <= entries'[m]
  PROVE  PipeInv'
<1>1. \A c \in validating : c[2] \in Msgs
  BY DEF RelayTyped, TypeOK, Copies
<1>2. DeliveredOnce'
  BY DEF PipeInv, DeliveredOnce
<1>3. \A n \in Msgs : n # m /\ Fresh(n) => Fresh(n)'
  BY DEF Fresh, RelayTyped, TypeOK, CacheTypeOK
<1>4. CopyPending'
  BY <1>1, <1>3 DEF PipeInv, CopyPending
<1> QED
  BY <1>2, <1>4 DEF PipeInv

(* What is not marked seen is neither with a validator nor in a window.    *)
LEMMA UnseenIsNew ==
  ASSUME RelayTyped, RelayInv, NEW m \in Msgs, seen[m] = 0
  PROVE  Fresh(m) /\ \A c \in validating : c[2] # m
<1>1. Fresh(m)
  BY UnseenIsFresh DEF RelayInv, HistInv
<1>2. SeenTTL \in Nat /\ SeenTTL - 1 > 0
  BY CacheAssumption, RelayAssumption
<1>3. ASSUME NEW c \in validating, c[2] = m PROVE FALSE
  <2>1. seen[m] >= SeenTTL - 1
    BY <1>3 DEF RelayInv, PipeInv, CopyPending
  <2> QED
    BY <1>2, <2>1
<1> QED
  BY <1>1, <1>3

LEMMA FirstCopyStep ==
  ASSUME RelayTyped, RelayTyped', RelayInv, NEW p \in Peers, NEW m \in Msgs, FirstCopy(p, m)
  PROVE  RelayInv'
<1>1. /\ seen[m] = 0 /\ Put(m, ~asyncValidation)
      /\ seen' = [seen EXCEPT ![m] = SeenTTL]
      /\ entries' = [entries EXCEPT ![m] = @ + 1]
      /\ \E dispatched \in BOOLEAN :
           deliveries' = [deliveries EXCEPT ![m] = IF dispatched THEN @ + 1 ELSE @]
      /\ UNCHANGED <<validating, aborts, shiftDue, promised>>
  BY DEF FirstCopy, MarkSeen, Deliver, beat
<1>2. Fresh(m) /\ \A c \in validating : c[2] # m
  BY <1>1, UnseenIsNew
<1>3. /\ seen'[m] >= SeenTTL - 1
      /\ \A n \in Msgs : n # m => seen'[n] = seen[n] /\ entries'[n] = entries[n] /\ deliveries'[n] = deliveries[n]
  BY <1>1, RelayAssumption DEF RelayTyped, TypeOK
<1>4. HistInv'
  BY <1>1, <1>2, <1>3, HistPut DEF RelayInv
<1>5. deliveries'[m] <= entries'[m]
  BY <1>1 DEF RelayTyped, TypeOK, RelayInv, PipeInv, DeliveredOnce
<1>6. history' = [history EXCEPT ![0] = @ \cup {m}]
  BY <1>1, <1>2, FreshPut DEF RelayInv, HistInv
<1>7. PipeInv'
  BY <1>1, <1>2, <1>3, <1>5, <1>6, PipePut DEF RelayInv
<1> QED
  BY <1>4, <1>7 DEF RelayInv

LEMMA PublishStep ==
  ASSUME RelayTyped, RelayTyped', RelayInv, NEW m \in Msgs, Publish(m)
  PROVE  RelayInv'
<1>1. /\ seen[m] = 0 /\ Put(m, TRUE)
      /\ seen' = [seen EXCEPT ![m] = SeenTTL]
      /\ entries' = [entries EXCEPT ![m] = @ + 1]
      /\ \E dispatched \in BOOLEAN :
           deliveries' = [deliveries EXCEPT ![m] = IF dispatched THEN @ + 1 ELSE @]
      /\ UNCHANGED <<validating, aborts, shiftDue, promised>>
  BY DEF Publish, flow, beat
<1>2. Fresh(m) /\ \A c \in validating : c[2] # m
  BY <1>1, UnseenIsNew
<1>3. /\ seen'[m] >= SeenTTL - 1
      /\ \A n \in Msgs : n # m => seen'[n] = seen[n] /\ entries'[n] = entries[n] /\ deliveries'[n] = deliveries[n]
  BY <1>1, RelayAssumption DEF RelayTyped, TypeOK
<1>4. HistInv'
  BY <1>1, <1>2, <1>3, HistPut DEF RelayInv
<1>5. deliveries'[m] <= entries'[m]
  BY <1>1 DEF RelayTyped, TypeOK, RelayInv, PipeInv, DeliveredOnce
<1>6. history' = [history EXCEPT ![0] = @ \cup {m}]
  BY <1>1, <1>2, FreshPut DEF RelayInv, HistInv
<1>7. PipeInv'
  BY <1>1, <1>2, <1>3, <1>5, <1>6, PipePut DEF RelayInv
<1> QED
  BY <1>4, <1>7 DEF RelayInv

(* The validator's copy is the only one of its message, and counted in     *)
(* entries but not yet in deliveries.                                      *)
LEMMA ValidatorAcceptsStep ==
  ASSUME RelayTyped, RelayTyped', RelayInv, NEW p \in Peers, NEW m \in Msgs, ValidatorAccepts(p, m)
  PROVE  RelayInv'
<1>1. /\ Put(m, ~asyncValidation)
      /\ \E dispatched \in BOOLEAN :
           deliveries' = [deliveries EXCEPT ![m] = IF dispatched THEN @ + 1 ELSE @]
      /\ validating' = validating \ {<<p, m>>} /\ <<p, m>> \in validating
      /\ UNCHANGED <<seen, entries, aborts, shiftDue, promised>>
  BY DEF ValidatorAccepts, Deliver, beat
<1>2. seen[m] >= SeenTTL - 1 /\ deliveries[m] < entries[m] /\ Fresh(m)
  BY <1>1 DEF RelayInv, PipeInv, CopyPending
<1>3. \A c \in validating' : c[2] # m
  BY <1>1 DEF RelayInv, PipeInv, CopyPending
<1>4. HistInv'
  BY <1>1, <1>2, HistPut DEF RelayInv
<1>5. deliveries'[m] <= entries'[m] /\ \A n \in Msgs : n # m => deliveries'[n] = deliveries[n]
  BY <1>1, <1>2 DEF RelayTyped, TypeOK
<1>6. history' = [history EXCEPT ![0] = @ \cup {m}]
  BY <1>1, <1>2, FreshPut DEF RelayInv, HistInv
<1>7. PipeInv'
  BY <1>1, <1>3, <1>5, <1>6, PipePut DEF RelayInv
<1> QED
  BY <1>4, <1>7 DEF RelayInv

LEMMA ToValidatorStep ==
  ASSUME RelayTyped, RelayTyped', RelayInv, NEW p \in Peers, NEW m \in Msgs, FirstCopyToValidator(p, m)
  PROVE  RelayInv'
<1>1. /\ seen[m] = 0
      /\ seen' = [seen EXCEPT ![m] = SeenTTL]
      /\ entries' = [entries EXCEPT ![m] = @ + 1]
      /\ validating' = validating \cup {<<p, m>>}
      /\ UNCHANGED <<msgs, history, deliveries, aborts, shiftDue, promised>>
  BY DEF FirstCopyToValidator, MarkSeen, beat, cacheVars
<1>2. Fresh(m) /\ \A c \in validating : c[2] # m
  BY <1>1, UnseenIsNew
<1>3. \A n \in Msgs : /\ seen'[n] >= seen[n] /\ seen'[n] \in Nat /\ entries'[n] >= entries[n]
                      /\ n = m => seen'[n] >= SeenTTL - 1 /\ entries'[n] > entries[n]
  BY <1>1, RelayAssumption DEF RelayTyped, TypeOK
<1>4. HistInv'
  BY <1>1, <1>3, HistSame DEF RelayInv
<1>5. DeliveredOnce'
  BY <1>1, <1>3 DEF RelayTyped, TypeOK, RelayInv, PipeInv, DeliveredOnce
<1>6. \A c \in validating : c[2] \in Msgs
  BY DEF RelayTyped, TypeOK, Copies
<1>7. ASSUME NEW c \in validating'
      PROVE  seen'[c[2]] >= SeenTTL - 1 /\ deliveries'[c[2]] < entries'[c[2]] /\ Fresh(c[2])'
  <2>1. CASE c = <<p, m>>
    <3>1. Fresh(m)' /\ deliveries'[m] < entries'[m]
      BY <1>1, <1>2, <1>3 DEF Fresh, RelayTyped, TypeOK, RelayInv, PipeInv, DeliveredOnce
    <3> QED
      BY <1>3, <2>1, <3>1
  <2>2. CASE c \in validating
    <3>1. c[2] \in Msgs /\ c[2] # m
      BY <1>2, <1>6, <2>2
    <3>2. seen'[c[2]] = seen[c[2]] /\ entries'[c[2]] = entries[c[2]]
      BY <1>1, <3>1 DEF RelayTyped, TypeOK
    <3> QED
      BY <1>1, <2>2, <3>2 DEF RelayInv, PipeInv, CopyPending, Fresh
  <2> QED
    BY <1>1, <2>1, <2>2
<1>8. \A c, d \in validating' : c[2] = d[2] => c = d
  BY <1>1, <1>2 DEF RelayInv, PipeInv, CopyPending
<1> QED
  BY <1>4, <1>5, <1>7, <1>8 DEF RelayInv, PipeInv, CopyPending

(* ----------------------------- the invariant ---------------------------- *)

LEMMA InvStep ==
  ASSUME RelayTyped, RelayTyped', RelayInv, [Next]_vars
  PROVE  RelayInv'
<1> USE DEF RelayInv
<1>0. \A c \in validating : c[2] \in Msgs /\ seen[c[2]] >= SeenTTL - 1
  BY DEF RelayTyped, TypeOK, Copies, PipeInv, CopyPending
<1>1. \A n \in Msgs : seen[n] \in Nat /\ seen[n] >= seen[n]
  BY DEF RelayTyped, TypeOK
<1>2. ASSUME NEW p \in Peers, NEW m \in Msgs,
             Receive(p, m) \/ CopyInvalid(p, m) \/ Duplicate(p, m) \/ ValidatorRefuses(p, m) \/ ReportAccept(p, m)
      PROVE  RelayInv'
  <2>1. /\ UNCHANGED <<msgs, history, seen, aborts, shiftDue, promised, entries, deliveries>>
        /\ validating' \subseteq validating
    BY <1>2 DEF Receive, CopyInvalid, Duplicate, ValidatorRefuses, ReportAccept, ObserveDuplicate, Validate,
         cacheVars, records, beat
  <2>2. HistInv'
    BY <1>1, <2>1, HistSame
  <2>3. PipeInv'
    BY <1>0, <2>1, PipeSame DEF Fresh
  <2> QED
    BY <2>2, <2>3
<1>3. ASSUME NEW p \in Peers, NEW m \in Msgs, ReportRefuse(p, m)
      PROVE  RelayInv'
  <2>1. /\ UNCHANGED <<history, seen, aborts, shiftDue, entries, deliveries, validating>>
        /\ msgs' = msgs \ {m} /\ promised' = [promised EXCEPT ![m] = 0]
    BY <1>3 DEF ReportRefuse, Remove, beat
  <2>2. \A n \in Msgs : promised'[n] = 0 \/ (promised'[n] = promised[n] /\ (n \in msgs => n \in msgs'))
    BY <2>1 DEF RelayTyped, TypeOK
  <2>3. HistInv'
    BY <1>1, <2>1, <2>2, HistSame
  <2>4. PipeInv'
    BY <1>0, <2>1, PipeSame DEF Fresh
  <2> QED
    BY <2>3, <2>4
<1>4. CASE HeartbeatGossip
  <2>1. /\ UNCHANGED <<history, entries, deliveries, validating>>
        /\ \A c \in validating : seen[c[2]] = SeenTTL
        /\ seen' = [m \in Msgs |-> IF seen[m] > 0 THEN seen[m] - 1 ELSE 0]
    BY <1>4 DEF HeartbeatGossip, ValidationInTime, cacheVars, flow
  <2>2. SeenTTL \in Nat /\ SeenTTL > 0
    BY CacheAssumption, RelayAssumption
  <2>3. \A c \in validating' : seen'[c[2]] >= SeenTTL - 1
    BY <1>0, <2>1, <2>2
  <2>4. PipeInv'
    BY <2>1, <2>3, PipeSame DEF Fresh
  <2> QED
    BY <1>4, <2>4, HistGossip
<1>5. CASE HeartbeatShift
  <2>1. /\ UNCHANGED <<seen, entries, deliveries, validating>>
        /\ history' = [i \in Windows |-> IF i = 0 THEN {} ELSE history[i - 1]]
    BY <1>5 DEF HeartbeatShift, Shift, flow
  <2>2. \A n \in Msgs : Fresh(n) => Fresh(n)'
    BY <2>1, CacheAssumption DEF Fresh, Windows
  <2>3. PipeInv'
    BY <1>0, <2>1, <2>2, PipeSame
  <2> QED
    BY <1>5, <2>3, HistShift
<1>6. CASE HeartbeatAborts
  <2>1. UNCHANGED <<history, seen, entries, deliveries, validating>>
    BY <1>6 DEF HeartbeatAborts, cacheVars, flow, records
  <2>2. PipeInv'
    BY <1>0, <2>1, PipeSame DEF Fresh
  <2> QED
    BY <1>6, <2>2, HistAborts
<1>7. CASE UNCHANGED vars
  <2>1. UNCHANGED <<msgs, history, seen, aborts, shiftDue, promised, entries, deliveries, validating>>
    BY <1>7 DEF vars, cacheVars, flow, beat, records
  <2>2. HistInv'
    BY <1>1, <2>1, HistSame
  <2>3. PipeInv'
    BY <1>0, <2>1, PipeSame DEF Fresh
  <2> QED
    BY <2>2, <2>3
<1> QED
  BY <1>2, <1>3, <1>4, <1>5, <1>6, <1>7, FirstCopyStep, PublishStep, ValidatorAcceptsStep, ToValidatorStep
     DEF Next, CopyStep

LEMMA InvHolds == Spec => []RelayInv
<1>1. Init => RelayInv
  <2> SUFFICES ASSUME Init PROVE RelayInv
    OBVIOUS
  <2>1. CachedInHistory /\ StillSeen /\ OneWindow /\ PromiseKept
    BY DEF Init, CacheInit, CachedInHistory, StillSeen, OneWindow, PromiseKept
  <2>2. CopyPending /\ DeliveredOnce
    BY DEF Init, CopyPending, DeliveredOnce
  <2> QED
    BY <2>1, <2>2 DEF RelayInv, PipeInv, HistInv
<1>2. RelayTyped /\ RelayTyped' /\ RelayInv /\ [Next]_vars => RelayInv'
  BY InvStep
<1> QED
  BY <1>1, <1>2, RelayTypeCorrect, PTL DEF Spec

(* Of all the copies checked and validated at once, one is delivered: what *)
(* seenCache.has and seenCache.put, unseparated by an await, are for.      *)
THEOREM DeliveredAtMostOnce == Spec => []DeliveredOnce
<1>1. RelayInv => DeliveredOnce
  BY DEF RelayInv, PipeInv
<1> QED
  BY <1>1, InvHolds, PTL

(* No entry of the message cache is beyond the reach of a later shift.     *)
THEOREM CacheInWindows == Spec => []CachedInHistory
<1>1. RelayInv => CachedInHistory
  BY DEF RelayInv, HistInv
<1> QED
  BY <1>1, InvHolds, PTL

(* What a heartbeat advertises is still there when it is asked for, for    *)
(* every history length and gossip length.                                 *)
THEOREM AdvertisedStays == Spec => []AdvertisedIsKept
<1>1. RelayInv => AdvertisedIsKept
  BY DEF RelayInv, HistInv, PromiseKept, AdvertisedIsKept
<1> QED
  BY <1>1, InvHolds, PTL
(* -------------------------------- echoes -------------------------------- *)

(* While a copy is validated the message stays marked, so nobody was heard *)
(* before its copy, and no second copy comes to be validated.              *)
Unheard == \A m \in Msgs : seen[m] = 0 => heard[m] = {}

ReportPending ==
  /\ reporting # {} => asyncValidation
  /\ \A c \in reporting : seen[c[2]] > 0 /\ c[2] \notin validated
  /\ \A c, d \in reporting : c[2] = d[2] => c = d
  /\ \A c \in reporting, d \in validating : c[2] # d[2]

(* Who else was heard of a message being validated is on the list of those *)
(* missed, or known to the cache: it is not validated until the report.    *)
HeardByValidator == \A c \in validating : heard[c[2]] \subseteq missed[c[2]] \cup {c[1]}

HeardByCache ==
  \A c \in reporting : c[2] \in msgs =>
    heard[c[2]] \subseteq missed[c[2]] \cup {c[1]} \cup originatingPeers[c[2]]

EchoInv == Unheard /\ ReportPending /\ HeardByValidator /\ HeardByCache

LEMMA CopiesHaveMessages ==
  ASSUME RelayTyped
  PROVE  /\ \A c \in validating : c[1] \in Peers /\ c[2] \in Msgs
         /\ \A c \in reporting : c[1] \in Peers /\ c[2] \in Msgs
BY DEF RelayTyped, TypeOK, Copies

(* Copies are given up or reported, entries leave the cache.               *)
LEMMA EchoSame ==
  ASSUME EchoInv, UNCHANGED <<asyncValidation, heard, missed, seen>>,
         validating' \subseteq validating, reporting' \subseteq reporting,
         \A c \in reporting' :
           /\ c[2] \notin validated'
           /\ c[2] \in msgs' => c[2] \in msgs /\ originatingPeers'[c[2]] = originatingPeers[c[2]]
  PROVE  EchoInv'
<1>1. Unheard'
  BY DEF EchoInv, Unheard
<1>2. ReportPending'
  BY DEF EchoInv, ReportPending
<1>3. HeardByValidator'
  BY DEF EchoInv, HeardByValidator
<1>4. HeardByCache'
  BY DEF EchoInv, HeardByCache
<1> QED
  BY <1>1, <1>2, <1>3, <1>4 DEF EchoInv

LEMMA EchoDuplicate ==
  ASSUME RelayTyped, EchoInv, NEW p \in Peers, NEW m \in Msgs, Duplicate(p, m)
  PROVE  EchoInv'
<1>1. /\ heard' = [heard EXCEPT ![m] = @ \cup {p}]
      /\ missed' = [missed EXCEPT ![m] = IF \E q \in Peers : <<q, m>> \in validating THEN @ \cup {p} ELSE @]
      /\ originatingPeers' = [originatingPeers EXCEPT ![m] = IF m \in msgs \ validated THEN @ \cup {p} ELSE @]
      /\ UNCHANGED <<asyncValidation, validating, reporting, seen, msgs, validated>>
      /\ seen[m] > 0
  BY DEF Duplicate, ObserveDuplicate
<1>2. \A n \in Msgs : /\ heard'[n] \subseteq heard[n] \cup {p} /\ missed[n] \subseteq missed'[n]
                      /\ originatingPeers[n] \subseteq originatingPeers'[n]
                      /\ n # m => heard'[n] = heard[n]
  BY <1>1 DEF RelayTyped, TypeOK, CacheTypeOK
<1>3. Unheard'
  BY <1>1, <1>2 DEF EchoInv, Unheard
<1>4. ReportPending'
  BY <1>1 DEF EchoInv, ReportPending
<1>5. HeardByValidator'
  <2> SUFFICES ASSUME NEW c \in validating PROVE heard'[c[2]] \subseteq missed'[c[2]] \cup {c[1]}
    BY <1>1 DEF HeardByValidator
  <2>1. heard[c[2]] \subseteq missed[c[2]] \cup {c[1]} /\ c[2] \in Msgs
    BY CopiesHaveMessages DEF EchoInv, HeardByValidator
  <2>2. c[2] = m => p \in missed'[m]
    <3> SUFFICES ASSUME c[2] = m PROVE p \in missed'[m]
      OBVIOUS
    <3>1. \E q \in Peers : <<q, m>> \in validating
      BY DEF RelayTyped, TypeOK, Copies
    <3> QED
      BY <1>1, <3>1 DEF RelayTyped, TypeOK
  <2> QED
    BY <1>2, <2>1, <2>2
<1>6. HeardByCache'
  <2> SUFFICES ASSUME NEW c \in reporting, c[2] \in msgs
               PROVE  heard'[c[2]] \subseteq missed'[c[2]] \cup {c[1]} \cup originatingPeers'[c[2]]
    BY <1>1 DEF HeardByCache
  <2>1. heard[c[2]] \subseteq missed[c[2]] \cup {c[1]} \cup originatingPeers[c[2]] /\ c[2] \in Msgs
    BY CopiesHaveMessages DEF EchoInv, HeardByCache
  <2>2. c[2] = m => p \in originatingPeers'[m]
    BY <1>1 DEF RelayTyped, TypeOK, CacheTypeOK, EchoInv, ReportPending
  <2> QED
    BY <1>2, <2>1, <2>2
<1> QED
  BY <1>3, <1>4, <1>5, <1>6 DEF EchoInv

(* A message not marked seen is heard of for the first time: no copy of it *)
(* is being validated.                                                     *)
LEMMA UnseenIsUnheard ==
  ASSUME RelayTyped, RelayInv, EchoInv, NEW m \in Msgs, seen[m] = 0
  PROVE  /\ heard[m] = {} /\ Fresh(m)
         /\ \A c \in validating : c[2] # m
         /\ \A c \in reporting : c[2] # m
<1>1. \A c \in reporting : c[2] # m
  BY DEF EchoInv, ReportPending
<1> QED
  BY <1>1, UnseenIsNew DEF EchoInv, Unheard

(* A fresh message is put into the cache; if a copy of it waits for the    *)
(* application now, nobody but its sender and those missed was heard.      *)
LEMMA EchoPut ==
  ASSUME RelayTyped, RelayTyped', RelayInv, EchoInv,
         NEW p \in Peers, NEW m \in Msgs, NEW valid \in BOOLEAN, Fresh(m), Put(m, valid),
         UNCHANGED asyncValidation,
         \A c \in reporting : c[2] # m,
         validating' \subseteq validating,
         \A c \in validating' : c[2] # m,
         seen'[m] > 0,
         \A n \in Msgs : n # m => seen'[n] = seen[n] /\ heard'[n] = heard[n] /\ missed'[n] = missed[n],
         \/ reporting' = reporting
         \/ /\ reporting' = reporting \cup {<<p, m>>}
            /\ asyncValidation /\ ~valid
            /\ heard'[m] \subseteq missed'[m] \cup {p}
  PROVE  EchoInv'
<1>1. /\ msgs' = msgs \cup {m}
      /\ validated' = IF valid THEN validated \cup {m} ELSE validated
      /\ originatingPeers' = [originatingPeers EXCEPT ![m] = {}]
  <2>1. m \notin msgs
    BY DEF RelayInv, HistInv, CachedInHistory, Fresh
  <2> QED
    BY <2>1 DEF Put
<1>2. m \notin validated
  <2>1. m \notin msgs
    BY DEF RelayInv, HistInv, CachedInHistory, Fresh
  <2> QED
    BY <2>1 DEF RelayTyped, TypeOK, CacheTypeOK
<1>3. ASSUME NEW c \in reporting
      PROVE  /\ seen'[c[2]] > 0 /\ c[2] \notin validated'
             /\ c[2] \in msgs' => heard'[c[2]] \subseteq missed'[c[2]] \cup {c[1]} \cup originatingPeers'[c[2]]
  <2>1. c[2] \in Msgs /\ c[2] # m
    BY CopiesHaveMessages
  <2>2. originatingPeers'[c[2]] = originatingPeers[c[2]]
    BY <1>1, <2>1 DEF RelayTyped, TypeOK, CacheTypeOK
  <2> QED
    BY <1>1, <2>1, <2>2 DEF EchoInv, ReportPending, HeardByCache
<1>4. Unheard'
  BY DEF EchoInv, Unheard
<1>5. HeardByValidator'
  BY CopiesHaveMessages DEF EchoInv, HeardByValidator
<1>6. ReportPending' /\ HeardByCache'
  <2>1. CASE reporting' = reporting
    <3>1. ReportPending'
      BY <1>3, <2>1 DEF EchoInv, ReportPending
    <3> QED
      BY <1>3, <2>1, <3>1 DEF HeardByCache
  <2>2. CASE /\ reporting' = reporting \cup {<<p, m>>} /\ asyncValidation /\ ~valid
             /\ heard'[m] \subseteq missed'[m] \cup {p}
    <3>1. \A c \in reporting' : seen'[c[2]] > 0 /\ c[2] \notin validated'
      BY <1>1, <1>2, <1>3, <2>2
    <3>2. \A c, d \in reporting' : c[2] = d[2] => c = d
      BY <2>2 DEF EchoInv, ReportPending
    <3>3. \A c \in reporting', d \in validating' : c[2] # d[2]
      BY <2>2 DEF EchoInv, ReportPending
    <3>4. ReportPending'
      BY <2>2, <3>1, <3>2, <3>3 DEF ReportPending
    <3>5. HeardByCache'
      BY <1>3, <2>2 DEF HeardByCache
    <3> QED
      BY <3>4, <3>5
  <2> QED
    BY <2>1, <2>2
<1> QED
  BY <1>4, <1>5, <1>6 DEF EchoInv

LEMMA EchoDeliver ==
  ASSUME RelayTyped, RelayTyped', RelayInv, EchoInv, NEW p \in Peers, NEW m \in Msgs,
         FirstCopy(p, m) \/ ValidatorAccepts(p, m)
  PROVE  EchoInv'
<1>1. /\ Put(m, ~asyncValidation)
      /\ \/ reporting' = reporting
         \/ reporting' = reporting \cup {<<p, m>>} /\ asyncValidation
      /\ UNCHANGED <<asyncValidation, missed>>
  BY DEF FirstCopy, ValidatorAccepts, Deliver
<1>2. (~asyncValidation) \in BOOLEAN
  OBVIOUS
<1>3. CASE FirstCopy(p, m)
  <2>1. /\ seen[m] = 0 /\ seen' = [seen EXCEPT ![m] = SeenTTL] /\ UNCHANGED validating
        /\ heard' = [heard EXCEPT ![m] = @ \cup {p}]
    BY <1>3 DEF FirstCopy, MarkSeen
  <2>2. /\ heard[m] = {} /\ Fresh(m) /\ \A c \in validating : c[2] # m
        /\ \A c \in reporting : c[2] # m
    BY <2>1, UnseenIsUnheard
  <2>3. /\ seen'[m] > 0 /\ heard'[m] = {p}
        /\ \A n \in Msgs : n # m => seen'[n] = seen[n] /\ heard'[n] = heard[n] /\ missed'[n] = missed[n]
    BY <1>1, <2>1, <2>2, CacheAssumption, RelayAssumption DEF RelayTyped, TypeOK
  <2> QED
    BY <1>1, <1>2, <2>1, <2>2, <2>3, EchoPut
<1>4. CASE ValidatorAccepts(p, m)
  <2>1. /\ <<p, m>> \in validating /\ validating' = validating \ {<<p, m>>}
        /\ UNCHANGED <<seen, heard>>
    BY <1>4 DEF ValidatorAccepts
  <2>2. /\ Fresh(m) /\ seen[m] >= SeenTTL - 1 /\ \A c \in validating' : c[2] # m
        /\ heard[m] \subseteq missed[m] \cup {p}
        /\ \A c \in reporting : c[2] # m
    BY <2>1 DEF RelayInv, PipeInv, CopyPending, EchoInv, HeardByValidator, ReportPending
  <2>3. seen'[m] > 0
    BY <2>1, <2>2, CacheAssumption, RelayAssumption DEF RelayTyped, TypeOK
  <2> QED
    BY <1>1, <1>2, <2>1, <2>2, <2>3, EchoPut
<1> QED
  BY <1>3, <1>4

LEMMA EchoPublish ==
  ASSUME RelayTyped, RelayTyped', RelayInv, EchoInv, NEW m \in Msgs, Publish(m)
  PROVE  EchoInv'
<1>1. /\ seen[m] = 0 /\ seen' = [seen EXCEPT ![m] = SeenTTL] /\ Put(m, TRUE)
      /\ UNCHANGED <<asyncValidation, validating, reporting, heard, missed>>
  BY DEF Publish, flow
<1>2. /\ Fresh(m) /\ \A c \in validating : c[2] # m
      /\ \A c \in reporting : c[2] # m
  BY <1>1, UnseenIsUnheard
<1>3. seen'[m] > 0 /\ \A n \in Msgs : n # m => seen'[n] = seen[n]
  BY <1>1, CacheAssumption, RelayAssumption DEF RelayTyped, TypeOK
<1>4. CASE Peers = {}
  <2>1. validating = {} /\ reporting = {}
    BY <1>4, CopiesHaveMessages
  <2> QED
    BY <1>1, <1>3, <2>1 DEF EchoInv, Unheard, ReportPending, HeardByValidator, HeardByCache
<1>5. ASSUME NEW p \in Peers PROVE EchoInv'
  BY <1>1, <1>2, <1>3, EchoPut
<1> QED
  BY <1>4, <1>5

LEMMA EchoToValidator ==
  ASSUME RelayTyped, RelayInv, EchoInv, NEW p \in Peers, NEW m \in Msgs, FirstCopyToValidator(p, m)
  PROVE  EchoInv'
<1>1. /\ seen[m] = 0 /\ seen' = [seen EXCEPT ![m] = SeenTTL]
      /\ heard' = [heard EXCEPT ![m] = @ \cup {p}]
      /\ validating' = validating \cup {<<p, m>>}
      /\ UNCHANGED <<asyncValidation, reporting, missed, msgs, validated, originatingPeers>>
  BY DEF FirstCopyToValidator, MarkSeen, cacheVars
<1>2. /\ heard[m] = {} /\ \A c \in validating : c[2] # m
      /\ \A c \in reporting : c[2] # m
  BY <1>1, UnseenIsUnheard
<1>3. /\ seen'[m] > 0 /\ heard'[m] = {p}
      /\ \A n \in Msgs : n # m => seen'[n] = seen[n] /\ heard'[n] = heard[n]
  BY <1>1, <1>2, CacheAssumption, RelayAssumption DEF RelayTyped, TypeOK
<1>4. Unheard'
  BY <1>3 DEF EchoInv, Unheard
<1>5. ReportPending'
  BY <1>1, <1>2, <1>3, CopiesHaveMessages DEF EchoInv, ReportPending
<1>6. HeardByValidator'
  BY <1>1, <1>2, <1>3, CopiesHaveMessages DEF EchoInv, HeardByValidator
<1>7. HeardByCache'
  BY <1>1, <1>2, <1>3, CopiesHaveMessages DEF EchoInv, HeardByCache
<1> QED
  BY <1>4, <1>5, <1>6, <1>7 DEF EchoInv

LEMMA EchoReport ==
  ASSUME RelayTyped, EchoInv, NEW p \in Peers, NEW m \in Msgs, ReportAccept(p, m) \/ ReportRefuse(p, m)
  PROVE  EchoInv'
<1>1. /\ reporting' = reporting \ {<<p, m>>} /\ <<p, m>> \in reporting
      /\ UNCHANGED <<asyncValidation, heard, missed, seen, validating>>
      /\ Validate(m) \/ Remove(m)
  BY DEF ReportAccept, ReportRefuse
<1>2. \A c \in reporting' : c[2] # m /\ c[2] \in Msgs
  BY <1>1, CopiesHaveMessages DEF EchoInv, ReportPending
<1>3. /\ \A n \in Msgs : n # m => originatingPeers'[n] = originatingPeers[n]
      /\ msgs' \subseteq msgs /\ validated' \subseteq validated \cup {m}
  BY <1>1 DEF Validate, Remove, cacheVars, RelayTyped, TypeOK, CacheTypeOK
<1>4. \A c \in reporting' : c[2] \notin validated'
  BY <1>1, <1>2, <1>3 DEF EchoInv, ReportPending
<1> QED
  BY <1>1, <1>2, <1>3, <1>4, EchoSame

(* A heartbeat forgets who was heard of a message whose mark expires, and  *)
(* no copy of such a message is being validated.                           *)
LEMMA EchoGossip ==
  ASSUME RelayTyped, RelayInv, EchoInv, HeartbeatGossip
  PROVE  EchoInv'
<1>1. /\ \A c \in validating : seen[c[2]] = SeenTTL
      /\ \A c \in reporting : seen[c[2]] > 1
      /\ seen' = [m \in Msgs |-> IF seen[m] > 0 THEN seen[m] - 1 ELSE 0]
      /\ heard' = [m \in Msgs |-> IF m \in Expiring THEN {} ELSE heard[m]]
      /\ missed' = [m \in Msgs |-> IF m \in Expiring THEN {} ELSE missed[m]]
      /\ UNCHANGED <<asyncValidation, validating, reporting, msgs, validated, originatingPeers>>
  BY DEF HeartbeatGossip, ValidationInTime, cacheVars, flow
<1>2. \A n \in Msgs : /\ seen[n] > 1 => heard'[n] = heard[n] /\ missed'[n] = missed[n] /\ seen'[n] > 0
                      /\ seen'[n] = 0 => seen[n] = 0 \/ n \in Expiring
  BY <1>1 DEF Expiring, RelayTyped, TypeOK
<1>3. SeenTTL > 1
  BY CacheAssumption, RelayAssumption
<1>4. Unheard'
  BY <1>1, <1>2 DEF EchoInv, Unheard
<1>5. ReportPending'
  BY <1>1, <1>2, CopiesHaveMessages DEF EchoInv, ReportPending
<1>6. HeardByValidator'
  BY <1>1, <1>2, <1>3, CopiesHaveMessages DEF EchoInv, HeardByValidator
<1>7. HeardByCache'
  BY <1>1, <1>2, CopiesHaveMessages DEF EchoInv, HeardByCache
<1> QED
  BY <1>4, <1>5, <1>6, <1>7 DEF EchoInv

LEMMA EchoStep ==
  ASSUME RelayTyped, RelayTyped', RelayInv, EchoInv, [Next]_vars
  PROVE  EchoInv'
<1>1. ASSUME NEW p \in Peers, NEW m \in Msgs, Receive(p, m) \/ CopyInvalid(p, m) \/ ValidatorRefuses(p, m)
      PROVE  EchoInv'
  <2>1. /\ UNCHANGED <<asyncValidation, heard, missed, seen, reporting, msgs, validated, originatingPeers>>
        /\ validating' \subseteq validating
    BY <1>1 DEF Receive, CopyInvalid, ValidatorRefuses, records, cacheVars
  <2> QED
    BY <2>1, EchoSame DEF EchoInv, ReportPending
<1>2. CASE HeartbeatAborts \/ UNCHANGED vars
  <2>1. UNCHANGED <<asyncValidation, heard, missed, seen, validating, reporting, msgs, validated, originatingPeers>>
    BY <1>2 DEF HeartbeatAborts, vars, flow, records, cacheVars
  <2> QED
    BY <2>1, EchoSame DEF EchoInv, ReportPending
<1>3. CASE HeartbeatShift
  <2>1. /\ UNCHANGED <<asyncValidation, heard, missed, seen, validating, reporting>>
        /\ msgs' \subseteq msgs /\ validated' \subseteq validated
        /\ \A n \in Msgs : n \in msgs' => originatingPeers'[n] = originatingPeers[n]
    BY <1>3 DEF HeartbeatShift, Shift, flow
  <2>2. \A c \in reporting' : /\ c[2] \notin validated'
                              /\ c[2] \in msgs' => c[2] \in msgs /\ originatingPeers'[c[2]] = originatingPeers[c[2]]
    BY <2>1, CopiesHaveMessages DEF EchoInv, ReportPending
  <2> QED
    BY <2>1, <2>2, EchoSame
<1> QED
  BY <1>1, <1>2, <1>3, EchoDuplicate, EchoDeliver, EchoPublish, EchoToValidator, EchoReport, EchoGossip
     DEF Next, CopyStep

(* What one step sends of a message goes to peers not heard of, but for    *)
(* those missed.                                                           *)
LEMMA SentToNew ==
  ASSUME RelayTyped, RelayInv, EchoInv, [Next]_vars, NEW n \in Msgs
  PROVE  NewlySent(n) \cap heard[n] \subseteq missed[n]
<1>1. sent \in [Msgs -> SUBSET Peers]
  BY DEF RelayTyped, TypeOK
<1>2. ASSUME NEW p \in Peers, NEW m \in Msgs, NEW exclude, Forward(m, p, exclude),
             heard[m] \subseteq missed[m] \cup {p} \cup exclude
      PROVE  NewlySent(n) \cap heard[n] \subseteq missed[n]
  BY <1>1, <1>2 DEF Forward, PeersToForward, NewlySent
<1>3. ASSUME sent' = sent \/ HeartbeatGossip
      PROVE  NewlySent(n) \cap heard[n] \subseteq missed[n]
  BY <1>1, <1>3 DEF HeartbeatGossip, NewlySent
<1>4. ASSUME NEW p \in Peers, NEW m \in Msgs, FirstCopy(p, m)
      PROVE  NewlySent(n) \cap heard[n] \subseteq missed[n]
  <2>1. heard[m] = {} /\ (UNCHANGED sent \/ Forward(m, p, {}))
    BY <1>4, UnseenIsUnheard DEF FirstCopy, MarkSeen, Deliver
  <2> QED
    BY <1>2, <1>3, <2>1
<1>5. ASSUME NEW p \in Peers, NEW m \in Msgs, ValidatorAccepts(p, m)
      PROVE  NewlySent(n) \cap heard[n] \subseteq missed[n]
  <2>1. heard[m] \subseteq missed[m] \cup {p} /\ (UNCHANGED sent \/ Forward(m, p, {}))
    BY <1>5 DEF ValidatorAccepts, Deliver, EchoInv, HeardByValidator
  <2> QED
    BY <1>2, <1>3, <2>1
<1>6. ASSUME NEW p \in Peers, NEW m \in Msgs, ReportAccept(p, m)
      PROVE  NewlySent(n) \cap heard[n] \subseteq missed[n]
  <2>1. CASE m \in msgs
    <3>1. /\ heard[m] \subseteq missed[m] \cup {p} \cup originatingPeers[m]
          /\ Forward(m, p, originatingPeers[m])
      BY <1>6, <2>1 DEF ReportAccept, EchoInv, HeardByCache
    <3> QED
      BY <1>2, <3>1
  <2>2. CASE m \notin msgs
    BY <1>3, <1>6, <2>2 DEF ReportAccept
  <2> QED
    BY <2>1, <2>2
<1>7. ASSUME NEW m \in Msgs, Publish(m)
      PROVE  NewlySent(n) \cap heard[n] \subseteq missed[n]
  <2>1. heard[m] = {}
    BY <1>7, UnseenIsUnheard DEF Publish
  <2>2. n # m => sent'[n] = sent[n]
    BY <1>1, <1>7 DEF Publish
  <2> QED
    BY <2>1, <2>2 DEF NewlySent
<1>8. ASSUME NEW p \in Peers, NEW m \in Msgs,
             \/ Receive(p, m) \/ CopyInvalid(p, m) \/ Duplicate(p, m)
             \/ FirstCopyToValidator(p, m) \/ ValidatorRefuses(p, m) \/ ReportRefuse(p, m)
      PROVE  sent' = sent
  BY <1>8 DEF Receive, CopyInvalid, Duplicate, FirstCopyToValidator, ValidatorRefuses, ReportRefuse, records
<1>9. HeartbeatShift \/ HeartbeatAborts \/ UNCHANGED vars => sent' = sent
  BY DEF HeartbeatShift, HeartbeatAborts, vars, records
<1> QED
  BY <1>3, <1>4, <1>5, <1>6, <1>7, <1>8, <1>9 DEF Next, CopyStep

(* No copy is sent back to a peer it came from, however many copies,       *)
(* validators, reports and heartbeats interleave: those heard while the    *)
(* topic validator runs are the only exception.                            *)
THEOREM NoEchoes == Spec => EchoesOnlyMissed
<1>1. Init => EchoInv
  BY DEF Init, EchoInv, Unheard, ReportPending, HeardByValidator, HeardByCache
<1>2. RelayTyped /\ RelayTyped' /\ RelayInv /\ EchoInv /\ [Next]_vars => EchoInv'
  BY EchoStep
<1>3. RelayTyped /\ RelayInv /\ EchoInv /\ [Next]_vars
        => [\A m \in Msgs : NewlySent(m) \cap heard[m] \subseteq missed[m]]_vars
  BY SentToNew
<1> QED
  BY <1>1, <1>2, <1>3, RelayTypeCorrect, InvHolds, PTL DEF Spec, EchoesOnlyMissed
================================================================================
