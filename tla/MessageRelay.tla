------------------------------ MODULE MessageRelay ------------------------------
(***************************************************************************)
(* The life of a message in class GossipSub (src/src/index.ts): received,  *)
(* checked against seenCache, validated by a topic validator, cached,      *)
(* handed to the application, validated by the application, forwarded,     *)
(* advertised by heartbeats and dropped.  The code awaits signatures, ids  *)
(* and validators, so copies of one message are in several stages at once. *)
(* The mesh a message is forwarded to is an input: any set of peers.       *)
(*                                                                         *)
(* Time is counted in heartbeats.  An entry of seenCache lives for SeenTTL *)
(* of them, longer than any message stays in the history.                  *)
(***************************************************************************)
EXTENDS MessageCache

CONSTANTS
  Modes,       \* values opts.asyncValidation may have
  SeenTTL,     \* heartbeats an entry of seenCache lives
  MaxAborts,   \* bound: heartbeats that throw before mcache.shift
  MaxEntries   \* bound: times a message is put into seenCache

ASSUME RelayAssumption ==
  /\ Modes \subseteq BOOLEAN
  /\ MaxAborts \in Nat /\ MaxEntries \in Nat
  /\ SeenTTL \in Nat /\ SeenTTL > Capacity + MaxAborts + 1

VARIABLES
  asyncValidation,
  checking,     \* (peer, message) copies whose signature or id is awaited
  validating,   \* copies whose topic validator is awaited
  reporting,    \* copies the application has yet to report on
  seen,         \* message -> heartbeats left of its seenCache entry
  shiftDue,     \* a heartbeat has emitted gossip and not shifted yet
  aborts,
  (* observations, no part of the program's state *)
  entries,      \* message -> times it was put into seenCache
  deliveries,   \* message -> times it was dispatched to the application
  heard,        \* message -> peers that sent a copy since then
  missed,       \* those of them heard while the topic validator ran
  sent,         \* message -> peers it was sent to since then
  promised      \* message -> shifts it has to stay cached for

flow    == <<checking, validating, reporting>>
beat    == <<shiftDue, aborts>>
records == <<entries, deliveries, heard, missed, sent, promised>>
vars == <<cacheVars, asyncValidation, flow, seen, beat, records>>

Copies == Peers \X Msgs

Init ==
  /\ CacheInit
  /\ asyncValidation \in Modes
  /\ checking = {} /\ validating = {} /\ reporting = {}
  /\ seen = [m \in Msgs |-> 0]
  /\ shiftDue = FALSE /\ aborts = 0
  /\ entries = [m \in Msgs |-> 0]
  /\ deliveries = [m \in Msgs |-> 0]
  /\ heard = [m \in Msgs |-> {}]
  /\ missed = [m \in Msgs |-> {}]
  /\ sent = [m \in Msgs |-> {}]
  /\ promised = [m \in Msgs |-> 0]

(* ----------------------------- received copies ------------------------- *)

(* handleReceivedRpc starts handleReceivedMessage, which awaits the        *)
(* signature and the message id.                                           *)
Receive(p, m) ==
  /\ <<p, m>> \notin checking
  /\ checking' = checking \cup {<<p, m>>}
  /\ UNCHANGED <<cacheVars, asyncValidation, validating, reporting, seen, beat, records>>

(* Basic validation or the transform fails. *)
CopyInvalid(p, m) ==
  /\ <<p, m>> \in checking
  /\ checking' = checking \ {<<p, m>>}
  /\ UNCHANGED <<cacheVars, asyncValidation, validating, reporting, seen, beat, records>>

(* A seen message is a duplicate.  observeDuplicate finds the entry of the *)
(* cache, unless a topic validator still runs and there is none.           *)
Duplicate(p, m) ==
  /\ <<p, m>> \in checking
  /\ seen[m] > 0
  /\ checking' = checking \ {<<p, m>>}
  /\ ObserveDuplicate(m, p)
  /\ heard' = [heard EXCEPT ![m] = @ \cup {p}]
  /\ missed' = [missed EXCEPT ![m] = IF \E q \in Peers : <<q, m>> \in validating THEN @ \cup {p} ELSE @]
  /\ UNCHANGED <<asyncValidation, validating, reporting, seen, beat, entries, deliveries, sent, promised>>

(* seenCache.has and seenCache.put, with no await between them.            *)
MarkSeen(p, m) ==
  /\ seen[m] = 0
  /\ entries[m] < MaxEntries
  /\ seen' = [seen EXCEPT ![m] = SeenTTL]
  /\ entries' = [entries EXCEPT ![m] = @ + 1]

(* Mutant: the peers heard before are sent the message too. *)
PeersToForwardAll(source, exclude) == SUBSET (Peers \ {source})

(* The mesh, direct and floodsub peers selectPeersToForward may find.      *)
PeersToForward(source, exclude) == SUBSET (Peers \ ({source} \cup exclude))

Forward(m, source, exclude) ==
  \E tosend \in PeersToForward(source, exclude) : sent' = [sent EXCEPT ![m] = @ \cup tosend]

(* handleReceivedMessage once the copy is valid: cache, dispatch, forward. *)
(* A message of a topic we do not subscribe to is cached and forwarded but *)
(* not dispatched, and the application cannot report on it.                *)
Deliver(p, m) ==
  \E subscribed \in BOOLEAN :
    /\ Put(m, ~asyncValidation)
    /\ deliveries' = [deliveries EXCEPT ![m] = IF subscribed THEN @ + 1 ELSE @]
    /\ reporting' = IF asyncValidation /\ subscribed THEN reporting \cup {<<p, m>>} ELSE reporting
    /\ IF asyncValidation THEN UNCHANGED sent ELSE Forward(m, p, {})

FirstCopy(p, m) ==
  /\ <<p, m>> \in checking
  /\ checking' = checking \ {<<p, m>>}
  /\ MarkSeen(p, m)
  /\ heard' = [heard EXCEPT ![m] = @ \cup {p}]
  /\ Deliver(p, m)
  /\ UNCHANGED <<asyncValidation, validating, beat, missed, promised>>

(* Mutant: the topic validator is awaited between has and put. *)
FirstCopyToValidatorUnmarked(p, m) ==
  /\ <<p, m>> \in checking
  /\ checking' = checking \ {<<p, m>>}
  /\ seen[m] = 0
  /\ entries' = [entries EXCEPT ![m] = IF @ = 0 THEN 1 ELSE @]
  /\ heard' = [heard EXCEPT ![m] = @ \cup {p}]
  /\ validating' = validating \cup {<<p, m>>}
  /\ UNCHANGED <<cacheVars, asyncValidation, reporting, seen, beat, deliveries, missed, sent, promised>>

(* The same with a topic validator registered: it is awaited first. *)
FirstCopyToValidator(p, m) ==
  /\ <<p, m>> \in checking
  /\ checking' = checking \ {<<p, m>>}
  /\ MarkSeen(p, m)
  /\ heard' = [heard EXCEPT ![m] = @ \cup {p}]
  /\ validating' = validating \cup {<<p, m>>}
  /\ UNCHANGED <<cacheVars, asyncValidation, reporting, beat, deliveries, missed, sent, promised>>

ValidatorAccepts(p, m) ==
  /\ <<p, m>> \in validating
  /\ validating' = validating \ {<<p, m>>}
  /\ Deliver(p, m)
  /\ UNCHANGED <<asyncValidation, checking, seen, beat, entries, heard, missed, promised>>

ValidatorRefuses(p, m) ==
  /\ <<p, m>> \in validating
  /\ validating' = validating \ {<<p, m>>}
  /\ UNCHANGED <<cacheVars, asyncValidation, checking, reporting, seen, beat, records>>

(* ------------------------- calls of the application -------------------- *)

(* reportMessageValidationResult(Accept): a message that left the cache in *)
(* the meantime is not forwarded.                                          *)
ReportAccept(p, m) ==
  /\ <<p, m>> \in reporting
  /\ reporting' = reporting \ {<<p, m>>}
  /\ Validate(m)
  /\ IF m \in msgs THEN Forward(m, p, originatingPeers[m]) ELSE UNCHANGED sent
  /\ UNCHANGED <<asyncValidation, checking, validating, seen, beat, entries, deliveries, heard, missed, promised>>

ReportRefuse(p, m) ==
  /\ <<p, m>> \in reporting
  /\ reporting' = reporting \ {<<p, m>>}
  /\ Remove(m)
  /\ promised' = [promised EXCEPT ![m] = 0]
  /\ UNCHANGED <<asyncValidation, checking, validating, seen, beat, entries, deliveries, heard, missed, sent>>

(* publish, from the check of seenCache on, unless it throws: then nothing *)
(* changes.  With emitSelf the application gets the message, with          *)
(* allowPublishToZeroTopicPeers it may be sent to nobody.                  *)
Publish(m) ==
  /\ seen[m] = 0
  /\ entries[m] < MaxEntries
  /\ seen' = [seen EXCEPT ![m] = SeenTTL]
  /\ entries' = [entries EXCEPT ![m] = @ + 1]
  /\ Put(m, TRUE)
  /\ \E tosend \in SUBSET Peers : sent' = [sent EXCEPT ![m] = @ \cup tosend]
  /\ \E self \in BOOLEAN : deliveries' = [deliveries EXCEPT ![m] = IF self THEN @ + 1 ELSE @]
  /\ UNCHANGED <<asyncValidation, flow, beat, heard, missed, promised>>

(* ------------------------------- heartbeat ----------------------------- *)

(* "This custom topicValidator() must resolve fast (< 100ms)": at most one  *)
(* heartbeat passes meanwhile.  "validation is expected to be fast enough   *)
(* that the messages should still exist in the cache": the application's    *)
(* may be slower than that, but not than the seenCache entry.               *)
ValidationInTime ==
  /\ \A c \in validating : seen[c[2]] = SeenTTL
  /\ \A c \in reporting : seen[c[2]] > 1

Expiring == {m \in Msgs : seen[m] = 1}

(* seenCache.prune and emitGossip; then sendGraftPrune is awaited. *)
HeartbeatGossip ==
  /\ ~shiftDue
  /\ ValidationInTime
  /\ shiftDue' = TRUE
  /\ seen' = [m \in Msgs |-> IF seen[m] > 0 THEN seen[m] - 1 ELSE 0]
  /\ promised' = [m \in Msgs |-> IF m \in GossipIDs THEN Capacity - Gossip + 1 ELSE promised[m]]
  /\ heard' = [m \in Msgs |-> IF m \in Expiring THEN {} ELSE heard[m]]
  /\ missed' = [m \in Msgs |-> IF m \in Expiring THEN {} ELSE missed[m]]
  /\ sent' = [m \in Msgs |-> IF m \in Expiring THEN {} ELSE sent[m]]
  /\ UNCHANGED <<cacheVars, asyncValidation, flow, aborts, entries, deliveries>>

HeartbeatShift ==
  /\ shiftDue
  /\ shiftDue' = FALSE
  /\ Shift
  /\ promised' = [m \in Msgs |-> IF promised[m] > 0 THEN promised[m] - 1 ELSE 0]
  /\ UNCHANGED <<asyncValidation, flow, seen, aborts, entries, deliveries, heard, missed, sent>>

(* sendGraftPrune rejects and the window is not advanced. *)
HeartbeatAborts ==
  /\ shiftDue
  /\ aborts < MaxAborts
  /\ shiftDue' = FALSE
  /\ aborts' = aborts + 1
  /\ UNCHANGED <<cacheVars, asyncValidation, flow, seen, records>>

CopyStep ==
  \E p \in Peers, m \in Msgs :
    \/ Receive(p, m)
    \/ CopyInvalid(p, m)
    \/ Duplicate(p, m)
    \/ FirstCopy(p, m)
    \/ FirstCopyToValidator(p, m)
    \/ ValidatorAccepts(p, m)
    \/ ValidatorRefuses(p, m)
    \/ ReportAccept(p, m)
    \/ ReportRefuse(p, m)

Next ==
  \/ CopyStep
  \/ \E m \in Msgs : Publish(m)
  \/ HeartbeatGossip
  \/ HeartbeatShift
  \/ HeartbeatAborts

Spec == Init /\ [][Next]_vars

(* ------------------------------ properties ----------------------------- *)

TypeOK ==
  /\ CacheTypeOK
  /\ asyncValidation \in BOOLEAN
  /\ checking \subseteq Copies /\ validating \subseteq Copies /\ reporting \subseteq Copies
  /\ seen \in [Msgs -> 0..SeenTTL]
  /\ shiftDue \in BOOLEAN /\ aborts \in 0..MaxAborts
  /\ entries \in [Msgs -> 0..MaxEntries]
  /\ deliveries \in [Msgs -> Nat]
  /\ heard \in [Msgs -> SUBSET Peers] /\ missed \in [Msgs -> SUBSET Peers]
  /\ sent \in [Msgs -> SUBSET Peers]
  /\ promised \in [Msgs -> 0..(Capacity + 1)]

(* However many copies of a message are checked and validated at once, the *)
(* application gets it at most once for every seenCache entry made of it.  *)
DeliveredOnce == \A m \in Msgs : deliveries[m] <= entries[m]

(* A cached message has an entry in some window: a later shift drops it,   *)
(* whatever was removed and put again before.                              *)
CachedInHistory == \A m \in msgs : \E i \in Windows : m \in history[i]

(* "The slack between GossipsubHistoryGossip and GossipsubHistoryLength    *)
(* allows us to avoid advertising messages that will be expired by the     *)
(* time they're requested" (constants.ts): an advertised message can still *)
(* be had until Capacity - Gossip heartbeats after the one that advertised *)
(* it, unless the application refuses it.                                  *)
AdvertisedIsKept == \A m \in Msgs : promised[m] > 0 => m \in msgs

(* The count of messages not yet validated misses none that is cached.     *)
UnvalidatedCounted == notValidatedCount >= Cardinality(msgs \ validated)

(* No message is sent to a peer it came from: those heard of are excluded, *)
(* but for those heard while the topic validator ran.                      *)
NewlySent(m) == sent'[m] \ sent[m]
EchoesOnlyMissed == [][\A m \in Msgs : NewlySent(m) \cap heard[m] \subseteq missed[m]]_vars
=================================================================================
