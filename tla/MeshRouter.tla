----------------------------- MODULE MeshRouter -----------------------------
(***************************************************************************)
(* The mesh router of class GossipSub (src/src/index.ts): which peers are  *)
(* connected, what they subscribe to, which of them are in the mesh of     *)
(* each joined topic, the prune backoffs, the fanout, and the heartbeat    *)
(* that maintains all of it.  Handlers run to completion between awaits;   *)
(* every action below is one handler, or the part of one between awaits.   *)
(*                                                                         *)
(* A backoff expiry is kept as the time left until it (expire - now), in   *)
(* ticks, floored one below -BackoffSlack, where clearBackoff drops it.    *)
(* The score of a peer is an input here: it changes between any two steps. *)
(***************************************************************************)
EXTENDS Integers, Sequences, FiniteSets, ExcessPruning

CONSTANTS
  Peers,              \* remote peers
  Topics,
  Direct,             \* opts.directPeers
  Dialable,           \* peers a connection to which may be dialed by us
  V10,                \* peers whose streams negotiate /meshsub/1.0.0
  D, Dlo, Dhi, Dscore, Dout,
  OppGraftPeers, OppGraftTicks, OppGraftThreshold,
  PruneBackoff, UnsubBackoff,
  PeerBackoffs,       \* backoffs a received PRUNE carries; 0 stands for none
  MaxPruneTopics,     \* bound: topics of a received PRUNE, with repeats
  MinQuiet,           \* no backoff is shorter than this
  BackoffSlack, PruneBackoffTicks,
  DirectConnectTicks,
  TickCycle,          \* heartbeatTicks is kept modulo this common multiple
  Scores, PublishThreshold,
  FloodPublish, FanoutTTL,
  LateRpcs,           \* peers an RPC of which may be handled after their removal
  PxMayFail           \* pxConnect of a received PRUNE may reject

ASSUME DegreeAssumption ==
  /\ D \in Nat \ {0} /\ Dlo \in Nat /\ Dhi \in Nat /\ Dscore \in Nat /\ Dout \in Nat
  /\ OppGraftPeers \in Nat
  /\ Dlo <= D /\ D <= Dhi /\ Dscore <= D /\ 2 * Dout <= D
ASSUME TimeAssumption ==
  /\ PruneBackoff \in Nat \ {0} /\ UnsubBackoff \in Nat \ {0}
  /\ PeerBackoffs \subseteq Nat
  /\ MinQuiet \in Nat /\ MinQuiet <= PruneBackoff /\ MinQuiet <= UnsubBackoff
  /\ \A b \in PeerBackoffs \ {0} : MinQuiet <= b
  /\ BackoffSlack \in Nat /\ FanoutTTL \in Nat /\ MaxPruneTopics \in Nat \ {0}
  /\ PruneBackoffTicks \in Nat \ {0} /\ OppGraftTicks \in Nat \ {0}
  /\ DirectConnectTicks \in Nat \ {0} /\ TickCycle \in Nat \ {0}
ASSUME PeerAssumption ==
  /\ IsFiniteSet(Peers) /\ Direct \subseteq Peers /\ Dialable \subseteq Peers /\ V10 \subseteq Peers
  /\ Scores \subseteq Int /\ Scores # {}
  /\ OppGraftThreshold \in Int /\ PublishThreshold \in Int
  /\ FloodPublish \in BOOLEAN /\ LateRpcs \subseteq Peers /\ PxMayFail \in BOOLEAN

VARIABLES
  peers,        \* keys of the peers map
  outbound,     \* peers whose connection we dialed (outbound map is true)
  stream,       \* outbound stream of each peer: none, opening or open
  late,         \* removed peers of which an RPC is still being handled
  topics,       \* topic -> peers subscribed to it
  joined,       \* topics we subscribe to: the keys of mesh
  mesh,         \* topic -> mesh peers, empty for a topic not joined
  backoff,      \* topic -> peers with a backoff entry
  left,         \* topic -> peer -> time left of that entry
  score,        \* peer -> score.score(peer)
  fanoutTopics, \* keys of fanout
  fanout,       \* topic -> fanout peers
  fanoutLeft,   \* topic -> time left until fanoutLastpub + fanoutTTL
  ticks,        \* heartbeatTicks modulo TickCycle
  hb,           \* where the heartbeat stands: idle, dialing or sending
  toprune,      \* peer -> topics of the PRUNE the heartbeat still owes it
  pruning       \* peer -> topics of a received PRUNE not yet handled

conn     == <<peers, outbound, stream, late>>
meshVars == <<mesh, backoff, left>>
fanVars  == <<fanoutTopics, fanout, fanoutLeft>>
hbVars   == <<ticks, hb, toprune>>
vars == <<conn, topics, joined, meshVars, score, fanVars, hbVars, pruning>>

Floor == -(BackoffSlack + 1)
Larger(a, b) == IF a > b THEN a ELSE b
SomeOf(S, n) == {a \in SUBSET S : Cardinality(a) = Smaller(Larger(n, 0), Cardinality(S))}

Init ==
  /\ peers = {} /\ outbound = {} /\ late = {}
  /\ stream = [p \in Peers |-> "none"]
  /\ topics = [t \in Topics |-> {}]
  /\ joined = {}
  /\ mesh = [t \in Topics |-> {}]
  /\ backoff = [t \in Topics |-> {}]
  /\ left = [t \in Topics |-> [p \in Peers |-> Floor]]
  /\ score \in [Peers -> Scores]
  /\ fanoutTopics = {}
  /\ fanout = [t \in Topics |-> {}]
  /\ fanoutLeft = [t \in Topics |-> -1]
  /\ ticks = 0 /\ hb = "idle"
  /\ toprune = [p \in Peers |-> {}]
  /\ pruning = [p \in Peers |-> <<>>]

(* ---------------------------- backoff book ----------------------------- *)

(* Mutant: the last backoff asked for wins, also when it ends sooner.      *)
DoAddBackoffLastWins(Links, interval) ==
  /\ backoff' = [t \in Topics |-> backoff[t] \cup {p \in Peers : <<t, p>> \in Links}]
  /\ left' = [t \in Topics |-> [p \in Peers |->
                IF <<t, p>> \in Links THEN interval ELSE left[t][p]]]

(* doAddBackoff for a set of (topic, peer) links at once: the entry is made *)
(* and its expiry only ever moves to a later time.                         *)
DoAddBackoff(Links, interval) ==
  /\ backoff' = [t \in Topics |-> backoff[t] \cup {p \in Peers : <<t, p>> \in Links}]
  /\ left' = [t \in Topics |-> [p \in Peers |->
                IF <<t, p>> \in Links THEN Larger(left[t][p], interval) ELSE left[t][p]]]

(* makePrune backs the peer off unless its outbound stream speaks v1.0.    *)
SpeaksV10(p) == stream[p] = "open" /\ p \in V10

(* ------------------------ connections and streams ---------------------- *)

(* onPeerConnected / onIncomingStream -> addPeer, which records the        *)
(* direction of a new peer only; a stream is asked for either way.         *)
Connect(p, dialed) ==
  /\ p \notin peers \/ stream[p] = "none"
  /\ peers' = peers \cup {p}
  /\ outbound' = IF dialed /\ p \notin peers THEN outbound \cup {p} ELSE outbound
  /\ stream' = [stream EXCEPT ![p] = IF @ = "none" THEN "opening" ELSE @]
  /\ UNCHANGED <<late, topics, joined, meshVars, score, fanVars, hbVars, pruning>>

(* createOutboundStream after connection.newStream: membership is not      *)
(* looked at again.                                                        *)
OutboundStreamOpens(p) ==
  /\ stream[p] = "opening"
  /\ stream' = [stream EXCEPT ![p] = "open"]
  /\ UNCHANGED <<peers, outbound, late, topics, joined, meshVars, score, fanVars, hbVars, pruning>>

(* Mutant: the stream that failed to open stays in the map. *)
OutboundStreamFailsButStays(p) ==
  /\ stream[p] = "opening"
  /\ stream' = [stream EXCEPT ![p] = "failed"]
  /\ UNCHANGED <<peers, outbound, late, topics, joined, meshVars, score, fanVars, hbVars, pruning>>

OutboundStreamFails(p) ==
  /\ stream[p] = "opening"
  /\ stream' = [stream EXCEPT ![p] = "none"]
  /\ UNCHANGED <<peers, outbound, late, topics, joined, meshVars, score, fanVars, hbVars, pruning>>

(* Mutant: a removed peer stays in the fanout. *)
DisconnectKeepsFanout(p) ==
  /\ p \in peers
  /\ peers' = peers \ {p}
  /\ outbound' = outbound \ {p}
  /\ stream' = [stream EXCEPT ![p] = IF @ = "open" THEN "none" ELSE @]
  /\ topics' = [t \in Topics |-> topics[t] \ {p}]
  /\ mesh' = [t \in Topics |-> mesh[t] \ {p}]
  /\ UNCHANGED <<late, joined, backoff, left, score, fanVars, hbVars, pruning>>

(* onPeerDisconnected -> removePeer: backoff and idle control state stay.  *)
Disconnect(p) ==
  /\ p \in peers
  /\ peers' = peers \ {p}
  /\ outbound' = outbound \ {p}
  /\ stream' = [stream EXCEPT ![p] = IF @ = "open" THEN "none" ELSE @]
  /\ late' \in {late, late \cup ({p} \cap LateRpcs)}
  /\ topics' = [t \in Topics |-> topics[t] \ {p}]
  /\ mesh' = [t \in Topics |-> mesh[t] \ {p}]
  /\ fanout' = [t \in Topics |-> fanout[t] \ {p}]
  /\ UNCHANGED <<joined, backoff, left, score, fanoutTopics, fanoutLeft, hbVars, pruning>>

LateRpcEnds(p) ==
  /\ p \in late
  /\ late' = late \ {p}
  /\ UNCHANGED <<peers, outbound, stream, topics, joined, meshVars, score, fanVars, hbVars, pruning>>

(* An RPC of p is being handled. *)
Heard(p) == p \in peers \cup late

(* ---------------------------- received RPCs ---------------------------- *)

HandleSubscription(p, t, subscribe) ==
  /\ Heard(p)
  /\ topics' = [topics EXCEPT ![t] = IF subscribe THEN @ \cup {p} ELSE @ \ {p}]
  /\ UNCHANGED <<conn, joined, meshVars, score, fanVars, hbVars, pruning>>

(* handleGraft of one topic: an unknown topic and a peer already in the    *)
(* mesh change nothing; the other refusals answer with makePrune.          *)
Graftable(p, t) == Heard(p) /\ t \in joined /\ p \notin mesh[t]
BackedOff(p, t) == p \in backoff[t] /\ left[t][p] > 0

(* Mutants of GraftRefused: no limit on the mesh size, any score.    *)
GraftRefusedAtNoSize(p, t) == BackedOff(p, t) \/ score[p] < 0
GraftRefusedAtNoScore(p, t) ==
  BackedOff(p, t) \/ (Cardinality(mesh[t]) >= Dhi /\ p \notin outbound)

GraftRefused(p, t) ==
  \/ BackedOff(p, t)
  \/ score[p] < 0
  \/ Cardinality(mesh[t]) >= Dhi /\ p \notin outbound

HandleGraftDirect(p, t) ==
  /\ Graftable(p, t)
  /\ p \in Direct
  /\ ~SpeaksV10(p)
  /\ DoAddBackoff({<<t, p>>}, PruneBackoff)
  /\ UNCHANGED <<conn, topics, joined, mesh, score, fanVars, hbVars, pruning>>

HandleGraftRefused(p, t) ==
  /\ Graftable(p, t)
  /\ p \notin Direct
  /\ GraftRefused(p, t)
  /\ DoAddBackoff({<<t, p>>}, PruneBackoff)
  /\ UNCHANGED <<conn, topics, joined, mesh, score, fanVars, hbVars, pruning>>

HandleGraftAccepted(p, t) ==
  /\ Graftable(p, t)
  /\ p \notin Direct
  /\ ~GraftRefused(p, t)
  /\ mesh' = [mesh EXCEPT ![t] = @ \cup {p}]
  /\ UNCHANGED <<conn, topics, joined, backoff, left, score, fanVars, hbVars, pruning>>

(* handlePrune walks the topics of the PRUNE.  Entry ts[1] is handled and  *)
(* the rest waits in pruning, because pxConnect may be awaited after any   *)
(* entry; a topic we have not joined ends the walk.                        *)
HandlePruneEntry(p, ts) ==
  IF Head(ts) \in joined
  THEN /\ \E b \in PeerBackoffs :
            DoAddBackoff({<<Head(ts), p>>}, IF b > 0 THEN b ELSE PruneBackoff)
       /\ mesh' = [mesh EXCEPT ![Head(ts)] = @ \ {p}]
       /\ pruning' = [pruning EXCEPT ![p] = Tail(ts)]
  ELSE /\ pruning' = [pruning EXCEPT ![p] = <<>>]
       /\ UNCHANGED meshVars

PruneLists == UNION {[1..n -> Topics] : n \in 1..MaxPruneTopics}

HandlePrune(p, ts) ==
  /\ Heard(p)
  /\ pruning[p] = <<>>
  /\ HandlePruneEntry(p, ts)
  /\ UNCHANGED <<conn, topics, joined, score, fanVars, hbVars>>

HandlePruneGoesOn(p) ==
  /\ pruning[p] # <<>>
  /\ HandlePruneEntry(p, pruning[p])
  /\ UNCHANGED <<conn, topics, joined, score, fanVars, hbVars>>

(* pxConnect rejects, and with it the handler of the whole RPC.            *)
HandlePruneFails(p) ==
  /\ PxMayFail
  /\ pruning[p] # <<>>
  /\ pruning' = [pruning EXCEPT ![p] = <<>>]
  /\ UNCHANGED <<conn, topics, joined, meshVars, score, fanVars, hbVars>>

(* --------------------------- calls of the app -------------------------- *)

(* Peers getRandomGossipPeers can return for t, before its filter.         *)
Reachable(t) == {p \in topics[t] : stream[p] = "open"}

(* Mutant: join grafts direct peers too. *)
MeshEligibleDirectToo(p, t) == score[p] >= 0 /\ p \notin backoff[t]
MeshEligible(p, t) == p \notin Direct /\ score[p] >= 0 /\ p \notin backoff[t]

(* subscribe -> join: fanout peers first, then up to D random ones more.   *)
Join(t) ==
  /\ t \notin joined
  /\ joined' = joined \cup {t}
  /\ LET kept == {p \in fanout[t] : MeshEligible(p, t)}
         more == {p \in Reachable(t) \ kept : MeshEligible(p, t)}
     IN  \E new \in SomeOf(more, IF Cardinality(kept) < D THEN D ELSE 0) :
           mesh' = [mesh EXCEPT ![t] = kept \cup new]
  /\ fanoutTopics' = fanoutTopics \ {t}
  /\ fanout' = [fanout EXCEPT ![t] = {}]
  /\ fanoutLeft' = [fanoutLeft EXCEPT ![t] = IF t \in fanoutTopics THEN -1 ELSE @]
  /\ UNCHANGED <<conn, topics, backoff, left, score, hbVars, pruning>>

(* unsubscribe -> leave: sendPrune calls makePrune for every mesh peer     *)
(* before its first await, so the backoffs are on the book at once.        *)
Leave(t) ==
  /\ t \in joined
  /\ joined' = joined \ {t}
  /\ DoAddBackoff({<<t, p>> : p \in {q \in mesh[t] : ~SpeaksV10(q)}}, UnsubBackoff)
  /\ mesh' = [mesh EXCEPT ![t] = {}]
  /\ UNCHANGED <<conn, topics, score, fanVars, hbVars, pruning>>

(* publish -> selectPeersToPublish, the case that touches the fanout.      *)
Publish(t) ==
  /\ ~FloodPublish
  /\ mesh[t] = {}
  /\ \E new \in IF fanout[t] # {} THEN {fanout[t]}
                ELSE SomeOf({p \in Reachable(t) : score[p] >= PublishThreshold}, D) :
       /\ fanout' = [fanout EXCEPT ![t] = new]
       /\ fanoutTopics' = IF new # {} THEN fanoutTopics \cup {t} ELSE fanoutTopics
  /\ fanoutLeft' = [fanoutLeft EXCEPT ![t] = FanoutTTL]
  /\ UNCHANGED <<conn, topics, joined, meshVars, score, hbVars, pruning>>

(* ------------------------------- heartbeat ----------------------------- *)

(* A stage of the maintenance of one topic maps a mesh to the set of       *)
(* meshes it may leave; more are the candidates the stage draws from.      *)
Candidates(t, cleared) ==
  {p \in Reachable(t) \ (mesh[t] \cup Direct) : p \notin cleared[t] /\ score[p] >= 0}

Refilled(m, more) ==
  IF Cardinality(m) < Dlo
  THEN {m \cup a : a \in SomeOf(more, D - Cardinality(m))}
  ELSE {m}

Trimmed(m) ==
  IF Cardinality(m) > Dhi THEN ExcessKept(m, outbound, score, D, Dscore, Dout) ELSE {m}

(* Mutant: the outbound quota is not filled in a mesh of exactly Dlo. *)
WithOutboundAboveDlo(m, more) ==
  IF Cardinality(m) > Dlo
  THEN {m \cup a : a \in SomeOf(more \cap outbound, Dout - Cardinality(m \cap outbound))}
  ELSE {m}

WithOutbound(m, more) ==
  IF Cardinality(m) >= Dlo
  THEN {m \cup a : a \in SomeOf(more \cap outbound, Dout - Cardinality(m \cap outbound))}
  ELSE {m}

(* The score at index floor(n / 2) of the n mesh scores in ascending order. *)
MedianScore(m) ==
  CHOOSE v \in {score[p] : p \in m} :
    LET n == Cardinality(m)
    IN  /\ Cardinality({p \in m : score[p] < v}) <= n \div 2
        /\ Cardinality({p \in m : score[p] <= v}) > n \div 2

WithBetter(m, more, tick) ==
  IF tick % OppGraftTicks = 0 /\ Cardinality(m) > 1 /\ MedianScore(m) < OppGraftThreshold
  THEN {m \cup a : a \in SomeOf({p \in more : score[p] > MedianScore(m)}, OppGraftPeers)}
  ELSE {m}

(* The meshes one heartbeat may leave in topic t. *)
Maintained(t, cleared, tick) ==
  LET more == Candidates(t, cleared)
      kept == {p \in mesh[t] : score[p] >= 0}
  IN  UNION { UNION { UNION { WithBetter(m3, more \ (m1 \cup m3), tick)
                        : m3 \in WithOutbound(m2, more \ m1)}
                        : m2 \in Trimmed(m1)}
                        : m1 \in Refilled(kept, more)}

(* Mutants: the counter never hits the multiple; only joined topics are    *)
(* cleared.                                                                *)
ClearedBackoffNever(tick) == IF tick < 0 THEN [t \in Topics |-> {}] ELSE backoff
ClearedBackoffOfJoined(tick) ==
  IF tick % PruneBackoffTicks = 0
  THEN [t \in Topics |-> {p \in backoff[t] : t \in joined => left[t][p] >= -BackoffSlack}]
  ELSE backoff

(* clearBackoff drops what expired more than the slack ago.                *)
ClearedBackoff(tick) ==
  IF tick % PruneBackoffTicks = 0
  THEN [t \in Topics |-> {p \in backoff[t] : left[t][p] >= -BackoffSlack}]
  ELSE backoff

(* Fanout of topic t after the heartbeat, given that it still exists.      *)
FanoutMaintained(t) ==
  LET kept == {p \in fanout[t] : p \in topics[t] /\ score[p] >= PublishThreshold}
      more == {p \in Reachable(t) \ (kept \cup Direct) : score[p] >= PublishThreshold}
  IN  {kept \cup a : a \in SomeOf(more, D - Cardinality(kept))}

(* From the prune of the caches to the first await of sendGraftPrune.      *)
Maintain(cleared, tick) ==
  /\ mesh' \in {m \in [Topics -> SUBSET Peers] :
                  \A t \in Topics : IF t \in joined THEN m[t] \in Maintained(t, cleared, tick)
                                                    ELSE m[t] = {}}
  /\ LET dropped(t) == mesh[t] \ mesh'[t]
     IN  /\ backoff' = [t \in Topics |-> cleared[t] \cup dropped(t)]
         /\ left' = [t \in Topics |-> [p \in Peers |->
                       IF p \in dropped(t) THEN Larger(left[t][p], PruneBackoff) ELSE left[t][p]]]
         /\ toprune' = [p \in Peers |-> {t \in Topics : p \in dropped(t)}]
         /\ hb' = IF \E t \in Topics : dropped(t) # {} THEN "sending" ELSE "idle"
  /\ fanoutTopics' = {t \in fanoutTopics : fanoutLeft[t] >= 0}
  /\ fanout' \in {f \in [Topics -> SUBSET Peers] :
                    \A t \in Topics : IF t \in fanoutTopics' THEN f[t] \in FanoutMaintained(t)
                                                            ELSE f[t] = {}}
  /\ UNCHANGED <<conn, topics, joined, score, fanoutLeft, pruning>>

NextTick == (ticks + 1) % TickCycle

(* directConnect has somebody to dial in this heartbeat: a direct peer      *)
(* without an outbound stream, connected or not.                           *)
MustDial == NextTick % DirectConnectTicks = 0 /\ \E p \in Direct : stream[p] # "open"

Heartbeat ==
  /\ hb = "idle"
  /\ ~MustDial
  /\ ticks' = NextTick
  /\ Maintain(ClearedBackoff(NextTick), NextTick)

HeartbeatDials ==
  /\ hb = "idle"
  /\ MustDial
  /\ ticks' = NextTick
  /\ backoff' = ClearedBackoff(NextTick)
  /\ hb' = "dialing"
  /\ UNCHANGED <<conn, topics, joined, mesh, left, score, fanVars, toprune, pruning>>

DirectDialed ==
  /\ hb = "dialing"
  /\ ticks' = ticks
  /\ Maintain(backoff, ticks)

(* One failed dial rejects directConnect and ends the heartbeat.           *)
DirectDialFails ==
  /\ hb = "dialing"
  /\ hb' = "idle"
  /\ UNCHANGED <<conn, topics, joined, meshVars, score, fanVars, ticks, toprune, pruning>>

(* sendGraftPrune awaits makePrune for one peer after the other.           *)
SendPrune(p) ==
  /\ hb = "sending"
  /\ toprune[p] # {}
  /\ DoAddBackoff(IF SpeaksV10(p) THEN {} ELSE {<<t, p>> : t \in toprune[p]}, PruneBackoff)
  /\ toprune' = [toprune EXCEPT ![p] = {}]
  /\ hb' = IF \E q \in Peers \ {p} : toprune[q] # {} THEN "sending" ELSE "idle"
  /\ UNCHANGED <<conn, topics, joined, mesh, score, fanVars, ticks, pruning>>

(* With peer exchange, a failing peerStore.get rejects makePrune and the   *)
(* PRUNEs still owed are never sent.                                       *)
SendPruneFails ==
  /\ PxMayFail
  /\ hb = "sending"
  /\ toprune' = [p \in Peers |-> {}]
  /\ hb' = "idle"
  /\ UNCHANGED <<conn, topics, joined, meshVars, score, fanVars, ticks, pruning>>

(* ----------------------------- environment ----------------------------- *)

(* One tick of the clock. *)
Tick ==
  /\ left' = [t \in Topics |-> [p \in Peers |-> Larger(left[t][p] - 1, Floor)]]
  /\ fanoutLeft' = [t \in Topics |-> Larger(fanoutLeft[t] - 1, -1)]
  /\ UNCHANGED <<conn, topics, joined, mesh, backoff, score, fanoutTopics, fanout, hbVars, pruning>>

ScoreChanges(p, s) ==
  /\ score[p] # s
  /\ score' = [score EXCEPT ![p] = s]
  /\ UNCHANGED <<conn, topics, joined, meshVars, fanVars, hbVars, pruning>>

ConnectionStep ==
  \E p \in Peers :
    \/ \E dialed \in {FALSE, (p \in Dialable)} : Connect(p, dialed)
    \/ OutboundStreamOpens(p)
    \/ OutboundStreamFails(p)
    \/ Disconnect(p)
    \/ LateRpcEnds(p)

RpcStep ==
  \E p \in Peers :
    \/ \E t \in Topics :
          \/ \E subscribe \in BOOLEAN : HandleSubscription(p, t, subscribe)
          \/ HandleGraftDirect(p, t)
          \/ HandleGraftRefused(p, t)
          \/ HandleGraftAccepted(p, t)
    \/ \E ts \in PruneLists : HandlePrune(p, ts)
    \/ HandlePruneGoesOn(p)
    \/ HandlePruneFails(p)

AppStep == \E t \in Topics : Join(t) \/ Leave(t) \/ Publish(t)

HeartbeatStep ==
  \/ Heartbeat
  \/ HeartbeatDials
  \/ DirectDialed
  \/ DirectDialFails
  \/ \E p \in Peers : SendPrune(p)
  \/ SendPruneFails

Next ==
  \/ ConnectionStep
  \/ RpcStep
  \/ AppStep
  \/ HeartbeatStep
  \/ Tick
  \/ \E p \in Peers, s \in Scores : ScoreChanges(p, s)

Spec == Init /\ [][Next]_vars

(* ------------------------------ properties ----------------------------- *)

TypeOK ==
  /\ peers \subseteq Peers /\ outbound \subseteq Peers /\ late \subseteq Peers
  /\ stream \in [Peers -> {"none", "opening", "open"}]
  /\ topics \in [Topics -> SUBSET Peers]
  /\ joined \subseteq Topics
  /\ mesh \in [Topics -> SUBSET Peers]
  /\ backoff \in [Topics -> SUBSET Peers]
  /\ left \in [Topics -> [Peers -> Int]]
  /\ score \in [Peers -> Scores]
  /\ fanoutTopics \subseteq Topics
  /\ fanout \in [Topics -> SUBSET Peers]
  /\ fanoutLeft \in [Topics -> Int]
  /\ ticks \in Nat
  /\ hb \in {"idle", "dialing", "sending"}
  /\ toprune \in [Peers -> SUBSET Topics]
  /\ pruning \in [Peers -> Seq(Topics)]

(* "We don't GRAFT to/from direct peers": a direct peer is in no mesh,     *)
(* although it may be in the fanout a join starts from.                    *)
NoDirectInMesh == \A t \in Topics : mesh[t] \cap Direct = {}

(* Only connected peers are in a mesh: removePeer leaves nobody behind and *)
(* no later handler puts a removed peer back.                              *)
MeshIsConnected == \A t \in Topics : mesh[t] \subseteq peers

(* Mesh links honour backoffs: the router implements MeshLinks, where the  *)
(* quiet time of a link is what is left of its backoff.                    *)
Links == INSTANCE MeshLinks WITH
  members <- peers, active <- joined, links <- mesh,
  quiet <- [t \in Topics |-> [p \in Peers |-> Larger(left[t][p], 0)]]
BackoffHonoured == Links!Spec

(* Peers that dialed us cannot take a mesh over: GRAFTs, joins and         *)
(* opportunistic grafting together never put more of them in one mesh than *)
(* this, although a GRAFT of an outbound peer is accepted at any size.     *)
InboundBound == Larger(2 * D - 1, Dhi + OppGraftPeers)
InboundBounded == \A t \in Topics : Cardinality(mesh[t] \ outbound) <= InboundBound

(* A heartbeat that completes leaves a mesh of at least Dlo peers with at  *)
(* least Dout outbound ones, or nobody to graft: the stages (drop, refill, *)
(* trim, outbound quota, opportunistic) do not undo each other.            *)
Completes == (ticks' # ticks /\ hb' # "dialing") \/ (hb = "dialing" /\ toprune' # toprune)
LeavesNobody(t) ==
  LET rest == {p \in Reachable(t) \ (mesh'[t] \cup Direct) : p \notin backoff'[t] /\ score[p] >= 0}
  IN  /\ Cardinality(mesh'[t]) >= Dlo \/ rest = {}
      /\ Cardinality(mesh'[t] \cap outbound) >= Dout \/ rest \cap outbound = {}
HeartbeatRestoresDegree == [][Completes => \A t \in joined : LeavesNobody(t)]_vars

(* A PRUNE is obeyed in every joined topic it names, unless the handling   *)
(* of the RPC is given up: once the walk is over, the sender is out of the *)
(* mesh of each of them and backed off.                                    *)
PruneIsObeyed ==
  [][\A p \in Peers :
       pruning[p] # <<>> /\ pruning'[p] = <<>> =>
         \A i \in DOMAIN pruning[p] :
           LET t == pruning[p][i]
           IN  t \in joined => p \notin mesh'[t] /\ p \in backoff'[t]]_vars

(* The heartbeat reschedules itself in a finally block and every await in  *)
(* it settles (dials time out), so a heartbeat step is always taken; and   *)
(* time passes.  Nothing is assumed of peers, RPCs or the application.     *)
FairSpec == Spec /\ WF_vars(HeartbeatStep) /\ WF_vars(Tick)

(* A peer whose score stays negative ends up outside every mesh and no     *)
(* GRAFT, join or heartbeat brings it back.                                *)
NegativeScoreLeaves ==
  \A p \in Peers, t \in Topics : <>[](score[p] < 0) => <>[](p \notin mesh[t])

(* A mesh does not stay below Dlo while a peer it could graft stays        *)
(* available and its backoff is no longer extended: the entry is cleared   *)
(* in the end and a heartbeat grafts the peer.                             *)
Available(p, t) == t \in joined /\ p \in Reachable(t) \ Direct /\ score[p] >= 0
UnderfullMeshRefills ==
  \A p \in Peers, t \in Topics :
    (<>[]Available(p, t) /\ <>[][left'[t][p] <= left[t][p]]_vars)
      => []<>(p \in mesh[t] \/ Cardinality(mesh[t]) >= Dlo)

(* The backoff book does not grow for ever: an entry is extended or it is  *)
(* dropped, also that of a peer that has gone for good.                    *)
BackoffIsCleared ==
  \A p \in Peers, t \in Topics :
    p \in backoff[t] ~> (p \notin backoff[t] \/ left[t][p] > 0)
=============================================================================
