# js-libp2p-gossipsub in TLA+

TLA+ modules, TLC configurations and TLAPS proofs for the router in `src/src/`, mostly class `GossipSub`
(`src/src/index.ts`), its message cache, its peer score and its tracer of promises. Everything is translated
from the TypeScript; comments and the docs of constants are used only as claims to check.

## The system

| Component | State | Operations | Modelled in |
|---|---|---|---|
| Peers and streams | `peers`, `streamsOutbound`, `streamsInbound`, `outboundInflightQueue` | `onPeerConnected`, `onIncomingStream`, `addPeer`, `createInboundStream`, `createOutboundStream`, `onPeerDisconnected`, `removePeer` | `PeerStreams`; as seen by the mesh, `MeshRouter` |
| Life cycle | `status`, timers | `start`, `stop`, `runHeartbeat` | `Lifecycle`, `PeerStreams`, `HeartbeatLoop` |
| Subscriptions | `topics`, `subscriptions` | `handleReceivedSubscription`, `subscribe`, `unsubscribe` | `MeshRouter` |
| Mesh | `mesh`, `backoff`, `direct` | `handleGraft`, `handlePrune`, `join`, `leave`, `doAddBackoff`, `clearBackoff` | `MeshRouter`, abstractly `MeshLinks`; both ends of a link in `MeshPair` |
| Fanout | `fanout`, `fanoutLastpub` | `selectPeersToPublish`, the heartbeat | `MeshRouter` |
| Heartbeat | `heartbeatTicks` | `heartbeat`, `directConnect`, `sendGraftPrune`, `makePrune` | `MeshRouter`, `ExcessArray`; its effect on other parts in their modules |
| Message cache | `msgs`, `history`, `notValidatedCount` | `put`, `observeDuplicate`, `getGossipIDs`, `validate`, `shift`, `remove`; `getWithIWantCount` | `MessageCache`; `PeerWants` |
| Message path | `seenCache`, `topicValidators`, `asyncValidation` | `handleReceivedMessage`, `validateReceivedMessage`, `forwardMessage`, `publish`, `reportMessageValidationResult` | `MessageRelay` |
| Peer score | `peerStats`, `peerIPs`, `scoreCache` | `addPeer`, `removePeer`, `graft`, `prune`, `deliverMessage`, `rejectMessage`, `refreshScores`, `score`, ... | `PeerScore`, `ScoreKeeping` |
| Delivery records | `deliveryRecords` | `validateMessage`, `deliverMessage`, `rejectMessage`, `duplicateMessage`, `gc` | `DeliveryLedger` |
| Asking | `peerhave`, `iasked`, the promises of `tracer.ts` | `handleIHave`, `addPromise`, `deliverMessage`, `getBrokenPromises`, `applyIwantPenalties` | `GossipRequests` |
| Answering | IWANT counts, `idontwants`, `idontwantCounts` | `handleIWant`, `handleIdontwant` | `PeerWants` |
| Sending | `gossip`, stream buffers | `emitGossip`, `pushGossip`, `sendRpc`, `piggybackGossip`, `flush` | `GossipSending`; GRAFT and PRUNE in `MeshPair` |
| Intake of RPCs | `acceptFromWhitelist` | `acceptFrom` | `RpcAdmission` |
| Encoding, signatures, parameters, metrics | none, or none the router reads | pure functions | not modelled |

The parts share one object and one thread. Handlers of RPCs, calls of the application, the heartbeat, the background
run of the score, `start`, `stop` and libp2p's connection callbacks interleave at every `await` and nowhere else; this
is where the hard behaviour is. RPCs of one peer are by default not waited for, so two RPCs of one peer interleave too;
after `removePeer` an RPC already read from the stream is still handled; handlers, heartbeats and attempts to open
streams outlive `stop`. Between routers, messages arrive in order, or not at all when a buffer is full or a handler
fails. What can go wrong there is listed, line by line, as `hazards` in `PROJECT.json`.

What makes each part correct: only connected, non-direct peers of good score are in a mesh, for as long as both sides
want, and no link comes back before its backoff is over; the heartbeat brings every mesh back into its bounds; both ends
of a link agree in the end; a message is delivered once, is cached as long as it is advertised and is not sent back to
where it came from; everyone who sent it is credited and charged as often as it should be; the score knows who is connected, from where and
in which mesh, and remembers bad behaviour for as long as it promises; the limits per heartbeat hold whatever a peer
sends; a connected peer gets a stream, and a stopped router holds nothing.

## Modules

- `MeshRouter` - peers, streams, subscriptions, mesh, backoff, fanout, heartbeat. One action per handler, or per part of
  a handler between awaits. `MCMeshRouter` adds the values a cfg cannot express, `SwarmSpec` and `PruneSpec`.
- `ExcessPruning` - the choice the heartbeat makes in an oversubscribed mesh, as a set of possible survivor sets
  (`ExcessKept`). `MeshRouter` uses it. `ExcessArray` is the array program of `index.ts` that makes the choice, one action
  per round of its two loops. Its variable `order` remembers the array as shuffled, and `Survivors` says whom that array
  chooses, so that the loops (`OrderDecides`) and the choice (`SurvivorsExact`) are compared apart.
- `MeshLinks` - the abstract promise: a link comes up only when its quiet time is over and never to a direct peer, a
  link that goes down starts a quiet time (unless the peer is gone, or a v1.0 peer of a topic we left), and only the
  clock shortens quiet times. `MeshRouter` implements it with `quiet` = what is left of the backoff.
- `MeshPair` - two routers and the link between them: the handlers of `MeshRouter`, one topic, with messages in flight.
- `MessageCache`, `MessageRelay` - the methods of `message-cache.ts` as actions on one cache, and the path of received
  and published messages through it, with what heartbeats do to it. `MessageRelay EXTENDS MessageCache`.
- `PeerScore`, `ScoreKeeping` - the methods of class `PeerScore` as actions on its maps with `computeScore`, and the
  handlers of `index.ts` that call them, in every order.
- `DeliveryLedger` - the delivery record of one message and whom a verdict credits and charges.
- `GossipBase`, `GossipRequests`, `GossipSending`, `PeerWants`, `RpcAdmission` - the parts of the gossip exchange, which
  have no variables in common; `GossipExchange` is their composition, the conjunction of the four specifications.
- `Lifecycle`, `PeerStreams`, `HeartbeatLoop` - `start` and `stop` cut at their awaits; the streams and the heartbeat
  timers, each `EXTENDS Lifecycle`; `RouterLife` is the conjunction of the two.
- `MCMeshPair`, `MCMessageRelay`, `MCExcessArray`, `MCScoreKeeping`, `MCPeerScore`, `MCGossip`, `MCPeerStreams` -
  instances. The last three hold several parts that share no state, or only `life`; a variable `part` says which of
  them a behaviour is about, and the others do not move. Products of independent parts would add states and no behaviour.
- `MeshRouter_proofs`, `MeshDegrees_proofs` (the sizes of meshes), `ExcessArray_proofs`, `MeshPair_proofs`,
  `MessageRelay_proofs`, `PeerScore_proofs` (with the ledger), `Gossip_proofs`, `PeerStreams_proofs` - theorems.

### MeshRouter and the code

| Model | Code |
|---|---|
| `backoff[t]`, `left[t][p]` | keys of `backoff.get(t)`; expiry minus now, floored where `clearBackoff` would drop it |
| `joined`, `mesh` | keys and values of `mesh` |
| `stream[p]` | `streamsOutbound`: absent, `newStream` awaited, present. `V10` peers negotiate `/meshsub/1.0.0` and get no backoff in `makePrune` |
| `late` | removed peers an RPC of which is still being handled (the peers of `LateRpcs` may be) |
| `pruning[p]` | the rest of a `handlePrune` loop, suspended in `pxConnect`; `PxMayFail` lets it reject |
| `hb`, `toprune` | heartbeat waiting in `directConnect` (`dialing`) or in `sendGraftPrune` (`sending`) with the PRUNEs it still owes |
| `ticks` | `heartbeatTicks` modulo `TickCycle`, a common multiple of all periods |
| `score` | `score.score(p)`, any value of `Scores`, changing at any time |

Abstractions, all of them allowing more than the code does: an await after a loop entry or a peer may be taken where the
code only sometimes awaits; a heartbeat may follow another without a tick; scores vary within one handler; the `topics`
map has every topic; a peer accepts RPCs whatever its score (`RpcAdmission` and the allowed topics drop some). A pending
stream of a peer that disconnects and reconnects stands for both attempts. A PRUNE names at most `MaxPruneTopics` topics.
Floodsub peers and the contents of PX are left out.

### MeshPair and the code

| Model | Code |
|---|---|
| `wire[n]` | what node n has pushed on its outbound stream and the other has not handled |
| `making[n]` | PRUNEs for which `makePrune` is awaited (by `leave`, the heartbeat or the end of `handleControlMessage`) |
| `grafting[n]` | the heartbeat has put the peer into the mesh, and `sendGraftPrune` has not come to it |
| `backoff[n]` | no entry, one that runs, one that has expired and is not yet cleared (it stops us from grafting, not from being grafted) |
| `Old` | nodes whose peer speaks v1.0: `leave` and the answers of `makePrune` add no backoff |
| `earlier`, `excused` | observations: messages that were in flight when their sender handled a PRUNE; an exception of `LinkIsTwoSided` occurred |

`Send` loses a message when the push throws or the handler failed before. `BackoffExpires` assumes that a backoff (a
minute, ten seconds after leaving) outlasts the making and handling of its PRUNE.

### MessageRelay and the code

`checking`, `validating`, `reporting` are copies whose signature or id, topic validator or application verdict is
awaited. Time is counted in heartbeats; `seen[m]` is what is left of the `seenCache` entry. A heartbeat is two steps,
before and after the awaited `sendGraftPrune`, which may reject (`HeartbeatAborts`) so that `mcache.shift` is skipped.
`entries`, `deliveries`, `heard`, `missed`, `sent`, `promised` observe what happens and guard nothing but the bound
`MaxEntries`. The peers a message is forwarded to are any set, less the source and the excluded peers. Basic validation
and ids are choices; the fast message id cache and the calls into score and tracer are left out (the latter are in
`DeliveryLedger` and `GossipRequests`). The check of `seenCache` and the continuation of its handler, a few microtasks
later, are one step.

`ValidationInTime` is an assumption taken from the code's comments: a topic validator "must resolve fast (< 100ms)" (one
heartbeat at most may pass) and the application reports before the `seenCache` entry expires.
`SeenTTL > Capacity + MaxAborts + 1` says that the two minutes of `seenCache` outlast the five heartbeats of the message
cache, and the aborted ones.

### ScoreKeeping and the code

| Model | Code |
|---|---|
| `known`, `stats` | keys and values of `peerStats`; `left` is `expire` minus now in decay intervals, rounded up |
| `stats[p].penalty` | `meshFailurePenalty`, `invalidMessageDeliveries` and `behaviourPenalty` in one |
| `peerIPs`, `scoreCache` | the maps; of a cached score its sign, `"none"` when it is missing or no longer valid |
| `mesh`, `toprune` | the mesh of the scored topic; PRUNEs a heartbeat owes (`makePrune`, which calls `score.prune`, comes later) |
| `address`, `stray`, `uncredited`, `owed` | observations: the connection's IP, addresses left behind by `addPeer`, mesh peers that `join` added, background runs until stats may go |

One topic is scored; `topicScoreCap`, P5, the IP whitelist and the exact weights are left out, for only the sign of a
score steers what is kept. Counters decay by a half and vanish below one. The router's decisions that do not depend on
the score (degrees, backoff) are open choices. Who else had sent a message that is delivered or rejected is any set of
peers here; `DeliveryLedger` says which. RPCs handled after their sender was removed are the business of `MeshRouter` and
are absent here. A PRUNE still owed when the node stops is sent before that peer is grafted again; the awaits inside
`stop` are not steps.

### DeliveryLedger and the code

One message. `status`, `tracked`, `inWindow` are `drec.status`, `drec.peers` and whether `drec.validated` is less than
the delivery window ago. `seenEntry` and `cached` are its entries in `seenCache` and `mcache`; `atValidator` and `atApp`
the copy for which a verdict is awaited. How often `markFirstMessageDelivery`, `markDuplicateMessageDelivery` and
`markInvalidMessageDelivery` count for a peer is in `firsts`, `repeats` (a duplicate out of the window does not) and
`charges`; whether the peer is in a mesh, and what that does to the stats, is in `PeerScore`. What PeerScore was told is
recorded apart from what its methods do: `judged` sent the copy that brought the verdict, `early` sent duplicates before
it, `after` counts those after it, `timely` sent its first one of these in the window.

`VerdictReachesAll` says what the sums must be by these observations. Once is not the rule for charges: the peer of a
refused copy is charged for it, again if it had sent a duplicate before (`rejectMessage`), and for each copy it sends
later; nor for first deliveries, which `reportMessageValidationResult` and `forwardMessage` both report under
`asyncValidation`. Duplicates are credited once, but a first deliverer may earn that credit too, by sending its message
again after the verdict: `RepeatsDue` says so, against the comment in `deliverMessage`. A message we published, and a
record made anew after the verdict, get no verdict while that `seenCache` entry lasts, and nothing is due.

The record and the `seenCache` entry both live for two minutes and are dropped by different timers, so either may go
first: a new first copy may meet an old record, whose verdict then stands (`ofEntry`, `spared`). Validators and
application answer within the life of the entry. Copies that fail the basic validation have no record.

### The gossip exchange and the code

| Module | Model | Code |
|---|---|---|
| `GossipRequests` | `peerhave`, `iasked` | the maps, `peerhave` up to one over its limit |
| | `replying[p]` | the IWANT of a `handleControlMessage` that awaits `handleGraft` or `handlePrune` before it sends |
| | `promises`, `left` | `tracer.promises` by peer and id; `expire` minus now in ticks of a heartbeat |
| | `seen`, `validating` | `seenCache`; ids whose topic validator is awaited |
| | `asked`, `carried`, `owing`, `age`, `charged` | observations: ids sent since the last heartbeat, and those suspended at it; requests unanswered and since when; whom the last heartbeat charged |
| `GossipSending` | `gossip[p]`, `outStreams`, `beating` | number of IHAVEs in `gossip.get(p)`; keys of `streamsOutbound`; a heartbeat awaits `sendGraftPrune` |
| | `addressed`, `delivered`, `dropped` | observations that account for each IHAVE |
| `PeerWants` | `cached`, `iwantCounts` | the message cache and `iwantCounts` of its entries, up to one over the limit |
| | `idontwantCounts`, `idontwants` | the maps, with the heartbeats since an id was named |
| | `suspended`, `served`, `haunting` | RPCs in an await before their IDONTWANT is handled; observations |
| `RpcAdmission` | `acceptFromWhitelist`, `messagesAccepted`, `acceptLeft` | the entries, `acceptUntil` minus now |
| | `standing` | the score, told apart as far as `acceptFrom` does |

An IHAVE is counted in `GossipSending`, not looked into. Direct peers, which `acceptFrom` always accepts, and IHAVEs of
peers below `gossipThreshold`, which change nothing, are stuttering. Time passes in ticks that are independent of
heartbeats. A message is named at most twice in one IWANT.

### Streams and the code

`life` is where the router is between `start` and `stop`, including their awaits. `queue[s]` and `opening[s]` are the
`outboundInflightQueue` of the s-th start and the attempt its consumer is at: a queue that was ended is still emptied. An
era of a peer is one connection; `outStream[p]` is the era whose connection the stream in `streamsOutbound` belongs to,
`inStream` has the keys of `streamsInbound`, `readers[p]` counts read streams that were closed or replaced and have not
ended yet, whose error handler may still remove the peer. `late` (observation) marks streams that were attached after the
peer's connection or the router had gone, `failed` peers whose attempt failed.

In `HeartbeatLoop` `armed` is the timer the status refers to, `orphans` timers no status refers to, `running` heartbeats
that have not ended. A heartbeat ends before the timer it competes with is due; the code does not say so, but the interval
(a second) is what its awaits are measured against.

## Runs

| Run | Question | Bounds |
|---|---|---|
| `churn` | types; no direct peer, only connected peers in a mesh; `MeshLinks` implemented | 1 topic, a v1.0 peer and a direct peer we dial, whose RPCs may come late; D = 1, times of 1-2 ticks, scores -1 and 0 |
| `swarm` | inbound peers bounded; a completed heartbeat restores the degrees | 4 connected peers, any of them outbound; Dlo 1, D = Dhi = 2, Dout 1; scores 0 and 1 around the opportunistic threshold |
| `live` | bad peers leave for good, underfull meshes are refilled, backoffs are cleared | 2 peers, 1 topic, PX that may fail, no symmetry |
| `kept` | the loops leave whom the shuffled array chose; over all arrays these are exactly the sets of `ExcessKept`; Dout survive | 6 peers, D 4, Dscore 2, Dout 2, every score in 0..2, every order |
| `pair` | both ends of a link agree once all is handled | 2 routers, one of which sees a v1.0 peer; 3 messages in flight and 2 PRUNEs in the making each |
| `relay` | one delivery per entry, cache and history consistent, advertised messages kept, echoes explained | 3 peers, 1 message, 3 windows, 2 advertised, 1 failing heartbeat, 2 entries |
| `retain` | `peerStats` and `peerIPs` agree with connections, mesh and retention; deficits are charged. Each sender of a message is credited and charged exactly as often as it should be | 2 peers, 1 IP or none, retention of 1 interval, caps and thresholds 1, penalties up to 2. 3 senders, 1 message, 2 duplicates of each after the verdict, with and without `asyncValidation` |
| `gossip` | limits on IHAVEs, IWANTs, IDONTWANTs and the whitelist; promises; accounts of gossip | 1 peer with 2 messages and 2 peers with 1; 2 IHAVEs and 1 id per heartbeat, a window of 1 tick; 3 emissions; 3 ids named, 1 per heartbeat, kept for 2; 2 RPCs or 2 ticks whitelisted |
| `streams` | connected peers get their stream; stop leaves nothing; heartbeats do not multiply | 2 starts of 1 peer, 1 start of 2 peers; 2 connections each, queues of 2 |
| `ghost`, `prune`, `reset` | disagreements, see below | as above, smaller |

The smallest mesh degrees suffice for `churn` and `live`: what is asked there concerns one link, and a second peer fills
the mesh. `swarm` has the fewest peers for which refill, trim, outbound quota and opportunistic grafting all act in one
heartbeat; `kept` the smallest array with a head, a selection and outbound peers outside of it. In `pair` a GRAFT and a
PRUNE may cross twice, which takes three messages in one direction; the proof has no such bound. In `relay` messages
share nothing but `notValidatedCount`; two entries are needed for a message that returns. In `retain` two peers at one
address are a crowd (`IPThreshold` 1), one deficit and one penalty fill the counter, and a retention of one interval has
all its phases: running, run out, forgotten; of the three senders of a message one is first, one comes before and one
after the verdict. In `gossip` two ids compete for the one that may be asked, two promises of one id for one copy, and
three names for an allowance of two. In `streams` an attempt, a stream and a reader of an earlier connection or start
can each meet the later one. Clock values are capped by the intervals themselves, scores by their set, penalties by
`MaxPenalty`, mesh time by `MaxMeshTime`, `entries` by `MaxEntries`, `aborts` by `MaxAborts`, emissions by `MaxEmits`,
starts by `MaxSessions`, connections by `MaxEras`, attempts by `MaxQueue`, closed readers by `MaxReaders`, duplicates after the verdict by `MaxRepeats` (two, for the first changes the record and
the second must not), messages of a
pair by `MaxWire` and `MaxOwed`.

`swarm` starts with peers connected, streams open and subscriptions received, a state ordinary steps lead to, so that
the state space goes into the mesh. `prune` checks `PruneSpec`, whose walks through a PRUNE are undisturbed: what is left
undone is the walk's own doing.

`kept` and `streams` switch the deadlock check off: the pruning of `kept` ends, and the bounds on starts and connections
leave a stopped router of `streams` without peers.

### Fairness

| | Assumed | Why |
|---|---|---|
| `FairSpec` (`live`) | heartbeat steps and the clock go on | `runHeartbeat` schedules the next heartbeat in a `finally` block, and what it awaits (dials, peer store) settles. Nothing is assumed of peers, RPCs or the application; `NegativeScoreLeaves` and `UnderfullMeshRefills` are conditional on what they do in the end |
| `RequestsFair` (`gossip`) | heartbeats charge, the clock ticks | as above; promises are charged before the heartbeat's first await |
| `StreamsFair` (`streams`) | the consumer of a queue takes the next attempt, `newStream` succeeds or fails | `pipe` over the queue of `start`; `createOutboundStream` catches its errors |
| `LoopsFair` (`streams`) | timers fire, heartbeats end | `setTimeout`; the `finally` block |

### What the properties say

- `MeshIsConnected`, `NoDirectInMesh`, `BackoffHonoured`: see `MeshLinks`; the fanout is the way a removed or direct peer
  could slip into a mesh, a shorter backoff over a longer one how a link comes back too early.
- `InboundBounded`: at most max(2D - 1, Dhi + OppGraftPeers) peers of a mesh dialed us. 2D - 1 because `join` asks for D
  more peers when it has between 0 and D - 1; Dhi itself is no bound.
- `HeartbeatRestoresDegree`: after a heartbeat a mesh has Dlo peers and Dout outbound ones, or no candidate is left.
- `LinkIsTwoSided`: GRAFTs and PRUNEs that cross never leave a link with one end. What does is listed in its comment,
  and nothing else: losses, a GRAFT that reaches a router which left the topic, a GRAFT sent for a peer that is no longer
  in the mesh, and two orders that only a v1.0 peer, which gets no backoff, makes possible.
- `DeliveredOnce`, `CachedInHistory`, `AdvertisedIsKept`, `UnvalidatedCounted`, `EchoesOnlyMissed`: see the comments in
  `MessageRelay`.
- `ConnectedAreCounted`, `AddressesCountTheRemembered`: P6 sees every crowd at an address, and counts nobody who is
  forgotten; the exception, `stray`, is exact.
- `MeshAsScored`: PeerScore's idea of the mesh is late only while a PRUNE is owed, and wrong only for the peers `join` added.
- `RetainedAsLong`: no late verdict, PRUNE or cached score makes the retention longer or shorter.
- `DeficitCharged`: a peer below the delivery threshold cannot get rid of its deficit by being grafted again, pruned or disconnected.
- `VerdictReachesAll`: duplicates before, during and after validation, a validator or the application that decides, and
  records, cache and `seenCache` entries that expire apart: nobody is credited or charged more or less often than the
  verdict and what it sent make due, and one peer per `seenCache` entry is credited with the first delivery, if any is.
- `PenaltiesAreDue`, `PromisesEnd`: a heartbeat charges exactly the overdue promises; none is tracked for ever.
- `AskedWithinLimit`, `ServedWithinLimit`, `IdontwantsBounded`, `GrayQuota`: what constants and comments promise of the
  limits, with the exceptions that suspended handlers make.
- `GossipAccounted`, `GossipIsFlushed`: IHAVEs are sent once or given up, and do not pile up.
- `PeersAreServed`, `PeersGetStreams`, `StoppedIsEmpty` (of peers and streams; `stop` keeps `topics`, `mcache` and
  `acceptFromWhitelist`): see the comments in `PeerStreams`. `LoopsMerge`: timers that
  `stop` left behind merge with the loop of the next start.

### Disagreements

- `ghost`: an RPC handled after its sender was removed puts the sender back into the mesh (`handleGraft` does not look at `peers`).
- `prune`: `handlePrune` returns, rather than goes on, at a topic we have not joined.
- `reset`: `addPeer` overwrites retained stats, so a peer that reconnects does reset its score, which a comment in
  `refreshScores` excludes.

Noticed and not a run:
- Mesh. `ineed = D - outbound` in the heartbeat's trim may evict high-scoring survivors that `constants.ts` promises to
  keep. Unsubscribing does not take a peer out of our mesh. A GRAFT for a topic we have not joined is ignored without
  a PRUNE, `sendGraftPrune` does not look whether the peer is still in the mesh, leaving sets no backoff for v1.0 peers,
  and GRAFTs and PRUNEs that cannot be sent are not retried: each leaves a link with one end (`excused` in `MeshPair`).
- Sending. The `control` map is never filled, so `piggybackControl` and what it would retry are dead. `publish` sends
  one RPC object to all peers, which takes the gossip of one of them along to the next, although the comment above the
  loop (index.ts:2284) says otherwise.
- IDONTWANT. Nothing consults `idontwants` when sending. `removePeer` and late handlers leave entries of removed peers,
  beyond the bound the comment of the map states (`haunting`).
- Messages. Copies that arrive while a topic validator runs are not recorded as originating peers, so these peers get
  the message sent back (`missed`). `MessageCache.remove` does not decrement `notValidatedCount`, so the count drifts
  upwards; `UnvalidatedCounted` is what remains true.
- Score. `addPeer` overwrites `knownIPs` and leaves the peer in `peerIPs`: it goes on crowding an address it has left,
  until the node stops (`stray`). `join` does not call `score.graft` (`uncredited`). With `asyncValidation`
  `deliverMessage` is called twice for an accepted message, by `reportMessageValidationResult` and by `forwardMessage`:
  the second call runs into the "defensive check" of peer-score.ts:342, but after it has credited a second first
  delivery. A first deliverer that sends the message again within the window is credited for a duplicate as well,
  which the comment at peer-score.ts:357 means to prevent. `rejectMessage` charges the sender twice if it sent a second
  copy before the verdict, and nobody if an older record of the message lives on (`spared`).
- Gossip. An IWANT suspended in an await is counted against the previous heartbeat (`carried`).
- Streams. `stop` does not cancel `heartbeatTimeout` (`heartbeatTimer` is never set). An attempt whose `newStream`
  resolves after `stop` or `removePeer` leaves a stale stream in `streamsOutbound`, which stops later attempts for
  the same peer (`late`). The read error of an inbound stream that was replaced removes the live peer.

## Proofs

For every value of the constants that satisfies the named assumptions:

| Theorem | Says |
|---|---|
| `MeshRouter_proofs!TypeCorrect` | `TypeOK` |
| `DirectStaysOut` | `NoDirectInMesh` |
| `MeshStaysConnected` | `MeshIsConnected`, if only direct peers are in `LateRpcs`; `ghost` shows that the assumption is needed |
| `RouterImplementsLinks` | `MeshRouter` implements `MeshLinks` |
| `MeshPair_proofs!TypeCorrect`, `LinksTwoSided` | types, `LinkIsTwoSided` |
| `EndsImplementLinks` | no step of a router in `MeshPair` is one that `MeshLinks` forbids: both models keep the one promise |
| `MeshDegrees_proofs!InboundStaysBounded`, `HeartbeatRestores` | `InboundBounded`, `HeartbeatRestoresDegree` |
| `BadPeersGoAndStayOut` | no step takes a peer of negative score into a mesh, no completed heartbeat leaves one there |
| `ExcessKeepsOutbound` | whatever `ExcessKept` allows has D peers, Dout of them outbound or all there were |
| `ExcessArray_proofs!RotationsKeepChoice`, `QuotaSurvives` | `OrderDecides`, `OutboundQuota` |
| `ChoicesAreExact`, `ArrayIsAllowed` | `SurvivorsExact`; the array program makes a choice `ExcessKept` allows |
| `MessageRelay_proofs!TypeCorrect`, `CountMissesNone` | types, `UnvalidatedCounted` |
| `DeliveredAtMostOnce`, `CacheInWindows`, `AdvertisedStays` | `DeliveredOnce`, `CachedInHistory`, `AdvertisedIsKept` |
| `NoEchoes` | `EchoesOnlyMissed` |
| `PeerScore_proofs!TypeCorrect` | `TypeOK`: no counter exceeds its cap |
| `ConnectedCounted`, `AddressesExact` | `ConnectedAreCounted`, `AddressesCountTheRemembered` |
| `RetainedExactly`, `MeshAsBelieved`, `DeficitsCharged` | `RetainedAsLong`, `MeshAsScored`, `DeficitCharged` |
| `VerdictsReachAll` | `VerdictReachesAll` |
| `Gossip_proofs!GrayWithinQuota` | `GrayQuota` |
| `GossipIsAccounted`, `GossipAlwaysFlushed` | `GossipAccounted`, `GossipIsFlushed` |
| `ServedAtMost`, `AskedAtMost`, `IdontwantsAtMost` | `ServedWithinLimit`, `AskedWithinLimit`, `IdontwantsBounded` |
| `ChargesAreDue` | `PenaltiesAreDue` |
| `Gossip_proofs!TypeCorrect` | `TypeOK` of the whole exchange |
| `PeerStreams_proofs!EveryPeerServed`, `NothingLeft` | `PeersAreServed`, `StoppedIsEmpty` |
| `LoopsPerStart` | never more timers and running heartbeats than there were starts |
| `PeerStreams_proofs!TypeCorrect` | `TypeOK` of streams and timers together |

`TypeOK` of the router is inductive. The others rest on `BackoffBook` (a backoff that still runs has its entry in
the book) and on what a heartbeat stage may return (`ExcessKept` returns subsets of the mesh, every other stage adds
candidates only). `Connected` strengthens `MeshIsConnected` by subscribers and fanout, the two sources of new mesh peers.
The refinement has one lemma per kind of step: a step that changes links, a step of the clock.

The degrees follow from what each stage of a heartbeat does to the size of a mesh and to its outbound part: refilling
reaches Dlo or uses up the candidates, trimming takes more than Dhi to D with Dout outbound, the last two only add. The
bound on inbound peers is inductive with a fanout of at most D (`FanoutBounded`), from which a join may start.

In the array program a round of the first loop moves an outbound peer forward within the selection (`Inside`); one of the
second brings in the next outbound peer of the shuffled array (`Outside`) and puts the last peer that is not outbound out
(`LastOfSelection`), since those that are not outbound still stand as they were shuffled (`OthersInOrder`). So at the end
the array meets `Leaves`, which one set only does (`LeavesOne`), `Survivors` (`SurvivorsLeave`; who comes and who goes is
counted by numbering the indices in their order, `Ranks`). For `ChoicesAreExact` each set that `ExcessKept` allows needs an
array that leads to it: the peers ordered by class (head, rest of the selection, rest), in the head by score, then those to
be kept first (`Lexicographic`), and the order turned into an array by counting who is before whom (`OrderExists`).

For the pair `Obeyed` says that a router whose PRUNE may be unheard is backed off, so that it takes nobody back
meanwhile. While there is no excuse three things hold of each end: who has the link sends a GRAFT after every PRUNE
(`Superseded`); a GRAFT in flight is meant, or a PRUNE of the same or of the other router overtakes or undoes it (`Meant`); a link with one
end has a GRAFT or a PRUNE on its way that settles it (`Settling`). When all is quiet, `Settling` is `LinkIsTwoSided`.
`EndsImplementLinks` ties the pair to the router: with a quiet time of one unit while the backoff runs, `BackoffExpires` is
`Elapse` and every other step a `Change` (`Allowed`). The pair is connected from the start, so only the steps are compared.

`TypeOK` of the relay needs `UnvalidatedCounted`, without which `shift` might make the count negative; both are
proved together with the cardinality theorems of the library. The other invariant, `RelayInv`, relates the age of a
`seenCache` entry to the window a message is in (`StillSeen`): what is cached or stale in some window is still marked
seen, so no copy of it is taken for new, so it is in one window only (`OneWindow`), so a promise made for a window
is kept until that window is dropped (`PromiseKept`). `CopyPending` says that a copy with a topic validator is the only
one of its message and marked seen at most one heartbeat ago. For `EchoesOnlyMissed`, whoever was heard of a message under
validation is the source of the copy, is `missed` or is in the cache entry (`HeardByValidator`, `HeardByCache`).

For `ScoreKeeping` two invariants are carried along. `Remembered` keeps the books: connected peers have connected stats
with their own address, gone ones have `owed` one more than `left`, and a stray address is nobody's `knownIPs` (`NoStray`;
else forgetting a peer would drop it from an address it strayed to). Most steps are `Quiet` and cannot disturb it.
`Believed` adds to `MeshAsScored` that only mesh peers run a delivery rate, that retained ones are in no mesh and that a
PRUNE is owed to nobody in the mesh; `DeficitCharged` follows from it step by step.

For the ledger `Flow` says that the copy which awaits a verdict is the only one of its `seenCache` entry, that nobody was
credited for that entry yet and that it has the first word in any record made since. `Book` ties the record to the
observations, status by status: before the verdict `tracked` is `early` and nobody was told of since, a valid one has
tracked everyone who sent a duplicate, an invalid or ignored one nobody; and the sums are what is due. The bound on the
charges follows from it, not the other way round, and `MaxRepeats` may be any number.
There is one lemma per method of PeerScore.

In the gossip exchange the accounts of `GossipSending` are inductive with its types. `GrayBook` bounds what a gray peer
got by the entry it has, and how long it is gray by what is left of that entry. `Answered` bounds what was served by what
was counted. `AskedCounted` adds to what was asked the ids about to be asked. `PromisesMirror` says that the tracer's
promises are the unanswered requests and that what is left of each mirrors its age, so the broken ones are the overdue.
`IdontwantsBounded` has a sum for a bound, an allowance for each heartbeat that ids are kept. Instead of adding up, the
proof bounds the ids of each age by the allowance (`NamedBounded`) and numbers them within their age, which maps them one
to one into a product of two intervals (`Slices`).

For the streams `Phases` says what the phases of `start` and `stop` allow (a started router has only peers of open
connections, none when it starts; inbound streams are gone once `stop` closes), and `StreamOfEra` that an outbound stream
is late or of the present connection. `PeersAreServed` is inductive with these. Timers and running heartbeats only turn
into each other, and a start that is over has begun one (`LoopsCounted`).

Model-checked only: liveness (`NegativeScoreLeaves`, `UnderfullMeshRefills`, `BackoffIsCleared`, `PromisesEnd`,
`PeersGetStreams`, `LoopsMerge`), which the prover does not treat, although the safety half of the first two is proved
(`BadPeersGoAndStayOut`, `HeartbeatRestores`). Every invariant and action property of a passing run is proved.

## Plan

1. Done: the router, both ends of a link, the caches, the message path, the score with its delivery records, the gossip
   exchange, the streams and the life cycle, and the proofs above.
2. Not proved: the liveness properties. What could still be stated are the steps that bring them about, such as the clearing
   of backoffs and the answer to a stream's attempt.
3. Not composed: `DeliveryLedger` with `ScoreKeeping`, so that the stats follow the ledger instead of any set of peers;
   `PeerStreams` with `MeshRouter`, which has one attempt per peer. After a restart attempts of two sessions may be under way
   for one peer, so the streams implement the router's at most within a session, and there only if giving up a queued
   attempt of a peer that disconnects counts as a step of its own.

## Not modelled

- Message encoding, signatures and ids (`message/`, `utils/buildRawMessage.ts`, `utils/publishConfig.ts`, `utils/msgIdFn.ts`):
  pure functions and generated code. The relay has their outcome, valid or invalid, as a choice.
- Score parameters and thresholds: checks of single numbers at start-up. What other modules need of them is in their assumptions.
- Metrics: they observe the router and change nothing of it.
- `config.ts`, `types.ts`, `errors.ts`, `constants.ts`: no behaviour; the constants are constants of the modules.
- P5 and the IP whitelist of the score: inputs of the application that only add to a score. `topicScoreCap` and weights:
  numbers that do not change which stats are kept.
- Floodsub peers, the contents of peer exchange, the dials of `start` to direct peers and the tags of mesh peers in the
  peer store: their effect on the state above is that of any other peer, or none.
- `sendRpcInBatch`, `sendIDontWants`: they send and change no state.
- What the tracer keeps for metrics (`requestMsByMsg`), and the fast message id cache, which answers "seen" earlier than
  `seenCache` does.
