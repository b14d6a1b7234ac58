----------------------------- MODULE GossipSending -----------------------------
(***************************************************************************)
(* How IHAVEs leave the router (src/src/index.ts): a heartbeat adds them   *)
(* to the pending gossip of peers, every RPC that is sent meanwhile takes  *)
(* the pending gossip of its peer along, and the end of the heartbeat      *)
(* flushes the rest.                                                       *)
(*                                                                         *)
(* An IHAVE is counted, whatever ids it lists.  sendRpc also re-attaches   *)
(* what is in control, but nothing is ever put there: GRAFTs and PRUNEs    *)
(* whose RPC is not sent are lost (module MeshPair).                       *)
(***************************************************************************)
EXTENDS GossipBase

CONSTANTS
  MaxEmits   \* bound: heartbeats that emit gossip

ASSUME EmitAssumption == MaxEmits \in Nat

VARIABLES
  outStreams,  \* keys of streamsOutbound
  gossip,      \* peer -> IHAVEs pending
  beating,     \* a heartbeat awaits sendGraftPrune
  emits,       \* heartbeats so far that emitted gossip
  (* observations *)
  addressed,   \* peer -> IHAVEs the heartbeats chose for it
  delivered,   \* peer -> IHAVEs of these it was sent
  dropped,     \* peer -> IHAVEs of these that were given up
  aborted      \* the last heartbeat failed before the flush

sums == <<addressed, delivered, dropped>>
sendingVars == <<outStreams, gossip, beating, emits, sums, aborted>>

SendingInit ==
  /\ outStreams = {}
  /\ gossip = [p \in Peers |-> 0]
  /\ beating = FALSE /\ emits = 0 /\ aborted = FALSE
  /\ addressed = [p \in Peers |-> 0]
  /\ delivered = [p \in Peers |-> 0]
  /\ dropped = [p \in Peers |-> 0]

StreamOpens(p) ==
  /\ p \notin outStreams
  /\ outStreams' = outStreams \cup {p}
  /\ UNCHANGED <<gossip, beating, emits, sums, aborted>>

(* removePeer. *)
StreamGone(p) ==
  /\ p \in outStreams
  /\ outStreams' = outStreams \ {p}
  /\ gossip' = [gossip EXCEPT ![p] = 0]
  /\ dropped' = [dropped EXCEPT ![p] = @ + gossip[p]]
  /\ UNCHANGED <<beating, emits, addressed, delivered, aborted>>

(* The peers have been sent an RPC with their pending gossip. *)
Taken(ps) ==
  /\ gossip' = [p \in Peers |-> IF p \in ps THEN 0 ELSE gossip[p]]
  /\ delivered' = [p \in Peers |-> IF p \in ps THEN delivered[p] + gossip[p] ELSE delivered[p]]

(* Mutant: the gossip of an RPC that cannot be sent is not re-attached. *)
SendRpcLosing(p) ==
  /\ p \in outStreams
  /\ \/ Taken({p})
     \/ gossip' = [gossip EXCEPT ![p] = 0] /\ UNCHANGED delivered
  /\ UNCHANGED <<outStreams, beating, emits, addressed, dropped, aborted>>

(* An RPC of its own for one peer; when the outbound buffer is full the    *)
(* gossip is pending again.                                                *)
SendRpc(p) ==
  /\ p \in outStreams
  /\ Taken({p}) \/ UNCHANGED <<gossip, delivered>>
  /\ UNCHANGED <<outStreams, beating, emits, addressed, dropped, aborted>>

(* publish sends one RPC object to several peers: the gossip of one stays  *)
(* in it, and reaches the peers after it that have none pending, which is  *)
(* not counted; a peer with gossip pending replaces it by its own.  Some   *)
(* of the peers cannot be sent to.                                         *)
PublishRpc(ps) ==
  /\ Taken(ps \cap outStreams)
  /\ UNCHANGED <<outStreams, beating, emits, addressed, dropped, aborted>>

(* emitGossip, for peers that have a stream; then sendGraftPrune is        *)
(* awaited.                                                                *)
HeartbeatEmits(ps) ==
  /\ ~beating /\ emits < MaxEmits
  /\ beating' = TRUE /\ emits' = emits + 1
  /\ gossip' = [p \in Peers |-> IF p \in ps THEN gossip[p] + 1 ELSE gossip[p]]
  /\ addressed' = [p \in Peers |-> IF p \in ps THEN addressed[p] + 1 ELSE addressed[p]]
  /\ aborted' = FALSE
  /\ UNCHANGED <<outStreams, delivered, dropped>>

(* Mutant: the gossip is taken off by sendRpc, which re-attaches it when   *)
(* the RPC cannot be sent.                                                 *)
FlushThroughSendRpc ==
  /\ beating
  /\ beating' = FALSE
  /\ \E sent \in SUBSET outStreams : Taken(sent)
  /\ UNCHANGED <<outStreams, emits, addressed, dropped, aborted>>

(* flush: gossip is taken off before it is sent, so nothing is re-attached *)
(* when there is no stream or its buffer is full.                          *)
HeartbeatFlushes ==
  /\ beating
  /\ beating' = FALSE
  /\ \E sent \in SUBSET outStreams :
       /\ delivered' = [p \in Peers |-> IF p \in sent THEN delivered[p] + gossip[p] ELSE delivered[p]]
       /\ dropped' = [p \in Peers |-> IF p \in sent THEN dropped[p] ELSE dropped[p] + gossip[p]]
  /\ gossip' = [p \in Peers |-> 0]
  /\ UNCHANGED <<outStreams, emits, addressed, aborted>>

(* makePrune rejects in sendGraftPrune: no flush, no shift. *)
HeartbeatAborts ==
  /\ beating
  /\ beating' = FALSE /\ aborted' = TRUE
  /\ UNCHANGED <<outStreams, gossip, emits, sums>>

(* stop; a heartbeat that is suspended goes on. *)
StopClears ==
  /\ outStreams' = {}
  /\ gossip' = [p \in Peers |-> 0]
  /\ dropped' = [p \in Peers |-> dropped[p] + gossip[p]]
  /\ UNCHANGED <<beating, emits, addressed, delivered, aborted>>

SendingNext ==
  \/ \E p \in Peers : StreamOpens(p) \/ StreamGone(p) \/ SendRpc(p)
  \/ \E ps \in SUBSET Peers : PublishRpc(ps)
  \/ \E ps \in SUBSET outStreams : HeartbeatEmits(ps)
  \/ HeartbeatFlushes
  \/ HeartbeatAborts
  \/ StopClears

SendingSpec == SendingInit /\ [][SendingNext]_sendingVars

(* ------------------------------ properties ------------------------------ *)

SendingTypeOK ==
  /\ outStreams \subseteq Peers
  /\ gossip \in [Peers -> Nat]
  /\ beating \in BOOLEAN /\ aborted \in BOOLEAN
  /\ emits \in 0..MaxEmits
  /\ addressed \in [Peers -> Nat] /\ delivered \in [Peers -> Nat] /\ dropped \in [Peers -> Nat]

(* Every IHAVE a heartbeat has for a peer is sent to it exactly once, or   *)
(* given up by the flush, with the peer or at stop: it is neither          *)
(* forgotten nor sent again when buffers are full, streams come and go,    *)
(* other RPCs are sent and published meanwhile, and heartbeats fail.       *)
GossipAccounted ==
  \A p \in Peers : addressed[p] = delivered[p] + gossip[p] + dropped[p]

(* Pending gossip does not pile up: between heartbeats there is none,      *)
(* unless the last one failed before its flush.                            *)
GossipIsFlushed == beating \/ aborted \/ \A p \in Peers : gossip[p] = 0
===============================================================================
