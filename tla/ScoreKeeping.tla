------------------------------ MODULE ScoreKeeping ------------------------------
(***************************************************************************)
(* How class GossipSub (src/src/index.ts) keeps PeerScore informed: peers  *)
(* that come, go and come back from other addresses, the mesh of the one   *)
(* scored topic, messages and offences.  What the router decides from      *)
(* degrees and backoffs is left open here (see MeshRouter); what it        *)
(* decides from the score is not.                                          *)
(***************************************************************************)
EXTENDS PeerScore

VARIABLES
  peers,     \* keys of peers
  joined,    \* mesh.has(topic)
  mesh,      \* mesh.get(topic)
  toprune,   \* peers a heartbeat took out of the mesh whose PRUNE it still owes
  (* observations, no part of the program's state *)
  address,   \* connected peer -> IPs of its connection, one or none
  stray,     \* (peer, IP) dropped from knownIPs when retained stats were overwritten
  uncredited,  \* mesh peers that came in by join
  owed       \* peer -> runs of the background task until its stats may go

routing == <<peers, joined, mesh, toprune>>
records == <<address, stray, uncredited, owed>>
vars == <<scoreVars, routing, records>>

Init ==
  /\ ScoreInit
  /\ peers = {} /\ joined = FALSE /\ mesh = {} /\ toprune = {}
  /\ address = [p \in Peers |-> {}]
  /\ stray = {} /\ uncredited = {}
  /\ owed = [p \in Peers |-> 0]

(* ------------------------------- connections --------------------------- *)

(* addPeer: an address may have no IP. *)
Connect(p) ==
  \E ips \in {{}} \cup {{ip} : ip \in IPs} :
    /\ p \notin peers
    /\ peers' = peers \cup {p}
    /\ AddPeer(p, ips)
    /\ address' = [address EXCEPT ![p] = ips]
    /\ stray' = (stray \cup ({p} \X stats[p].knownIPs)) \ ({p} \X ips)
    /\ owed' = [owed EXCEPT ![p] = 0]
    /\ UNCHANGED <<joined, mesh, toprune, uncredited>>

(* removePeer. *)
Disconnect(p) ==
  /\ p \in peers
  /\ peers' = peers \ {p}
  /\ mesh' = mesh \ {p}
  /\ RemovePeer(p) /\ PenaltyRoom
  /\ uncredited' = uncredited \ {p}
  /\ owed' = [owed EXCEPT ![p] = IF Score(p) = "positive" THEN 0 ELSE RetainScore + 1]
  /\ address' = [address EXCEPT ![p] = {}]
  /\ UNCHANGED <<joined, toprune, stray>>

(* --------------------------------- mesh -------------------------------- *)

(* Who may enter the mesh.  A peer whose PRUNE is still owed is in backoff; *)
(* a PRUNE that outlives stop, which clears the backoffs, is taken to be    *)
(* sent before the peer is grafted again.                                   *)
Welcome == {p \in peers \ (mesh \cup toprune) : Score(p) # "negative"}

(* join adds peers to the mesh without telling PeerScore. *)
Join ==
  /\ ~joined
  /\ joined' = TRUE
  /\ \E toAdd \in SUBSET Welcome :
       mesh' = toAdd /\ uncredited' = toAdd /\ scoreCache' = Asked(toAdd)
  /\ UNCHANGED <<known, stats, peerIPs, peers, toprune, address, stray, owed>>

(* leave: makePrune of every mesh peer runs up to its first await. *)
Leave ==
  /\ joined
  /\ joined' = FALSE /\ mesh' = {} /\ uncredited' = {}
  /\ Prune(mesh) /\ PenaltyRoom /\ UNCHANGED scoreCache
  /\ UNCHANGED <<peers, toprune, address, stray, owed>>

(* Mutant: the stats of a peer that is in the mesh are started anew. *)
GraftAgain(p) ==
  /\ joined /\ p \in peers \ toprune /\ Score(p) # "negative"
  /\ mesh' = mesh \cup {p}
  /\ Graft({p})
  /\ scoreCache' = Asked({p})
  /\ UNCHANGED <<peers, joined, toprune, records>>

(* handleGraft accepts, or the heartbeat grafts. *)
GraftPeer(p) ==
  /\ joined /\ p \in Welcome
  /\ mesh' = mesh \cup {p}
  /\ Graft({p})
  /\ scoreCache' = Asked({p})
  /\ UNCHANGED <<peers, joined, toprune, records>>

(* A GRAFT refused: penalties for a peer that does not heed its backoff,   *)
(* and makePrune.                                                          *)
Refused(s, penalties) == Pruned(Penalised(s, penalties))

GraftRefused(p) ==
  \E penalties \in 0..2 :
    LET F(s) == Refused(s, penalties)
    IN  /\ joined /\ p \in peers \ mesh
        /\ Update({p}, F) /\ PenaltyRoom
        /\ scoreCache' = Asked({p})
        /\ UNCHANGED <<known, peerIPs, routing, records>>

(* handlePrune, whether or not the sender is in the mesh. *)
PruneReceived(p) ==
  /\ joined /\ p \in peers
  /\ mesh' = mesh \ {p} /\ uncredited' = uncredited \ {p}
  /\ Prune({p}) /\ PenaltyRoom
  /\ scoreCache' = Asked({p})
  /\ UNCHANGED <<peers, joined, toprune, address, stray, owed>>

(* The heartbeat takes a peer out of the mesh; PeerScore learns of it when *)
(* sendGraftPrune gets to the peer, gone or not.                           *)
HeartbeatPrune(p) ==
  /\ p \in mesh
  /\ mesh' = mesh \ {p} /\ uncredited' = uncredited \ {p}
  /\ toprune' = toprune \cup {p}
  /\ scoreCache' = Asked({p})
  /\ UNCHANGED <<known, stats, peerIPs, peers, joined, address, stray, owed>>

MakePrune(p) ==
  /\ p \in toprune
  /\ toprune' = toprune \ {p}
  /\ Prune({p}) /\ PenaltyRoom /\ UNCHANGED scoreCache
  /\ UNCHANGED <<peers, joined, mesh, records>>

(* --------------------------- messages and offences ---------------------- *)

(* The verdict on a message may come when its senders are gone; who else   *)
(* had sent it is left open.                                               *)
Delivery(p) ==
  \E others \in SUBSET known : DeliverMessage(p, others) /\ UNCHANGED <<routing, records>>

Rejection(p) ==
  \E others \in SUBSET known : RejectMessage(p, others) /\ PenaltyRoom /\ UNCHANGED <<routing, records>>

(* A copy of a message that has its verdict: a good one, or a bad one. *)
DuplicateOfValid(p) == p \in known /\ Mark(p, Counted) /\ UNCHANGED <<routing, records>>

(* So many broken promises, or one more copy of an invalid message. *)
Offence(p) ==
  \E n \in 1..2 :
    LET F(s) == Penalised(s, n)
    IN  p \in known /\ Mark(p, F) /\ PenaltyRoom /\ UNCHANGED <<routing, records>>

(* ------------------------------ timers, stop ---------------------------- *)

AskScore(p) ==
  /\ p \in known /\ scoreCache[p] = "none"
  /\ scoreCache' = Asked({p})
  /\ UNCHANGED <<known, stats, peerIPs, routing, records>>

ForgetCached(p) == CacheExpires(p) /\ UNCHANGED <<routing, records>>

Background ==
  /\ RefreshScores
  /\ owed' = [p \in Peers |-> IF owed[p] > 0 THEN owed[p] - 1 ELSE 0]
  /\ UNCHANGED <<routing, address, stray, uncredited>>

(* stop, and start again.  A heartbeat that was sending goes on. *)
Stop ==
  /\ ScoreStop
  /\ peers' = {} /\ joined' = FALSE /\ mesh' = {}
  /\ stray' = {} /\ uncredited' = {}
  /\ owed' = [p \in Peers |-> 0]
  /\ address' = [p \in Peers |-> {}]
  /\ UNCHANGED toprune

PeerStep(p) ==
  \/ Connect(p) \/ Disconnect(p)
  \/ GraftPeer(p) \/ GraftRefused(p) \/ PruneReceived(p)
  \/ HeartbeatPrune(p) \/ MakePrune(p)
  \/ Delivery(p) \/ Rejection(p) \/ DuplicateOfValid(p) \/ Offence(p)
  \/ AskScore(p) \/ ForgetCached(p)

Next ==
  \/ \E p \in Peers : PeerStep(p)
  \/ Join \/ Leave
  \/ Background
  \/ Stop

Spec == Init /\ [][Next]_vars

(* ------------------------------- properties ----------------------------- *)

TypeOK ==
  /\ ScoreTypeOK
  /\ peers \subseteq Peers /\ mesh \subseteq peers /\ toprune \subseteq Peers
  /\ joined \in BOOLEAN
  /\ address \in [Peers -> SUBSET IPs]
  /\ stray \subseteq Peers \X IPs /\ uncredited \subseteq mesh
  /\ owed \in [Peers -> 0..(RetainScore + 1)]

(* Who is connected is scored, and counted at the address it came from, so *)
(* no crowd at an address escapes P6, whatever came and went before.       *)
ConnectedAreCounted ==
  \A p \in peers : p \in known /\ stats[p].connected /\ \A ip \in address[p] : p \in peerIPs[ip]

(* An address counts those who are remembered to use it, and nobody else   *)
(* but peers that came back from another one while they were retained.     *)
AddressesCountTheRemembered ==
  \A p \in Peers, ip \in IPs :
    p \in peerIPs[ip] <=> (p \in known /\ ip \in stats[p].knownIPs) \/ <<p, ip>> \in stray

(* PeerScore takes a peer for a mesh peer only if it is one, or its PRUNE  *)
(* is on the way; and every mesh peer for one, but for those join added.   *)
MeshAsScored ==
  /\ \A p \in known : stats[p].inMesh => p \in mesh \cup toprune
  /\ \A p \in mesh \ uncredited : stats[p].inMesh

(* Who has gone is remembered for RetainScore intervals and no longer, and *)
(* not at all after leaving with a positive score, whatever verdicts and   *)
(* PRUNEs are late.                                                        *)
RetainedAsLong == \A p \in Peers \ peers : p \in known <=> owed[p] > 0

(* A mesh peer that stops being one while it is in deficit is charged for  *)
(* it, however it leaves: no graft, PRUNE or departure lets it off.        *)
DeficitCharged ==
  [][\A p \in known \cap known' :
       Deficit(stats[p]) > 0 /\ ~stats'[p].active
         => stats'[p].penalty >= stats[p].penalty + Deficit(stats[p])]_vars

(* "this way the peer cannot reset a negative score by simply              *)
(* disconnecting and reconnecting" (refreshScores).                        *)
ReconnectKeepsScore ==
  [][\A p \in known \ peers : p \in peers' /\ Conduct(p) < 0 => Conduct(p)' < 0]_vars
=================================================================================
