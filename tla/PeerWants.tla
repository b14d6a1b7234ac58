------------------------------- MODULE PeerWants -------------------------------
(***************************************************************************)
(* What peers say they want and do not want (src/src/index.ts): IWANTs are *)
(* answered from the message cache a limited number of times               *)
(* (getWithIWantCount of src/src/message-cache.ts), IDONTWANTs are kept    *)
(* for some heartbeats.  Nothing reads them: no send is held back by an    *)
(* IDONTWANT.                                                              *)
(***************************************************************************)
EXTENDS GossipBase

CONSTANTS
  Ids,                \* message ids that IDONTWANTs name
  Retransmission,     \* GossipsubGossipRetransmission
  IdontwantMax,       \* opts.idontwantMaxMessages
  McacheLength        \* opts.mcacheLength

ASSUME WantsAssumption ==
  /\ IsFiniteSet(Ids)
  /\ Retransmission \in Nat /\ IdontwantMax \in Nat \ {0} /\ McacheLength \in Nat \ {0}

VARIABLES
  members,            \* keys of peers
  suspended,          \* peers whose RPC with an IDONTWANT awaits handleGraft or handlePrune
  cached,             \* ids in the message cache
  iwantCounts,        \* id -> peer -> how often asked for, up to one over the limit
  idontwantCounts,    \* names counted since the last heartbeat
  idontwants,         \* peer -> id -> heartbeats since it was named, -1 if it was not
  (* observations *)
  served,             \* id -> peer -> times sent since it entered the cache
  haunting            \* removed peers of which an IDONTWANT was handled since

answers == <<cached, iwantCounts, served>>
statuses == <<idontwantCounts, idontwants, haunting>>
wantVars == <<members, suspended, answers, statuses>>

None == [i \in Ids |-> -1]

WantsInit ==
  /\ members = {} /\ suspended = {}
  /\ cached = {}
  /\ iwantCounts = [m \in Msgs |-> [p \in Peers |-> 0]]
  /\ idontwantCounts = [p \in Peers |-> 0]
  /\ idontwants = [p \in Peers |-> None]
  /\ served = [m \in Msgs |-> [p \in Peers |-> 0]]
  /\ haunting = {}

Enter(p) ==
  /\ p \notin members
  /\ members' = members \cup {p}
  /\ UNCHANGED <<suspended, answers, statuses>>

(* Mutant: what the peer has been sent is forgotten with it. *)
GoneWithCounts(p) ==
  /\ p \in members
  /\ members' = members \ {p}
  /\ idontwantCounts' = [idontwantCounts EXCEPT ![p] = 0]
  /\ idontwants' = [idontwants EXCEPT ![p] = None]
  /\ iwantCounts' = [m \in Msgs |-> [iwantCounts[m] EXCEPT ![p] = 0]]
  /\ haunting' = haunting \ {p}
  /\ UNCHANGED <<suspended, cached, served>>

(* removePeer forgets the IDONTWANTs; what the peer has been sent stays    *)
(* with the message.                                                       *)
Gone(p) ==
  /\ p \in members
  /\ members' = members \ {p}
  /\ idontwantCounts' = [idontwantCounts EXCEPT ![p] = 0]
  /\ idontwants' = [idontwants EXCEPT ![p] = None]
  /\ haunting' = haunting \ {p}
  /\ UNCHANGED <<suspended, answers>>

(* --------------------------------- IWANT -------------------------------- *)

(* A message enters the cache, by put. *)
Cache(m) ==
  /\ m \notin cached
  /\ cached' = cached \cup {m}
  /\ UNCHANGED <<members, suspended, iwantCounts, served, statuses>>

(* shift or remove: the entry goes with its counts. *)
Evict(m) ==
  /\ m \in cached
  /\ cached' = cached \ {m}
  /\ iwantCounts' = [iwantCounts EXCEPT ![m] = [p \in Peers |-> 0]]
  /\ served' = [served EXCEPT ![m] = [p \in Peers |-> 0]]
  /\ UNCHANGED <<members, suspended, statuses>>

(* An IWANT names a message, possibly more than once; it is sent once.     *)
(* The reply may be lost: the peer is gone, its buffer is full or the      *)
(* handling of the RPC fails.  Bound: the count stays at one over the      *)
(* limit; a message is named at most twice.                                *)
HandleIWant(p, m) ==
  /\ m \in cached
  /\ \E names \in 1..2 :
       LET asks == iwantCounts[m][p] + names IN
       /\ iwantCounts' = [iwantCounts EXCEPT ![m][p] = IF asks > Retransmission THEN Retransmission + 1 ELSE asks]
       /\ \/ iwantCounts[m][p] < Retransmission
             /\ served' = [served EXCEPT ![m][p] = @ + 1]
          \/ UNCHANGED served
  /\ UNCHANGED <<members, suspended, cached, statuses>>

(* ------------------------------- IDONTWANT ------------------------------ *)

(* The ids are noted in order until the allowance of the heartbeat is used *)
(* up; every name counts, repeated ones too.                               *)
Note(p, ids) ==
  /\ \E names \in Cardinality(ids)..(IdontwantMax - idontwantCounts[p]) :
       idontwantCounts' = [idontwantCounts EXCEPT ![p] = @ + names]
  /\ idontwants' = [idontwants EXCEPT ![p] = [i \in Ids |-> IF i \in ids THEN 0 ELSE @[i]]]
  /\ haunting' = IF p \in members THEN haunting ELSE haunting \cup {p}

HandleIdontwant(p, ids) ==
  /\ p \in members
  /\ Note(p, ids)
  /\ UNCHANGED <<members, suspended, answers>>

(* The RPC carries a GRAFT or a PRUNE as well, which are awaited first.    *)
IdontwantWaits(p) ==
  /\ p \in members \ suspended
  /\ suspended' = suspended \cup {p}
  /\ UNCHANGED <<members, answers, statuses>>

IdontwantGoesOn(p, ids) ==
  /\ p \in suspended
  /\ suspended' = suspended \ {p}
  /\ Note(p, ids)
  /\ UNCHANGED <<members, answers>>

(* handlePrune rejects, or the allowance is used up. *)
IdontwantIsLost(p) ==
  /\ p \in suspended
  /\ suspended' = suspended \ {p}
  /\ UNCHANGED <<members, answers, statuses>>

(* Mutant: kept for one heartbeat more. *)
ExpireLater ==
  idontwants' = [p \in Peers |-> [i \in Ids |->
    IF idontwants[p][i] \in 0..(McacheLength - 1) THEN idontwants[p][i] + 1 ELSE -1]]

(* heartbeatTicks moves on, and what was named mcacheLength heartbeats ago *)
(* is deleted.                                                             *)
Expire ==
  idontwants' = [p \in Peers |-> [i \in Ids |->
    IF idontwants[p][i] \in 0..(McacheLength - 2) THEN idontwants[p][i] + 1 ELSE -1]]

HeartbeatExpires ==
  /\ idontwantCounts' = [p \in Peers |-> 0]
  /\ Expire
  /\ UNCHANGED <<members, suspended, answers, haunting>>

(* stop clears the peers and the IDONTWANTs, not the message cache. *)
StopForgets ==
  /\ members' = {}
  /\ idontwantCounts' = [p \in Peers |-> 0]
  /\ idontwants' = [p \in Peers |-> None]
  /\ haunting' = {}
  /\ UNCHANGED <<suspended, answers>>

WantsNext ==
  \/ \E p \in Peers :
       \/ Enter(p) \/ Gone(p)
       \/ \E m \in Msgs : HandleIWant(p, m)
       \/ \E ids \in SUBSET Ids \ {{}} : HandleIdontwant(p, ids) \/ IdontwantGoesOn(p, ids)
       \/ IdontwantWaits(p) \/ IdontwantIsLost(p)
  \/ \E m \in Msgs : Cache(m) \/ Evict(m)
  \/ HeartbeatExpires
  \/ StopForgets

WantsSpec == WantsInit /\ [][WantsNext]_wantVars

(* ------------------------------ properties ------------------------------ *)

WantsTypeOK ==
  /\ members \subseteq Peers /\ suspended \subseteq Peers /\ haunting \subseteq Peers
  /\ cached \subseteq Msgs
  /\ iwantCounts \in [Msgs -> [Peers -> 0..(Retransmission + 1)]]
  /\ idontwantCounts \in [Peers -> 0..IdontwantMax]
  /\ idontwants \in [Peers -> [Ids -> -1..(McacheLength - 1)]]
  /\ served \in [Msgs -> [Peers -> Nat]]

(* GossipsubGossipRetransmission "controls how many times we will allow a  *)
(* peer to request the same message id": a peer is sent a cached message   *)
(* no more often, also when it goes and comes back in between.             *)
ServedWithinLimit == \A m \in Msgs, p \in Peers : served[m][p] <= Retransmission

(* "This map is bounded by peerCount * idontwantMaxMessages *              *)
(* mcacheLength" (index.ts): so many for each peer that is connected, and  *)
(* for one of which an RPC was handled to the end after it was removed.    *)
IdontwantsBounded ==
  \A p \in Peers :
    Cardinality({i \in Ids : idontwants[p][i] >= 0}) <=
      IF p \in members \cup haunting THEN IdontwantMax * McacheLength ELSE 0
===============================================================================
