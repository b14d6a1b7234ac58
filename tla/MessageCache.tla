----------------------------- MODULE MessageCache -----------------------------
(***************************************************************************)
(* class MessageCache (src/src/message-cache.ts): the messages kept for    *)
(* IWANT replies, in the sliding windows of the history.  The operators    *)
(* are the methods of the class, as actions on the variables of one cache; *)
(* who calls them is the business of the module that extends this one.     *)
(* A window is a set: an id is put into it at most once, or is stale.      *)
(***************************************************************************)
EXTENDS Integers, FiniteSets

CONSTANTS
  Peers,
  Msgs,       \* message ids
  Capacity,   \* historyCapacity, the number of windows
  Gossip      \* windows that are advertised

ASSUME CacheAssumption ==
  /\ IsFiniteSet(Msgs)
  /\ Capacity \in Nat \ {0} /\ Gossip \in Nat /\ Gossip <= Capacity

VARIABLES
  msgs,              \* keys of msgs
  validated,         \* those whose entry is validated
  originatingPeers,  \* id -> peers that sent it before it was validated
  history,           \* window -> ids, 0 is the current one
  notValidatedCount

cacheVars == <<msgs, validated, originatingPeers, history, notValidatedCount>>

Windows == 0..(Capacity - 1)

CacheInit ==
  /\ msgs = {} /\ validated = {}
  /\ originatingPeers = [m \in Msgs |-> {}]
  /\ history = [i \in Windows |-> {}]
  /\ notValidatedCount = 0

(* A message that is cached already is left alone. *)
Put(m, valid) ==
  IF m \in msgs
  THEN UNCHANGED cacheVars
  ELSE /\ msgs' = msgs \cup {m}
       /\ validated' = IF valid THEN validated \cup {m} ELSE validated
       /\ originatingPeers' = [originatingPeers EXCEPT ![m] = {}]
       /\ history' = [history EXCEPT ![0] = @ \cup {m}]
       /\ notValidatedCount' = IF valid THEN notValidatedCount ELSE notValidatedCount + 1

ObserveDuplicate(m, p) ==
  /\ originatingPeers' = [originatingPeers EXCEPT ![m] =
                            IF m \in msgs \ validated THEN @ \cup {p} ELSE @]
  /\ UNCHANGED <<msgs, validated, history, notValidatedCount>>

(* Mutant: one window more is advertised. *)
GossipIDsOneMore == {m \in validated : \E i \in Windows : i <= Gossip /\ m \in history[i]}

(* The ids getGossipIDs returns. *)
GossipIDs == {m \in validated : \E i \in 0..(Gossip - 1) : m \in history[i]}

Validate(m) ==
  IF m \in msgs
  THEN /\ validated' = validated \cup {m}
       /\ originatingPeers' = [originatingPeers EXCEPT ![m] = {}]
       /\ notValidatedCount' = IF m \in validated THEN notValidatedCount ELSE notValidatedCount - 1
       /\ UNCHANGED <<msgs, history>>
  ELSE UNCHANGED cacheVars

(* Mutant: every entry that leaves is taken for one not validated. *)
ShiftCountsAll ==
  LET dropped == history[Capacity - 1] \cap msgs
  IN  /\ msgs' = msgs \ dropped
      /\ validated' = validated \ dropped
      /\ originatingPeers' = [m \in Msgs |-> IF m \in dropped THEN {} ELSE originatingPeers[m]]
      /\ notValidatedCount' = notValidatedCount - Cardinality(dropped)
      /\ history' = [i \in Windows |-> IF i = 0 THEN {} ELSE history[i - 1]]

(* Mutant: an entry still being validated stays in the cache. *)
ShiftKeepsUnvalidated ==
  LET dropped == history[Capacity - 1] \cap validated
  IN  /\ msgs' = msgs \ dropped
      /\ validated' = validated \ dropped
      /\ history' = [i \in Windows |-> IF i = 0 THEN {} ELSE history[i - 1]]
      /\ UNCHANGED <<originatingPeers, notValidatedCount>>

(* The last window is dropped, and with it whatever cached entry has the   *)
(* id of one of its entries.                                               *)
Shift ==
  LET dropped == history[Capacity - 1] \cap msgs
  IN  /\ msgs' = msgs \ dropped
      /\ validated' = validated \ dropped
      /\ originatingPeers' = [m \in Msgs |-> IF m \in dropped THEN {} ELSE originatingPeers[m]]
      /\ notValidatedCount' = notValidatedCount - Cardinality(dropped \ validated)
      /\ history' = [i \in Windows |-> IF i = 0 THEN {} ELSE history[i - 1]]

(* remove leaves the history entry, and the count, as they are. *)
Remove(m) ==
  /\ msgs' = msgs \ {m}
  /\ validated' = validated \ {m}
  /\ originatingPeers' = [originatingPeers EXCEPT ![m] = {}]
  /\ UNCHANGED <<history, notValidatedCount>>

CacheTypeOK ==
  /\ msgs \subseteq Msgs /\ validated \subseteq msgs
  /\ originatingPeers \in [Msgs -> SUBSET Peers]
  /\ history \in [Windows -> SUBSET Msgs]
  /\ notValidatedCount \in Nat
===============================================================================
