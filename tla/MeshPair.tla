-------------------------------- MODULE MeshPair --------------------------------
(***************************************************************************)
(* Two connected routers and one topic: what the handlers of MeshRouter    *)
(* make of the link between them when each runs at its own pace and the    *)
(* messages between them take their time (src/src/index.ts).               *)
(*                                                                         *)
(* Messages of a router arrive in order, unless its outbound buffer is     *)
(* full (OutboundStream.push throws) or the handler that was to send them  *)
(* fails: then they are lost, and no GRAFT or PRUNE is ever sent again.    *)
(* A PRUNE is made in makePrune, which may look up peers to exchange, and  *)
(* is sent only then; a heartbeat sends a GRAFT only after PRUNEs it made  *)
(* for other peers.                                                        *)
(*                                                                         *)
(* Scores, the size of the mesh, who is known as subscribed and which      *)
(* peers are selected are inputs.                                          *)
(* A backoff is told apart as far as the code does: it counts for a GRAFT  *)
(* received until it expires, for a GRAFT to send until it is cleared.     *)
(***************************************************************************)
EXTENDS Integers, Sequences

CONSTANTS
  Nodes,
  Other(_),   \* the other one
  Old,        \* nodes whose peer speaks v1.0: makePrune adds no backoff
  MaxWire,    \* bound: messages in flight from a node
  MaxOwed     \* bound: PRUNEs of a node being made

ASSUME PairAssumption ==
  /\ \A n \in Nodes : Other(n) \in Nodes \ {n} /\ Other(Other(n)) = n
  /\ MaxWire \in Nat /\ MaxOwed \in Nat

Messages == {"graft", "prune"}

VARIABLES
  joined,    \* node -> it has joined the topic
  mesh,      \* node -> the other one is in its mesh
  backoff,   \* node -> "none", "running", or "expired" and not yet cleared
  making,    \* node -> PRUNEs it awaits to make and send
  grafting,  \* node -> its heartbeat has yet to send a GRAFT
  wire,      \* node -> messages it has sent and the other one has not handled
  earlier,   \* node -> messages to it that were sent before its last PRUNE was handled
  excused    \* observation: an exception to LinkIsTwoSided, since the two last agreed

vars == <<joined, mesh, backoff, making, grafting, wire, earlier, excused>>

Init ==
  /\ joined = [n \in Nodes |-> FALSE]
  /\ mesh = [n \in Nodes |-> FALSE]
  /\ backoff = [n \in Nodes |-> "none"]
  /\ making = [n \in Nodes |-> 0]
  /\ grafting = [n \in Nodes |-> FALSE]
  /\ wire = [n \in Nodes |-> << >>]
  /\ earlier = [n \in Nodes |-> 0]
  /\ excused = FALSE

(* Nothing is in flight, awaited or about to be sent. *)
Quiet == \A n \in Nodes : wire[n] = << >> /\ making[n] = 0 /\ ~grafting[n]
Agree == \A n \in Nodes : mesh[n] = mesh[Other(n)]

(* Excuses of earlier are forgotten when the two agree and nothing is in   *)
(* the air.                                                                *)
Excuse(cond) == excused' = (cond \/ (excused /\ ~(Quiet /\ Agree)))

(* sendRpc, or what comes before it, may fail. *)
Send(n, m, cond) ==
  \/ /\ Len(wire[n]) < MaxWire
     /\ wire' = [wire EXCEPT ![n] = Append(@, m)]
     /\ Excuse(cond)
  \/ UNCHANGED wire /\ Excuse(TRUE)

(* doAddBackoff; of two backoffs the longer one counts. *)
Backoff(n) == backoff' = [backoff EXCEPT ![n] = "running"]

(* The next message to the node may have been sent by one that had not     *)
(* heard of its PRUNE.                                                     *)
PruneUnheard(n) ==
  earlier[n] > 0 \/ making[n] > 0 \/ \E i \in 1..Len(wire[n]) : wire[n][i] = "prune"

(* ------------------------------- join, leave ----------------------------- *)

(* join; the other one is grafted if it is selected. *)
Join(n) ==
  /\ ~joined[n]
  /\ joined' = [joined EXCEPT ![n] = TRUE]
  /\ \/ UNCHANGED <<mesh, wire>> /\ Excuse(FALSE)
     \/ /\ backoff[n] = "none"
        /\ mesh' = [mesh EXCEPT ![n] = TRUE]
        /\ Send(n, "graft", n \in Old /\ making[n] > 0)
  /\ UNCHANGED <<backoff, making, grafting, earlier>>

(* leave; the backoff is set as the PRUNE begins to be made, but not for a *)
(* v1.0 peer.                                                              *)
Leave(n) ==
  /\ joined[n]
  /\ joined' = [joined EXCEPT ![n] = FALSE]
  /\ mesh' = [mesh EXCEPT ![n] = FALSE]
  /\ making' = [making EXCEPT ![n] = IF mesh[n] THEN @ + 1 ELSE @]
  /\ making'[n] <= MaxOwed
  /\ IF mesh[n] /\ n \notin Old THEN Backoff(n) ELSE UNCHANGED backoff
  /\ Excuse(FALSE)
  /\ UNCHANGED <<grafting, wire, earlier>>

(* -------------------------------- heartbeat ------------------------------ *)

(* For its score or because the mesh is too large. *)
HeartbeatPrunes(n) ==
  /\ mesh[n] /\ ~grafting[n]
  /\ mesh' = [mesh EXCEPT ![n] = FALSE]
  /\ making' = [making EXCEPT ![n] = @ + 1]
  /\ making'[n] <= MaxOwed
  /\ Backoff(n)
  /\ Excuse(FALSE)
  /\ UNCHANGED <<joined, grafting, wire, earlier>>

(* Mutant: a peer that is backed off is grafted. *)
HeartbeatGraftsAnyway(n) ==
  /\ joined[n] /\ ~mesh[n] /\ ~grafting[n]
  /\ mesh' = [mesh EXCEPT ![n] = TRUE]
  /\ grafting' = [grafting EXCEPT ![n] = TRUE]
  /\ Excuse(FALSE)
  /\ UNCHANGED <<joined, backoff, making, wire, earlier>>

(* For any of the reasons to graft. *)
HeartbeatGrafts(n) ==
  /\ joined[n] /\ ~mesh[n] /\ backoff[n] = "none" /\ ~grafting[n]
  /\ mesh' = [mesh EXCEPT ![n] = TRUE]
  /\ grafting' = [grafting EXCEPT ![n] = TRUE]
  /\ Excuse(FALSE)
  /\ UNCHANGED <<joined, backoff, making, wire, earlier>>

(* sendGraftPrune comes to the peer, or has failed before. *)
GraftGoesOut(n) ==
  /\ grafting[n]
  /\ grafting' = [grafting EXCEPT ![n] = FALSE]
  /\ Send(n, "graft", ~mesh[n] \/ (n \in Old /\ making[n] > 0))
  /\ UNCHANGED <<joined, mesh, backoff, making, earlier>>

(* makePrune is done, or has failed. *)
PruneGoesOut(n) ==
  /\ making[n] > 0
  /\ making' = [making EXCEPT ![n] = @ - 1]
  /\ Send(n, "prune", FALSE)
  /\ UNCHANGED <<joined, mesh, backoff, grafting, earlier>>

(* Time passes.  Bound: a PRUNE is made, and answered, faster.            *)
BackoffExpires(n) ==
  /\ backoff[n] = "running" /\ ~PruneUnheard(n)
  /\ backoff' = [backoff EXCEPT ![n] = "expired"]
  /\ Excuse(FALSE)
  /\ UNCHANGED <<joined, mesh, making, grafting, wire, earlier>>

(* clearBackoff, some heartbeats later. *)
BackoffCleared(n) ==
  /\ backoff[n] = "expired"
  /\ backoff' = [backoff EXCEPT ![n] = "none"]
  /\ Excuse(FALSE)
  /\ UNCHANGED <<joined, mesh, making, grafting, wire, earlier>>

(* -------------------------------- handlers ------------------------------- *)

Arrives(n, m) == wire[Other(n)] # << >> /\ Head(wire[Other(n)]) = m
Left(n) == IF earlier[n] > 0 THEN earlier[n] - 1 ELSE 0

Handled(n) ==
  /\ wire' = [wire EXCEPT ![Other(n)] = Tail(@)]
  /\ earlier' = [earlier EXCEPT ![n] = Left(n)]

PruneHandled(n) ==
  /\ wire' = [wire EXCEPT ![Other(n)] = Tail(@)]
  /\ earlier' = [earlier EXCEPT ![n] = Left(n), ![Other(n)] = Len(wire[n])]

(* A GRAFT for a topic not joined is ignored, and no PRUNE is sent. *)
HandleGraftIgnored(n) ==
  /\ Arrives(n, "graft") /\ ~joined[n]
  /\ Handled(n) /\ Excuse(TRUE)
  /\ UNCHANGED <<joined, mesh, backoff, making, grafting>>

HandleGraftAgain(n) ==
  /\ Arrives(n, "graft") /\ mesh[n]
  /\ Handled(n) /\ Excuse(FALSE)
  /\ UNCHANGED <<joined, mesh, backoff, making, grafting>>

HandleGraftAccepted(n) ==
  /\ Arrives(n, "graft") /\ joined[n] /\ ~mesh[n] /\ backoff[n] # "running"
  /\ mesh' = [mesh EXCEPT ![n] = TRUE]
  /\ Handled(n) /\ Excuse(n \in Old /\ PruneUnheard(n))
  /\ UNCHANGED <<joined, backoff, making, grafting>>

(* Backed off, scored negatively or one too many: backoff and PRUNE. *)
HandleGraftRefused(n) ==
  /\ Arrives(n, "graft") /\ joined[n] /\ ~mesh[n]
  /\ making' = [making EXCEPT ![n] = @ + 1]
  /\ making'[n] <= MaxOwed
  /\ Handled(n) /\ Backoff(n) /\ Excuse(FALSE)
  /\ UNCHANGED <<joined, mesh, grafting>>

(* Without effect when the topic is not joined. *)
HandlePrune(n) ==
  /\ Arrives(n, "prune")
  /\ mesh' = [mesh EXCEPT ![n] = FALSE]
  /\ PruneHandled(n) /\ Excuse(FALSE)
  /\ IF joined[n] THEN Backoff(n) ELSE UNCHANGED backoff
  /\ UNCHANGED <<joined, making, grafting>>

Next ==
  \E n \in Nodes :
    \/ Join(n) \/ Leave(n)
    \/ HeartbeatPrunes(n) \/ HeartbeatGrafts(n) \/ GraftGoesOut(n) \/ PruneGoesOut(n)
    \/ BackoffExpires(n) \/ BackoffCleared(n)
    \/ HandleGraftIgnored(n) \/ HandleGraftAgain(n)
    \/ HandleGraftAccepted(n) \/ HandleGraftRefused(n) \/ HandlePrune(n)

Spec == Init /\ [][Next]_vars

(* ------------------------------- properties ------------------------------ *)

TypeOK ==
  /\ joined \in [Nodes -> BOOLEAN] /\ mesh \in [Nodes -> BOOLEAN]
  /\ \A n \in Nodes : mesh[n] => joined[n]
  /\ grafting \in [Nodes -> BOOLEAN]
  /\ backoff \in [Nodes -> {"none", "running", "expired"}]
  /\ making \in [Nodes -> 0..MaxOwed]
  /\ wire \in [Nodes -> Seq(Messages)] /\ \A n \in Nodes : Len(wire[n]) <= MaxWire
  /\ earlier \in [Nodes -> 0..MaxWire]
  /\ excused \in BOOLEAN

(* Mesh links are two-sided: once everything under way has been handled,   *)
(* either both have the other in the mesh or neither has, whatever GRAFTs  *)
(* and PRUNEs crossed.  The exceptions, since the two last agreed: a GRAFT *)
(* or PRUNE was not sent; a GRAFT came to a router that had left the       *)
(* topic, which says nothing of it; a GRAFT was sent although its peer had *)
(* left the mesh meanwhile; or, with a v1.0 peer, a GRAFT was sent ahead   *)
(* of a PRUNE or accepted from one that had not heard of the PRUNE.        *)
LinkIsTwoSided == Quiet => Agree \/ excused
===============================================================================
