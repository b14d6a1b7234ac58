----------------------------- MODULE MCMeshRouter -----------------------------
(* Model checking of MeshRouter: values a cfg cannot write down, and the    *)
(* swarm, a router whose peers have all connected, opened their streams     *)
(* and subscribed, where the mesh is full enough for every degree bound.    *)
EXTENDS MeshRouter, TLC

SignedScores == {-1, 0}
GoodScores == {0, 1}
BelowZero == -1

Symmetry == Permutations(Peers)

SwarmInit ==
  /\ peers = Peers /\ late = {}
  /\ outbound \in SUBSET Peers
  /\ stream = [p \in Peers |-> "open"]
  /\ topics = [t \in Topics |-> Peers]
  /\ joined = {}
  /\ mesh = [t \in Topics |-> {}]
  /\ backoff = [t \in Topics |-> {}]
  /\ left = [t \in Topics |-> [p \in Peers |-> Floor]]
  /\ score \in [Peers -> Scores]
  /\ fanoutTopics = {}
  /\ fanout = [t \in Topics |-> {}]
  /\ fanoutLeft = [t \in Topics |-> -1]
  /\ ticks = 0 /\ hb = "idle"
  /\ toprune = [p \in Peers |-> {}]
  /\ pruning = [p \in Peers |-> <<>>]

SwarmNext ==
  \/ \E p \in Peers, t \in Topics : HandleGraftRefused(p, t) \/ HandleGraftAccepted(p, t)
  \/ \E p \in Peers, ts \in PruneLists : HandlePrune(p, ts)
  \/ AppStep
  \/ HeartbeatStep
  \/ Tick

SwarmSpec == SwarmInit /\ [][SwarmNext]_vars

(* Nothing happens in the middle of a received PRUNE: what the walk leaves  *)
(* undone is then its own doing.                                           *)
UndisturbedPrune == \A p \in Peers : pruning[p] # <<>> => pruning'[p] # pruning[p]
PruneSpec == Init /\ [][Next /\ UndisturbedPrune]_vars
===============================================================================
