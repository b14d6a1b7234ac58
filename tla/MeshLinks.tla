------------------------------ MODULE MeshLinks ------------------------------
(***************************************************************************)
(* What the router promises about mesh links, whoever prunes or grafts.    *)
(* Every (topic, peer) link has a quiet time.  A link may come up only     *)
(* when its quiet time is over and never to a direct peer; a link that     *)
(* goes down starts a quiet time of at least MinQuiet, unless the peer is  *)
(* gone or it is a v1.0 peer of a topic we leave; and nothing but the      *)
(* clock ever shortens a quiet time.                                       *)
(***************************************************************************)
EXTENDS Integers

CONSTANTS Peers, Topics, Direct, V10, MinQuiet

VARIABLES
  members,  \* peers that are connected
  active,   \* topics we subscribe to
  links,    \* topic -> peers a link is up to
  quiet     \* topic -> peer -> time the link has to stay down

linkVars == <<members, active, links, quiet>>

Init ==
  /\ members = {}
  /\ active = {}
  /\ links = [t \in Topics |-> {}]
  /\ quiet = [t \in Topics |-> [p \in Peers |-> 0]]

ComesUp(p, t) == p \in links'[t] \ links[t]
GoesDown(p, t) == p \in links[t] \ links'[t]
Excused(p, t) == p \notin members' \/ (p \in V10 /\ t \notin active')

Change ==
  \A t \in Topics, p \in Peers :
    /\ ComesUp(p, t) => p \notin Direct /\ quiet[t][p] = 0
    /\ GoesDown(p, t) => Excused(p, t) \/ quiet'[t][p] >= MinQuiet
    /\ quiet'[t][p] >= quiet[t][p]

Elapse ==
  /\ quiet' = [t \in Topics |-> [p \in Peers |->
                 IF quiet[t][p] > 0 THEN quiet[t][p] - 1 ELSE 0]]
  /\ UNCHANGED <<members, active, links>>

Next == Change \/ Elapse

Spec == Init /\ [][Next]_linkVars
=============================================================================
