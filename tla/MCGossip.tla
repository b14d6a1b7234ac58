-------------------------------- MODULE MCGossip --------------------------------
(* The four parts of the gossip exchange share no state: a behaviour of    *)
(* this module is one of one of them, the others stay as they begin.       *)
(* Requests are explored for one peer and two messages and for two peers   *)
(* and one message, the wants for one peer.                                *)
EXTENDS GossipExchange

CONSTANTS p, q, m, n, i, j, k

Parts == {"requests to one", "requests of one", "sending", "wants", "admission"}

VARIABLE part

vars == <<part, requestVars, sendingVars, wantVars, admissionVars>>

ToOnePeer == peerhave[q] = 0
OfOneMessage ==
  /\ n \notin seen /\ \A x \in Peers : <<x, n>> \notin owing /\ n \notin replying[x]

WantsOfOnePeer == q \notin members \cup suspended /\ \A x \in Msgs : iwantCounts[x][q] = 0

Init ==
  /\ part \in Parts
  /\ RequestsInit /\ SendingInit /\ WantsInit /\ AdmissionInit

Next ==
  /\ UNCHANGED part
  /\ \/ /\ RequestsNext
        /\ \/ part = "requests to one" /\ ToOnePeer'
           \/ part = "requests of one" /\ OfOneMessage'
        /\ UNCHANGED <<sendingVars, wantVars, admissionVars>>
     \/ part = "sending" /\ SendingNext /\ UNCHANGED <<requestVars, wantVars, admissionVars>>
     \/ part = "wants" /\ WantsNext /\ WantsOfOnePeer' /\ UNCHANGED <<requestVars, sendingVars, admissionVars>>
     \/ part = "admission" /\ AdmissionNext /\ UNCHANGED <<requestVars, sendingVars, wantVars>>

Spec == Init /\ [][Next]_vars /\ RequestsFair
===============================================================================
