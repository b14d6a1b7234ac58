----------------------------- MODULE MCPeerStreams -----------------------------
(* The streams and the heartbeat loop share the life of the router only.   *)
(* Streams are explored for one peer across restarts and for two peers of  *)
(* one start.                                                              *)
EXTENDS RouterLife

CONSTANTS p1, p2

Parts == {"streams of one", "streams of one start", "heartbeats"}

VARIABLE part

peerVars == <<online, era, peers, queue, opening, outStream, inStream, readers, late, failed>>

vars == <<part, streamVars, armed, orphans, running>>

Init == part \in Parts /\ StreamsInit /\ LoopsInit

Next ==
  /\ UNCHANGED part
  /\ \/ /\ StreamsNext
        /\ \/ part = "streams of one" /\ p2 \notin online'
           \/ part = "streams of one start" /\ session' <= 1
        /\ UNCHANGED <<armed, orphans, running>>
     \/ part = "heartbeats" /\ LoopsNext /\ UNCHANGED peerVars

Spec == Init /\ [][Next]_vars /\ StreamsFair /\ LoopsFair
===============================================================================
