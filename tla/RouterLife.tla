------------------------------- MODULE RouterLife -------------------------------
(***************************************************************************)
(* The streams of the peers and the heartbeat loop of one router.  They    *)
(* share its life: each start and stop is a step of both, anything else of *)
(* one of them.                                                            *)
(***************************************************************************)
EXTENDS PeerStreams, HeartbeatLoop

RouterSpec == StreamsSpec /\ LoopsSpec

TypeOK == StreamsTypeOK /\ LoopsTypeOK
===============================================================================
