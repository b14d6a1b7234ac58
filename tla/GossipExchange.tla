----------------------------- MODULE GossipExchange -----------------------------
(***************************************************************************)
(* The gossip exchange as a whole: requests, sending, wants and admission  *)
(* are kept in different fields, so the whole is the conjunction of the    *)
(* parts.  A removal, a heartbeat or a stop may be a step of all of them   *)
(* at once, or of one before the other.                                    *)
(***************************************************************************)
EXTENDS GossipRequests, GossipSending, PeerWants, RpcAdmission

ExchangeSpec == RequestsSpec /\ SendingSpec /\ WantsSpec /\ AdmissionSpec

TypeOK == RequestsTypeOK /\ SendingTypeOK /\ WantsTypeOK /\ AdmissionTypeOK
===============================================================================
