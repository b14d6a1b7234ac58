------------------------------- MODULE MCPeerScore -------------------------------
(* The stats and the delivery records of PeerScore are explored apart.     *)
EXTENDS MCScoreKeeping, DeliveryLedger

Parts == {"stats", "records"}

VARIABLE part

MCInit == part \in Parts /\ Init /\ LedgerInit /\ (part = "stats" => ~asyncMode)

MCNext ==
  /\ UNCHANGED part
  /\ \/ part = "stats" /\ Next /\ UNCHANGED ledgerVars
     \/ part = "records" /\ LedgerNext /\ UNCHANGED vars

MCSpec == MCInit /\ [][MCNext]_<<part, vars, ledgerVars>>
===============================================================================
