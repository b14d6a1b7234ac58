------------------------------ MODULE RpcAdmission ------------------------------
(***************************************************************************)
(* acceptFrom (src/src/index.ts): whether an RPC of a peer is looked at.   *)
(* A peer found in good standing is accepted for a while without another   *)
(* look at its score.                                                      *)
(*                                                                         *)
(* The score is an input that changes at any time, told apart as far as    *)
(* acceptFrom does.  Direct peers are accepted without any of this and are *)
(* left out, as are RPCs that change nothing here.                         *)
(***************************************************************************)
EXTENDS GossipBase

CONSTANTS
  WhitelistMax,       \* ACCEPT_FROM_WHITELIST_MAX_MESSAGES
  WhitelistDuration   \* ACCEPT_FROM_WHITELIST_DURATION_MS, in ticks

ASSUME WhitelistAssumption ==
  WhitelistMax \in Nat \ {0} /\ WhitelistDuration \in Nat

Standings == {
  "good",   \* the score is at least ACCEPT_FROM_WHITELIST_THRESHOLD_SCORE
  "fair",   \* less, but not below graylistThreshold
  "gray" }

VARIABLES
  standing,           \* what the score of a peer is now
  acceptFromWhitelist,\* peers that have an entry
  messagesAccepted,   \* of the entry, 0 without one
  acceptLeft,         \* acceptUntil - now, floored at -1, which it is without an entry
  (* observations *)
  slipped,            \* RPCs accepted of a peer since it became gray
  grayFor             \* ticks since then, up to one more than the duration

whitelist == <<acceptFromWhitelist, messagesAccepted, acceptLeft>>
admissionVars == <<standing, whitelist, slipped, grayFor>>

AdmissionInit ==
  /\ standing = [p \in Peers |-> "good"]
  /\ acceptFromWhitelist = {}
  /\ messagesAccepted = [p \in Peers |-> 0]
  /\ acceptLeft = [p \in Peers |-> -1]
  /\ slipped = [p \in Peers |-> 0]
  /\ grayFor = [p \in Peers |-> 0]

ScoreMoves(p, s) ==
  /\ standing[p] # s
  /\ standing' = [standing EXCEPT ![p] = s]
  /\ slipped' = [slipped EXCEPT ![p] = 0]
  /\ grayFor' = [grayFor EXCEPT ![p] = 0]
  /\ UNCHANGED whitelist

(* Mutant: one RPC more. *)
WhitelistedOneMore(p) ==
  /\ p \in acceptFromWhitelist
  /\ messagesAccepted[p] <= WhitelistMax
  /\ acceptLeft[p] >= 0

Whitelisted(p) ==
  /\ p \in acceptFromWhitelist
  /\ messagesAccepted[p] < WhitelistMax
  /\ acceptLeft[p] >= 0

(* Accepted without a look at the score. *)
AcceptWhitelisted(p) ==
  /\ Whitelisted(p)
  /\ messagesAccepted' = [messagesAccepted EXCEPT ![p] = @ + 1]
  /\ slipped' = [slipped EXCEPT ![p] = IF standing[p] = "gray" THEN @ + 1 ELSE @]
  /\ UNCHANGED <<standing, acceptFromWhitelist, acceptLeft, grayFor>>

(* The entry, if there is one, is of no use any more; only good standing   *)
(* makes a new one.  The RPC itself is accepted unless the peer is gray.   *)
AcceptByScore(p) ==
  /\ ~Whitelisted(p)
  /\ acceptFromWhitelist' = IF standing[p] = "good" THEN acceptFromWhitelist \cup {p}
                                                    ELSE acceptFromWhitelist \ {p}
  /\ messagesAccepted' = [messagesAccepted EXCEPT ![p] = 0]
  /\ acceptLeft' = [acceptLeft EXCEPT ![p] = IF standing[p] = "good" THEN WhitelistDuration ELSE -1]
  /\ UNCHANGED <<standing, slipped, grayFor>>

(* removePeer drops the entry; the score may be retained. *)
ForgetWhitelisted(p) ==
  /\ p \in acceptFromWhitelist
  /\ acceptFromWhitelist' = acceptFromWhitelist \ {p}
  /\ messagesAccepted' = [messagesAccepted EXCEPT ![p] = 0]
  /\ acceptLeft' = [acceptLeft EXCEPT ![p] = -1]
  /\ UNCHANGED <<standing, slipped, grayFor>>

TickAdmission ==
  /\ acceptLeft' = [p \in Peers |-> IF acceptLeft[p] < 0 THEN -1 ELSE acceptLeft[p] - 1]
  /\ grayFor' = [p \in Peers |->
       IF standing[p] = "gray" /\ grayFor[p] <= WhitelistDuration THEN grayFor[p] + 1 ELSE grayFor[p]]
  /\ UNCHANGED <<standing, acceptFromWhitelist, messagesAccepted, slipped>>

AdmissionNext ==
  \/ \E p \in Peers :
       \/ \E s \in Standings : ScoreMoves(p, s)
       \/ AcceptWhitelisted(p)
       \/ AcceptByScore(p)
       \/ ForgetWhitelisted(p)
  \/ TickAdmission

AdmissionSpec == AdmissionInit /\ [][AdmissionNext]_admissionVars

(* ------------------------------ properties ------------------------------ *)

AdmissionTypeOK ==
  /\ standing \in [Peers -> Standings]
  /\ acceptFromWhitelist \subseteq Peers
  /\ messagesAccepted \in [Peers -> 0..WhitelistMax]
  /\ acceptLeft \in [Peers -> -1..WhitelistDuration]
  /\ slipped \in [Peers -> Nat]
  /\ grayFor \in [Peers -> 0..(WhitelistDuration + 1)]

(* What constants.ts promises of the whitelist: however its score came     *)
(* down, whatever it sent before and however often it reconnects, a peer   *)
(* that has become gray slips at most ACCEPT_FROM_WHITELIST_MAX_MESSAGES   *)
(* RPCs past the graylist, and none when                                   *)
(* ACCEPT_FROM_WHITELIST_DURATION_MS have gone by since.                   *)
GrayQuota ==
  [][\A p \in Peers : slipped'[p] > slipped[p] =>
       slipped'[p] <= WhitelistMax /\ grayFor[p] <= WhitelistDuration]_admissionVars
===============================================================================
