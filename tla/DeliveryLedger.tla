----------------------------- MODULE DeliveryLedger -----------------------------
(***************************************************************************)
(* Who is credited and who is charged for one message: its record in       *)
(* MessageDeliveries (src/src/score/message-deliveries.ts), the methods of *)
(* PeerScore that keep it and the calls of index.ts while copies are with  *)
(* a topic validator or with the application.                              *)
(*                                                                         *)
(* The entry of seenCache is made when a first copy is taken, the record   *)
(* when PeerScore is first told, and both live for two minutes.  The one   *)
(* is dropped by heartbeats and the other by PeerScore's background run,   *)
(* so either may outlive the other; a message the router publishes has no  *)
(* record before its first duplicate.  What a credit or a charge does to   *)
(* the stats is the business of PeerScore.                                 *)
(***************************************************************************)
EXTENDS Integers

CONSTANTS
  Senders,
  Asynchronous,   \* values opts.asyncValidation may have
  MaxRepeats      \* bound: duplicates a peer sends after the verdict

ASSUME LedgerAssumption == Asynchronous \subseteq BOOLEAN /\ MaxRepeats \in Nat

Verdicts == {"valid", "invalid", "ignored"}

VARIABLES
  asyncMode,   \* opts.asyncValidation
  seenEntry,   \* its seenCache entry: "none", "fresh", or "due" to be dropped
  cached,      \* mcache has the message
  atValidator, \* the peer whose copy a topic validator has
  atApp,       \* the peer whose copy the application has
  status,      \* drec.status, "none" without a record
  tracked,     \* drec.peers
  inWindow,    \* less than meshMessageDeliveriesWindow since drec.validated
  ofEntry,     \* the record was made since the seenCache entry was
  (* what PeerScore has made of it *)
  firsts,      \* peer -> its credits for the first delivery, since the seenCache entry was made
  repeats,     \* peer -> its credits for a duplicate, since the record was made
  charges,     \* peer -> its charges, since the record was made
  (* observations: what PeerScore was told, since the record was made *)
  judged,      \* the peer whose copy brought the verdict
  early,       \* peers that sent a duplicate before the verdict,
  timely,      \*   those whose first one after it came in the window,
  after,       \*   peer -> duplicates it sent after the verdict
  spared       \* a refusal met a record that had its verdict

flowVars == <<asyncMode, seenEntry, cached, atValidator, atApp>>
drecVars == <<status, tracked, inWindow, ofEntry>>
sums     == <<firsts, repeats, charges>>
heard    == <<judged, early, timely, after, spared>>
ledgerVars == <<flowVars, drecVars, sums, heard>>

Nobody == [q \in Senders |-> 0]

LedgerInit ==
  /\ asyncMode \in Asynchronous
  /\ seenEntry = "none" /\ cached = FALSE /\ atValidator = {} /\ atApp = {}
  /\ status = "none" /\ tracked = {} /\ inWindow = FALSE /\ ofEntry = FALSE
  /\ firsts = Nobody /\ repeats = Nobody /\ charges = Nobody
  /\ judged = {} /\ early = {} /\ timely = {} /\ after = Nobody /\ spared = FALSE

(* ------------------------------- PeerScore ------------------------------- *)

(* No verdict yet. *)
Open == status \in {"none", "unknown"}

(* ensureRecord *)
MadeHere == ofEntry' = (ofEntry \/ status = "none")

(* validateMessage *)
TellValidated ==
  /\ status' = IF status = "none" THEN "unknown" ELSE status
  /\ MadeHere
  /\ UNCHANGED <<tracked, inWindow, sums>>

Reward(p) == repeats' = [q \in Senders |-> IF q \in tracked \ {p} THEN repeats[q] + 1 ELSE repeats[q]]

(* deliverMessage, so many times in a row: the first delivery is credited  *)
(* each time, the others if no verdict has been given.                     *)
TellDelivered(p, times) ==
  /\ IF Open
       THEN status' = "valid" /\ inWindow' = TRUE /\ Reward(p)
       ELSE UNCHANGED <<status, inWindow, repeats>>
  /\ MadeHere
  /\ firsts' = [firsts EXCEPT ![p] = @ + times]
  /\ UNCHANGED <<tracked, charges>>

(* Of a refused copy and of the duplicates tracked: a peer may be charged  *)
(* for both.                                                               *)
Blame(p) == charges' = [q \in Senders |->
  charges[q] + (IF q = p THEN 1 ELSE 0) + (IF q \in tracked THEN 1 ELSE 0)]

(* rejectMessage, with reason Reject or Ignore *)
TellRejected(p, verdict) ==
  /\ IF Open
       THEN /\ status' = verdict /\ tracked' = {}
            /\ IF verdict = "invalid" THEN Blame(p) ELSE UNCHANGED charges
       ELSE UNCHANGED <<status, tracked, charges>>
  /\ MadeHere
  /\ UNCHANGED <<inWindow, firsts, repeats>>

(* Mutant: a peer is tracked only while the verdict is out. *)
DuplicateUntrackedLater(p) ==
  /\ p \notin tracked
  /\ \/ Open /\ status' = "unknown" /\ tracked' = tracked \cup {p} /\ UNCHANGED <<repeats, charges>>
     \/ /\ status = "valid" /\ UNCHANGED <<status, tracked, charges>>
        /\ repeats' = [repeats EXCEPT ![p] = IF inWindow THEN @ + 1 ELSE @]
     \/ status = "invalid" /\ charges' = [charges EXCEPT ![p] = @ + 1] /\ UNCHANGED <<status, tracked, repeats>>
     \/ status = "ignored" /\ UNCHANGED <<status, tracked, repeats, charges>>

NewDuplicate(p) ==
  /\ p \notin tracked
  /\ \/ Open /\ status' = "unknown" /\ tracked' = tracked \cup {p} /\ UNCHANGED <<repeats, charges>>
     \/ /\ status = "valid" /\ tracked' = tracked \cup {p} /\ UNCHANGED <<status, charges>>
        /\ repeats' = [repeats EXCEPT ![p] = IF inWindow THEN @ + 1 ELSE @]
     \/ status = "invalid" /\ charges' = [charges EXCEPT ![p] = @ + 1] /\ UNCHANGED <<status, tracked, repeats>>
     \/ status = "ignored" /\ UNCHANGED <<status, tracked, repeats, charges>>

(* duplicateMessage *)
TellDuplicate(p) ==
  /\ NewDuplicate(p) \/ (p \in tracked /\ UNCHANGED <<status, tracked, repeats, charges>>)
  /\ MadeHere
  /\ UNCHANGED <<inWindow, firsts>>

(* The observations are made here and not by the methods: the first copy   *)
(* delivered or refused to a record brings the verdict.                    *)
NoteDelivered(p) ==
  /\ judged' = IF judged = {} THEN {p} ELSE judged
  /\ UNCHANGED <<early, timely, after, spared>>

NoteRejected(p) ==
  /\ judged' = IF judged = {} THEN {p} ELSE judged
  /\ spared' = (spared \/ judged # {})
  /\ UNCHANGED <<early, timely, after>>

NoteDuplicate(p) ==
  /\ IF judged = {}
       THEN early' = early \cup {p} /\ UNCHANGED <<timely, after>>
       ELSE /\ after[p] < MaxRepeats
            /\ after' = [after EXCEPT ![p] = @ + 1]
            /\ timely' = IF after[p] = 0 /\ inWindow THEN timely \cup {p} ELSE timely
            /\ UNCHANGED early
  /\ UNCHANGED <<judged, spared>>

(* -------------------------------- index.ts ------------------------------- *)

(* handleReceivedMessage of a valid copy; without asyncValidation it is    *)
(* delivered at once.  The application gets it if it has subscribed.       *)
TakeValid(p) ==
  /\ cached' = TRUE
  /\ IF asyncMode
       THEN TellValidated /\ UNCHANGED heard /\ (atApp' = atApp \cup {p} \/ UNCHANGED atApp)
       ELSE TellDelivered(p, 1) /\ NoteDelivered(p) /\ UNCHANGED atApp

FirstCopyValid(p) ==
  /\ seenEntry = "none" /\ seenEntry' = "fresh"
  /\ TakeValid(p)
  /\ UNCHANGED <<asyncMode, atValidator>>

FirstCopyValidated(p) ==
  /\ seenEntry = "none" /\ seenEntry' = "fresh"
  /\ atValidator' = {p}
  /\ UNCHANGED <<asyncMode, cached, atApp, drecVars, sums, heard>>

ValidatorApproves(p) ==
  /\ p \in atValidator /\ atValidator' = {}
  /\ TakeValid(p)
  /\ UNCHANGED <<asyncMode, seenEntry>>

ValidatorDenies(p, verdict) ==
  /\ p \in atValidator /\ atValidator' = {}
  /\ TellRejected(p, verdict) /\ NoteRejected(p)
  /\ UNCHANGED <<asyncMode, seenEntry, cached, atApp>>

SeenCopy(p) ==
  /\ seenEntry # "none"
  /\ TellDuplicate(p) /\ NoteDuplicate(p)
  /\ UNCHANGED flowVars

(* reportMessageValidationResult, without effect when the message has left *)
(* the cache: deliverMessage is called here and in forwardMessage.         *)
AppAccepts(p) ==
  /\ p \in atApp /\ atApp' = {}
  /\ IF cached THEN TellDelivered(p, 2) /\ NoteDelivered(p) ELSE UNCHANGED <<drecVars, sums, heard>>
  /\ UNCHANGED <<asyncMode, seenEntry, cached, atValidator>>

(* For the originating peers rejectMessage is called again, and finds the  *)
(* verdict given.                                                          *)
AppRefuses(p, verdict) ==
  /\ p \in atApp /\ atApp' = {}
  /\ cached' = FALSE
  /\ IF cached THEN TellRejected(p, verdict) /\ NoteRejected(p) ELSE UNCHANGED <<drecVars, sums, heard>>
  /\ UNCHANGED <<asyncMode, seenEntry, atValidator>>

(* publish tells PeerScore nothing. *)
PublishedByUs ==
  /\ seenEntry = "none" /\ seenEntry' = "fresh"
  /\ cached' = TRUE
  /\ UNCHANGED <<asyncMode, atValidator, atApp, drecVars, sums, heard>>

(* mcache.shift, some heartbeats after it was cached. *)
LeavesCache ==
  /\ cached /\ cached' = FALSE
  /\ UNCHANGED <<asyncMode, seenEntry, atValidator, atApp, drecVars, sums, heard>>

(* Two minutes pass; validators and application answer sooner. *)
SeenEntryDue ==
  /\ seenEntry = "fresh" /\ seenEntry' = "due"
  /\ ~cached /\ atValidator = {} /\ atApp = {}
  /\ UNCHANGED <<asyncMode, cached, atValidator, atApp, drecVars, sums, heard>>

(* seenCache.prune *)
SeenEntryDropped ==
  /\ seenEntry = "due" /\ seenEntry' = "none"
  /\ ofEntry' = FALSE /\ firsts' = Nobody
  /\ UNCHANGED <<asyncMode, cached, atValidator, atApp, status, tracked, inWindow, repeats, charges, heard>>

WindowEnds ==
  /\ inWindow /\ inWindow' = FALSE
  /\ UNCHANGED <<flowVars, status, tracked, ofEntry, sums, heard>>

(* gc, in the background run. *)
RecordDropped ==
  /\ status # "none" /\ (ofEntry => seenEntry = "due")
  /\ status' = "none" /\ tracked' = {} /\ inWindow' = FALSE /\ ofEntry' = FALSE
  /\ repeats' = Nobody /\ charges' = Nobody
  /\ judged' = {} /\ early' = {} /\ timely' = {} /\ after' = Nobody /\ spared' = FALSE
  /\ UNCHANGED <<flowVars, firsts>>

LedgerNext ==
  \/ \E p \in Senders :
       \/ FirstCopyValid(p) \/ FirstCopyValidated(p) \/ SeenCopy(p)
       \/ ValidatorApproves(p) \/ AppAccepts(p)
       \/ \E verdict \in {"invalid", "ignored"} : ValidatorDenies(p, verdict) \/ AppRefuses(p, verdict)
  \/ PublishedByUs \/ LeavesCache \/ SeenEntryDue \/ SeenEntryDropped \/ WindowEnds \/ RecordDropped

LedgerSpec == LedgerInit /\ [][LedgerNext]_ledgerVars

(* ------------------------------- properties ------------------------------ *)

LedgerTypeOK ==
  /\ asyncMode \in BOOLEAN /\ cached \in BOOLEAN /\ inWindow \in BOOLEAN /\ ofEntry \in BOOLEAN
  /\ seenEntry \in {"none", "fresh", "due"}
  /\ atValidator \subseteq Senders /\ atApp \subseteq Senders
  /\ status \in {"none", "unknown"} \cup Verdicts
  /\ tracked \subseteq Senders
  /\ firsts \in [Senders -> 0..2] /\ repeats \in [Senders -> 0..1]
  /\ charges \in [Senders -> 0..(MaxRepeats + 2)]
  /\ judged \subseteq Senders /\ early \subseteq Senders /\ timely \subseteq Senders /\ spared \in BOOLEAN
  /\ after \in [Senders -> 0..MaxRepeats]

(* What a peer is due by what it sent.  Of a valid message one duplicate   *)
(* is credited: one sent before the verdict, but not by the peer delivered *)
(* from, or else the first sent after it, if in the window.  Of an invalid *)
(* one the copy refused is charged, once what was sent before the verdict, *)
(* and each copy sent after it.                                            *)
RepeatsDue(p) == IF status = "valid" /\ p \in (early \ judged) \cup (timely \ early) THEN 1 ELSE 0
ChargesDue(p) ==
  IF status = "invalid"
  THEN (IF p \in judged THEN 1 ELSE 0) + (IF p \in early THEN 1 ELSE 0) + after[p]
  ELSE 0

(* The credits of the first delivery from the peers in S: deliverMessage   *)
(* is called twice with asyncValidation.                                   *)
FirstsOf(S) == [q \in Senders |-> IF q \in S THEN (IF asyncMode THEN 2 ELSE 1) ELSE 0]

(* A verdict reaches everyone who sent a copy, before or after it and in   *)
(* whatever order, exactly as often as it should: "deliveries during       *)
(* validation also count and are retroactively applied when validation     *)
(* succeeds" (peer-score-params.ts:103).  A peer is credited for one       *)
(* duplicate at most, and never for one it sent before it was the first:   *)
(* "a peer can't send us a message twice and get a double count if it is a *)
(* first delivery" (peer-score.ts:357).  It does get both when it sends    *)
(* the message again after the verdict.  How often a peer is charged is    *)
(* exact, and may be more than once.  Of each seenCache entry one peer is  *)
(* credited with the first delivery, if any is.  Only a refusal of a copy  *)
(* taken for new while the record of an earlier one lives on is without    *)
(* effect.                                                                 *)
VerdictReachesAll ==
  /\ \A p \in Senders : repeats[p] = RepeatsDue(p) /\ charges[p] = ChargesDue(p)
  /\ firsts \in {FirstsOf({})} \cup {FirstsOf({p}) : p \in Senders}
  /\ ofEntry /\ ~Open => firsts = FirstsOf(IF status = "valid" THEN judged ELSE {})
  /\ spared => ~ofEntry
===============================================================================
