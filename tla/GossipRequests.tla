----------------------------- MODULE GossipRequests -----------------------------
(***************************************************************************)
(* The asking side of the gossip exchange: IHAVEs are answered by IWANTs   *)
(* within limits that every heartbeat resets, class IWantTracer            *)
(* (src/src/tracer.ts) notes one id of every IWANT as a promise, copies    *)
(* that arrive settle promises, and heartbeats charge the broken ones.     *)
(*                                                                         *)
(* Time passes in ticks of one heartbeat interval.  left is the time until *)
(* a promise expires (expire - now), floored at -1, where it is broken.    *)
(* The score of a peer is an input: below gossipThreshold an IHAVE changes *)
(* nothing, which is a stuttering step.                                    *)
(***************************************************************************)
EXTENDS GossipBase

CONSTANTS
  MaxIHaveMessages,   \* IHAVEs taken from a peer in a heartbeat
  MaxIHaveLength,     \* ids asked of a peer in a heartbeat
  Followup            \* gossipsubIWantFollowupMs

ASSUME LimitAssumption ==
  /\ MaxIHaveMessages \in Nat /\ MaxIHaveLength \in Nat
  /\ Followup \in Nat

VARIABLES
  seen,         \* ids in seenCache
  validating,   \* ids of copies whose topic validator is awaited
  peerhave,     \* IHAVEs a peer has sent, counted up to one over the limit
  iasked,       \* ids asked of a peer
  replying,     \* ids of an IWANT that handleControlMessage has yet to send
  promises,     \* (peer, id) pairs the tracer tracks
  left,         \* peer -> id -> time left of the promise, -1 without one
  (* observations, no part of the program's state *)
  asked,        \* ids in the IWANTs a peer was sent since the last heartbeat
  carried,      \* ids of a peer's IWANT that was unsent at that heartbeat
  owing,        \* pairs asked for, of which no copy was handled since
  age,          \* peer -> id -> ticks since then
  charged       \* pairs the last heartbeat charged

copies   == <<seen, validating>>
counters == <<peerhave, iasked, replying>>
tracer   == <<promises, left>>
ledger   == <<owing, age, charged>>
requestVars == <<copies, counters, tracer, asked, carried, ledger>>

Pairs == Peers \X Msgs
Zero == [p \in Peers |-> [m \in Msgs |-> 0]]

RequestsInit ==
  /\ seen = {} /\ validating = {}
  /\ peerhave = [p \in Peers |-> 0]
  /\ iasked = [p \in Peers |-> 0]
  /\ replying = [p \in Peers |-> {}]
  /\ promises = {}
  /\ left = [p \in Peers |-> [m \in Msgs |-> -1]]
  /\ asked = [p \in Peers |-> 0]
  /\ carried = [p \in Peers |-> 0]
  /\ owing = {} /\ age = Zero /\ charged = {}

(* ------------------------------- IHAVE, IWANT --------------------------- *)

(* Mutant: a promise made again starts anew. *)
AddPromiseAnew(p, m) ==
  /\ promises' = promises \cup {<<p, m>>}
  /\ left' = [left EXCEPT ![p][m] = Followup]

(* addPromise, once it has picked one id: a promise that exists keeps its  *)
(* expiry.                                                                 *)
AddPromise(p, m) ==
  /\ promises' = promises \cup {<<p, m>>}
  /\ left' = [left EXCEPT ![p][m] = IF <<p, m>> \in promises THEN @ ELSE Followup]

(* The end of handleControlMessage: the IWANT is sent and one id tracked,  *)
(* or sendRpc fails and no promise is expected.                            *)
SendIWant(p, ids) ==
  \/ UNCHANGED <<tracer, asked, owing, age>>
  \/ /\ asked' = [asked EXCEPT ![p] = @ + Cardinality(ids)]
     /\ \E m \in ids :
          /\ AddPromise(p, m)
          /\ owing' = owing \cup {<<p, m>>}
     /\ UNCHANGED age

(* Mutant: more than the rest of the allowance may be asked for. *)
IWantUncut(p, ids) == {ids \ seen}

(* The random selections handleIHave may ask for: all ids not seen, or as  *)
(* many as are left of the allowance.                                      *)
IWant(p, ids) ==
  LET unseen == ids \ seen
      rest == MaxIHaveLength - iasked[p]
  IN  {a \in SUBSET unseen :
         Cardinality(a) = IF Cardinality(unseen) < rest THEN Cardinality(unseen) ELSE rest}

(* The counter is kept up to the first value over the limit. *)
CountIHave(p) ==
  peerhave' = [peerhave EXCEPT ![p] = IF @ > MaxIHaveMessages THEN @ ELSE @ + 1]

(* An IHAVE nothing is asked for, because of the limits or because all is  *)
(* seen: only the counter changes.                                         *)
IHaveIgnored(p, ids) ==
  /\ peerhave[p] >= MaxIHaveMessages \/ iasked[p] >= MaxIHaveLength \/ ids \subseteq seen
  /\ CountIHave(p)
  /\ UNCHANGED <<copies, iasked, replying, tracer, asked, carried, ledger>>

Askable(p, ids) ==
  /\ peerhave[p] < MaxIHaveMessages
  /\ iasked[p] < MaxIHaveLength
  /\ ~(ids \subseteq seen)

(* The RPC carries an IHAVE and no GRAFT or PRUNE: nothing is awaited      *)
(* before the IWANT is sent.                                               *)
IHaveAsks(p, ids) ==
  /\ Askable(p, ids)
  /\ CountIHave(p)
  /\ \E iwant \in IWant(p, ids) :
       /\ iasked' = [iasked EXCEPT ![p] = @ + Cardinality(iwant)]
       /\ SendIWant(p, iwant)
  /\ UNCHANGED <<copies, replying, carried, charged>>

(* handleGraft and handlePrune are awaited in between.  Bound: one such    *)
(* RPC of a peer at a time.                                                *)
IHaveWaits(p, ids) ==
  /\ Askable(p, ids)
  /\ replying[p] = {}
  /\ CountIHave(p)
  /\ \E iwant \in IWant(p, ids) :
       /\ iasked' = [iasked EXCEPT ![p] = @ + Cardinality(iwant)]
       /\ replying' = [replying EXCEPT ![p] = iwant]
  /\ UNCHANGED <<copies, tracer, asked, carried, ledger>>

IWantGoesOut(p) ==
  /\ replying[p] # {}
  /\ replying' = [replying EXCEPT ![p] = {}]
  /\ SendIWant(p, replying[p])
  /\ UNCHANGED <<copies, peerhave, iasked, carried, charged>>

(* handleGraft or handlePrune rejects: the IWANT is never sent. *)
IWantIsLost(p) ==
  /\ replying[p] # {}
  /\ replying' = [replying EXCEPT ![p] = {}]
  /\ UNCHANGED <<copies, peerhave, iasked, tracer, asked, carried, ledger>>

(* --------------------------------- copies ------------------------------- *)

(* Observation: a copy of the message was handled. *)
Forgive(m) ==
  /\ owing' = owing \ (Peers \X {m})
  /\ age' = [p \in Peers |-> [age[p] EXCEPT ![m] = 0]]

(* deliverMessage and rejectMessage, for any reason but Error, settle what *)
(* any peer has promised of the message.                                   *)
Settle(m) ==
  /\ promises' = promises \ (Peers \X {m})
  /\ left' = [p \in Peers |-> [left[p] EXCEPT ![m] = -1]]
  /\ Forgive(m)
  /\ UNCHANGED charged

(* A copy from whomever, at any time, is checked first; nothing of this    *)
(* state is read before that is done, and a copy invalid for reason Error  *)
(* settles nothing.                                                        *)

(* Mutant: a duplicate settles nothing. *)
DuplicateIgnored(m) ==
  /\ m \in seen
  /\ Forgive(m)
  /\ UNCHANGED <<seen, validating, counters, tracer, asked, carried, charged>>

Duplicate(m) ==
  /\ m \in seen
  /\ Settle(m)
  /\ UNCHANGED <<seen, validating, counters, asked, carried>>

FirstCopy(m) ==
  /\ m \notin seen
  /\ seen' = seen \cup {m}
  /\ Settle(m)
  /\ UNCHANGED <<validating, counters, asked, carried>>

(* With a topic validator the message is seen before it is delivered.      *)
(* Bound: one validation of a message at a time, also after a restart.     *)
FirstCopyToValidator(m) ==
  /\ m \notin seen \cup validating
  /\ seen' = seen \cup {m}
  /\ validating' = validating \cup {m}
  /\ UNCHANGED <<counters, tracer, asked, carried, ledger>>

(* Accepted, rejected or ignored. *)
ValidatorDecides(m) ==
  /\ m \in validating
  /\ validating' = validating \ {m}
  /\ Settle(m)
  /\ UNCHANGED <<seen, counters, asked, carried>>

PublishOwn(m) ==
  /\ m \notin seen
  /\ seen' = seen \cup {m}
  /\ Settle(m)
  /\ UNCHANGED <<validating, counters, asked, carried>>

(* ------------------------------- heartbeat ------------------------------ *)

Broken == {pm \in promises : left[pm[1]][pm[2]] < 0}

(* The counters are cleared, broken promises are charged and no longer     *)
(* tracked, expired entries leave seenCache.  Bound: no entry expires      *)
(* while its validator runs.                                               *)
HeartbeatCharges ==
  /\ peerhave' = [p \in Peers |-> 0]
  /\ iasked' = [p \in Peers |-> 0]
  /\ charged' = Broken
  /\ promises' = promises \ Broken
  /\ seen' \in SUBSET seen /\ seen \cap validating \subseteq seen'
  /\ asked' = [p \in Peers |-> 0]
  /\ carried' = [p \in Peers |-> Cardinality(replying[p])]
  /\ owing' = owing \ Broken
  /\ age' = [p \in Peers |-> [m \in Msgs |-> IF <<p, m>> \in Broken THEN 0 ELSE age[p][m]]]
  /\ UNCHANGED <<validating, replying, left>>

(* stop clears the counters, the promises and seenCache; handlers that are *)
(* suspended go on, after a restart with the new state.                    *)
RestartRequests ==
  /\ peerhave' = [p \in Peers |-> 0]
  /\ iasked' = [p \in Peers |-> 0]
  /\ promises' = {}
  /\ left' = [p \in Peers |-> [m \in Msgs |-> -1]]
  /\ seen' = {}
  /\ asked' = [p \in Peers |-> 0]
  /\ carried' = [p \in Peers |-> Cardinality(replying[p])]
  /\ owing' = {} /\ age' = Zero /\ charged' = {}
  /\ UNCHANGED <<validating, replying>>

(* One tick of the clock. *)
TickRequests ==
  /\ left' = [p \in Peers |-> [m \in Msgs |-> IF left[p][m] < 0 THEN -1 ELSE left[p][m] - 1]]
  /\ age' = [p \in Peers |-> [m \in Msgs |->
               IF <<p, m>> \in owing /\ age[p][m] <= Followup THEN age[p][m] + 1 ELSE age[p][m]]]
  /\ UNCHANGED <<copies, counters, promises, asked, carried, owing, charged>>

RequestsNext ==
  \/ \E p \in Peers, ids \in SUBSET Msgs : IHaveIgnored(p, ids) \/ IHaveAsks(p, ids) \/ IHaveWaits(p, ids)
  \/ \E p \in Peers : IWantGoesOut(p) \/ IWantIsLost(p)
  \/ \E m \in Msgs :
       \/ Duplicate(m)
       \/ FirstCopy(m)
       \/ FirstCopyToValidator(m)
       \/ ValidatorDecides(m)
       \/ PublishOwn(m)
  \/ HeartbeatCharges
  \/ RestartRequests
  \/ TickRequests

RequestsSpec == RequestsInit /\ [][RequestsNext]_requestVars

(* ------------------------------ properties ------------------------------ *)

RequestsTypeOK ==
  /\ seen \subseteq Msgs /\ validating \subseteq Msgs
  /\ peerhave \in [Peers -> 0..(MaxIHaveMessages + 1)]
  /\ iasked \in [Peers -> 0..MaxIHaveLength]
  /\ replying \in [Peers -> SUBSET Msgs]
  /\ promises \subseteq Pairs
  /\ left \in [Peers -> [Msgs -> -1..Followup]]
  /\ asked \in [Peers -> Nat] /\ carried \in [Peers -> Nat]
  /\ owing \subseteq Pairs /\ charged \subseteq Pairs
  /\ age \in [Peers -> [Msgs -> 0..(Followup + 1)]]

(* "If the message is not received within this window, a broken promise is *)
(* declared" (constants.ts): a heartbeat charges exactly the tracked       *)
(* requests older than the window of which no copy was handled since,      *)
(* whoever delivered it, and in whatever order copies, repeated IHAVEs,    *)
(* verdicts and the clock come.                                            *)
Overdue == {pm \in owing : age[pm[1]][pm[2]] > Followup}
PenaltiesAreDue == [][HeartbeatCharges => charged' = Overdue]_requestVars

(* GossipsubMaxIHaveLength "controls the maximum number of IHAVE ids we    *)
(* will accept and request with IWANT from a peer within a heartbeat": no  *)
(* more are requested, but for an IWANT that was suspended at the last     *)
(* heartbeat, which the reset of the counter forgets.                      *)
AskedWithinLimit == \A p \in Peers : asked[p] <= MaxIHaveLength + carried[p]

(* The heartbeat is always run again, and time passes. *)
RequestsFair == WF_requestVars(HeartbeatCharges) /\ WF_requestVars(TickRequests)

(* No promise is tracked for ever, whatever IHAVEs the peer goes on to     *)
(* send: it is settled, charged or cleared.                                *)
PromisesEnd == \A p \in Peers, m \in Msgs : <<p, m>> \in promises ~> <<p, m>> \notin promises
===============================================================================
