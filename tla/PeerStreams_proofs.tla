--------------------------- MODULE PeerStreams_proofs ---------------------------
(***************************************************************************)
(* Proofs about PeerStreams: for any peers, restarts and reconnections, a  *)
(* peer is served or excepted, and stop leaves late streams only.          *)
(***************************************************************************)
EXTENDS RouterLife, FiniteSetTheorems, TLAPS

(* The types, with the size of opening said without cardinalities.         *)
Typed ==
  /\ LifeTypeOK
  /\ online \subseteq Peers /\ peers \subseteq Peers /\ inStream \subseteq peers
  /\ late \subseteq Peers /\ failed \subseteq Peers
  /\ era \in [Peers -> 0..MaxEras] /\ outStream \in [Peers -> 0..MaxEras]
  /\ readers \in [Peers -> 0..MaxReaders]
  /\ queue \in [Sessions -> Seq(Attempts)]
  /\ opening \in [Sessions -> SUBSET Attempts]
  /\ \A s \in Sessions : Len(queue[s]) <= MaxQueue /\ \A a, b \in opening[s] : a = b

(* What holds in the phases of start and stop: peers are those of the open *)
(* connections, streams are closed once and none is taken any more.        *)
Phases ==
  /\ \A p \in online : era[p] # 0
  /\ life # "stopped" => session \in Sessions
  /\ life \in {"started", "stopping"} => peers \subseteq online
  /\ life \in {"stopped", "starting"} => peers = {}
  /\ life \in {"closing", "stopped", "starting"} => inStream = {}

(* An outbound stream that is not late is of the peer's connection.        *)
StreamOfEra(p) ==
  outStream[p] # 0 =>
    \/ p \in late
    \/ p \in peers \cap online /\ outStream[p] = era[p] /\ life \in {"started", "stopping"}

Book == Phases /\ \A p \in Peers : StreamOfEra(p)

(* Each of PeersAreServed, for one peer. *)
Served(p) ==
  outStream[p] = era[p] \/ UnderWay(<<p, era[p]>>) \/ p \in failed \cup late

(* removePeer leaves neither peer nor streams, and disturbs no other.      *)
LEMMA RemovePeerStep ==
  ASSUME Typed, NEW p \in Peers, RemovePeer(p)
  PROVE  /\ peers' = peers \ {p} /\ inStream' = inStream \ {p}
         /\ readers' \in [Peers -> 0..MaxReaders]
         /\ outStream' = IF p \in peers THEN [outStream EXCEPT ![p] = 0] ELSE outStream
         /\ late' = IF p \in peers THEN late \ {p} ELSE late
<1>1. CASE p \in peers
  <2>1. \A q \in Peers : readers[q] \in 0..MaxReaders /\ (readers[q] < MaxReaders => readers[q] + 1 \in 0..MaxReaders)
    BY StreamAssumption DEF Typed
  <2>2. Closed({p})
    BY <1>1 DEF RemovePeer
  <2>3. readers' \in [Peers -> 0..MaxReaders]
    BY <2>1, <2>2 DEF Closed
  <2> QED BY <1>1, <2>3 DEF RemovePeer
<1>2. CASE p \notin peers
  BY <1>2 DEF RemovePeer, Typed
<1> QED BY <1>1, <1>2

(* The queue of the last start grows by the attempt for the connection.    *)
LEMMA AddPeerStep ==
  ASSUME Typed, Phases, Started, NEW p \in online, AddPeer(p)
  PROVE  /\ peers' = peers \cup {p}
         /\ queue' \in [Sessions -> Seq(Attempts)]
         /\ \A s \in Sessions : Len(queue'[s]) <= MaxQueue
         /\ \A s \in Sessions : \A i \in 1..Len(queue[s]) : i \in 1..Len(queue'[s]) /\ queue'[s][i] = queue[s][i]
         /\ \E s \in Sessions : \E i \in 1..Len(queue'[s]) : queue'[s][i] = <<p, era[p]>>
<1>1. session \in Sessions /\ p \in Peers /\ <<p, era[p]>> \in Attempts
  BY StreamAssumption DEF Typed, Phases, Started, Attempts
<1>2. queue' = [queue EXCEPT ![session] = Append(queue[session], <<p, era[p]>>)]
  BY DEF AddPeer
<1>3. queue[session] \in Seq(Attempts) /\ Len(queue[session]) < MaxQueue
  BY <1>1 DEF Typed, AddPeer
<1>4. /\ Append(queue[session], <<p, era[p]>>) \in Seq(Attempts)
      /\ Len(Append(queue[session], <<p, era[p]>>)) = Len(queue[session]) + 1
      /\ Append(queue[session], <<p, era[p]>>)[Len(queue[session]) + 1] = <<p, era[p]>>
      /\ \A i \in 1..Len(queue[session]) : Append(queue[session], <<p, era[p]>>)[i] = queue[session][i]
  BY <1>1, <1>3
<1>5. Len(queue[session]) \in Nat /\ MaxQueue \in Nat
  BY <1>3, StreamAssumption
<1>6. queue'[session] = Append(queue[session], <<p, era[p]>>) /\ \A s \in Sessions : s # session => queue'[s] = queue[s]
  BY <1>1, <1>2 DEF Typed
<1>7. queue' \in [Sessions -> Seq(Attempts)]
  BY <1>1, <1>2, <1>4 DEF Typed
<1>8. peers' = peers \cup {p}
  BY DEF AddPeer
<1>9. \A s \in Sessions : \A i \in 1..Len(queue[s]) : i \in 1..Len(queue'[s]) /\ queue'[s][i] = queue[s][i]
  <2> SUFFICES ASSUME NEW s \in Sessions, NEW i \in 1..Len(queue[s])
               PROVE  i \in 1..Len(queue'[s]) /\ queue'[s][i] = queue[s][i]
    OBVIOUS
  <2>1. CASE s # session
    BY <1>6, <2>1
  <2>2. CASE s = session
    BY <1>4, <1>5, <1>6, <2>2
  <2> QED
    BY <2>1, <2>2
<1>10. \A s \in Sessions : Len(queue'[s]) <= MaxQueue
  <2>1. Len(queue'[session]) = Len(queue[session]) + 1
    BY <1>4, <1>6
  <2>2. Len(queue[session]) + 1 <= MaxQueue
    BY <1>3, <1>5
  <2>3. \A s \in Sessions : s # session => Len(queue'[s]) <= MaxQueue
    BY <1>6 DEF Typed
  <2> QED BY <2>1, <2>2, <2>3
<1> QED BY <1>1, <1>4, <1>5, <1>6, <1>7, <1>8, <1>9, <1>10

(* An attempt that is taken off the queue is awaited or not needed.        *)
LEMMA AttemptStep ==
  ASSUME Typed, NEW s \in Sessions, AttemptBegins(s)
  PROVE  /\ queue' \in [Sessions -> Seq(Attempts)]
         /\ opening' \in [Sessions -> SUBSET Attempts]
         /\ \A t \in Sessions : Len(queue'[t]) <= MaxQueue /\ \A a, b \in opening'[t] : a = b
         /\ \A a : UnderWay(a) => \/ UnderWay(a)'
                                  \/ ~(Started /\ a[1] \in peers /\ outStream[a[1]] = 0)
<1>1. queue[s] \in Seq(Attempts) /\ queue[s] # << >> /\ Len(queue[s]) \in Nat
  BY DEF Typed, AttemptBegins
<1>2. /\ Head(queue[s]) \in Attempts /\ Tail(queue[s]) \in Seq(Attempts)
      /\ Head(queue[s]) = queue[s][1]
      /\ Len(Tail(queue[s])) = Len(queue[s]) - 1
      /\ \A i \in 1..Len(Tail(queue[s])) : Tail(queue[s])[i] = queue[s][i + 1]
  BY <1>1
<1>3. queue' = [queue EXCEPT ![s] = Tail(queue[s])]
  BY DEF AttemptBegins
<1>4. queue' \in [Sessions -> Seq(Attempts)] /\ queue'[s] = Tail(queue[s])
      /\ \A t \in Sessions : t # s => queue'[t] = queue[t]
  BY <1>2, <1>3 DEF Typed
<1>5. /\ opening[s] = {}
      /\ opening' \in [Sessions -> SUBSET Attempts]
      /\ \A t \in Sessions : t # s => opening'[t] = opening[t]
      /\ opening'[s] = IF Started /\ Head(queue[s])[1] \in peers /\ outStream[Head(queue[s])[1]] = 0
                       THEN {Head(queue[s])} ELSE {}
  BY <1>2 DEF AttemptBegins, Typed
<1>6. \A t \in Sessions : Len(queue'[t]) <= MaxQueue /\ \A a, b \in opening'[t] : a = b
  BY <1>1, <1>2, <1>4, <1>5, StreamAssumption DEF Typed
<1>7. ASSUME NEW a, UnderWay(a) PROVE UnderWay(a)' \/ ~(Started /\ a[1] \in peers /\ outStream[a[1]] = 0)
  <2>1. CASE \E t \in Sessions : a \in opening[t]
    BY <1>5, <2>1 DEF UnderWay
  <2>2. CASE \E t \in Sessions \ {s} : \E i \in 1..Len(queue[t]) : queue[t][i] = a
    BY <1>4, <2>2 DEF UnderWay
  <2>3. CASE \E i \in 1..Len(queue[s]) : queue[s][i] = a
    <3>1. PICK i \in 1..Len(queue[s]) : queue[s][i] = a
      BY <2>3
    <3>2. CASE i = 1
      BY <1>2, <1>5, <3>1, <3>2 DEF UnderWay
    <3>3. CASE i # 1
      <4>1. i - 1 \in 1..Len(queue'[s]) /\ queue'[s][i - 1] = a
        BY <1>1, <1>2, <1>4, <3>1, <3>3
      <4> QED BY <4>1 DEF UnderWay
    <3> QED BY <3>2, <3>3
  <2> QED BY <1>7, <2>1, <2>2, <2>3 DEF UnderWay
<1> QED BY <1>4, <1>5, <1>6, <1>7

(* Served is kept where nothing of the peer changes but its place in line. *)
LEMMA StillServed ==
  ASSUME NEW p \in Peers, Served(p), outStream'[p] = outStream[p], era'[p] = era[p],
         p \in failed => p \in failed', p \in late => p \in late',
         UnderWay(<<p, era[p]>>) => UnderWay(<<p, era[p]>>)'
  PROVE  Served(p)'
BY DEF Served

(* The queues and the attempts under way stay what they are.               *)
LEMMA SameUnderWay ==
  ASSUME UNCHANGED <<queue, opening>>
  PROVE  \A a : UnderWay(a)' <=> UnderWay(a)
BY DEF UnderWay

(* A longer queue keeps what is under way. *)
LEMMA MoreUnderWay ==
  ASSUME UNCHANGED opening,
         \A s \in Sessions : \A i \in 1..Len(queue[s]) : i \in 1..Len(queue'[s]) /\ queue'[s][i] = queue[s][i]
  PROVE  \A a : UnderWay(a) => UnderWay(a)'
BY DEF UnderWay

(* The invariant. *)
Inv == Typed /\ Book /\ PeersAreServed

(* The life of the router moves within its phases.                         *)
LEMMA LifeTyped ==
  ASSUME LifeTypeOK, NEW from \in Lives, NEW to \in Lives, Moves(from, to)
  PROVE  LifeTypeOK'
BY DEF LifeTypeOK, Moves

(* A peer is added and an attempt queued for its connection.               *)
LEMMA AddPeerKeeps ==
  ASSUME Inv, Started, NEW p \in online, AddPeer(p),
         UNCHANGED <<lifeVars, online, era, opening, outStream, late>>,
         readers' \in [Peers -> 0..MaxReaders],
         inStream' \subseteq inStream \cup {p}
  PROVE  Inv'
<1>1. p \in Peers /\ Typed /\ Phases
  BY DEF Inv, Typed, Book
<1>2. /\ peers' = peers \cup {p}
      /\ queue' \in [Sessions -> Seq(Attempts)]
      /\ \A s \in Sessions : Len(queue'[s]) <= MaxQueue
      /\ \A s \in Sessions : \A i \in 1..Len(queue[s]) : i \in 1..Len(queue'[s]) /\ queue'[s][i] = queue[s][i]
      /\ \E s \in Sessions : \E i \in 1..Len(queue'[s]) : queue'[s][i] = <<p, era[p]>>
  BY <1>1, AddPeerStep
<1>3. Typed'
  <2>1. failed' \subseteq failed
    BY DEF AddPeer
  <2> QED BY <1>1, <1>2, <2>1 DEF Typed, lifeVars, LifeTypeOK
<1>4. Book'
  BY <1>1, <1>2 DEF Inv, Book, Phases, StreamOfEra, lifeVars, Started
<1>5. UnderWay(<<p, era[p]>>)' /\ \A a : UnderWay(a) => UnderWay(a)'
  BY <1>2, MoreUnderWay DEF UnderWay
<1>6. ASSUME NEW q \in peers' \cap online' PROVE Served(q)'
  <2>1. CASE q = p
    BY <1>5, <2>1 DEF Served
  <2>2. CASE q # p
    <3>1. q \in peers \cap online /\ (q \in failed => q \in failed') /\ q \in Peers
      BY <1>1, <1>2, <1>6, <2>2 DEF AddPeer, Typed
    <3>2. Served(q)
      BY <3>1 DEF Inv, PeersAreServed, Served
    <3> QED BY <1>5, <3>1, <3>2, StillServed
  <2> QED BY <2>1, <2>2
<1>7. PeersAreServed'
  BY <1>6 DEF PeersAreServed, Served
<1> QED BY <1>3, <1>4, <1>7 DEF Inv
(* A peer is removed, which leaves no more than it had to others.          *)
LEMMA RemovalKeeps ==
  ASSUME Inv, NEW p \in Peers, UNCHANGED <<lifeVars, era, queue, opening>>,
         peers' = peers \ {p}, inStream' = inStream \ {p},
         readers' \in [Peers -> 0..MaxReaders],
         outStream' = IF p \in peers THEN [outStream EXCEPT ![p] = 0] ELSE outStream,
         late' = IF p \in peers THEN late \ {p} ELSE late,
         online' \in {online, online \ {p}},
         failed' \in {failed, failed \ {p}}
  PROVE  Inv'
<1>1. 0 \in 0..MaxEras
  BY StreamAssumption
<1>2. Typed'
  BY <1>1 DEF Inv, Typed, lifeVars, LifeTypeOK
<1>3. Book'
  BY DEF Inv, Typed, Book, Phases, StreamOfEra, lifeVars
<1>4. ASSUME Started, NEW q \in peers' \cap online' PROVE Served(q)'
  <2>1. q # p /\ q \in peers \cap online /\ q \in Peers
    BY <1>4 DEF Inv, Typed
  <2>2. Served(q)
    BY <1>4, <2>1 DEF Inv, PeersAreServed, Served
  <2>3. outStream'[q] = outStream[q] /\ era' = era /\ (q \in failed => q \in failed') /\ (q \in late => q \in late')
    BY <2>1 DEF Inv, Typed
  <2> QED BY <2>1, <2>2, <2>3, SameUnderWay, StillServed
<1>5. PeersAreServed'
  BY <1>4 DEF PeersAreServed, Served, Started, lifeVars
<1> QED BY <1>2, <1>3, <1>5 DEF Inv

(* The callbacks of the registrar. *)
LEMMA CallbacksKeep ==
  ASSUME Inv, NEW p \in Peers,
         \/ Connects(p) \/ PeerConnected(p) \/ PeerDisconnected(p) \/ IncomingStream(p)
         \/ ReadFails(p) \/ ClosedReadFails(p) \/ ClosedReadEnds(p)
  PROVE  Inv'
<1>1. CASE Connects(p)
  <2>1. /\ online' = online \cup {p} /\ p \notin online
        /\ era' = [era EXCEPT ![p] = era[p] + 1]
        /\ UNCHANGED <<lifeVars, peers, queue, opening, outStream, inStream, readers, late, failed>>
    BY <1>1 DEF Connects
  <2>2. era[p] + 1 \in 0..MaxEras /\ era[p] + 1 # 0
    BY <1>1, StreamAssumption DEF Connects, Inv, Typed
  <2>3. Typed'
    BY <2>1, <2>2 DEF Inv, Typed, lifeVars, LifeTypeOK
  <2>4. Book'
    BY <2>1, <2>2 DEF Inv, Typed, Book, Phases, StreamOfEra, lifeVars
  <2>5. ASSUME Started, NEW q \in peers' \cap online' PROVE Served(q)'
    <3>1. q # p /\ q \in peers \cap online /\ q \in Peers
      BY <2>1, <2>5 DEF Inv, Typed, Book, Phases, Started
    <3>2. Served(q) /\ era'[q] = era[q]
      BY <2>1, <2>5, <3>1 DEF Inv, Typed, PeersAreServed, Served
    <3> QED BY <2>1, <3>1, <3>2, SameUnderWay, StillServed
  <2>6. PeersAreServed'
    BY <2>1, <2>5 DEF PeersAreServed, Served, Started, lifeVars
  <2> QED BY <2>3, <2>4, <2>6 DEF Inv
<1>2. CASE PeerConnected(p)
  BY <1>2, AddPeerKeeps DEF PeerConnected, Inv, Typed
<1>3. CASE IncomingStream(p)
  <2>1. readers' \in [Peers -> 0..MaxReaders]
    BY <1>3, StreamAssumption DEF IncomingStream, Closed, Inv, Typed
  <2> QED BY <1>3, <2>1, AddPeerKeeps DEF IncomingStream
<1>4. CASE PeerDisconnected(p)
  <2>1. CASE Registered
    <3>1. RemovePeer(p) /\ Typed
      BY <1>4, <2>1 DEF PeerDisconnected, Inv
    <3> QED BY <1>4, <3>1, RemovePeerStep, RemovalKeeps DEF PeerDisconnected
  <2>2. CASE ~Registered
    <3>1. /\ online' = online \ {p} /\ failed' = failed \ {p}
          /\ UNCHANGED <<lifeVars, peers, era, queue, opening, outStream, inStream, readers, late>>
      BY <1>4, <2>2 DEF PeerDisconnected
    <3>2. life \notin {"starting", "started", "stopping"}
      BY <2>2 DEF Registered
    <3>3. Typed'
      BY <3>1 DEF Inv, Typed, lifeVars, LifeTypeOK
    <3>4. Book'
      BY <3>1, <3>2 DEF Inv, Book, Phases, StreamOfEra, lifeVars
    <3>5. PeersAreServed'
      BY <3>1, <3>2 DEF PeersAreServed, Started, lifeVars
    <3> QED BY <3>3, <3>4, <3>5 DEF Inv
  <2> QED BY <2>1, <2>2
<1>5. CASE ReadFails(p)
  <2>1. RemovePeer(p) /\ Typed
    BY <1>5 DEF ReadFails, Inv
  <2> QED BY <1>5, <2>1, RemovePeerStep, RemovalKeeps DEF ReadFails
<1>6. CASE ClosedReadFails(p)
  <2>1. readers' \in [Peers -> 0..MaxReaders]
    <3>1. /\ readers \in [Peers -> 0..MaxReaders]
          /\ readers[p] \in 0..MaxReaders /\ readers[p] - 1 \in 0..MaxReaders
      BY <1>6, StreamAssumption DEF ClosedReadFails, Inv, Typed
    <3>2. \/ readers' = [readers EXCEPT ![p] = readers[p]]
          \/ readers' = [readers EXCEPT ![p] = readers[p] - 1]
      BY <1>6 DEF ClosedReadFails
    <3> QED BY <3>1, <3>2
  <2>2. CASE p \in peers
    BY <1>6, <2>1, <2>2, RemovalKeeps DEF ClosedReadFails
  <2>3. CASE p \notin peers
    <3>1. p \notin inStream
      BY <2>3 DEF Inv, Typed
    <3>2. UNCHANGED <<lifeVars, online, era, peers, queue, opening, outStream, inStream, late, failed>>
      BY <1>6, <2>3 DEF ClosedReadFails
    <3>3. peers \ {p} = peers /\ inStream \ {p} = inStream
      BY <2>3, <3>1
    <3>4. /\ peers' = peers \ {p} /\ inStream' = inStream \ {p}
          /\ outStream' = IF p \in peers THEN [outStream EXCEPT ![p] = 0] ELSE outStream
          /\ late' = IF p \in peers THEN late \ {p} ELSE late
          /\ online' \in {online, online \ {p}} /\ failed' \in {failed, failed \ {p}}
      BY <2>3, <3>2, <3>3
    <3>5. UNCHANGED <<lifeVars, era, queue, opening>>
      BY <3>2
    <3> QED BY <2>1, <3>4, <3>5, RemovalKeeps
  <2> QED BY <2>2, <2>3
<1>7. CASE ClosedReadEnds(p)
  <2>1. readers' \in [Peers -> 0..MaxReaders]
    BY <1>7, StreamAssumption DEF ClosedReadEnds, Inv, Typed
  <2>2. UNCHANGED <<lifeVars, online, era, peers, queue, opening, outStream, inStream, late, failed>>
    BY <1>7 DEF ClosedReadEnds
  <2>3. Typed' /\ Book'
    BY <2>1, <2>2 DEF Inv, Typed, Book, Phases, StreamOfEra, lifeVars, LifeTypeOK
  <2>4. PeersAreServed'
    BY <2>2, SameUnderWay DEF Inv, PeersAreServed, Started, lifeVars
  <2> QED BY <2>3, <2>4 DEF Inv
<1> QED BY <1>1, <1>2, <1>3, <1>4, <1>5, <1>6, <1>7
(* The consumer of the queue. *)
LEMMA AttemptsKeep ==
  ASSUME Inv, NEW s \in Sessions, AttemptBegins(s) \/ StreamOpens(s) \/ StreamFails(s)
  PROVE  Inv'
<1>1. CASE AttemptBegins(s)
  <2>1. /\ queue' \in [Sessions -> Seq(Attempts)]
        /\ opening' \in [Sessions -> SUBSET Attempts]
        /\ \A t \in Sessions : Len(queue'[t]) <= MaxQueue /\ \A a, b \in opening'[t] : a = b
        /\ \A a : UnderWay(a) => UnderWay(a)' \/ ~(Started /\ a[1] \in peers /\ outStream[a[1]] = 0)
    BY <1>1, AttemptStep DEF Inv
  <2>2. UNCHANGED <<lifeVars, online, era, peers, outStream, inStream, readers, late, failed>>
    BY <1>1 DEF AttemptBegins
  <2>3. Typed' /\ Book'
    BY <2>1, <2>2 DEF Inv, Typed, Book, Phases, StreamOfEra, lifeVars, LifeTypeOK
  <2>4. ASSUME Started, NEW p \in peers \cap online PROVE Served(p)'
    <3>1. Served(p) /\ StreamOfEra(p) /\ p \in Peers
      BY <2>4 DEF Inv, Book, Typed, PeersAreServed, Served
    <3>2. CASE outStream[p] # 0
      BY <2>2, <3>1, <3>2 DEF StreamOfEra, Served
    <3>3. CASE outStream[p] = 0
      <4>1. <<p, era[p]>>[1] = p
        OBVIOUS
      <4>2. UnderWay(<<p, era[p]>>) => UnderWay(<<p, era[p]>>)'
        BY <2>1, <2>2, <2>4, <3>3, <4>1
      <4> QED BY <2>2, <3>1, <4>2, StillServed
    <3> QED BY <3>2, <3>3
  <2>5. PeersAreServed'
    BY <2>2, <2>4 DEF PeersAreServed, Served, Started, lifeVars
  <2> QED BY <2>3, <2>5 DEF Inv
<1>2. ASSUME NEW a \in opening[s], opening' = [opening EXCEPT ![s] = {}], UNCHANGED queue
      PROVE  /\ opening' \in [Sessions -> SUBSET Attempts]
             /\ \A t \in Sessions : \A x, y \in opening'[t] : x = y
             /\ \A x : UnderWay(x) => x = a \/ UnderWay(x)'
  <2>1. \A t \in Sessions : t # s => opening'[t] = opening[t]
    BY <1>2 DEF Inv, Typed
  <2>2. opening'[s] = {} /\ opening' \in [Sessions -> SUBSET Attempts] /\ \A x \in opening[s] : x = a
    BY <1>2 DEF Inv, Typed
  <2>3. \A t \in Sessions : \A x, y \in opening'[t] : x = y
    BY <2>1, <2>2 DEF Inv, Typed
  <2>4. ASSUME NEW x, UnderWay(x), x # a PROVE UnderWay(x)'
    BY <1>2, <2>1, <2>2, <2>4 DEF UnderWay
  <2> QED BY <2>2, <2>3, <2>4
<1>3. CASE StreamOpens(s)
  <2>1. PICK a \in opening[s] :
          /\ outStream' = [outStream EXCEPT ![a[1]] = a[2]]
          /\ late' = IF Started /\ a[1] \in peers /\ a[2] = era[a[1]] THEN late \ {a[1]} ELSE late \cup {a[1]}
    BY <1>3 DEF StreamOpens
  <2>2. /\ opening' = [opening EXCEPT ![s] = {}]
        /\ UNCHANGED <<lifeVars, online, era, peers, queue, inStream, readers, failed>>
    BY <1>3 DEF StreamOpens
  <2>3. PICK p \in Peers, e \in 1..MaxEras : a = <<p, e>>
    BY DEF Inv, Typed, Attempts
  <2>4. /\ outStream' = [outStream EXCEPT ![p] = e]
        /\ late' = IF Started /\ p \in peers /\ e = era[p] THEN late \ {p} ELSE late \cup {p}
        /\ e \in 0..MaxEras
    BY <2>1, <2>3, StreamAssumption
  <2>5. /\ opening' \in [Sessions -> SUBSET Attempts]
        /\ \A t \in Sessions : \A x, y \in opening'[t] : x = y
        /\ \A x : UnderWay(x) => x = a \/ UnderWay(x)'
    BY <1>2, <2>2
  <2>6. Typed'
    BY <2>2, <2>4, <2>5 DEF Inv, Typed, lifeVars, LifeTypeOK
  <2>7. Book'
    BY <2>2, <2>4 DEF Inv, Typed, Book, Phases, StreamOfEra, lifeVars, Started
  <2>8. ASSUME Started, NEW q \in peers \cap online PROVE Served(q)'
    <3>1. Served(q) /\ q \in Peers
      BY <2>8 DEF Inv, Typed, PeersAreServed, Served
    <3>2. CASE q = p
      BY <2>2, <2>4, <2>8, <3>1, <3>2 DEF Served, Inv, Typed
    <3>3. CASE q # p
      <4>1. <<q, era[q]>> # a
        BY <2>3, <3>3
      <4>2. outStream'[q] = outStream[q] /\ (q \in late => q \in late')
        BY <2>4, <3>1, <3>3 DEF Inv, Typed
      <4> QED BY <2>2, <2>5, <3>1, <4>1, <4>2, StillServed
    <3> QED BY <3>2, <3>3
  <2>9. PeersAreServed'
    BY <2>2, <2>8 DEF PeersAreServed, Served, Started, lifeVars
  <2> QED BY <2>6, <2>7, <2>9 DEF Inv
<1>4. CASE StreamFails(s)
  <2>1. PICK a \in opening[s] : failed' = IF a[2] = era[a[1]] THEN failed \cup {a[1]} ELSE failed
    BY <1>4 DEF StreamFails
  <2>2. /\ opening' = [opening EXCEPT ![s] = {}]
        /\ UNCHANGED <<lifeVars, online, era, peers, queue, outStream, inStream, readers, late>>
    BY <1>4 DEF StreamFails
  <2>3. PICK p \in Peers, e \in 1..MaxEras : a = <<p, e>>
    BY DEF Inv, Typed, Attempts
  <2>4. failed' = IF e = era[p] THEN failed \cup {p} ELSE failed
    BY <2>1, <2>3
  <2>5. /\ opening' \in [Sessions -> SUBSET Attempts]
        /\ \A t \in Sessions : \A x, y \in opening'[t] : x = y
        /\ \A x : UnderWay(x) => x = a \/ UnderWay(x)'
    BY <1>2, <2>2
  <2>6. Typed' /\ Book'
    BY <2>2, <2>4, <2>5 DEF Inv, Typed, Book, Phases, StreamOfEra, lifeVars, LifeTypeOK
  <2>7. ASSUME Started, NEW q \in peers \cap online PROVE Served(q)'
    <3>1. Served(q) /\ q \in Peers
      BY <2>7 DEF Inv, Typed, PeersAreServed, Served
    <3>2. CASE <<q, era[q]>> = a
      BY <2>3, <2>4, <3>2 DEF Served
    <3>3. CASE <<q, era[q]>> # a
      BY <2>2, <2>4, <2>5, <3>1, <3>3, StillServed
    <3> QED BY <3>2, <3>3
  <2>8. PeersAreServed'
    BY <2>2, <2>7 DEF PeersAreServed, Served, Started, lifeVars
  <2> QED BY <2>6, <2>8 DEF Inv
<1> QED BY <1>1, <1>3, <1>4

(* start and stop. *)
LEMMA LifeKeeps ==
  ASSUME Inv, Starts \/ StopBegins \/ StopCloses \/ StopEnds
  PROVE  Inv'
<1>1. CASE Starts
  <2>1. /\ UNCHANGED <<online, era, peers, queue, opening, outStream, inStream, readers, late, failed>>
        /\ \/ life = "stopped" /\ life' = "starting" /\ session < MaxSessions /\ session' = session + 1
           \/ life = "starting" /\ life' = "started" /\ session' = session
    BY <1>1 DEF Starts, StartBegins, Moves
  <2>2. session' \in 0..MaxSessions /\ session' \in Sessions
    BY <2>1, SessionAssumption DEF Inv, Typed, Book, Phases, LifeTypeOK, Sessions
  <2>3. Typed'
    BY <2>1, <2>2 DEF Inv, Typed, LifeTypeOK, Lives
  <2>4. Book'
    BY <2>1, <2>2 DEF Inv, Book, Phases, StreamOfEra
  <2>5. PeersAreServed'
    BY <2>1 DEF Inv, Book, Phases, PeersAreServed
  <2> QED BY <2>3, <2>4, <2>5 DEF Inv
<1>2. CASE StopBegins
  <2>1. /\ life = "started" /\ life' = "stopping" /\ session' = session
        /\ UNCHANGED <<online, era, peers, queue, opening, outStream, inStream, readers, late, failed>>
    BY <1>2 DEF StopBegins, Moves
  <2>2. Typed' /\ Book' /\ PeersAreServed'
    BY <2>1 DEF Inv, Typed, LifeTypeOK, Lives, Book, Phases, StreamOfEra, PeersAreServed, Started
  <2> QED BY <2>2 DEF Inv
<1>3. CASE StopCloses
  <2>1. /\ life = "stopping" /\ life' = "closing" /\ session' = session
        /\ outStream' = [p \in Peers |-> 0] /\ inStream' = {} /\ late' = {}
        /\ UNCHANGED <<online, era, peers, queue, opening, failed>>
    BY <1>3 DEF StopCloses, Moves
  <2>2. readers' \in [Peers -> 0..MaxReaders]
    BY <1>3, StreamAssumption DEF StopCloses, Closed, Inv, Typed
  <2>3. Typed'
    BY <2>1, <2>2, StreamAssumption DEF Inv, Typed, LifeTypeOK, Lives
  <2>4. Book' /\ PeersAreServed'
    BY <2>1 DEF Inv, Book, Phases, StreamOfEra, PeersAreServed, Started
  <2> QED BY <2>3, <2>4 DEF Inv
<1>4. CASE StopEnds
  <2>1. /\ life = "closing" /\ life' = "stopped" /\ session' = session
        /\ peers' = {} /\ failed' = {}
        /\ UNCHANGED <<online, era, queue, opening, outStream, inStream, readers, late>>
    BY <1>4 DEF StopEnds, Moves
  <2>2. Typed' /\ Book' /\ PeersAreServed'
    BY <2>1 DEF Inv, Typed, LifeTypeOK, Lives, Book, Phases, StreamOfEra, PeersAreServed, Started
  <2> QED BY <2>2 DEF Inv
<1> QED BY <1>1, <1>2, <1>3, <1>4

(* The invariant holds throughout. *)
LEMMA InvHolds == StreamsSpec => []Inv
<1>1. StreamsInit => Inv
  <2> SUFFICES ASSUME StreamsInit PROVE Inv
    OBVIOUS
  <2>1. << >> \in Seq(Attempts) /\ Len(<< >>) = 0
    OBVIOUS
  <2>2. Typed
    BY <2>1, StreamAssumption, SessionAssumption DEF StreamsInit, LifeInit, Typed, LifeTypeOK, Lives
  <2>3. Book /\ PeersAreServed
    BY DEF StreamsInit, LifeInit, Book, Phases, StreamOfEra, PeersAreServed, Started
  <2> QED BY <2>2, <2>3 DEF Inv
<1>2. Inv /\ [StreamsNext]_streamVars => Inv'
  <2> SUFFICES ASSUME Inv, [StreamsNext]_streamVars PROVE Inv'
    OBVIOUS
  <2>1. CASE UNCHANGED streamVars
    <3>1. Typed' /\ Book'
      BY <2>1 DEF streamVars, lifeVars, Inv, Typed, Book, Phases, StreamOfEra, LifeTypeOK
    <3>2. PeersAreServed'
      BY <2>1, SameUnderWay DEF streamVars, lifeVars, Inv, PeersAreServed, Started
    <3> QED BY <3>1, <3>2 DEF Inv
  <2> QED BY <2>1, CallbacksKeep, AttemptsKeep, LifeKeeps DEF StreamsNext
<1> QED BY <1>1, <1>2, PTL DEF StreamsSpec

(* For any peers, bounds and numbers of restarts: a connected peer of a    *)
(* started router has a stream of its connection, an attempt to come, a    *)
(* failed attempt or a late stream.                                        *)
THEOREM EveryPeerServed == StreamsSpec => []PeersAreServed
<1>1. Inv => PeersAreServed
  BY DEF Inv
<1> QED BY <1>1, InvHolds, PTL

(* For any peers: a stopped router has no peer, no inbound stream and only *)
(* outbound streams that came too late.                                    *)
THEOREM NothingLeft == StreamsSpec => []StoppedIsEmpty
<1>1. Inv => StoppedIsEmpty
  BY DEF Inv, Book, Phases, StreamOfEra, StoppedIsEmpty, Typed
<1> QED BY <1>1, InvHolds, PTL

(* --------------------------- the heartbeat loop -------------------------- *)

(* Every start begins one loop, when it is over.                           *)
LoopsCounted ==
  /\ LifeTypeOK /\ orphans \in Nat /\ running \in Nat
  /\ armed => Started
  /\ Loops <= IF life = "starting" THEN session - 1 ELSE session

LEMMA LoopsTyped == LoopsCounted /\ armed \in BOOLEAN => LoopsTypeOK
BY Zenon DEF LoopsCounted, LoopsTypeOK

LEMMA ArmedStep ==
  ASSUME armed \in BOOLEAN, [LoopsNext]_loopVars
  PROVE  armed' \in BOOLEAN
<1>1. armed' = armed \/ armed' = TRUE \/ armed' = FALSE \/ armed' = (armed \/ Started)
  BY Zenon DEF LoopsNext, StartsLoop, StopsLoop, TimerFires, OrphanFires, HeartbeatEnds, loopVars
<1> QED
  BY <1>1, Zenon

LEMMA CountStep ==
  ASSUME LoopsCounted, [LoopsNext]_loopVars
  PROVE  LoopsCounted'
<1> USE SessionAssumption DEF LoopsCounted, LifeTypeOK, Lives, Loops, Started
<1>1. CASE StartsLoop
  <2>1. CASE StartBegins /\ UNCHANGED armed
    BY <1>1, <2>1 DEF StartsLoop, StartBegins
  <2>2. CASE Moves("starting", "started") /\ armed'
    BY <1>1, <2>2 DEF StartsLoop, Moves
  <2> QED
    BY <1>1, <2>1, <2>2 DEF StartsLoop
<1>2. CASE StopsLoop
  <2>1. CASE Moves("started", "stopping")
    BY <1>2, <2>1 DEF StopsLoop, Moves
  <2>2. CASE Moves("stopping", "closing") \/ Moves("closing", "stopped")
    BY <1>2, <2>2 DEF StopsLoop, Moves
  <2> QED
    BY <1>2, <2>1, <2>2 DEF StopsLoop
<1>3. CASE TimerFires
  BY <1>3 DEF TimerFires, lifeVars
<1>4. CASE OrphanFires
  BY <1>4 DEF OrphanFires, lifeVars
<1>5. CASE HeartbeatEnds
  <2>1. /\ running > 0 /\ running' = running - 1 /\ orphans' = orphans
        /\ life' = life /\ session' = session
    BY <1>5 DEF HeartbeatEnds, lifeVars
  <2>2. armed' <=> Started
    BY <1>5 DEF HeartbeatEnds
  <2> QED
    BY <2>1, <2>2
<1>6. CASE UNCHANGED loopVars
  BY <1>6 DEF loopVars, lifeVars
<1> QED
  BY <1>1, <1>2, <1>3, <1>4, <1>5, <1>6 DEF LoopsNext

LEMMA LoopsSafe == LoopsSpec => [](LoopsCounted /\ armed \in BOOLEAN)
<1>1. LoopsInit => LoopsCounted
  BY SessionAssumption DEF LoopsInit, LifeInit, LoopsCounted, LifeTypeOK, Lives, Loops
<1>2. LoopsInit => armed \in BOOLEAN
  BY Zenon DEF LoopsInit
<1>3. LoopsCounted /\ armed \in BOOLEAN /\ [LoopsNext]_loopVars => (LoopsCounted /\ armed \in BOOLEAN)'
  <2> SUFFICES ASSUME LoopsCounted, armed \in BOOLEAN, [LoopsNext]_loopVars
               PROVE  LoopsCounted' /\ armed' \in BOOLEAN
    OBVIOUS
  <2>1. LoopsCounted'
    BY CountStep
  <2>2. armed' \in BOOLEAN
    BY ArmedStep
  <2> QED
    BY <2>1, <2>2
<1> QED
  BY <1>1, <1>2, <1>3, PTL DEF LoopsSpec

(* Timers and heartbeats that stop leaves behind do not multiply: there    *)
(* are never more of them than there were starts, however many restarts.   *)
THEOREM LoopsPerStart == LoopsSpec => [](Loops <= session)
<1>1. LoopsCounted => Loops <= session
  BY DEF LoopsCounted, LifeTypeOK, Loops
<1> QED
  BY <1>1, LoopsSafe, PTL

(* For any peers, queues and restarts: streams, queues and timers keep     *)
(* their types; timers are armed for a started router only.                *)
THEOREM TypeCorrect == RouterSpec => []TypeOK
<1>1. Inv => StreamsTypeOK
  <2> SUFFICES ASSUME Typed PROVE StreamsTypeOK
    BY DEF Inv
  <2>1. ASSUME NEW s \in Sessions PROVE Cardinality(opening[s]) <= 1
    <3>1. CASE opening[s] = {}
      BY <3>1, FS_EmptySet
    <3>2. CASE opening[s] # {}
      <4>1. PICK a : a \in opening[s]
        BY <3>2
      <4>2. \A b \in opening[s] : b = a
        BY <4>1 DEF Typed
      <4>3. opening[s] = {a}
        BY <4>1, <4>2
      <4>4. Cardinality({a}) = 1
        BY FS_Singleton
      <4> QED
        BY <4>3, <4>4
    <3> QED
      BY <3>1, <3>2
  <2> QED
    BY <2>1 DEF Typed, StreamsTypeOK
<1>2. LoopsCounted /\ armed \in BOOLEAN => LoopsTypeOK
  BY LoopsTyped
<1>3. StreamsTypeOK /\ LoopsTypeOK => TypeOK
  BY DEF TypeOK
<1> QED
  BY <1>1, <1>2, <1>3, InvHolds, LoopsSafe, PTL DEF RouterSpec
=================================================================================
