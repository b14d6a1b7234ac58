------------------------------ MODULE PeerStreams ------------------------------
(***************************************************************************)
(* The peers of the router and their streams (src/src/index.ts), from the  *)
(* callbacks of the registrar to stop.  Attempts to open outbound streams  *)
(* go through outboundInflightQueue, which start makes anew and one        *)
(* consumer per start empties, one attempt at a time; stop ends the queue, *)
(* but what is in it is still consumed.                                    *)
(*                                                                         *)
(* An era of a peer lasts from the registrar's connect to its disconnect.  *)
(* Whether newStream succeeds, and how a read stream ends, is an input.    *)
(***************************************************************************)
EXTENDS Lifecycle, FiniteSets

CONSTANTS
  Peers,
  MaxEras,     \* bound: connections of a peer, one after the other
  MaxQueue,    \* bound: attempts in a queue
  MaxReaders   \* bound: closed read streams of a peer that have not ended

ASSUME StreamAssumption ==
  MaxEras \in Nat /\ MaxQueue \in Nat /\ MaxReaders \in Nat

VARIABLES
  online,      \* peers with an open connection
  era,         \* peer -> its current or last era
  peers,       \* keys of peers
  queue,       \* session -> attempts <<peer, era>> to be made
  opening,     \* session -> at most one attempt, for which newStream is awaited
  outStream,   \* peer -> era of the connection of its outbound stream, 0 without one
  inStream,    \* keys of streamsInbound
  readers,     \* peer -> streams that were closed or replaced while being read
  (* observations *)
  late,        \* peers with an outbound stream that came when they were not in that era
  failed       \* peers whose last attempt in their era failed

streamVars ==
  <<lifeVars, online, era, peers, queue, opening, outStream, inStream, readers, late, failed>>

Sessions == 1..MaxSessions
Attempts == Peers \X (1..MaxEras)

StreamsInit ==
  /\ LifeInit
  /\ online = {} /\ peers = {}
  /\ era = [p \in Peers |-> 0]
  /\ queue = [s \in Sessions |-> << >>]
  /\ opening = [s \in Sessions |-> {}]
  /\ outStream = [p \in Peers |-> 0]
  /\ inStream = {}
  /\ readers = [p \in Peers |-> 0]
  /\ late = {} /\ failed = {}

(* ------------------------------- callbacks ------------------------------ *)

(* Streams that are closed while being read may still end with an error.   *)
Closed(ps) ==
  readers' = [p \in Peers |->
    IF p \in ps \cap inStream /\ readers[p] < MaxReaders THEN readers[p] + 1 ELSE readers[p]]

(* Mutant: the outbound stream stays. *)
RemovePeerKeepsStream(p) ==
  IF p \in peers
  THEN /\ peers' = peers \ {p}
       /\ Closed({p})
       /\ inStream' = inStream \ {p}
       /\ UNCHANGED <<outStream, late>>
  ELSE UNCHANGED <<peers, outStream, inStream, readers, late>>

RemovePeer(p) ==
  IF p \in peers
  THEN /\ peers' = peers \ {p}
       /\ outStream' = [outStream EXCEPT ![p] = 0]
       /\ Closed({p})
       /\ inStream' = inStream \ {p}
       /\ late' = late \ {p}
  ELSE UNCHANGED <<peers, outStream, inStream, readers, late>>

(* addPeer, and an attempt to open a stream. *)
AddPeer(p) ==
  /\ peers' = peers \cup {p}
  /\ Len(queue[session]) < MaxQueue
  /\ queue' = [queue EXCEPT ![session] = Append(@, <<p, era[p]>>)]
  /\ failed' = failed \ {p}

Connects(p) ==
  /\ p \notin online /\ era[p] < MaxEras
  /\ online' = online \cup {p}
  /\ era' = [era EXCEPT ![p] = @ + 1]
  /\ UNCHANGED <<lifeVars, peers, queue, opening, outStream, inStream, readers, late, failed>>

(* The registrar tells of a connection, which may be an old one.           *)
PeerConnected(p) ==
  /\ p \in online /\ Started
  /\ AddPeer(p)
  /\ UNCHANGED <<lifeVars, online, era, opening, outStream, inStream, readers, late>>

(* Without a topology nobody is told. *)
PeerDisconnected(p) ==
  /\ p \in online
  /\ online' = online \ {p}
  /\ IF Registered THEN RemovePeer(p) ELSE UNCHANGED <<peers, outStream, inStream, readers, late>>
  /\ failed' = failed \ {p}
  /\ UNCHANGED <<lifeVars, era, queue, opening>>

(* Mutant: a stream is taken while the router stops. *)
IncomingStreamWhenStopping(p) ==
  /\ p \in online /\ life \in {"started", "stopping", "closing"}
  /\ AddPeer(p)
  /\ Closed({p})
  /\ inStream' = inStream \cup {p}
  /\ UNCHANGED <<lifeVars, online, era, opening, outStream, late>>

(* A stream the peer has open already is replaced. *)
IncomingStream(p) ==
  /\ p \in online /\ Started
  /\ AddPeer(p)
  /\ Closed({p})
  /\ inStream' = inStream \cup {p}
  /\ UNCHANGED <<lifeVars, online, era, opening, outStream, late>>

(* The read stream fails: the peer is removed though its connection may be *)
(* open.                                                                   *)
ReadFails(p) ==
  /\ p \in inStream
  /\ RemovePeer(p)
  /\ UNCHANGED <<lifeVars, online, era, queue, opening, failed>>

(* So it is when a stream fails that has been closed or replaced before,   *)
(* whatever the peer has by now.                                           *)
ClosedReadFails(p) ==
  /\ readers[p] > 0
  /\ IF p \in peers
     THEN /\ peers' = peers \ {p}
          /\ outStream' = [outStream EXCEPT ![p] = 0]
          /\ inStream' = inStream \ {p}
          /\ late' = late \ {p}
          /\ readers' = [readers EXCEPT ![p] = IF p \in inStream THEN @ ELSE @ - 1]
     ELSE /\ readers' = [readers EXCEPT ![p] = @ - 1]
          /\ UNCHANGED <<peers, outStream, inStream, late>>
  /\ UNCHANGED <<lifeVars, online, era, queue, opening, failed>>

ClosedReadEnds(p) ==
  /\ readers[p] > 0
  /\ readers' = [readers EXCEPT ![p] = @ - 1]
  /\ UNCHANGED <<lifeVars, online, era, peers, queue, opening, outStream, inStream, late, failed>>

(* --------------------------- outbound streams --------------------------- *)

(* createOutboundStream up to newStream. *)
AttemptBegins(s) ==
  /\ opening[s] = {} /\ queue[s] # << >>
  /\ LET p == Head(queue[s])[1] IN
       opening' = [opening EXCEPT ![s] =
         IF Started /\ p \in peers /\ outStream[p] = 0 THEN {Head(queue[s])} ELSE {}]
  /\ queue' = [queue EXCEPT ![s] = Tail(@)]
  /\ UNCHANGED <<lifeVars, online, era, peers, outStream, inStream, readers, late, failed>>

(* The stream is attached, whatever has become of the peer and the router. *)
StreamOpens(s) ==
  /\ \E a \in opening[s] :
       /\ outStream' = [outStream EXCEPT ![a[1]] = a[2]]
       /\ late' = IF Started /\ a[1] \in peers /\ a[2] = era[a[1]] THEN late \ {a[1]} ELSE late \cup {a[1]}
  /\ opening' = [opening EXCEPT ![s] = {}]
  /\ UNCHANGED <<lifeVars, online, era, peers, queue, inStream, readers, failed>>

(* Mutant: the error is not caught, and the consumer ends. *)
StreamFailsForAll(s) ==
  /\ \E a \in opening[s] : failed' = IF a[2] = era[a[1]] THEN failed \cup {a[1]} ELSE failed
  /\ opening' = [opening EXCEPT ![s] = {}]
  /\ queue' = [queue EXCEPT ![s] = << >>]
  /\ UNCHANGED <<lifeVars, online, era, peers, outStream, inStream, readers, late>>

(* The error is logged; nothing is tried again. *)
StreamFails(s) ==
  /\ \E a \in opening[s] : failed' = IF a[2] = era[a[1]] THEN failed \cup {a[1]} ELSE failed
  /\ opening' = [opening EXCEPT ![s] = {}]
  /\ UNCHANGED <<lifeVars, online, era, peers, queue, outStream, inStream, readers, late>>

(* ------------------------------ start, stop ------------------------------ *)

(* start makes a queue; later its status. *)
Starts ==
  /\ StartBegins \/ Moves("starting", "started")
  /\ UNCHANGED <<online, era, peers, queue, opening, outStream, inStream, readers, late, failed>>

StopBegins ==
  /\ Moves("started", "stopping")
  /\ UNCHANGED <<online, era, peers, queue, opening, outStream, inStream, readers, late, failed>>

(* The registrar has let go: the queue is ended, streams are closed.       *)
StopCloses ==
  /\ Moves("stopping", "closing")
  /\ outStream' = [p \in Peers |-> 0]
  /\ Closed(Peers)
  /\ inStream' = {}
  /\ late' = {}
  /\ UNCHANGED <<online, era, peers, queue, opening, failed>>

StopEnds ==
  /\ Moves("closing", "stopped")
  /\ peers' = {} /\ failed' = {}
  /\ UNCHANGED <<online, era, queue, opening, outStream, inStream, readers, late>>

StreamsNext ==
  \/ \E p \in Peers :
       \/ Connects(p) \/ PeerConnected(p) \/ PeerDisconnected(p) \/ IncomingStream(p)
       \/ ReadFails(p) \/ ClosedReadFails(p) \/ ClosedReadEnds(p)
  \/ \E s \in Sessions : AttemptBegins(s) \/ StreamOpens(s) \/ StreamFails(s)
  \/ Starts \/ StopBegins \/ StopCloses \/ StopEnds

(* Consumers go on, and newStream succeeds or fails some time. *)
StreamsFair ==
  \A s \in Sessions :
    WF_streamVars(AttemptBegins(s)) /\ WF_streamVars(StreamOpens(s) \/ StreamFails(s))

StreamsSpec == StreamsInit /\ [][StreamsNext]_streamVars

(* ------------------------------ properties ------------------------------ *)

StreamsTypeOK ==
  /\ LifeTypeOK
  /\ online \subseteq Peers /\ peers \subseteq Peers /\ inStream \subseteq peers
  /\ late \subseteq Peers /\ failed \subseteq Peers
  /\ era \in [Peers -> 0..MaxEras] /\ outStream \in [Peers -> 0..MaxEras]
  /\ readers \in [Peers -> 0..MaxReaders]
  /\ queue \in [Sessions -> Seq(Attempts)]
  /\ opening \in [Sessions -> SUBSET Attempts]
  /\ \A s \in Sessions : Len(queue[s]) <= MaxQueue /\ Cardinality(opening[s]) <= 1

UnderWay(a) ==
  \E s \in Sessions : a \in opening[s] \/ \E i \in 1..Len(queue[s]) : queue[s][i] = a

(* A connected peer of the router has a stream of the connection it has    *)
(* now, or an attempt is queued or under way: peers come, go and come back *)
(* and the router stops and starts while attempts wait.  The exceptions:   *)
(* the attempt has failed, or the stream of an earlier attempt came after  *)
(* the peer was removed or the router stopped, and is taken for a good one.*)
PeersAreServed ==
  Started => \A p \in peers \cap online :
    outStream[p] = era[p] \/ UnderWay(<<p, era[p]>>) \/ p \in failed \cup late

(* stop "shuts down every connection": no peer and no stream is left, but  *)
(* outbound streams that came later.                                       *)
StoppedIsEmpty ==
  life = "stopped" => peers = {} /\ inStream = {} /\ \A p \in Peers : outStream[p] = 0 \/ p \in late

(* No peer waits for its stream for ever because of the others.            *)
Waiting(p) == Started /\ p \in peers \cap online /\ outStream[p] = 0 /\ p \notin failed
PeersGetStreams == \A p \in Peers : Waiting(p) ~> ~Waiting(p)
===============================================================================
