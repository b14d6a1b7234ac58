----------------------------- MODULE MeshPair_proofs -----------------------------
(***************************************************************************)
(* Proofs about MeshPair, for any pair of routers, whichever of them sees  *)
(* a v1.0 peer, and any number of messages in flight.                      *)
(***************************************************************************)
EXTENDS MeshPair, TLAPS

Has(s, m) == \E i \in 1..Len(s) : s[i] = m
HasAfter(s, i, m) == \E j \in (i + 1)..Len(s) : s[j] = m

(* A router whose PRUNE the other one may not have heard of is backed off, *)
(* and so does not take the other one back; but for a v1.0 peer.           *)
Obeyed == \A n \in Nodes \ Old : PruneUnheard(n) => backoff[n] = "running" /\ ~mesh[n]

(* Who has the other in the mesh sends a GRAFT after every PRUNE.          *)
Superseded(n) ==
  mesh[n] =>
    /\ making[n] > 0 => grafting[n]
    /\ \A i \in 1..Len(wire[n]) :
         wire[n][i] = "prune" => grafting[n] \/ HasAfter(wire[n], i, "graft")

(* A GRAFT in flight is meant, or a PRUNE follows it, or it was sent       *)
(* before a PRUNE of the other one was handled.                            *)
Meant(n) ==
  \A i \in 1..Len(wire[n]) :
    wire[n][i] = "graft" =>
      \/ mesh[n] \/ making[n] > 0 \/ i <= earlier[Other(n)]
      \/ HasAfter(wire[n], i, "prune")

(* A link that only one of the two has is about to be settled.             *)
Settling(n) ==
  mesh[n] /\ ~mesh[Other(n)] =>
    \/ grafting[n] \/ Has(wire[n], "graft")
    \/ making[Other(n)] > 0 \/ Has(wire[Other(n)], "prune")

Told == \A n \in Nodes : Superseded(n) /\ Meant(n) /\ Settling(n)

Inv == TypeOK /\ Obeyed /\ (~excused => Told)

(* --------------------------------- sequences ----------------------------- *)

(* A message appended comes after all others. *)
LEMMA AppendFacts ==
  ASSUME NEW s \in Seq(Messages), NEW m \in Messages
  PROVE  /\ Append(s, m) \in Seq(Messages)
         /\ Len(Append(s, m)) = Len(s) + 1
         /\ \A i \in 1..Len(s) : Append(s, m)[i] = s[i]
         /\ Append(s, m)[Len(s) + 1] = m
  OBVIOUS

(* Taking the first message moves the others up. *)
LEMMA TailFacts ==
  ASSUME NEW s \in Seq(Messages), s # << >>
  PROVE  /\ Tail(s) \in Seq(Messages)
         /\ Len(s) \in Nat \ {0} /\ Len(Tail(s)) = Len(s) - 1
         /\ \A i \in 1..(Len(s) - 1) : Tail(s)[i] = s[i + 1]
         /\ Head(s) = s[1] /\ s[1] \in Messages
  OBVIOUS

(* What is in the wire stays there until it is handled. *)
LEMMA AppendKeeps ==
  ASSUME NEW s \in Seq(Messages), NEW m \in Messages
  PROVE  /\ Has(Append(s, m), m)
         /\ \A x \in Messages : Has(s, x) => Has(Append(s, m), x)
         /\ \A i \in 1..Len(s) : HasAfter(Append(s, m), i, m)
         /\ \A x \in Messages, i \in 1..Len(s) :
              HasAfter(s, i, x) => HasAfter(Append(s, m), i, x)
  <1> DEFINE a == Append(s, m)
  <1>1. /\ a \in Seq(Messages) /\ Len(a) = Len(s) + 1 /\ Len(s) \in Nat
        /\ \A i \in 1..Len(s) : a[i] = s[i]
        /\ a[Len(s) + 1] = m
    BY AppendFacts
  <1> HIDE DEF a
  <1>2. Has(a, m)
    <2>1. Len(s) + 1 \in 1..Len(a)  BY <1>1
    <2> QED  BY <1>1, <2>1 DEF Has
  <1>3. \A x \in Messages : Has(s, x) => Has(a, x)
    BY <1>1 DEF Has
  <1>4. \A i \in 1..Len(s) : HasAfter(a, i, m)
    <2> TAKE i \in 1..Len(s)
    <2>1. Len(s) + 1 \in (i + 1)..Len(a)  BY <1>1
    <2> QED  BY <1>1, <2>1 DEF HasAfter
  <1>5. \A x \in Messages, i \in 1..Len(s) : HasAfter(s, i, x) => HasAfter(a, i, x)
    <2> SUFFICES ASSUME NEW x \in Messages, NEW i \in 1..Len(s), HasAfter(s, i, x)
                 PROVE  HasAfter(a, i, x)
      OBVIOUS
    <2>1. PICK j \in (i + 1)..Len(s) : s[j] = x  BY DEF HasAfter
    <2>2. j \in (i + 1)..Len(a) /\ a[j] = x  BY <1>1, <2>1
    <2> QED  BY <2>2 DEF HasAfter
  <1> QED  BY <1>2, <1>3, <1>4, <1>5 DEF a

(* What follows a message in the wire still follows it when the first is taken. *)
LEMMA TailKeeps ==
  ASSUME NEW s \in Seq(Messages), s # << >>
  PROVE  /\ \A x \in Messages : Has(s, x) /\ Head(s) # x => Has(Tail(s), x)
         /\ \A x \in Messages : Has(Tail(s), x) => Has(s, x)
         /\ \A x \in Messages : HasAfter(s, 1, x) => Has(Tail(s), x)
         /\ \A x \in Messages, i \in 1..Len(Tail(s)) :
              HasAfter(s, i + 1, x) => HasAfter(Tail(s), i, x)
  <1> DEFINE t == Tail(s)
  <1>1. /\ t \in Seq(Messages) /\ Len(s) \in Nat \ {0} /\ Len(t) = Len(s) - 1
        /\ \A i \in 1..(Len(s) - 1) : t[i] = s[i + 1]
        /\ Head(s) = s[1]
    BY TailFacts
  <1> HIDE DEF t
  <1>0. \A k \in 2..Len(s) : k - 1 \in 1..Len(t) /\ t[k - 1] = s[k]
    <2> TAKE k \in 2..Len(s)
    <2>1. k - 1 \in 1..(Len(s) - 1) /\ (k - 1) + 1 = k  BY <1>1
    <2> QED  BY <1>1, <2>1
  <1>2. \A x \in Messages : Has(s, x) /\ Head(s) # x => Has(t, x)
    <2> SUFFICES ASSUME NEW x \in Messages, Has(s, x), Head(s) # x  PROVE  Has(t, x)
      OBVIOUS
    <2>1. PICK j \in 1..Len(s) : s[j] = x  BY DEF Has
    <2>2. j \in 2..Len(s)  BY <1>1, <2>1
    <2> QED  BY <1>0, <2>1, <2>2 DEF Has
  <1>3. \A x \in Messages : Has(t, x) => Has(s, x)
    <2> SUFFICES ASSUME NEW x \in Messages, Has(t, x)  PROVE  Has(s, x)
      OBVIOUS
    <2>1. PICK j \in 1..Len(t) : t[j] = x  BY DEF Has
    <2>2. j + 1 \in 1..Len(s) /\ s[j + 1] = x  BY <1>1, <2>1
    <2> QED  BY <2>2 DEF Has
  <1>4. \A x \in Messages : HasAfter(s, 1, x) => Has(t, x)
    <2> SUFFICES ASSUME NEW x \in Messages, HasAfter(s, 1, x)  PROVE  Has(t, x)
      OBVIOUS
    <2>1. PICK j \in 2..Len(s) : s[j] = x  BY DEF HasAfter
    <2> QED  BY <1>0, <2>1 DEF Has
  <1>5. \A x \in Messages, i \in 1..Len(t) : HasAfter(s, i + 1, x) => HasAfter(t, i, x)
    <2> SUFFICES ASSUME NEW x \in Messages, NEW i \in 1..Len(t), HasAfter(s, i + 1, x)
                 PROVE  HasAfter(t, i, x)
      OBVIOUS
    <2>1. PICK j \in (i + 2)..Len(s) : s[j] = x  BY <1>1 DEF HasAfter
    <2>2. j \in 2..Len(s) /\ j - 1 \in (i + 1)..Len(t)  BY <1>1, <2>1
    <2>3. t[j - 1] = x  BY <1>0, <2>1, <2>2
    <2> QED  BY <2>2, <2>3 DEF HasAfter
  <1> QED  BY <1>2, <1>3, <1>4, <1>5 DEF t
(* ---------------------------------- types -------------------------------- *)

(* A full buffer takes no more. *)
LEMMA SendTyped ==
  ASSUME TypeOK, NEW n \in Nodes, NEW m \in Messages, NEW c \in BOOLEAN, Send(n, m, c)
  PROVE  /\ wire' \in [Nodes -> Seq(Messages)]
         /\ \A x \in Nodes : Len(wire'[x]) <= MaxWire
         /\ excused' \in BOOLEAN
<1>1. CASE UNCHANGED wire /\ Excuse(TRUE)
  BY <1>1 DEF TypeOK, Excuse
<1>2. CASE /\ Len(wire[n]) < MaxWire
           /\ wire' = [wire EXCEPT ![n] = Append(@, m)]
           /\ Excuse(c)
  <2>1. Append(wire[n], m) \in Seq(Messages) /\ Len(Append(wire[n], m)) = Len(wire[n]) + 1
        /\ Len(wire[n]) \in Nat
    BY AppendFacts DEF TypeOK
  <2>2. \A x \in Nodes : wire'[x] = IF x = n THEN Append(wire[n], m) ELSE wire[x]
    BY <1>2 DEF TypeOK
  <2>3. wire' \in [Nodes -> Seq(Messages)]
    BY <1>2, <2>1 DEF TypeOK
  <2>4. \A x \in Nodes : Len(wire'[x]) <= MaxWire
    BY <1>2, <2>1, <2>2, PairAssumption DEF TypeOK
  <2> QED BY <1>2, <2>3, <2>4 DEF Excuse
<1> QED BY <1>1, <1>2 DEF Send

(* What a handler takes from the wire. *)
LEMMA TakenTyped ==
  ASSUME TypeOK, NEW n \in Nodes, NEW m \in Messages, Arrives(n, m),
         wire' = [wire EXCEPT ![Other(n)] = Tail(@)]
  PROVE  /\ wire' \in [Nodes -> Seq(Messages)]
         /\ \A x \in Nodes : Len(wire'[x]) <= MaxWire
         /\ Left(n) \in 0..MaxWire
<1> DEFINE o == Other(n)
<1>1. o \in Nodes  BY PairAssumption
<1> HIDE DEF o
<1>2. wire[o] \in Seq(Messages) /\ wire[o] # << >>  BY <1>1 DEF TypeOK, Arrives, o
<1>3. Tail(wire[o]) \in Seq(Messages) /\ Len(wire[o]) \in Nat
      /\ Len(Tail(wire[o])) = Len(wire[o]) - 1
  BY <1>2, TailFacts
<1>4. \A x \in Nodes : wire'[x] = IF x = o THEN Tail(wire[o]) ELSE wire[x]
  BY DEF TypeOK, o
<1>5. wire' \in [Nodes -> Seq(Messages)]
  BY <1>3 DEF TypeOK, o
<1>6. \A x \in Nodes : Len(wire'[x]) <= MaxWire
  BY <1>1, <1>3, <1>4, PairAssumption DEF TypeOK
<1>7. Left(n) \in 0..MaxWire
  BY PairAssumption DEF Left, TypeOK
<1> QED BY <1>5, <1>6, <1>7

(* Every step keeps the type.                                              *)
LEMMA TypeStep == TypeOK /\ [Next]_vars => TypeOK'
<1> SUFFICES ASSUME TypeOK, [Next]_vars PROVE TypeOK'
  OBVIOUS
<1> USE PairAssumption
<1>1. CASE UNCHANGED vars
  BY <1>1 DEF TypeOK, vars
<1>2. ASSUME NEW n \in Nodes, Join(n)  PROVE TypeOK'
  <2>1. CASE UNCHANGED <<mesh, wire>> /\ Excuse(FALSE)
    BY <1>2, <2>1 DEF Join, TypeOK, Excuse
  <2>2. CASE /\ mesh' = [mesh EXCEPT ![n] = TRUE]
             /\ Send(n, "graft", n \in Old /\ making[n] > 0)
    <3>1. /\ wire' \in [Nodes -> Seq(Messages)]
          /\ \A x \in Nodes : Len(wire'[x]) <= MaxWire
          /\ excused' \in BOOLEAN
      BY <2>2, SendTyped DEF Messages
    <3> QED BY <1>2, <2>2, <3>1 DEF Join, TypeOK
  <2> QED BY <1>2, <2>1, <2>2 DEF Join
<1>3. ASSUME NEW n \in Nodes, Leave(n)  PROVE TypeOK'
  <2>1. making[n] + 1 \in Nat /\ making[n] \in 0..MaxOwed  BY DEF TypeOK
  <2>2. making' \in [Nodes -> 0..MaxOwed]
    BY <1>3, <2>1 DEF Leave, TypeOK
  <2>3. backoff' \in [Nodes -> {"none", "running", "expired"}]
    BY <1>3 DEF Leave, TypeOK, Backoff
  <2>4. excused' \in BOOLEAN  BY <1>3 DEF Leave, Excuse
  <2>5. /\ joined' \in [Nodes -> BOOLEAN] /\ mesh' \in [Nodes -> BOOLEAN]
        /\ \A x \in Nodes : mesh'[x] => joined'[x]
    BY <1>3 DEF Leave, TypeOK
  <2> QED BY <1>3, <2>2, <2>3, <2>4, <2>5 DEF Leave, TypeOK
<1>4. ASSUME NEW n \in Nodes, HeartbeatPrunes(n)  PROVE TypeOK'
  BY <1>4 DEF HeartbeatPrunes, TypeOK, Excuse, Backoff
<1>5. ASSUME NEW n \in Nodes, HeartbeatGrafts(n)  PROVE TypeOK'
  BY <1>5 DEF HeartbeatGrafts, TypeOK, Excuse
<1>6. ASSUME NEW n \in Nodes, GraftGoesOut(n)  PROVE TypeOK'
  <2>1. /\ wire' \in [Nodes -> Seq(Messages)]
        /\ \A x \in Nodes : Len(wire'[x]) <= MaxWire
        /\ excused' \in BOOLEAN
    BY <1>6, SendTyped DEF Messages, GraftGoesOut
  <2> QED BY <1>6, <2>1 DEF GraftGoesOut, TypeOK
<1>7. ASSUME NEW n \in Nodes, PruneGoesOut(n)  PROVE TypeOK'
  <2>1. /\ wire' \in [Nodes -> Seq(Messages)]
        /\ \A x \in Nodes : Len(wire'[x]) <= MaxWire
        /\ excused' \in BOOLEAN
    BY <1>7, SendTyped DEF Messages, PruneGoesOut
  <2>2. making[n] \in 1..MaxOwed /\ making[n] - 1 \in 0..MaxOwed
    BY <1>7 DEF PruneGoesOut, TypeOK
  <2>3. making' \in [Nodes -> 0..MaxOwed]
    BY <1>7, <2>2 DEF PruneGoesOut, TypeOK
  <2> QED BY <1>7, <2>1, <2>3 DEF PruneGoesOut, TypeOK
<1>8. ASSUME NEW n \in Nodes, BackoffExpires(n) \/ BackoffCleared(n)  PROVE TypeOK'
  BY <1>8 DEF BackoffExpires, BackoffCleared, TypeOK, Excuse
<1>9. ASSUME NEW n \in Nodes, HandleGraftIgnored(n) \/ HandleGraftAgain(n)  PROVE TypeOK'
  <2>1. Arrives(n, "graft") /\ Handled(n)
    BY <1>9 DEF HandleGraftIgnored, HandleGraftAgain
  <2>2. /\ wire' \in [Nodes -> Seq(Messages)]
        /\ \A x \in Nodes : Len(wire'[x]) <= MaxWire
        /\ Left(n) \in 0..MaxWire
    BY <2>1, TakenTyped DEF Messages, Handled
  <2>3. earlier' \in [Nodes -> 0..MaxWire]
    BY <2>1, <2>2 DEF Handled, TypeOK
  <2>4. UNCHANGED <<joined, mesh, backoff, making, grafting>> /\ \E c \in BOOLEAN : Excuse(c)
    BY <1>9 DEF HandleGraftIgnored, HandleGraftAgain
  <2>5. excused' \in BOOLEAN
    BY <2>4 DEF Excuse
  <2> QED BY <2>2, <2>3, <2>4, <2>5 DEF TypeOK
<1>10. ASSUME NEW n \in Nodes, HandleGraftAccepted(n)  PROVE TypeOK'
  <2>1. Arrives(n, "graft") /\ Handled(n)
    BY <1>10 DEF HandleGraftAccepted
  <2>2. /\ wire' \in [Nodes -> Seq(Messages)]
        /\ \A x \in Nodes : Len(wire'[x]) <= MaxWire
        /\ Left(n) \in 0..MaxWire
    BY <2>1, TakenTyped DEF Messages, Handled
  <2> QED BY <1>10, <2>1, <2>2 DEF HandleGraftAccepted, TypeOK, Handled, Excuse
<1>11. ASSUME NEW n \in Nodes, HandleGraftRefused(n)  PROVE TypeOK'
  <2>1. Arrives(n, "graft") /\ Handled(n)
    BY <1>11 DEF HandleGraftRefused
  <2>2. /\ wire' \in [Nodes -> Seq(Messages)]
        /\ \A x \in Nodes : Len(wire'[x]) <= MaxWire
        /\ Left(n) \in 0..MaxWire
    BY <2>1, TakenTyped DEF Messages, Handled
  <2> QED BY <1>11, <2>1, <2>2 DEF HandleGraftRefused, TypeOK, Handled, Excuse, Backoff
<1>12. ASSUME NEW n \in Nodes, HandlePrune(n)  PROVE TypeOK'
  <2>1. Arrives(n, "prune") /\ PruneHandled(n)
    BY <1>12 DEF HandlePrune
  <2>2. /\ wire' \in [Nodes -> Seq(Messages)]
        /\ \A x \in Nodes : Len(wire'[x]) <= MaxWire
        /\ Left(n) \in 0..MaxWire
    BY <2>1, TakenTyped DEF Messages, PruneHandled
  <2>3. Len(wire[n]) \in 0..MaxWire
    BY DEF TypeOK
  <2>4. earlier' \in [Nodes -> 0..MaxWire]
    BY <2>1, <2>2, <2>3 DEF PruneHandled, TypeOK
  <2> QED BY <1>12, <2>2, <2>4 DEF HandlePrune, TypeOK, Excuse, Backoff
<1> QED
  BY <1>1, <1>2, <1>3, <1>4, <1>5, <1>6, <1>7, <1>8, <1>9, <1>10, <1>11, <1>12 DEF Next

(* ------------------------------- the two ends ---------------------------- *)

(* Two routers: each is the other's other.                                 *)
LEMMA OtherFacts ==
  ASSUME NEW n \in Nodes
  PROVE  /\ Other(n) \in Nodes /\ Other(n) # n /\ Other(Other(n)) = n
         /\ \A x \in Nodes : Other(x) = n <=> x = Other(n)
  BY PairAssumption

(* An excuse given is one, and where none is needed the two are told.      *)
LEMMA ToldBefore ==
  ASSUME Inv, NEW c \in BOOLEAN, Excuse(c), ~excused'
  PROVE  ~c /\ Told
<1>1. ~c /\ (~excused \/ (Quiet /\ Agree))
  BY DEF Excuse
<1>2. CASE ~excused
  BY <1>1, <1>2 DEF Inv
<1>3. CASE Quiet /\ Agree
  <2>1. \A n \in Nodes : Len(wire[n]) = 0 /\ making[n] = 0 /\ ~grafting[n]
    BY <1>3 DEF Quiet
  <2>2. \A n \in Nodes : Superseded(n) /\ Meant(n)
    BY <2>1 DEF Superseded, Meant
  <2>3. \A n \in Nodes : Settling(n)
    BY <1>3 DEF Agree, Settling
  <2> QED BY <1>1, <2>2, <2>3 DEF Told
<1> QED BY <1>1, <1>2, <1>3

(* Nothing sent and nothing taken: who leaves the mesh makes a PRUNE, who  *)
(* enters it has a GRAFT to send.                                          *)
LEMMA LocalStep ==
  ASSUME Told, TypeOK, NEW n \in Nodes,
         wire' = wire, earlier' = earlier,
         \A x \in Nodes \ {n} : mesh'[x] = mesh[x] /\ making'[x] = making[x] /\ grafting'[x] = grafting[x],
         making'[n] \in Int, making'[n] >= making[n],
         grafting[n] => grafting'[n],
         mesh'[n] => (mesh[n] /\ making'[n] = making[n]) \/ grafting'[n],
         mesh[n] /\ ~mesh'[n] => making'[n] > 0
  PROVE  Told'
<1> SUFFICES ASSUME NEW x \in Nodes PROVE (Superseded(x) /\ Meant(x) /\ Settling(x))'
  BY DEF Told
<1> DEFINE o == Other(x)
<1>0. o \in Nodes /\ o # x  BY OtherFacts
<1>1. Superseded(x) /\ Meant(x) /\ Settling(x) BY DEF Told
<1>a. \A y \in Nodes : making[y] \in Int /\ making'[y] \in Int /\ making'[y] >= making[y]
  <2>1. \A y \in Nodes : making[y] \in Int  BY PairAssumption DEF TypeOK
  <2> QED BY <2>1
<1>b. \A y \in Nodes : mesh[y] /\ ~mesh'[y] => making'[y] > 0
  OBVIOUS
<1>2. Superseded(x)'
  BY <1>1 DEF Superseded
<1>3. Meant(x)'
  <2> SUFFICES ASSUME NEW i \in 1..Len(wire[x]), wire[x][i] = "graft"
               PROVE  \/ mesh'[x] \/ making'[x] > 0 \/ i <= earlier[Other(x)]
                      \/ HasAfter(wire[x], i, "prune")
    BY DEF Meant
  <2> QED BY <1>1, <1>a, <1>b DEF Meant
<1>4. Settling(x)'
  <2> SUFFICES ASSUME mesh'[x], ~mesh'[o]
               PROVE  \/ grafting'[x] \/ Has(wire[x], "graft")
                      \/ making'[o] > 0 \/ Has(wire[o], "prune")
    BY DEF Settling
  <2>1. CASE mesh[x] /\ ~mesh[o]
    <3>1. grafting[x] => grafting'[x]  OBVIOUS
    <3>2. making[o] > 0 => making'[o] > 0  BY <1>0, <1>a
    <3> QED BY <1>1, <2>1, <3>1, <3>2 DEF Settling
  <2>2. CASE mesh[o]
    BY <1>0, <1>b, <2>2
  <2>3. CASE ~mesh[x]
    BY <2>3
  <2> QED BY <2>1, <2>2, <2>3
<1> QED BY <1>2, <1>3, <1>4

(* A GRAFT is sent when no PRUNE is on its way out behind it. *)
LEMMA GraftSentStep ==
  ASSUME Told, TypeOK, NEW n \in Nodes,
         wire' = [wire EXCEPT ![n] = Append(@, "graft")], earlier' = earlier, making' = making,
         mesh' = [mesh EXCEPT ![n] = TRUE], making[n] = 0,
         \A x \in Nodes \ {n} : grafting'[x] = grafting[x]
  PROVE  Told'
<1> SUFFICES ASSUME NEW x \in Nodes PROVE (Superseded(x) /\ Meant(x) /\ Settling(x))'
  BY DEF Told
<1> DEFINE o == Other(x)
<1>0. o \in Nodes /\ o # x  BY OtherFacts
<1>1. Superseded(x) /\ Meant(x) /\ Settling(x) BY DEF Told
<1>s. wire[n] \in Seq(Messages) /\ "graft" \in Messages /\ "prune" \in Messages  BY DEF TypeOK, Messages
<1>w. wire'[n] = Append(wire[n], "graft") /\ \A y \in Nodes \ {n} : wire'[y] = wire[y]
  BY DEF TypeOK
<1>m. mesh'[n] /\ \A y \in Nodes \ {n} : mesh'[y] = mesh[y]
  BY DEF TypeOK
<1>a. /\ Len(wire'[n]) = Len(wire[n]) + 1 /\ Len(wire[n]) \in Nat
      /\ \A i \in 1..Len(wire[n]) : wire'[n][i] = wire[n][i]
      /\ wire'[n][Len(wire[n]) + 1] = "graft"
  BY <1>s, <1>w, AppendFacts
<1>b. /\ Has(wire'[n], "graft")
      /\ Has(wire[n], "prune") => Has(wire'[n], "prune")
      /\ \A i \in 1..Len(wire[n]) : HasAfter(wire'[n], i, "graft")
  BY <1>s, <1>w, AppendKeeps
<1>2. Superseded(x)'
  <2>1. CASE x = n
    <3> SUFFICES ASSUME NEW i \in 1..Len(wire'[n]), wire'[n][i] = "prune"
                 PROVE  HasAfter(wire'[n], i, "graft")
      BY <2>1 DEF Superseded
    <3>1. i \in 1..Len(wire[n])  BY <1>a
    <3> QED BY <3>1, <1>b
  <2>2. CASE x # n
    BY <1>1, <2>2, <1>w, <1>m DEF Superseded
  <2> QED BY <2>1, <2>2
<1>3. Meant(x)'
  <2>1. CASE x = n
    BY <2>1, <1>m DEF Meant
  <2>2. CASE x # n
    BY <1>1, <2>2, <1>w, <1>m DEF Meant
  <2> QED BY <2>1, <2>2
<1>4. Settling(x)'
  <2>1. CASE x = n
    BY <2>1, <1>b DEF Settling
  <2>2. CASE o = n
    BY <2>2, <1>m DEF Settling
  <2>3. CASE x # n /\ o # n
    BY <1>0, <1>1, <2>3, <1>w, <1>m DEF Settling
  <2> QED BY <2>1, <2>2, <2>3
<1> QED BY <1>2, <1>3, <1>4

(* A PRUNE that has been made is sent. *)
LEMMA PruneSentStep ==
  ASSUME Told, TypeOK, NEW n \in Nodes, making[n] > 0,
         wire' = [wire EXCEPT ![n] = Append(@, "prune")], earlier' = earlier,
         making' = [making EXCEPT ![n] = @ - 1], mesh' = mesh, grafting' = grafting
  PROVE  Told'
<1> SUFFICES ASSUME NEW x \in Nodes PROVE (Superseded(x) /\ Meant(x) /\ Settling(x))'
  BY DEF Told
<1> DEFINE o == Other(x)
<1>0. o \in Nodes /\ o # x  BY OtherFacts
<1>1. Superseded(x) /\ Meant(x) /\ Settling(x) BY DEF Told
<1>s. wire[n] \in Seq(Messages) /\ "graft" \in Messages /\ "prune" \in Messages  BY DEF TypeOK, Messages
<1>w. wire'[n] = Append(wire[n], "prune") /\ \A y \in Nodes \ {n} : wire'[y] = wire[y]
  BY DEF TypeOK
<1>m. making[n] \in Nat /\ making'[n] = making[n] - 1 /\ \A y \in Nodes \ {n} : making'[y] = making[y]
  BY DEF TypeOK
<1>a. /\ Len(wire'[n]) = Len(wire[n]) + 1 /\ Len(wire[n]) \in Nat
      /\ \A i \in 1..Len(wire[n]) : wire'[n][i] = wire[n][i]
      /\ wire'[n][Len(wire[n]) + 1] = "prune"
  BY <1>s, <1>w, AppendFacts
<1>b. /\ Has(wire'[n], "prune")
      /\ Has(wire[n], "graft") => Has(wire'[n], "graft")
      /\ \A i \in 1..Len(wire[n]) : HasAfter(wire'[n], i, "prune")
      /\ \A i \in 1..Len(wire[n]) : HasAfter(wire[n], i, "graft") => HasAfter(wire'[n], i, "graft")
  BY <1>s, <1>w, AppendKeeps
<1>2. Superseded(x)'
  <2>1. CASE x = n
    BY <1>1, <2>1 DEF Superseded
  <2>2. CASE x # n
    BY <1>1, <2>2, <1>w, <1>m DEF Superseded
  <2> QED BY <2>1, <2>2
<1>3. Meant(x)'
  <2>1. CASE x = n
    <3> SUFFICES ASSUME NEW i \in 1..Len(wire'[n]), wire'[n][i] = "graft"
                 PROVE  HasAfter(wire'[n], i, "prune")
      BY <2>1 DEF Meant
    <3>1. i \in 1..Len(wire[n])  BY <1>a
    <3> QED BY <3>1, <1>b
  <2>2. CASE x # n
    BY <1>1, <2>2, <1>w, <1>m DEF Meant
  <2> QED BY <2>1, <2>2
<1>4. Settling(x)'
  <2>1. CASE x = n
    BY <1>0, <1>1, <2>1, <1>b, <1>w, <1>m DEF Settling
  <2>2. CASE o = n
    BY <1>0, <2>2, <1>b DEF Settling
  <2>3. CASE x # n /\ o # n
    BY <1>0, <1>1, <2>3, <1>w, <1>m DEF Settling
  <2> QED BY <2>1, <2>2, <2>3
<1> QED BY <1>2, <1>3, <1>4

(* A message is taken from the wire to n: n may enter the mesh if the other*)
(* one is in it or is to leave it, and leaves it only for a PRUNE.         *)
LEMMA TakenStep ==
  ASSUME Told, TypeOK, NEW n \in Nodes, NEW m \in Messages, Arrives(n, m),
         wire' = [wire EXCEPT ![Other(n)] = Tail(@)], grafting' = grafting,
         earlier'[n] = Left(n),
         \A x \in Nodes \ {n} : mesh'[x] = mesh[x] /\ making'[x] = making[x],
         \A x \in Nodes \ {n, Other(n)} : earlier'[x] = earlier[x],
         making'[n] \in Int, making'[n] >= making[n],
         earlier'[Other(n)] = IF m = "prune" THEN Len(wire[n]) ELSE earlier[Other(n)],
         m = "prune" => ~mesh'[n],
         m = "graft" => mesh'[n] \/ (~mesh[n] /\ making'[n] > 0),
         mesh'[n] => making'[n] = making[n] /\ (mesh[n] \/ ~PruneUnheard(n))
  PROVE  Told'
<1> DEFINE o == Other(n)
<1>0. o \in Nodes /\ o # n /\ Other(o) = n /\ \A y \in Nodes : Other(y) = n <=> y = o
  BY OtherFacts
<1>s. /\ wire[o] \in Seq(Messages) /\ wire[o] # << >> /\ Head(wire[o]) = m
      /\ "graft" \in Messages /\ "prune" \in Messages /\ wire[n] \in Seq(Messages)
  BY <1>0 DEF TypeOK, Messages, Arrives
<1>w. wire'[o] = Tail(wire[o]) /\ \A y \in Nodes \ {o} : wire'[y] = wire[y]
  BY <1>0 DEF TypeOK
<1>a. /\ Len(wire[o]) \in Nat \ {0} /\ Len(wire'[o]) = Len(wire[o]) - 1
      /\ \A i \in 1..(Len(wire[o]) - 1) : wire'[o][i] = wire[o][i + 1]
      /\ wire[o][1] = m
  <2> DEFINE s == wire[o]
  <2>1. s \in Seq(Messages) /\ s # << >> /\ Head(s) = m /\ wire'[o] = Tail(s)
    BY <1>s, <1>w
  <2> HIDE DEF s
  <2>2. /\ Len(s) \in Nat \ {0} /\ Len(Tail(s)) = Len(s) - 1
        /\ \A i \in 1..(Len(s) - 1) : Tail(s)[i] = s[i + 1]
        /\ Head(s) = s[1]
    BY <2>1, TailFacts
  <2>3. /\ Len(s) \in Nat \ {0} /\ Len(wire'[o]) = Len(s) - 1
        /\ \A i \in 1..(Len(s) - 1) : wire'[o][i] = s[i + 1]
        /\ s[1] = m
    BY <2>1, <2>2
  <2> QED
    BY <2>3 DEF s
<1>b. /\ \A x \in Messages : Has(wire[o], x) /\ m # x => Has(wire'[o], x)
      /\ \A x \in Messages : HasAfter(wire[o], 1, x) => Has(wire'[o], x)
      /\ \A x \in Messages, i \in 1..Len(wire'[o]) :
           HasAfter(wire[o], i + 1, x) => HasAfter(wire'[o], i, x)
  <2> DEFINE s == wire[o]
             t == wire'[o]
  <2>1. s \in Seq(Messages) /\ s # << >> /\ Head(s) = m /\ t = Tail(s)
    BY <1>s, <1>w
  <2> SUFFICES /\ \A x \in Messages : Has(s, x) /\ m # x => Has(t, x)
               /\ \A x \in Messages : HasAfter(s, 1, x) => Has(t, x)
               /\ \A x \in Messages, i \in 1..Len(t) : HasAfter(s, i + 1, x) => HasAfter(t, i, x)
    OBVIOUS
  <2> HIDE DEF s, t
  <2> QED BY <2>1, TailKeeps
<1>c. \A y \in Nodes : making[y] \in Nat /\ earlier[y] \in Nat /\ Len(wire[y]) \in Nat
  BY PairAssumption DEF TypeOK
<1>t. \A y \in Nodes : Superseded(y) /\ Meant(y) /\ Settling(y)
  BY DEF Told
<1> HIDE DEF o
<1>2. ASSUME NEW x \in Nodes  PROVE Superseded(x)'
  <2>1. CASE x = o
    <3> SUFFICES ASSUME mesh[o]
                 PROVE  /\ making[o] > 0 => grafting[o]
                        /\ \A i \in 1..Len(wire'[o]) : wire'[o][i] = "prune" =>
                             grafting[o] \/ HasAfter(wire'[o], i, "graft")
      BY <1>0, <2>1 DEF Superseded
    <3>1. Superseded(o)  BY <1>0, <1>t
    <3>2. ASSUME NEW i \in 1..Len(wire'[o]), wire'[o][i] = "prune", ~grafting[o]
          PROVE  HasAfter(wire'[o], i, "graft")
      <4>1. i + 1 \in 1..Len(wire[o]) /\ wire[o][i + 1] = "prune"
        BY <1>a, <3>2
      <4>2. HasAfter(wire[o], i + 1, "graft")
        BY <3>1, <3>2, <4>1 DEF Superseded
      <4> QED BY <1>b, <1>s, <4>2
    <3> QED BY <3>1, <3>2 DEF Superseded
  <2>2. CASE x = n
    <3> SUFFICES ASSUME mesh'[n]
                 PROVE  /\ making'[n] > 0 => grafting[n]
                        /\ \A i \in 1..Len(wire[n]) : wire[n][i] = "prune" =>
                             grafting[n] \/ HasAfter(wire[n], i, "graft")
      BY <1>0, <1>w, <2>2 DEF Superseded
    <3>1. CASE mesh[n]
      BY <1>t, <3>1 DEF Superseded
    <3>2. CASE ~PruneUnheard(n)
      BY <3>2 DEF PruneUnheard
    <3> QED BY <3>1, <3>2
  <2>3. CASE x # o /\ x # n
    BY <1>t, <1>w, <2>3 DEF Superseded
  <2> QED BY <2>1, <2>2, <2>3
<1>3. ASSUME NEW x \in Nodes  PROVE Meant(x)'
  <2>1. CASE x = o
    <3> SUFFICES ASSUME NEW i \in 1..Len(wire'[o]), wire'[o][i] = "graft"
                 PROVE  \/ mesh[o] \/ making[o] > 0 \/ i <= Left(n)
                        \/ HasAfter(wire'[o], i, "prune")
      BY <1>0, <2>1 DEF Meant
    <3>1. i + 1 \in 1..Len(wire[o]) /\ wire[o][i + 1] = "graft"
      BY <1>a
    <3>2. \/ mesh[o] \/ making[o] > 0 \/ i + 1 <= earlier[n]
          \/ HasAfter(wire[o], i + 1, "prune")
      BY <1>0, <1>t, <3>1 DEF Meant
    <3>3. i + 1 <= earlier[n] => i <= Left(n)
      BY <1>a, <1>c DEF Left
    <3> QED BY <1>b, <1>s, <3>2, <3>3
  <2>2. CASE x = n
    <3> SUFFICES ASSUME NEW i \in 1..Len(wire[n]), wire[n][i] = "graft", ~mesh'[n]
                 PROVE  \/ making'[n] > 0 \/ i <= earlier'[o]
                        \/ HasAfter(wire[n], i, "prune")
      BY <1>0, <1>w, <2>2 DEF Meant, o
    <3>1. CASE m = "prune"
      BY <3>1, <1>c DEF o
    <3>2. CASE m # "prune"
      BY <3>2, <1>s, <1>0 DEF o, Messages
    <3> QED BY <3>1, <3>2
  <2>3. CASE x # o /\ x # n
    <3>1. Other(x) # n /\ Other(x) # o /\ Other(x) \in Nodes
      BY <2>3, <1>0, OtherFacts
    <3> QED BY <1>t, <1>w, <2>3, <3>1 DEF Meant, o
  <2> QED BY <2>1, <2>2, <2>3
<1>4. ASSUME NEW x \in Nodes  PROVE Settling(x)'
  <2>1. CASE x = o
    <3> SUFFICES ASSUME mesh[o], ~mesh'[n]
                 PROVE  \/ grafting[o] \/ Has(wire'[o], "graft")
                        \/ making'[n] > 0 \/ Has(wire[n], "prune")
      BY <1>0, <1>w, <2>1 DEF Settling
    <3>1. CASE m = "prune"
      <4>1. grafting[o] \/ HasAfter(wire[o], 1, "graft")
        BY <1>0, <1>a, <1>t, <3>1 DEF Superseded
      <4> QED BY <4>1, <1>b, <1>s
    <3>2. CASE m # "prune"
      BY <3>2, <1>s DEF Messages
    <3> QED BY <3>1, <3>2
  <2>2. CASE x = n
    <3> SUFFICES ASSUME mesh'[n], ~mesh[o]
                 PROVE  \/ grafting[n] \/ Has(wire[n], "graft")
                        \/ making[o] > 0 \/ Has(wire'[o], "prune")
      BY <1>0, <1>w, <2>2 DEF Settling, o
    <3>0. m = "graft"
      BY <1>s DEF Messages
    <3>1. CASE mesh[n]
      <4>1. \/ grafting[n] \/ Has(wire[n], "graft")
            \/ making[o] > 0 \/ Has(wire[o], "prune")
        BY <1>t, <3>1 DEF Settling, o
      <4> QED BY <4>1, <1>b, <1>s, <3>0
    <3>2. CASE ~PruneUnheard(n)
      <4>1. \/ making[o] > 0 \/ 1 <= earlier[n] \/ HasAfter(wire[o], 1, "prune")
        BY <1>0, <1>a, <1>t, <3>0 DEF Meant
      <4>2. ~(1 <= earlier[n])
        BY <3>2, <1>c DEF PruneUnheard
      <4> QED BY <4>1, <4>2, <1>b, <1>s
    <3> QED BY <3>1, <3>2
  <2>3. CASE x # o /\ x # n
    <3>1. Other(x) # n /\ Other(x) # o /\ Other(x) \in Nodes
      BY <2>3, <1>0, OtherFacts
    <3> QED BY <1>t, <1>w, <2>3, <3>1 DEF Settling
  <2> QED BY <2>1, <2>2, <2>3
<1> QED BY <1>2, <1>3, <1>4 DEF Told

(* A PRUNE is made with a backoff, but for v1.0 peers, and the backoff     *)
(* outlasts the PRUNE.                                                     *)
LEMMA ObeyedStep == TypeOK /\ Obeyed /\ [Next]_vars => Obeyed'
<1> SUFFICES ASSUME TypeOK, Obeyed, [Next]_vars,
                    NEW x \in Nodes \ Old, PruneUnheard(x)'
             PROVE  backoff'[x] = "running" /\ ~mesh'[x]
  BY DEF Obeyed
<1>0. PruneUnheard(x) => backoff[x] = "running" /\ ~mesh[x]
  BY DEF Obeyed
<1>1. CASE UNCHANGED vars
  BY <1>0, <1>1 DEF vars, PruneUnheard
<1>2. ASSUME NEW n \in Nodes, NEW m \in Messages, NEW c, Send(n, m, c), UNCHANGED earlier,
             making'[x] > 0 => making[x] > 0,
             m = "prune" => making[n] > 0
      PROVE  PruneUnheard(x)
  <2>1. CASE UNCHANGED wire
    BY <1>2, <2>1 DEF PruneUnheard
  <2>2. CASE wire' = [wire EXCEPT ![n] = Append(@, m)]
    <3>1. CASE x # n
      <4>1. wire'[x] = wire[x]  BY <2>2, <3>1 DEF TypeOK
      <4> QED BY <1>2, <4>1 DEF PruneUnheard
    <3>2. CASE x = n /\ m # "prune"
      <4>1. wire'[x] = Append(wire[x], m) /\ wire[x] \in Seq(Messages)
        BY <2>2, <3>2 DEF TypeOK
      <4>2. \A i \in 1..Len(wire'[x]) : wire'[x][i] = "prune" => i \in 1..Len(wire[x]) /\ wire[x][i] = "prune"
        BY <4>1, <3>2, AppendFacts
      <4> QED BY <1>2, <4>2 DEF PruneUnheard
    <3>3. CASE x = n /\ m = "prune"
      BY <1>2, <3>3 DEF PruneUnheard
    <3> QED BY <3>1, <3>2, <3>3
  <2> QED BY <1>2, <2>1, <2>2 DEF Send
<1>3. ASSUME NEW n \in Nodes, NEW m \in Messages, Arrives(n, m),
             Handled(n) \/ (m = "prune" /\ PruneHandled(n)),
             making'[x] > 0 => making[x] > 0
      PROVE  PruneUnheard(x)
  <2> DEFINE o == Other(n)
  <2>0. o \in Nodes /\ o # n  BY OtherFacts
  <2>1. wire' = [wire EXCEPT ![o] = Tail(@)] /\ wire[o] \in Seq(Messages) /\ wire[o] # << >>
        /\ Head(wire[o]) = m
    BY <1>3, <2>0 DEF Handled, PruneHandled, Arrives, TypeOK
  <2>2. \A i \in 1..Len(wire'[x]) : wire'[x][i] = "prune" =>
          \E j \in 1..Len(wire[x]) : wire[x][j] = "prune"
    <3>1. CASE x # o
      <4>1. wire'[x] = wire[x]  BY <2>1, <3>1 DEF TypeOK
      <4> QED BY <4>1
    <3>2. CASE x = o
      <4>1. wire'[x] = Tail(wire[x])  BY <2>0, <2>1, <3>2 DEF TypeOK
      <4>2. Has(Tail(wire[x]), "prune") => Has(wire[x], "prune")
        BY <2>1, <3>2, TailKeeps DEF Messages
      <4> QED BY <4>1, <4>2 DEF Has
    <3> QED BY <3>1, <3>2
  <2>3. earlier'[x] > 0 => PruneUnheard(x)
    <3>1. earlier[x] \in Nat  BY PairAssumption DEF TypeOK
    <3>2. CASE x = n
      <4>1. earlier'[x] = Left(x)
        BY <1>3, <2>0, <3>2 DEF Handled, PruneHandled, TypeOK
      <4> QED BY <3>1, <4>1 DEF Left, PruneUnheard
    <3>3. CASE x = o /\ m = "prune"
      <4>1. 1 \in 1..Len(wire[o]) /\ wire[o][1] = "prune"
        BY <2>1, <3>3, TailFacts
      <4> QED BY <3>3, <4>1 DEF PruneUnheard
    <3>4. CASE x # n /\ ~(x = o /\ m = "prune")
      <4>1. earlier'[x] = earlier[x]
        BY <1>3, <2>0, <3>4 DEF Handled, PruneHandled, TypeOK
      <4> QED BY <4>1 DEF PruneUnheard
    <3> QED BY <3>2, <3>3, <3>4
  <2> QED BY <1>3, <2>2, <2>3 DEF PruneUnheard
<1>m. "graft" \in Messages /\ "prune" \in Messages  BY DEF Messages
<1>4. ASSUME NEW n \in Nodes, Join(n)  PROVE backoff'[x] = "running" /\ ~mesh'[x]
  <2>1. CASE UNCHANGED <<mesh, wire>>
    BY <1>0, <1>4, <2>1 DEF Join, PruneUnheard
  <2>2. CASE /\ backoff[n] = "none" /\ mesh' = [mesh EXCEPT ![n] = TRUE]
             /\ Send(n, "graft", n \in Old /\ making[n] > 0)
    <3>1. PruneUnheard(x)
      BY <1>2, <1>4, <1>m, <2>2 DEF Join
    <3>2. x # n
      BY <1>0, <2>2, <3>1
    <3> QED BY <1>0, <1>4, <2>2, <3>1, <3>2 DEF Join, TypeOK
  <2> QED BY <1>4, <2>1, <2>2 DEF Join
<1>5. ASSUME NEW n \in Nodes, Leave(n)  PROVE backoff'[x] = "running" /\ ~mesh'[x]
  <2>1. CASE x = n /\ mesh[n]
    BY <1>5, <2>1 DEF Leave, Backoff, TypeOK
  <2>2. CASE x = n /\ ~mesh[n]
    <3>1. PruneUnheard(x)  BY <1>5, <2>2 DEF Leave, PruneUnheard, TypeOK
    <3> QED BY <1>0, <1>5, <2>2, <3>1 DEF Leave, TypeOK
  <2>3. CASE x # n
    <3>1. PruneUnheard(x)  BY <1>5, <2>3 DEF Leave, PruneUnheard, TypeOK
    <3> QED BY <1>0, <1>5, <2>3, <3>1 DEF Leave, Backoff, TypeOK
  <2> QED BY <2>1, <2>2, <2>3
<1>6. ASSUME NEW n \in Nodes, HeartbeatPrunes(n)  PROVE backoff'[x] = "running" /\ ~mesh'[x]
  <2>1. CASE x = n
    BY <1>6, <2>1 DEF HeartbeatPrunes, Backoff, TypeOK
  <2>2. CASE x # n
    <3>1. PruneUnheard(x)  BY <1>6, <2>2 DEF HeartbeatPrunes, PruneUnheard, TypeOK
    <3> QED BY <1>0, <1>6, <2>2, <3>1 DEF HeartbeatPrunes, Backoff, TypeOK
  <2> QED BY <2>1, <2>2
<1>7. ASSUME NEW n \in Nodes, HeartbeatGrafts(n)  PROVE backoff'[x] = "running" /\ ~mesh'[x]
  <2>1. PruneUnheard(x)  BY <1>7 DEF HeartbeatGrafts, PruneUnheard
  <2>2. x # n  BY <1>0, <1>7, <2>1 DEF HeartbeatGrafts
  <2> QED BY <1>0, <1>7, <2>1, <2>2 DEF HeartbeatGrafts, TypeOK
<1>8. ASSUME NEW n \in Nodes, GraftGoesOut(n)  PROVE backoff'[x] = "running" /\ ~mesh'[x]
  <2>1. PruneUnheard(x)  BY <1>2, <1>8, <1>m DEF GraftGoesOut
  <2> QED BY <1>0, <1>8, <2>1 DEF GraftGoesOut
<1>9. ASSUME NEW n \in Nodes, PruneGoesOut(n)  PROVE backoff'[x] = "running" /\ ~mesh'[x]
  <2>0. making[x] \in Nat  BY PairAssumption DEF TypeOK
  <2>1. making'[x] > 0 => making[x] > 0
    BY <1>9, <2>0 DEF PruneGoesOut, TypeOK
  <2>2. PruneUnheard(x)  BY <1>2, <1>9, <1>m, <2>1 DEF PruneGoesOut
  <2> QED BY <1>0, <1>9, <2>2 DEF PruneGoesOut
<1>10. ASSUME NEW n \in Nodes, BackoffExpires(n) \/ BackoffCleared(n)
       PROVE  backoff'[x] = "running" /\ ~mesh'[x]
  <2>1. PruneUnheard(x)
    BY <1>10 DEF BackoffExpires, BackoffCleared, PruneUnheard
  <2>2. x # n
    BY <1>0, <1>10, <2>1 DEF BackoffExpires, BackoffCleared
  <2> QED BY <1>0, <1>10, <2>1, <2>2 DEF BackoffExpires, BackoffCleared, TypeOK
<1>11. ASSUME NEW n \in Nodes, HandleGraftIgnored(n) \/ HandleGraftAgain(n)
       PROVE  backoff'[x] = "running" /\ ~mesh'[x]
  <2>1. PruneUnheard(x)
    BY <1>3, <1>11, <1>m DEF HandleGraftIgnored, HandleGraftAgain
  <2> QED BY <1>0, <1>11, <2>1 DEF HandleGraftIgnored, HandleGraftAgain
<1>12. ASSUME NEW n \in Nodes, HandleGraftAccepted(n)  PROVE backoff'[x] = "running" /\ ~mesh'[x]
  <2>1. PruneUnheard(x)  BY <1>3, <1>12, <1>m DEF HandleGraftAccepted
  <2>2. x # n  BY <1>0, <1>12, <2>1 DEF HandleGraftAccepted
  <2> QED BY <1>0, <1>12, <2>1, <2>2 DEF HandleGraftAccepted, TypeOK
<1>13. ASSUME NEW n \in Nodes, HandleGraftRefused(n)  PROVE backoff'[x] = "running" /\ ~mesh'[x]
  <2>1. CASE x = n
    BY <1>13, <2>1 DEF HandleGraftRefused, Backoff, TypeOK
  <2>2. CASE x # n
    <3>0. making'[x] = making[x]  BY <1>13, <2>2 DEF HandleGraftRefused, TypeOK
    <3>1. PruneUnheard(x)  BY <1>3, <1>13, <1>m, <3>0 DEF HandleGraftRefused
    <3> QED BY <1>0, <1>13, <2>2, <3>1 DEF HandleGraftRefused, Backoff, TypeOK
  <2> QED BY <2>1, <2>2
<1>14. ASSUME NEW n \in Nodes, HandlePrune(n)  PROVE backoff'[x] = "running" /\ ~mesh'[x]
  <2>1. PruneUnheard(x)  BY <1>3, <1>14, <1>m DEF HandlePrune
  <2> QED BY <1>0, <1>14, <2>1 DEF HandlePrune, Backoff, TypeOK
<1> QED
  BY <1>1, <1>4, <1>5, <1>6, <1>7, <1>8, <1>9, <1>10, <1>11, <1>12, <1>13, <1>14 DEF Next

(* The initial states have it.                                             *)
LEMMA TypeAtFirst == Init => TypeOK
<1> SUFFICES ASSUME Init PROVE TypeOK
  OBVIOUS
<1>1. << >> \in Seq(Messages) /\ Len(<< >>) = 0
  OBVIOUS
<1>2. wire \in [Nodes -> Seq(Messages)] /\ \A n \in Nodes : Len(wire[n]) <= MaxWire
  BY <1>1, PairAssumption DEF Init
<1>3. making \in [Nodes -> 0..MaxOwed] /\ earlier \in [Nodes -> 0..MaxWire]
  BY PairAssumption DEF Init
<1>4. /\ joined \in [Nodes -> BOOLEAN] /\ mesh \in [Nodes -> BOOLEAN]
      /\ grafting \in [Nodes -> BOOLEAN] /\ excused \in BOOLEAN
      /\ backoff \in [Nodes -> {"none", "running", "expired"}]
      /\ \A n \in Nodes : mesh[n] => joined[n]
  BY DEF Init
<1> QED BY <1>2, <1>3, <1>4 DEF TypeOK

(* Everything keeps its type, whatever is sent and lost. *)
THEOREM TypeCorrect == Spec => []TypeOK
<1> QED BY TypeAtFirst, TypeStep, PTL DEF Spec

(* Every step leaves the two told, unless it gives an excuse. *)
LEMMA ToldStep == TypeOK' /\ Inv /\ [Next]_vars /\ ~excused' => Told'
<1> SUFFICES ASSUME TypeOK', Inv, [Next]_vars, ~excused' PROVE Told'
  OBVIOUS
<1>0. TypeOK /\ Obeyed  BY DEF Inv
<1>1. CASE UNCHANGED vars
  <2>1. Told  BY <1>1 DEF Inv, vars
  <2> QED BY <1>1, <2>1 DEF vars, Told, Superseded, Meant, Settling
<1>t. ASSUME NEW c \in BOOLEAN, Excuse(c)  PROVE ~c /\ Told
  BY <1>t, ToldBefore
<1>s. ASSUME NEW n \in Nodes, NEW m, NEW c \in BOOLEAN, Send(n, m, c)
      PROVE  wire' = [wire EXCEPT ![n] = Append(@, m)] /\ ~c /\ Told
  <2>1. ~Excuse(TRUE)  BY <1>t
  <2> QED BY <1>s, <1>t, <2>1 DEF Send
<1>2. ASSUME NEW n \in Nodes, Join(n)  PROVE Told'
  <2>1. CASE UNCHANGED <<mesh, wire>> /\ Excuse(FALSE)
    <3>1. Told  BY <1>t, <2>1
    <3> QED BY <1>2, <2>1, <3>1 DEF Join, Told, Superseded, Meant, Settling
  <2>2. CASE /\ backoff[n] = "none" /\ mesh' = [mesh EXCEPT ![n] = TRUE]
             /\ Send(n, "graft", n \in Old /\ making[n] > 0)
    <3>1. /\ wire' = [wire EXCEPT ![n] = Append(@, "graft")] /\ Told
          /\ ~(n \in Old /\ making[n] > 0)
      BY <1>s, <2>2
    <3>2. n \notin Old => ~PruneUnheard(n)
      BY <1>0, <2>2 DEF Obeyed
    <3>3. making[n] = 0
      <4>1. making[n] \in Nat  BY <1>0, PairAssumption DEF TypeOK
      <4> QED BY <3>1, <3>2, <4>1 DEF PruneUnheard
    <3> QED BY <1>0, <1>2, <2>2, <3>1, <3>3, GraftSentStep DEF Join
  <2> QED BY <1>2, <2>1, <2>2 DEF Join
<1>3. ASSUME NEW n \in Nodes, Leave(n) \/ HeartbeatPrunes(n)  PROVE Told'
  <2>1. Told  BY <1>3, <1>t DEF Leave, HeartbeatPrunes
  <2>2. making[n] \in Nat  BY <1>0, PairAssumption DEF TypeOK
  <2>3. /\ ~mesh'[n] /\ \A x \in Nodes \ {n} : mesh'[x] = mesh[x] /\ making'[x] = making[x]
        /\ making'[n] = IF mesh[n] THEN making[n] + 1 ELSE making[n]
        /\ UNCHANGED <<wire, earlier, grafting>>
    BY <1>0, <1>3 DEF Leave, HeartbeatPrunes, TypeOK
  <2> QED BY <1>0, <2>1, <2>2, <2>3, LocalStep
<1>4. ASSUME NEW n \in Nodes, HeartbeatGrafts(n)  PROVE Told'
  <2>1. Told  BY <1>4, <1>t DEF HeartbeatGrafts
  <2>2. making[n] \in Nat  BY <1>0, PairAssumption DEF TypeOK
  <2>3. /\ ~mesh[n] /\ mesh'[n] /\ grafting'[n]
        /\ \A x \in Nodes \ {n} : mesh'[x] = mesh[x] /\ grafting'[x] = grafting[x]
        /\ UNCHANGED <<wire, earlier, making>>
    BY <1>0, <1>4 DEF HeartbeatGrafts, TypeOK
  <2> QED BY <1>0, <2>1, <2>2, <2>3, LocalStep
<1>5. ASSUME NEW n \in Nodes, BackoffExpires(n) \/ BackoffCleared(n)  PROVE Told'
  <2>1. Told  BY <1>5, <1>t DEF BackoffExpires, BackoffCleared
  <2> QED BY <1>5, <2>1 DEF BackoffExpires, BackoffCleared, Told, Superseded, Meant, Settling
<1>6. ASSUME NEW n \in Nodes, GraftGoesOut(n)  PROVE Told'
  <2>1. /\ wire' = [wire EXCEPT ![n] = Append(@, "graft")] /\ Told
        /\ mesh[n] /\ ~(n \in Old /\ making[n] > 0)
    BY <1>6, <1>s DEF GraftGoesOut
  <2>2. making[n] = 0
    <3>1. making[n] \in Nat  BY <1>0, PairAssumption DEF TypeOK
    <3>2. n \notin Old => ~PruneUnheard(n)  BY <1>0, <2>1 DEF Obeyed
    <3> QED BY <2>1, <3>1, <3>2 DEF PruneUnheard
  <2>3. mesh' = [mesh EXCEPT ![n] = TRUE]
    BY <1>0, <1>6, <2>1 DEF GraftGoesOut, TypeOK
  <2>4. \A x \in Nodes \ {n} : grafting'[x] = grafting[x]
    BY <1>0, <1>6 DEF GraftGoesOut, TypeOK
  <2> QED BY <1>0, <1>6, <2>1, <2>2, <2>3, <2>4, GraftSentStep DEF GraftGoesOut
<1>7. ASSUME NEW n \in Nodes, PruneGoesOut(n)  PROVE Told'
  <2>1. wire' = [wire EXCEPT ![n] = Append(@, "prune")] /\ Told
    BY <1>7, <1>s DEF PruneGoesOut
  <2> QED BY <1>0, <1>7, <2>1, PruneSentStep DEF PruneGoesOut
<1>h. ASSUME NEW n \in Nodes, Handled(n)
      PROVE  /\ wire' = [wire EXCEPT ![Other(n)] = Tail(@)] /\ earlier'[n] = Left(n)
             /\ \A x \in Nodes \ {n} : earlier'[x] = earlier[x]
             /\ earlier'[Other(n)] = earlier[Other(n)]
  BY <1>0, <1>h, OtherFacts DEF Handled, TypeOK
<1>m. "graft" \in Messages /\ "prune" \in Messages /\ "graft" # "prune"
  BY DEF Messages
<1>8. ASSUME NEW n \in Nodes, HandleGraftIgnored(n)  PROVE Told'
  BY <1>8, <1>t DEF HandleGraftIgnored
<1>9. ASSUME NEW n \in Nodes, HandleGraftAgain(n)  PROVE Told'
  <2>1. Told /\ Arrives(n, "graft") /\ Handled(n) /\ mesh[n]
        /\ UNCHANGED <<mesh, making, grafting>>
    BY <1>9, <1>t DEF HandleGraftAgain
  <2>2. making[n] \in Nat  BY <1>0, PairAssumption DEF TypeOK
  <2> QED BY <1>0, <1>h, <1>m, <2>1, <2>2, TakenStep
<1>10. ASSUME NEW n \in Nodes, HandleGraftAccepted(n)  PROVE Told'
  <2>1. Told /\ Arrives(n, "graft") /\ Handled(n) /\ UNCHANGED <<making, grafting>>
        /\ ~(n \in Old /\ PruneUnheard(n))
    BY <1>10, <1>t DEF HandleGraftAccepted
  <2>2. ~PruneUnheard(n)
    BY <1>0, <1>10, <2>1 DEF HandleGraftAccepted, Obeyed
  <2>3. mesh'[n] /\ \A x \in Nodes \ {n} : mesh'[x] = mesh[x]
    BY <1>0, <1>10 DEF HandleGraftAccepted, TypeOK
  <2>4. making[n] \in Nat  BY <1>0, PairAssumption DEF TypeOK
  <2> QED BY <1>0, <1>h, <1>m, <2>1, <2>2, <2>3, <2>4, TakenStep
<1>11. ASSUME NEW n \in Nodes, HandleGraftRefused(n)  PROVE Told'
  <2>1. Told /\ Arrives(n, "graft") /\ Handled(n) /\ UNCHANGED <<mesh, grafting>> /\ ~mesh[n]
    BY <1>11, <1>t DEF HandleGraftRefused
  <2>2. making'[n] = making[n] + 1 /\ \A x \in Nodes \ {n} : making'[x] = making[x]
    BY <1>0, <1>11 DEF HandleGraftRefused, TypeOK
  <2>4. making[n] \in Nat  BY <1>0, PairAssumption DEF TypeOK
  <2> QED BY <1>0, <1>h, <1>m, <2>1, <2>2, <2>4, TakenStep
<1>12. ASSUME NEW n \in Nodes, HandlePrune(n)  PROVE Told'
  <2>1. Told /\ Arrives(n, "prune") /\ PruneHandled(n) /\ UNCHANGED <<making, grafting>>
    BY <1>12, <1>t DEF HandlePrune
  <2>2. ~mesh'[n] /\ \A x \in Nodes \ {n} : mesh'[x] = mesh[x]
    BY <1>0, <1>12 DEF HandlePrune, TypeOK
  <2>3. /\ wire' = [wire EXCEPT ![Other(n)] = Tail(@)] /\ earlier'[n] = Left(n)
        /\ \A x \in Nodes \ {n, Other(n)} : earlier'[x] = earlier[x]
        /\ earlier'[Other(n)] = Len(wire[n])
    BY <1>0, <2>1, OtherFacts DEF PruneHandled, TypeOK
  <2>4. making[n] \in Nat  BY <1>0, PairAssumption DEF TypeOK
  <2>5. /\ \A x \in Nodes \ {n} : mesh'[x] = mesh[x] /\ making'[x] = making[x]
        /\ making'[n] \in Int /\ making'[n] >= making[n] /\ grafting' = grafting
    BY <2>1, <2>2, <2>4
  <2> DEFINE p == "prune"
  <2>6. /\ p \in Messages /\ Arrives(n, p) /\ p = "prune" /\ p # "graft"
        /\ earlier'[Other(n)] = IF p = "prune" THEN Len(wire[n]) ELSE earlier[Other(n)]
    BY <1>m, <2>1, <2>3
  <2> HIDE DEF p
  <2> QED BY <1>0, <2>1, <2>2, <2>3, <2>5, <2>6, TakenStep
<1> QED
  BY <1>1, <1>2, <1>3, <1>4, <1>5, <1>6, <1>7, <1>8, <1>9, <1>10, <1>11, <1>12 DEF Next

(* Both have the link or neither, once all is handled: for any pair of     *)
(* routers, but for the exceptions LinkIsTwoSided names.                   *)
THEOREM LinksTwoSided == Spec => []LinkIsTwoSided
<1>1. Init => Inv
  <2> SUFFICES ASSUME Init PROVE Inv
    OBVIOUS
  <2>1. \A n \in Nodes : /\ ~mesh[n] /\ making[n] = 0 /\ earlier[n] = 0
                         /\ Len(wire[n]) = 0
    BY DEF Init
  <2>2. Obeyed  BY <2>1 DEF Obeyed, PruneUnheard
  <2>3. \A n \in Nodes : Superseded(n) /\ Settling(n)
    BY <2>1 DEF Superseded, Settling
  <2>4. \A n \in Nodes : Meant(n)
    BY <2>1 DEF Meant
  <2> QED BY <2>2, <2>3, <2>4, TypeAtFirst DEF Inv, Told
<1>2. Inv /\ [Next]_vars => Inv'
  BY TypeStep, ObeyedStep, ToldStep DEF Inv
<1>3. Inv => LinkIsTwoSided
  <2> SUFFICES ASSUME Inv, Quiet, ~excused, NEW n \in Nodes  PROVE mesh[n] = mesh[Other(n)]
    BY DEF LinkIsTwoSided, Agree
  <2> DEFINE o == Other(n)
  <2>0. o \in Nodes /\ Other(o) = n  BY OtherFacts
  <2>1. \A x \in Nodes : Len(wire[x]) = 0 /\ making[x] = 0 /\ ~grafting[x]
    BY DEF Quiet
  <2>2. Settling(n) /\ Settling(o)  BY <2>0 DEF Inv, Told
  <2>3. mesh[n] => mesh[o]  BY <2>0, <2>1, <2>2 DEF Settling, Has
  <2>4. mesh[o] => mesh[n]  BY <2>0, <2>1, <2>2 DEF Settling, Has
  <2>5. mesh[n] \in BOOLEAN /\ mesh[o] \in BOOLEAN
    BY <2>0, Zenon DEF Inv, TypeOK
  <2> QED BY <2>3, <2>4, <2>5
<1> QED BY <1>1, <1>2, <1>3, PTL DEF Spec

(* ----------------------------- the promise kept -------------------------- *)

(* Each end of the link as MeshLinks sees it: its quiet time is as long as *)
(* the backoff counts for a GRAFT received.  The two are connected from    *)
(* the start, so of MeshLinks it is the steps that are implemented.        *)
End(n) == INSTANCE MeshLinks WITH
  Peers <- {Other(n)}, Topics <- {"topic"}, Direct <- {}, MinQuiet <- 1,
  V10 <- IF n \in Old THEN {Other(n)} ELSE {},
  members <- {Other(n)},
  active <- IF joined[n] THEN {"topic"} ELSE {},
  links <- [t \in {"topic"} |-> IF mesh[n] THEN {Other(n)} ELSE {}],
  quiet <- [t \in {"topic"} |-> [p \in {Other(n)} |-> IF backoff[n] = "running" THEN 1 ELSE 0]]

(* No step of either router is one that MeshLinks forbids it.              *)
EndsKeepPromise == [][\A n \in Nodes : End(n)!Next]_vars

(* What End(n)!Change asks of a step. *)
Allowed(n) ==
  /\ mesh'[n] /\ ~mesh[n] => backoff[n] # "running"
  /\ mesh[n] /\ ~mesh'[n] => (n \in Old /\ ~joined'[n]) \/ backoff'[n] = "running"
  /\ backoff[n] = "running" => backoff'[n] = "running"

LEMMA AllowedIsChange ==
  ASSUME NEW n \in Nodes, Allowed(n), mesh[n] \in BOOLEAN, mesh'[n] \in BOOLEAN
  PROVE  End(n)!Change
<1> SUFFICES ASSUME NEW t \in {"topic"}, NEW p \in {Other(n)}
             PROVE  /\ End(n)!ComesUp(p, t) => p \notin {} /\ ~(backoff[n] = "running")
                    /\ End(n)!GoesDown(p, t) => End(n)!Excused(p, t) \/ backoff'[n] = "running"
                    /\ backoff[n] = "running" => backoff'[n] = "running"
  BY DEF End!Change
<1>1. End(n)!ComesUp(p, t) => mesh'[n] /\ ~mesh[n]
  BY DEF End!ComesUp
<1>2. End(n)!GoesDown(p, t) => mesh[n] /\ ~mesh'[n]
  BY DEF End!GoesDown
<1>3. n \in Old /\ ~joined'[n] => End(n)!Excused(p, t)
  BY DEF End!Excused
<1> QED BY <1>1, <1>2, <1>3 DEF Allowed

(* Every step but the expiry of a backoff is a change MeshLinks allows.    *)
LEMMA StepIsAllowed ==
  ASSUME TypeOK, NEW n \in Nodes, NEW x \in Nodes,
         \/ Join(n) \/ Leave(n)
         \/ HeartbeatPrunes(n) \/ HeartbeatGrafts(n) \/ GraftGoesOut(n) \/ PruneGoesOut(n)
         \/ BackoffCleared(n)
         \/ HandleGraftIgnored(n) \/ HandleGraftAgain(n)
         \/ HandleGraftAccepted(n) \/ HandleGraftRefused(n) \/ HandlePrune(n)
  PROVE  Allowed(x)
<1>0. /\ mesh \in [Nodes -> BOOLEAN] /\ joined \in [Nodes -> BOOLEAN]
      /\ backoff \in [Nodes -> {"none", "running", "expired"}]
      /\ \A y \in Nodes : mesh[y] => joined[y]
  BY DEF TypeOK
<1>1. CASE Join(n)
  BY <1>0, <1>1 DEF Join, Allowed
<1>2. CASE Leave(n)
  BY <1>0, <1>2 DEF Leave, Allowed, Backoff
<1>3. CASE HeartbeatPrunes(n)
  BY <1>0, <1>3 DEF HeartbeatPrunes, Allowed, Backoff
<1>4. CASE HeartbeatGrafts(n)
  BY <1>0, <1>4 DEF HeartbeatGrafts, Allowed
<1>5. CASE GraftGoesOut(n) \/ PruneGoesOut(n) \/ HandleGraftIgnored(n) \/ HandleGraftAgain(n)
  BY <1>5 DEF GraftGoesOut, PruneGoesOut, HandleGraftIgnored, HandleGraftAgain, Allowed
<1>6. CASE BackoffCleared(n)
  BY <1>0, <1>6 DEF BackoffCleared, Allowed
<1>7. CASE HandleGraftAccepted(n)
  BY <1>0, <1>7 DEF HandleGraftAccepted, Allowed
<1>8. CASE HandleGraftRefused(n)
  BY <1>0, <1>8 DEF HandleGraftRefused, Allowed, Backoff
<1>9. CASE HandlePrune(n)
  BY <1>0, <1>9 DEF HandlePrune, Allowed, Backoff
<1> QED BY <1>1, <1>2, <1>3, <1>4, <1>5, <1>6, <1>7, <1>8, <1>9

(* Time passes for the link of one router.                                 *)
LEMMA ExpiryElapses ==
  ASSUME TypeOK, NEW n \in Nodes, BackoffExpires(n)
  PROVE  End(n)!Elapse
<1>1. backoff[n] = "running" /\ backoff'[n] = "expired" /\ mesh' = mesh /\ joined' = joined
  BY DEF BackoffExpires, TypeOK
<1> QED BY <1>1 DEF End!Elapse

(* Each end of the link keeps the promise MeshRouter's meshes keep: it     *)
(* takes the other one only when it is not backed off, leaves it only with *)
(* a backoff (or a topic, with a v1.0 peer), and forgets a backoff only    *)
(* when it expires, whatever is lost or crosses on the way.                *)
THEOREM EndsImplementLinks == Spec => EndsKeepPromise
<1>1. ASSUME TypeOK, TypeOK', [Next]_vars
      PROVE  [\A n \in Nodes : End(n)!Next]_vars
  <2> SUFFICES ASSUME Next, NEW x \in Nodes  PROVE End(x)!Next
    BY <1>1
  <2>0. mesh[x] \in BOOLEAN /\ mesh'[x] \in BOOLEAN
    BY <1>1, Zenon DEF TypeOK
  <2>1. ASSUME Allowed(x)  PROVE End(x)!Next
    BY <2>0, <2>1, AllowedIsChange DEF End!Next
  <2>2. PICK n \in Nodes :
          \/ BackoffExpires(n)
          \/ \/ Join(n) \/ Leave(n)
             \/ HeartbeatPrunes(n) \/ HeartbeatGrafts(n) \/ GraftGoesOut(n) \/ PruneGoesOut(n)
             \/ BackoffCleared(n)
             \/ HandleGraftIgnored(n) \/ HandleGraftAgain(n)
             \/ HandleGraftAccepted(n) \/ HandleGraftRefused(n) \/ HandlePrune(n)
    BY Zenon DEF Next
  <2>3. CASE BackoffExpires(n) /\ x = n
    BY <1>1, <2>3, ExpiryElapses DEF End!Next
  <2>4. CASE BackoffExpires(n) /\ x # n
    <3>1. mesh'[x] = mesh[x] /\ backoff'[x] = backoff[x]
      BY <1>1, <2>4 DEF BackoffExpires, TypeOK
    <3> QED BY <2>1, <3>1 DEF Allowed
  <2>5. CASE ~BackoffExpires(n)
    BY <1>1, <2>1, <2>2, <2>5, StepIsAllowed
  <2> QED BY <2>3, <2>4, <2>5
<1>2. TypeOK /\ TypeOK' /\ [Next]_vars => [\A n \in Nodes : End(n)!Next]_vars
  BY <1>1
<1> QED BY <1>2, TypeCorrect, PTL DEF Spec, EndsKeepPromise
===============================================================================
