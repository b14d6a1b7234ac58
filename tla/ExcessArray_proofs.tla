--------------------------- MODULE ExcessArray_proofs ---------------------------
(***************************************************************************)
(* Proofs about ExcessArray, for meshes of any size and any degrees: the   *)
(* two loops over the array leave whom the shuffled array chose, and the   *)
(* choices of all shuffled arrays are what ExcessKept allows.              *)
(***************************************************************************)
EXTENDS ExcessArray, FiniteSetTheorems, FunctionTheorems, SequenceTheorems, TLAPS

N == Cardinality(Peers)

(* The array holds every mesh peer once.                                   *)
IsOrder(a) == a \in [1..N -> Peers] /\ \A i, j \in 1..N : i # j => a[i] # a[j]

(* The selection: what would be kept if the array stayed as it is.         *)
Selection(a) == {a[j] : j \in 1..D}

(* Up to index k all outbound peers come before all others.                *)
OutboundFirst(a, k) == \A i, j \in 1..k : i < j /\ a[j] \in outbound => a[i] \in outbound

(* What the rotations leave of the shuffle: those that are not outbound    *)
(* stand as they stood.                                                    *)
OthersInOrder(a) ==
  \A i, j, k, l \in 1..N :
    i < j /\ a[i] \notin outbound /\ a[j] \notin outbound /\ a[i] = order[k] /\ a[j] = order[l]
      => k < l

(* K is what is kept of the array a, said of the peers one by one: a peer  *)
(* stays if one that is not outbound stays behind it, and comes in if one  *)
(* comes in from further out.                                              *)
Leaves(a, K) ==
  \/ OutboundKept(a, outbound) >= Dout /\ K = Selection(a)
  \/ /\ OutboundKept(a, outbound) < Dout
     /\ K \subseteq Peers /\ Cardinality(K) = D
     /\ Selection(a) \cap outbound \subseteq K
     /\ K \ Selection(a) \subseteq outbound
     /\ Cardinality(K \ Selection(a))
          = Smaller(D - OutboundKept(a, outbound), Cardinality((Peers \ Selection(a)) \cap outbound))
     /\ \A i, j \in 1..D : i < j /\ a[j] \in K \ outbound => a[i] \in K
     /\ \A i, j \in (D + 1)..N : i < j /\ a[j] \in K /\ a[i] \in outbound => a[i] \in K

-----------------------------------------------------------------------------

LEMMA Sizes ==
  /\ N \in Nat /\ D \in Nat /\ D >= 1 /\ D < N /\ Dscore \in Nat /\ Dout \in Nat
  /\ Dscore <= D /\ Dout <= D
<1>1. N \in Nat
  BY MeshAssumption, FS_CardinalityType DEF N
<1> QED
  BY <1>1, MeshAssumption DEF N

LEMMA SubsetSize ==
  ASSUME NEW B, IsFiniteSet(B), NEW A, A \subseteq B
  PROVE  /\ IsFiniteSet(A) /\ Cardinality(A) <= Cardinality(B)
         /\ Cardinality(A) \in Nat /\ Cardinality(B) \in Nat
         /\ Cardinality(A) = Cardinality(B) => A = B
<1>1. A \in SUBSET B
  OBVIOUS
<1>2. IsFiniteSet(A) /\ Cardinality(A) <= Cardinality(B) /\ (Cardinality(B) = Cardinality(A) => B = A)
  BY <1>1, FS_Subset
<1> QED
  BY <1>2, FS_CardinalityType

(* As many different elements as indices.                                  *)
LEMMA ImageSize ==
  ASSUME NEW I, IsFiniteSet(I), NEW f, \A i, j \in I : i # j => f[i] # f[j]
  PROVE  IsFiniteSet({f[i] : i \in I}) /\ Cardinality({f[i] : i \in I}) = Cardinality(I)
<1> DEFINE T == {f[i] : i \in I}
           g == [i \in I |-> f[i]]
<1>1. g \in [I -> T] /\ \A i, j \in I : g[i] = g[j] => i = j
  OBVIOUS
<1>2. \A t \in T : \E i \in I : g[i] = t
  OBVIOUS
<1>3. g \in Bijection(I, T)
  BY <1>1, <1>2, Fun_IsBij
<1>4. ExistsBijection(I, T)
  BY <1>3 DEF ExistsBijection
<1> QED
  BY <1>4, FS_Bijection

LEMMA PrefixSize ==
  ASSUME NEW a, IsOrder(a), NEW n \in 0..N
  PROVE  /\ {a[j] : j \in 1..n} \subseteq Peers
         /\ Cardinality({a[j] : j \in 1..n}) = n
<1>1. IsFiniteSet(1..n) /\ Cardinality(1..n) = n
  BY Sizes, FS_Interval
<1>2. \A i, j \in 1..n : i # j => a[i] # a[j]
  BY Sizes DEF IsOrder
<1>3. Cardinality({a[j] : j \in 1..n}) = n
  BY <1>1, <1>2, ImageSize
<1>4. {a[j] : j \in 1..n} \subseteq Peers
  BY Sizes DEF IsOrder
<1> QED
  BY <1>3, <1>4

LEMMA OrderCovers ==
  ASSUME NEW a, IsOrder(a)
  PROVE  \A p \in Peers : \E i \in 1..N : a[i] = p
<1>1. {a[j] : j \in 1..N} \subseteq Peers /\ Cardinality({a[j] : j \in 1..N}) = N
  BY Sizes, PrefixSize
<1>2. {a[j] : j \in 1..N} = Peers
  BY <1>1, MeshAssumption, SubsetSize DEF N
<1> QED
  BY <1>2

-----------------------------------------------------------------------------

(* What rotate does to the array, index by index.                          *)
LEMMA RotateOrder ==
  ASSUME NEW a, IsOrder(a), NEW k \in 1..N
  PROVE  LET b == Rotate(a, k)
         IN  /\ IsOrder(b)
             /\ b[1] = a[k]
             /\ \A j \in 2..k : b[j] = a[j - 1]
             /\ \A j \in (k + 1)..N : b[j] = a[j]
<1> DEFINE b == Rotate(a, k)
           from(j) == IF j > k THEN j ELSE IF j = 1 THEN k ELSE j - 1
<1>1. DOMAIN a = 1..N /\ N \in Nat
  BY Sizes DEF IsOrder
<1>2. \A j \in 1..N : from(j) \in 1..N
  BY <1>1
<1>3. b = [j \in 1..N |-> a[from(j)]]
  BY <1>1 DEF Rotate
<1>4. \A i, j \in 1..N : i # j => from(i) # from(j)
  BY <1>1
<1>5. \A i \in 1..N : a[i] \in Peers
  BY DEF IsOrder
<1>6. IsOrder(b)
  <2> HIDE DEF from
  <2>1. b \in [1..N -> Peers]
    BY <1>2, <1>3, <1>5
  <2>2. \A i, j \in 1..N : i # j => b[i] # b[j]
    BY <1>2, <1>3, <1>4 DEF IsOrder
  <2> QED
    BY <2>1, <2>2 DEF IsOrder
<1>7. b[1] = a[k] /\ (\A j \in 2..k : b[j] = a[j - 1]) /\ (\A j \in (k + 1)..N : b[j] = a[j])
  BY <1>1, <1>3
<1> QED
  BY <1>6, <1>7

(* Rotating an outbound peer keeps the order of the others.                *)
LEMMA RotateOthers ==
  ASSUME NEW a, IsOrder(a), NEW k \in 1..N, a[k] \in outbound, OthersInOrder(a)
  PROVE  OthersInOrder(Rotate(a, k))
<1> DEFINE b == Rotate(a, k)
<1>1. /\ b[1] = a[k]
      /\ \A j \in 2..k : b[j] = a[j - 1]
      /\ \A j \in (k + 1)..N : b[j] = a[j]
  BY RotateOrder
<1> HIDE DEF b
<1> SUFFICES ASSUME NEW i \in 1..N, NEW j \in 1..N, NEW u \in 1..N, NEW v \in 1..N, i < j,
                    b[i] \notin outbound, b[j] \notin outbound, b[i] = order[u], b[j] = order[v]
             PROVE  u < v
  BY DEF OthersInOrder, b
<1>2. i # 1 /\ j # 1
  BY <1>1
<1>3. PICK x \in 1..N, y \in 1..N : x < y /\ b[i] = a[x] /\ b[j] = a[y]
  <2>1. CASE j <= k
    <3>1. i - 1 \in 1..N /\ j - 1 \in 1..N /\ i - 1 < j - 1 /\ b[i] = a[i - 1] /\ b[j] = a[j - 1]
      BY <1>1, <1>2, <2>1, Sizes
    <3> QED
      BY <3>1
  <2>2. CASE i <= k /\ j > k
    <3>1. i - 1 \in 1..N /\ i - 1 < j /\ b[i] = a[i - 1] /\ b[j] = a[j]
      BY <1>1, <1>2, <2>2, Sizes
    <3> QED
      BY <3>1
  <2>3. CASE i > k
    BY <1>1, <2>3, Sizes
  <2> QED
    BY <2>1, <2>2, <2>3, Sizes
<1> QED
  BY <1>3 DEF OthersInOrder

(* Rotating an outbound peer from index k on to the front keeps outbound   *)
(* peers first.                                                            *)
LEMMA RotateOutboundFirst ==
  ASSUME NEW a, IsOrder(a), NEW k \in 1..N, a[k] \in outbound,
         NEW n \in 0..(k - 1), OutboundFirst(a, n)
  PROVE  OutboundFirst(Rotate(a, k), n + 1)
<1> DEFINE b == Rotate(a, k)
<1>1. /\ b[1] = a[k]
      /\ \A j \in 2..k : b[j] = a[j - 1]
  BY RotateOrder
<1> HIDE DEF b
<1> SUFFICES ASSUME NEW i \in 1..(n + 1), NEW j \in 1..(n + 1), i < j, b[j] \in outbound
             PROVE  b[i] \in outbound
  BY DEF OutboundFirst, b
<1>2. CASE i = 1
  BY <1>1, <1>2
<1>3. CASE i # 1
  <2>1. i \in 2..k /\ j \in 2..k /\ i - 1 \in 1..n /\ j - 1 \in 1..n /\ i - 1 < j - 1
    BY <1>3, Sizes
  <2>2. b[i] = a[i - 1] /\ b[j] = a[j - 1]
    BY <1>1, <2>1
  <2> QED
    BY <2>1, <2>2 DEF OutboundFirst
<1> QED
  BY <1>2, <1>3

(* Rotating within the selection keeps it, rotating into it exchanges its  *)
(* last peer.                                                              *)
LEMMA RotateSelection ==
  ASSUME NEW a, IsOrder(a), NEW k \in 1..N
  PROVE  /\ k <= D => Selection(Rotate(a, k)) = Selection(a)
         /\ k > D => Selection(Rotate(a, k)) = (Selection(a) \ {a[D]}) \cup {a[k]}
<1> DEFINE b == Rotate(a, k)
<1>1. /\ b[1] = a[k]
      /\ \A j \in 2..k : b[j] = a[j - 1]
      /\ \A j \in (k + 1)..N : b[j] = a[j]
  BY RotateOrder
<1> HIDE DEF b
<1>2. CASE k <= D
  <2>1. ASSUME NEW j \in 1..D PROVE b[j] \in Selection(a)
    <3>1. \/ b[j] = a[k] /\ k \in 1..D
          \/ j - 1 \in 1..D /\ b[j] = a[j - 1]
          \/ b[j] = a[j]
      BY <1>1, <1>2, Sizes
    <3> QED
      BY <3>1 DEF Selection
  <2>2. ASSUME NEW j \in 1..D PROVE a[j] \in Selection(b)
    <3>1. \/ a[j] = b[1] /\ 1 \in 1..D
          \/ j + 1 \in 1..D /\ a[j] = b[j + 1]
          \/ a[j] = b[j]
      <4>1. CASE j < k
        <5>1. j + 1 \in 2..k /\ j + 1 \in 1..D /\ (j + 1) - 1 = j
          BY <1>2, <4>1, Sizes
        <5> QED
          BY <1>1, <5>1
      <4>2. CASE j >= k
        BY <1>1, <1>2, <4>2, Sizes
      <4> QED
        BY <4>1, <4>2
    <3> QED
      BY <3>1 DEF Selection
  <2> QED
    BY <1>2, <2>1, <2>2, Sizes DEF Selection, b
<1>3. CASE k > D
  <2>1. ASSUME NEW j \in 1..D PROVE b[j] \in (Selection(a) \ {a[D]}) \cup {a[k]}
    <3>1. CASE j = 1
      BY <1>1, <3>1
    <3>2. CASE j # 1
      <4>1. j \in 2..k /\ j - 1 \in 1..D /\ j - 1 # D /\ j - 1 \in 1..N /\ D \in 1..N
        BY <1>3, <3>2, Sizes
      <4>2. b[j] = a[j - 1] /\ a[j - 1] # a[D]
        BY <1>1, <4>1 DEF IsOrder
      <4> QED
        BY <4>1, <4>2 DEF Selection
    <3> QED
      BY <3>1, <3>2
  <2>2. a[k] \in Selection(b)
    BY <1>1, Sizes DEF Selection
  <2>3. ASSUME NEW j \in 1..D, a[j] # a[D] PROVE a[j] \in Selection(b)
    <3>1. j + 1 \in 1..D /\ j + 1 \in 2..k /\ (j + 1) - 1 = j
      BY <1>3, <2>3, Sizes
    <3>2. b[j + 1] = a[j]
      BY <1>1, <3>1
    <3> QED
      BY <3>1, <3>2 DEF Selection
  <2>4. Selection(b) \subseteq (Selection(a) \ {a[D]}) \cup {a[k]}
    BY <2>1 DEF Selection
  <2>5. (Selection(a) \ {a[D]}) \cup {a[k]} \subseteq Selection(b)
    BY <2>2, <2>3 DEF Selection
  <2>6. Selection(b) = (Selection(a) \ {a[D]}) \cup {a[k]}
    BY <2>4, <2>5
  <2> QED
    BY <1>3, <2>6, Sizes DEF b
<1> QED
  BY <1>2, <1>3, Sizes

-----------------------------------------------------------------------------

(* R orders P, no two elements side by side.                               *)
Ordered(P, R) ==
  /\ \A x \in P : <<x, x>> \notin R
  /\ \A x, y, z \in P : <<x, y>> \in R /\ <<y, z>> \in R => <<x, z>> \in R
  /\ \A x, y \in P : x # y => <<x, y>> \in R \/ <<y, x>> \in R

(* The elements of P up to x.                                              *)
UpTo(P, R, x) == {y \in P : y = x \/ <<y, x>> \in R}

(* Counting the elements up to each numbers them, in their order.          *)
LEMMA Ranks ==
  ASSUME NEW P, IsFiniteSet(P), NEW R, Ordered(P, R)
  PROVE  /\ Cardinality(P) \in Nat
         /\ \A x \in P : Cardinality(UpTo(P, R, x)) \in 1..Cardinality(P)
         /\ \A x, y \in P : <<x, y>> \in R => Cardinality(UpTo(P, R, x)) < Cardinality(UpTo(P, R, y))
         /\ \A x, y \in P : x # y => Cardinality(UpTo(P, R, x)) # Cardinality(UpTo(P, R, y))
         /\ \A n \in 1..Cardinality(P) : \E x \in P : Cardinality(UpTo(P, R, x)) = n
<1> DEFINE rank == [x \in P |-> Cardinality(UpTo(P, R, x))]
<1>1. \A x \in P : UpTo(P, R, x) \subseteq P /\ x \in UpTo(P, R, x)
  BY DEF UpTo
<1>2. ASSUME NEW x \in P
      PROVE  IsFiniteSet(UpTo(P, R, x)) /\ Cardinality(UpTo(P, R, x)) \in 1..Cardinality(P)
  <2>1. /\ IsFiniteSet(UpTo(P, R, x)) /\ Cardinality(UpTo(P, R, x)) <= Cardinality(P)
        /\ Cardinality(UpTo(P, R, x)) \in Nat /\ Cardinality(P) \in Nat
    BY <1>1, SubsetSize
  <2>2. Cardinality(UpTo(P, R, x)) # 0
    BY <1>1, <2>1, FS_EmptySet
  <2> QED
    BY <2>1, <2>2
<1>3. ASSUME NEW x \in P, NEW y \in P, <<x, y>> \in R
      PROVE  Cardinality(UpTo(P, R, x)) < Cardinality(UpTo(P, R, y))
  <2>1. UpTo(P, R, x) \subseteq UpTo(P, R, y)
    BY <1>3 DEF UpTo, Ordered
  <2>2. y \notin UpTo(P, R, x) /\ y \in UpTo(P, R, y)
    BY <1>3 DEF UpTo, Ordered
  <2>3. /\ Cardinality(UpTo(P, R, x)) <= Cardinality(UpTo(P, R, y))
        /\ Cardinality(UpTo(P, R, x)) # Cardinality(UpTo(P, R, y))
        /\ Cardinality(UpTo(P, R, x)) \in Nat /\ Cardinality(UpTo(P, R, y)) \in Nat
    BY <1>2, <2>1, <2>2, SubsetSize
  <2> QED
    BY <2>3
<1>4. Cardinality(P) \in Nat
  BY FS_CardinalityType
<1>5. \A x, y \in P : x # y => Cardinality(UpTo(P, R, x)) # Cardinality(UpTo(P, R, y))
  <2> SUFFICES ASSUME NEW x \in P, NEW y \in P, x # y
               PROVE  Cardinality(UpTo(P, R, x)) # Cardinality(UpTo(P, R, y))
    OBVIOUS
  <2>1. <<x, y>> \in R \/ <<y, x>> \in R
    BY DEF Ordered
  <2>2. Cardinality(UpTo(P, R, x)) \in Nat /\ Cardinality(UpTo(P, R, y)) \in Nat
    BY <1>2, <1>4
  <2> QED
    BY <1>3, <2>1, <2>2
<1>6. rank \in Injection(P, 1..Cardinality(P))
  <2>1. rank \in [P -> 1..Cardinality(P)]
    BY <1>2
  <2>2. \A x, y \in P : rank[x] = rank[y] => x = y
    BY <1>5
  <2> HIDE DEF rank
  <2>3. \A x, y \in DOMAIN rank : rank[x] = rank[y] => x = y
    BY <2>1, <2>2
  <2> QED
    BY <2>1, <2>3 DEF Injection, IsInjective
<1>7. IsFiniteSet(1..Cardinality(P)) /\ Cardinality(1..Cardinality(P)) = Cardinality(P)
  BY <1>4, FS_Interval
<1>8. rank \in Surjection(P, 1..Cardinality(P))
  <2> HIDE DEF rank
  <2> QED
    BY <1>6, <1>7, FS_Injection
<1>9. \A n \in 1..Cardinality(P) : \E x \in P : rank[x] = n
  BY <1>8 DEF Surjection
<1> QED
  BY <1>2, <1>3, <1>4, <1>5, <1>9

(* Taking the first n takes n, or all there are.                           *)
LEMMA FirstFew ==
  ASSUME NEW P, IsFiniteSet(P), NEW R, Ordered(P, R), NEW n \in Nat
  PROVE  LET A == {x \in P : Cardinality(UpTo(P, R, x)) <= n}
         IN  IsFiniteSet(A) /\ Cardinality(A) = Smaller(n, Cardinality(P))
<1> DEFINE A == {x \in P : Cardinality(UpTo(P, R, x)) <= n}
           f == [x \in P |-> Cardinality(UpTo(P, R, x))]
           m == Smaller(n, Cardinality(P))
<1>1. /\ Cardinality(P) \in Nat
      /\ \A x \in P : f[x] \in 1..Cardinality(P)
      /\ \A x, y \in P : x # y => f[x] # f[y]
      /\ \A k \in 1..Cardinality(P) : \E x \in P : f[x] = k
  BY Ranks
<1>2. A = {x \in P : f[x] <= n}
  OBVIOUS
<1> HIDE DEF A, f
<1>3. IsFiniteSet(A)
  BY <1>2, SubsetSize
<1>4. \A x, y \in A : x # y => f[x] # f[y]
  BY <1>1, <1>2
<1>5. Cardinality({f[x] : x \in A}) = Cardinality(A)
  BY <1>3, <1>4, ImageSize
<1>6. m \in Nat
  BY <1>1 DEF Smaller
<1>7. \A k \in Int : k \in 1..m <=> k \in 1..Cardinality(P) /\ k <= n
  BY <1>1 DEF Smaller
<1>8. {f[x] : x \in A} = 1..m
  <2> HIDE DEF m
  <2>1. \A x \in A : f[x] \in 1..m
    BY <1>1, <1>2, <1>7
  <2>2. \A k \in 1..m : \E x \in A : f[x] = k
    BY <1>1, <1>2, <1>6, <1>7
  <2> QED
    BY <2>1, <2>2
<1>9. Cardinality(1..m) = m
  BY <1>6, FS_Interval
<1> QED
  BY <1>3, <1>5, <1>8, <1>9 DEF A

(* Peers can be put into an array in any order.                            *)
LEMMA OrderExists ==
  ASSUME NEW R, Ordered(Peers, R)
  PROVE  \E a : IsOrder(a) /\ \A i, j \in 1..N : i < j => <<a[i], a[j]>> \in R
<1> DEFINE f == [x \in Peers |-> Cardinality(UpTo(Peers, R, x))]
           a == [i \in 1..N |-> CHOOSE x \in Peers : f[x] = i]
<1>1. /\ \A x \in Peers : f[x] \in 1..N
      /\ \A x, y \in Peers : <<x, y>> \in R => f[x] < f[y]
      /\ \A k \in 1..N : \E x \in Peers : f[x] = k
  BY MeshAssumption, Ranks DEF N
<1> HIDE DEF f
<1>2. \A i \in 1..N : a[i] \in Peers /\ f[a[i]] = i
  BY <1>1
<1>3. a \in [1..N -> Peers]
  BY <1>2
<1> HIDE DEF a
<1>4. IsOrder(a)
  BY <1>2, <1>3 DEF IsOrder
<1>5. ASSUME NEW i \in 1..N, NEW j \in 1..N, i < j PROVE <<a[i], a[j]>> \in R
  <2>1. a[i] # a[j] /\ a[i] \in Peers /\ a[j] \in Peers
    BY <1>2, <1>5
  <2>2. <<a[j], a[i]>> \notin R
    BY <1>1, <1>2, <1>5, <2>1, Sizes
  <2> QED
    BY <2>1, <2>2 DEF Ordered
<1> QED
  BY <1>4, <1>5

-----------------------------------------------------------------------------

(* Counting indices counts peers.                                          *)
LEMMA PeersAt ==
  ASSUME NEW a, IsOrder(a), NEW I, I \subseteq 1..N
  PROVE  /\ IsFiniteSet(I) /\ IsFiniteSet({a[j] : j \in I})
         /\ Cardinality({a[j] : j \in I}) = Cardinality(I)
         /\ Cardinality(I) \in Nat
         /\ {a[j] : j \in I} \subseteq Peers
<1>1. IsFiniteSet(1..N)
  BY Sizes, FS_Interval
<1>2. IsFiniteSet(I) /\ Cardinality(I) \in Nat
  BY <1>1, SubsetSize
<1>3. \A i, j \in I : i # j => a[i] # a[j]
  BY DEF IsOrder
<1> QED
  BY <1>2, <1>3, ImageSize DEF IsOrder

(* Outbound peers kept are those of the selection.                         *)
LEMMA KeptSize ==
  ASSUME NEW a, IsOrder(a)
  PROVE  /\ OutboundKept(a, outbound) = Cardinality(Selection(a) \cap outbound)
         /\ OutboundKept(a, outbound) \in Nat /\ OutboundKept(a, outbound) <= D
         /\ Selection(a) \subseteq Peers /\ Cardinality(Selection(a)) = D
<1> DEFINE I == {i \in 1..D : a[i] \in outbound}
<1>1. I \subseteq 1..N /\ 1..D \subseteq 1..N
  BY Sizes
<1>2. Cardinality({a[j] : j \in I}) = Cardinality(I)
  BY <1>1, PeersAt
<1>3. {a[j] : j \in I} = Selection(a) \cap outbound
  BY DEF Selection
<1>4. IsFiniteSet(1..D) /\ Cardinality(1..D) = D
  BY Sizes, FS_Interval
<1>5. Cardinality(I) <= D /\ Cardinality(I) \in Nat
  BY <1>4, SubsetSize
<1>6. Selection(a) \subseteq Peers /\ Cardinality(Selection(a)) = D
  BY PrefixSize, Sizes DEF Selection
<1> QED
  BY <1>2, <1>3, <1>5, <1>6, Sizes DEF OutboundKept

LEMMA RoomLeft == ASSUME NEW a, IsOrder(a) PROVE D - OutboundKept(a, outbound) \in Nat
<1>1. OutboundKept(a, outbound) \in Nat /\ OutboundKept(a, outbound) <= D
  BY KeptSize
<1> QED
  BY <1>1, Sizes

(* The indices of Survivors: who comes and who stays.                      *)
Come(a) ==
  {j \in (D + 1)..N :
     /\ a[j] \in outbound
     /\ Cardinality({k \in (D + 1)..j : a[k] \in outbound}) <= D - OutboundKept(a, outbound)}

Stay(a) ==
  {j \in 1..D :
     a[j] \in outbound \/ Cardinality({k \in j..D : a[k] \notin outbound}) > Cardinality(Come(a))}

LEMMA SurvivorsByIndex ==
  ASSUME NEW a, IsOrder(a)
  PROVE  /\ OutboundKept(a, outbound) < Dout => Survivors(a) = {a[j] : j \in Stay(a) \cup Come(a)}
         /\ OutboundKept(a, outbound) >= Dout => Survivors(a) = Selection(a)
<1>1. Len(a) = N
  BY Sizes DEF IsOrder
<1>2. OutboundKept(a, outbound) \in Nat
  BY KeptSize, Sizes
<1>3. CASE OutboundKept(a, outbound) < Dout
  BY <1>1, <1>2, <1>3, Sizes DEF Survivors, Come, Stay
<1>4. CASE ~(OutboundKept(a, outbound) < Dout)
  BY <1>1, <1>2, <1>4, Sizes DEF Survivors, Selection
<1> QED
  BY <1>2, <1>3, <1>4, Sizes

(* As many come as there is room for, or all there are.                    *)
LEMMA ComeSize ==
  ASSUME NEW a, IsOrder(a)
  PROVE  Cardinality(Come(a))
           = Smaller(D - OutboundKept(a, outbound), Cardinality((Peers \ Selection(a)) \cap outbound))
<1> DEFINE O == {j \in (D + 1)..N : a[j] \in outbound}
           R == {e \in O \X O : e[1] < e[2]}
           n == D - OutboundKept(a, outbound)
<1>0. n \in Nat
  BY RoomLeft
<1>1. O \subseteq 1..N
  BY Sizes
<1>2. IsFiniteSet(O) /\ Cardinality({a[j] : j \in O}) = Cardinality(O)
  BY <1>1, PeersAt
<1>3. {a[j] : j \in O} = (Peers \ Selection(a)) \cap outbound
  <2>1. ASSUME NEW j \in O PROVE a[j] \in (Peers \ Selection(a)) \cap outbound
    BY Sizes DEF IsOrder, Selection
  <2>2. ASSUME NEW p \in (Peers \ Selection(a)) \cap outbound PROVE \E j \in O : a[j] = p
    <3>1. PICK j \in 1..N : a[j] = p
      BY OrderCovers
    <3>2. j \notin 1..D
      BY <3>1 DEF Selection
    <3> QED
      BY <3>1, <3>2, Sizes
  <2> QED
    BY <2>1, <2>2
<1>4. Ordered(O, R)
  BY Sizes DEF Ordered
<1>5. \A j \in O : UpTo(O, R, j) = {k \in (D + 1)..j : a[k] \in outbound}
  BY Sizes DEF UpTo
<1>6. Come(a) = {j \in O : Cardinality(UpTo(O, R, j)) <= n}
  BY <1>5 DEF Come
<1> HIDE DEF O, R, n
<1>7. Cardinality(Come(a)) = Smaller(n, Cardinality(O))
  BY <1>0, <1>2, <1>4, <1>6, FirstFew
<1> QED
  BY <1>2, <1>3, <1>7 DEF n

(* As many go as come.                                                     *)
LEMMA StaySize ==
  ASSUME NEW a, IsOrder(a)
  PROVE  Cardinality(Stay(a)) = D - Cardinality(Come(a))
<1> DEFINE Q == {j \in 1..D : a[j] \notin outbound}
           I == {j \in 1..D : a[j] \in outbound}
           R == {e \in Q \X Q : e[1] > e[2]}
           n == D - OutboundKept(a, outbound)
           c == Cardinality(Come(a))
           Gone == {j \in Q : Cardinality(UpTo(Q, R, j)) <= c}
<1>1. IsFiniteSet(1..D) /\ Cardinality(1..D) = D
  BY Sizes, FS_Interval
<1>2. IsFiniteSet(Q) /\ Cardinality(Q) = n /\ n \in Nat
  <2>1. Q = (1..D) \ I /\ (1..D) \cap I = I
    OBVIOUS
  <2>2. IsFiniteSet((1..D) \ I) /\ Cardinality((1..D) \ I) = Cardinality(1..D) - Cardinality((1..D) \cap I)
    BY <1>1, FS_Difference
  <2>3. Cardinality(I) = OutboundKept(a, outbound)
    BY DEF OutboundKept
  <2>4. n \in Nat
    BY RoomLeft
  <2> QED
    BY <1>1, <2>1, <2>2, <2>3, <2>4
<1>3. c \in Nat /\ c <= n
  <2>1. Come(a) \subseteq 1..N
    BY Sizes DEF Come
  <2>2. c \in Nat
    BY <2>1, PeersAt
  <2>3. IsFiniteSet((Peers \ Selection(a)) \cap outbound)
    BY MeshAssumption, SubsetSize
  <2>4. Cardinality((Peers \ Selection(a)) \cap outbound) \in Nat
    BY <2>3, FS_CardinalityType
  <2> QED
    BY <1>2, <2>2, <2>4, ComeSize DEF Smaller
<1>4. Ordered(Q, R)
  BY Sizes DEF Ordered
<1>5. \A j \in Q : UpTo(Q, R, j) = {k \in j..D : a[k] \notin outbound}
  BY Sizes DEF UpTo
<1>6. Cardinality(Gone) = Smaller(c, n)
  <2> HIDE DEF Q, R, n, c
  <2> QED
    BY <1>2, <1>3, <1>4, FirstFew
<1>7. \A j \in Q : Cardinality({k \in j..D : a[k] \notin outbound}) \in Nat
  <2> SUFFICES ASSUME NEW j \in Q PROVE Cardinality({k \in j..D : a[k] \notin outbound}) \in Nat
    OBVIOUS
  <2>1. {k \in j..D : a[k] \notin outbound} \subseteq 1..N
    BY Sizes
  <2> QED
    BY <2>1, PeersAt
<1>8. Stay(a) = (1..D) \ Gone /\ (1..D) \cap Gone = Gone
  BY <1>3, <1>5, <1>7 DEF Stay
<1>9. Cardinality((1..D) \ Gone) = D - Cardinality((1..D) \cap Gone)
  <2> HIDE DEF Gone
  <2> QED
    BY <1>1, FS_Difference
<1>10. Smaller(c, n) = c
  BY <1>2, <1>3 DEF Smaller
<1> QED
  BY <1>6, <1>8, <1>9, <1>10

(* Survivors meets Leaves.                                                 *)
LEMMA SurvivorsLeave ==
  ASSUME NEW a, IsOrder(a)
  PROVE  Leaves(a, Survivors(a))
<1> DEFINE K == Survivors(a)
           S == Selection(a)
           kept == OutboundKept(a, outbound)
           c == Cardinality(Come(a))
<1>0. kept \in Nat
  BY KeptSize, Sizes
<1>1. CASE kept >= Dout
  BY <1>1, SurvivorsByIndex DEF Leaves
<1>2. CASE kept < Dout
  <2>1. K = {a[j] : j \in Stay(a) \cup Come(a)}
    BY <1>2, SurvivorsByIndex
  <2>2. Stay(a) \subseteq 1..D /\ Come(a) \subseteq (D + 1)..N
    BY DEF Stay, Come
  <2>3. Stay(a) \cup Come(a) \subseteq 1..N /\ Stay(a) \subseteq 1..N /\ Come(a) \subseteq 1..N
    BY <2>2, Sizes
  <2>4. /\ Cardinality(K) = Cardinality(Stay(a) \cup Come(a)) /\ K \subseteq Peers
        /\ IsFiniteSet(Stay(a)) /\ IsFiniteSet(Come(a)) /\ c \in Nat
    <3>1. IsFiniteSet(Stay(a)) /\ IsFiniteSet(Come(a)) /\ c \in Nat
      BY <2>3, PeersAt
    <3> DEFINE I == Stay(a) \cup Come(a)
    <3>2. I \subseteq 1..N /\ K = {a[j] : j \in I}
      BY <2>1, <2>3
    <3> HIDE DEF I, K
    <3>3. Cardinality(K) = Cardinality(I) /\ K \subseteq Peers
      BY <3>2, PeersAt
    <3> QED
      BY <3>1, <3>3 DEF I
  <2>5. Cardinality(Stay(a) \cup Come(a)) = D
    <3>1. Stay(a) \cap Come(a) = {}
      BY <2>2, Sizes
    <3>2. Cardinality(Stay(a) \cap Come(a)) = 0
      BY <3>1, FS_EmptySet
    <3>3. Cardinality(Stay(a) \cup Come(a)) = Cardinality(Stay(a)) + c - Cardinality(Stay(a) \cap Come(a))
      BY <2>4, FS_Union
    <3> QED
      BY <2>4, <3>2, <3>3, StaySize, Sizes
  <2>6. \A j \in 1..N : a[j] \in K <=> j \in Stay(a) \cup Come(a)
    BY <2>1, <2>3 DEF IsOrder
  <2>7. \A j \in 1..N : a[j] \in S <=> j \in 1..D
    BY Sizes DEF IsOrder, Selection
  <2>8. K \ S = {a[j] : j \in Come(a)}
    BY <2>1, <2>2, <2>3, <2>7, Sizes
  <2>9. S \cap outbound \subseteq K
    BY <2>1 DEF Selection, Stay
  <2>10. K \ S \subseteq outbound
    BY <2>8 DEF Come
  <2>11. Cardinality(K \ S) = c
    <3>1. Come(a) \subseteq 1..N
      BY <2>3
    <3>2. Cardinality({a[j] : j \in Come(a)}) = c
      BY <3>1, PeersAt
    <3> HIDE DEF K, S, c
    <3> QED
      BY <2>8, <3>2
  <2>12. ASSUME NEW i \in 1..D, NEW j \in 1..D, i < j, a[j] \in K \ outbound PROVE a[i] \in K
    <3> DEFINE B(k) == {l \in k..D : a[l] \notin outbound}
    <3>1. i \in 1..N /\ j \in 1..N /\ j \notin Come(a)
      BY <2>2, Sizes
    <3>2. Cardinality(B(j)) > c
      BY <2>6, <2>12, <3>1 DEF Stay
    <3>3. B(j) \subseteq B(i) /\ B(i) \subseteq 1..N
      BY <2>12, Sizes
    <3>4. Cardinality(B(j)) <= Cardinality(B(i)) /\ Cardinality(B(i)) \in Nat /\ Cardinality(B(j)) \in Nat
      BY <3>3, PeersAt, SubsetSize
    <3>5. Cardinality(B(i)) > c
      <4> HIDE DEF B, c
      <4> QED
        BY <2>4, <3>2, <3>4
    <3>6. i \in Stay(a)
      BY <3>5 DEF Stay
    <3> QED
      BY <2>6, <3>1, <3>6
  <2>13. ASSUME NEW i \in (D + 1)..N, NEW j \in (D + 1)..N, i < j, a[j] \in K, a[i] \in outbound
         PROVE  a[i] \in K
    <3> DEFINE B(k) == {l \in (D + 1)..k : a[l] \in outbound}
    <3>1. i \in 1..N /\ j \in 1..N /\ j \notin Stay(a)
      BY <2>2, Sizes
    <3>2. Cardinality(B(j)) <= D - kept
      BY <2>6, <2>13, <3>1 DEF Come
    <3>3. B(i) \subseteq B(j) /\ B(j) \subseteq 1..N
      BY <2>13, Sizes
    <3>4. Cardinality(B(i)) <= Cardinality(B(j)) /\ Cardinality(B(i)) \in Nat /\ Cardinality(B(j)) \in Nat
      BY <3>3, PeersAt, SubsetSize
    <3>5. Cardinality(B(i)) <= D - kept
      <4> HIDE DEF B, kept
      <4> QED
        BY <1>0, <3>2, <3>4, Sizes
    <3>6. i \in Come(a)
      BY <2>13, <3>5 DEF Come
    <3> QED
      BY <2>6, <3>1, <3>6
  <2>14. Cardinality(K) = D /\ K \subseteq Peers
    BY <2>4, <2>5
  <2>15. Cardinality(K \ S) = Smaller(D - kept, Cardinality((Peers \ S) \cap outbound))
    BY <2>11, ComeSize
  <2> SUFFICES Leaves(a, K)
    OBVIOUS
  <2> HIDE DEF K
  <2> QED
    BY <1>2, <2>9, <2>10, <2>12, <2>13, <2>14, <2>15 DEF Leaves
<1> QED
  BY <1>0, <1>1, <1>2, Sizes DEF K

(* Nothing else does.                                                      *)
LEMMA LeavesOne ==
  ASSUME NEW a, IsOrder(a), NEW K, NEW L, Leaves(a, K), Leaves(a, L)
  PROVE  K = L
<1> DEFINE S == Selection(a)
           kept == OutboundKept(a, outbound)
<1>0. kept \in Nat
  BY KeptSize, Sizes
<1>1. CASE kept >= Dout
  BY <1>0, <1>1, Sizes DEF Leaves
<1>2. CASE kept < Dout
  <2>1. /\ K \subseteq Peers /\ L \subseteq Peers /\ Cardinality(K) = D /\ Cardinality(L) = D
        /\ S \cap outbound \subseteq K \cap L
        /\ K \ S \subseteq outbound /\ L \ S \subseteq outbound
        /\ Cardinality(K \ S) = Cardinality(L \ S)
        /\ \A i, j \in 1..D : i < j => (a[j] \in K \ outbound => a[i] \in K) /\ (a[j] \in L \ outbound => a[i] \in L)
        /\ \A i, j \in (D + 1)..N : i < j /\ a[i] \in outbound => (a[j] \in K => a[i] \in K) /\ (a[j] \in L => a[i] \in L)
    BY <1>0, <1>2, Sizes DEF Leaves
  <2>2. /\ IsFiniteSet(K) /\ IsFiniteSet(L)
        /\ IsFiniteSet(K \ S) /\ IsFiniteSet(L \ S) /\ IsFiniteSet(K \cap S) /\ IsFiniteSet(L \cap S)
    BY <2>1, MeshAssumption, SubsetSize
  <2>3. K \ S = L \ S
    <3>1. K \ S \subseteq L \ S \/ L \ S \subseteq K \ S
      <4> SUFFICES ASSUME NEW x \in (K \ S) \ (L \ S), NEW y \in (L \ S) \ (K \ S) PROVE FALSE
        OBVIOUS
      <4>1. PICK i \in 1..N : a[i] = x
        BY <2>1, OrderCovers
      <4>2. PICK j \in 1..N : a[j] = y
        BY <2>1, OrderCovers
      <4>3. i \in (D + 1)..N /\ j \in (D + 1)..N /\ i # j
        BY <4>1, <4>2, Sizes DEF Selection
      <4>4. i < j \/ j < i
        BY <4>3, Sizes
      <4> QED
        BY <2>1, <4>1, <4>2, <4>3, <4>4
    <3> QED
      BY <2>1, <2>2, <3>1, SubsetSize
  <2>4. K \cap S = L \cap S
    <3>1. K \cap S \subseteq L \cap S \/ L \cap S \subseteq K \cap S
      <4> SUFFICES ASSUME NEW x \in (K \cap S) \ L, NEW y \in (L \cap S) \ K PROVE FALSE
        OBVIOUS
      <4>1. PICK i \in 1..D : a[i] = x
        BY DEF Selection
      <4>2. PICK j \in 1..D : a[j] = y
        BY DEF Selection
      <4>3. x \notin outbound /\ y \notin outbound
        BY <2>1
      <4>4. i < j \/ j < i
        BY <4>1, <4>2, Sizes
      <4> QED
        BY <2>1, <4>1, <4>2, <4>3, <4>4
    <3>2. /\ Cardinality(K \ S) = Cardinality(K) - Cardinality(K \cap S)
          /\ Cardinality(L \ S) = Cardinality(L) - Cardinality(L \cap S)
      BY <2>2, FS_Difference
    <3>3. Cardinality(K \cap S) \in Nat /\ Cardinality(L \cap S) \in Nat
      BY <2>2, FS_CardinalityType
    <3>4. Cardinality(K \cap S) = Cardinality(L \cap S)
      <4>1. Cardinality(K) = Cardinality(L) /\ Cardinality(K) \in Nat
        BY <2>1, Sizes
      <4>2. Cardinality(K \ S) = Cardinality(L \ S)
        BY <2>1
      <4> HIDE DEF S
      <4> QED
        BY <3>2, <3>3, <4>1, <4>2
    <3> QED
      BY <2>2, <3>1, <3>4, SubsetSize
  <2> QED
    BY <2>3, <2>4
<1> QED
  BY <1>0, <1>1, <1>2, Sizes

-----------------------------------------------------------------------------

(* The first loop reorders the selection; it may still rotate as often as  *)
(* there are outbound peers ahead of it.                                   *)
Inside ==
  /\ have < Dout
  /\ at \in 2..(D + 1) /\ need \in Nat
  /\ Selection(peersArray) = Selection(order)
  /\ OutboundFirst(peersArray, at - 1)
  /\ Cardinality({peersArray[j] : j \in at..D} \cap outbound) <= need
  /\ \A j \in (D + 1)..N : peersArray[j] = order[j]

(* The second loop replaces peers of the selection that are not outbound   *)
(* by the outbound ones it has passed, one for each rotation.              *)
Outside ==
  /\ have < Dout
  /\ at \in (D + 1)..(N + 1) /\ need \in Nat
  /\ Selection(order) \cap outbound \subseteq Selection(peersArray)
  /\ Selection(peersArray) \ Selection(order) = {order[j] : j \in (D + 1)..(at - 1)} \cap outbound
  /\ Cardinality(Selection(peersArray) \ Selection(order)) = D - have - need
  /\ OutboundFirst(peersArray, D)
  /\ \A j \in at..N : peersArray[j] = order[j]

IInv ==
  /\ outbound \subseteq Peers /\ score \in [Peers -> Int]
  /\ stage \in {"full", "inside", "outside", "rotated", "pruned"}
  /\ stage # "full" => IsOrder(order) /\ order \in Shuffled(score)
  /\ stage \in {"inside", "outside", "rotated"} =>
       /\ IsOrder(peersArray) /\ OthersInOrder(peersArray)
       /\ have \in Nat /\ have = OutboundKept(order, outbound)
  /\ stage = "inside" => Inside
  /\ stage = "outside" => Outside
  /\ stage = "rotated" => Leaves(order, Selection(peersArray))
  /\ OrderDecides

-----------------------------------------------------------------------------

LEMMA SameSurvivors ==
  ASSUME outbound' = outbound, order' = order
  PROVE  Survivors(order)' = Survivors(order)
BY DEF Survivors, OutboundKept

(* The sort, the shuffle and the count.                                    *)
LEMMA ShuffleStep == ASSUME IInv, Shuffle PROVE IInv'
<1>1. /\ order' \in Shuffled(score) /\ peersArray' = order'
      /\ outbound' = outbound /\ score' = score
      /\ have' = OutboundKept(order', outbound)
      /\ stage' = IF have' < Dout THEN "inside" ELSE "rotated"
      /\ at' = 2 /\ need' = have'
  BY DEF Shuffle
<1>2. IsOrder(order')
  BY <1>1 DEF Shuffled, SetToSeqs, IsOrder, N
<1>3. have' \in Nat /\ have' = Cardinality(Selection(order') \cap outbound)
  BY <1>1, <1>2, KeptSize
<1>4. \A i, j \in 1..N : order'[i] = order'[j] => i = j
  BY <1>2 DEF IsOrder
<1>5. OthersInOrder(peersArray)'
  BY <1>1, <1>4, Sizes DEF OthersInOrder
<1>6. CASE have' < Dout
  <2>1. OutboundFirst(peersArray, at - 1)'
    BY <1>1 DEF OutboundFirst
  <2>2. Cardinality({peersArray'[j] : j \in at'..D} \cap outbound') <= need'
    <3> DEFINE B == Selection(order') \cap outbound
               A == {peersArray'[j] : j \in at'..D} \cap outbound'
    <3>1. A \subseteq B
      BY <1>1, Sizes DEF Selection
    <3>2. Selection(order') \subseteq Peers
      BY <1>2, KeptSize
    <3>3. IsFiniteSet(B)
      BY <3>2, MeshAssumption, SubsetSize
    <3>4. Cardinality(A) <= Cardinality(B)
      BY <3>1, <3>3, SubsetSize
    <3> QED
      BY <1>1, <1>3, <3>4
  <2>3. Inside'
    BY <1>1, <1>3, <1>6, <2>1, <2>2, Sizes DEF Inside
  <2>4. stage' = "inside"
    BY <1>1, <1>6
  <2> QED
    BY <1>1, <1>2, <1>3, <1>5, <2>3, <2>4 DEF IInv, OrderDecides, OutboundKept
<1>7. CASE ~(have' < Dout)
  <2>1. Leaves(order, Selection(peersArray))'
    BY <1>1, <1>3, <1>7, Sizes DEF Leaves, OutboundKept, Selection
  <2>2. stage' = "rotated"
    BY <1>1, <1>7
  <2> QED
    BY <1>1, <1>2, <1>3, <1>5, <2>1, <2>2 DEF IInv, OrderDecides, OutboundKept
<1> QED
  BY <1>6, <1>7

(* The first loop: every outbound peer of the selection it comes to is     *)
(* still paid for, and goes to the front of the selection.                 *)
LEMMA InsideStep == ASSUME IInv, BubbleInside PROVE IInv'
<1>1. Inside /\ OthersInOrder(peersArray)
  BY DEF IInv, BubbleInside
<1>2. /\ stage = "inside" /\ stage' = "inside" /\ at <= D /\ need > 0
      /\ outbound' = outbound /\ score' = score /\ have' = have /\ at' = at + 1 /\ order' = order
  BY DEF BubbleInside, Visit, GoesOn
<1>3. IsOrder(peersArray) /\ at \in 2..D /\ at \in 1..N /\ need \in Nat
  BY <1>1, <1>2, Sizes DEF IInv, Inside
<1> DEFINE ahead == {peersArray[j] : j \in at..D} \cap outbound
           left == {peersArray'[j] : j \in at'..D} \cap outbound
<1>4. IsFiniteSet(ahead) /\ Cardinality(ahead) \in Nat /\ Cardinality(ahead) <= need
  <2>1. ahead \subseteq Peers
    BY <1>3, Sizes DEF IsOrder
  <2> QED
    BY <1>1, <2>1, MeshAssumption, SubsetSize DEF Inside
<1>5. CASE peersArray[at] \in outbound
  <2>1. peersArray' = Rotate(peersArray, at) /\ need' = need - 1
    BY <1>5 DEF BubbleInside, Visit, Visited
  <2>2. IsOrder(peersArray') /\ \A j \in (at + 1)..N : peersArray'[j] = peersArray[j]
    BY <1>3, <2>1, RotateOrder
  <2>3. Selection(peersArray') = Selection(peersArray)
    BY <1>3, <2>1, RotateSelection
  <2>4. OthersInOrder(Rotate(peersArray, at))
    BY <1>1, <1>3, <1>5, RotateOthers
  <2>5. OutboundFirst(peersArray', at' - 1)
    <3>1. at - 1 \in 0..(at - 1) /\ (at - 1) + 1 = at' - 1
      BY <1>2, <1>3
    <3> QED
      BY <1>1, <1>3, <1>5, <2>1, <3>1, RotateOutboundFirst DEF Inside
  <2>6. left = ahead \ {peersArray[at]}
    <3>1. left = {peersArray[j] : j \in (at + 1)..D} \cap outbound
      <4>1. \A j \in (at + 1)..D : peersArray'[j] = peersArray[j]
        BY <1>3, <2>2, Sizes
      <4> QED
        BY <1>2, <4>1
    <3>2. \A j \in (at + 1)..D : peersArray[j] # peersArray[at]
      BY <1>3, Sizes DEF IsOrder
    <3>3. \A j \in at..D : j = at \/ j \in (at + 1)..D
      BY <1>3, Sizes
    <3>4. (at + 1)..D \subseteq at..D
      BY <1>3, Sizes
    <3> QED
      BY <3>1, <3>2, <3>3, <3>4
  <2>7. peersArray[at] \in ahead
    BY <1>3, <1>5, Sizes
  <2>8. Cardinality(left) <= need' /\ need' \in Nat
    <3> HIDE DEF left, ahead
    <3>1. Cardinality(left) = Cardinality(ahead) - 1
      BY <1>4, <2>6, <2>7, FS_RemoveElement
    <3> QED
      BY <1>2, <1>3, <1>4, <2>1, <3>1
  <2>9. \A j \in (D + 1)..N : peersArray'[j] = order[j]
    BY <1>1, <1>3, <2>2, Sizes DEF Inside
  <2>10. OutboundFirst(peersArray, at - 1)'
    BY <1>2, <2>5 DEF OutboundFirst
  <2>11. Inside'
    BY <1>1, <1>2, <1>3, <2>3, <2>8, <2>9, <2>10, Sizes DEF Inside
  <2>12. OthersInOrder(peersArray)'
    BY <1>2, <2>1, <2>4 DEF OthersInOrder
  <2> QED
    BY <1>2, <2>2, <2>11, <2>12 DEF IInv, OrderDecides, OutboundKept
<1>6. CASE peersArray[at] \notin outbound
  <2>1. peersArray' = peersArray /\ need' = need
    BY <1>6 DEF BubbleInside, Visit, Visited
  <2>2. OutboundFirst(peersArray', at' - 1)
    BY <1>1, <1>2, <1>3, <1>6, <2>1, Sizes DEF Inside, OutboundFirst
  <2>3. left \subseteq ahead
    BY <1>2, <1>3, <2>1, Sizes
  <2>4. Cardinality(left) <= need'
    <3>1. Cardinality(left) <= Cardinality(ahead) /\ Cardinality(left) \in Nat
      BY <1>4, <2>3, SubsetSize
    <3> HIDE DEF left, ahead
    <3> QED
      BY <1>3, <1>4, <2>1, <3>1
  <2>5. OutboundFirst(peersArray, at - 1)'
    BY <1>2, <2>2 DEF OutboundFirst
  <2>6. Inside'
    BY <1>1, <1>2, <1>3, <2>1, <2>4, <2>5, Sizes DEF Inside
  <2>7. OthersInOrder(peersArray)'
    BY <1>1, <1>2, <2>1 DEF OthersInOrder
  <2> QED
    BY <1>2, <1>3, <2>1, <2>6, <2>7 DEF IInv, OrderDecides, OutboundKept
<1> QED
  BY <1>5, <1>6

(* Between the loops: the outbound peers of the selection are at its front.*)
LEMMA InsideEndsStep == ASSUME IInv, InsideEnds PROVE IInv'
<1>1. Inside /\ OthersInOrder(peersArray)
  BY DEF IInv, InsideEnds
<1>2. /\ stage = "inside" /\ stage' = "outside" /\ ~(at <= D /\ need > 0)
      /\ outbound' = outbound /\ score' = score /\ have' = have /\ peersArray' = peersArray
      /\ at' = D + 1 /\ need' = D - have /\ order' = order
  BY DEF InsideEnds, GoesOn
<1>3. IsOrder(peersArray) /\ at \in 2..(D + 1) /\ need \in Nat /\ have \in Nat
  BY <1>1, <1>2, Sizes DEF IInv, Inside
<1> DEFINE ahead == {peersArray[j] : j \in at..D} \cap outbound
<1>4. ahead = {}
  <2>1. CASE at > D
    BY <1>3, <2>1, Sizes
  <2>2. CASE ~(at > D)
    <3>1. need = 0
      BY <1>2, <1>3, <2>2, Sizes
    <3>2. ahead \subseteq Peers
      BY <1>3, Sizes DEF IsOrder
    <3>3. IsFiniteSet(ahead) /\ Cardinality(ahead) \in Nat /\ Cardinality(ahead) <= need
      BY <1>1, <3>2, MeshAssumption, SubsetSize DEF Inside
    <3>4. Cardinality(ahead) = 0
      <4> HIDE DEF ahead
      <4> QED
        BY <3>1, <3>3
    <3> QED
      BY <3>3, <3>4, FS_EmptySet
  <2> QED
    BY <2>1, <2>2
<1>5. OutboundFirst(peersArray, D)
  <2> SUFFICES ASSUME NEW i \in 1..D, NEW j \in 1..D, i < j, peersArray[j] \in outbound
               PROVE  peersArray[i] \in outbound
    BY DEF OutboundFirst
  <2>1. j \notin at..D
    BY <1>4
  <2>2. i \in 1..(at - 1) /\ j \in 1..(at - 1)
    BY <1>3, <2>1, Sizes
  <2> QED
    BY <1>1, <2>2 DEF Inside, OutboundFirst
<1>6. Outside'
  <2>1. Selection(peersArray) = Selection(order) /\ have < Dout
    BY <1>1 DEF Inside
  <2>2. Selection(peersArray) \ Selection(order) = {}
    BY <2>1
  <2>3. Cardinality(Selection(peersArray) \ Selection(order)) = 0
    BY <2>2, FS_EmptySet
  <2>4. D - have \in Nat /\ 0 = D - have - (D - have) /\ D + 1 \in (D + 1)..(N + 1)
    BY <1>3, <2>1, Sizes
  <2>5. {order[j] : j \in (D + 1)..(D + 1 - 1)} = {}
    BY Sizes
  <2>6. OutboundFirst(peersArray, D)'
    BY <1>2, <1>5 DEF OutboundFirst
  <2>7. Selection(peersArray)' = Selection(peersArray) /\ Selection(order)' = Selection(order)
    BY <1>2 DEF Selection
  <2>8. \A j \in (D + 1)..N : peersArray[j] = order[j]
    BY <1>1 DEF Inside
  <2> QED
    BY <1>2, <2>1, <2>2, <2>3, <2>4, <2>5, <2>6, <2>7, <2>8 DEF Outside
<1>7. OthersInOrder(peersArray)'
  BY <1>1, <1>2 DEF OthersInOrder
<1> QED
  BY <1>2, <1>3, <1>6, <1>7 DEF IInv, OrderDecides, OutboundKept

(* The second loop: while rotations are owed, the peer at the end of the   *)
(* selection is not outbound, so the one that falls off it is never one of *)
(* those the quota counts, nor one that came in.                           *)
LEMMA LastOfSelection ==
  ASSUME IInv, stage = "outside", Outside, need > 0
  PROVE  peersArray[D] \in Selection(order) \ outbound
<1> DEFINE K == Selection(peersArray)
           own == Selection(order) \cap outbound
           new == K \ Selection(order)
<1>1. IsOrder(peersArray) /\ IsOrder(order) /\ have \in Nat /\ need \in Nat
      /\ have = OutboundKept(order, outbound)
  BY DEF IInv, Outside
<1>2. K \subseteq Peers /\ Cardinality(K) = D /\ Selection(order) \subseteq Peers
  BY <1>1, KeptSize
<1>3. IsFiniteSet(K) /\ IsFiniteSet(own) /\ IsFiniteSet(new)
  BY <1>2, MeshAssumption, SubsetSize
<1>4. D \in 1..D /\ peersArray[D] \in K
  BY Sizes DEF Selection
<1>5. peersArray[D] \notin outbound
  <2> SUFFICES ASSUME peersArray[D] \in outbound PROVE FALSE
    OBVIOUS
  <2>1. \A i \in 1..D : peersArray[i] \in outbound
    BY <1>4, Sizes DEF Outside, OutboundFirst
  <2>2. K \subseteq outbound
    BY <2>1 DEF Selection
  <2>3. K \subseteq own \cup new
    BY <2>2
  <2>4. own \cap new = {}
    OBVIOUS
  <2>5. Cardinality(own) = have /\ Cardinality(new) = D - have - need
    BY <1>1, KeptSize DEF Outside
  <2> HIDE DEF K, own, new
  <2>6. Cardinality(own \cap new) = 0
    BY <2>4, FS_EmptySet
  <2>7. /\ IsFiniteSet(own \cup new)
        /\ Cardinality(own \cup new) = Cardinality(own) + Cardinality(new) - Cardinality(own \cap new)
    BY <1>3, FS_Union
  <2>8. Cardinality(K) <= Cardinality(own \cup new)
    BY <2>3, <2>7, SubsetSize
  <2> QED
    BY <1>1, <1>2, <2>5, <2>6, <2>7, <2>8, Sizes
<1>6. peersArray[D] \in Selection(order)
  BY <1>4, <1>5 DEF Outside
<1> QED
  BY <1>5, <1>6

LEMMA OutsideStep == ASSUME IInv, BubbleOutside PROVE IInv'
<1>1. Outside /\ IsOrder(order) /\ OthersInOrder(peersArray)
  BY DEF IInv, BubbleOutside
<1>2. /\ stage = "outside" /\ stage' = "outside" /\ at <= Len(peersArray) /\ need > 0
      /\ outbound' = outbound /\ score' = score /\ have' = have /\ at' = at + 1 /\ order' = order
  BY DEF BubbleOutside, Visit, GoesOn
<1>3. IsOrder(peersArray) /\ need \in Nat /\ have \in Nat
  BY <1>1, <1>2 DEF IInv, Outside
<1>4. at \in (D + 1)..N /\ at \in 1..N
  <2>1. Len(peersArray) = N
    BY <1>3, Sizes DEF IsOrder
  <2> QED
    BY <1>1, <1>2, <2>1, Sizes DEF Outside
<1> DEFINE K == Selection(peersArray)
           S == Selection(order)
           p == peersArray[at]
           q == peersArray[D]
           Seen == {order[j] : j \in (D + 1)..(at - 1)} \cap outbound
           SeenNow == {order[j] : j \in (D + 1)..(at' - 1)} \cap outbound
<1>5. q \in S \ outbound /\ q \in K
  BY <1>1, <1>2, LastOfSelection, Sizes DEF Selection
<1>6. p \notin K /\ p \in Peers
  BY <1>3, <1>4, Sizes DEF IsOrder, Selection
<1>7. p = order[at] /\ p \notin S
  <2>1. p = order[at]
    BY <1>1, <1>4, Sizes DEF Outside
  <2> QED
    BY <1>1, <1>4, <2>1, Sizes DEF IsOrder, Selection
<1>8. SeenNow = Seen \cup ({p} \cap outbound)
  <2>1. \A j \in Int : j \in (D + 1)..(at' - 1) <=> j \in (D + 1)..(at - 1) \/ j = at
    BY <1>2, <1>4, Sizes
  <2>2. (D + 1)..(at' - 1) \subseteq Int /\ (D + 1)..(at - 1) \subseteq Int /\ at \in Int
    BY <1>2, <1>4, Sizes
  <2> QED
    BY <1>7, <2>1, <2>2
<1>9. S \cap outbound \subseteq K /\ K \ S = Seen
  BY <1>1 DEF Outside
<1>10. at' \in (D + 1)..(N + 1) /\ have < Dout
  BY <1>1, <1>2, <1>4, Sizes DEF Outside
<1>11. CASE p \in outbound
  <2>1. peersArray' = Rotate(peersArray, at) /\ need' = need - 1
    BY <1>11 DEF BubbleOutside, Visit, Visited
  <2>2. /\ IsOrder(peersArray')
        /\ \A j \in (at + 1)..N : peersArray'[j] = peersArray[j]
    BY <1>4, <1>3, <2>1, RotateOrder
  <2>3. Selection(peersArray') = (K \ {q}) \cup {p}
    BY <1>3, <1>4, <2>1, RotateSelection, Sizes
  <2>4. OthersInOrder(Rotate(peersArray, at))
    BY <1>1, <1>3, <1>4, <1>11, RotateOthers
  <2>5. OutboundFirst(peersArray', D)
    <3>1. D \in 0..(at - 1)
      BY <1>4, Sizes
    <3>2. OutboundFirst(peersArray', D + 1)
      BY <1>1, <1>3, <1>4, <1>11, <2>1, <3>1, RotateOutboundFirst DEF Outside
    <3> QED
      BY <3>2, Sizes DEF OutboundFirst
  <2>6. /\ Selection(peersArray') \ S = (K \ S) \cup {p}
        /\ S \cap outbound \subseteq Selection(peersArray')
    <3> HIDE DEF K, S, p, q
    <3> QED
      BY <1>5, <1>7, <1>9, <2>3
  <2>7. Selection(peersArray') \ S = SeenNow
    <3> HIDE DEF K, S, p, q, Seen, SeenNow
    <3> QED
      BY <1>8, <1>9, <1>11, <2>6
  <2>8. Cardinality(Selection(peersArray') \ S) = D - have - need'
    <3>1. K \subseteq Peers
      BY <1>3, Sizes DEF Selection, IsOrder
    <3>2. IsFiniteSet(K \ S)
      BY <3>1, MeshAssumption, SubsetSize
    <3>3. Cardinality(K \ S) = D - have - need
      BY <1>1 DEF Outside
    <3>4. Cardinality(Selection(peersArray') \ S) = Cardinality((K \ S) \cup {p})
      BY <2>6
    <3> HIDE DEF K, S, p
    <3>5. Cardinality((K \ S) \cup {p}) = Cardinality(K \ S) + 1
      BY <1>6, <3>2, FS_AddElement
    <3>6. D - have - need' = D - have - need + 1
      BY <1>3, <2>1, Sizes
    <3>7. D - have - need \in Int
      BY <1>3, Sizes
    <3> QED
      BY <3>3, <3>4, <3>5, <3>6
  <2>9. \A j \in at'..N : peersArray'[j] = order[j]
    BY <1>1, <1>2, <1>4, <2>2, Sizes DEF Outside
  <2>10. need' \in Nat
    BY <1>2, <1>3, <2>1
  <2>11. Outside'
    <3>1. Selection(peersArray)' = Selection(peersArray') /\ Selection(order)' = S
      BY <1>2 DEF Selection
    <3>2. OutboundFirst(peersArray, D)'
      BY <1>2, <2>5 DEF OutboundFirst
    <3> HIDE DEF K, S, p, q
    <3> QED
      BY <1>2, <1>10, <2>6, <2>7, <2>8, <2>9, <2>10, <3>1, <3>2 DEF Outside
  <2>12. OthersInOrder(peersArray)'
    BY <1>2, <2>1, <2>4 DEF OthersInOrder
  <2> QED
    BY <1>2, <1>3, <2>2, <2>11, <2>12 DEF IInv, OrderDecides, OutboundKept
<1>12. CASE p \notin outbound
  <2>1. peersArray' = peersArray /\ need' = need
    BY <1>12 DEF BubbleOutside, Visit, Visited
  <2>2. \A j \in at'..N : peersArray[j] = order[j]
    BY <1>1, <1>2, <1>4, Sizes DEF Outside
  <2>3. K \ S = SeenNow
    BY <1>8, <1>9, <1>12
  <2>4. Outside'
    <3>1. Selection(peersArray)' = K /\ Selection(order)' = S
      BY <1>2, <2>1 DEF Selection
    <3>2. OutboundFirst(peersArray, D)'
      BY <1>1, <1>2, <2>1 DEF Outside, OutboundFirst
    <3>3. Cardinality(K \ S) = D - have - need /\ need \in Nat
      BY <1>1 DEF Outside
    <3> HIDE DEF K, S
    <3> QED
      BY <1>2, <1>9, <1>10, <2>1, <2>2, <2>3, <3>1, <3>2, <3>3 DEF Outside
  <2>5. OthersInOrder(peersArray)'
    BY <1>1, <1>2, <2>1 DEF OthersInOrder
  <2> QED
    BY <1>2, <1>3, <2>1, <2>4, <2>5 DEF IInv, OrderDecides, OutboundKept
<1> QED
  BY <1>11, <1>12

(* After the loops: either nothing is owed any more, or no outbound peer   *)
(* is left outside the selection.  Those who went are the last of the      *)
(* others, those who came the first of the outbound.                       *)
LEMMA OutsideEndsStep == ASSUME IInv, OutsideEnds PROVE IInv'
<1>1. Outside /\ IsOrder(order) /\ OthersInOrder(peersArray) /\ have = OutboundKept(order, outbound)
  BY DEF IInv, OutsideEnds
<1>2. /\ stage = "outside" /\ stage' = "rotated" /\ ~(at <= Len(peersArray) /\ need > 0)
      /\ outbound' = outbound /\ score' = score /\ have' = have /\ peersArray' = peersArray
      /\ order' = order
  BY DEF OutsideEnds, GoesOn
<1>3. IsOrder(peersArray) /\ need \in Nat /\ have \in Nat
  BY <1>1, <1>2 DEF IInv, Outside
<1>4. Len(peersArray) = N
  BY <1>3, Sizes DEF IsOrder
<1> DEFINE K == Selection(peersArray)
           S == Selection(order)
           missed == (Peers \ S) \cap outbound
<1>5. K \subseteq Peers /\ Cardinality(K) = D /\ S \subseteq Peers
  BY <1>1, <1>3, KeptSize
<1>6. /\ have < Dout /\ S \cap outbound \subseteq K
      /\ K \ S = {order[j] : j \in (D + 1)..(at - 1)} \cap outbound
      /\ Cardinality(K \ S) = D - have - need
  BY <1>1 DEF Outside
<1>7. K \ S \subseteq missed /\ IsFiniteSet(missed)
  BY <1>5, <1>6, MeshAssumption, SubsetSize
<1>8. Cardinality(K \ S) <= Cardinality(missed) /\ Cardinality(missed) \in Nat
  BY <1>7, SubsetSize
<1>9. Cardinality(K \ S) = Smaller(D - have, Cardinality(missed))
  <2>1. CASE need = 0
    <3> HIDE DEF K, S, missed
    <3> QED
      BY <1>3, <1>6, <1>8, <2>1, Sizes DEF Smaller
  <2>2. CASE need > 0
    <3>1. at = N + 1
      BY <1>1, <1>2, <1>4, <2>2, Sizes DEF Outside
    <3>2. ASSUME NEW x \in missed PROVE x \in K \ S
      <4>1. PICK i \in 1..N : order[i] = x
        BY <1>1, OrderCovers
      <4>2. i \in (D + 1)..(at - 1)
        BY <3>1, <4>1, Sizes DEF Selection
      <4> QED
        BY <1>6, <4>1, <4>2
    <3>3. K \ S = missed
      BY <1>7, <3>2
    <3>4. Cardinality(missed) = D - have - need
      BY <1>6, <3>3
    <3>5. Cardinality(K \ S) = Cardinality(missed)
      BY <3>3
    <3> HIDE DEF K, S, missed
    <3> QED
      BY <1>3, <2>2, <3>4, <3>5, Sizes DEF Smaller
  <2> QED
    BY <1>3, <2>1, <2>2
<1>10. ASSUME NEW i \in 1..D, NEW j \in 1..D, i < j, order[j] \in K \ outbound
       PROVE  order[i] \in K
  <2> SUFFICES ASSUME order[i] \notin K PROVE FALSE
    OBVIOUS
  <2>1. order[i] \notin outbound /\ order[i] \in Peers
    BY <1>5, <1>6 DEF Selection
  <2>2. PICK x \in 1..D : peersArray[x] = order[j]
    BY <1>10 DEF Selection
  <2>3. PICK y \in 1..N : peersArray[y] = order[i]
    BY <1>3, <2>1, OrderCovers
  <2>4. y \notin 1..D
    BY <2>3 DEF Selection
  <2>5. x \in 1..N /\ x < y /\ i \in 1..N /\ j \in 1..N
    BY <2>4, Sizes
  <2>6. j < i
    BY <1>1, <1>10, <2>1, <2>2, <2>3, <2>5 DEF OthersInOrder
  <2> QED
    BY <1>10, <2>5, <2>6, Sizes
<1>11. ASSUME NEW i \in (D + 1)..N, NEW j \in (D + 1)..N, i < j, order[j] \in K, order[i] \in outbound
       PROVE  order[i] \in K
  <2>1. order[j] \notin S
    BY <1>1, Sizes DEF IsOrder, Selection
  <2>2. PICK k \in (D + 1)..(at - 1) : order[k] = order[j]
    BY <1>6, <1>11, <2>1
  <2>3. k \in 1..N /\ j \in 1..N
    BY <1>1, Sizes DEF Outside
  <2>4. k = j
    BY <1>1, <2>2, <2>3 DEF IsOrder
  <2>5. i \in (D + 1)..(at - 1)
    BY <1>1, <1>11, <2>4, Sizes DEF Outside
  <2> QED
    BY <1>6, <1>11, <2>5
<1>12. Leaves(order, K)
  <2> HIDE DEF K
  <2> QED
    BY <1>1, <1>5, <1>6, <1>7, <1>9, <1>10, <1>11 DEF Leaves
<1>13. Leaves(order, Selection(peersArray))'
  <2>1. /\ OutboundKept(order, outbound)' = OutboundKept(order, outbound)
        /\ Selection(order)' = S /\ Selection(peersArray)' = K
    BY <1>2 DEF OutboundKept, Selection
  <2> HIDE DEF K, S
  <2> QED
    BY <1>2, <1>12, <2>1 DEF Leaves, S
<1>14. OthersInOrder(peersArray)'
  BY <1>1, <1>2 DEF OthersInOrder
<1> QED
  BY <1>2, <1>3, <1>13, <1>14 DEF IInv, OrderDecides, OutboundKept

LEMMA PruneStep == ASSUME IInv, Prune PROVE IInv'
<1>1. /\ stage = "rotated" /\ stage' = "pruned" /\ peersArray' = SubSeq(peersArray, 1, D)
      /\ outbound' = outbound /\ score' = score /\ order' = order
  BY DEF Prune
<1>2. IsOrder(peersArray) /\ IsOrder(order) /\ Leaves(order, Selection(peersArray))
  BY <1>1 DEF IInv
<1>3. ToSet(peersArray') = Selection(peersArray)
  <2>1. peersArray \in Seq(Peers) /\ Len(peersArray) = N
    BY <1>2, Sizes DEF IsOrder
  <2>2. /\ Len(SubSeq(peersArray, 1, D)) = D
        /\ \A i \in 1..D : SubSeq(peersArray, 1, D)[i] = peersArray[i]
    BY <2>1, Sizes
  <2>3. DOMAIN peersArray' = 1..D
    BY <1>1, <2>1, <2>2, Sizes
  <2> QED
    BY <1>1, <2>2, <2>3 DEF ToSet, Selection
<1>4. Selection(peersArray) = Survivors(order)
  BY <1>2, SurvivorsLeave, LeavesOne
<1>5. OrderDecides'
  BY <1>1, <1>3, <1>4, SameSurvivors DEF OrderDecides
<1> QED
  BY <1>1, <1>5 DEF IInv

LEMMA ExcessInvariant == Spec => []IInv
<1>1. Init => IInv
  <2>1. Init => score \in [Peers -> Int]
    BY MeshAssumption DEF Init
  <2> QED
    BY <2>1 DEF Init, IInv, OrderDecides
<1>2. IInv /\ [Next]_vars => IInv'
  <2>1. IInv /\ UNCHANGED vars => IInv'
    <3> SUFFICES ASSUME IInv, UNCHANGED vars PROVE IInv'
      OBVIOUS
    <3>1. Inside => Inside'
      BY DEF vars, Inside, OutboundFirst, Selection
    <3>2. Outside => Outside'
      BY DEF vars, Outside, OutboundFirst, Selection
    <3>3. Leaves(order, Selection(peersArray)) => Leaves(order, Selection(peersArray))'
      BY DEF vars, Leaves, Selection, OutboundKept
    <3>4. OthersInOrder(peersArray) => OthersInOrder(peersArray)'
      BY DEF vars, OthersInOrder
    <3>5. OrderDecides'
      BY SameSurvivors DEF vars, IInv, OrderDecides
    <3> QED
      BY <3>1, <3>2, <3>3, <3>4, <3>5 DEF vars, IInv, OutboundKept
  <2> QED
    BY <2>1, ShuffleStep, InsideStep, InsideEndsStep, OutsideStep, OutsideEndsStep, PruneStep DEF Next
<1> QED
  BY <1>1, <1>2, PTL DEF Spec

-----------------------------------------------------------------------------

(* What is kept of a shuffled array is a choice that ExcessKept allows:    *)
(* what is left of the peers that are not outbound is a prefix of them,    *)
(* the high-scoring head first.                                            *)
LEMMA LeavesAllowed ==
  ASSUME NEW a, IsOrder(a), a \in Shuffled(score), NEW K, Leaves(a, K)
  PROVE  K \in ExcessKept(Peers, outbound, score, D, Dscore, Dout)
<1> DEFINE S == Selection(a)
           T == {a[j] : j \in 1..Dscore}
           kept == Cardinality(S \cap outbound)
           rest == (K \cap S) \ outbound
           head == T \ outbound
<1>1. \A i \in 1..Dscore, j \in 1..N : i < j => score[a[i]] >= score[a[j]]
  BY DEF Shuffled, N
<1>2. S \subseteq Peers /\ Cardinality(S) = D /\ kept = OutboundKept(a, outbound) /\ kept \in Nat
  BY KeptSize
<1>3. T \subseteq Peers /\ Cardinality(T) = Dscore
  <2>1. Dscore \in 0..N
    BY Sizes
  <2> QED
    BY <2>1, PrefixSize
<1>4. T \subseteq S
  BY Sizes DEF Selection
<1>5. \A x \in T, y \in Peers \ T : score[x] >= score[y]
  <2> SUFFICES ASSUME NEW i \in 1..Dscore, NEW y \in Peers \ T
               PROVE  score[a[i]] >= score[y]
    OBVIOUS
  <2>1. PICK j \in 1..N : a[j] = y
    BY OrderCovers
  <2>2. j \notin 1..Dscore
    BY <2>1
  <2>3. i < j
    BY <2>2, Sizes
  <2> QED
    BY <1>1, <2>1, <2>3
<1>6. T \in {U \in SUBSET Peers : TopScored(U, Peers, Dscore, score)}
  BY <1>3, <1>5 DEF TopScored
<1>7. CASE kept >= Dout
  <2>1. K = S
    BY <1>2, <1>7, Sizes DEF Leaves
  <2> HIDE DEF S, T
  <2> QED
    BY <1>2, <1>4, <1>6, <1>7, <2>1 DEF ExcessKept
<1>8. CASE kept < Dout
  <2>1. /\ K \subseteq Peers /\ Cardinality(K) = D
        /\ S \cap outbound \subseteq K
        /\ K \ S \subseteq outbound
        /\ Cardinality(K \ S) = Smaller(D - kept, Cardinality((Peers \ S) \cap outbound))
        /\ \A i, j \in 1..D : i < j /\ a[j] \in K \ outbound => a[i] \in K
    BY <1>2, <1>8, Sizes DEF Leaves
  <2>2. ASSUME NEW x \in rest, NEW y \in head \ rest
        PROVE  x \in T /\ score[x] >= score[y]
    <3>1. PICK i \in 1..D : a[i] = x
      BY DEF Selection
    <3>2. PICK j \in 1..Dscore : a[j] = y
      OBVIOUS
    <3>3. j \in 1..D /\ j \in 1..N /\ y \notin K
      BY <1>4, <3>2, Sizes
    <3>4. ~(j < i) /\ i # j
      BY <2>1, <3>1, <3>2, <3>3
    <3>5. i \in 1..Dscore /\ i < j
      BY <3>4, Sizes
    <3> QED
      BY <1>1, <3>1, <3>2, <3>3, <3>5
  <2>3. rest \subseteq head \/ head \subseteq rest
    BY <2>2
  <2>4. \A x \in rest \cap head, y \in head \ rest : score[x] >= score[y]
    BY <2>2
  <2> HIDE DEF S, T, kept
  <2> QED
    BY <1>2, <1>4, <1>6, <1>8, <2>1, <2>3, <2>4 DEF ExcessKept, kept
<1> QED
  BY <1>2, <1>7, <1>8, Sizes

(* Dout outbound peers are kept, or all there are.                         *)
LEMMA LeavesQuota ==
  ASSUME NEW a, IsOrder(a), NEW K, Leaves(a, K), outbound \subseteq Peers
  PROVE  Cardinality(K \cap outbound) >= Smaller(Dout, Cardinality(outbound))
<1> DEFINE S == Selection(a)
           kept == OutboundKept(a, outbound)
           own == S \cap outbound
           new == K \ S
           missed == (Peers \ S) \cap outbound
<1>1. S \subseteq Peers /\ Cardinality(own) = kept /\ kept \in Nat
  BY KeptSize
<1>2. K \subseteq Peers
  BY <1>1 DEF Leaves
<1>3. /\ IsFiniteSet(own) /\ IsFiniteSet(new) /\ IsFiniteSet(missed) /\ IsFiniteSet(K \cap outbound)
      /\ Cardinality(missed) \in Nat /\ Cardinality(K \cap outbound) \in Nat
      /\ Cardinality(outbound) \in Nat
  BY <1>2, MeshAssumption, SubsetSize
<1>4. CASE kept >= Dout
  <2>1. K = S
    BY <1>1, <1>4, Sizes DEF Leaves
  <2>2. Cardinality(K \cap outbound) = kept
    BY <1>1, <2>1
  <2> HIDE DEF kept
  <2> QED
    BY <1>1, <1>3, <1>4, <2>2, Sizes DEF Smaller
<1>5. CASE kept < Dout
  <2>1. own \subseteq K /\ new \subseteq outbound /\ Cardinality(new) = Smaller(D - kept, Cardinality(missed))
    BY <1>1, <1>5, Sizes DEF Leaves
  <2>2. CASE Cardinality(new) = Cardinality(missed)
    <3>1. new \subseteq missed
      BY <1>2, <2>1
    <3> HIDE DEF new, missed
    <3>2. new = missed
      BY <1>3, <2>2, <3>1, SubsetSize
    <3>3. K \cap outbound = outbound
      BY <2>1, <3>2 DEF new, missed
    <3> QED
      BY <1>3, <3>3, Sizes DEF Smaller
  <2>3. CASE Cardinality(new) = D - kept
    <3>1. own \cap new = {}
      OBVIOUS
    <3>2. own \cup new \subseteq K \cap outbound
      BY <2>1
    <3> HIDE DEF own, new, kept
    <3>3. Cardinality(own \cap new) = 0
      BY <3>1, FS_EmptySet
    <3>4. Cardinality(own \cup new) = Cardinality(own) + Cardinality(new) - Cardinality(own \cap new)
      BY <1>3, FS_Union
    <3>5. Cardinality(own \cup new) <= Cardinality(K \cap outbound)
      BY <1>3, <3>2, SubsetSize
    <3> QED
      BY <1>1, <1>3, <2>3, <3>3, <3>4, <3>5, Sizes DEF Smaller
  <2> QED
    BY <2>1, <2>2, <2>3 DEF Smaller
<1> QED
  BY <1>1, <1>4, <1>5, Sizes

-----------------------------------------------------------------------------

(* By class, then by rising value, then kept ones first, then by number.   *)
Lexicographic(class, value, gone, number) ==
  {e \in Peers \X Peers :
     \/ class[e[1]] < class[e[2]]
     \/ class[e[1]] = class[e[2]] /\ value[e[1]] > value[e[2]]
     \/ class[e[1]] = class[e[2]] /\ value[e[1]] = value[e[2]] /\ gone[e[1]] < gone[e[2]]
     \/ /\ class[e[1]] = class[e[2]] /\ value[e[1]] = value[e[2]] /\ gone[e[1]] = gone[e[2]]
        /\ number[e[1]] < number[e[2]]}

LEMMA LexicographicOrders ==
  ASSUME NEW c \in [Peers -> Int], NEW v \in [Peers -> Int], NEW g \in [Peers -> Int],
         NEW f \in [Peers -> Int], \A x, y \in Peers : x # y => f[x] # f[y]
  PROVE  Ordered(Peers, Lexicographic(c, v, g, f))
<1>1. \A x, y \in Peers :
        <<x, y>> \in Lexicographic(c, v, g, f) <=>
           \/ c[x] < c[y]
           \/ c[x] = c[y] /\ v[x] > v[y]
           \/ c[x] = c[y] /\ v[x] = v[y] /\ g[x] < g[y]
           \/ c[x] = c[y] /\ v[x] = v[y] /\ g[x] = g[y] /\ f[x] < f[y]
  BY DEF Lexicographic
<1>2. \A x \in Peers : c[x] \in Int /\ v[x] \in Int /\ g[x] \in Int /\ f[x] \in Int
  OBVIOUS
<1>3. \A x \in Peers : <<x, x>> \notin Lexicographic(c, v, g, f)
  BY <1>1, <1>2
<1>4. \A x, y \in Peers :
        x # y => <<x, y>> \in Lexicographic(c, v, g, f) \/ <<y, x>> \in Lexicographic(c, v, g, f)
  BY <1>1, <1>2
<1>5. \A x, y, z \in Peers :
        <<x, y>> \in Lexicographic(c, v, g, f) /\ <<y, z>> \in Lexicographic(c, v, g, f)
          => <<x, z>> \in Lexicographic(c, v, g, f)
  <2> SUFFICES ASSUME NEW x \in Peers, NEW y \in Peers, NEW z \in Peers,
                      <<x, y>> \in Lexicographic(c, v, g, f), <<y, z>> \in Lexicographic(c, v, g, f)
               PROVE  <<x, z>> \in Lexicographic(c, v, g, f)
    OBVIOUS
  <2> QED
    BY <1>1, <1>2
<1> QED
  BY <1>3, <1>4, <1>5 DEF Ordered

(* A set that the order of an array puts first is a prefix of it.          *)
LEMMA FirstIsPrefix ==
  ASSUME NEW a, IsOrder(a), NEW X \in SUBSET Peers,
         \A i, j \in 1..N : i < j /\ a[j] \in X => a[i] \in X
  PROVE  X = {a[j] : j \in 1..Cardinality(X)}
<1> DEFINE n == Cardinality(X)
           A == {a[j] : j \in 1..n}
<1>1. IsFiniteSet(X) /\ n \in Nat /\ n <= N
  BY MeshAssumption, SubsetSize DEF N
<1>2. n \in 0..N
  BY <1>1, Sizes
<1>3. A \subseteq Peers /\ Cardinality(A) = n
  BY <1>2, PrefixSize
<1>4. X \subseteq A
  <2> SUFFICES ASSUME NEW x \in X PROVE x \in A
    OBVIOUS
  <2>1. PICK i \in 1..N : a[i] = x
    BY OrderCovers
  <2>2. {a[j] : j \in 1..i} \subseteq X
    BY <2>1, Sizes
  <2>3. Cardinality({a[j] : j \in 1..i}) = i
    <3>1. i \in 0..N
      BY Sizes
    <3> QED
      BY <3>1, PrefixSize
  <2>4. i <= n
    BY <1>1, <2>2, <2>3, SubsetSize
  <2>5. i \in 1..n
    BY <1>1, <2>4, Sizes
  <2> QED
    BY <2>1, <2>5
<1>5. IsFiniteSet(A)
  BY <1>3, MeshAssumption, SubsetSize
<1> QED
  BY <1>3, <1>4, <1>5, SubsetSize

(* Peers can be numbered.                                                  *)
LEMMA Numbering == \E f \in [Peers -> Int] : \A x, y \in Peers : x # y => f[x] # f[y]
<1>1. PICK g \in Bijection(1..N, Peers) : TRUE
  BY MeshAssumption, FS_CardinalityType DEF N, ExistsBijection
<1>2. \A x \in Peers : \E i \in 1..N : g[i] = x
  BY DEF Bijection, Surjection
<1> DEFINE f == [x \in Peers |-> CHOOSE i \in 1..N : g[i] = x]
<1>3. \A x \in Peers : f[x] \in 1..N /\ g[f[x]] = x
  BY <1>2
<1>4. f \in [Peers -> Int]
  BY <1>3
<1> HIDE DEF f
<1> QED
  BY <1>3, <1>4

(* Whatever ExcessKept allows is kept of some array the sort and the       *)
(* shuffle can make: the head by score, the rest of the selection, the     *)
(* rest, and in each part those that are to be kept in front.              *)
LEMMA AllowedLeaves ==
  ASSUME NEW K \in ExcessKept(Peers, outbound, score, D, Dscore, Dout), score \in [Peers -> Int]
  PROVE  \E a \in Shuffled(score) : IsOrder(a) /\ Leaves(a, K)
<1>1. PICK T \in SUBSET Peers, S \in SUBSET Peers :
        /\ TopScored(T, Peers, Dscore, score)
        /\ T \subseteq S
        /\ Cardinality(S) = D
        /\ \/ /\ Cardinality(S \cap outbound) >= Dout
              /\ K = S
           \/ /\ Cardinality(S \cap outbound) < Dout
              /\ S \cap outbound \subseteq K
              /\ K \ S \subseteq outbound
              /\ Cardinality(K \ S) = Smaller(D - Cardinality(S \cap outbound),
                                              Cardinality((Peers \ S) \cap outbound))
              /\ (K \cap S) \ outbound \subseteq T \ outbound \/ T \ outbound \subseteq (K \cap S) \ outbound
              /\ \A x \in ((K \cap S) \ outbound) \cap (T \ outbound),
                    y \in (T \ outbound) \ ((K \cap S) \ outbound) : score[x] >= score[y]
  BY DEF ExcessKept
<1>2. K \subseteq Peers /\ Cardinality(K) = D
  BY DEF ExcessKept
<1>3. T \subseteq Peers /\ Cardinality(T) = Dscore /\ \A x \in T, y \in Peers \ T : score[x] >= score[y]
  BY <1>1 DEF TopScored
<1>4. PICK f \in [Peers -> Int] : \A x, y \in Peers : x # y => f[x] # f[y]
  BY Numbering
<1> DEFINE c == [x \in Peers |-> IF x \in T THEN 1 ELSE IF x \in S THEN 2 ELSE 3]
           v == [x \in Peers |-> IF x \in T THEN score[x] ELSE 0]
           g == [x \in Peers |-> IF x \in K THEN 0 ELSE 1]
           R == Lexicographic(c, v, g, f)
<1>5. c \in [Peers -> Int] /\ g \in [Peers -> Int]
  OBVIOUS
<1>6. v \in [Peers -> Int]
  OBVIOUS
<1>7. /\ \A x \in Peers : c[x] = IF x \in T THEN 1 ELSE IF x \in S THEN 2 ELSE 3
      /\ \A x \in T : v[x] = score[x] /\ score[x] \in Int
      /\ \A x \in Peers : g[x] = IF x \in K THEN 0 ELSE 1
  BY <1>3
<1>8. \A x \in Peers \ T : v[x] = 0
  OBVIOUS
<1> HIDE DEF c, v, g
<1>9. PICK a : IsOrder(a) /\ \A i, j \in 1..N : i < j => <<a[i], a[j]>> \in R
  BY <1>4, <1>5, <1>6, LexicographicOrders, OrderExists
<1>10. \A i \in 1..N : a[i] \in Peers
  BY <1>9 DEF IsOrder
(* The array goes by class; in the head by score; then the kept first.     *)
<1>11. ASSUME NEW i \in 1..N, NEW j \in 1..N, i < j
       PROVE  /\ c[a[i]] <= c[a[j]]
              /\ c[a[i]] = c[a[j]] => v[a[i]] >= v[a[j]]
              /\ c[a[i]] = c[a[j]] /\ v[a[i]] = v[a[j]] => g[a[i]] <= g[a[j]]
  <2>1. <<a[i], a[j]>> \in R /\ a[i] \in Peers /\ a[j] \in Peers
    BY <1>9, <1>10, <1>11
  <2>2. \/ c[a[i]] < c[a[j]]
        \/ c[a[i]] = c[a[j]] /\ v[a[i]] > v[a[j]]
        \/ c[a[i]] = c[a[j]] /\ v[a[i]] = v[a[j]] /\ g[a[i]] < g[a[j]]
        \/ c[a[i]] = c[a[j]] /\ v[a[i]] = v[a[j]] /\ g[a[i]] = g[a[j]]
    BY <2>1 DEF Lexicographic
  <2>3. c[a[i]] \in Int /\ c[a[j]] \in Int /\ v[a[i]] \in Int /\ v[a[j]] \in Int /\ g[a[i]] \in Int /\ g[a[j]] \in Int
    BY <1>5, <1>6, <2>1
  <2> QED
    BY <2>2, <2>3
<1>12. T = {a[j] : j \in 1..Dscore}
  <2>1. ASSUME NEW i \in 1..N, NEW j \in 1..N, i < j, a[j] \in T PROVE a[i] \in T
    <3>1. c[a[i]] <= c[a[j]] /\ a[i] \in Peers /\ a[j] \in Peers
      BY <1>10, <1>11, <2>1
    <3> QED
      BY <1>7, <2>1, <3>1
  <2>2. T = {a[j] : j \in 1..Cardinality(T)}
    BY <1>9, <2>1, FirstIsPrefix
  <2> QED
    BY <1>3, <2>2
<1>13. S = Selection(a)
  <2>1. ASSUME NEW i \in 1..N, NEW j \in 1..N, i < j, a[j] \in S PROVE a[i] \in S
    <3>1. c[a[i]] <= c[a[j]] /\ a[i] \in Peers /\ a[j] \in Peers
      BY <1>10, <1>11, <2>1
    <3> QED
      BY <1>1, <1>7, <2>1, <3>1
  <2>2. S = {a[j] : j \in 1..Cardinality(S)}
    BY <1>9, <2>1, FirstIsPrefix
  <2> QED
    BY <1>1, <2>2 DEF Selection
<1>14. a \in Shuffled(score)
  <2>1. ASSUME NEW i \in 1..Dscore, NEW j \in 1..N, i < j PROVE score[a[i]] >= score[a[j]]
    <3>1. i \in 1..N /\ a[i] \in T /\ a[j] \in Peers
      BY <1>10, <1>12, Sizes
    <3>2. CASE a[j] \in T
      <4>1. c[a[i]] = c[a[j]]
        BY <1>7, <1>10, <3>1, <3>2
      <4>2. v[a[i]] >= v[a[j]]
        BY <1>11, <2>1, <3>1, <4>1
      <4> QED
        BY <1>7, <3>1, <3>2, <4>2
    <3>3. CASE a[j] \notin T
      BY <1>3, <3>1, <3>3
    <3> QED
      BY <3>2, <3>3
  <2>2. a \in SetToSeqs(Peers)
    BY <1>9 DEF IsOrder, SetToSeqs, N
  <2> QED
    BY <2>1, <2>2 DEF Shuffled, N
<1>15. OutboundKept(a, outbound) = Cardinality(S \cap outbound) /\ OutboundKept(a, outbound) \in Nat
  BY <1>9, <1>13, KeptSize
<1>16. CASE Cardinality(S \cap outbound) >= Dout
  <2>1. K = S
    BY <1>1, <1>15, <1>16, Sizes
  <2> QED
    BY <1>9, <1>13, <1>14, <1>15, <1>16, <2>1 DEF Leaves
<1>17. CASE Cardinality(S \cap outbound) < Dout
  <2>1. /\ S \cap outbound \subseteq K
        /\ K \ S \subseteq outbound
        /\ Cardinality(K \ S) = Smaller(D - Cardinality(S \cap outbound),
                                        Cardinality((Peers \ S) \cap outbound))
        /\ (K \cap S) \ outbound \subseteq T \ outbound \/ T \ outbound \subseteq (K \cap S) \ outbound
        /\ \A x \in ((K \cap S) \ outbound) \cap (T \ outbound),
              y \in (T \ outbound) \ ((K \cap S) \ outbound) : score[x] >= score[y]
    BY <1>1, <1>15, <1>17, Sizes
  <2>2. ASSUME NEW i \in 1..D, NEW j \in 1..D, i < j, a[j] \in K \ outbound PROVE a[i] \in K
    <3> SUFFICES ASSUME a[i] \notin K PROVE FALSE
      OBVIOUS
    <3>1. i \in 1..N /\ j \in 1..N /\ a[i] \in S \ outbound /\ a[j] \in S /\ a[i] \in Peers /\ a[j] \in Peers
      BY <1>10, <1>13, <2>1, Sizes DEF Selection
    <3>2. /\ c[a[i]] <= c[a[j]]
          /\ c[a[i]] = c[a[j]] => v[a[i]] >= v[a[j]]
          /\ c[a[i]] = c[a[j]] /\ v[a[i]] = v[a[j]] => g[a[i]] <= g[a[j]]
      BY <1>11, <2>2, <3>1
    <3>3. g[a[i]] = 1 /\ g[a[j]] = 0
      BY <1>7, <2>2, <3>1
    <3>4. CASE a[i] \in T
      <4>1. (K \cap S) \ outbound \subseteq T \ outbound
        BY <2>1, <3>1, <3>4
      <4>2. a[j] \in T
        BY <2>2, <3>1, <4>1
      <4>3. score[a[j]] >= score[a[i]]
        BY <2>1, <2>2, <3>1, <3>4, <4>2
      <4>4. c[a[i]] = c[a[j]]
        BY <1>7, <3>1, <3>4, <4>2
      <4>5. v[a[i]] = v[a[j]]
        BY <1>7, <3>2, <3>4, <4>2, <4>3, <4>4
      <4> QED
        BY <3>2, <3>3, <4>4, <4>5
    <3>5. CASE a[i] \notin T
      <4>1. c[a[i]] = 2
        BY <1>7, <3>1, <3>5
      <4>2. a[j] \notin T
        BY <1>7, <3>1, <3>2, <4>1
      <4>3. c[a[j]] = 2 /\ v[a[i]] = 0 /\ v[a[j]] = 0
        BY <1>7, <1>8, <3>1, <3>5, <4>2
      <4> QED
        BY <3>2, <3>3, <4>1, <4>3
    <3> QED
      BY <3>4, <3>5
  <2>3. ASSUME NEW i \in (D + 1)..N, NEW j \in (D + 1)..N, i < j, a[j] \in K, a[i] \in outbound
        PROVE  a[i] \in K
    <3>1. i \in 1..N /\ j \in 1..N /\ a[i] \in Peers /\ a[j] \in Peers
      BY <1>10, Sizes
    <3>2. a[i] \notin S /\ a[j] \notin S
      BY <1>9, <1>13, <3>1, Sizes DEF IsOrder, Selection
    <3>3. c[a[i]] = 3 /\ c[a[j]] = 3 /\ v[a[i]] = 0 /\ v[a[j]] = 0
      BY <1>1, <1>7, <1>8, <3>1, <3>2
    <3>4. g[a[i]] <= g[a[j]] /\ g[a[j]] = 0
      BY <1>7, <1>11, <2>3, <3>1, <3>3
    <3> QED
      BY <1>7, <3>1, <3>4
  <2>4. Leaves(a, K)
    BY <1>2, <1>13, <1>15, <1>17, <2>1, <2>2, <2>3 DEF Leaves
  <2> QED
    BY <1>9, <1>14, <2>4
<1> QED
  BY <1>15, <1>16, <1>17, Sizes

-----------------------------------------------------------------------------

(* The rotations leave exactly those whom the shuffled array chose, for    *)
(* meshes of any size and any degrees. (index.ts, rotate and the two loops *)
(* that "bubble up" outbound peers)                                        *)
THEOREM RotationsKeepChoice == Spec => []OrderDecides
<1>1. IInv => OrderDecides
  BY DEF IInv
<1> QED
  BY <1>1, ExcessInvariant, PTL

(* Over all ways to sort and to shuffle, those choices are the sets that   *)
(* ExcessKept allows, no more and no less: MeshRouter's pruning, stated by *)
(* sets, is neither wider nor narrower than the code. (index.ts, the "do   *)
(* we have to many peers?" branch)                                         *)
THEOREM ChoicesAreExact == Spec => []SurvivorsExact
<1>1. ASSUME IInv PROVE SurvivorsExact
  <2>1. score \in [Peers -> Int]
    BY <1>1 DEF IInv
  <2>2. ASSUME NEW a \in Shuffled(score)
        PROVE  Survivors(a) \in ExcessKept(Peers, outbound, score, D, Dscore, Dout)
    <3>1. IsOrder(a)
      BY DEF Shuffled, SetToSeqs, IsOrder, N
    <3> QED
      BY <3>1, SurvivorsLeave, LeavesAllowed
  <2>3. ASSUME NEW K \in ExcessKept(Peers, outbound, score, D, Dscore, Dout)
        PROVE  \E a \in Shuffled(score) : K = Survivors(a)
    <3>1. PICK a \in Shuffled(score) : IsOrder(a) /\ Leaves(a, K)
      BY <2>1, AllowedLeaves
    <3> QED
      BY <3>1, SurvivorsLeave, LeavesOne
  <2>4. ExcessKept(Peers, outbound, score, D, Dscore, Dout) = {Survivors(a) : a \in Shuffled(score)}
    BY <2>2, <2>3
  <2> QED
    BY <2>4 DEF SurvivorsExact
<1>2. IInv => SurvivorsExact
  BY <1>1
<1> QED
  BY <1>2, ExcessInvariant, PTL

(* Whatever the sort and the shuffle do, what the loops leave is a choice  *)
(* that ExcessKept allows. (index.ts, "do we have to many peers?")         *)
THEOREM ArrayIsAllowed ==
  Spec => [](stage = "pruned" =>
               ToSet(peersArray) \in ExcessKept(Peers, outbound, score, D, Dscore, Dout))
<1>1. IInv => (stage = "pruned" =>
                 ToSet(peersArray) \in ExcessKept(Peers, outbound, score, D, Dscore, Dout))
  BY SurvivorsLeave, LeavesAllowed DEF IInv, OrderDecides
<1> QED
  BY <1>1, ExcessInvariant, PTL

(* Dout outbound peers survive the pruning, or all that were in the mesh.  *)
(* (index.ts, "bubble up some outbound peers from the random selection")   *)
THEOREM QuotaSurvives == Spec => []OutboundQuota
<1>1. IInv => OutboundQuota
  BY SurvivorsLeave, LeavesQuota DEF IInv, OrderDecides, OutboundQuota
<1> QED
  BY <1>1, ExcessInvariant, PTL
================================================================================
