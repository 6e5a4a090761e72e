---------------------------- MODULE Peers_proofs ----------------------------
(***************************************************************************)
(* Whom a node knows and how it looks for others.                          *)
(*                                                                         *)
(* The table of peers, for every number of bits, buckets, entries and for  *)
(* every set of peers: how its buckets order the identifiers around a      *)
(* target, that it stays sound and keeps whom it has, when its array is    *)
(* not overrun, and what a search of it finds.  Discovery only ever does   *)
(* to the table what Buckets says.                                         *)
(*                                                                         *)
(* find_nearest and find_closest_peers are recursive functions.  That such *)
(* a function exists, and what holds of all its values, is derived here    *)
(* from the least number of which it would be wrong.                       *)
(*                                                                         *)
(* A lookup, for every table, every size of the network, and whatever the  *)
(* peers answer: without the value it ends only when every identifier it   *)
(* came across has been asked; it asks in the order in which it came       *)
(* across them, and again only those the own table repeats; it leaves them *)
(* in the table, and returns the closest.                                  *)
(***************************************************************************)
EXTENDS Discovery, Lookup, WellFoundedInduction, FiniteSetTheorems, TLAPS

(* A non-empty set of naturals has a least element.                        *)
LEMMA LeastElement ==
    ASSUME NEW S, S \subseteq Nat, S # {}
    PROVE  \E x \in S : \A y \in S : x <= y
<1>1. PICK x \in S : \A y \in S : ~(<<y, x>> \in OpToRel(<, Nat))
  BY NatLessThanWellFounded, WFMin, Zenon
<1>2. ASSUME NEW y \in S PROVE x <= y
  <2>1. x \in Nat /\ y \in Nat
    OBVIOUS
  <2>2. ~(y < x)
    BY <1>1, <2>1 DEF OpToRel
  <2> QED
    BY <2>1, <2>2
<1> QED
  BY <1>2

(* Induction up to N, over the numbers for which something is true.        *)
LEMMA SetInduction ==
    ASSUME NEW N \in Nat, NEW S, 0 \in S,
           \A n \in 0..N : n \in S /\ n < N => n + 1 \in S
    PROVE  \A n \in 0..N : n \in S
<1> SUFFICES ASSUME (0..N) \ S # {} PROVE FALSE
  OBVIOUS
<1>1. PICK m \in (0..N) \ S : \A k \in (0..N) \ S : m <= k
  <2>1. (0..N) \ S \subseteq Nat
    OBVIOUS
  <2> QED
    BY <2>1, LeastElement
<1>2. m \in Nat /\ m # 0 /\ m <= N
  OBVIOUS
<1>3. m - 1 \in 0..N /\ m - 1 < N /\ ~(m <= m - 1)
  BY <1>2
<1>4. m - 1 \in S
  BY <1>1, <1>3
<1>5. (m - 1) + 1 \in S
  BY <1>3, <1>4
<1> QED
  BY <1>2, <1>5

(* A function that is defined by recursion over 0..N exists.               *)
Steps(T, N) == [T \X (1..N) -> T]

Recursion(T, base, N, step) ==
    {g \in [0..N -> T] : /\ g[0] = base
                         /\ \A n \in 1..N : g[n] = step[<<g[n-1], n>>]}

LEMMA RecursionExists ==
    ASSUME NEW T, NEW base \in T, NEW N \in Nat, NEW step \in Steps(T, N)
    PROVE  Recursion(T, base, N, step) # {}
<1> SUFFICES \E g \in [0..N -> T] :
                /\ g[0] = base
                /\ \A n \in 1..N : g[n] = step[<<g[n-1], n>>]
  BY DEF Recursion
<1> USE DEF Steps
<1> DEFINE Upto(g, n) == /\ g[0] = base
                         /\ \A k \in 1..n : g[k] = step[<<g[k-1], k>>]
           S == {n \in 0..N : \E g \in [0..N -> T] : Upto(g, n)}
<1>1. 0 \in S
  <2>1. [k \in 0..N |-> base] \in [0..N -> T] /\ Upto([k \in 0..N |-> base], 0)
    BY DEF Upto
  <2>2. 0 \in 0..N
    OBVIOUS
  <2> QED
    BY <2>1, <2>2
<1>2. ASSUME NEW n \in 0..N, n \in S, n < N PROVE n + 1 \in S
  <2>1. PICK g \in [0..N -> T] : Upto(g, n)
    BY <1>2
  <2> DEFINE h == [g EXCEPT ![n+1] = step[<<g[n], n+1>>]]
  <2>2. n + 1 \in 1..N /\ n + 1 \in 0..N /\ g[n] \in T
    BY <1>2
  <2>3. h \in [0..N -> T]
    BY <2>2
  <2>4. h[0] = base
    BY <2>1, <2>2
  <2>5. ASSUME NEW k \in 1..n+1 PROVE h[k] = step[<<h[k-1], k>>]
    <3>1. k \in 0..N /\ k - 1 \in 0..N /\ k - 1 # n + 1
      BY <2>2
    <3>2. h[k-1] = g[k-1]
      BY <3>1
    <3>3. CASE k = n + 1
      BY <2>2, <3>1, <3>2, <3>3
    <3>4. CASE k # n + 1
      <4>1. k \in 1..n
        BY <3>4
      <4> QED
        BY <2>1, <3>1, <3>2, <3>4, <4>1
    <3> QED
      BY <3>3, <3>4
  <2>6. Upto(h, n + 1)
    BY <2>4, <2>5
  <2> QED
    BY <2>2, <2>3, <2>6
<1> HIDE DEF Upto
<1>3. \A n \in 0..N : n \in S
  <2> HIDE DEF S
  <2> QED
    BY <1>1, <1>2, SetInduction
<1>4. N \in S
  BY <1>3
<1> QED
  BY <1>4 DEF Upto
-----------------------------------------------------------------------------
(* get_bucket_index returns the first bit set, -1 if there is none.        *)
LEMMA FirstBitSet ==
    ASSUME NEW d \in HashID
    PROVE  LET b == get_bucket_index(d)
           IN  \/ b = -1 /\ \A j \in Bit : d[j] = 0
               \/ b \in Bit /\ d[b] = 1 /\ \A j \in Bit : j < b => d[j] = 0
<1>1. \A j \in Bit : d[j] \in {0, 1}
  BY DEF HashID
<1>2. CASE SetBits(d) = {}
  BY <1>1, <1>2 DEF get_bucket_index, SetBits
<1>3. CASE SetBits(d) # {}
  <2> SetBits(d) \subseteq Nat
    BY IdBitsAssumption DEF SetBits, Bit
  <2>1. \E v \in SetBits(d) : \A j \in SetBits(d) : v <= j
    BY <1>3, LeastElement
  <2>2. /\ get_bucket_index(d) \in SetBits(d)
        /\ \A j \in SetBits(d) : get_bucket_index(d) <= j
    BY <1>3, <2>1 DEF get_bucket_index
  <2> QED
    BY <1>1, <2>2, IdBitsAssumption DEF SetBits, Bit
<1> QED
  BY <1>2, <1>3

LEMMA DistanceType ==
    ASSUME NEW p \in HashID, NEW q \in HashID
    PROVE  dist_hash(p, q) \in HashID
BY DEF dist_hash, HashID

(* The first bit in which two distances differ decides compare_hashes.     *)
LEMMA FirstDifferenceDecides ==
    ASSUME NEW d1 \in HashID, NEW d2 \in HashID, NEW m \in Bit,
           \A j \in Bit : j < m => d1[j] = d2[j],
           d1[m] = 0, d2[m] = 1
    PROVE  compare_hashes(d1, d2) = -1
<1> DEFINE x == dist_hash(d1, d2)
           b == get_bucket_index(x)
<1>1. x \in HashID
  BY DistanceType
<1>2. x[m] = 1 /\ \A j \in Bit : j < m => x[j] = 0
  BY DEF dist_hash
<1>3. b = m
  <2>1. \/ b = -1 /\ \A j \in Bit : x[j] = 0
        \/ b \in Bit /\ x[b] = 1 /\ \A j \in Bit : j < b => x[j] = 0
    BY <1>1, FirstBitSet
  <2>2. b \in Bit /\ ~(b < m) /\ ~(m < b)
    BY <1>2, <2>1
  <2> QED
    BY <2>2, IdBitsAssumption DEF Bit
<1>4. m # -1
  BY IdBitsAssumption DEF Bit
<1> QED
  BY <1>3, <1>4 DEF compare_hashes

(* p is closer than q when in the first bit in which they differ p agrees  *)
(* with the target.                                                        *)
LEMMA CloserMeans ==
    ASSUME NEW p \in HashID, NEW q \in HashID, NEW t \in HashID
    PROVE  Closer(p, q, t) <=>
               \E m \in Bit : /\ p[m] = t[m] /\ q[m] # t[m]
                              /\ \A j \in Bit : j < m => p[j] = q[j]
<1> DEFINE dp == dist_hash(p, t)
           dq == dist_hash(q, t)
           x == dist_hash(dp, dq)
           b == get_bucket_index(x)
<1>0. /\ p \in [Bit -> {0, 1}] /\ q \in [Bit -> {0, 1}]
      /\ t \in [Bit -> {0, 1}]
  BY DEF HashID
<1>1. dp \in HashID /\ dq \in HashID /\ x \in HashID
  BY DistanceType
<1>2. \A j \in Bit : (dp[j] = dq[j] <=> p[j] = q[j])
                     /\ (dp[j] = 0 <=> p[j] = t[j]) /\ dp[j] \in {0, 1}
                     /\ (dq[j] = 0 <=> q[j] = t[j]) /\ dq[j] \in {0, 1}
  BY <1>0 DEF dist_hash
<1>3. ASSUME NEW m \in Bit, p[m] = t[m], q[m] # t[m],
             \A j \in Bit : j < m => p[j] = q[j]
      PROVE  Closer(p, q, t)
  <2>1. compare_hashes(dp, dq) = -1
    <3> HIDE DEF dp, dq
    <3> QED
      BY <1>1, <1>2, <1>3, FirstDifferenceDecides
  <2> QED
    BY <2>1 DEF Closer
<1>4. ASSUME Closer(p, q, t)
      PROVE  \E m \in Bit : /\ p[m] = t[m] /\ q[m] # t[m]
                            /\ \A j \in Bit : j < m => p[j] = q[j]
  <2>1. compare_hashes(dp, dq) = -1
    BY <1>4 DEF Closer
  <2>2. b # -1 /\ dp[b] < dq[b]
    BY <2>1 DEF compare_hashes
  <2>3. b \in Bit /\ \A j \in Bit : j < b => x[j] = 0
    BY <1>1, <2>2, FirstBitSet
  <2>4. \A j \in Bit : x[j] = 0 <=> dp[j] = dq[j]
    BY DEF dist_hash
  <2> HIDE DEF b, x, dp, dq
  <2>5. \A j \in Bit : j < b => p[j] = q[j]
    BY <1>2, <2>3, <2>4
  <2>6. p[b] = t[b] /\ q[b] # t[b]
    BY <1>2, <2>2, <2>3
  <2> QED
    BY <2>3, <2>5, <2>6
<1> QED
  BY <1>3, <1>4

LEMMA CloserIrreflexive ==
    ASSUME NEW p \in HashID, NEW t \in HashID
    PROVE  ~Closer(p, p, t)
BY CloserMeans

(* Nobody who is not closer than q is closer than one closer than q.       *)
LEMMA CloserTransitive ==
    ASSUME NEW p \in HashID, NEW q \in HashID, NEW r \in HashID,
           NEW t \in HashID, ~Closer(r, q, t), Closer(p, q, t)
    PROVE  ~Closer(r, p, t)
<1>0. /\ p \in [Bit -> {0, 1}] /\ q \in [Bit -> {0, 1}]
      /\ r \in [Bit -> {0, 1}] /\ t \in [Bit -> {0, 1}]
  BY DEF HashID
<1>1. \A j \in Bit : j \in Int
  BY IdBitsAssumption DEF Bit
<1> SUFFICES ASSUME Closer(r, p, t) PROVE FALSE
  OBVIOUS
<1>2. PICK m \in Bit : /\ p[m] = t[m] /\ q[m] # t[m]
                       /\ \A j \in Bit : j < m => p[j] = q[j]
  BY CloserMeans
<1>3. PICK k \in Bit : /\ r[k] = t[k] /\ p[k] # t[k]
                       /\ \A j \in Bit : j < k => r[j] = p[j]
  BY CloserMeans
<1>4. CASE k < m
  <2>1. q[k] # t[k] /\ \A j \in Bit : j < k => r[j] = q[j]
    BY <1>1, <1>2, <1>3, <1>4
  <2> QED
    BY <1>3, <2>1, CloserMeans
<1>5. CASE m < k
  <2>1. r[m] = t[m] /\ \A j \in Bit : j < m => r[j] = q[j]
    BY <1>1, <1>2, <1>3, <1>5
  <2> QED
    BY <1>2, <2>1, CloserMeans
<1>6. CASE m = k
  BY <1>2, <1>3, <1>6
<1> QED
  BY <1>1, <1>4, <1>5, <1>6

(* Of two identifiers one is closer.                                       *)
LEMMA CloserTotal ==
    ASSUME NEW p \in HashID, NEW q \in HashID, NEW t \in HashID, p # q
    PROVE  Closer(p, q, t) \/ Closer(q, p, t)
<1>0. /\ p \in [Bit -> {0, 1}] /\ q \in [Bit -> {0, 1}]
      /\ t \in [Bit -> {0, 1}]
  BY DEF HashID
<1> DEFINE D == {j \in Bit : p[j] # q[j]}
<1>1. D # {} /\ D \subseteq Nat
  BY <1>0, IdBitsAssumption DEF Bit
<1>2. PICK m \in D : \A j \in D : m <= j
  <2> HIDE DEF D
  <2> QED
    BY <1>1, LeastElement
<1>3. \A j \in Bit : j < m => p[j] = q[j]
  BY <1>1, <1>2, IdBitsAssumption DEF Bit
<1>4. p[m] = t[m] \/ q[m] = t[m]
  BY <1>0, <1>2
<1> QED
  BY <1>2, <1>3, <1>4, CloserMeans

(* The peers of the target's own bucket are all closer to the target than  *)
(* every other identifier, our own included: the reason why                *)
(* find_closest_peers reads that bucket first.                             *)
THEOREM OwnBucketIsClosest ==
    ASSUME NEW own \in HashID, NEW target \in HashID,
           NEW p \in HashID, NEW q \in HashID,
           get_bucket_index(dist_hash(own, target)) # -1,
           get_bucket_index(dist_hash(own, p))
               = get_bucket_index(dist_hash(own, target)),
           get_bucket_index(dist_hash(own, q))
               # get_bucket_index(dist_hash(own, target))
    PROVE  Closer(p, q, target)
<1> DEFINE b == get_bucket_index(dist_hash(own, target))
           c == get_bucket_index(dist_hash(own, q))
<1>1. /\ own \in [Bit -> {0, 1}] /\ target \in [Bit -> {0, 1}]
      /\ p \in [Bit -> {0, 1}] /\ q \in [Bit -> {0, 1}]
  BY DEF HashID
<1>2. /\ b \in Bit /\ own[b] # target[b]
      /\ \A j \in Bit : j < b => own[j] = target[j]
  BY FirstBitSet, DistanceType DEF dist_hash
<1>3. own[b] # p[b] /\ \A j \in Bit : j < b => own[j] = p[j]
  BY <1>2, FirstBitSet, DistanceType DEF dist_hash
<1>4. \/ c = -1 /\ \A j \in Bit : own[j] = q[j]
      \/ c \in Bit /\ own[c] # q[c] /\ \A j \in Bit : j < c => own[j] = q[j]
  BY FirstBitSet, DistanceType DEF dist_hash
<1> b # c
  OBVIOUS
<1> HIDE DEF b, c
<1>5. PICK m \in Bit : /\ q[m] # target[m] /\ p[m] = target[m]
                       /\ \A j \in Bit : j < m => /\ q[j] = target[j]
                                                  /\ p[j] = target[j]
  <2>1. -1 \notin Bit /\ \A j \in Bit : j \in Int
    BY IdBitsAssumption DEF Bit
  <2>2. p[b] = target[b]
    BY <1>1, <1>2, <1>3
  <2>3. CASE c \in Bit /\ c < b
    <3>1. own[c] = target[c] /\ own[c] = p[c] /\ own[c] # q[c]
      BY <1>2, <1>3, <1>4, <2>1, <2>3
    <3>2. ASSUME NEW j \in Bit, j < c
          PROVE  q[j] = target[j] /\ p[j] = target[j]
      BY <1>2, <1>3, <1>4, <2>1, <2>3, <3>2
    <3> QED
      BY <2>3, <3>1, <3>2
  <2>4. CASE c = -1 \/ b < c
    <3>1. own[b] = q[b] /\ \A j \in Bit : j < b => own[j] = q[j]
      BY <1>2, <1>4, <2>1, <2>4
    <3> QED
      BY <1>2, <1>3, <2>2, <3>1
  <2>5. (c \in Bit /\ c < b) \/ c = -1 \/ b < c
    BY <1>2, <1>4, <2>1
  <2> QED
    BY <2>3, <2>4, <2>5
<1>6. /\ dist_hash(p, target)[m] = 0 /\ dist_hash(q, target)[m] = 1
      /\ \A j \in Bit :
             j < m => dist_hash(p, target)[j] = dist_hash(q, target)[j]
  BY <1>5 DEF dist_hash
<1> QED
  BY <1>6, FirstDifferenceDecides, DistanceType DEF Closer

(* Below the target's bucket b, an identifier of bucket c is farther from  *)
(* the target than every identifier of a later bucket, those behind b      *)
(* included: the order of the buckets around the target is b, then all     *)
(* later ones, then b-1, b-2, ..., while find_closest_peers visits b, b-1, *)
(* b+1, b-2, b+2, ...                                                      *)
THEOREM LowerBucketIsFarther ==
    ASSUME NEW own \in HashID, NEW target \in HashID,
           NEW p \in HashID, NEW q \in HashID,
           get_bucket_index(dist_hash(own, q)) \in Bit,
           get_bucket_index(dist_hash(own, q))
               < get_bucket_index(dist_hash(own, target)),
           get_bucket_index(dist_hash(own, q))
               < get_bucket_index(dist_hash(own, p))
    PROVE  Closer(p, q, target)
<1> DEFINE b == get_bucket_index(dist_hash(own, target))
           c == get_bucket_index(dist_hash(own, q))
           e == get_bucket_index(dist_hash(own, p))
<1>1. \A j \in Bit : j \in Int
  BY IdBitsAssumption DEF Bit
<1>2. own[c] # q[c] /\ \A j \in Bit : j < c => own[j] = q[j]
  <2>1. c # -1
    BY <1>1, IdBitsAssumption DEF Bit
  <2> QED
    BY <2>1, FirstBitSet, DistanceType DEF dist_hash
<1>3. ASSUME NEW j \in Bit, j <= c PROVE own[j] = target[j] /\ own[j] = p[j]
  <2>1. \/ b = -1 /\ \A v \in Bit : own[v] = target[v]
        \/ b \in Bit /\ \A v \in Bit : v < b => own[v] = target[v]
    BY FirstBitSet, DistanceType DEF dist_hash
  <2>2. \/ e = -1 /\ \A v \in Bit : own[v] = p[v]
        \/ e \in Bit /\ \A v \in Bit : v < e => own[v] = p[v]
    BY FirstBitSet, DistanceType DEF dist_hash
  <2> QED
    BY <1>1, <1>3, <2>1, <2>2
<1>4. /\ dist_hash(p, target)[c] = 0 /\ dist_hash(q, target)[c] = 1
      /\ \A j \in Bit :
             j < c => dist_hash(p, target)[j] = dist_hash(q, target)[j]
  <2>1. c <= c /\ \A j \in Bit : j < c => j <= c
    BY <1>1
  <2> QED
    BY <1>2, <1>3, <2>1 DEF dist_hash
<1> QED
  BY <1>4, FirstDifferenceDecides, DistanceType DEF Closer
-----------------------------------------------------------------------------
LEMMA BucketIndexType ==
    ASSUME NEW p \in Peers
    PROVE  bucket_index(p) \in Int
<1>1. p \in HashID /\ own_id \in HashID
  BY BucketsAssumption
<1>2. dist_hash(own_id, p) \in HashID
  BY <1>1, DistanceType
<1>3. get_bucket_index(dist_hash(own_id, p)) \in Bit \cup {-1}
  BY <1>2, FirstBitSet
<1> QED
  BY <1>3, IdBitsAssumption DEF bucket_index, Bit

(* What one call does to the table: nothing, or a peer that was not in its *)
(* bucket becomes the head of a bucket that was not full.                  *)
LEMMA UpdateEffect ==
    ASSUME BucketsTypeOK, NEW p \in Peers
    PROVE  \/ update_bucket_peers(buckets, p) = buckets
           \/ LET b == bucket_index(p)
              IN  /\ b \in Buckets
                  /\ \A v \in DOMAIN buckets[b] : buckets[b][v] # p
                  /\ Len(buckets[b]) < K_VALUE
                  /\ update_bucket_peers(buckets, p)
                         = [buckets EXCEPT ![b] = <<p>> \o @]
<1> DEFINE b == bucket_index(p)
<1>1. CASE \/ b \notin Buckets \/ Contains(buckets[b], p)
           \/ Len(buckets[b]) >= K_VALUE
  BY <1>1 DEF update_bucket_peers
<1>2. CASE ~(\/ b \notin Buckets \/ Contains(buckets[b], p)
             \/ Len(buckets[b]) >= K_VALUE)
  <2>1. buckets[b] \in Seq(Peers) /\ K_VALUE \in Nat
    BY <1>2, BucketsAssumption DEF BucketsTypeOK
  <2>2. Len(buckets[b]) < K_VALUE
    BY <1>2, <2>1
  <2>3. \A v \in DOMAIN buckets[b] : buckets[b][v] # p
    BY <1>2, <2>1 DEF Contains
  <2> QED
    BY <1>2, <2>2, <2>3 DEF update_bucket_peers
<1> QED
  BY <1>1, <1>2

TableInv == BucketsTypeOK /\ TableSound

LEMMA TableInvInit == BucketsInit => TableInv
<1> SUFFICES ASSUME BucketsInit PROVE TableInv
  OBVIOUS
<1>1. \A b \in Buckets : /\ buckets[b] = <<>> /\ Len(buckets[b]) = 0
                          /\ DOMAIN buckets[b] = {}
  BY DEF BucketsInit
<1>2. BucketsTypeOK
  <2>1. <<>> \in Seq(Peers)
    OBVIOUS
  <2> QED
    BY <2>1, Zenon DEF BucketsInit, BucketsTypeOK
<1> QED
  BY <1>1, <1>2, BucketsAssumption DEF TableInv, TableSound

LEMMA HeardKeepsTable ==
    ASSUME TableInv, NEW p \in Peers, Heard(p)
    PROVE  TableInv'
<1> USE DEF TableInv
<1> DEFINE b == bucket_index(p)
<1>1. damaged' \in BOOLEAN
  BY DEF Heard, BucketsTypeOK
<1>2. CASE buckets' = buckets
  BY <1>1, <1>2 DEF BucketsTypeOK, TableSound
<1>3. CASE /\ b \in Buckets
           /\ \A v \in DOMAIN buckets[b] : buckets[b][v] # p
           /\ Len(buckets[b]) < K_VALUE
           /\ buckets' = [buckets EXCEPT ![b] = <<p>> \o @]
  <2> DEFINE old == buckets[b]
             new == buckets'[b]
  <2>1. old \in Seq(Peers) /\ new = <<p>> \o old
    BY <1>3 DEF BucketsTypeOK
  <2>2. /\ new \in Seq(Peers) /\ Len(new) = Len(old) + 1 /\ new[1] = p
        /\ \A v \in 2..Len(new) : v - 1 \in DOMAIN old /\ new[v] = old[v-1]
    BY <2>1
  <2>3. BucketsTypeOK'
    BY <1>1, <1>3, <2>1, <2>2 DEF BucketsTypeOK
  <2>4. Len(new) <= K_VALUE
    BY <1>3, <2>1, <2>2, BucketsAssumption
  <2>5. \A v \in DOMAIN new : bucket_index(new[v]) = b
    BY <1>3, <2>1, <2>2 DEF TableSound
  <2>6. ASSUME NEW v \in DOMAIN new, NEW j \in DOMAIN new, new[v] = new[j]
        PROVE  v = j
    <3>1. \A k \in 2..Len(new) : new[k] # p
      BY <1>3, <2>2
    <3>2. CASE v = 1 \/ j = 1
      BY <2>1, <2>2, <2>6, <3>1, <3>2
    <3>3. CASE v # 1 /\ j # 1
      <4>1. /\ v - 1 \in DOMAIN old /\ j - 1 \in DOMAIN old
            /\ old[v-1] = old[j-1]
        BY <2>1, <2>2, <2>6, <3>3
      <4>2. v - 1 = j - 1
        BY <1>3, <4>1 DEF TableSound
      <4> QED
        BY <2>1, <2>2, <4>2
    <3> QED
      BY <3>2, <3>3
  <2>7. \A c \in Buckets \ {b} : buckets'[c] = buckets[c]
    BY <1>3 DEF BucketsTypeOK
  <2>8. TableSound'
    BY <2>4, <2>5, <2>6, <2>7 DEF TableSound
  <2> QED
    BY <2>3, <2>8
<1> QED
  BY <1>2, <1>3, UpdateEffect DEF Heard

LEMMA TableInvStep == TableInv /\ [BucketsNext]_bucketVars => TableInv'
<1> SUFFICES ASSUME TableInv, [BucketsNext]_bucketVars
             PROVE  TableInv'
  OBVIOUS
<1>1. CASE UNCHANGED bucketVars
  BY <1>1 DEF TableInv, bucketVars, BucketsTypeOK, TableSound
<1> QED
  BY <1>1, HeardKeepsTable DEF BucketsNext

(* The variables keep their types.                                         *)
THEOREM BucketsTypeCorrect == BucketsSpec => []BucketsTypeOK
<1>1. TableInv => BucketsTypeOK
  BY DEF TableInv
<1> QED
  BY <1>1, TableInvInit, TableInvStep, PTL DEF BucketsSpec

(* In every reachable state each peer is listed once, in the bucket its    *)
(* distance selects, in a bucket of at most K_VALUE peers.                 *)
THEOREM TableIsSound == BucketsSpec => []TableSound
<1>1. TableInv => TableSound
  BY DEF TableInv
<1> QED
  BY <1>1, TableInvInit, TableInvStep, PTL DEF BucketsSpec

(* No call removes or moves a peer: each list is a suffix of the next one. *)
THEOREM PeersAreKept == BucketsSpec => OldestKept
<1> DEFINE Kept == \A b \in Buckets : IsSuffix(buckets[b], buckets'[b])
<1>1. ASSUME BucketsTypeOK, NEW b \in Buckets, buckets'[b] = buckets[b]
      PROVE  IsSuffix(buckets[b], buckets'[b])
  <2>1. Reverse(buckets[b]) \in Seq(Peers)
    BY <1>1 DEF BucketsTypeOK, Reverse
  <2> QED
    BY <1>1, <2>1 DEF IsSuffix, IsPrefix
<1>2. ASSUME BucketsTypeOK, NEW b \in Buckets, NEW p \in Peers,
             buckets'[b] = <<p>> \o buckets[b]
      PROVE  IsSuffix(buckets[b], buckets'[b])
  <2> DEFINE old == buckets[b]
             new == buckets'[b]
             n == Len(old)
  <2>1. old \in Seq(Peers) /\ new \in Seq(Peers) /\ n \in Nat
        /\ Len(new) = n + 1 /\ \A v \in 1..n : new[v+1] = old[v]
    BY <1>2 DEF BucketsTypeOK
  <2>2. /\ Reverse(old) \in Seq(Peers) /\ Len(Reverse(old)) = n
        /\ Reverse(new) \in Seq(Peers) /\ Len(Reverse(new)) = n + 1
    BY <2>1 DEF Reverse
  <2>3. ASSUME NEW v \in 1..n PROVE Reverse(new)[v] = Reverse(old)[v]
    <3>1. n - v + 1 \in 1..n /\ (n + 1) - v + 1 = (n - v + 1) + 1
      BY <2>1
    <3>2. Reverse(old)[v] = old[n - v + 1]
      BY DEF Reverse
    <3>3. Reverse(new)[v] = new[(n + 1) - v + 1]
      BY <2>1 DEF Reverse
    <3>4. new[(n - v + 1) + 1] = old[n - v + 1]
      BY <2>1, <3>1
    <3> QED
      BY <3>1, <3>2, <3>3, <3>4
  <2>4. SubSeq(Reverse(new), 1, n) = SubSeq(Reverse(old), 1, n)
    BY <2>1, <2>2, <2>3
  <2> QED
    BY <2>1, <2>2, <2>4 DEF IsSuffix, IsPrefix
<1>3. BucketsTypeOK /\ [BucketsNext]_bucketVars => [Kept]_bucketVars
  <2> SUFFICES ASSUME BucketsTypeOK, NEW p \in Peers, Heard(p)
               PROVE  Kept
    BY DEF BucketsNext
  <2>1. CASE buckets' = buckets
    BY <1>1, <2>1
  <2>2. CASE /\ bucket_index(p) \in Buckets
             /\ buckets' = [buckets EXCEPT ![bucket_index(p)] = <<p>> \o @]
    <3> SUFFICES ASSUME NEW b \in Buckets
                 PROVE  IsSuffix(buckets[b], buckets'[b])
      OBVIOUS
    <3>1. CASE b = bucket_index(p)
      BY <1>2, <2>2, <3>1 DEF BucketsTypeOK
    <3>2. CASE b # bucket_index(p)
      BY <1>1, <2>2, <3>2 DEF BucketsTypeOK
    <3> QED
      BY <3>1, <3>2
  <2> QED
    BY <2>1, <2>2, UpdateEffect DEF Heard
<1>4. TableInv => BucketsTypeOK
  BY DEF TableInv
<1> QED
  BY <1>3, <1>4, TableInvInit, TableInvStep, PTL DEF BucketsSpec, OldestKept

(* The exact condition under which get_bucket_index leaves the array: a    *)
(* peer that is not ourselves and has our first BUCKET_COUNT bits.         *)
SharesPrefix(p) ==
    p # own_id /\ \A q \in Bit : q < BUCKET_COUNT => p[q] = own_id[q]

(* The number of a bucket is past the array for those peers, and for no    *)
(* others.                                                                 *)
THEOREM IndexPastTheArray ==
    ASSUME NEW p \in Peers
    PROVE  bucket_index(p) >= BUCKET_COUNT <=> SharesPrefix(p)
<1> DEFINE d == dist_hash(own_id, p)
<1>1. p \in HashID /\ own_id \in HashID /\ BUCKET_COUNT \in Nat
  BY BucketsAssumption
<1>2. d \in HashID /\ \A q \in Bit : d[q] = 0 <=> own_id[q] = p[q]
  BY <1>1, DistanceType DEF dist_hash
<1>3. bucket_index(p) = get_bucket_index(d)
  BY DEF bucket_index
<1>4. p = own_id <=> \A q \in Bit : p[q] = own_id[q]
  BY <1>1 DEF HashID
<1>5. SetBits(d) = {q \in Bit : p[q] # own_id[q]}
  BY <1>1, <1>2 DEF SetBits, HashID
<1> HIDE DEF d
<1>6. CASE SetBits(d) = {}
  <2>1. p = own_id
    BY <1>4, <1>5, <1>6
  <2>2. get_bucket_index(d) = -1
    BY <1>6 DEF get_bucket_index
  <2> QED
    BY <1>1, <1>3, <2>1, <2>2 DEF SharesPrefix
<1>7. CASE SetBits(d) # {}
  <2>1. PICK b : b = get_bucket_index(d)
    OBVIOUS
  <2>2. b \in SetBits(d) /\ \A j \in SetBits(d) : b <= j
    <3>1. \/ b = -1 /\ \A j \in Bit : d[j] = 0
          \/ b \in Bit /\ d[b] = 1 /\ \A j \in Bit : j < b => d[j] = 0
      BY <1>2, <2>1, FirstBitSet
    <3>2. b \in Bit /\ d[b] = 1 /\ \A j \in Bit : j < b => d[j] = 0
      BY <1>7, <3>1 DEF SetBits
    <3> QED
      BY <3>2, IdBitsAssumption DEF SetBits, Bit
  <2>3. b \in Bit /\ p[b] # own_id[b] /\ p # own_id
    BY <1>4, <1>5, <2>2
  <2>4. b \in Int /\ \A q \in Bit : q \in Int
    BY <2>3, IdBitsAssumption DEF Bit
  <2>5. ASSUME b >= BUCKET_COUNT, NEW q \in Bit, q < BUCKET_COUNT
        PROVE  p[q] = own_id[q]
    BY <1>1, <1>5, <2>2, <2>4, <2>5
  <2>6. ASSUME \A q \in Bit : q < BUCKET_COUNT => p[q] = own_id[q]
        PROVE  b >= BUCKET_COUNT
    BY <1>1, <2>3, <2>4, <2>6
  <2> QED
    BY <1>3, <2>1, <2>3, <2>5, <2>6 DEF SharesPrefix
<1> QED
  BY <1>6, <1>7

(* Memory behind the array is written only where such a peer is heard of.  *)
THEOREM OverrunNeedsPrefix ==
    BucketsSpec => [](OnlyTheTableWritten \/ \E p \in Peers : SharesPrefix(p))
<1> DEFINE Inv == OnlyTheTableWritten \/ \E p \in Peers : SharesPrefix(p)
<1>1. BucketsInit => Inv
  BY DEF BucketsInit, OnlyTheTableWritten
<1>2. Inv /\ [BucketsNext]_bucketVars => Inv'
  <2> SUFFICES ASSUME Inv, [BucketsNext]_bucketVars,
                      ~\E p \in Peers : SharesPrefix(p)
               PROVE  OnlyTheTableWritten'
    BY DEF SharesPrefix
  <2>1. \A p \in Peers : ~(bucket_index(p) >= BUCKET_COUNT)
    BY IndexPastTheArray
  <2> QED
    BY <2>1 DEF OnlyTheTableWritten, BucketsNext, Heard, bucketVars
<1> QED
  BY <1>1, <1>2, PTL DEF BucketsSpec
-----------------------------------------------------------------------------
(* find_nearest, one peer of the list after the other.                     *)
Placed(o, p, id, max_neighbors) ==
    IF Len(o) < max_neighbors THEN Append(o, p)
    ELSE [k \in DOMAIN o |-> IF Closer(p, o[k], id) THEN p ELSE o[k]]

LEMMA PlacedFacts ==
    ASSUME NEW o \in Seq(Peers), NEW p \in Peers, NEW id, NEW m \in Nat,
           Len(o) <= m
    PROVE  LET r == Placed(o, p, id, m)
           IN  /\ r \in Seq(Peers)
               /\ Len(r) = IF Len(o) < m THEN Len(o) + 1 ELSE m
               /\ Len(o) < m => r = Append(o, p)
               /\ Len(o) = m =>
                      \A k \in 1..m :
                          r[k] = IF Closer(p, o[k], id) THEN p ELSE o[k]
<1>1. CASE Len(o) < m
  BY <1>1 DEF Placed
<1>2. CASE ~(Len(o) < m)
  <2>1. Len(o) = m /\ DOMAIN o = 1..m
    BY <1>2
  <2> DEFINE r == [k \in 1..m |-> IF Closer(p, o[k], id) THEN p ELSE o[k]]
  <2>2. Placed(o, p, id, m) = r
    BY <1>2, <2>1 DEF Placed
  <2>3. \A k \in 1..m : r[k] \in Peers
    BY <2>1
  <2>4. r \in [1..m -> Peers]
    BY <2>3
  <2>5. r \in Seq(Peers) /\ Len(r) = m
    BY <2>4
  <2> QED
    BY <2>1, <2>2, <2>5
<1> QED
  BY <1>1, <1>2

LEMMA NearestByPlaces ==
    ASSUME NEW list \in Seq(Peers), NEW id, NEW max \in Nat
    PROVE  \E g \in [0..Len(list) -> {o \in Seq(Peers) : Len(o) <= max}] :
               /\ g[0] = <<>>
               /\ \A n \in 1..Len(list) :
                      g[n] = Placed(g[n-1], list[n], id, max)
               /\ find_nearest(list, id, max) = g[Len(list)]
<1> DEFINE N == Len(list)
           T == {o \in Seq(Peers) : Len(o) <= max}
           F(g) == [m \in 0..N |-> IF m = 0 THEN <<>>
                                   ELSE Placed(g[m-1], list[m], id, max)]
           out == CHOOSE g : g = F(g)
           step == [x \in T \X (1..N) |-> Placed(x[1], list[x[2]], id, max)]
<1>1. find_nearest(list, id, max) = out[N]
  BY DEF find_nearest, Placed
<1>2. N \in Nat /\ <<>> \in T
  OBVIOUS
<1>3. \A o \in T, n \in 1..N : Placed(o, list[n], id, max) \in T
  BY PlacedFacts
<1>4. step \in [T \X (1..N) -> T]
  BY <1>3
<1>5. PICK g \in [0..N -> T] :
          g[0] = <<>> /\ \A n \in 1..N : g[n] = step[<<g[n-1], n>>]
  <2>1. Recursion(T, <<>>, N, step) # {}
    <3>1. step \in Steps(T, N)
      BY <1>4 DEF Steps
    <3> HIDE DEF T, N, step
    <3> QED
      BY <1>2, <3>1, RecursionExists
  <2> HIDE DEF T, N, step
  <2> QED
    BY <2>1 DEF Recursion
<1>6. \A n \in 1..N : g[n] = Placed(g[n-1], list[n], id, max)
  <2> SUFFICES ASSUME NEW n \in 1..N
               PROVE  g[n] = Placed(g[n-1], list[n], id, max)
    OBVIOUS
  <2>1. n - 1 \in 0..N
    BY <1>2
  <2>2. g[n-1] \in T
    BY <1>5, <2>1
  <2>3. <<g[n-1], n>> \in T \X (1..N)
    BY <2>2
  <2> QED
    BY <1>5, <2>3
<1> HIDE DEF T
<1>7. g = F(g)
  BY <1>5, <1>6
<1>8. out = F(out)
  <2> HIDE DEF F
  <2> QED
    BY <1>7
<1> HIDE DEF out
<1>9. /\ out[0] = <<>>
      /\ \A n \in 1..N : out[n] = Placed(out[n-1], list[n], id, max)
  BY <1>2, <1>8
<1>10. \A n \in 0..N : out[n] \in T
  <2> DEFINE S == {n \in 0..N : out[n] \in T}
  <2>1. 0 \in S
    BY <1>2, <1>9
  <2>2. ASSUME NEW n \in 0..N, n \in S, n < N PROVE n + 1 \in S
    <3>1. n + 1 \in 1..N /\ (n + 1) - 1 = n
      BY <2>2
    <3>2. out[n+1] = Placed(out[n], list[n+1], id, max)
      BY <1>9, <3>1
    <3> QED
      BY <1>3, <2>2, <3>1, <3>2
  <2>3. \A n \in 0..N : n \in S
    <3> HIDE DEF S
    <3> QED
      BY <1>2, <2>1, <2>2, SetInduction
  <2> QED
    BY <2>3
<1>11. out \in [0..N -> T]
  BY <1>8, <1>10
<1> QED
  BY <1>1, <1>9, <1>11 DEF T

(* What find_nearest returns for peers of any kind, closeness being any    *)
(* order: as many as it can, in which the closest of the list is.          *)
LEMMA NearestFacts ==
    ASSUME NEW list \in Seq(Peers), NEW id \in HashID, NEW max \in Nat
    PROVE  LET r == find_nearest(list, id, max)
           IN  /\ r \in Seq(Peers)
               /\ Len(r) = IF Len(list) < max THEN Len(list) ELSE max
               /\ \A k \in DOMAIN r : \E m \in DOMAIN list : r[k] = list[m]
               /\ Len(list) <= max => r = list
               /\ list # <<>> /\ max > 0 =>
                      \E k \in DOMAIN r : \A m \in DOMAIN list :
                          ~Closer(list[m], r[k], id)
<1> DEFINE N == Len(list)
           T == {o \in Seq(Peers) : Len(o) <= max}
<1>1. PICK g \in [0..N -> T] :
          /\ g[0] = <<>>
          /\ \A n \in 1..N : g[n] = Placed(g[n-1], list[n], id, max)
          /\ find_nearest(list, id, max) = g[N]
  BY NearestByPlaces
<1>2. N \in Nat /\ DOMAIN list = 1..N
  OBVIOUS
<1> DEFINE Fine(n) ==
        /\ Len(g[n]) = IF n < max THEN n ELSE max
        /\ \A k \in 1..Len(g[n]) : \E m \in 1..n : g[n][k] = list[m]
        /\ n <= max => \A k \in 1..n : g[n][k] = list[k]
        /\ n > 0 /\ max > 0 =>
               \E k \in 1..Len(g[n]) : \A m \in 1..n :
                   ~Closer(list[m], g[n][k], id)
           S == {n \in 0..N : Fine(n)}
<1>3. 0 \in S
  BY <1>1
<1>4. ASSUME NEW n \in 0..N, n \in S, n < N PROVE n + 1 \in S
  <2>0. PICK o, p, r : o = g[n] /\ p = list[n+1] /\ r = g[n+1]
    OBVIOUS
  <2>1. n + 1 \in 1..N /\ (n + 1) - 1 = n /\ n \in Nat /\ p \in Peers
    <3>1. n + 1 \in 1..N /\ (n + 1) - 1 = n /\ n \in Nat
      BY <1>4, <1>2
    <3> QED
      BY <3>1, <2>0
  <2>2. o \in Seq(Peers) /\ Len(o) <= max /\ Len(o) \in Nat
    BY <1>1, <2>0
  <2>3. r = Placed(o, p, id, max)
    BY <1>1, <2>0, <2>1
  <2>4. /\ r \in Seq(Peers)
        /\ Len(r) = IF Len(o) < max THEN Len(o) + 1 ELSE max
        /\ Len(o) < max => r = Append(o, p)
        /\ Len(o) = max => \A k \in 1..max :
               r[k] = IF Closer(p, o[k], id) THEN p ELSE o[k]
    BY <2>1, <2>2, <2>3, PlacedFacts
  <2>5. /\ Len(o) = IF n < max THEN n ELSE max
        /\ \A k \in 1..Len(o) : \E m \in 1..n : o[k] = list[m]
        /\ n <= max => \A k \in 1..n : o[k] = list[k]
        /\ n > 0 /\ max > 0 =>
               \E k \in 1..Len(o) : \A m \in 1..n : ~Closer(list[m], o[k], id)
    BY <1>4, <2>0
  <2>6. CASE n < max
    <3>1. /\ Len(o) = n /\ Len(r) = n + 1 /\ r[n+1] = p
          /\ \A k \in 1..n : r[k] = o[k] /\ r[k] = list[k]
      <4>1. Len(o) = n /\ r = Append(o, p) /\ n <= max
        BY <2>1, <2>4, <2>5, <2>6
      <4>2. \A k \in 1..n : o[k] = list[k]
        BY <2>5, <4>1
      <4> QED
        BY <2>1, <2>2, <4>1, <4>2
    <3>2. \A k \in 1..n+1 : r[k] = list[k]
      BY <2>0, <2>1, <3>1
    <3>3. \E k \in 1..n+1 : \A m \in 1..n+1 : ~Closer(list[m], r[k], id)
      <4>1. CASE n = 0
        BY <3>2, <4>1, CloserIrreflexive, BucketsAssumption, <2>0, <2>1
      <4>2. CASE n > 0
        <5>1. PICK k \in 1..n : \A m \in 1..n : ~Closer(list[m], o[k], id)
          BY <2>5, <2>6, <3>1, <4>2
        <5>2. o[k] \in Peers
          BY <2>2, <3>1
        <5> \A m \in 1..n+1 : m = n + 1 \/ m \in 1..n
          BY <2>1
        <5>3. CASE Closer(p, o[k], id)
          <6>1. \A m \in 1..n : ~Closer(list[m], p, id)
            BY <2>1, <5>1, <5>2, <5>3, CloserTransitive, <1>4,
               BucketsAssumption
          <6>2. ~Closer(p, p, id)
            BY <2>1, CloserIrreflexive, BucketsAssumption
          <6> QED
            <7>1. r[n+1] = p /\ n + 1 \in 1..n+1
              BY <2>1, <3>1
            <7> QED
              BY <2>0, <6>1, <6>2, <7>1
        <5>4. CASE ~Closer(p, o[k], id)
          <6>1. r[k] = o[k] /\ k \in 1..n+1
            BY <2>1, <3>1
          <6> QED
            BY <2>0, <5>1, <5>4, <6>1
        <5> QED
          BY <5>3, <5>4
      <4> QED
        BY <2>1, <4>1, <4>2
    <3> QED
      <4>1. Len(g[n+1]) = IF n + 1 < max THEN n + 1 ELSE max
        BY <2>0, <2>1, <2>6, <3>1
      <4>2. \A k \in 1..Len(g[n+1]) :
               \E m \in 1..n+1 : g[n+1][k] = list[m]
        BY <2>0, <3>1, <3>2
      <4> QED
        <5>1. n + 1 <= max => \A k \in 1..n+1 : g[n+1][k] = list[k]
          BY <2>0, <3>2
        <5>2. \E k \in 1..Len(g[n+1]) : \A m \in 1..n+1 :
                  ~Closer(list[m], g[n+1][k], id)
          BY <2>0, <3>1, <3>3
        <5>3. Fine(n+1)
          BY <4>1, <4>2, <5>1, <5>2
        <5>4. n + 1 \in 0..N
          BY <2>1
        <5> HIDE DEF Fine
        <5> QED
          BY <5>3, <5>4
  <2>7. CASE ~(n < max)
    <3>1. /\ Len(o) = max /\ Len(r) = max
          /\ \A k \in 1..max :
                 r[k] = IF Closer(p, o[k], id) THEN p ELSE o[k]
      BY <2>4, <2>5, <2>7
    <3>2. \A k \in 1..max : \E m \in 1..n+1 : r[k] = list[m]
      <4> SUFFICES ASSUME NEW k \in 1..max
                   PROVE  \E m \in 1..n+1 : r[k] = list[m]
        OBVIOUS
      <4>1. CASE Closer(p, o[k], id)
        <5>1. r[k] = p
          BY <3>1, <4>1
        <5>2. n + 1 \in 1..n+1
          BY <2>1
        <5> QED
          BY <2>0, <5>1, <5>2
      <4>2. CASE ~Closer(p, o[k], id)
        <5>1. PICK m \in 1..n : o[k] = list[m]
          BY <2>5, <3>1
        <5> QED
          BY <2>1, <3>1, <4>2, <5>1
      <4> QED
        BY <4>1, <4>2
    <3>3. max > 0 =>
             \E k \in 1..max : \A m \in 1..n+1 : ~Closer(list[m], r[k], id)
      <4> SUFFICES ASSUME max > 0
                   PROVE \E k \in 1..max : \A m \in 1..n+1 :
                             ~Closer(list[m], r[k], id)
        OBVIOUS
      <4>1. PICK k \in 1..max : \A m \in 1..n : ~Closer(list[m], o[k], id)
        BY <2>1, <2>5, <2>7, <3>1
      <4>2. o[k] \in Peers
        BY <2>2, <3>1
      <4>3. CASE Closer(p, o[k], id)
        <5>1. \A m \in 1..n : ~Closer(list[m], p, id)
          BY <2>1, <4>1, <4>2, <4>3, CloserTransitive, <1>4, BucketsAssumption
        <5>2. ~Closer(p, p, id)
          BY <2>1, CloserIrreflexive, BucketsAssumption
        <5> QED
          BY <2>0, <2>1, <3>1, <4>3, <5>1, <5>2
      <4>4. CASE ~Closer(p, o[k], id)
        BY <2>0, <2>1, <3>1, <4>1, <4>4
      <4> QED
        BY <4>3, <4>4
    <3>4. n + 1 <= max => FALSE
      BY <2>1, <2>7
    <3> QED
      <4>1. Len(g[n+1]) = IF n + 1 < max THEN n + 1 ELSE max
        BY <2>0, <2>1, <2>7, <3>1
      <4> QED
        <5>1. \A k \in 1..Len(g[n+1]) :
                 \E m \in 1..n+1 : g[n+1][k] = list[m]
          BY <2>0, <3>1, <3>2
        <5>2. max > 0 => \E k \in 1..Len(g[n+1]) : \A m \in 1..n+1 :
                  ~Closer(list[m], g[n+1][k], id)
          BY <2>0, <3>1, <3>3
        <5>3. Fine(n+1)
          BY <3>4, <4>1, <5>1, <5>2
        <5>4. n + 1 \in 0..N
          BY <2>1
        <5> HIDE DEF Fine
        <5> QED
          BY <5>3, <5>4
  <2> QED
    BY <2>6, <2>7
<1>5. N \in S
  <2> HIDE DEF S
  <2>1. \A n \in 0..N : n \in S
    BY <1>2, <1>3, <1>4, SetInduction
  <2> QED
    BY <1>2, <2>1
<1>6. g[N] \in Seq(Peers)
  BY <1>1, <1>2
<1>7. N <= max => g[N] = list
  BY <1>2, <1>5, <1>6
<1>8. list # <<>> => N > 0
  BY <1>2
<1> QED
  <2> DEFINE r == find_nearest(list, id, max)
  <2>1. Fine(N) /\ r = g[N] /\ DOMAIN r = 1..Len(r)
    BY <1>1, <1>5, <1>6
  <2> HIDE DEF r
  <2>2. Len(r) = (IF N < max THEN N ELSE max) /\ (N <= max => r = list)
    BY <1>7, <2>1
  <2>3. \A k \in DOMAIN r : \E m \in DOMAIN list : r[k] = list[m]
    BY <1>2, <2>1
  <2>4. list # <<>> /\ max > 0 =>
           \E k \in DOMAIN r : \A m \in DOMAIN list :
               ~Closer(list[m], r[k], id)
    BY <1>2, <1>8, <2>1
  <2> QED
    BY <1>6, <2>1, <2>2, <2>3, <2>4 DEF r

LEMMA ConcatFacts ==
    ASSUME NEW T, NEW a \in Seq(T), NEW b \in Seq(T)
    PROVE  /\ a \o b \in Seq(T) /\ Len(a \o b) = Len(a) + Len(b)
           /\ \A k \in 1..Len(a) : (a \o b)[k] = a[k]
           /\ \A k \in 1..Len(b) : (a \o b)[Len(a) + k] = b[k]
OBVIOUS

(* A list in which nobody is twice has as many peers as entries.           *)
LEMMA EntriesAreCounted ==
    ASSUME NEW list \in Seq(Peers),
           \A k, m \in DOMAIN list : list[k] = list[m] => k = m
    PROVE  IsFiniteSet(ToSet(list)) /\ Cardinality(ToSet(list)) = Len(list)
<1>1. Len(list) \in Nat /\ DOMAIN list = 1..Len(list)
  OBVIOUS
<1>2. list \in Bijection(1..Len(list), ToSet(list))
  <2>1. list \in [1..Len(list) -> ToSet(list)]
    BY <1>1 DEF ToSet
  <2>2. \A x \in ToSet(list) : \E k \in 1..Len(list) : list[k] = x
    BY <1>1 DEF ToSet
  <2> QED
    BY <1>1, <2>1, <2>2 DEF Bijection, Injection, Surjection, IsInjective
<1>3. ExistsBijection(1..Len(list), ToSet(list))
  BY <1>2 DEF ExistsBijection
<1> QED
  BY <1>1, <1>3, FS_CountingElements, FS_NatBijection

(* What a search for n peers has found once it has seen the peers of P.    *)
Found(found, P, n) ==
    /\ found \in Seq(Peers)
    /\ IsFiniteSet(P)
    /\ Len(found) = IF n < Cardinality(P) THEN n ELSE Cardinality(P)
    /\ ToSet(found) \subseteq P
    /\ Cardinality(P) <= n => P \subseteq ToSet(found)

LEMMA NothingFound ==
    ASSUME NEW n \in Nat
    PROVE  Found(<<>>, {}, n)
<1>1. IsFiniteSet({}) /\ Cardinality({}) = 0
  BY FS_EmptySet
<1> QED
  BY <1>1 DEF Found, ToSet

LEMMA FoundInList ==
    ASSUME NEW found, NEW P, NEW n \in Nat, Found(found, P, n),
           NEW list \in Seq(Peers), NEW t \in HashID,
           \A k, m \in DOMAIN list : list[k] = list[m] => k = m,
           P \cap ToSet(list) = {}
    PROVE  LET r == found \o find_nearest(list, t, n - Len(found))
           IN  /\ Found(r, P \cup ToSet(list), n)
               /\ ToSet(found) \subseteq ToSet(r)
               /\ ToSet(find_nearest(list, t, n - Len(found)))
                       \subseteq ToSet(r)
<1> DEFINE max == n - Len(found)
           Q == P \cup ToSet(list)
<1>1. /\ found \in Seq(Peers) /\ Len(found) \in Nat /\ IsFiniteSet(P)
      /\ Len(found) = IF n < Cardinality(P) THEN n ELSE Cardinality(P)
      /\ ToSet(found) \subseteq P
      /\ Cardinality(P) <= n => P \subseteq ToSet(found)
  BY DEF Found
<1>2. Cardinality(P) \in Nat
  BY <1>1, FS_CardinalityType
<1>3. max \in Nat
  BY <1>1, <1>2
<1>4. IsFiniteSet(ToSet(list)) /\ Cardinality(ToSet(list)) = Len(list)
  BY EntriesAreCounted
<1>5. IsFiniteSet(Q) /\ Cardinality(Q) = Cardinality(P) + Len(list)
  <2>1. Cardinality(P \cap ToSet(list)) = 0
    BY FS_EmptySet
  <2>2. IsFiniteSet(Q) /\ Cardinality(Q)
           = Cardinality(P) + Cardinality(ToSet(list))
             - Cardinality(P \cap ToSet(list))
    BY <1>1, <1>4, FS_Union
  <2> QED
    BY <1>2, <1>4, <2>1, <2>2
<1>6. PICK near : near = find_nearest(list, t, max)
  OBVIOUS
<1>7. /\ near \in Seq(Peers)
      /\ Len(near) = IF Len(list) < max THEN Len(list) ELSE max
      /\ \A k \in DOMAIN near : \E m \in DOMAIN list : near[k] = list[m]
      /\ Len(list) <= max => near = list
  BY <1>3, <1>6, NearestFacts
<1>8. PICK r : r = found \o near
  OBVIOUS
<1>16. found \in Seq(Peers) /\ near \in Seq(Peers)
  BY <1>1, <1>7
<1>9. r \in Seq(Peers) /\ Len(r) = Len(found) + Len(near)
  BY <1>8, <1>16, ConcatFacts
<1>10. ToSet(r) = ToSet(found) \cup ToSet(near)
  <2>1. /\ \A k \in 1..Len(found) : r[k] = found[k]
        /\ \A k \in 1..Len(near) : r[Len(found) + k] = near[k]
    BY <1>8, <1>16, ConcatFacts
  <2>2. /\ Len(near) \in Nat
        /\ DOMAIN r = 1..Len(found) + Len(near)
        /\ DOMAIN found = 1..Len(found) /\ DOMAIN near = 1..Len(near)
    BY <1>1, <1>7, <1>9
  <2>3. \A k \in DOMAIN r : \/ k \in DOMAIN found /\ r[k] = found[k]
                           \/ /\ k - Len(found) \in DOMAIN near
                              /\ r[k] = near[k - Len(found)]
    <3> SUFFICES ASSUME NEW k \in DOMAIN r
                 PROVE  \/ k \in DOMAIN found /\ r[k] = found[k]
                        \/ /\ k - Len(found) \in DOMAIN near
                           /\ r[k] = near[k - Len(found)]
      OBVIOUS
    <3>1. CASE k <= Len(found)
      BY <1>1, <2>1, <2>2, <3>1
    <3>2. CASE ~(k <= Len(found))
      <4>1. /\ k - Len(found) \in 1..Len(near)
            /\ Len(found) + (k - Len(found)) = k
        BY <1>1, <2>2, <3>2
      <4> QED
        BY <2>1, <2>2, <4>1
    <3> QED
      BY <3>1, <3>2
  <2>4. ToSet(r) \subseteq ToSet(found) \cup ToSet(near)
    BY <2>3 DEF ToSet
  <2>5. ToSet(found) \subseteq ToSet(r)
    <3>1. \A k \in DOMAIN found : k \in DOMAIN r /\ r[k] = found[k]
      BY <1>1, <2>1, <2>2
    <3> QED
      BY <3>1 DEF ToSet
  <2>6. ToSet(near) \subseteq ToSet(r)
    <3>1. \A k \in DOMAIN near :
             Len(found) + k \in DOMAIN r /\ r[Len(found) + k] = near[k]
      BY <1>1, <2>1, <2>2
    <3> QED
      BY <3>1 DEF ToSet
  <2> QED
    BY <2>4, <2>5, <2>6
<1>11. ToSet(near) \subseteq ToSet(list)
  BY <1>7 DEF ToSet
<1> HIDE DEF max, Q
<1>12. Len(r) = IF n < Cardinality(Q) THEN n ELSE Cardinality(Q)
  BY <1>1, <1>2, <1>5, <1>7, <1>9 DEF max
<1>13. ASSUME Cardinality(Q) <= n PROVE Q \subseteq ToSet(r)
  <2>1. Cardinality(P) <= n /\ Len(list) <= max
    BY <1>1, <1>2, <1>5, <1>13 DEF max
  <2> QED
    BY <1>1, <1>7, <1>10, <2>1 DEF Q
<1>14. ToSet(r) \subseteq Q
  BY <1>1, <1>10, <1>11 DEF Q
<1>15. Found(r, Q, n)
  BY <1>5, <1>9, <1>12, <1>13, <1>14 DEF Found
<1> QED
  BY <1>6, <1>8, <1>10, <1>15 DEF Q, max

PeersIn(C) == UNION {ToSet(buckets[c]) : c \in C}

LEMMA FoundInBucket ==
    ASSUME TableInv, NEW n \in Nat, NEW t \in HashID,
           NEW C, C \subseteq Buckets, NEW v \in Int, v \notin C,
           NEW found, Found(found, PeersIn(C), n)
    PROVE  LET r == SearchBucket(buckets, v, t, n, found)
           IN  /\ Found(r, PeersIn(C \cup ({v} \cap Buckets)), n)
               /\ ToSet(found) \subseteq ToSet(r)
<1>1. CASE v \notin Buckets
  <2>1. C \cup ({v} \cap Buckets) = C
    BY <1>1
  <2> QED
    BY <1>1, <2>1 DEF SearchBucket
<1>2. CASE v \in Buckets
  <2>1. /\ buckets[v] \in Seq(Peers)
        /\ \A k, m \in DOMAIN buckets[v] :
               buckets[v][k] = buckets[v][m] => k = m
    BY <1>2 DEF TableInv, BucketsTypeOK, TableSound
  <2>2. PeersIn(C) \cap ToSet(buckets[v]) = {}
    <3>1. \A c \in Buckets : \A p \in ToSet(buckets[c]) : bucket_index(p) = c
      BY DEF TableInv, TableSound, ToSet
    <3> QED
      BY <1>2, <3>1 DEF PeersIn
  <2>3. PeersIn(C \cup ({v} \cap Buckets)) = PeersIn(C) \cup ToSet(buckets[v])
    BY <1>2 DEF PeersIn
  <2>4. SearchBucket(buckets, v, t, n, found)
            = found \o find_nearest(buckets[v], t, n - Len(found))
    BY <1>2 DEF SearchBucket
  <2> QED
    <3>1. /\ Found(found \o find_nearest(buckets[v], t, n - Len(found)),
                   PeersIn(C) \cup ToSet(buckets[v]), n)
          /\ ToSet(found) \subseteq
                 ToSet(found \o find_nearest(buckets[v], t, n - Len(found)))
      BY <2>1, <2>2, FoundInList
    <3> QED
      BY <2>3, <2>4, <3>1
<1> QED
  BY <1>1, <1>2

(* From one offset to the next, in both directions.                        *)
Outward(t, n, found, offset) ==
    SearchBucket(buckets, bucket_index(t) + offset, t, n,
        SearchBucket(buckets, bucket_index(t) - offset, t, n, found))

LEMMA SearchByOffsets ==
    ASSUME TableInv, NEW t \in Targets, NEW n \in Nat
    PROVE  \E g \in [0..BUCKET_COUNT-1 -> Seq(Peers)] :
               /\ g[0] = find_nearest(buckets[bucket_index(t)], t, n)
               /\ \A k \in 1..BUCKET_COUNT-1 : g[k] = Outward(t, n, g[k-1], k)
               /\ find_closest_peers(buckets, t, n) = g[BUCKET_COUNT-1]
<1> DEFINE N == BUCKET_COUNT - 1
           b == bucket_index(t)
           base == find_nearest(buckets[b], t, n)
           T == {s \in Seq(Peers) : Len(s) <= n}
           F(g) == [k \in Buckets |-> IF k = 0 THEN base
                                      ELSE Outward(t, n, g[k-1], k)]
           result == CHOOSE g : g = F(g)
           step == [x \in T \X (1..N) |-> Outward(t, n, x[1], x[2])]
<1>1. N \in Nat /\ Buckets = 0..N /\ t \in HashID /\ b \in 0..N /\ b # -1
  BY BucketsAssumption DEF Targets, Buckets
<1>2. find_closest_peers(buckets, t, n) = result[N]
  BY <1>1 DEF find_closest_peers, Outward
<1>3. \A c \in Buckets : buckets[c] \in Seq(Peers)
  BY DEF TableInv, BucketsTypeOK
<1>4. base \in T
  <2>1. base \in Seq(Peers) /\ Len(base) <= n
    BY <1>1, <1>3, NearestFacts
  <2> QED
    BY <2>1
<1>5. ASSUME NEW s \in T, NEW v \in Int
      PROVE  SearchBucket(buckets, v, t, n, s) \in T
  <2>1. CASE v \notin Buckets
    BY <2>1 DEF SearchBucket
  <2>2. CASE v \in Buckets
    <3>1. s \in Seq(Peers) /\ Len(s) \in Nat /\ n - Len(s) \in Nat
      OBVIOUS
    <3>2. PICK near : near = find_nearest(buckets[v], t, n - Len(s))
      OBVIOUS
    <3>3. near \in Seq(Peers) /\ Len(near) <= n - Len(s)
      BY <1>1, <1>3, <2>2, <3>1, <3>2, NearestFacts
    <3>4. s \o near \in Seq(Peers) /\ Len(s \o near) <= n
      BY <3>1, <3>3
    <3> QED
      BY <2>2, <3>2, <3>4 DEF SearchBucket
  <2> QED
    BY <2>1, <2>2
<1>6. \A s \in T, k \in 1..N : Outward(t, n, s, k) \in T
  <2> SUFFICES ASSUME NEW s \in T, NEW k \in 1..N
               PROVE  Outward(t, n, s, k) \in T
    OBVIOUS
  <2>1. b - k \in Int /\ b + k \in Int
    BY <1>1
  <2> HIDE DEF T
  <2> QED
    BY <1>5, <2>1 DEF Outward
<1>7. step \in Steps(T, N)
  BY <1>6 DEF Steps
<1>8. PICK g \in [0..N -> T] :
          g[0] = base /\ \A k \in 1..N : g[k] = step[<<g[k-1], k>>]
  <2>1. Recursion(T, base, N, step) # {}
    <3> HIDE DEF T, N, step, base
    <3> QED
      BY <1>1, <1>4, <1>7, RecursionExists
  <2> HIDE DEF T, N, step, base
  <2> QED
    BY <2>1 DEF Recursion
<1>9. \A k \in 1..N : g[k] = Outward(t, n, g[k-1], k)
  <2> SUFFICES ASSUME NEW k \in 1..N
               PROVE  g[k] = Outward(t, n, g[k-1], k)
    OBVIOUS
  <2>1. k - 1 \in 0..N
    BY <1>1
  <2>2. g[k-1] \in T
    BY <1>8, <2>1
  <2>3. <<g[k-1], k>> \in T \X (1..N)
    BY <2>2
  <2> QED
    BY <1>8, <2>3
<1> HIDE DEF T, base
<1>10. g = F(g)
  BY <1>1, <1>8, <1>9
<1>11. result = F(result)
  <2> HIDE DEF F
  <2> QED
    BY <1>10
<1> HIDE DEF result
<1>12. /\ result[0] = base
       /\ \A k \in 1..N : result[k] = Outward(t, n, result[k-1], k)
  BY <1>1, <1>11
<1>13. \A k \in 0..N : result[k] \in T
  <2> DEFINE S == {k \in 0..N : result[k] \in T}
  <2>1. 0 \in S
    BY <1>1, <1>4, <1>12
  <2>2. ASSUME NEW k \in 0..N, k \in S, k < N PROVE k + 1 \in S
    <3>1. k + 1 \in 1..N /\ (k + 1) - 1 = k
      BY <1>1, <2>2
    <3>2. result[k+1] = Outward(t, n, result[k], k + 1)
      BY <1>12, <3>1
    <3> QED
      BY <1>6, <2>2, <3>1, <3>2
  <2>3. \A k \in 0..N : k \in S
    <3> HIDE DEF S, N
    <3> QED
      BY <1>1, <2>1, <2>2, SetInduction
  <2> QED
    BY <2>3
<1>14. result \in [0..N -> Seq(Peers)]
  BY <1>1, <1>11, <1>13 DEF T
<1> QED
  BY <1>2, <1>12, <1>14 DEF base

Within(b, offset) == {c \in Buckets : b - offset <= c /\ c <= b + offset}

(* The search ends with as many as it was asked for, or with everybody,    *)
(* and keeps what it found in the target's own bucket.                     *)
LEMMA SearchFacts ==
    ASSUME TableInv, NEW t \in Targets, NEW n \in Nat
    PROVE  LET found == find_closest_peers(buckets, t, n)
           IN  /\ Found(found, TablePeers, n)
               /\ ToSet(find_nearest(buckets[bucket_index(t)], t, n))
                       \subseteq ToSet(found)
<1> DEFINE N == BUCKET_COUNT - 1
           b == bucket_index(t)
           near == find_nearest(buckets[b], t, n)
<1>1. N \in Nat /\ Buckets = 0..N /\ t \in HashID /\ b \in 0..N
  BY BucketsAssumption DEF Targets, Buckets
<1>2. PICK g \in [0..N -> Seq(Peers)] :
          /\ g[0] = near
          /\ \A k \in 1..N : g[k] = Outward(t, n, g[k-1], k)
          /\ find_closest_peers(buckets, t, n) = g[N]
  BY SearchByOffsets
<1> HIDE DEF N, b, near
<1> DEFINE Fine(k) == /\ Found(g[k], PeersIn(Within(b, k)), n)
                      /\ ToSet(near) \subseteq ToSet(g[k])
           S == {k \in 0..N : Fine(k)}
<1>3. 0 \in S
  <2>1. Within(b, 0) = {b}
    BY <1>1 DEF Within
  <2>2. PeersIn({b}) = {} \cup ToSet(buckets[b])
    BY DEF PeersIn
  <2>3. /\ buckets[b] \in Seq(Peers)
        /\ \A k, m \in DOMAIN buckets[b] :
               buckets[b][k] = buckets[b][m] => k = m
    BY <1>1 DEF TableInv, BucketsTypeOK, TableSound
  <2>4. Found(<<>>, {}, n) /\ Len(<<>>) = 0 /\ n - 0 = n
    BY NothingFound
  <2>5. {} \cap ToSet(buckets[b]) = {}
    OBVIOUS
  <2>6. Found(<<>> \o near, {} \cup ToSet(buckets[b]), n)
    BY <1>1, <2>3, <2>4, <2>5, FoundInList DEF near
  <2>7. near \in Seq(Peers)
    BY <1>1, <2>3, NearestFacts DEF near
  <2>8. <<>> \o near = near
    BY <2>7
  <2> QED
    <3>1. Fine(0)
      BY <1>2, <2>1, <2>2, <2>6, <2>8
    <3>2. 0 \in 0..N
      BY <1>1
    <3> HIDE DEF Fine
    <3> QED
      BY <3>1, <3>2
<1>4. ASSUME NEW k \in 0..N, k \in S, k < N PROVE k + 1 \in S
  <2> DEFINE W == Within(b, k)
             low == b - (k + 1)
             high == b + (k + 1)
             V == W \cup ({low} \cap Buckets)
             mid == SearchBucket(buckets, low, t, n, g[k])
  <2>1. k + 1 \in 1..N /\ (k + 1) - 1 = k /\ k + 1 \in 0..N
    BY <1>1, <1>4
  <2>2. g[k+1] = SearchBucket(buckets, high, t, n, mid)
    BY <1>2, <2>1 DEF Outward, b
  <2>3. /\ W \subseteq Buckets /\ low \in Int /\ high \in Int /\ low \notin W
        /\ V \subseteq Buckets /\ high \notin V
    BY <1>1 DEF Within
  <2>4. V \cup ({high} \cap Buckets) = Within(b, k + 1)
    <3>1. \A c \in Nat : b - (k + 1) <= c /\ c <= b + (k + 1) <=>
                          \/ b - k <= c /\ c <= b + k
                          \/ c = low \/ c = high
      BY <1>1
    <3>2. \A c \in Buckets : c \in Nat
      BY <1>1
    <3> QED
      BY <3>1, <3>2 DEF Within
  <2>5. Found(g[k], PeersIn(W), n) /\ ToSet(near) \subseteq ToSet(g[k])
    BY <1>4
  <2> HIDE DEF W, low, high
  <2>6. Found(mid, PeersIn(V), n) /\ ToSet(g[k]) \subseteq ToSet(mid)
    BY <1>1, <2>3, <2>5, FoundInBucket
  <2> HIDE DEF V, mid
  <2>7. /\ Found(g[k+1], PeersIn(V \cup ({high} \cap Buckets)), n)
        /\ ToSet(mid) \subseteq ToSet(g[k+1])
    <3>1. PICK U, m, v : U = V /\ m = mid /\ v = high
      OBVIOUS
    <3>2. /\ Found(SearchBucket(buckets, v, t, n, m),
                   PeersIn(U \cup ({v} \cap Buckets)), n)
          /\ ToSet(m) \subseteq ToSet(SearchBucket(buckets, v, t, n, m))
      BY <1>1, <2>3, <2>6, <3>1, FoundInBucket
    <3> QED
      BY <2>2, <3>1, <3>2
  <2>8. Fine(k+1)
    BY <2>4, <2>5, <2>6, <2>7
  <2> HIDE DEF Fine
  <2> QED
    BY <2>1, <2>8
<1>5. \A k \in 0..N : k \in S
  <2> HIDE DEF S
  <2> QED
    BY <1>1, <1>3, <1>4, SetInduction
<1>6. Fine(N)
  BY <1>1, <1>5
<1>7. Within(b, N) = Buckets
  BY <1>1 DEF Within
<1>8. PeersIn(Buckets) = TablePeers
  BY DEF PeersIn, TablePeers
<1> QED
  BY <1>2, <1>6, <1>7, <1>8 DEF near, b

(* In the target's own bucket is the peer closest to the target, and it is *)
(* found.                                                                  *)
LEMMA ClosestIsFound ==
    ASSUME TableInv, NEW t \in Targets, NEW n \in Nat \ {0},
           buckets[bucket_index(t)] # <<>>
    PROVE  \E p \in ToSet(find_closest_peers(buckets, t, n)) :
               \A q \in TablePeers \ {p} : Closer(p, q, t)
<1> DEFINE b == bucket_index(t)
           list == buckets[b]
           near == find_nearest(list, t, n)
<1>1. b \in Buckets /\ t \in HashID /\ b # -1 /\ n \in Nat /\ n > 0
  BY BucketsAssumption DEF Targets, Buckets
<1>2. list \in Seq(Peers) /\ list # <<>>
  BY <1>1 DEF TableInv, BucketsTypeOK
<1>3. /\ \A k \in DOMAIN near : \E m \in DOMAIN list : near[k] = list[m]
      /\ \E k \in DOMAIN near : \A m \in DOMAIN list :
             ~Closer(list[m], near[k], t)
  BY <1>1, <1>2, NearestFacts
<1>4. PICK k \in DOMAIN near : \A m \in DOMAIN list :
                                  ~Closer(list[m], near[k], t)
  BY <1>3
<1>5. PICK p : p = near[k]
  OBVIOUS
<1>6. p \in ToSet(list)
  BY <1>3, <1>5 DEF ToSet
<1>7. p \in ToSet(near)
  BY <1>5 DEF ToSet
<1>8. p \in ToSet(find_closest_peers(buckets, t, n))
  BY <1>1, <1>7, SearchFacts
<1>9. \A c \in Buckets : \A q \in ToSet(buckets[c]) :
          bucket_index(q) = c /\ q \in HashID
  <2> SUFFICES ASSUME NEW c \in Buckets, NEW q \in ToSet(buckets[c])
               PROVE  bucket_index(q) = c /\ q \in HashID
    OBVIOUS
  <2>1. buckets[c] \in Seq(Peers)
    BY DEF TableInv, BucketsTypeOK
  <2> QED
    BY <2>1, BucketsAssumption DEF TableInv, TableSound, ToSet
<1>10. ASSUME NEW q \in TablePeers \ {p} PROVE Closer(p, q, t)
  <2>1. PICK c \in Buckets : q \in ToSet(buckets[c])
    BY <1>10 DEF TablePeers
  <2>2. /\ p \in HashID /\ bucket_index(p) = b
        /\ q \in HashID /\ bucket_index(q) = c
    BY <1>1, <1>6, <1>9, <2>1
  <2>3. CASE c = b
    <3>1. ~Closer(q, p, t)
      BY <1>4, <1>5, <2>1, <2>3 DEF ToSet
    <3> QED
      BY <1>1, <1>10, <2>2, <3>1, CloserTotal
  <2>4. CASE c # b
    BY <1>1, <2>2, <2>4, OwnBucketIsClosest, BucketsAssumption
       DEF bucket_index
  <2> QED
    BY <2>3, <2>4
<1> QED
  BY <1>8, <1>10

(* A search of the own table finds as many peers as it can, and the        *)
(* closest of all if the target's bucket has one: whatever the table, in   *)
(* every reachable state.                                                  *)
THEOREM SearchIsComplete == BucketsSpec => []SearchFinds
<1>1. TableInv => SearchFinds
  <2> SUFFICES ASSUME TableInv, NEW t \in Targets, NEW n \in 1..K_VALUE
               PROVE  LET found == find_closest_peers(buckets, t, n)
                          known == Cardinality(TablePeers)
                      IN  /\ Len(found) = IF n < known THEN n ELSE known
                          /\ ToSet(found) \subseteq TablePeers
                          /\ known <= n => ToSet(found) = TablePeers
                          /\ buckets[bucket_index(t)] # <<>> =>
                                 \E p \in ToSet(found) :
                                     \A q \in TablePeers \ {p} :
                                         Closer(p, q, t)
    BY DEF SearchFinds
  <2>1. n \in Nat /\ n \in Nat \ {0}
    BY BucketsAssumption
  <2>2. Found(find_closest_peers(buckets, t, n), TablePeers, n)
    BY <2>1, SearchFacts
  <2> QED
    BY <2>1, <2>2, ClosestIsFound DEF Found
<1> QED
  BY <1>1, TableInvInit, TableInvStep, PTL DEF BucketsSpec
-----------------------------------------------------------------------------
LEMMA DiscoveryActions ==
    ASSUME DiscoveryNext
    PROVE  \/ \E d \in Datagrams : Arrive(d)
           \/ NetworkComesOrGoes \/ Tick \/ ClockSetBack
           \/ DropDatagram \/ LeaveShort \/ HandleTasks
           \/ ~damaged /\ \E p \in Peers : ReadHello(p)
  BY DEF DiscoveryNext, Reading

(* A step of discovery leaves the table alone or is a peer heard of.       *)
LEMMA DiscoveryStep ==
    [DiscoveryNext]_discoveryVars => [BucketsNext]_bucketVars
<1> SUFFICES ASSUME [DiscoveryNext]_discoveryVars
             PROVE  [BucketsNext]_bucketVars
  OBVIOUS
<1> USE DEF bucketVars
<1>1. CASE UNCHANGED discoveryVars
  BY <1>1 DEF discoveryVars
<1>2. ASSUME NEW d \in Datagrams, Arrive(d) PROVE UNCHANGED bucketVars
  BY <1>2 DEF Arrive
<1>3. CASE NetworkComesOrGoes \/ Tick \/ ClockSetBack
  BY <1>3 DEF NetworkComesOrGoes, Tick, ClockSetBack
<1>4. CASE DropDatagram \/ LeaveShort \/ HandleTasks
  BY <1>4 DEF DropDatagram, LeaveShort, HandleTasks
<1>5. ASSUME NEW p \in Peers, ReadHello(p), ~damaged
      PROVE  BucketsNext \/ UNCHANGED bucketVars
  BY <1>5 DEF ReadHello, BucketsNext
<1> QED
  BY <1>1, <1>2, <1>3, <1>4, <1>5, DiscoveryActions

(* Discovery implements the table of Buckets.                              *)
THEOREM DiscoveryImplementsBuckets == DiscoverySpec => BucketsSpec
<1>1. DiscoveryInit => BucketsInit
  BY DEF DiscoveryInit
<1> QED
  BY <1>1, DiscoveryStep, PTL DEF DiscoverySpec, BucketsSpec

(* The table of a node that discovers others is sound.                     *)
THEOREM DiscoveredTableIsSound == DiscoverySpec => []TableSound
  BY DiscoveryImplementsBuckets, TableIsSound, PTL

(* The variables keep their types; of the datagrams, no more are kept than *)
(* the queue has room for.                                                 *)
THEOREM DiscoveryTypeCorrect == DiscoverySpec => []DiscoveryTypeOK
<1> DEFINE QueueOK == queue \in Seq(Datagrams) /\ Len(queue) <= QUEUE
           FlagsOK == routed \in BOOLEAN /\ cached \in BOOLEAN
           ClockOK == /\ set_back \in 0..MaxSetBack
                      /\ wait \in -1..interval_secs + set_back
           Inv == QueueOK /\ FlagsOK /\ ClockOK
<1>1. DiscoveryInit => Inv
  <2>1. DiscoveryInit => QueueOK
    BY DiscoveryAssumption DEF DiscoveryInit
  <2>2. DiscoveryInit => FlagsOK
    BY Zenon DEF DiscoveryInit
  <2>3. DiscoveryInit => ClockOK
    BY DiscoveryAssumption DEF DiscoveryInit
  <2> QED
    BY <2>1, <2>2, <2>3
<1>2. Inv /\ [DiscoveryNext]_discoveryVars => Inv'
  <2> SUFFICES ASSUME Inv, [DiscoveryNext]_discoveryVars PROVE Inv'
    OBVIOUS
  <2>1. /\ Len(queue) \in Nat /\ queue \in Seq(Datagrams)
        /\ MaxSetBack \in Nat /\ interval_secs \in Nat /\ QUEUE \in Nat
    BY DiscoveryAssumption
  <2>2. queue # <<>> /\ queue' = Tail(queue) => QueueOK'
    BY <2>1
  <2>3. ASSUME NEW d \in Datagrams, Len(queue) < QUEUE,
               queue' = Append(queue, d)
        PROVE  QueueOK'
    BY <2>1, <2>3
  <2>4. LookUpIdentity /\ UNCHANGED routed => FlagsOK'
    BY Zenon DEF LookUpIdentity
  <2>5. CASE UNCHANGED discoveryVars
    BY <2>5 DEF discoveryVars, hostVars
  <2>6. ASSUME NEW d \in Datagrams, Arrive(d) PROVE Inv'
    <3>1. QueueOK'
      BY <2>3, <2>6 DEF Arrive
    <3> QED
      BY <2>6, <3>1 DEF Arrive, hostVars
  <2>7. CASE NetworkComesOrGoes
    BY <2>7 DEF NetworkComesOrGoes
  <2>8. CASE Tick
    <3>1. ClockOK'
      BY <2>1, <2>8 DEF Tick, hostVars
    <3> QED
      BY <2>8, <3>1 DEF Tick, hostVars
  <2>9. CASE ClockSetBack
    <3>1. PICK d \in 1..MaxSetBack - set_back :
              wait' = wait + d /\ set_back' = set_back + d
      BY <2>9 DEF ClockSetBack
    <3>2. ClockOK'
      BY <2>1, <3>1
    <3> QED
      BY <2>9, <3>2 DEF ClockSetBack
  <2>10. CASE DropDatagram \/ LeaveShort
    <3>1. QueueOK'
      BY <2>2, <2>10 DEF DropDatagram, LeaveShort
    <3>2. LookUpIdentity /\ UNCHANGED <<routed, set_back, wait>>
      BY <2>10 DEF DropDatagram, LeaveShort, hostVars
    <3> QED
      BY <2>4, <3>1, <3>2
  <2>11. ASSUME NEW p \in Peers, ReadHello(p) PROVE Inv'
    <3>1. QueueOK'
      BY <2>2, <2>11 DEF ReadHello
    <3>2. LookUpIdentity /\ UNCHANGED <<routed, set_back, wait>>
      BY <2>11 DEF ReadHello, hostVars
    <3> QED
      BY <2>4, <3>1, <3>2
  <2>12. CASE HandleTasks
    <3>1. Other \in Datagrams
      BY DEF Datagrams
    <3>2. QueueOK'
      BY <2>3, <2>12, <3>1 DEF HandleTasks, Queued
    <3>3. /\ LookUpIdentity /\ UNCHANGED <<routed, set_back>>
          /\ wait' = interval_secs
      BY <2>12 DEF HandleTasks, hostVars
    <3>4. ClockOK'
      BY <2>1, <3>3
    <3> QED
      BY <2>4, <3>2, <3>3, <3>4
  <2> QED
    BY <2>5, <2>6, <2>7, <2>8, <2>9, <2>10, <2>11, <2>12,
       DiscoveryActions
<1>3. Inv /\ BucketsTypeOK => DiscoveryTypeOK
  BY DiscoveryAssumption DEF DiscoveryTypeOK
<1> QED
  BY <1>1, <1>2, <1>3, DiscoveryImplementsBuckets, BucketsTypeCorrect, PTL
     DEF DiscoverySpec
-----------------------------------------------------------------------------
AllContacted == \A j \in DOMAIN pending : contacted[j]

(* The two vectors stay in step, the scan has no uncontacted peer behind   *)
(* it, and the histories are what the vectors say.                         *)
VectorsInStep ==
    /\ pending \in Seq(heard)
    /\ contacted \in Seq(BOOLEAN)
    /\ Len(contacted) = Len(pending)
    /\ i \in 1..Len(pending) + 1
    /\ \A j \in DOMAIN pending : j < i => contacted[j]
    /\ \A q \in heard : \E j \in DOMAIN pending : pending[j] = q

AskedAreContacted ==
    /\ asked \in Seq(heard)
    /\ \A p \in heard :
          (\E j \in DOMAIN pending : pending[j] = p /\ contacted[j])
              => p \in ToSet(asked)

PassesComplete ==
    /\ pc \in {"idle", "copy"} => asked = <<>> /\ i = 1
    /\ pc = "idle" => pending = <<>>
    /\ pc = "sort" => AllContacted
    /\ pc = "returned" /\ ~value_found => AllContacted

LookupInv == VectorsInStep /\ AskedAreContacted /\ PassesComplete

LEMMA LookupInvInit == LookupInit => LookupInv
BY DEF LookupInit, LookupInv, VectorsInStep, AskedAreContacted,
       PassesComplete, AllContacted

LEMMA AppendFacts ==
    ASSUME NEW T, NEW s \in Seq(T), NEW x \in T
    PROVE  /\ Append(s, x) \in Seq(T)
           /\ Len(Append(s, x)) = Len(s) + 1
           /\ Append(s, x)[Len(s) + 1] = x
           /\ \A j \in 1..Len(s) : Append(s, x)[j] = s[j]
OBVIOUS

(* A peer appended to both vectors, not contacted yet.                     *)
LEMMA PushStep ==
    ASSUME LookupInv, NEW p, pc \in {"copy", "learn"}, pc' = pc,
           pending' = Append(pending, p), contacted' = Append(contacted, FALSE),
           heard' = heard \cup {p}, i' = i, asked' = asked
    PROVE  LookupInv'
<1> DEFINE n == Len(pending)
<1> USE DEF LookupInv, VectorsInStep
<1>1. /\ n \in Nat /\ DOMAIN pending = 1..n /\ DOMAIN contacted = 1..n
      /\ asked \in Seq(heard)
  BY DEF AskedAreContacted
<1>2. /\ pending \in Seq(heard') /\ pending' \in Seq(heard')
      /\ asked' \in Seq(heard')
  BY <1>1
<1>3. /\ Len(pending') = n + 1 /\ DOMAIN pending' = 1..n+1
      /\ pending'[n+1] = p /\ \A j \in 1..n : pending'[j] = pending[j]
  BY <1>1
<1>4. /\ contacted' \in Seq(BOOLEAN) /\ Len(contacted') = n + 1
      /\ contacted'[n+1] = FALSE
      /\ \A j \in 1..n : contacted'[j] = contacted[j]
  <2>1. contacted \in Seq(BOOLEAN) /\ FALSE \in BOOLEAN
    BY Zenon
  <2>2. /\ Append(contacted, FALSE) \in Seq(BOOLEAN)
        /\ Len(Append(contacted, FALSE)) = Len(contacted) + 1
        /\ Append(contacted, FALSE)[Len(contacted) + 1] = FALSE
        /\ \A j \in 1..Len(contacted) :
               Append(contacted, FALSE)[j] = contacted[j]
    <3> HIDE DEF LookupInv, VectorsInStep
    <3> QED
      BY <2>1, AppendFacts
  <2>3. Len(contacted) = n
    OBVIOUS
  <2> QED
    BY <2>2, <2>3, Zenon
<1>5. ASSUME NEW q \in heard' PROVE \E j \in DOMAIN pending' : pending'[j] = q
  <2>1. CASE q = p
    <3>1. n + 1 \in DOMAIN pending' /\ pending'[n+1] = q
      BY <1>1, <1>3, <2>1
    <3> QED
      BY <3>1, Zenon
  <2>2. CASE q \in heard
    <3>1. PICK j \in 1..n : pending[j] = q
      BY <1>1, <2>2
    <3> QED
      BY <1>1, <1>3, <3>1
  <2> QED
    BY <2>1, <2>2
<1>6. VectorsInStep'
  <2>1. i' \in 1..Len(pending') + 1
    BY <1>1, <1>3
  <2>2. \A j \in DOMAIN pending' : j < i' => contacted'[j]
    BY <1>1, <1>3, <1>4
  <2> QED
    BY <1>2, <1>3, <1>4, <1>5, <2>1, <2>2
<1>7. AskedAreContacted'
  <2> SUFFICES ASSUME NEW q \in heard', NEW j \in DOMAIN pending',
                      pending'[j] = q, contacted'[j]
               PROVE  q \in ToSet(asked')
    BY <1>2 DEF AskedAreContacted
  <2>1. j \in 1..n /\ pending[j] = q /\ contacted[j]
    BY <1>1, <1>3, <1>4
  <2>2. q \in heard
    BY <1>1, <2>1
  <2> QED
    BY <1>1, <2>1, <2>2 DEF AskedAreContacted
<1>8. PassesComplete'
  BY DEF PassesComplete
<1> QED
  BY <1>6, <1>7, <1>8

(* The peer under the scan is contacted, with any outcome that does not    *)
(* end the scan by itself.                                                 *)
LEMMA ContactStep ==
    ASSUME LookupInv, Contact, pending' = pending, heard' = heard,
           pc' # "sort", pc' \notin {"idle", "copy"},
           pc' = "returned" => value_found'
    PROVE  LookupInv'
<1> DEFINE n == Len(pending)
<1> USE DEF LookupInv, VectorsInStep, Contact
<1>1. /\ n \in Nat /\ DOMAIN pending = 1..n /\ DOMAIN contacted = 1..n
      /\ i \in 1..n /\ asked \in Seq(heard) /\ pending[i] \in heard
  BY DEF AskedAreContacted
<1>2. /\ contacted' \in Seq(BOOLEAN) /\ Len(contacted') = n /\ contacted'[i]
      /\ \A j \in 1..n : j # i => contacted'[j] = contacted[j]
  BY <1>1
<1>3. VectorsInStep'
  BY <1>1, <1>2
<1>4. /\ asked' \in Seq(heard) /\ Len(asked') = Len(asked) + 1
      /\ asked'[Len(asked) + 1] = pending[i]
      /\ \A k \in 1..Len(asked) : asked'[k] = asked[k]
  BY <1>1
<1>5. ToSet(asked) \subseteq ToSet(asked') /\ pending[i] \in ToSet(asked')
  <2>1. DOMAIN asked = 1..Len(asked) /\ DOMAIN asked' = 1..Len(asked) + 1
    BY <1>1, <1>4
  <2>2. Len(asked) \in Nat
    BY <1>1
  <2>3. \A k \in DOMAIN asked : k \in DOMAIN asked' /\ asked'[k] = asked[k]
    BY <1>4, <2>1, <2>2
  <2>4. Len(asked) + 1 \in DOMAIN asked'
    BY <2>1, <2>2
  <2> QED
    BY <1>4, <2>3, <2>4 DEF ToSet
<1>6. AskedAreContacted'
  BY <1>1, <1>2, <1>4, <1>5 DEF AskedAreContacted
<1>7. PassesComplete'
  BY DEF PassesComplete
<1> QED
  BY <1>3, <1>6, <1>7

LEMMA LookupInvStep == LookupInv /\ [LookupNext]_vars => LookupInv'
<1> SUFFICES ASSUME LookupInv, [LookupNext]_vars
             PROVE  LookupInv'
  OBVIOUS
<1> DEFINE same == <<pending, contacted, heard, asked>>
<1>1. CASE UNCHANGED vars
  BY <1>1 DEF vars, lookupVars, LookupInv, VectorsInStep, AskedAreContacted,
              PassesComplete, AllContacted
<1>2. ASSUME NEW p \in Peers, HandleBroadcast(p) PROVE LookupInv'
  BY <1>2 DEF HandleBroadcast, lookupVars, LookupInv, VectorsInStep,
              AskedAreContacted, PassesComplete, AllContacted
<1>3. ASSUME NEW k, NEW fv, StartLookup(k, fv) PROVE LookupInv'
  BY <1>3 DEF StartLookup, LookupInv, VectorsInStep, AskedAreContacted,
              PassesComplete, AllContacted
<1>4. CASE CopyInitial
  <2> DEFINE initial == find_closest_peers(buckets, target_key, K_VALUE)
             n == Len(pending) + 1
  <2>1. CASE n <= Len(initial)
    <3>1. /\ pc = "copy" /\ pc' = pc /\ i' = i /\ asked' = asked
          /\ pending' = Append(pending, initial[n])
          /\ contacted' = Append(contacted, FALSE)
          /\ heard' = heard \cup {initial[n]}
      BY <1>4, <2>1 DEF CopyInitial
    <3> QED
      BY <3>1, PushStep
  <2>2. CASE ~(n <= Len(initial))
    BY <1>4, <2>2 DEF CopyInitial, LookupInv, VectorsInStep,
                      AskedAreContacted, PassesComplete, AllContacted
  <2> QED
    BY <2>1, <2>2
<1>5. CASE SkipContacted
  BY <1>5 DEF SkipContacted, LookupInv, VectorsInStep, AskedAreContacted,
              PassesComplete, AllContacted
<1>6. CASE NoAnswer
  BY <1>6, ContactStep DEF NoAnswer, Contact
<1>7. ASSUME NEW ids \in Answers, NeighboursAnswer(ids) PROVE LookupInv'
  BY <1>7, ContactStep DEF NeighboursAnswer, Contact, scanVars
<1>8. CASE LearnNeighbour
  <2>1. CASE Contains(pending, Head(answer))
    <3>1. Head(answer) \in heard
      BY <2>1 DEF Contains, LookupInv, VectorsInStep
    <3>2. heard' = heard
      BY <1>8, <3>1 DEF LearnNeighbour
    <3> QED
      BY <1>8, <2>1, <3>2 DEF LearnNeighbour, LookupInv, VectorsInStep,
                 AskedAreContacted, PassesComplete, AllContacted
  <2>2. CASE ~Contains(pending, Head(answer))
    <3>1. /\ pc = "learn" /\ pc' = pc /\ i' = i /\ asked' = asked
          /\ pending' = Append(pending, Head(answer))
          /\ contacted' = Append(contacted, FALSE)
          /\ heard' = heard \cup {Head(answer)}
      BY <1>8, <2>2 DEF LearnNeighbour
    <3> QED
      BY <3>1, PushStep
  <2> QED
    BY <2>1, <2>2
<1>9. CASE AnswerRead
  BY <1>9 DEF AnswerRead, LookupInv, VectorsInStep, AskedAreContacted,
              PassesComplete, AllContacted
<1>10. ASSUME NEW owners \in OwnerLists, ValueAnswer(owners) PROVE LookupInv'
  BY <1>10, ContactStep DEF ValueAnswer, Contact
<1>11. CASE EndOfPass
  <2>1. AllContacted
    BY <1>11 DEF EndOfPass, LookupInv, VectorsInStep, AllContacted
  <2> QED
    BY <1>11, <2>1 DEF EndOfPass, LookupInv, VectorsInStep,
                       AskedAreContacted, PassesComplete, AllContacted
<1>12. CASE SortAndReturn
  BY <1>12 DEF SortAndReturn, LookupInv, VectorsInStep, AskedAreContacted,
               PassesComplete, AllContacted
<1>13. CASE Leave
  BY <1>13 DEF Leave, LookupInv, VectorsInStep, AskedAreContacted,
               PassesComplete, AllContacted
<1> QED
  BY <1>1, <1>2, <1>3, <1>4, <1>5, <1>6, <1>7, <1>8, <1>9, <1>10, <1>11,
     <1>12, <1>13 DEF LookupNext, LookupStep

(* What the lookup returns rests on the answers, or the silence, of every  *)
(* peer it heard of.                                                       *)
THEOREM EveryPeerIsAsked == LookupSpec => []EveryoneIsAsked
<1>1. LookupInv => EveryoneIsAsked
  <2> SUFFICES ASSUME LookupInv, AllContacted
               PROVE  ToSet(asked) = heard
    BY DEF LookupInv, PassesComplete, EveryoneIsAsked
  <2>1. ToSet(asked) \subseteq heard
    BY DEF LookupInv, AskedAreContacted, ToSet
  <2>2. heard \subseteq ToSet(asked)
    BY DEF LookupInv, VectorsInStep, AskedAreContacted, AllContacted
  <2> QED
    BY <2>1, <2>2
<1> QED
  BY <1>1, LookupInvInit, LookupInvStep, PTL DEF LookupSpec
-----------------------------------------------------------------------------
(* The order in which the peers are sorted.                                *)
LEMMA BeforeMeans ==
    ASSUME target_key \in HashID, NEW s \in Seq(Peers),
           NEW k \in DOMAIN s, NEW m \in DOMAIN s
    PROVE  Before(s, k, m) <=>
               Closer(s[k], s[m], target_key) \/ (s[k] = s[m] /\ k < m)
<1>1. s[k] \in HashID /\ s[m] \in HashID
  BY BucketsAssumption
<1>2. ~Closer(s[k], s[k], target_key)
  BY <1>1, CloserIrreflexive
<1>3. s[k] # s[m] => \/ Closer(s[k], s[m], target_key)
                     \/ Closer(s[m], s[k], target_key)
  BY <1>1, CloserTotal
<1>4. CASE s[k] = s[m]
  <2>1. ~Closer(s[k], s[m], target_key) /\ ~Closer(s[m], s[k], target_key)
    BY <1>2, <1>4, Zenon
  <2> QED
    BY <1>4, <2>1 DEF Before
<1>5. CASE s[k] # s[m]
  BY <1>3, <1>5, Zenon DEF Before
<1> QED
  BY <1>4, <1>5

LEMMA CloserIsAnOrder ==
    ASSUME NEW t \in HashID, NEW p \in HashID, NEW q \in HashID,
           NEW r \in HashID, Closer(p, q, t)
    PROVE  /\ ~Closer(q, p, t)
           /\ Closer(q, r, t) => Closer(p, r, t)
<1>1. ~Closer(q, p, t)
  BY CloserIrreflexive, CloserTransitive
<1>2. ASSUME Closer(q, r, t), ~Closer(p, r, t) PROVE FALSE
  BY <1>2, CloserTransitive
<1> QED
  BY <1>1, <1>2

LEMMA BeforeIsAnOrder ==
    ASSUME target_key \in HashID, NEW s \in Seq(Peers),
           NEW k \in DOMAIN s, NEW m \in DOMAIN s
    PROVE  /\ ~Before(s, k, k)
           /\ Before(s, k, m) => ~Before(s, m, k)
           /\ k # m => Before(s, k, m) \/ Before(s, m, k)
           /\ \A n \in DOMAIN s :
                  Before(s, n, k) /\ Before(s, k, m) => Before(s, n, m)
<1>1. /\ DOMAIN s = 1..Len(s) /\ \A n \in DOMAIN s : n \in Int
      /\ \A n \in DOMAIN s : s[n] \in HashID
  BY BucketsAssumption
<1>2. \A n \in DOMAIN s : ~Closer(s[n], s[n], target_key)
  BY <1>1, CloserIrreflexive
<1>3. ~Before(s, k, k)
  BY <1>1, <1>2, BeforeMeans
<1>4. Before(s, k, m) => ~Before(s, m, k)
  BY <1>1, <1>2, BeforeMeans, CloserIsAnOrder
<1>5. k # m => Before(s, k, m) \/ Before(s, m, k)
  <2>1. CASE s[k] = s[m]
    BY <1>1, <2>1, BeforeMeans
  <2>2. CASE s[k] # s[m]
    <3>1. \/ Closer(s[k], s[m], target_key)
          \/ Closer(s[m], s[k], target_key)
      BY <1>1, <2>2, CloserTotal
    <3> QED
      BY <3>1, BeforeMeans
  <2> QED
    BY <2>1, <2>2
<1>6. ASSUME NEW n \in DOMAIN s, Before(s, n, k), Before(s, k, m)
      PROVE  Before(s, n, m)
  <2>1. Closer(s[n], s[k], target_key) \/ (s[n] = s[k] /\ n < k)
    <3>1. Before(s, n, k) <=>
              Closer(s[n], s[k], target_key) \/ (s[n] = s[k] /\ n < k)
      BY BeforeMeans
    <3> QED
      BY <1>6, <3>1
  <2>2. Closer(s[k], s[m], target_key) \/ (s[k] = s[m] /\ k < m)
    <3>1. Before(s, k, m) <=>
              Closer(s[k], s[m], target_key) \/ (s[k] = s[m] /\ k < m)
      BY BeforeMeans
    <3> QED
      BY <1>6, <3>1
  <2>3. Closer(s[n], s[m], target_key) \/ (s[n] = s[m] /\ n < m)
    <3>1. CASE s[n] = s[k] /\ s[k] = s[m]
      BY <1>1, <1>2, <2>1, <2>2, <3>1
    <3>2. CASE s[n] # s[k] \/ s[k] # s[m]
      <4>1. Closer(s[n], s[k], target_key) \/ Closer(s[k], s[m], target_key)
        BY <2>1, <2>2, <3>2, Zenon
      <4>2. Closer(s[n], s[k], target_key) /\ Closer(s[k], s[m], target_key)
                => Closer(s[n], s[m], target_key)
        <5>1. s[n] \in HashID /\ s[k] \in HashID /\ s[m] \in HashID
          BY <1>1, Zenon
        <5> QED
          BY <5>1, CloserIsAnOrder
      <4>3. CASE s[n] = s[k]
        BY <3>2, <4>1, <4>3, <2>2
      <4>4. CASE s[k] = s[m]
        BY <3>2, <4>4, <2>1
      <4> QED
        BY <2>1, <2>2, <4>2, <4>3, <4>4
    <3> QED
      BY <3>1, <3>2
  <2> QED
    BY <2>3, BeforeMeans
<1> QED
  BY <1>3, <1>4, <1>5, <1>6

(* Every entry has a place of its own, and every place an entry.           *)
LEMMA Places ==
    ASSUME target_key \in HashID, NEW s \in Seq(Peers)
    PROVE  /\ \A k, m \in DOMAIN s :
                  Before(s, k, m) => Place(s, k) < Place(s, m)
           /\ \A n \in DOMAIN s : \E k \in DOMAIN s : Place(s, k) = n
           /\ \A k \in DOMAIN s : Place(s, k) \in DOMAIN s
<1> DEFINE D == DOMAIN s
           Earlier(k) == {m \in D : Before(s, m, k)}
<1>1. Len(s) \in Nat /\ D = 1..Len(s)
  OBVIOUS
<1>2. IsFiniteSet(D) /\ Cardinality(D) = Len(s)
  BY <1>1, FS_Interval
<1>3. ASSUME NEW k \in D
      PROVE  /\ IsFiniteSet(Earlier(k)) /\ Cardinality(Earlier(k)) \in Nat
             /\ Cardinality(Earlier(k)) < Len(s)
  <2>1. Earlier(k) \in SUBSET D /\ k \notin Earlier(k)
    BY BeforeIsAnOrder
  <2>2. /\ IsFiniteSet(Earlier(k))
        /\ Cardinality(Earlier(k)) <= Cardinality(D)
        /\ Cardinality(D) = Cardinality(Earlier(k)) => D = Earlier(k)
    <3> HIDE DEF D, Earlier
    <3> QED
      BY <1>2, <2>1, FS_Subset
  <2>3. Cardinality(Earlier(k)) \in Nat
    BY <2>2, FS_CardinalityType
  <2>4. Cardinality(Earlier(k)) # Cardinality(D)
    BY <2>1, <2>2
  <2> HIDE DEF D, Earlier
  <2> QED
    BY <1>1, <1>2, <2>2, <2>3, <2>4
<1>4. \A k \in D : Place(s, k) = Cardinality(Earlier(k)) + 1
  BY DEF Place
<1>5. \A k \in D : Place(s, k) \in 1..Len(s)
  <2> HIDE DEF D, Earlier
  <2> QED
    BY <1>1, <1>3, <1>4
<1>6. ASSUME NEW k \in D, NEW m \in D, Before(s, k, m)
      PROVE  Place(s, k) < Place(s, m)
  <2>1. Earlier(k) \in SUBSET Earlier(m)
    BY <1>6, BeforeIsAnOrder
  <2>2. k \in Earlier(m) /\ k \notin Earlier(k)
    BY <1>6, BeforeIsAnOrder
  <2> HIDE DEF D, Earlier
  <2>3. /\ Cardinality(Earlier(k)) <= Cardinality(Earlier(m))
        /\ Cardinality(Earlier(m)) # Cardinality(Earlier(k))
    BY <1>3, <2>1, <2>2, FS_Subset
  <2> QED
    BY <1>3, <1>4, <2>3
<1>7. ASSUME NEW n \in D PROVE \E k \in D : Place(s, k) = n
  <2>1. PICK f : f = [k \in D |-> Place(s, k)]
    OBVIOUS
  <2>2. f \in [D -> D]
    BY <1>1, <1>5, <2>1
  <2>3. \A k, m \in D : f[k] = f[m] => k = m
    <3> SUFFICES ASSUME NEW k \in D, NEW m \in D, k # m
                 PROVE  Place(s, k) # Place(s, m)
      BY <2>1
    <3>1. Place(s, k) < Place(s, m) \/ Place(s, m) < Place(s, k)
      BY <1>6, BeforeIsAnOrder
    <3>2. Place(s, k) \in Int /\ Place(s, m) \in Int
      BY <1>5
    <3> QED
      BY <3>1, <3>2
  <2> HIDE DEF D
  <2>4. f \in Injection(D, D)
    BY <2>2, <2>3 DEF Injection, IsInjective
  <2>5. f \in Surjection(D, D)
    BY <1>2, <2>4, FS_Injection
  <2>6. \E k \in D : f[k] = n
    BY <1>7, <2>5 DEF Surjection
  <2> QED
    BY <2>1, <2>6
<1> QED
  BY <1>1, <1>5, <1>6, <1>7

(* vector_sort keeps all entries and puts the closer in front.             *)
LEMMA SortFacts ==
    ASSUME target_key \in HashID, NEW s \in Seq(Peers)
    PROVE  LET r == SortByDistance(s)
           IN  /\ r \in Seq(Peers) /\ Len(r) = Len(s)
               /\ \A k \in DOMAIN s : \E n \in DOMAIN r : r[n] = s[k]
               /\ \A n \in DOMAIN r : \E k \in DOMAIN s : r[n] = s[k]
               /\ \A m, n \in DOMAIN r :
                      m < n => Closer(r[m], r[n], target_key) \/ r[m] = r[n]
<1> DEFINE D == DOMAIN s
           At(n) == CHOOSE k \in D : Place(s, k) = n
<1>1. Len(s) \in Nat /\ D = 1..Len(s)
  OBVIOUS
<1>2. \A n \in D : At(n) \in D /\ Place(s, At(n)) = n
  BY Places
<1>3. \A k \in D : At(Place(s, k)) = k
  <2> SUFFICES ASSUME NEW k \in D, At(Place(s, k)) # k PROVE FALSE
    OBVIOUS
  <2>1. PICK m : m = At(Place(s, k))
    OBVIOUS
  <2>2. m \in D /\ Place(s, m) = Place(s, k) /\ Place(s, k) \in Int
    BY <1>1, <1>2, <2>1, Places
  <2>3. Place(s, k) < Place(s, m) \/ Place(s, m) < Place(s, k)
    BY <2>1, <2>2, Places, BeforeIsAnOrder
  <2> QED
    BY <2>2, <2>3
<1>4. PICK r : r = SortByDistance(s)
  OBVIOUS
<1>5. r = [n \in D |-> s[At(n)]]
  BY <1>4 DEF SortByDistance
<1> HIDE DEF At
<1>6. r \in Seq(Peers) /\ Len(r) = Len(s) /\ DOMAIN r = D
  <2>1. r \in [1..Len(s) -> Peers]
    BY <1>1, <1>2, <1>5
  <2> QED
    BY <1>1, <2>1
<1>7. \A k \in D : \E n \in D : r[n] = s[k]
  <2> SUFFICES ASSUME NEW k \in D PROVE \E n \in D : r[n] = s[k]
    OBVIOUS
  <2>1. Place(s, k) \in D
    BY Places
  <2> QED
    BY <1>3, <1>5, <2>1
<1>8. ASSUME NEW m \in D, NEW n \in D, m < n
      PROVE  Closer(r[m], r[n], target_key) \/ r[m] = r[n]
  <2>1. PICK a, c : a = At(m) /\ c = At(n)
    OBVIOUS
  <2>2. a \in D /\ c \in D /\ Place(s, a) = m /\ Place(s, c) = n
    BY <1>2, <2>1
  <2>3. a # c /\ ~Before(s, c, a)
    <3>1. m \in Int /\ n \in Int
      BY <1>1
    <3>2. Before(s, c, a) => Place(s, c) < Place(s, a)
      BY <2>2, Places
    <3> QED
      BY <1>8, <2>2, <3>1, <3>2
  <2>4. Before(s, a, c)
    BY <2>2, <2>3, BeforeIsAnOrder
  <2> QED
    <3>1. r[m] = s[a] /\ r[n] = s[c]
      BY <1>5, <2>1
    <3>2. Closer(s[a], s[c], target_key) \/ s[a] = s[c]
      BY <2>2, <2>4, BeforeMeans
    <3> QED
      BY <3>1, <3>2
<1> QED
  <2>1. \A n \in D : \E k \in D : r[n] = s[k]
    BY <1>2, <1>5
  <2> QED
    BY <1>4, <1>6, <1>7, <1>8, <2>1
-----------------------------------------------------------------------------
(* The types of the variables that VectorsInStep says nothing of, and what *)
(* keeps the sockets below their bound and the target a key.               *)
TypesInv ==
    /\ TableInv
    /\ pc \in {"idle", "copy", "scan", "learn", "sort", "returned"}
    /\ target_key \in Keys \cup {own_id}
    /\ pc # "idle" => target_key \in Keys
    /\ {find_value, any_new_contact, value_found} \subseteq BOOLEAN
    /\ answer \in Seq(Peers) /\ out_peers \in Seq(Peers)
    /\ open_sockets \in 0..MaxOpenSockets
    /\ pc \notin {"idle", "returned"} => open_sockets < MaxOpenSockets
    /\ heard \subseteq Peers

LEMMA TypesSuffice == TypesInv /\ LookupInv => LookupTypeOK
<1> SUFFICES ASSUME TypesInv, LookupInv PROVE LookupTypeOK
  OBVIOUS
<1>1. /\ pending \in Seq(heard) /\ asked \in Seq(heard)
      /\ heard \subseteq Peers
  BY DEF TypesInv, LookupInv, VectorsInStep, AskedAreContacted
<1>2. pending \in Seq(Peers) /\ asked \in Seq(Peers)
  BY <1>1
<1>3. contacted \in [DOMAIN pending -> BOOLEAN]
  <2>1. /\ contacted \in Seq(BOOLEAN) /\ Len(contacted) = Len(pending)
        /\ pending \in Seq(heard)
    BY DEF LookupInv, VectorsInStep
  <2>2. DOMAIN pending = 1..Len(contacted)
    BY <2>1
  <2>3. contacted \in [1..Len(contacted) -> BOOLEAN]
    BY <2>1
  <2> QED
    BY <2>2, <2>3
<1>4. target_key \in HashID
  BY LookupAssumption, BucketsAssumption DEF TypesInv, Targets
<1>5. BucketsTypeOK /\ i \in 1..Len(pending) + 1
  BY DEF TypesInv, TableInv, LookupInv, VectorsInStep
<1> QED
  BY <1>2, <1>3, <1>4, <1>5, Zenon DEF TypesInv, LookupTypeOK

(* The peers copied from the own table are K_VALUE at most, and ours.      *)
LEMMA InitialFacts ==
    ASSUME TypesInv, target_key \in Keys
    PROVE  LET initial == find_closest_peers(buckets, target_key, K_VALUE)
           IN  /\ initial \in Seq(Peers) /\ Len(initial) <= K_VALUE
               /\ \A n \in DOMAIN initial : initial[n] \in TablePeers
<1>1. target_key \in Targets /\ K_VALUE \in Nat
  BY LookupAssumption, BucketsAssumption
<1>2. PICK initial : initial = find_closest_peers(buckets, target_key, K_VALUE)
  OBVIOUS
<1>3. Found(initial, TablePeers, K_VALUE)
  BY <1>1, <1>2, SearchFacts DEF TypesInv
<1>4. Cardinality(TablePeers) \in Nat
  BY <1>3, FS_CardinalityType DEF Found
<1>5. initial \in Seq(Peers) /\ Len(initial) <= K_VALUE
  BY <1>1, <1>3, <1>4 DEF Found
<1>6. \A n \in DOMAIN initial : initial[n] \in TablePeers
  BY <1>3 DEF Found, ToSet
<1> QED
  BY <1>2, <1>5, <1>6

LEMMA TypesStep == TypesInv /\ LookupInv /\ [LookupNext]_vars => TypesInv'
<1> SUFFICES ASSUME TypesInv, LookupInv, [LookupNext]_vars
             PROVE  TypesInv'
  OBVIOUS
<1>0. /\ MaxOpenSockets \in Nat \ {0} /\ K_VALUE \in Nat
      /\ <<>> \in Seq(Peers)
  BY LookupAssumption, BucketsAssumption
<1>a. UNCHANGED bucketVars /\ TableInv => TableInv'
  BY DEF bucketVars, TableInv, BucketsTypeOK, TableSound
<1>t. TableInv
  BY DEF TypesInv
<1>1. CASE UNCHANGED vars
  BY <1>1, <1>a DEF vars, lookupVars, TypesInv
<1>2. ASSUME NEW p \in Peers, HandleBroadcast(p) PROVE TypesInv'
  BY <1>2, HeardKeepsTable DEF HandleBroadcast, lookupVars, TypesInv
<1>3. ASSUME NEW k \in Keys, NEW fv \in BOOLEAN, StartLookup(k, fv)
      PROVE  TypesInv'
  BY <1>3, <1>a DEF StartLookup, TypesInv
<1>4. CASE CopyInitial
  <2> DEFINE initial == find_closest_peers(buckets, target_key, K_VALUE)
             n == Len(pending) + 1
  <2>1. CASE n <= Len(initial)
    <3>1. initial \in Seq(Peers)
      BY <1>4, InitialFacts DEF CopyInitial, TypesInv
    <3>2. Len(pending) \in Nat
      BY DEF LookupInv, VectorsInStep
    <3>3. initial[n] \in Peers
      <4> HIDE DEF initial
      <4> QED
        BY <2>1, <3>1, <3>2
    <3>4. heard' = heard \cup {initial[n]} /\ pc' = pc
      BY <1>4, <2>1 DEF CopyInitial
    <3> HIDE DEF initial, n
    <3>5. heard' \subseteq Peers
      BY <3>3, <3>4 DEF TypesInv
    <3> QED
      BY <1>4, <1>a, <3>4, <3>5 DEF CopyInitial, scanVars, TypesInv
  <2>2. CASE ~(n <= Len(initial))
    BY <1>4, <1>a, <2>2 DEF CopyInitial, scanVars, TypesInv
  <2> QED
    BY <2>1, <2>2
<1>5. CASE SkipContacted
  BY <1>5, <1>a DEF SkipContacted, scanVars, TypesInv
<1>6. CASE NoAnswer
  BY <1>6, <1>a DEF NoAnswer, Contact, scanVars, TypesInv
<1>7. ASSUME NEW ids \in Answers, NeighboursAnswer(ids) PROVE TypesInv'
  <2>1. ids \in Seq(Peers)
    BY DEF Answers
  <2> QED
    BY <1>7, <1>a, <2>1 DEF NeighboursAnswer, Contact, scanVars, TypesInv
<1>8. CASE LearnNeighbour
  <2>1. /\ Head(answer) \in Peers /\ Tail(answer) \in Seq(Peers)
        /\ Heard(Head(answer))
    BY <1>8 DEF LearnNeighbour, TypesInv
  <2>2. TableInv'
    BY <1>t, <2>1, HeardKeepsTable
  <2> QED
    BY <1>8, <2>1, <2>2 DEF LearnNeighbour, scanVars, TypesInv
<1>9. CASE AnswerRead
  BY <1>9, <1>a DEF AnswerRead, scanVars, TypesInv
<1>10. ASSUME NEW owners \in OwnerLists, ValueAnswer(owners) PROVE TypesInv'
  <2>1. owners \in Seq(Peers)
    <3>1. \A n \in 1..MaxAnswer : n \in Nat
      BY LookupAssumption
    <3> QED
      BY <3>1 DEF OwnerLists
  <2>2. open_sockets' \in 0..MaxOpenSockets
    BY <1>0, <1>10 DEF ValueAnswer, Contact, TypesInv
  <2> QED
    BY <1>10, <1>a, <2>1, <2>2 DEF ValueAnswer, Contact, TypesInv
<1>11. CASE EndOfPass
  BY <1>11, <1>a DEF EndOfPass, scanVars, TypesInv
<1>12. CASE SortAndReturn
  <2>1. target_key \in HashID /\ pending \in Seq(Peers)
    BY TypesSuffice DEF LookupTypeOK
  <2>2. PICK sorted : sorted = SortByDistance(pending)
    OBVIOUS
  <2>3. sorted \in Seq(Peers)
    BY <2>1, <2>2, SortFacts
  <2>4. PICK n \in 0..Len(sorted) :
            n = IF Len(sorted) < max_peers THEN Len(sorted) ELSE max_peers
    BY <1>0, <2>3 DEF max_peers
  <2>5. SubSeq(sorted, 1, n) \in Seq(Peers)
    BY <2>3, <2>4
  <2>6. out_peers' \in {<<>>, SubSeq(sorted, 1, n)}
    BY <1>12, <2>2, <2>4 DEF SortAndReturn
  <2>7. out_peers' \in Seq(Peers)
    BY <1>0, <2>5, <2>6
  <2> QED
    BY <1>12, <1>a, <2>7 DEF SortAndReturn, TypesInv
<1>13. CASE Leave
  BY <1>13, <1>a, <1>0 DEF Leave, TypesInv
<1> QED
  BY <1>1, <1>2, <1>3, <1>4, <1>5, <1>6, <1>7, <1>8, <1>9, <1>10, <1>11,
     <1>12, <1>13 DEF LookupNext, LookupStep

LEMMA TypesInvInit == LookupInit => TypesInv
<1> SUFFICES ASSUME LookupInit PROVE TypesInv
  OBVIOUS
<1>1. TableInv
  BY TableInvInit DEF LookupInit
<1>2. <<>> \in Seq(Peers) /\ 0 \in 0..MaxOpenSockets
  BY LookupAssumption
<1>3. {find_value, any_new_contact, value_found} \subseteq BOOLEAN
  BY Zenon DEF LookupInit
<1> QED
  BY <1>1, <1>2, <1>3 DEF LookupInit, TypesInv

(* The variables keep their types: in particular the scan never leaves the *)
(* vectors, which are of one length, and no more sockets are left open     *)
(* than lookups have found their value.                                    *)
THEOREM LookupTypeCorrect == LookupSpec => []LookupTypeOK
<1>1. TypesInv /\ LookupInv => LookupTypeOK
  BY TypesSuffice
<1> QED
  BY <1>1, TypesInvInit, TypesStep, LookupInvInit, LookupInvStep, PTL
     DEF LookupSpec
-----------------------------------------------------------------------------
(* A peer is in its bucket, or has found it full.                          *)
InPlace(p) ==
    bucket_index(p) \in Buckets =>
        \/ p \in ToSet(buckets[bucket_index(p)])
        \/ Len(buckets[bucket_index(p)]) = K_VALUE

Reached == \A p \in heard : InPlace(p)

(* A peer heard of is in place, and nobody loses the place for it.         *)
LEMMA HeardIsInPlace ==
    ASSUME TableInv, NEW p \in Peers, Heard(p)
    PROVE  InPlace(p)' /\ \A q \in Peers : InPlace(q) => InPlace(q)'
<1> DEFINE b == bucket_index(p)
<1>0. /\ \A c \in Buckets : /\ buckets[c] \in Seq(Peers)
                            /\ Len(buckets[c]) \in Nat
                            /\ Len(buckets[c]) <= K_VALUE
      /\ K_VALUE \in Nat /\ buckets' = update_bucket_peers(buckets, p)
      /\ buckets \in [Buckets -> Seq(Peers)]
  BY BucketsAssumption DEF TableInv, BucketsTypeOK, TableSound, Heard
<1>1. CASE \/ b \notin Buckets \/ Contains(buckets[b], p)
           \/ Len(buckets[b]) >= K_VALUE
  <2>1. buckets' = buckets
    BY <1>0, <1>1 DEF update_bucket_peers
  <2>2. b \in Buckets => \/ Contains(buckets[b], p)
                         \/ Len(buckets[b]) = K_VALUE
    BY <1>0, <1>1
  <2>3. InPlace(p)
    BY <2>2 DEF InPlace, Contains, ToSet
  <2> QED
    BY <2>1, <2>3 DEF InPlace
<1>2. CASE /\ b \in Buckets /\ ~Contains(buckets[b], p)
           /\ ~(Len(buckets[b]) >= K_VALUE)
  <2> DEFINE old == buckets[b]
  <2>1. buckets' = [buckets EXCEPT ![b] = <<p>> \o @]
    BY <1>0, <1>2 DEF update_bucket_peers
  <2>2. buckets'[b] = <<p>> \o old /\ old \in Seq(Peers)
    BY <1>0, <1>2, <2>1
  <2>3. p \in ToSet(buckets'[b]) /\ ToSet(old) \subseteq ToSet(buckets'[b])
    <3> HIDE DEF old
    <3>1. PICK new : new = <<p>> \o old
      OBVIOUS
    <3>2. /\ <<p>> \in Seq(Peers) /\ Len(<<p>>) = 1 /\ <<p>>[1] = p
          /\ Len(old) \in Nat
      BY <2>2
    <3>3. /\ new \in Seq(Peers) /\ Len(new) = 1 + Len(old)
          /\ \A k \in 1..1 : new[k] = <<p>>[k]
          /\ \A k \in 1..Len(old) : new[1 + k] = old[k]
      BY <2>2, <3>1, <3>2, ConcatFacts
    <3>4. new[1] = p /\ 1 \in DOMAIN new
      BY <3>2, <3>3
    <3>5. \A k \in DOMAIN old : new[1 + k] = old[k] /\ 1 + k \in DOMAIN new
      <4>1. DOMAIN old = 1..Len(old) /\ DOMAIN new = 1..Len(new)
        BY <2>2, <3>3
      <4> QED
        BY <3>2, <3>3, <4>1
    <3>6. p \in ToSet(new)
      BY <3>4 DEF ToSet
    <3>7. ToSet(old) \subseteq ToSet(new)
      BY <3>5 DEF ToSet
    <3> QED
      BY <2>2, <3>1, <3>6, <3>7
  <2>4. ASSUME NEW q \in Peers, InPlace(q) PROVE InPlace(q)'
    <3>1. CASE bucket_index(q) = b
      <4>1. q \in ToSet(old)
        BY <1>0, <1>2, <2>4, <3>1 DEF InPlace
      <4> QED
        BY <2>3, <3>1, <4>1 DEF InPlace
    <3>2. CASE bucket_index(q) # b
      <4>1. bucket_index(q) \in Buckets =>
                buckets'[bucket_index(q)] = buckets[bucket_index(q)]
        BY <1>0, <2>1, <3>2
      <4> QED
        BY <2>4, <4>1 DEF InPlace
    <3> QED
      BY <3>1, <3>2
  <2> QED
    BY <2>3, <2>4 DEF InPlace
<1> QED
  BY <1>1, <1>2

LEMMA ReachedStep ==
    TypesInv /\ LookupInv /\ Reached /\ [LookupNext]_vars => Reached'
<1> SUFFICES ASSUME TypesInv, LookupInv, Reached, [LookupNext]_vars
             PROVE  Reached'
  OBVIOUS
<1>a. CASE UNCHANGED buckets /\ heard' \subseteq heard
  BY <1>a DEF Reached, InPlace
<1>1. ASSUME NEW p \in Peers, HandleBroadcast(p) PROVE Reached'
  BY <1>1, HeardIsInPlace
     DEF HandleBroadcast, lookupVars, Reached, TypesInv
<1>2. CASE CopyInitial
  <2> DEFINE initial == find_closest_peers(buckets, target_key, K_VALUE)
             n == Len(pending) + 1
  <2>1. CASE n <= Len(initial)
    <3>1. n \in DOMAIN initial
      <4>1. initial \in Seq(Peers) /\ Len(pending) \in Nat
        BY <1>2, InitialFacts
           DEF CopyInitial, TypesInv, LookupInv, VectorsInStep
      <4> HIDE DEF initial
      <4> QED
        BY <2>1, <4>1
    <3>2. initial[n] \in TablePeers
      BY <1>2, <3>1, InitialFacts DEF CopyInitial, TypesInv
    <3>3. InPlace(initial[n])
      <4> HIDE DEF initial, n
      <4>1. PICK p : p = initial[n]
        OBVIOUS
      <4>2. PICK c \in Buckets : p \in ToSet(buckets[c])
        BY <3>2, <4>1 DEF TablePeers
      <4>3. bucket_index(p) = c
        BY <4>2 DEF TypesInv, TableInv, TableSound, ToSet
      <4> QED
        BY <4>1, <4>2, <4>3 DEF InPlace
    <3>4. heard' = heard \cup {initial[n]} /\ buckets' = buckets
      BY <1>2, <2>1 DEF CopyInitial, bucketVars
    <3> HIDE DEF initial, n
    <3> QED
      BY <3>3, <3>4 DEF Reached, InPlace
  <2>2. CASE ~(n <= Len(initial))
    BY <1>2, <1>a, <2>2 DEF CopyInitial, bucketVars
  <2> QED
    BY <2>1, <2>2
<1>3. CASE LearnNeighbour
  <2>1. PICK p \in Peers : p = Head(answer)
    BY <1>3 DEF LearnNeighbour, TypesInv
  <2>2. Heard(p) /\ heard' = heard \cup {p} /\ heard \subseteq Peers
    BY <1>3, <2>1 DEF LearnNeighbour, TypesInv
  <2>3. InPlace(p)' /\ \A q \in heard : InPlace(q)'
    BY <2>2, HeardIsInPlace DEF TypesInv, Reached
  <2> QED
    BY <2>2, <2>3 DEF Reached
<1>4. CASE LookupStep /\ ~CopyInitial /\ ~LearnNeighbour
  BY <1>4, <1>a DEF LookupStep, SkipContacted, NoAnswer, NeighboursAnswer,
     AnswerRead, ValueAnswer, EndOfPass, SortAndReturn, Leave, bucketVars
<1>5. ASSUME NEW k, NEW fv, StartLookup(k, fv) PROVE Reached'
  BY <1>5, <1>a DEF StartLookup, bucketVars
<1>6. CASE UNCHANGED vars
  BY <1>6, <1>a DEF vars, lookupVars, bucketVars
<1> QED
  BY <1>1, <1>2, <1>3, <1>4, <1>5, <1>6 DEF LookupNext

(* Whatever the answers name, and however often, their peers are in the    *)
(* node's table, or their bucket is full, as soon as the answer is read.   *)
THEOREM AnswersAreKept == LookupSpec => []AnswersReachTheTable
<1>1. LookupInit => Reached
  BY DEF LookupInit, Reached
<1>2. TypesInv /\ LookupInv /\ Reached => AnswersReachTheTable
  BY TypesSuffice DEF Reached, InPlace, AnswersReachTheTable
<1> QED
  BY <1>1, <1>2, ReachedStep, TypesInvInit, TypesStep, LookupInvInit,
     LookupInvStep, PTL DEF LookupSpec
-----------------------------------------------------------------------------
(* The scan contacts the entries of pending in their order, each once; and *)
(* only the copies of the own table's entries may be of an earlier peer.   *)
AskedInOrder ==
    /\ Len(asked) <= Len(pending)
    /\ \A k \in DOMAIN pending : contacted[k] <=> k <= Len(asked)
    /\ \A k \in DOMAIN asked : asked[k] = pending[k]

OnlyCopiesRepeat ==
    /\ pc = "copy" => Len(pending) <= K_VALUE
    /\ \A m, n \in DOMAIN pending :
           m < n /\ pending[m] = pending[n] => n <= K_VALUE

(* An entry is appended that may be of an earlier peer only as a copy.     *)
LEMMA PushKeepsOrder ==
    ASSUME LookupInv, AskedInOrder, OnlyCopiesRepeat, NEW p, pc' = pc,
           pending' = Append(pending, p), contacted' = Append(contacted, FALSE),
           asked' = asked,
           pc = "copy" => Len(pending) + 1 <= K_VALUE,
           pc # "copy" => \A k \in DOMAIN pending : pending[k] # p
    PROVE  AskedInOrder' /\ OnlyCopiesRepeat'
<1> DEFINE n == Len(pending)
<1>1. /\ n \in Nat /\ DOMAIN pending = 1..n /\ DOMAIN asked = 1..Len(asked)
      /\ Len(asked) \in Nat /\ K_VALUE \in Nat
      /\ pending \in Seq(heard) /\ Len(contacted) = n
  BY BucketsAssumption DEF LookupInv, VectorsInStep, AskedAreContacted
<1>2. /\ Len(pending') = n + 1 /\ DOMAIN pending' = 1..n+1
      /\ pending'[n+1] = p /\ \A k \in 1..n : pending'[k] = pending[k]
  BY <1>1
<1>3. /\ contacted'[n+1] = FALSE
      /\ \A k \in 1..n : contacted'[k] = contacted[k]
  <2>1. contacted \in Seq(BOOLEAN) /\ FALSE \in BOOLEAN
    BY Zenon DEF LookupInv, VectorsInStep
  <2>2. /\ Append(contacted, FALSE)[Len(contacted) + 1] = FALSE
        /\ \A k \in 1..Len(contacted) :
               Append(contacted, FALSE)[k] = contacted[k]
    BY <2>1, AppendFacts
  <2> QED
    BY <1>1, <2>2, Zenon
<1> HIDE DEF n
<1>4. AskedInOrder'
  <2>1. Len(asked') <= Len(pending')
    BY <1>1, <1>2 DEF AskedInOrder, n
  <2>2. \A k \in DOMAIN pending' : contacted'[k] <=> k <= Len(asked')
    <3> TAKE k \in DOMAIN pending'
    <3>1. CASE k = n + 1
      <4>1. ~(k <= Len(asked'))
        BY <1>1, <3>1 DEF AskedInOrder, n
      <4>2. ~contacted'[k]
        BY <1>3, <3>1
      <4> QED
        BY <4>1, <4>2
    <3>2. CASE k \in 1..n
      <4>1. contacted[k] <=> k <= Len(asked)
        BY <1>1, <3>2 DEF AskedInOrder
      <4> QED
        BY <1>3, <3>2, <4>1
    <3> QED
      BY <1>1, <1>2, <3>1, <3>2
  <2>3. \A k \in DOMAIN asked' : asked'[k] = pending'[k]
    BY <1>1, <1>2 DEF AskedInOrder, n
  <2> QED
    BY <2>1, <2>2, <2>3 DEF AskedInOrder
<1>5. OnlyCopiesRepeat'
  <2>1. ASSUME NEW m \in 1..n+1, NEW k \in 1..n+1, m < k,
               pending'[m] = pending'[k]
        PROVE  k <= K_VALUE
    <3>1. CASE k = n + 1
      <4>1. m \in 1..n /\ pending[m] = p
        BY <1>1, <1>2, <2>1, <3>1
      <4> QED
        BY <1>1, <3>1, <4>1 DEF n
    <3>2. CASE k # n + 1
      <4>1. m \in 1..n /\ k \in 1..n
        BY <1>1, <2>1, <3>2
      <4>2. pending[m] = pending[k]
        BY <1>2, <2>1, <4>1
      <4> QED
        BY <1>1, <2>1, <4>1, <4>2 DEF OnlyCopiesRepeat
    <3> QED
      BY <3>1, <3>2
  <2> QED
    BY <1>1, <1>2, <2>1 DEF OnlyCopiesRepeat, n
<1> QED
  BY <1>4, <1>5

(* The peer under the scan is the first that has not been asked.           *)
LEMMA ContactKeepsOrder ==
    ASSUME LookupInv, AskedInOrder, OnlyCopiesRepeat, Contact,
           pending' = pending, pc' # "copy"
    PROVE  AskedInOrder' /\ OnlyCopiesRepeat'
<1> DEFINE n == Len(asked)
<1>1. /\ Len(pending) \in Nat /\ DOMAIN pending = 1..Len(pending)
      /\ n \in Nat /\ asked \in Seq(heard) /\ pending \in Seq(heard)
      /\ DOMAIN contacted = 1..Len(pending) /\ i \in 1..Len(pending)
      /\ pending[i] \in heard /\ ~contacted[i]
      /\ \A k \in 1..Len(pending) : k < i => contacted[k]
  <2>1. /\ Len(pending) \in Nat /\ DOMAIN pending = 1..Len(pending)
        /\ n \in Nat /\ asked \in Seq(heard) /\ pending \in Seq(heard)
        /\ i \in 1..Len(pending) + 1 /\ i <= Len(pending) /\ ~contacted[i]
    BY DEF LookupInv, VectorsInStep, AskedAreContacted, Contact
  <2>2. DOMAIN contacted = 1..Len(pending)
    <3>1. contacted \in Seq(BOOLEAN) /\ Len(contacted) = Len(pending)
      BY DEF LookupInv, VectorsInStep
    <3> QED
      BY <3>1
  <2>3. \A k \in 1..Len(pending) : k < i => contacted[k]
    BY <2>1 DEF LookupInv, VectorsInStep
  <2>4. i \in 1..Len(pending) /\ pending[i] \in heard
    BY <2>1
  <2> QED
    BY <2>1, <2>2, <2>3, <2>4
<1>2. i = n + 1
  <2>1. i > n
    BY <1>1 DEF AskedInOrder
  <2>2. i - 1 <= n
    BY <1>1 DEF AskedInOrder
  <2> QED
    BY <1>1, <2>1, <2>2
<1>3. /\ Len(asked') = n + 1 /\ DOMAIN asked' = 1..n+1
      /\ asked'[n+1] = pending[i] /\ \A k \in 1..n : asked'[k] = asked[k]
  BY <1>1 DEF Contact
<1>4. /\ contacted'[i]
      /\ \A k \in 1..Len(pending) : k # i => contacted'[k] = contacted[k]
  BY <1>1 DEF Contact
<1>5. OnlyCopiesRepeat'
  BY DEF OnlyCopiesRepeat
<1>6. AskedInOrder'
  <2>1. Len(asked') <= Len(pending')
    BY <1>1, <1>2, <1>3
  <2>2. ASSUME NEW k \in DOMAIN pending'
        PROVE  contacted'[k] <=> k <= Len(asked')
    <3>1. k \in 1..Len(pending) /\ (contacted[k] <=> k <= n)
      BY <1>1, <2>2 DEF AskedInOrder
    <3>2. CASE k = i
      BY <1>1, <1>2, <1>3, <1>4, <3>2
    <3>3. CASE k # i
      <4>1. k <= n <=> k <= n + 1
        BY <1>1, <1>2, <3>1, <3>3
      <4> HIDE DEF n
      <4> QED
        BY <1>3, <1>4, <3>1, <3>3, <4>1
    <3> QED
      BY <3>2, <3>3
  <2>3. \A k \in DOMAIN asked' : asked'[k] = pending'[k]
    BY <1>1, <1>2, <1>3 DEF AskedInOrder
  <2> QED
    BY <2>1, <2>2, <2>3 DEF AskedInOrder
<1> QED
  BY <1>5, <1>6

LEMMA OrderStep ==
    /\ TypesInv /\ LookupInv /\ AskedInOrder /\ OnlyCopiesRepeat
    /\ [LookupNext]_vars
    => AskedInOrder' /\ OnlyCopiesRepeat'
<1> DEFINE Ordered == AskedInOrder /\ OnlyCopiesRepeat
<1> SUFFICES ASSUME TypesInv, LookupInv, AskedInOrder, OnlyCopiesRepeat,
                    [LookupNext]_vars
             PROVE  Ordered'
  OBVIOUS
<1>0. /\ pc = "idle" => pending = <<>>
      /\ pc # "idle" => target_key \in Keys
      /\ K_VALUE \in Nat
  BY BucketsAssumption DEF LookupInv, PassesComplete, TypesInv
<1>a. ASSUME UNCHANGED <<pending, contacted, asked>>,
             pc' = "copy" => pc \in {"idle", "copy"}
      PROVE  Ordered'
  <2>1. Len(<<>>) = 0
    OBVIOUS
  <2> QED
    BY <1>a, <1>0, <2>1 DEF AskedInOrder, OnlyCopiesRepeat
<1>1. ASSUME NEW p, HandleBroadcast(p) PROVE Ordered'
  BY <1>1, <1>a DEF HandleBroadcast, lookupVars
<1>2. ASSUME NEW k, NEW fv, StartLookup(k, fv) PROVE Ordered'
  BY <1>2, <1>a DEF StartLookup
<1>3. CASE CopyInitial
  <2> DEFINE initial == find_closest_peers(buckets, target_key, K_VALUE)
             n == Len(pending) + 1
  <2>1. CASE n <= Len(initial)
    <3>1. /\ pc = "copy" /\ pc' = pc /\ asked' = asked
          /\ pending' = Append(pending, initial[n])
          /\ contacted' = Append(contacted, FALSE)
      BY <1>3, <2>1 DEF CopyInitial
    <3>2. /\ initial \in Seq(Peers) /\ Len(initial) <= K_VALUE
          /\ Len(pending) \in Nat
      BY <1>0, <3>1, InitialFacts DEF LookupInv, VectorsInStep
    <3>3. Len(pending) + 1 <= K_VALUE
      <4> HIDE DEF initial
      <4> QED
        BY <1>0, <2>1, <3>2
    <3> HIDE DEF initial, n
    <3> QED
      BY <3>1, <3>3, PushKeepsOrder
  <2>2. CASE ~(n <= Len(initial))
    BY <1>3, <1>a, <2>2 DEF CopyInitial
  <2> QED
    BY <2>1, <2>2
<1>4. CASE NoAnswer
  BY <1>4, ContactKeepsOrder DEF NoAnswer, Contact
<1>5. ASSUME NEW ids, NeighboursAnswer(ids) PROVE Ordered'
  BY <1>5, ContactKeepsOrder DEF NeighboursAnswer
<1>6. ASSUME NEW owners, ValueAnswer(owners) PROVE Ordered'
  BY <1>6, ContactKeepsOrder DEF ValueAnswer
<1>7. CASE LearnNeighbour
  <2>1. CASE Contains(pending, Head(answer))
    BY <1>7, <1>a, <2>1 DEF LearnNeighbour
  <2>2. CASE ~Contains(pending, Head(answer))
    <3>1. PICK p : p = Head(answer)
      OBVIOUS
    <3>2. /\ pc = "learn" /\ pc' = pc /\ asked' = asked
          /\ pending' = Append(pending, p)
          /\ contacted' = Append(contacted, FALSE)
      BY <1>7, <2>2, <3>1 DEF LearnNeighbour
    <3>3. \A k \in DOMAIN pending : pending[k] # p
      BY <2>2, <3>1 DEF Contains
    <3> QED
      BY <3>2, <3>3, PushKeepsOrder
  <2> QED
    BY <2>1, <2>2
<1>8. CASE SkipContacted \/ AnswerRead \/ EndOfPass \/ SortAndReturn
  BY <1>8, <1>a DEF SkipContacted, AnswerRead, EndOfPass, SortAndReturn
<1>9. CASE Leave
  <2>1. Len(<<>>) = 0 /\ DOMAIN <<>> = {}
    OBVIOUS
  <2> QED
    BY <1>9, <2>1 DEF Leave, AskedInOrder, OnlyCopiesRepeat
<1>10. CASE UNCHANGED vars
  BY <1>10, <1>a DEF vars, lookupVars
<1> QED
  BY <1>1, <1>2, <1>3, <1>4, <1>5, <1>6, <1>7, <1>8, <1>9, <1>10
     DEF LookupNext, LookupStep

(* A peer is asked a second time only as one of the first K_VALUE, the     *)
(* copies of the own table's entries: nothing an answer says brings it     *)
(* about.                                                                  *)
THEOREM AnswersRepeatNobody == LookupSpec => []OnlyTheTableRepeats
<1>1. LookupInit => AskedInOrder /\ OnlyCopiesRepeat
  <2>1. Len(<<>>) = 0 /\ DOMAIN <<>> = {}
    OBVIOUS
  <2> QED
    BY <2>1 DEF LookupInit, AskedInOrder, OnlyCopiesRepeat
<1>2. LookupInv /\ AskedInOrder /\ OnlyCopiesRepeat => OnlyTheTableRepeats
  <2> SUFFICES ASSUME LookupInv, AskedInOrder, OnlyCopiesRepeat,
                      NEW m \in DOMAIN asked, NEW n \in DOMAIN asked,
                      m < n, asked[m] = asked[n]
               PROVE  n <= K_VALUE
    BY DEF OnlyTheTableRepeats
  <2>1. /\ DOMAIN asked = 1..Len(asked) /\ DOMAIN pending = 1..Len(pending)
        /\ Len(asked) \in Nat /\ Len(pending) \in Nat
    BY DEF LookupInv, VectorsInStep, AskedAreContacted
  <2>2. m \in DOMAIN pending /\ n \in DOMAIN pending
    BY <2>1 DEF AskedInOrder
  <2> QED
    BY <2>2 DEF AskedInOrder, OnlyCopiesRepeat
<1> QED
  BY <1>1, <1>2, OrderStep, TypesInvInit, TypesStep, LookupInvInit,
     LookupInvStep, PTL DEF LookupSpec
-----------------------------------------------------------------------------
(* The first max of a vector's peers in their order, and what they are:    *)
(* as many as possible, sorted, and closer than those that remain.         *)
FrontOf(s, max) ==
    SubSeq(SortByDistance(s), 1, IF Len(SortByDistance(s)) < max
                                 THEN Len(SortByDistance(s)) ELSE max)

IsFront(out, s, max) ==
    /\ Len(out) = IF Len(s) < max THEN Len(s) ELSE max
    /\ \A m, n \in DOMAIN out : m < n => ~Closer(out[n], out[m], target_key)
    /\ \A p \in ToSet(out), k \in DOMAIN s :
           s[k] \notin ToSet(out) => Closer(p, s[k], target_key)

LEMMA FrontFacts ==
    ASSUME target_key \in HashID, NEW s \in Seq(Peers), NEW max \in Nat
    PROVE  IsFront(FrontOf(s, max), s, max)
<1>0. PICK out : out = FrontOf(s, max)
  OBVIOUS
<1>1. PICK r : r = SortByDistance(s)
  OBVIOUS
<1>2. /\ r \in Seq(Peers) /\ Len(r) = Len(s) /\ Len(r) \in Nat
      /\ \A k \in DOMAIN s : \E n \in DOMAIN r : r[n] = s[k]
      /\ \A m, n \in DOMAIN r :
             m < n => Closer(r[m], r[n], target_key) \/ r[m] = r[n]
  BY <1>1, SortFacts
<1>3. PICK last \in 0..Len(r) : last = IF Len(r) < max THEN Len(r) ELSE max
  BY <1>2
<1>4. out = SubSeq(r, 1, last)
  BY <1>0, <1>1, <1>3 DEF FrontOf
<1>5. /\ Len(out) = last /\ DOMAIN out = 1..last
      /\ \A k \in 1..last : out[k] = r[k]
      /\ DOMAIN r = 1..Len(r) /\ \A k \in 1..Len(r) : r[k] \in HashID
  BY <1>2, <1>4, BucketsAssumption
<1>6. ASSUME NEW m \in DOMAIN out, NEW n \in DOMAIN out, m < n
      PROVE  ~Closer(out[n], out[m], target_key)
  <2>1. /\ m \in DOMAIN r /\ n \in DOMAIN r
        /\ out[m] = r[m] /\ out[n] = r[n]
        /\ r[m] \in HashID /\ r[n] \in HashID
    <3>1. m \in 1..last /\ n \in 1..last
      BY <1>5
    <3>2. m \in 1..Len(r) /\ n \in 1..Len(r)
      BY <1>2, <3>1
    <3> QED
      BY <1>5, <3>1, <3>2
  <2>2. Closer(r[m], r[n], target_key) \/ r[m] = r[n]
    BY <1>2, <1>6, <2>1
  <2>3. ~Closer(r[m], r[m], target_key)
    BY <2>1, CloserIrreflexive
  <2>4. Closer(r[m], r[n], target_key) => ~Closer(r[n], r[m], target_key)
    BY <2>1, CloserIsAnOrder
  <2> QED
    BY <2>1, <2>2, <2>3, <2>4
<1>7. ASSUME NEW p \in ToSet(out), NEW k \in DOMAIN s, s[k] \notin ToSet(out)
      PROVE  Closer(p, s[k], target_key)
  <2>1. PICK m \in 1..last : p = r[m]
    BY <1>5 DEF ToSet
  <2>2. PICK n \in DOMAIN r : r[n] = s[k]
    BY <1>2
  <2>3. n \notin 1..last
    BY <1>5, <1>7, <2>2 DEF ToSet
  <2>4. m \in DOMAIN r /\ m < n
    <3>1. last \in Nat /\ Len(r) \in Nat /\ last <= Len(r)
      BY <1>2
    <3>2. m \in 1..Len(r) /\ n \in 1..Len(r)
      BY <1>5, <2>1, <3>1
    <3>3. m <= last /\ last < n
      BY <2>1, <2>3, <3>1, <3>2
    <3> QED
      BY <1>5, <3>1, <3>2, <3>3
  <2>5. p # s[k]
    BY <1>7
  <2> QED
    BY <1>2, <2>1, <2>2, <2>4, <2>5
<1>8. Len(out) = IF Len(s) < max THEN Len(s) ELSE max
  BY <1>2, <1>3, <1>5
<1> QED
  BY <1>0, <1>6, <1>7, <1>8 DEF IsFront

LEMMA ReturnStep ==
    /\ TypesInv /\ LookupInv /\ ReturnsTheClosestHeard /\ [LookupNext]_vars
    => ReturnsTheClosestHeard'
<1> SUFFICES ASSUME TypesInv, LookupInv, ReturnsTheClosestHeard,
                    [LookupNext]_vars
             PROVE  ReturnsTheClosestHeard'
  OBVIOUS
<1>1. CASE SortAndReturn
  <2> SUFFICES ASSUME ~find_value PROVE ReturnsTheClosestHeard'
    BY <1>1 DEF SortAndReturn, ReturnsTheClosestHeard
  <2>1. PICK out : out = out_peers'
    OBVIOUS
  <2>2. /\ target_key \in HashID /\ pending \in Seq(Peers)
        /\ max_peers \in Nat
        /\ \A q \in heard : \E k \in DOMAIN pending : pending[k] = q
    BY TypesSuffice, BucketsAssumption
       DEF LookupTypeOK, max_peers, LookupInv, VectorsInStep
  <2>3. IsFront(out, pending, max_peers)
    <3>1. PICK s, max : s = pending /\ max = max_peers
      OBVIOUS
    <3>2. IsFront(FrontOf(s, max), s, max)
      BY <2>2, <3>1, FrontFacts
    <3>3. out = FrontOf(s, max)
      BY <1>1, <2>1, <3>1 DEF SortAndReturn, FrontOf
    <3> QED
      BY <3>1, <3>2, <3>3
  <2>4. /\ Len(out) = IF Len(pending) < max_peers
                      THEN Len(pending) ELSE max_peers
        /\ \A m, n \in DOMAIN out :
               m < n => ~Closer(out[n], out[m], target_key)
    BY <2>3 DEF IsFront
  <2>5. \A p \in ToSet(out), q \in heard \ ToSet(out) :
            Closer(p, q, target_key)
    BY <2>2, <2>3 DEF IsFront
  <2>6. /\ pending' = pending /\ heard' = heard /\ target_key' = target_key
    BY <1>1 DEF SortAndReturn
  <2>7. max_peers' = max_peers
    BY DEF max_peers
  <2> HIDE DEF max_peers
  <2> QED
    BY <2>1, <2>4, <2>5, <2>6, <2>7 DEF ReturnsTheClosestHeard
<1>2. CASE pc' # "returned" \/ find_value'
  BY <1>2 DEF ReturnsTheClosestHeard
<1>3. CASE UNCHANGED vars
  BY <1>3 DEF vars, lookupVars, ReturnsTheClosestHeard, max_peers
<1>4. ASSUME NEW p, HandleBroadcast(p) PROVE pc' # "returned"
  BY <1>4 DEF HandleBroadcast, lookupVars
<1>5. ASSUME NEW owners, ValueAnswer(owners) PROVE find_value'
  BY <1>5 DEF ValueAnswer
<1> QED
  BY <1>1, <1>2, <1>3, <1>4, <1>5
     DEF LookupNext, LookupStep, StartLookup, CopyInitial, SkipContacted,
         NoAnswer, NeighboursAnswer, LearnNeighbour, AnswerRead, EndOfPass,
         Leave, Contact

(* FIND_NODE returns as many peers as asked for, or all, and of everything *)
(* it came across nobody closer than those: whatever the order of the      *)
(* answers, their overlaps and the silent peers.                           *)
THEOREM TheClosestAreReturned == LookupSpec => []ReturnsTheClosestHeard
<1>1. LookupInit => ReturnsTheClosestHeard
  BY DEF LookupInit, ReturnsTheClosestHeard
<1> QED
  BY <1>1, ReturnStep, TypesInvInit, TypesStep, LookupInvInit,
     LookupInvStep, PTL DEF LookupSpec
=============================================================================
