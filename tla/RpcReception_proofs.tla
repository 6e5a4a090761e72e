------------------------- MODULE RpcReception_proofs ------------------------
(***************************************************************************)
(* What is executed of the packets of a connection, for any streams, any   *)
(* number of connections with one buffer, and however the network cuts     *)
(* them into pieces.  The first part is about the layout of a stream: its  *)
(* units in their order, which ranks them by how many come before.         *)
(***************************************************************************)
EXTENDS RpcReception, FiniteSetTheorems, TLAPS

(* A stream is cut into units without a gap: where unit k of packet m is.  *)
Rank(s, m, k) == Cardinality(UpTo(s, <<m, k>>))

LEMMA StreamType ==
    ASSUME NEW s \in Streams
    PROVE  /\ s \in Seq(Packets) /\ Len(s) \in Nat /\ DOMAIN s = 1..Len(s)
           /\ \A m \in DOMAIN s :
                  /\ s[m] \in Packets /\ s[m].packet_size \in Nat
                  /\ Length(s[m]) \in Nat /\ Length(s[m]) >= HEADER
<1>1. s \in Seq(Packets)
  BY ReceptionAssumption
<1>2. \A p \in Packets : /\ p.packet_size \in Nat
                         /\ Length(p) \in Nat /\ Length(p) >= HEADER
  BY DEF Packets, Length, HEADER
<1> QED
  BY <1>1, <1>2

LEMMA UnitFacts ==
    ASSUME NEW s \in Streams
    PROVE  /\ IsFiniteSet(Units(s))
           /\ \A m, k : <<m, k>> \in Units(s) <=>
                  m \in DOMAIN s /\ k \in 1..Length(s[m])
           /\ \A u \in Units(s) : \E m \in DOMAIN s :
                  \E k \in 1..Length(s[m]) : u = <<m, k>>
<1> DEFINE Of(m) == {m} \X (1..Length(s[m]))
<1>1. IsFiniteSet({Of(m) : m \in DOMAIN s})
  <2>1. PICK f : f = [m \in DOMAIN s |-> Of(m)]
    OBVIOUS
  <2>2. f \in Surjection(DOMAIN s, {Of(m) : m \in DOMAIN s})
    <3> HIDE DEF Of
    <3> QED
      BY <2>1 DEF Surjection
  <2>3. IsFiniteSet(DOMAIN s)
    BY StreamType, FS_Interval
  <2> HIDE DEF Of
  <2> QED
    BY <2>2, <2>3, FS_Surjection
<1>2. \A m \in DOMAIN s : IsFiniteSet(Of(m))
  <2> SUFFICES ASSUME NEW m \in DOMAIN s PROVE IsFiniteSet(Of(m))
    OBVIOUS
  <2>1. PICK n \in Nat : n = Length(s[m])
    BY StreamType
  <2>2. IsFiniteSet({m}) /\ IsFiniteSet(1..n)
    <3>1. 1 \in Int /\ n \in Int
      OBVIOUS
    <3> QED
      BY <3>1, FS_Singleton, FS_Interval
  <2> QED
    BY <2>1, <2>2, FS_Product
<1>3. IsFiniteSet(Units(s))
  <2> HIDE DEF Of
  <2>1. \A T \in {Of(m) : m \in DOMAIN s} : IsFiniteSet(T)
    BY <1>2
  <2>2. IsFiniteSet(UNION {Of(m) : m \in DOMAIN s})
    BY <1>1, <2>1, FS_UNION
  <2> QED
    BY <2>2 DEF Units, Of
<1> QED
  BY <1>3 DEF Units

(* What is up to a unit.                                                   *)
LEMMA UpToFacts ==
    ASSUME NEW s \in Streams,
           NEW m \in DOMAIN s, NEW k \in 1..Length(s[m])
    PROVE  /\ UpTo(s, <<m, k>>) \in SUBSET Units(s)
           /\ IsFiniteSet(UpTo(s, <<m, k>>))
           /\ Rank(s, m, k) \in 1..Cardinality(Units(s))
           /\ Cardinality(Units(s)) \in Nat
           /\ \A n, j : <<n, j>> \in UpTo(s, <<m, k>>) <=>
                  /\ n \in DOMAIN s /\ j \in 1..Length(s[n])
                  /\ n < m \/ (n = m /\ j <= k)
<1>1. UpTo(s, <<m, k>>) \in SUBSET Units(s)
  BY DEF UpTo
<1>2. \A n, j : <<n, j>> \in UpTo(s, <<m, k>>) <=>
          /\ n \in DOMAIN s /\ j \in 1..Length(s[n])
          /\ n < m \/ (n = m /\ j <= k)
  BY UnitFacts DEF UpTo
<1>3. <<m, k>> \in UpTo(s, <<m, k>>)
  <2>1. Length(s[m]) \in Nat
    BY StreamType
  <2>2. k <= k
    BY <2>1
  <2> QED
    BY <1>2, <2>2
<1>4. /\ IsFiniteSet(UpTo(s, <<m, k>>))
      /\ Cardinality(UpTo(s, <<m, k>>)) <= Cardinality(Units(s))
  BY <1>1, UnitFacts, FS_Subset
<1>5. /\ Cardinality(UpTo(s, <<m, k>>)) \in Nat /\ Cardinality(Units(s)) \in Nat
      /\ Cardinality(UpTo(s, <<m, k>>)) # 0
  BY <1>3, <1>4, UnitFacts, FS_CardinalityType, FS_EmptySet
<1> QED
  BY <1>1, <1>2, <1>4, <1>5 DEF Rank

LEMMA RanksFollow ==
    ASSUME NEW s \in Streams, NEW m \in DOMAIN s
    PROVE  /\ \A k \in 1..Length(s[m]) :
                  Rank(s, m, k) = Rank(s, m, 1) + (k - 1)
           /\ m + 1 \in DOMAIN s =>
                  Rank(s, m + 1, 1) = Rank(s, m, 1) + Length(s[m])
           /\ m = Len(s) => Cardinality(Units(s)) + 1 =
                                Rank(s, m, 1) + Length(s[m])
           /\ m = 1 => Rank(s, m, 1) = 1
<1>1. PICK size \in Nat : size = Length(s[m]) /\ size >= 2
  BY StreamType DEF HEADER
<1>2. m \in Nat /\ Len(s) \in Nat /\ DOMAIN s = 1..Len(s)
  BY StreamType
<1>3. 1 \in 1..size /\ size \in 1..size
  BY <1>1
<1>4. ASSUME NEW k \in 1..size
      PROVE  Rank(s, m, k) = Rank(s, m, 1) + (k - 1)
  <2>1. UpTo(s, <<m, k>>) = UpTo(s, <<m, 1>>) \cup ({m} \X (2..k))
    <3>1. ASSUME NEW u \in UpTo(s, <<m, k>>)
          PROVE  u \in UpTo(s, <<m, 1>>) \cup ({m} \X (2..k))
      <4>1. PICK n, j : /\ n \in DOMAIN s /\ j \in 1..Length(s[n])
                   /\ u = <<n, j>>
        BY UnitFacts DEF UpTo
      <4>2. n < m \/ (n = m /\ j <= k)
        BY <1>1, <4>1, UpToFacts
      <4>3. Length(s[n]) \in Nat
        BY <4>1, StreamType
      <4>4. n < m \/ (n = m /\ j <= 1) \/ (n = m /\ j \in 2..k)
        BY <1>1, <4>1, <4>2, <4>3
      <4> QED
        BY <1>1, <1>3, <4>1, <4>4, UpToFacts
    <3>2. ASSUME NEW u \in {m} \X (2..k) PROVE u \in UpTo(s, <<m, k>>)
      <4>1. PICK j \in 2..k : u = <<m, j>>
        OBVIOUS
      <4>2. j \in 1..size /\ j <= k
        BY <1>1
      <4> QED
        BY <1>1, <4>1, <4>2, UpToFacts
    <3>3. ASSUME NEW u \in UpTo(s, <<m, 1>>) PROVE u \in UpTo(s, <<m, k>>)
      <4>1. PICK n, j : /\ n \in DOMAIN s /\ j \in 1..Length(s[n])
                   /\ u = <<n, j>>
        BY UnitFacts DEF UpTo
      <4>2. n < m \/ (n = m /\ j <= 1)
        BY <1>1, <1>3, <4>1, UpToFacts
      <4>3. Length(s[n]) \in Nat
        BY <4>1, StreamType
      <4>4. n < m \/ (n = m /\ j <= k)
        BY <1>1, <4>1, <4>2, <4>3
      <4> QED
        BY <1>1, <4>1, <4>4, UpToFacts
    <3> QED
      BY <3>1, <3>2, <3>3
  <2>2. UpTo(s, <<m, 1>>) \cap ({m} \X (2..k)) = {}
    <3> SUFFICES ASSUME NEW j \in 2..k, <<m, j>> \in UpTo(s, <<m, 1>>)
                 PROVE  FALSE
      OBVIOUS
    <3>1. m < m \/ j <= 1
      BY <1>1, <1>3, UpToFacts
    <3> QED
      BY <1>1, <1>2, <3>1
  <2>3. /\ IsFiniteSet({m} \X (2..k)) /\ Cardinality({m} \X (2..k)) = k - 1
    <3>1. IsFiniteSet(2..k) /\ Cardinality(2..k) = k - 1
      <4>1. 2 \in Int /\ k \in Int /\ k >= 1
        BY <1>1
      <4> QED
        BY <4>1, FS_Interval
    <3>2. IsFiniteSet({m}) /\ Cardinality({m}) = 1
      BY FS_Singleton
    <3>3. /\ IsFiniteSet({m} \X (2..k))
          /\ Cardinality({m} \X (2..k)) = 1 * (k - 1)
      BY <3>1, <3>2, FS_Product
    <3> QED
      BY <1>1, <3>3
  <2>4. IsFiniteSet(UpTo(s, <<m, 1>>)) /\ Rank(s, m, 1) \in Nat
    BY <1>1, <1>3, UpToFacts
  <2>5. Cardinality(UpTo(s, <<m, k>>)) =
            Cardinality(UpTo(s, <<m, 1>>)) + Cardinality({m} \X (2..k))
               - Cardinality(UpTo(s, <<m, 1>>) \cap ({m} \X (2..k)))
    BY <2>1, <2>3, <2>4, FS_Union
  <2> QED
    BY <1>1, <2>2, <2>3, <2>4, <2>5, FS_EmptySet DEF Rank
<1>5. Rank(s, m, 1) \in Nat /\ Rank(s, m, size) = Rank(s, m, 1) + (size - 1)
  <2>1. Rank(s, m, 1) \in 1..Cardinality(Units(s))
    BY <1>1, <1>3, UpToFacts
  <2> QED
    BY <1>3, <1>4, <2>1
<1>6. ASSUME m + 1 \in DOMAIN s
      PROVE  Rank(s, m + 1, 1) = Rank(s, m, 1) + size
  <2>1. PICK next \in DOMAIN s : next = m + 1
    BY <1>6
  <2>2. 1 \in 1..Length(s[next])
    BY StreamType DEF HEADER
  <2>3. UpTo(s, <<next, 1>>) = UpTo(s, <<m, size>>) \cup {<<next, 1>>}
    <3>1. ASSUME NEW n \in DOMAIN s, NEW j \in 1..Length(s[n])
          PROVE  n < next \/ (n = next /\ j <= 1) <=>
                     \/ n < m \/ (n = m /\ j <= size)
                     \/ n = next /\ j = 1
      <4>1. Length(s[n]) \in Nat /\ n \in Nat
        BY StreamType
      <4> QED
        BY <1>1, <1>2, <2>1, <4>1
    <3>2. \A u \in Units(s) :
              u \in UpTo(s, <<next, 1>>) <=>
                  u \in UpTo(s, <<m, size>>) \cup {<<next, 1>>}
      <4> SUFFICES ASSUME NEW u \in Units(s)
                   PROVE  u \in UpTo(s, <<next, 1>>) <=>
                              u \in UpTo(s, <<m, size>>) \cup {<<next, 1>>}
        OBVIOUS
      <4>1. PICK n, j : /\ n \in DOMAIN s /\ j \in 1..Length(s[n])
                   /\ u = <<n, j>>
        BY UnitFacts
      <4>2. u \in UpTo(s, <<next, 1>>) <=> n < next \/ (n = next /\ j <= 1)
        BY <2>2, <4>1, UpToFacts
      <4>3. u \in UpTo(s, <<m, size>>) <=> n < m \/ (n = m /\ j <= size)
        BY <1>1, <1>3, <4>1, UpToFacts
      <4> QED
        BY <3>1, <4>1, <4>2, <4>3
    <3>3. <<next, 1>> \in Units(s)
      BY <2>2, UnitFacts
    <3>4. UpTo(s, <<next, 1>>) \subseteq Units(s)
          /\ UpTo(s, <<m, size>>) \subseteq Units(s)
      BY DEF UpTo
    <3> QED
      BY <3>2, <3>3, <3>4
  <2>4. <<next, 1>> \notin UpTo(s, <<m, size>>)
    <3>1. ~(next < m) /\ next # m
      BY <1>2, <2>1
    <3> QED
      BY <1>1, <1>3, <3>1, UpToFacts
  <2>5. IsFiniteSet(UpTo(s, <<m, size>>))
    BY <1>1, <1>3, UpToFacts
  <2>6. Cardinality(UpTo(s, <<next, 1>>)) =
            Cardinality(UpTo(s, <<m, size>>)) + 1
    BY <2>3, <2>4, <2>5, FS_AddElement
  <2> QED
    BY <1>5, <2>1, <2>6 DEF Rank
<1>7. ASSUME m = Len(s)
      PROVE  Cardinality(Units(s)) + 1 = Rank(s, m, 1) + size
  <2>1. ASSUME NEW u \in Units(s) PROVE u \in UpTo(s, <<m, size>>)
    <3>1. PICK n, j : /\ n \in DOMAIN s /\ j \in 1..Length(s[n])
                   /\ u = <<n, j>>
      BY UnitFacts
    <3>2. Length(s[n]) \in Nat
      BY <3>1, StreamType
    <3>3. n < m \/ (n = m /\ j <= size)
      BY <1>1, <1>2, <1>7, <3>1, <3>2
    <3> QED
      BY <1>1, <1>3, <3>1, <3>3, UpToFacts
  <2>2. UpTo(s, <<m, size>>) = Units(s)
    BY <2>1 DEF UpTo
  <2> QED
    BY <1>1, <1>5, <2>2 DEF Rank
<1>8. ASSUME m = 1 PROVE Rank(s, m, 1) = 1
  <2>1. ASSUME NEW u \in UpTo(s, <<m, 1>>) PROVE u = <<m, 1>>
    <3>1. PICK n, j : /\ n \in DOMAIN s /\ j \in 1..Length(s[n])
                   /\ u = <<n, j>>
      BY UnitFacts DEF UpTo
    <3>2. n < m \/ (n = m /\ j <= 1)
      BY <1>1, <1>3, <3>1, UpToFacts
    <3>3. Length(s[n]) \in Nat /\ n \in Nat /\ n >= 1
      BY <1>2, <3>1, StreamType
    <3> QED
      BY <1>8, <3>1, <3>2, <3>3
  <2>2. <<m, 1>> \in UpTo(s, <<m, 1>>)
    BY <1>1, <1>3, UpToFacts
  <2>3. UpTo(s, <<m, 1>>) = {<<m, 1>>}
    BY <2>1, <2>2
  <2> QED
    BY <2>3, FS_Singleton DEF Rank
<1> QED
  BY <1>1, <1>4, <1>6, <1>7, <1>8

(* What is up to a unit is not all that is up to a later one.              *)
LEMMA UpToGrows ==
    ASSUME NEW s \in Streams, NEW x \in Units(s), NEW y \in Units(s),
           x[1] < y[1] \/ (x[1] = y[1] /\ x[2] < y[2])
    PROVE  /\ Cardinality(UpTo(s, x)) \in Nat
           /\ Cardinality(UpTo(s, y)) \in Nat
           /\ Cardinality(UpTo(s, x)) < Cardinality(UpTo(s, y))
<1>1. PICK m, k : /\ m \in DOMAIN s /\ k \in 1..Length(s[m])
                  /\ x = <<m, k>>
  BY UnitFacts
<1>2. PICK n, j : /\ n \in DOMAIN s /\ j \in 1..Length(s[n])
                  /\ y = <<n, j>>
  BY UnitFacts
<1>3. m \in Nat /\ n \in Nat /\ k \in Nat /\ j \in Nat
  BY <1>1, <1>2, StreamType
<1>4. m < n \/ (m = n /\ k < j)
  BY <1>1, <1>2
<1>5. UpTo(s, x) \in SUBSET UpTo(s, y)
  <2>1. ASSUME NEW w \in UpTo(s, x) PROVE w \in UpTo(s, y)
    <3>1. PICK o, i : /\ o \in DOMAIN s /\ i \in 1..Length(s[o])
                      /\ w = <<o, i>>
      BY UnitFacts DEF UpTo
    <3>2. o < m \/ (o = m /\ i <= k)
      BY <1>1, <3>1, UpToFacts
    <3>3. o \in Nat /\ i \in Nat
      BY <3>1, StreamType
    <3>4. o < n \/ (o = n /\ i <= j)
      BY <1>3, <1>4, <3>2, <3>3
    <3> QED
      BY <1>2, <3>1, <3>4, UpToFacts
  <2> QED
    BY <2>1
<1>6. y \notin UpTo(s, x)
  <2>1. ~(n < m \/ (n = m /\ j <= k))
    BY <1>3, <1>4
  <2> QED
    BY <1>1, <1>2, <2>1, UpToFacts
<1>7. y \in UpTo(s, y)
  <2>1. j <= j
    BY <1>3
  <2> QED
    BY <1>2, <2>1, UpToFacts
<1>8. IsFiniteSet(UpTo(s, y))
  BY <1>2, UpToFacts
<1>9. /\ IsFiniteSet(UpTo(s, x))
      /\ Cardinality(UpTo(s, x)) <= Cardinality(UpTo(s, y))
      /\ Cardinality(UpTo(s, x)) = Cardinality(UpTo(s, y)) =>
             UpTo(s, x) = UpTo(s, y)
  BY <1>5, <1>8, FS_Subset
<1>10. /\ Cardinality(UpTo(s, x)) \in Nat
       /\ Cardinality(UpTo(s, y)) \in Nat
  BY <1>8, <1>9, FS_CardinalityType
<1>11. Cardinality(UpTo(s, x)) # Cardinality(UpTo(s, y))
  BY <1>6, <1>7, <1>9
<1> QED
  BY <1>9, <1>10, <1>11

LEMMA RanksDiffer ==
    ASSUME NEW s \in Streams,
           NEW u \in Units(s), NEW v \in Units(s),
           Cardinality(UpTo(s, u)) = Cardinality(UpTo(s, v))
    PROVE  u = v
<1>1. ASSUME NEW x \in Units(s), NEW y \in Units(s),
             x[1] < y[1] \/ (x[1] = y[1] /\ x[2] < y[2]),
             Cardinality(UpTo(s, x)) = Cardinality(UpTo(s, y))
      PROVE  FALSE
  BY <1>1, UpToGrows
<1>2. PICK m, k : m \in DOMAIN s /\ k \in 1..Length(s[m]) /\ u = <<m, k>>
  BY UnitFacts
<1>3. PICK n, j : n \in DOMAIN s /\ j \in 1..Length(s[n]) /\ v = <<n, j>>
  BY UnitFacts
<1>4. m \in Nat /\ n \in Nat /\ k \in Nat /\ j \in Nat
  BY <1>2, <1>3, StreamType
<1>5. \/ m = n /\ k = j
      \/ m < n \/ (m = n /\ k < j)
      \/ n < m \/ (n = m /\ j < k)
  BY <1>4
<1>6. ~(m < n \/ (m = n /\ k < j))
  BY <1>1, <1>2, <1>3
<1>7. ~(n < m \/ (n = m /\ j < k))
  BY <1>1, <1>2, <1>3
<1> QED
  BY <1>2, <1>3, <1>5, <1>6, <1>7

(* So the layout of a stream is its units in their order.                  *)
LEMMA LayoutFacts ==
    ASSUME NEW s \in Streams
    PROVE  /\ Len(Layout[s]) \in Nat /\ Len(Layout[s]) = Cardinality(Units(s))
           /\ \A m, k : m \in DOMAIN s /\ k \in 1..Length(s[m]) =>
                  /\ Rank(s, m, k) \in 1..Len(Layout[s])
                  /\ Layout[s][Rank(s, m, k)] = <<m, k>>
           /\ \A p \in 1..Len(Layout[s]) : \E m, k :
                  /\ m \in DOMAIN s /\ k \in 1..Length(s[m])
                  /\ p = Rank(s, m, k) /\ Layout[s][p] = <<m, k>>
<1>1. PICK N \in Nat : N = Cardinality(Units(s))
  BY UnitFacts, FS_CardinalityType
<1>2. Layout[s] = [p \in 1..N |->
                       CHOOSE u \in Units(s) : Cardinality(UpTo(s, u)) = p]
  BY <1>1 DEF Layout
<1>3. Len(Layout[s]) = N /\ DOMAIN Layout[s] = 1..N
  BY <1>2
<1>4. \A u \in Units(s) : Cardinality(UpTo(s, u)) \in 1..N
  <2> SUFFICES ASSUME NEW u \in Units(s)
               PROVE  Cardinality(UpTo(s, u)) \in 1..N
    OBVIOUS
  <2>1. PICK m, k : /\ m \in DOMAIN s /\ k \in 1..Length(s[m])
                    /\ u = <<m, k>>
    BY UnitFacts
  <2> QED
    BY <1>1, <2>1, UpToFacts DEF Rank
<1>5. ASSUME NEW p \in 1..N
      PROVE  \E u \in Units(s) : Cardinality(UpTo(s, u)) = p
  <2>1. PICK f : f = [u \in Units(s) |-> Cardinality(UpTo(s, u))]
    OBVIOUS
  <2>2. f \in [Units(s) -> 1..N]
    BY <1>4, <2>1
  <2>3. \A u, v \in Units(s) : f[u] = f[v] => u = v
    BY <2>1, RanksDiffer
  <2>4. f \in Injection(Units(s), 1..N)
    BY <2>2, <2>3 DEF Injection, IsInjective
  <2>5. IsFiniteSet(1..N) /\ Cardinality(1..N) = N
    <3>1. 1 \in Int /\ N \in Int
      OBVIOUS
    <3>2. /\ IsFiniteSet(1..N)
          /\ Cardinality(1..N) = IF 1 > N THEN 0 ELSE N - 1 + 1
      BY <3>1, FS_Interval
    <3> QED
      BY <3>2
  <2>6. f \in Surjection(Units(s), 1..N)
    BY <1>1, <2>4, <2>5, FS_Injection
  <2>7. \E u \in Units(s) : f[u] = p
    BY <1>5, <2>6 DEF Surjection
  <2> QED
    BY <2>1, <2>7
<1>6. \A p \in 1..N : /\ Layout[s][p] \in Units(s)
                      /\ Cardinality(UpTo(s, Layout[s][p])) = p
  BY <1>2, <1>5
<1>7. ASSUME NEW m, NEW k, m \in DOMAIN s, k \in 1..Length(s[m])
      PROVE  /\ Rank(s, m, k) \in 1..N
             /\ Layout[s][Rank(s, m, k)] = <<m, k>>
  <2>1. <<m, k>> \in Units(s)
    BY <1>7, UnitFacts
  <2>2. Rank(s, m, k) \in 1..N
    BY <1>4, <2>1 DEF Rank
  <2>3. PICK u \in Units(s) : /\ u = Layout[s][Rank(s, m, k)]
                              /\ Cardinality(UpTo(s, u)) = Rank(s, m, k)
    BY <1>6, <2>2
  <2>4. u = <<m, k>>
    BY <2>1, <2>3, RanksDiffer DEF Rank
  <2> QED
    BY <2>2, <2>3, <2>4
<1>8. ASSUME NEW p \in 1..N
      PROVE  \E m, k : /\ m \in DOMAIN s /\ k \in 1..Length(s[m])
                       /\ p = Rank(s, m, k) /\ Layout[s][p] = <<m, k>>
  <2>1. PICK u \in Units(s) : u = Layout[s][p] /\ Cardinality(UpTo(s, u)) = p
    BY <1>6
  <2>2. PICK m, k : /\ m \in DOMAIN s /\ k \in 1..Length(s[m])
                    /\ u = <<m, k>>
    BY UnitFacts
  <2> QED
    BY <2>1, <2>2 DEF Rank
<1> QED
  BY <1>1, <1>3, <1>7, <1>8
-----------------------------------------------------------------------------
(* Where packet m of a connection begins, and the end behind the last one. *)
Start(c, m) ==
    IF m \in DOMAIN stream[c] THEN Rank(stream[c], m, 1) ELSE StreamSize(c) + 1

LEMMA UnitTuple ==
    ASSUME NEW c, NEW m, NEW k
    PROVE  <<c>> \o <<m, k>> = <<c, m, k>>
<1>1. PICK T : T = {c, m, k}
  OBVIOUS
<1>2. <<c>> \in Seq(T) /\ <<m, k>> \in Seq(T) /\ <<c, m, k>> \in Seq(T)
  BY <1>1
<1>3. PICK a, b : a = <<c>> \o <<m, k>> /\ b = <<c, m, k>>
  OBVIOUS
<1>4. a \in Seq(T) /\ Len(a) = 3 /\ a[1] = c /\ a[2] = m /\ a[3] = k
  BY <1>2, <1>3
<1>5. b \in Seq(T) /\ Len(b) = 3 /\ b[1] = c /\ b[2] = m /\ b[3] = k
  BY <1>2, <1>3
<1>6. a \in [1..3 -> T] /\ b \in [1..3 -> T]
  BY <1>4, <1>5
<1>7. \A n \in 1..3 : a[n] = b[n]
  BY <1>4, <1>5
<1>8. a = [n \in 1..3 |-> a[n]] /\ b = [n \in 1..3 |-> b[n]]
  BY <1>6
<1>9. a = b
  BY <1>7, <1>8
<1> QED
  BY <1>3, <1>9

LEMMA StartFacts ==
    ASSUME stream \in [Conns -> Streams], NEW c \in Conns
    PROVE  /\ StreamSize(c) \in Nat
           /\ Start(c, 1) = 1
           /\ \A m \in DOMAIN stream[c] :
                  /\ Start(c, m) \in Nat
                  /\ m + 1 \in 1..Len(stream[c])+1
                  /\ Start(c, m + 1) = Start(c, m) + Length(stream[c][m])
           /\ \A m \in DOMAIN stream[c] : \A k \in 1..Length(stream[c][m]) :
                  /\ Start(c, m) + (k - 1) \in 1..StreamSize(c)
                  /\ Unit(c, Start(c, m) + (k - 1)) = <<c, m, k>>
           /\ \A p \in 1..StreamSize(c) : \E m, k :
                  /\ m \in DOMAIN stream[c] /\ k \in 1..Length(stream[c][m])
                  /\ p = Start(c, m) + (k - 1) /\ Unit(c, p) = <<c, m, k>>
<1>1. PICK s \in Streams : s = stream[c]
  OBVIOUS
<1>2. PICK N \in Nat : N = StreamSize(c) /\ N = Len(Layout[s])
  BY <1>1, LayoutFacts DEF StreamSize
<1>3. \A m, k : <<c>> \o <<m, k>> = <<c, m, k>>
  BY UnitTuple
<1>4. ASSUME NEW m \in DOMAIN s, NEW k \in 1..Length(s[m])
      PROVE  /\ Start(c, m) = Rank(s, m, 1) /\ Start(c, m) \in Nat
             /\ Start(c, m) + (k - 1) = Rank(s, m, k)
             /\ Start(c, m) + (k - 1) \in 1..N
             /\ Unit(c, Start(c, m) + (k - 1)) = <<c, m, k>>
  <2>1. Start(c, m) = Rank(s, m, 1)
    BY <1>1 DEF Start
  <2>2. 1 \in 1..Length(s[m])
    BY StreamType DEF HEADER
  <2>3. Rank(s, m, 1) \in 1..N
    BY <1>2, <2>2, LayoutFacts
  <2>4. Rank(s, m, k) = Rank(s, m, 1) + (k - 1)
    BY RanksFollow
  <2>5. Rank(s, m, k) \in 1..N /\ Layout[s][Rank(s, m, k)] = <<m, k>>
    BY <1>2, LayoutFacts
  <2> QED
    BY <1>1, <1>3, <2>1, <2>3, <2>4, <2>5 DEF Unit
<1>5. \A m \in DOMAIN s : 1 \in 1..Length(s[m])
  BY StreamType DEF HEADER
<1>6. Start(c, 1) = 1
  <2>1. CASE 1 \in DOMAIN s
    BY <1>1, <2>1, RanksFollow DEF Start
  <2>2. CASE 1 \notin DOMAIN s
    <3>1. DOMAIN s = {}
      BY <2>2, StreamType
    <3>2. N = 0
      <4> SUFFICES ASSUME N # 0 PROVE FALSE
        OBVIOUS
      <4>1. 1 \in 1..N
        OBVIOUS
      <4> QED
        BY <1>2, <3>1, <4>1, LayoutFacts
    <3> QED
      BY <1>1, <1>2, <2>2, <3>2 DEF Start
  <2> QED
    BY <2>1, <2>2
<1>7. ASSUME NEW m \in DOMAIN s
      PROVE  /\ m + 1 \in 1..Len(s)+1
             /\ Start(c, m + 1) = Start(c, m) + Length(s[m])
  <2>1. m \in Nat /\ m + 1 \in 1..Len(s)+1 /\ Len(s) \in Nat
    BY StreamType
  <2>2. CASE m + 1 \in DOMAIN s
    BY <1>1, <2>1, <2>2, RanksFollow DEF Start
  <2>3. CASE m + 1 \notin DOMAIN s
    <3>1. m = Len(s)
      BY <2>1, <2>3, StreamType
    <3>2. N + 1 = Rank(s, m, 1) + Length(s[m])
      BY <1>2, <3>1, RanksFollow, LayoutFacts
    <3> QED
      BY <1>1, <1>2, <2>1, <2>3, <3>2 DEF Start
  <2> QED
    BY <2>2, <2>3
<1>8. ASSUME NEW p \in 1..N
      PROVE  \E m, k :
                /\ m \in DOMAIN s /\ k \in 1..Length(s[m])
                /\ p = Start(c, m) + (k - 1) /\ Unit(c, p) = <<c, m, k>>
  <2>1. PICK m, k : /\ m \in DOMAIN s /\ k \in 1..Length(s[m])
                    /\ p = Rank(s, m, k)
    BY <1>2, LayoutFacts
  <2> QED
    BY <1>4, <2>1
<1>9. \A m \in DOMAIN s : Start(c, m) \in Nat
  BY <1>4, <1>5
<1> QED
  BY <1>1, <1>2, <1>4, <1>6, <1>7, <1>8, <1>9

(* Packets begin in their order.                                           *)
LEMMA StartsGrow ==
    ASSUME stream \in [Conns -> Streams], NEW c \in Conns,
           NEW m \in DOMAIN stream[c], NEW n \in DOMAIN stream[c], m < n
    PROVE  Start(c, m) < Start(c, n)
<1>1. PICK s \in Streams : s = stream[c]
  OBVIOUS
<1>2. 1 \in 1..Length(s[m]) /\ 1 \in 1..Length(s[n])
  BY <1>1, StreamType DEF HEADER
<1>3. PICK x, y : x = <<m, 1>> /\ y = <<n, 1>>
  OBVIOUS
<1>4. x \in Units(s) /\ y \in Units(s)
  BY <1>1, <1>2, <1>3, UnitFacts
<1>5. Cardinality(UpTo(s, x)) < Cardinality(UpTo(s, y))
  BY <1>3, <1>4, UpToGrows
<1> QED
  BY <1>1, <1>3, <1>5 DEF Start, Rank
-----------------------------------------------------------------------------
Executions == [on : Conns, from : Conns \X Nat, whole : BOOLEAN]

(* The counts of the read under way stay in its range, and what is taken   *)
(* for a header is one.                                                    *)
TypesInv ==
    /\ ReceptionTypeOK
    /\ buf \in [1..BUF_SIZE -> {Nothing} \cup (Conns \X Nat \X Nat)]
    /\ executed \in Seq(Executions)
    /\ pc = "header" => nb_read <= HEADER
    /\ pc = "body" =>
           /\ buf[HEADER] # Nothing /\ buf[HEADER][3] = HEADER
           /\ PacketOf(buf[HEADER]).packet_size <= MAX_RPC_PACKET_SIZE
           /\ nb_read + HEADER <= BUF_SIZE

(* Nothing is left to be read where the thread saw a reset.                *)
GoneInv ==
    \A c \in Conns : peer[c] = "gone" =>
        /\ Unread(c) = 0
        /\ ~(at = c /\ pc \in {"header", "http"})

Served(c) == pc # "poll" /\ at = c

(* The buffer begins with the n units of packet m of c that were read last.*)
InBuffer(c, m, n) ==
    /\ n <= Length(stream[c][m])
    /\ read[c] + 1 = Start(c, m) + n
    /\ \A k \in 1..n : buf[k] = <<c, m, k>>

(* What was carried out for c are requests before packet m, and all of     *)
(* them, except those that ExecutedInOrder excepts.                        *)
DoneBefore(c, m) ==
    /\ \A i \in DOMAIN executed :
           executed[i].on = c => executed[i].from[2] < m
    /\ \A n \in 1..m-1 : IsRequest(stream[c][n]) =>
           \/ \E i \in DOMAIN executed : /\ executed[i].on = c
                                         /\ executed[i].from = <<c, n>>
           \/ MayBeLeftOut(c, n)

(* What was carried out for c are requests before one that was begun.      *)
Behind(c) ==
    \E m \in DOMAIN stream[c] :
        /\ Start(c, m) <= read[c] + 1
        /\ \A i \in DOMAIN executed :
               executed[i].on = c => executed[i].from[2] < m

(* Nothing more of c is carried out, or not as long as what is next is no  *)
(* magic number.                                                           *)
Stuck(c) ==
    \/ read[c] = StreamSize(c)
    \/ peer[c] # "open" /\ Unread(c) = 0
    \/ /\ read[c] < StreamSize(c) /\ Unit(c, read[c] + 1)[3] # 1
       /\ c \in lost /\ Behind(c)

Waiting(c) ==
    \/ Stuck(c)
    \/ \E m \in 1..Len(stream[c])+1 :
           read[c] + 1 = Start(c, m) /\ DoneBefore(c, m)

InHeader(c) ==
    /\ nb_read = 0 => Unread(c) > 0
    /\ \E m \in DOMAIN stream[c] : InBuffer(c, m, nb_read) /\ DoneBefore(c, m)

InBody(c) ==
    \E m \in DOMAIN stream[c] :
        /\ buf[HEADER] = <<c, m, HEADER>> /\ DoneBefore(c, m)
        /\ stream[c][m].packet_size <= MAX_RPC_PACKET_SIZE
        /\ stream[c][m].packet_size >= HEADER \/ nb_read = 0 =>
               InBuffer(c, m, HEADER + nb_read)

InHttp(c) == c \in lost /\ Behind(c)

OrderInv ==
    \A c \in Conns : peer[c] # "gone" =>
        IF Served(c)
        THEN /\ pc = "header" => InHeader(c)
             /\ pc = "body" => InBody(c)
             /\ pc = "http" => InHttp(c)
        ELSE Waiting(c)

(* A connection on which nothing more is carried out.                      *)
Ended(c) == peer[c] # "open" /\ Unread(c) = 0 /\ ~Served(c)

TornInv ==
    \A i \in DOMAIN executed : ~executed[i].whole =>
        /\ Ended(executed[i].on)
        /\ \A j \in i+1..Len(executed) : executed[j].on # executed[i].on
-----------------------------------------------------------------------------
(* A unit of a stream, as the buffer holds it.                             *)
LEMMA UnitType ==
    ASSUME TypesInv, NEW c \in Conns, NEW p \in 1..StreamSize(c)
    PROVE  LET u == Unit(c, p)
           IN  /\ u \in Conns \X Nat \X Nat /\ u # Nothing
               /\ u[1] = c /\ u[2] \in DOMAIN stream[u[1]]
               /\ u[3] \in 1..Length(PacketOf(u))
<1>1. stream \in [Conns -> Streams]
  BY DEF TypesInv, ReceptionTypeOK
<1>2. PICK m, k : /\ m \in DOMAIN stream[c] /\ k \in 1..Length(stream[c][m])
                  /\ Unit(c, p) = <<c, m, k>>
  BY <1>1, StartFacts
<1>3. m \in Nat /\ k \in Nat
  BY <1>1, <1>2, StreamType
<1> QED
  BY <1>1, <1>2, <1>3 DEF PacketOf, Nothing

(* What one read does.                                                     *)
LEMMA RecvFacts ==
    ASSUME TypesInv, Recv
    PROVE  \E n \in Nat \ {0} :
               /\ n <= Unread(at) /\ nb_read + n <= Wanted
               /\ read' = [read EXCEPT ![at] = @ + n]
               /\ nb_read' = nb_read + n /\ ret' = n
               /\ pc' = IF Offset + n > BUF_SIZE THEN "overrun" ELSE pc
               /\ buf' = [i \in 1..BUF_SIZE |->
                             IF i - Offset \in 1..n
                             THEN Unit(at, read[at] + i - Offset) ELSE buf[i]]
<1>1. Wanted \in Int
  <2>1. pc = "body" => PacketOf(buf[HEADER]).packet_size \in Int
    <3> SUFFICES ASSUME pc = "body"
                 PROVE  PacketOf(buf[HEADER]).packet_size \in Int
      OBVIOUS
    <3>1. PICK u : u = buf[HEADER]
      OBVIOUS
    <3>2. HEADER \in DOMAIN buf /\ u # Nothing
      BY <3>1, ReceptionAssumption DEF TypesInv, HEADER
    <3>3. u[1] \in Conns /\ u[2] \in DOMAIN stream[u[1]]
      BY <3>1, <3>2 DEF TypesInv, ReceptionTypeOK
    <3>4. stream[u[1]] \in Streams
      BY <3>3 DEF TypesInv, ReceptionTypeOK
    <3> QED
      BY <3>1, <3>3, <3>4, StreamType DEF PacketOf
  <2>2. StreamSize(at) \in Int
    BY StartFacts DEF TypesInv, ReceptionTypeOK
  <2>3. BUF_SIZE \in Int
    BY ReceptionAssumption
  <2> QED
    BY <2>1, <2>2, <2>3 DEF Recv, Wanted, HEADER
<1>2. /\ nb_read < Wanted /\ Unread(at) > 0
      /\ nb_read \in Nat /\ Unread(at) \in Int
      /\ DOMAIN buf = 1..BUF_SIZE
  BY DEF Recv, TypesInv, ReceptionTypeOK, Unread
<1>3. PICK n : n = Smaller(Wanted - nb_read, Unread(at))
  OBVIOUS
<1>4. n \in Nat \ {0} /\ n <= Unread(at) /\ nb_read + n <= Wanted
  BY <1>1, <1>2, <1>3 DEF Smaller
<1>5. /\ Take(at, n, Offset) /\ nb_read' = nb_read + n /\ ret' = n
      /\ pc' = IF Offset + n > BUF_SIZE THEN "overrun" ELSE pc
  BY <1>3 DEF Recv
<1> QED
  BY <1>2, <1>4, <1>5 DEF Take

LEMMA TypesInit == Init => TypesInv
<1> SUFFICES ASSUME Init PROVE TypesInv
  OBVIOUS
<1>1. at \in Conns
  BY ReceptionAssumption DEF Init
<1>2. \A c \in Conns : StreamSize(c) \in Nat
  BY StartFacts DEF Init
<1>3. \A i \in DOMAIN buf : buf[i] = Nothing
  BY DEF Init
<1>4. ReceptionTypeOK
  BY <1>1, <1>2, <1>3 DEF Init, ReceptionTypeOK
<1> QED
  BY <1>3, <1>4 DEF Init, TypesInv

(* Units in the buffer stay units: the streams are given.                  *)
LEMMA TypesOfPeers ==
    ASSUME TypesInv, NEW c \in Conns, Arrive(c) \/ Leave(c) \/ CloseEntry(c)
    PROVE  TypesInv'
<1>1. StreamSize(c) \in Nat
  BY StartFacts DEF TypesInv, ReceptionTypeOK
<1>2. stream' = stream /\ buf' = buf /\ pc' = pc /\ at' = at
      /\ executed' = executed /\ nb_read' = nb_read /\ ret' = ret
      /\ read' = read /\ lost' = lost /\ flooded' = flooded
  BY DEF Arrive, Leave, CloseEntry, netVars, recvVars, historyVars
<1>3. /\ arrived' \in [Conns -> Nat]
      /\ \A d \in Conns : arrived'[d] \in 0..StreamSize(d)
                          /\ arrived'[d] >= arrived[d]
  <2>1. /\ arrived \in [Conns -> Nat]
        /\ \A d \in Conns : StreamSize(d) \in Nat /\ arrived[d] \in 0..StreamSize(d)
    BY StartFacts DEF TypesInv, ReceptionTypeOK
  <2>2. CASE Arrive(c)
    <3>1. PICK n \in arrived[c]+1..StreamSize(c) :
              arrived' = [arrived EXCEPT ![c] = n]
      BY <2>2 DEF Arrive
    <3>2. n \in Nat /\ n \in 0..StreamSize(c) /\ n >= arrived[c]
      BY <1>1, <2>1
    <3> QED
      BY <2>1, <3>1, <3>2
  <2>3. CASE ~Arrive(c)
    <3>1. arrived' = arrived
      BY <2>3 DEF Leave, CloseEntry, netVars
    <3> QED
      BY <2>1, <3>1
  <2> QED
    BY <2>2, <2>3
<1>4. peer' \in [Conns -> {"open", "closed", "reset", "gone"}]
      /\ listed' \subseteq Conns
  BY DEF Arrive, Leave, CloseEntry, netVars, TypesInv, ReceptionTypeOK
<1>5. ReceptionTypeOK'
  BY <1>2, <1>3, <1>4
     DEF TypesInv, ReceptionTypeOK, StreamSize, PacketOf
<1> QED
  BY <1>2, <1>5 DEF TypesInv, PacketOf

LEMMA TypesOfPeek ==
    ASSUME TypesInv, NEW c \in Conns, Peek(c)
    PROVE  TypesInv'
<1>1. /\ UNCHANGED <<stream, arrived, peer, read, listed, buf, historyVars>>
      /\ UNCHANGED <<executed, lost, flooded>>
      /\ at' = c /\ nb_read' = 0 /\ ret' = 0 /\ pc' \in {"header", "http"}
  BY DEF Peek, netVars, historyVars
<1>2. ReceptionTypeOK'
  BY <1>1 DEF TypesInv, ReceptionTypeOK, StreamSize, PacketOf
<1> QED
  BY <1>1, <1>2 DEF TypesInv, HEADER

LEMMA TypesOfRecv == TypesInv /\ Recv => TypesInv'
<1> SUFFICES ASSUME TypesInv, Recv PROVE TypesInv'
  OBVIOUS
<1>1. PICK n \in Nat \ {0} :
          /\ n <= Unread(at) /\ nb_read + n <= Wanted
          /\ read' = [read EXCEPT ![at] = @ + n]
          /\ nb_read' = nb_read + n /\ ret' = n
          /\ pc' = IF Offset + n > BUF_SIZE THEN "overrun" ELSE pc
          /\ buf' = [i \in 1..BUF_SIZE |->
                        IF i - Offset \in 1..n
                        THEN Unit(at, read[at] + i - Offset) ELSE buf[i]]
  BY RecvFacts
<1>2. /\ UNCHANGED <<stream, arrived, peer, listed, at, executed>>
      /\ UNCHANGED <<lost, flooded>>
      /\ pc \in {"header", "body", "http"} /\ pc' \in {pc, "overrun"}
  BY <1>1 DEF Recv, netVars, historyVars
<1>3. /\ nb_read \in Nat /\ Offset \in Nat /\ at \in Conns
      /\ read[at] \in Nat /\ arrived[at] \in 0..StreamSize(at)
      /\ StreamSize(at) \in Nat
      /\ pc = "body" => Offset >= HEADER
  BY StartFacts DEF TypesInv, ReceptionTypeOK, Offset, HEADER
<1>4. ASSUME NEW i \in 1..BUF_SIZE, i - Offset \in 1..n
      PROVE  read[at] + i - Offset \in 1..StreamSize(at)
  BY <1>1, <1>3, <1>4 DEF Unread
<1>5. ASSUME NEW i \in 1..BUF_SIZE
      PROVE  /\ buf'[i] \in {Nothing} \cup (Conns \X Nat \X Nat)
             /\ buf'[i] # Nothing =>
                    /\ buf'[i][1] \in Conns
                    /\ buf'[i][2] \in DOMAIN stream[buf'[i][1]]
                    /\ buf'[i][3] \in 1..Length(PacketOf(buf'[i]))
  <2>1. CASE i - Offset \in 1..n
    <3>1. buf'[i] = Unit(at, read[at] + i - Offset)
      BY <1>1, <2>1
    <3> QED
      BY <1>3, <1>4, <2>1, <3>1, UnitType
  <2>2. CASE i - Offset \notin 1..n
    <3>1. buf'[i] = buf[i]
      BY <1>1, <2>2
    <3> QED
      BY <3>1 DEF TypesInv, ReceptionTypeOK
  <2> QED
    BY <2>1, <2>2
<1>6. DOMAIN buf' = 1..BUF_SIZE
  BY <1>1
<1>7. /\ read' \in [Conns -> Nat]
      /\ \A c \in Conns : read'[c] \in 0..arrived[c]
      /\ read'[at] = read[at] + n
  BY <1>1, <1>3 DEF TypesInv, ReceptionTypeOK, Unread
<1>8. ReceptionTypeOK'
  <2>1. \A i \in DOMAIN buf' :
            buf'[i] # Nothing =>
                LET u == buf'[i]
                IN  /\ u[1] \in Conns /\ u[2] \in DOMAIN stream'[u[1]]
                    /\ u[3] \in 1..Length(stream'[u[1]][u[2]])
    BY <1>2, <1>5, <1>6 DEF PacketOf
  <2>2. nb_read' \in Nat /\ ret' \in 0..nb_read'
    BY <1>1, <1>3
  <2> QED
    BY <1>2, <1>7, <2>1, <2>2
       DEF TypesInv, ReceptionTypeOK, StreamSize, PacketOf
<1>9. buf' \in [1..BUF_SIZE -> {Nothing} \cup (Conns \X Nat \X Nat)]
  BY <1>1, <1>5
<1>10. pc = "header" => nb_read' <= HEADER
  BY <1>1 DEF Wanted
<1>11. pc' = "body" => /\ pc = "body" /\ buf'[HEADER] = buf[HEADER]
                       /\ nb_read' + HEADER <= BUF_SIZE
  <2> SUFFICES ASSUME pc' = "body"
               PROVE  /\ pc = "body" /\ buf'[HEADER] = buf[HEADER]
                      /\ nb_read' + HEADER <= BUF_SIZE
    OBVIOUS
  <2>1. pc = "body" /\ ~(Offset + n > BUF_SIZE)
    BY <1>1, <1>2
  <2>2. BUF_SIZE \in Nat /\ BUF_SIZE > HEADER
    BY ReceptionAssumption DEF HEADER
  <2>3. HEADER \in 1..BUF_SIZE /\ ~(HEADER - Offset \in 1..n)
    BY <1>3, <2>1, <2>2 DEF HEADER
  <2>4. Offset = nb_read + HEADER
    BY <2>1 DEF Offset
  <2> QED
    BY <1>1, <1>3, <2>1, <2>2, <2>3, <2>4 DEF HEADER
<1>12. pc' = "header" => pc = "header"
  BY <1>2
<1> QED
  BY <1>2, <1>8, <1>9, <1>10, <1>11, <1>12 DEF TypesInv, PacketOf

LEMMA PeerOfRecvEnds ==
    ASSUME TypesInv, NEW result, RecvEnds(result)
    PROVE  /\ peer' \in [Conns -> {"open", "closed", "reset", "gone"}]
           /\ \/ /\ pc = "body" /\ Undersized /\ nb_read = 0
                 /\ result = -1 /\ peer' = peer
              \/ nb_read = Wanted /\ result = ret /\ peer' = peer
              \/ /\ nb_read < Wanted /\ Unread(at) = 0 /\ result = 0
                 /\ peer[at] \in {"closed", "gone"} /\ peer' = peer
              \/ /\ nb_read < Wanted /\ Unread(at) = 0 /\ result = -1
                 /\ peer' = [peer EXCEPT ![at] = "gone"]
                 /\ peer'[at] = "gone" /\ peer[at] = "reset"
  BY DEF RecvEnds, TypesInv, ReceptionTypeOK

(* A unit of the buffer that stands for a header.                          *)
LEMMA HeaderType ==
    ASSUME TypesInv, buf[HEADER] # Nothing
    PROVE  /\ buf[HEADER] \in Conns \X Nat \X Nat
           /\ buf[HEADER][2] \in DOMAIN stream[buf[HEADER][1]]
           /\ PacketOf(buf[HEADER]) \in Packets
           /\ PacketOf(buf[HEADER]).packet_size \in Nat
<1>1. PICK u : u = buf[HEADER]
  OBVIOUS
<1>2. HEADER \in DOMAIN buf /\ u \in Conns \X Nat \X Nat
  BY <1>1, ReceptionAssumption DEF TypesInv, HEADER
<1>3. u[1] \in Conns /\ u[2] \in DOMAIN stream[u[1]]
  BY <1>1, <1>2 DEF TypesInv, ReceptionTypeOK
<1>4. stream[u[1]] \in Streams
  BY <1>3 DEF TypesInv, ReceptionTypeOK
<1> QED
  BY <1>1, <1>2, <1>3, <1>4, StreamType DEF PacketOf

LEMMA TypesOfHeaderRead == TypesInv /\ HeaderRead => TypesInv'
<1> SUFFICES ASSUME TypesInv, HeaderRead PROVE TypesInv'
  OBVIOUS
<1>1. PICK u : u = buf[HEADER]
  OBVIOUS
<1>2. PICK result \in -1..HEADER :
          /\ RecvEnds(result)
          /\ \/ pc' = "poll"
             \/ /\ pc' = "body" /\ u # Nothing /\ u[3] = HEADER
                /\ ~(PacketOf(u).packet_size > MAX_RPC_PACKET_SIZE)
          /\ lost' \in {lost, lost \cup {at}}
  BY <1>1 DEF HeaderRead
<1>3. /\ UNCHANGED <<stream, arrived, read, listed, buf, at, executed>>
      /\ flooded' = flooded /\ nb_read' = 0 /\ ret' = 0
  BY DEF HeaderRead
<1>4. peer' \in [Conns -> {"open", "closed", "reset", "gone"}]
  BY <1>2, PeerOfRecvEnds
<1>5. ReceptionTypeOK'
  BY <1>2, <1>3, <1>4 DEF TypesInv, ReceptionTypeOK, StreamSize, PacketOf
<1>6. pc' = "body" => /\ buf[HEADER] # Nothing /\ buf[HEADER][3] = HEADER
                      /\ PacketOf(buf[HEADER]).packet_size <= MAX_RPC_PACKET_SIZE
                      /\ 0 + HEADER <= BUF_SIZE
  <2>1. u # Nothing => PacketOf(u).packet_size \in Nat
    BY <1>1, HeaderType
  <2>2. /\ MAX_RPC_PACKET_SIZE \in Nat
        /\ BUF_SIZE \in Nat /\ BUF_SIZE > HEADER
    BY ReceptionAssumption DEF HEADER
  <2> QED
    BY <1>1, <1>2, <2>1, <2>2 DEF HEADER
<1>7. pc' \notin {"header", "http"}
  BY <1>2
<1> QED
  BY <1>3, <1>5, <1>6, <1>7 DEF TypesInv, PacketOf

(* The request that the end of a body may add to what was carried out.     *)
LEMMA RequestFacts ==
    ASSUME TypesInv, BodyRead
    PROVE  \E result \in -1..MAX_RPC_PACKET_SIZE : \E r \in Executions :
               LET u == buf[HEADER]
               IN  /\ RecvEnds(result)
                   /\ r.on = at /\ r.from = <<u[1], u[2]>>
                   /\ r.whole <=> \A k \in 1..PacketOf(u).packet_size :
                                      buf[k] = <<u[1], u[2], k>>
                   /\ executed' = IF result # -1 /\ IsRequest(PacketOf(u))
                                  THEN Append(executed, r) ELSE executed
<1>1. PICK u : u = buf[HEADER]
  OBVIOUS
<1>2. PICK w : w = \A k \in 1..PacketOf(u).packet_size :
                       buf[k] = <<u[1], u[2], k>>
  OBVIOUS
<1>3. w \in BOOLEAN
  BY <1>2
<1>4. PICK request : request = [on |-> at, from |-> <<u[1], u[2]>>, whole |-> w]
  OBVIOUS
<1>5. PICK result \in -1..MAX_RPC_PACKET_SIZE :
          /\ RecvEnds(result)
          /\ executed' = IF result # -1 /\ IsRequest(PacketOf(u))
                         THEN Append(executed, request) ELSE executed
  BY <1>1, <1>2, <1>4 DEF BodyRead
<1>6. request \in Executions
  <2>1. u \in Conns \X Nat \X Nat
    BY <1>1, HeaderType DEF BodyRead, TypesInv
  <2>2. at \in Conns
    BY DEF TypesInv, ReceptionTypeOK
  <2> QED
    BY <1>3, <1>4, <2>1, <2>2 DEF Executions
<1>7. request.on = at /\ request.from = <<u[1], u[2]>> /\ request.whole = w
  BY <1>4
<1> QED
  BY <1>1, <1>2, <1>5, <1>6, <1>7

LEMMA TypesOfBodyRead == TypesInv /\ BodyRead => TypesInv'
<1> SUFFICES ASSUME TypesInv, BodyRead PROVE TypesInv'
  OBVIOUS
<1>1. PICK result, r : /\ r \in Executions /\ RecvEnds(result)
                       /\ executed' \in {executed, Append(executed, r)}
  BY RequestFacts
<1>2. /\ UNCHANGED <<stream, arrived, read, listed, buf, at, lost, flooded>>
      /\ nb_read' = 0 /\ ret' = 0 /\ pc' = "poll"
  BY DEF BodyRead
<1>3. peer' \in [Conns -> {"open", "closed", "reset", "gone"}]
  BY <1>1, PeerOfRecvEnds
<1>4. executed' \in Seq(Executions)
  BY <1>1 DEF TypesInv
<1>5. \A i \in DOMAIN executed' : executed'[i].on \in Conns
  <2> SUFFICES ASSUME NEW i \in DOMAIN executed' PROVE executed'[i].on \in Conns
    OBVIOUS
  <2>1. executed'[i] \in Executions
    BY <1>4
  <2> QED
    BY <2>1 DEF Executions
<1>6. ReceptionTypeOK'
  BY <1>2, <1>3, <1>5 DEF TypesInv, ReceptionTypeOK, StreamSize, PacketOf
<1> QED
  BY <1>2, <1>4, <1>6 DEF TypesInv

(* recv_until reads only after a header was refused.                       *)
LEMMA TypesOfHttpRead ==
    TypesInv /\ (pc = "http" => at \in lost) /\ HttpRead => TypesInv'
<1> SUFFICES ASSUME TypesInv, pc = "http" => at \in lost, HttpRead
             PROVE  TypesInv'
  OBVIOUS
<1>1. /\ UNCHANGED <<stream, arrived, read, listed, buf, at, executed, lost>>
      /\ nb_read' = 0 /\ ret' = 0 /\ pc' = "poll"
      /\ flooded' \in {flooded, flooded \cup {at}} /\ at \in lost
  BY DEF HttpRead
<1>2. peer' \in [Conns -> {"open", "closed", "reset", "gone"}]
  BY PeerOfRecvEnds DEF HttpRead
<1>3. ReceptionTypeOK'
  BY <1>1, <1>2 DEF TypesInv, ReceptionTypeOK, StreamSize, PacketOf
<1> QED
  BY <1>1, <1>3 DEF TypesInv

LEMMA TypesStep ==
    TypesInv /\ GoneInv /\ OrderInv /\ [Next]_vars => TypesInv'
<1> SUFFICES ASSUME TypesInv, GoneInv, OrderInv, [Next]_vars PROVE TypesInv'
  OBVIOUS
<1>3. pc = "http" => at \in lost
  <2>1. at \in Conns
    BY DEF TypesInv, ReceptionTypeOK
  <2>2. pc = "http" => peer[at] # "gone"
    BY <2>1 DEF GoneInv
  <2> QED
    BY <2>1, <2>2 DEF OrderInv, Served, InHttp
<1>1. CASE UNCHANGED vars
  BY <1>1 DEF TypesInv, ReceptionTypeOK, vars, netVars, recvVars, historyVars,
     StreamSize, PacketOf
<1>2. CASE Next
  BY <1>2, <1>3, TypesOfPeers, TypesOfPeek, TypesOfRecv, TypesOfHeaderRead,
     TypesOfBodyRead, TypesOfHttpRead DEF Next, Thread
<1> QED
  BY <1>1, <1>2
-----------------------------------------------------------------------------
(* A reset is seen with nothing left to read, and a connection that has    *)
(* seen one is not peeked at.                                              *)
LEMMA GoneInit == Init => GoneInv
  BY DEF Init, GoneInv

LEMMA GoneStep == TypesInv /\ GoneInv /\ [Next]_vars => GoneInv'
<1> SUFFICES ASSUME TypesInv, GoneInv, [Next]_vars,
                    NEW c \in Conns, peer'[c] = "gone"
             PROVE  Unread(c)' = 0 /\ ~(at' = c /\ pc' \in {"header", "http"})
  BY DEF GoneInv
<1>1. peer[c] = "gone" => Unread(c) = 0 /\ ~(at = c /\ pc \in {"header", "http"})
  BY DEF GoneInv
<1>2. CASE UNCHANGED vars
  BY <1>1, <1>2 DEF vars, netVars, recvVars, Unread
<1>3. CASE \E d \in Conns : Arrive(d)
  BY <1>1, <1>3 DEF Arrive, Unread, TypesInv, ReceptionTypeOK, recvVars
<1>4. CASE \E d \in Conns : Leave(d)
  BY <1>1, <1>4 DEF Leave, Unread, TypesInv, ReceptionTypeOK, recvVars
<1>5. CASE \E d \in Conns : CloseEntry(d)
  BY <1>1, <1>5 DEF CloseEntry, Unread, netVars, recvVars
<1>6. CASE \E d \in Conns : Peek(d)
  BY <1>1, <1>6 DEF Peek, Unread, netVars
<1>7. CASE Recv
  <2>1. PICK n \in Nat \ {0} : /\ n <= Unread(at)
                               /\ read' = [read EXCEPT ![at] = @ + n]
    BY <1>7, RecvFacts
  <2>2. /\ peer' = peer /\ arrived' = arrived /\ at' = at
        /\ pc' \in {pc, "overrun"} /\ Unread(at) > 0
    BY <1>7 DEF Recv, netVars
  <2>3. c # at
    BY <1>1, <2>2
  <2> QED
    BY <1>1, <2>1, <2>2, <2>3 DEF Unread, TypesInv, ReceptionTypeOK
<1>8. ASSUME NEW result, RecvEnds(result), pc' \in {"poll", "body"},
             UNCHANGED <<read, arrived, at>>
      PROVE  Unread(c)' = 0 /\ ~(at' = c /\ pc' \in {"header", "http"})
  <2>1. peer[c] = "gone" \/ (c = at /\ Unread(at) = 0)
    BY <1>8, PeerOfRecvEnds DEF TypesInv, ReceptionTypeOK
  <2> QED
    BY <1>1, <1>8, <2>1 DEF Unread
<1>9. CASE HeaderRead
  BY <1>8, <1>9 DEF HeaderRead
<1>10. CASE BodyRead
  BY <1>8, <1>10 DEF BodyRead
<1>11. CASE HttpRead
  BY <1>8, <1>11 DEF HttpRead
<1> QED
  BY <1>2, <1>3, <1>4, <1>5, <1>6, <1>7, <1>9, <1>10, <1>11 DEF Next, Thread
-----------------------------------------------------------------------------
(* What a step leaves as it was for a connection that it does not serve.   *)
Kept(c) ==
    /\ stream' = stream /\ read'[c] = read[c]
    /\ lost \subseteq lost' /\ flooded \subseteq flooded'
    /\ peer[c] = "open" \/ (peer'[c] # "open" /\ arrived'[c] = arrived[c])
    /\ \/ executed' = executed
       \/ \E r \in Executions : r.on # c /\ executed' = Append(executed, r)

LEMMA DoneKept ==
    ASSUME TypesInv, NEW c \in Conns, NEW m \in Nat, DoneBefore(c, m),
           stream' = stream, lost \subseteq lost', flooded \subseteq flooded',
           \/ executed' = executed
           \/ \E r \in Executions : r.on # c /\ executed' = Append(executed, r)
    PROVE  DoneBefore(c, m)'
<1>1. executed \in Seq(Executions)
  BY DEF TypesInv
<1>2. CASE executed' = executed
  BY <1>2 DEF DoneBefore, MayBeLeftOut
<1>3. CASE \E r \in Executions : r.on # c /\ executed' = Append(executed, r)
  <2>1. PICK r \in Executions : r.on # c /\ executed' = Append(executed, r)
    BY <1>3
  <2>2. /\ DOMAIN executed' = 1..Len(executed)+1
        /\ DOMAIN executed = 1..Len(executed) /\ Len(executed) \in Nat
        /\ \A i \in DOMAIN executed : executed'[i] = executed[i]
        /\ executed'[Len(executed)+1] = r
    BY <1>1, <2>1
  <2>3. \A i \in DOMAIN executed' :
            i \in DOMAIN executed \/ executed'[i].on # c
    <3>1. \A i \in DOMAIN executed' :
              i \in DOMAIN executed \/ i = Len(executed)+1
      BY <2>2
    <3> QED
      BY <2>1, <2>2, <3>1
  <2>4. DOMAIN executed \subseteq DOMAIN executed'
    BY <2>2
  <2> QED
    BY <2>2, <2>3, <2>4 DEF DoneBefore, MayBeLeftOut
<1> QED
  BY <1>2, <1>3

LEMMA BehindKept ==
    ASSUME TypesInv, NEW c \in Conns, Behind(c), stream' = stream,
           read'[c] >= read[c], read'[c] \in Nat,
           \/ executed' = executed
           \/ \E r \in Executions : r.on # c /\ executed' = Append(executed, r)
    PROVE  Behind(c)'
<1>1. PICK m \in DOMAIN stream[c] :
          /\ Start(c, m) <= read[c] + 1
          /\ \A i \in DOMAIN executed :
                 executed[i].on = c => executed[i].from[2] < m
  BY DEF Behind
<1>2. /\ Start(c, m)' = Start(c, m) /\ Start(c, m) \in Nat /\ read[c] \in Nat
  BY StartFacts DEF Start, StreamSize, TypesInv, ReceptionTypeOK
<1>3. Start(c, m)' <= read'[c] + 1
  BY <1>1, <1>2
<1>4. \A i \in DOMAIN executed' :
          executed'[i].on = c => executed'[i].from[2] < m
  <2>1. CASE executed' = executed
    BY <1>1, <2>1
  <2>2. CASE \E r \in Executions : r.on # c /\ executed' = Append(executed, r)
    <3>1. PICK r \in Executions : r.on # c /\ executed' = Append(executed, r)
      BY <2>2
    <3>2. executed \in Seq(Executions)
      BY DEF TypesInv
    <3>3. /\ \A i \in DOMAIN executed : executed'[i] = executed[i]
          /\ \A i \in DOMAIN executed' :
                 i \in DOMAIN executed \/ executed'[i] = r
      BY <3>1, <3>2
    <3> QED
      BY <1>1, <3>1, <3>3
  <2> QED
    BY <2>1, <2>2
<1> QED
  BY <1>3, <1>4 DEF Behind

LEMMA StuckKept ==
    ASSUME TypesInv, NEW c \in Conns, Stuck(c), Kept(c)
    PROVE  Stuck(c)'
<1>1. CASE read[c] = StreamSize(c)
  BY <1>1 DEF Stuck, Kept, StreamSize
<1>2. CASE peer[c] # "open" /\ Unread(c) = 0
  BY <1>2 DEF Stuck, Kept, Unread
<1>3. CASE /\ read[c] < StreamSize(c) /\ Unit(c, read[c] + 1)[3] # 1
           /\ c \in lost /\ Behind(c)
  <2>1. read'[c] = read[c] /\ read[c] \in Nat /\ stream' = stream
    BY DEF Kept, TypesInv, ReceptionTypeOK
  <2>2. Behind(c)'
    BY <1>3, <2>1, BehindKept DEF Kept
  <2> QED
    BY <1>3, <2>1, <2>2 DEF Stuck, Kept, StreamSize, Unit
<1> QED
  BY <1>1, <1>2, <1>3 DEF Stuck

LEMMA WaitingKept ==
    ASSUME TypesInv, NEW c \in Conns, Waiting(c), Kept(c)
    PROVE  Waiting(c)'
<1>1. CASE Stuck(c)
  BY <1>1, StuckKept DEF Waiting
<1>2. CASE \E m \in 1..Len(stream[c])+1 :
               read[c] + 1 = Start(c, m) /\ DoneBefore(c, m)
  <2>1. PICK m \in 1..Len(stream[c])+1 :
               read[c] + 1 = Start(c, m) /\ DoneBefore(c, m)
    BY <1>2
  <2>2. stream[c] \in Streams /\ m \in Nat
    BY StreamType DEF TypesInv, ReceptionTypeOK
  <2>3. DoneBefore(c, m)'
    BY <2>1, <2>2, DoneKept DEF Kept
  <2>4. Start(c, m)' = Start(c, m)
    BY DEF Kept, Start, StreamSize
  <2> QED
    BY <2>1, <2>3, <2>4 DEF Kept, Waiting
<1> QED
  BY <1>1, <1>2 DEF Waiting

(* The part of OrderInv about one connection.                              *)
InOrder(c) ==
    peer[c] # "gone" =>
        IF Served(c)
        THEN /\ pc = "header" => InHeader(c)
             /\ pc = "body" => InBody(c)
             /\ pc = "http" => InHttp(c)
        ELSE Waiting(c)

LEMMA InOrderOfPeers ==
    ASSUME TypesInv, OrderInv, NEW c \in Conns, NEW d \in Conns,
           Arrive(d) \/ Leave(d) \/ CloseEntry(d)
    PROVE  InOrder(c)'
<1>1. /\ stream' = stream /\ read' = read /\ buf' = buf
      /\ lost' = lost /\ flooded' = flooded
      /\ executed' = executed /\ pc' = pc /\ at' = at /\ nb_read' = nb_read
      /\ peer[c] = "open" \/ (peer'[c] # "open" /\ arrived'[c] = arrived[c])
      /\ peer'[c] # "gone" => peer[c] # "gone"
      /\ arrived'[c] \in Nat /\ arrived[c] \in Nat /\ read[c] \in Nat
      /\ arrived'[c] >= arrived[c]
  <2>1. /\ arrived \in [Conns -> Nat] /\ StreamSize(d) \in Nat
        /\ peer \in [Conns -> {"open", "closed", "reset", "gone"}]
        /\ read[c] \in Nat
    BY StartFacts DEF TypesInv, ReceptionTypeOK
  <2>2. CASE Arrive(d)
    BY <2>1, <2>2 DEF Arrive, recvVars, historyVars
  <2>3. CASE Leave(d)
    BY <2>1, <2>3 DEF Leave, recvVars, historyVars
  <2>4. CASE CloseEntry(d)
    BY <2>1, <2>4 DEF CloseEntry, netVars, recvVars, historyVars
  <2> QED
    BY <2>2, <2>3, <2>4
<1>2. SUFFICES ASSUME peer'[c] # "gone"
               PROVE  IF Served(c)'
                      THEN /\ pc' = "header" => InHeader(c)'
                           /\ pc' = "body" => InBody(c)'
                           /\ pc' = "http" => InHttp(c)'
                      ELSE Waiting(c)'
  BY DEF InOrder
<1>3. Served(c)' <=> Served(c)
  BY <1>1 DEF Served
<1>4. /\ Served(c) /\ pc = "header" => InHeader(c)
      /\ Served(c) /\ pc = "body" => InBody(c)
      /\ Served(c) /\ pc = "http" => InHttp(c)
      /\ ~Served(c) => Waiting(c)
  BY <1>1, <1>2 DEF OrderInv
<1>5. ~Served(c) => Waiting(c)'
  BY <1>1, <1>4, WaitingKept DEF Kept
<1>6. InHeader(c) => InHeader(c)'
  <2>1. Unread(c) > 0 => Unread(c)' > 0
    BY <1>1 DEF Unread
  <2> QED
    BY <1>1, <2>1 DEF InHeader, InBuffer, DoneBefore, MayBeLeftOut, Start,
       StreamSize
<1>7. InBody(c) => InBody(c)'
  BY <1>1 DEF InBody, InBuffer, DoneBefore, MayBeLeftOut, Start, StreamSize
<1>8. InHttp(c) => InHttp(c)'
  BY <1>1 DEF InHttp, Behind, Start, StreamSize
<1> QED
  BY <1>1, <1>3, <1>4, <1>5, <1>6, <1>7, <1>8

(* A connection that is peeked at is at the start of a packet, or stuck    *)
(* with something that is none.                                            *)
LEMMA InOrderOfPeek ==
    ASSUME TypesInv, GoneInv, OrderInv, NEW c \in Conns, NEW d \in Conns,
           Peek(d)
    PROVE  InOrder(c)'
<1>1. /\ stream' = stream /\ read' = read /\ buf' = buf
      /\ lost' = lost /\ flooded' = flooded
      /\ executed' = executed /\ peer' = peer /\ arrived' = arrived
      /\ pc = "poll" /\ at' = d /\ nb_read' = 0 /\ Unread(d) > 0
      /\ pc' = IF Unit(d, read[d] + 1)[3] = 1 THEN "header" ELSE "http"
  BY DEF Peek, netVars, historyVars
<1>2. SUFFICES ASSUME peer[c] # "gone"
               PROVE  IF Served(c)'
                      THEN /\ pc' = "header" => InHeader(c)'
                           /\ pc' = "body" => InBody(c)'
                           /\ pc' = "http" => InHttp(c)'
                      ELSE Waiting(c)'
  BY <1>1 DEF InOrder
<1>3. Waiting(c)
  BY <1>1, <1>2 DEF OrderInv, Served
<1>4. CASE c # d
  <2>1. Waiting(c)'
    BY <1>1, <1>3, <1>2, WaitingKept DEF Kept
  <2>2. ~Served(c)'
    BY <1>1, <1>4 DEF Served
  <2> QED
    BY <2>1, <2>2
<1>5. CASE c = d
  <2>1. Served(c)' /\ pc' \in {"header", "http"}
    BY <1>1, <1>5 DEF Served
  <2>3. ASSUME pc' = "http" PROVE InHttp(c)'
    <3>1. Unit(c, read[c] + 1)[3] # 1
      BY <1>1, <1>5, <2>3
    <3>2. /\ read[c] \in Nat /\ arrived[c] \in Nat /\ StreamSize(c) \in Nat
          /\ arrived[c] <= StreamSize(c) /\ Unread(c) > 0
          /\ stream \in [Conns -> Streams] /\ stream[c] \in Streams
      BY <1>1, <1>5, StartFacts DEF TypesInv, ReceptionTypeOK
    <3>3. read[c] < StreamSize(c)
      BY <3>2 DEF Unread
    <3>4. ASSUME NEW m \in 1..Len(stream[c])+1, read[c] + 1 = Start(c, m)
          PROVE  FALSE
      <4>1. m \in DOMAIN stream[c]
        BY <3>2, <3>3, <3>4 DEF Start
      <4>2. 1 \in 1..Length(stream[c][m])
        BY <3>2, <4>1, StreamType DEF HEADER
      <4>3. Unit(c, Start(c, m) + (1 - 1)) = <<c, m, 1>> /\ Start(c, m) \in Nat
        BY <3>2, <4>1, <4>2, StartFacts
      <4> QED
        BY <3>1, <3>4, <4>3
    <3>5. Stuck(c)
      BY <1>3, <3>4 DEF Waiting
    <3>6. c \in lost /\ Behind(c)
      BY <3>2, <3>3, <3>5 DEF Stuck
    <3> QED
      BY <1>1, <3>6 DEF InHttp, Behind, Start, StreamSize
  <2>2. ASSUME pc' = "header" PROVE InHeader(c)'
    <3>1. Unit(c, read[c] + 1)[3] = 1
      BY <1>1, <1>5, <2>2
    <3>2. /\ read[c] \in Nat /\ arrived[c] \in Nat /\ StreamSize(c) \in Nat
          /\ arrived[c] <= StreamSize(c) /\ Unread(c) > 0
          /\ stream[c] \in Streams
      BY <1>1, <1>5, StartFacts DEF TypesInv, ReceptionTypeOK
    <3>3. read[c] < StreamSize(c)
      BY <3>2 DEF Unread
    <3>4. ~Stuck(c)
      BY <3>1, <3>2, <3>3 DEF Stuck
    <3>5. PICK m \in 1..Len(stream[c])+1 :
              read[c] + 1 = Start(c, m) /\ DoneBefore(c, m)
      BY <1>3, <3>4 DEF Waiting
    <3>6. m \in DOMAIN stream[c]
      BY <3>2, <3>3, <3>5 DEF Start
    <3>7. InBuffer(c, m, 0)' /\ DoneBefore(c, m)'
      <4>1. 0 <= Length(stream[c][m])
        BY <3>2, <3>6, StreamType DEF HEADER
      <4>2. Start(c, m)' = Start(c, m)
        BY <1>1 DEF Start, StreamSize
      <4>3. DoneBefore(c, m)'
        BY <1>1, <3>5 DEF DoneBefore, MayBeLeftOut
      <4>4. read'[c] + 1 = Start(c, m)' + 0
        BY <1>1, <3>2, <3>5, <4>2
      <4>5. 1..0 = {}
        OBVIOUS
      <4>6. InBuffer(c, m, 0)'
        BY <1>1, <4>1, <4>4, <4>5 DEF InBuffer
      <4> QED
        BY <4>3, <4>6
    <3> QED
      BY <1>1, <3>2, <3>6, <3>7 DEF InHeader, Unread, InBuffer
  <2> QED
    BY <2>1, <2>2, <2>3
<1> QED
  BY <1>4, <1>5

(* What a read adds to the buffer is what comes next of the packet.        *)
LEMMA InBufferGrows ==
    ASSUME TypesInv, Recv,
           NEW c \in Conns, c = at, NEW m \in DOMAIN stream[c],
           NEW o \in Nat, o = Offset, NEW n \in Nat \ {0},
           InBuffer(c, m, o),
           o + n <= Length(stream[c][m]), o + n <= BUF_SIZE,
           read' = [read EXCEPT ![at] = @ + n],
           buf' = [i \in 1..BUF_SIZE |->
                      IF i - Offset \in 1..n
                      THEN Unit(at, read[at] + i - Offset) ELSE buf[i]]
    PROVE  InBuffer(c, m, o + n)'
<1>1. /\ stream' = stream /\ stream \in [Conns -> Streams]
      /\ read[c] \in Nat /\ read'[c] = read[c] + n
      /\ BUF_SIZE \in Nat
  BY ReceptionAssumption DEF Recv, netVars, TypesInv, ReceptionTypeOK
<1>2. PICK size \in Nat : size = Length(stream[c][m])
  BY <1>1, StreamType
<1>3. PICK st \in Nat : st = Start(c, m)
  BY <1>1, StartFacts
<1>4. read[c] + 1 = st + o /\ \A k \in 1..o : buf[k] = <<c, m, k>>
  BY <1>3 DEF InBuffer
<1>5. PICK r \in Nat : r = read[c] /\ read'[c] = r + n /\ r + 1 = st + o
  BY <1>1, <1>4
<1>6. read'[c] + 1 = Start(c, m)' + (o + n)
  <2>1. Start(c, m)' = st
    BY <1>1, <1>3 DEF Start, StreamSize
  <2>2. (r + n) + 1 = st + (o + n)
    BY <1>5
  <2> QED
    BY <1>5, <2>1, <2>2
<1>7. ASSUME NEW k \in 1..(o + n) PROVE buf'[k] = <<c, m, k>>
  <2>1. k \in 1..BUF_SIZE /\ k \in 1..size
    BY <1>1, <1>2
  <2>2. CASE k <= o
    <3>1. ~(k - o \in 1..n) /\ k \in 1..o
      BY <2>2
    <3> QED
      BY <1>4, <2>1, <3>1
  <2>3. CASE ~(k <= o)
    <3>1. k - o \in 1..n
      BY <2>3
    <3>2. buf'[k] = Unit(c, r + k - o)
      BY <1>5, <2>1, <3>1
    <3>3. r + k - o = st + (k - 1)
      <4>1. k \in Int
        BY <2>1
      <4> QED
        BY <1>5, <4>1
    <3>4. Unit(c, st + (k - 1)) = <<c, m, k>>
      BY <1>1, <1>2, <1>3, <2>1, StartFacts
    <3> QED
      BY <3>2, <3>3, <3>4
  <2> QED
    BY <2>2, <2>3
<1> QED
  BY <1>1, <1>6, <1>7 DEF InBuffer

LEMMA InOrderOfRecv ==
    ASSUME TypesInv, OrderInv, NEW c \in Conns, Recv
    PROVE  InOrder(c)'
<1>1. PICK n \in Nat \ {0} :
          /\ n <= Unread(at) /\ nb_read + n <= Wanted
          /\ read' = [read EXCEPT ![at] = @ + n]
          /\ nb_read' = nb_read + n /\ ret' = n
          /\ pc' = IF Offset + n > BUF_SIZE THEN "overrun" ELSE pc
          /\ buf' = [i \in 1..BUF_SIZE |->
                        IF i - Offset \in 1..n
                        THEN Unit(at, read[at] + i - Offset) ELSE buf[i]]
  BY RecvFacts
<1>2. /\ stream' = stream /\ arrived' = arrived /\ peer' = peer
      /\ at' = at /\ executed' = executed
      /\ lost' = lost /\ flooded' = flooded
      /\ pc \in {"header", "body", "http"} /\ pc' \in {pc, "overrun"}
  BY <1>1 DEF Recv, netVars, historyVars
<1>3. SUFFICES ASSUME peer[c] # "gone"
               PROVE  IF Served(c)'
                      THEN /\ pc' = "header" => InHeader(c)'
                           /\ pc' = "body" => InBody(c)'
                           /\ pc' = "http" => InHttp(c)'
                      ELSE Waiting(c)'
  BY <1>2 DEF InOrder
<1>4. CASE c # at
  <2>1. Waiting(c) /\ ~Served(c)'
    BY <1>2, <1>3, <1>4 DEF OrderInv, Served
  <2>2. read'[c] = read[c]
    BY <1>1, <1>4 DEF TypesInv, ReceptionTypeOK
  <2>3. Waiting(c)'
    BY <1>2, <1>3, <2>1, <2>2, WaitingKept DEF Kept
  <2> QED
    BY <2>1, <2>3
<1>5. CASE c = at
  <2>1. /\ nb_read \in Nat /\ BUF_SIZE \in Nat
        /\ BUF_SIZE > HEADER /\ BUF_SIZE >= MAX_RPC_PACKET_SIZE
        /\ MAX_RPC_PACKET_SIZE \in Nat /\ stream[c] \in Streams
        /\ Served(c) /\ Served(c)'
    BY <1>2, <1>5, ReceptionAssumption DEF TypesInv, ReceptionTypeOK,
       Served, HEADER
  <2>2. ASSUME pc = "header" PROVE InHeader(c)'
    <3>1. PICK m \in DOMAIN stream[c] :
              InBuffer(c, m, nb_read) /\ DoneBefore(c, m)
      BY <1>3, <2>1, <2>2 DEF OrderInv, InHeader
    <3>2. PICK o \in Nat : o = nb_read /\ o = Offset
      BY <2>1, <2>2 DEF Offset
    <3>3. o + n <= HEADER
      BY <1>1, <2>2, <3>2 DEF Wanted
    <3>4. PICK size \in Nat : size = Length(stream[c][m]) /\ size >= HEADER
      BY <2>1, StreamType
    <3>5. o + n <= size /\ o + n <= BUF_SIZE
      BY <2>1, <3>3, <3>4 DEF HEADER
    <3>6. InBuffer(c, m, o + n)'
      BY <1>1, <1>5, <3>1, <3>2, <3>4, <3>5, InBufferGrows
    <3>7. DoneBefore(c, m)'
      BY <1>2, <3>1 DEF DoneBefore, MayBeLeftOut
    <3>8. nb_read' = o + n /\ nb_read' # 0
      BY <1>1, <3>2
    <3>9. InBuffer(c, m, nb_read)'
      BY <3>6, <3>8 DEF InBuffer
    <3> QED
      BY <1>2, <3>7, <3>8, <3>9 DEF InHeader
  <2>3. ASSUME pc = "body", pc' = "body" PROVE InBody(c)'
    <3>1. PICK m \in DOMAIN stream[c] :
              /\ buf[HEADER] = <<c, m, HEADER>> /\ DoneBefore(c, m)
              /\ stream[c][m].packet_size <= MAX_RPC_PACKET_SIZE
              /\ stream[c][m].packet_size >= HEADER =>
                     InBuffer(c, m, HEADER + nb_read)
      BY <1>3, <2>1, <2>3 DEF OrderInv, InBody
    <3>2. PICK o \in Nat : o = HEADER + nb_read /\ o = Offset
      BY <2>1, <2>3 DEF Offset, HEADER
    <3>3. PICK size \in Nat : size = stream[c][m].packet_size
      BY <2>1, StreamType
    <3>4. o + n <= BUF_SIZE
      BY <1>1, <2>1, <2>3, <3>2
    <3>5. DoneBefore(c, m)'
      BY <1>2, <3>1 DEF DoneBefore, MayBeLeftOut
    <3>6. buf'[HEADER] = buf[HEADER]
      <4>1. HEADER \in 1..BUF_SIZE /\ ~(HEADER - o \in 1..n)
        BY <2>1, <3>2 DEF HEADER
      <4> QED
        BY <1>1, <3>2, <4>1
    <3>7. ASSUME size >= HEADER PROVE InBuffer(c, m, HEADER + nb_read)'
      <4>1. Length(stream[c][m]) = size
        BY <3>3, <3>7 DEF Length, HEADER
      <4>2. Wanted = size - HEADER
        BY <2>3, <3>1, <3>3, <3>7 DEF Wanted, PacketOf, Undersized, HEADER
      <4>3. o + n <= size
        BY <1>1, <2>1, <3>2, <3>3, <4>2 DEF HEADER
      <4>4. InBuffer(c, m, o)
        BY <3>1, <3>2, <3>3, <3>7
      <4>5. InBuffer(c, m, o + n)'
        BY <1>1, <1>5, <3>2, <3>4, <4>1, <4>3, <4>4, InBufferGrows
      <4>6. HEADER + nb_read' = o + n
        BY <1>1, <2>1, <3>2 DEF HEADER
      <4> QED
        BY <4>5, <4>6 DEF InBuffer
    <3>8. nb_read' # 0
      BY <1>1, <2>1
    <3> QED
      BY <1>2, <3>1, <3>3, <3>5, <3>6, <3>7, <3>8 DEF InBody
  <2>4. ASSUME pc = "http" PROVE InHttp(c)'
    <3>1. InHttp(c)
      BY <1>3, <2>1, <2>4 DEF OrderInv
    <3>2. /\ read[c] \in Nat /\ read'[c] = read[c] + n
      BY <1>1, <1>5 DEF TypesInv, ReceptionTypeOK
    <3>3. read'[c] >= read[c] /\ read'[c] \in Nat
      BY <3>2
    <3> QED
      BY <1>2, <3>1, <3>3, BehindKept DEF InHttp
  <2> QED
    BY <1>2, <2>1, <2>2, <2>3, <2>4
<1> QED
  BY <1>4, <1>5
-----------------------------------------------------------------------------
(* A connection that is no longer served and did not see a reset now       *)
(* either: all was read, or the peer has closed and no more will come, or  *)
(* nothing was asked of the socket.                                        *)
LEMMA EndOfRecv ==
    ASSUME TypesInv, NEW result, RecvEnds(result), peer'[at] # "gone"
    PROVE  /\ peer' = peer /\ peer[at] # "gone"
           /\ \/ pc = "body" /\ Undersized /\ nb_read = 0 /\ result = -1
              \/ nb_read = Wanted /\ result = ret
              \/ nb_read < Wanted /\ result = 0
                 /\ peer[at] = "closed" /\ Unread(at) = 0
  BY PeerOfRecvEnds

(* Connections that are not served wait as before.                         *)
LEMMA OthersWait ==
    ASSUME TypesInv, OrderInv, NEW c \in Conns, c # at, peer'[c] # "gone",
           NEW result, RecvEnds(result),
           stream' = stream, read' = read, arrived' = arrived,
           lost \subseteq lost', flooded \subseteq flooded',
           \/ executed' = executed
           \/ \E r \in Executions : r.on # c /\ executed' = Append(executed, r)
    PROVE  Waiting(c)'
<1>1. peer'[c] = peer[c]
  BY PeerOfRecvEnds DEF TypesInv, ReceptionTypeOK
<1>2. Waiting(c)
  BY <1>1 DEF OrderInv, Served
<1> QED
  BY <1>1, <1>2, WaitingKept DEF Kept

LEMMA RequestIsNotShort ==
    ASSUME NEW p, IsRequest(p)
    PROVE  p.packet_size >= HEADER
  BY DEF IsRequest, Requests, expected_size, HEADER

LEMMA InOrderOfHeaderRead ==
    ASSUME TypesInv, OrderInv, NEW c \in Conns, HeaderRead
    PROVE  InOrder(c)'
<1>1. PICK u : u = buf[HEADER]
  OBVIOUS
<1>2. PICK result \in -1..HEADER :
          /\ RecvEnds(result)
          /\ LET refused == \/ result \in 0..HEADER-1
                            \/ u = Nothing \/ u[3] # HEADER
                            \/ PacketOf(u).packet_size > MAX_RPC_PACKET_SIZE
             IN  /\ pc' = IF refused THEN "poll" ELSE "body"
                 /\ lost' = IF refused THEN lost \cup {at} ELSE lost
  BY <1>1 DEF HeaderRead
<1>3. /\ stream' = stream /\ arrived' = arrived /\ read' = read /\ buf' = buf
      /\ at' = at /\ executed' = executed /\ nb_read' = 0 /\ pc = "header"
      /\ lost \subseteq lost' /\ flooded' = flooded
  BY <1>2 DEF HeaderRead
<1>4. SUFFICES ASSUME peer'[c] # "gone"
               PROVE  IF Served(c)'
                      THEN /\ pc' = "header" => InHeader(c)'
                           /\ pc' = "body" => InBody(c)'
                           /\ pc' = "http" => InHttp(c)'
                      ELSE Waiting(c)'
  BY DEF InOrder
<1>5. CASE c # at
  BY <1>2, <1>3, <1>4, <1>5, OthersWait DEF Served
<1>6. CASE c = at
  <2>1. /\ peer' = peer /\ peer[c] # "gone"
        /\ \/ nb_read = HEADER /\ result = ret
           \/ result = 0 /\ peer[c] = "closed" /\ Unread(c) = 0
    BY <1>2, <1>3, <1>4, <1>6, EndOfRecv DEF Wanted
  <2>2. PICK m \in DOMAIN stream[c] :
            InBuffer(c, m, nb_read) /\ DoneBefore(c, m)
    BY <1>3, <1>6, <2>1 DEF OrderInv, InHeader, Served
  <2>3. /\ stream \in [Conns -> Streams] /\ stream[c] \in Streams
        /\ read[c] \in Nat /\ arrived[c] \in Nat /\ ret \in Nat
        /\ StreamSize(c) \in Nat /\ m \in Nat
    <3>1. ret \in Nat
      BY DEF TypesInv, ReceptionTypeOK
    <3>2. stream \in [Conns -> Streams] /\ stream[c] \in Streams
      BY DEF TypesInv, ReceptionTypeOK
    <3>3. read[c] \in Nat /\ arrived[c] \in Nat
      BY DEF TypesInv, ReceptionTypeOK
    <3>4. StreamSize(c) \in Nat
      BY <3>2, StartFacts
    <3>5. m \in Nat
      BY <3>2, StreamType
    <3> QED
      BY <3>1, <3>2, <3>3, <3>4, <3>5
  <2>4. DoneBefore(c, m)'
    BY <1>3, <2>2, <2>3, DoneKept
  <2>5. CASE ~(nb_read = HEADER)
    <3>1. pc' = "poll"
      BY <1>2, <2>1, <2>5 DEF HEADER
    <3>2. Stuck(c)'
      BY <1>3, <2>1, <2>5 DEF Stuck, Unread
    <3> QED
      BY <3>1, <3>2 DEF Served, Waiting
  <2>6. CASE nb_read = HEADER
    <3>1. /\ \A k \in 1..HEADER : buf[k] = <<c, m, k>>
          /\ read[c] + 1 = Start(c, m) + HEADER
      BY <2>2, <2>6 DEF InBuffer
    <3>2. u = <<c, m, HEADER>>
      BY <1>1, <3>1 DEF HEADER
    <3>3. /\ u # Nothing /\ u[3] = HEADER /\ PacketOf(u) = stream[c][m]
      BY <3>2 DEF Nothing, PacketOf
    <3>4. PICK size \in Nat : size = Length(stream[c][m]) /\ size >= HEADER
      BY <2>3, StreamType
    <3>5. PICK st \in Nat : /\ st = Start(c, m)
                            /\ Start(c, m + 1) = st + size
                            /\ m + 1 \in 1..Len(stream[c])+1
      BY <2>3, <3>4, StartFacts
    <3>6. Start(c, m)' = Start(c, m) /\ Start(c, m + 1)' = Start(c, m + 1)
      BY <1>3 DEF Start, StreamSize
    <3>7. CASE pc' = "body"
      <4>1. stream[c][m].packet_size <= MAX_RPC_PACKET_SIZE
        <5>1. /\ stream[c][m].packet_size \in Nat
              /\ ~(stream[c][m].packet_size > MAX_RPC_PACKET_SIZE)
          BY <1>2, <2>3, <3>3, <3>7, StreamType
        <5> QED
          BY <5>1, ReceptionAssumption
      <4>2. InBuffer(c, m, HEADER + 0)'
        BY <1>3, <3>1, <3>4, <3>6 DEF InBuffer, HEADER
      <4>3. InBuffer(c, m, HEADER + nb_read)'
        BY <1>3, <4>2 DEF InBuffer
      <4> QED
        BY <1>1, <1>3, <1>6, <2>4, <3>2, <3>7, <4>1, <4>3 DEF InBody, Served
    <3>8. CASE pc' = "poll" /\ size = HEADER
      <4>1. at \in lost'
        BY <1>2, <3>8
      <4>2. read'[c] + 1 = Start(c, m + 1)'
        BY <1>3, <3>1, <3>5, <3>6, <3>8
      <4>3. DoneBefore(c, m + 1)'
        <5>1. ASSUME NEW i \in DOMAIN executed', executed'[i].on = c
              PROVE  executed'[i].from[2] < m + 1
          <6>1. executed'[i].from[2] < m /\ executed'[i] \in Executions
            BY <1>3, <2>4, <5>1 DEF DoneBefore, TypesInv
          <6>2. executed'[i].from[2] \in Nat
            BY <6>1 DEF Executions
          <6> QED
            BY <2>3, <6>1, <6>2
        <5>2. ASSUME NEW n \in 1..m
              PROVE  IsRequest(stream'[c][n]) =>
                \/ \E i \in DOMAIN executed' : /\ executed'[i].on = c
                                               /\ executed'[i].from = <<c, n>>
                \/ MayBeLeftOut(c, n)'
          <6>1. CASE n = m
            <7>1. IsRequest(stream[c][m]) => stream[c][m].packet_size = HEADER
              <8>1. stream[c][m].packet_size \in Nat
                BY <2>3, StreamType
              <8>2. IsRequest(stream[c][m]) => stream[c][m].packet_size >= HEADER
                BY RequestIsNotShort
              <8> QED
                BY <3>4, <3>8, <8>1, <8>2 DEF Length, HEADER
            <7> QED
              BY <1>3, <1>6, <4>1, <6>1, <7>1 DEF MayBeLeftOut
          <6>2. CASE n # m
            <7>1. n \in 1..m-1
              BY <2>3, <6>2
            <7> QED
              BY <2>4, <7>1 DEF DoneBefore
          <6> QED
            BY <6>1, <6>2
        <5>3. 1..(m+1)-1 = 1..m
          BY <2>3
        <5> QED
          BY <5>1, <5>2, <5>3 DEF DoneBefore
      <4>4. Waiting(c)'
        BY <1>3, <3>5, <4>2, <4>3 DEF Waiting
      <4> QED
        BY <3>8, <4>4 DEF Served
    <3>9. CASE pc' = "poll" /\ size # HEADER
      <4>1. 3 \in 1..size /\ 2 \in 1..size
        BY <3>4, <3>9 DEF HEADER
      <4>2. st + (3 - 1) \in 1..StreamSize(c) /\ Unit(c, st + (3 - 1)) = <<c, m, 3>>
        BY <2>3, <3>4, <3>5, <4>1, StartFacts
      <4>3. read[c] + 1 = st + (3 - 1)
        BY <3>1, <3>5 DEF HEADER
      <4>4. read[c] < StreamSize(c)
        BY <2>3, <4>2, <4>3
      <4>5. <<c, m, 3>>[3] # 1
        OBVIOUS
      <4>6. Unit(c, read[c] + 1)[3] # 1
        BY <4>2, <4>3, <4>5
      <4>7. Behind(c)'
        <5>1. Start(c, m)' <= read'[c] + 1
          BY <1>3, <3>5, <3>6, <4>3
        <5> QED
          BY <1>3, <2>4, <5>1 DEF DoneBefore, Behind
      <4>8. c \in lost'
        BY <1>2, <1>6, <3>9
      <4>9. Stuck(c)'
        BY <1>3, <4>4, <4>6, <4>7, <4>8 DEF Stuck, StreamSize, Unit
      <4> QED
        BY <3>9, <4>9 DEF Served, Waiting
    <3> QED
      BY <1>2, <3>7, <3>8, <3>9
  <2> QED
    BY <2>5, <2>6
<1> QED
  BY <1>5, <1>6

(* Unless its connection saw a reset, the packet a body is read for is one *)
(* of that connection, and all of it is in the buffer but at the end.      *)
LEMMA BodyFacts ==
    ASSUME TypesInv, OrderInv, BodyRead, peer'[at] # "gone"
    PROVE  \E m \in DOMAIN stream[at] : \E r \in Executions :
               /\ peer' = peer /\ DoneBefore(at, m)
               /\ r.on = at /\ r.from = <<at, m>>
               /\ executed' = IF IsRequest(stream[at][m])
                              THEN Append(executed, r) ELSE executed
               /\ \/ r.whole /\ InBuffer(at, m, Length(stream[at][m]))
                  \/ peer[at] = "closed" /\ Unread(at) = 0
<1>1. PICK result \in -1..MAX_RPC_PACKET_SIZE : \E r \in Executions :
          LET u == buf[HEADER]
          IN  /\ RecvEnds(result)
              /\ r.on = at /\ r.from = <<u[1], u[2]>>
              /\ r.whole <=> \A k \in 1..PacketOf(u).packet_size :
                                 buf[k] = <<u[1], u[2], k>>
              /\ executed' = IF result # -1 /\ IsRequest(PacketOf(u))
                             THEN Append(executed, r) ELSE executed
  BY RequestFacts
<1>2. PICK r \in Executions :
          LET u == buf[HEADER]
          IN  /\ RecvEnds(result)
              /\ r.on = at /\ r.from = <<u[1], u[2]>>
              /\ r.whole <=> \A k \in 1..PacketOf(u).packet_size :
                                 buf[k] = <<u[1], u[2], k>>
              /\ executed' = IF result # -1 /\ IsRequest(PacketOf(u))
                             THEN Append(executed, r) ELSE executed
  BY <1>1
<1>3. /\ peer' = peer /\ peer[at] # "gone"
      /\ \/ Undersized /\ nb_read = 0
         \/ result # -1 /\ nb_read = Wanted
         \/ result # -1 /\ peer[at] = "closed" /\ Unread(at) = 0
  BY <1>2, EndOfRecv DEF TypesInv, ReceptionTypeOK
<1>4. at \in Conns /\ nb_read \in Nat
  BY DEF TypesInv, ReceptionTypeOK
<1>5. PICK m \in DOMAIN stream[at] :
          /\ buf[HEADER] = <<at, m, HEADER>> /\ DoneBefore(at, m)
          /\ stream[at][m].packet_size >= HEADER \/ nb_read = 0 =>
                 InBuffer(at, m, HEADER + nb_read)
  BY <1>3, <1>4 DEF OrderInv, InBody, Served, BodyRead
<1>6. PICK size \in Nat : size = stream[at][m].packet_size
  BY <1>4, StreamType DEF TypesInv, ReceptionTypeOK
<1>7. PacketOf(buf[HEADER]) = stream[at][m]
  BY <1>5 DEF PacketOf
<1>8. Undersized <=> size < HEADER
  BY <1>6, <1>7 DEF Undersized
<1>9. /\ r.from = <<at, m>>
      /\ r.whole <=> \A k \in 1..size : buf[k] = <<at, m, k>>
  BY <1>2, <1>5, <1>6, <1>7
<1>10. executed' = IF IsRequest(stream[at][m])
                   THEN Append(executed, r) ELSE executed
  <2>1. size < HEADER => ~IsRequest(stream[at][m])
    BY <1>6, RequestIsNotShort DEF HEADER
  <2> QED
    BY <1>2, <1>3, <1>7, <1>8, <2>1
<1>11. ASSUME Undersized, nb_read = 0
       PROVE  r.whole /\ InBuffer(at, m, Length(stream[at][m]))
  <2>1. Length(stream[at][m]) = HEADER + nb_read
    BY <1>6, <1>8, <1>11 DEF Length, HEADER
  <2>2. InBuffer(at, m, Length(stream[at][m]))
    BY <1>5, <1>11, <2>1
  <2>3. \A k \in 1..size : k \in 1..Length(stream[at][m])
    BY <1>6, <1>8, <1>11, <2>1 DEF HEADER
  <2> QED
    BY <1>9, <2>2, <2>3 DEF InBuffer
<1>12. ASSUME nb_read = Wanted, ~Undersized
       PROVE  r.whole /\ InBuffer(at, m, Length(stream[at][m]))
  <2>1. Wanted = size - HEADER /\ size >= HEADER
    BY <1>6, <1>7, <1>8, <1>12 DEF Wanted, BodyRead, HEADER
  <2>2. HEADER + nb_read = size /\ Length(stream[at][m]) = size
    BY <1>4, <1>6, <1>12, <2>1 DEF HEADER, Length
  <2>3. InBuffer(at, m, size)
    BY <1>5, <1>6, <2>1, <2>2
  <2> QED
    BY <1>9, <2>2, <2>3 DEF InBuffer
<1>13. ~(nb_read = Wanted /\ Undersized)
  <2>1. nb_read + HEADER <= BUF_SIZE /\ BUF_SIZE \in Nat
    BY ReceptionAssumption DEF BodyRead, TypesInv
  <2>2. Undersized => Wanted = BUF_SIZE
    BY DEF BodyRead, Wanted
  <2> QED
    BY <1>4, <2>1, <2>2 DEF HEADER
<1> QED
  BY <1>2, <1>3, <1>5, <1>9, <1>10, <1>11, <1>12, <1>13

LEMMA InOrderOfBodyRead ==
    ASSUME TypesInv, OrderInv, NEW c \in Conns, BodyRead
    PROVE  InOrder(c)'
<1>1. /\ stream' = stream /\ arrived' = arrived /\ read' = read /\ buf' = buf
      /\ at' = at /\ nb_read' = 0 /\ pc' = "poll"
      /\ lost' = lost /\ flooded' = flooded
  BY DEF BodyRead
<1>2. SUFFICES ASSUME peer'[c] # "gone" PROVE Waiting(c)'
  BY <1>1 DEF InOrder, Served
<1>3. CASE c # at
  <2>1. PICK result, r : /\ r \in Executions /\ RecvEnds(result) /\ r.on = at
                         /\ executed' \in {executed, Append(executed, r)}
    BY RequestFacts
  <2>2. \/ executed' = executed
        \/ \E x \in Executions : x.on # c /\ executed' = Append(executed, x)
    BY <1>3, <2>1
  <2> QED
    BY <1>1, <1>2, <1>3, <2>1, <2>2, OthersWait
<1>4. CASE c = at
  <2>1. PICK m \in DOMAIN stream[c] : \E r \in Executions :
            /\ peer' = peer /\ DoneBefore(c, m)
            /\ r.on = c /\ r.from = <<c, m>>
            /\ executed' = IF IsRequest(stream[c][m])
                           THEN Append(executed, r) ELSE executed
            /\ \/ r.whole /\ InBuffer(c, m, Length(stream[c][m]))
               \/ peer[c] = "closed" /\ Unread(c) = 0
    BY <1>2, <1>4, BodyFacts
  <2>2. PICK r \in Executions :
            /\ peer' = peer /\ DoneBefore(c, m)
            /\ r.on = c /\ r.from = <<c, m>>
            /\ executed' = IF IsRequest(stream[c][m])
                           THEN Append(executed, r) ELSE executed
            /\ \/ r.whole /\ InBuffer(c, m, Length(stream[c][m]))
               \/ peer[c] = "closed" /\ Unread(c) = 0
    BY <2>1
  <2>3. CASE peer[c] = "closed" /\ Unread(c) = 0
    BY <1>1, <2>2, <2>3 DEF Waiting, Stuck, Unread
  <2>4. CASE InBuffer(c, m, Length(stream[c][m]))
    <3>1. stream \in [Conns -> Streams] /\ stream[c] \in Streams /\ m \in Nat
      BY StreamType DEF TypesInv, ReceptionTypeOK
    <3>2. /\ Start(c, m + 1) = Start(c, m) + Length(stream[c][m])
          /\ m + 1 \in 1..Len(stream[c])+1
      BY <3>1, StartFacts
    <3>3. Start(c, m + 1)' = Start(c, m + 1)
      BY <1>1 DEF Start, StreamSize
    <3>4. read'[c] + 1 = Start(c, m + 1)'
      BY <1>1, <2>4, <3>2, <3>3 DEF InBuffer
    <3>5. /\ executed \in Seq(Executions)
          /\ \A i \in DOMAIN executed : executed[i].from[2] \in Nat
      <4>1. executed \in Seq(Executions)
        BY DEF TypesInv
      <4>2. \A i \in DOMAIN executed : executed[i] \in Executions
        BY <4>1
      <4> QED
        BY <4>1, <4>2 DEF Executions
    <3>6. /\ \A i \in DOMAIN executed : /\ i \in DOMAIN executed'
                                        /\ executed'[i] = executed[i]
          /\ IsRequest(stream[c][m]) =>
                 /\ Len(executed)+1 \in DOMAIN executed'
                 /\ executed'[Len(executed)+1] = r
          /\ \A i \in DOMAIN executed' :
                 \/ i \in DOMAIN executed
                 \/ executed'[i] = r
      <4>1. CASE IsRequest(stream[c][m])
        <5>1. executed' = Append(executed, r)
          BY <2>2, <4>1
        <5> QED
          BY <3>5, <5>1
      <4>2. CASE ~IsRequest(stream[c][m])
        BY <2>2, <4>2
      <4> QED
        BY <4>1, <4>2
    <3>7. ASSUME NEW i \in DOMAIN executed', executed'[i].on = c
          PROVE  executed'[i].from[2] < m + 1
      <4>1. CASE i \in DOMAIN executed
        BY <2>2, <3>1, <3>5, <3>6, <3>7, <4>1 DEF DoneBefore
      <4>2. CASE executed'[i] = r
        BY <2>2, <3>1, <4>2
      <4> QED
        BY <3>6, <4>1, <4>2
    <3>8. ASSUME NEW n \in 1..(m+1)-1, IsRequest(stream'[c][n])
          PROVE  \/ \E i \in DOMAIN executed' : /\ executed'[i].on = c
                                                /\ executed'[i].from = <<c, n>>
                 \/ MayBeLeftOut(c, n)'
      <4>1. CASE n = m
        BY <1>1, <2>2, <3>6, <3>8, <4>1
      <4>2. CASE n # m
        <5>1. n \in 1..m-1 /\ IsRequest(stream[c][n])
          BY <1>1, <3>1, <3>8, <4>2
        <5>2. \/ \E i \in DOMAIN executed : /\ executed[i].on = c
                                            /\ executed[i].from = <<c, n>>
              \/ MayBeLeftOut(c, n)
          BY <2>2, <5>1 DEF DoneBefore
        <5> QED
          BY <1>1, <3>6, <5>2 DEF MayBeLeftOut
      <4> QED
        BY <4>1, <4>2
    <3>9. DoneBefore(c, m + 1)'
      BY <3>7, <3>8 DEF DoneBefore
    <3> QED
      BY <1>1, <3>2, <3>4, <3>9 DEF Waiting
  <2> QED
    BY <2>2, <2>3, <2>4
<1> QED
  BY <1>3, <1>4

(* recv_until reads on until nothing more comes or the buffer is full, and *)
(* then may stop where a packet begins.                                    *)
LEMMA InOrderOfHttpRead ==
    ASSUME TypesInv, OrderInv, NEW c \in Conns, HttpRead
    PROVE  InOrder(c)'
<1>1. PICK result : RecvEnds(result)
  BY DEF HttpRead
<1>2. /\ stream' = stream /\ arrived' = arrived /\ read' = read /\ buf' = buf
      /\ at' = at /\ executed' = executed /\ nb_read' = 0 /\ pc' = "poll"
      /\ lost' = lost /\ flooded \subseteq flooded' /\ pc = "http"
      /\ nb_read = BUF_SIZE => at \in flooded'
  BY DEF HttpRead
<1>3. SUFFICES ASSUME peer'[c] # "gone" PROVE Waiting(c)'
  BY <1>2 DEF InOrder, Served
<1>4. CASE c # at
  BY <1>1, <1>2, <1>3, <1>4, OthersWait
<1>5. CASE c = at
  <2>1. /\ peer' = peer /\ peer[c] # "gone"
        /\ nb_read = Wanted \/ (peer[c] = "closed" /\ Unread(c) = 0)
    BY <1>1, <1>2, <1>3, <1>5, EndOfRecv
  <2>2. CASE peer[c] = "closed" /\ Unread(c) = 0
    BY <1>2, <2>1, <2>2 DEF Waiting, Stuck, Unread
  <2>3. CASE nb_read = Wanted
    <3>1. c \in lost' /\ c \in flooded'
      BY <1>2, <1>5, <2>1, <2>3 DEF Wanted, OrderInv, InHttp, Served
    <3>2. Behind(c)
      BY <1>2, <1>5, <2>1 DEF OrderInv, InHttp, Served
    <3>3. /\ stream \in [Conns -> Streams] /\ stream[c] \in Streams
          /\ read[c] \in Nat /\ StreamSize(c) \in Nat
          /\ read[c] <= arrived[c] /\ arrived[c] <= StreamSize(c)
          /\ arrived[c] \in Nat
      BY StartFacts DEF TypesInv, ReceptionTypeOK
    <3>4. CASE read[c] = StreamSize(c)
      BY <1>2, <3>4 DEF Waiting, Stuck, StreamSize
    <3>5. CASE read[c] < StreamSize(c) /\ Unit(c, read[c] + 1)[3] # 1
      <4>1. Behind(c)'
        BY <1>2, <3>2 DEF Behind, Start, StreamSize
      <4> QED
        BY <1>2, <3>1, <3>5, <4>1 DEF Waiting, Stuck, StreamSize, Unit
    <3>6. CASE read[c] < StreamSize(c) /\ Unit(c, read[c] + 1)[3] = 1
      <4>1. read[c] + 1 \in 1..StreamSize(c)
        BY <3>3, <3>6
      <4>2. PICK m, k : /\ m \in DOMAIN stream[c]
                        /\ k \in 1..Length(stream[c][m])
                        /\ read[c] + 1 = Start(c, m) + (k - 1)
                        /\ Unit(c, read[c] + 1) = <<c, m, k>>
        BY <3>3, <4>1, StartFacts
      <4>3. k = 1
        BY <3>6, <4>2
      <4>4. m \in Nat /\ Start(c, m) \in Nat /\ m \in 1..Len(stream[c])+1
        <5>1. Len(stream[c]) \in Nat /\ m \in 1..Len(stream[c])
          BY <3>3, <4>2, StreamType
        <5>2. Start(c, m) \in Nat
          BY <3>3, <4>2, StartFacts
        <5> QED
          BY <5>1, <5>2
      <4>5. read[c] + 1 = Start(c, m)
        BY <4>2, <4>3, <4>4
      <4>6. ASSUME NEW i \in DOMAIN executed, executed[i].on = c
            PROVE  executed[i].from[2] < m
        <5>1. PICK b \in DOMAIN stream[c] :
                  /\ Start(c, b) <= read[c] + 1
                  /\ executed[i].from[2] < b
          BY <3>2, <4>6 DEF Behind
        <5>2. b \in Nat /\ Start(c, b) \in Nat
          BY <3>3, StreamType, StartFacts
        <5>3. ~(m < b)
          <6> SUFFICES ASSUME m < b PROVE FALSE
            OBVIOUS
          <6>1. Start(c, m) < Start(c, b)
            BY <3>3, <4>2, StartsGrow
          <6> QED
            BY <4>4, <4>5, <5>1, <5>2, <6>1
        <5>4. executed[i].from[2] \in Nat
          <6>1. executed \in Seq(Executions)
            BY DEF TypesInv
          <6>2. executed[i] \in Executions
            BY <6>1
          <6> QED
            BY <6>2 DEF Executions
        <5> QED
          BY <4>4, <5>1, <5>2, <5>3, <5>4
      <4>7. DoneBefore(c, m)'
        BY <1>2, <3>1, <4>6 DEF DoneBefore, MayBeLeftOut
      <4>8. Start(c, m)' = Start(c, m)
        BY <1>2 DEF Start, StreamSize
      <4> QED
        BY <1>2, <4>4, <4>5, <4>7, <4>8 DEF Waiting
    <3> QED
      BY <3>3, <3>4, <3>5, <3>6
  <2> QED
    BY <2>1, <2>2, <2>3
<1> QED
  BY <1>4, <1>5

LEMMA OrderInit == Init => OrderInv
<1> SUFFICES ASSUME Init, NEW c \in Conns PROVE Waiting(c)
  BY DEF Init, OrderInv, Served
<1>1. stream[c] \in Streams /\ Start(c, 1) = 1
  BY StartFacts DEF Init
<1>2. 1 \in 1..Len(stream[c])+1
  BY <1>1, StreamType
<1>3. DoneBefore(c, 1)
  BY DEF Init, DoneBefore
<1>4. read[c] + 1 = Start(c, 1)
  BY <1>1 DEF Init
<1> QED
  BY <1>2, <1>3, <1>4 DEF Waiting

LEMMA OrderStep ==
    TypesInv /\ GoneInv /\ OrderInv /\ [Next]_vars => OrderInv'
<1> SUFFICES ASSUME TypesInv, GoneInv, OrderInv, [Next]_vars, NEW c \in Conns
             PROVE  InOrder(c)'
  BY DEF OrderInv, InOrder
<1>1. CASE UNCHANGED vars
  <2>1. InOrder(c)
    BY DEF OrderInv, InOrder
  <2> QED
    BY <1>1, <2>1 DEF vars, netVars, recvVars, historyVars, InOrder, Served,
       InHeader, InBody, InHttp, InBuffer, Waiting, Stuck, Behind, DoneBefore,
       MayBeLeftOut, Start, StreamSize, Unit, Unread
<1>2. CASE Next
  BY <1>2, InOrderOfPeers, InOrderOfPeek, InOrderOfRecv, InOrderOfHeaderRead,
     InOrderOfBodyRead, InOrderOfHttpRead DEF Next, Thread
<1> QED
  BY <1>1, <1>2
-----------------------------------------------------------------------------
(* What RequestFacts says of the history.                                  *)
LEMMA HistoryGrows ==
    ASSUME executed \in Seq(Executions), NEW r \in Executions,
           executed' = Append(executed, r)
    PROVE  /\ Len(executed) \in Nat /\ DOMAIN executed = 1..Len(executed)
           /\ DOMAIN executed' = 1..Len(executed)+1
           /\ Len(executed') = Len(executed)+1
           /\ \A i \in 1..Len(executed) : executed'[i] = executed[i]
           /\ executed'[Len(executed)+1] = r
  OBVIOUS

(* What ExecutedInOrder says of one request that was carried out.          *)
OneInOrder(i) ==
    LET c == executed[i].on
        m == executed[i].from[2]
    IN  peer[c] # "gone" =>
            /\ executed[i].from[1] = c /\ IsRequest(stream[c][m])
            /\ \A j \in 1..i-1 : executed[j].on = c => executed[j].from[2] < m
            /\ \A n \in 1..m-1 : IsRequest(stream[c][n]) =>
                   \/ \E j \in 1..i-1 : /\ executed[j].on = c
                                        /\ executed[j].from = <<c, n>>
                   \/ MayBeLeftOut(c, n)

LEMMA ExecutedStep ==
    TypesInv /\ OrderInv /\ ExecutedInOrder /\ [Next]_vars => ExecutedInOrder'
<1> SUFFICES ASSUME TypesInv, OrderInv, ExecutedInOrder, [Next]_vars
             PROVE  ExecutedInOrder'
  OBVIOUS
<1>1. /\ stream' = stream /\ lost \subseteq lost' /\ flooded \subseteq flooded'
      /\ \A c \in Conns : peer'[c] # "gone" => peer[c] # "gone"
  <2>1. peer \in [Conns -> {"open", "closed", "reset", "gone"}]
    BY DEF TypesInv, ReceptionTypeOK
  <2>2. CASE UNCHANGED vars
    BY <2>2 DEF vars, netVars, historyVars
  <2>3. CASE \E d \in Conns : Arrive(d) \/ Leave(d) \/ CloseEntry(d) \/ Peek(d)
    BY <2>1, <2>3 DEF Arrive, Leave, CloseEntry, Peek, netVars, historyVars
  <2>4. CASE Recv
    BY <2>4 DEF Recv, netVars, historyVars
  <2>5. ASSUME NEW result, RecvEnds(result)
        PROVE  \A c \in Conns : peer'[c] # "gone" => peer[c] # "gone"
    BY <2>1, <2>5, PeerOfRecvEnds
  <2>6. CASE HeaderRead
    BY <2>5, <2>6 DEF HeaderRead
  <2>7. CASE BodyRead
    BY <2>5, <2>7 DEF BodyRead
  <2>8. CASE HttpRead
    BY <2>5, <2>8 DEF HttpRead
  <2> QED
    BY <2>2, <2>3, <2>4, <2>6, <2>7, <2>8 DEF Next, Thread
<1>2. /\ executed \in Seq(Executions)
      /\ \A i \in DOMAIN executed : executed[i] \in Executions
  <2>1. executed \in Seq(Executions)
    BY DEF TypesInv
  <2> QED
    BY <2>1
<1>3. \A i \in DOMAIN executed : OneInOrder(i) /\ executed[i].on \in Conns
  BY <1>2 DEF ExecutedInOrder, OneInOrder, Executions
<1>4. CASE executed' = executed
  <2>1. ASSUME NEW i \in DOMAIN executed PROVE OneInOrder(i)'
    <3>1. /\ OneInOrder(i)
          /\ peer'[executed[i].on] # "gone" => peer[executed[i].on] # "gone"
      BY <1>1, <1>3
    <3> QED
      BY <1>1, <1>4, <3>1 DEF OneInOrder, MayBeLeftOut
  <2> QED
    BY <1>4, <2>1 DEF ExecutedInOrder, OneInOrder
<1>5. CASE executed' # executed
  <2>1. BodyRead
    BY <1>5 DEF Next, Thread, Arrive, Leave, CloseEntry, Peek, Recv,
       HeaderRead, HttpRead, vars, historyVars
  <2>2. PICK r \in Executions : r.on = at /\ executed' = Append(executed, r)
    BY <1>5, <2>1, RequestFacts
  <2>3. PICK N \in Nat : N = Len(executed)
    BY <1>2, <2>2, HistoryGrows
  <2>4. /\ DOMAIN executed = 1..N /\ DOMAIN executed' = 1..N+1
        /\ \A i \in 1..N : executed'[i] = executed[i]
        /\ executed'[N+1] = r
    BY <1>2, <2>2, <2>3, HistoryGrows
  <2>5. ASSUME NEW i \in 1..N PROVE OneInOrder(i)'
    <3>1. /\ OneInOrder(i) /\ executed'[i] = executed[i]
          /\ peer'[executed[i].on] # "gone" => peer[executed[i].on] # "gone"
          /\ \A j \in 1..i-1 : executed'[j] = executed[j]
      <4>1. \A j \in 1..i-1 : j \in 1..N
        BY <2>3
      <4> QED
        BY <1>1, <1>3, <2>4, <4>1
    <3> QED
      BY <1>1, <3>1 DEF OneInOrder, MayBeLeftOut
  <2>6. OneInOrder(N+1)'
    <3>1. SUFFICES ASSUME peer'[at] # "gone"
                   PROVE  OneInOrder(N+1)'
      BY <2>2, <2>4 DEF OneInOrder
    <3>2. PICK m \in DOMAIN stream[at] : \E x \in Executions :
              /\ peer' = peer /\ DoneBefore(at, m)
              /\ x.on = at /\ x.from = <<at, m>>
              /\ executed' = IF IsRequest(stream[at][m])
                             THEN Append(executed, x) ELSE executed
      BY <2>1, <3>1, BodyFacts
    <3>3. PICK x \in Executions :
              /\ peer' = peer /\ DoneBefore(at, m)
              /\ x.on = at /\ x.from = <<at, m>>
              /\ executed' = IF IsRequest(stream[at][m])
                             THEN Append(executed, x) ELSE executed
      BY <3>2
    <3>4. IsRequest(stream[at][m]) /\ executed' = Append(executed, x)
      BY <1>5, <3>3
    <3>5. executed'[N+1] = x
      BY <1>2, <2>3, <3>4, HistoryGrows
    <3>6. (N+1)-1 = N
      BY <2>3
    <3>7. \A j \in 1..N : executed'[j].on = at => executed'[j].from[2] < m
      BY <2>4, <3>3 DEF DoneBefore
    <3>8. \A n \in 1..m-1 : IsRequest(stream[at][n]) =>
              \/ \E j \in 1..N : /\ executed'[j].on = at
                                 /\ executed'[j].from = <<at, n>>
              \/ MayBeLeftOut(at, n)
      BY <2>4, <3>3 DEF DoneBefore
    <3>9. /\ executed'[N+1].on = at
          /\ executed'[N+1].from[1] = at /\ executed'[N+1].from[2] = m
      <4>1. x.on = at /\ x.from = <<at, m>>
        BY <3>3
      <4> QED
        BY <3>5, <4>1
    <3>10. PICK c : c = at
      OBVIOUS
    <3>11. /\ executed'[N+1].on = c /\ executed'[N+1].from[1] = c
           /\ executed'[N+1].from[2] = m /\ IsRequest(stream'[c][m])
           /\ \A j \in 1..(N+1)-1 :
                  executed'[j].on = c => executed'[j].from[2] < m
           /\ \A n \in 1..m-1 : IsRequest(stream'[c][n]) =>
                  \/ \E j \in 1..(N+1)-1 : /\ executed'[j].on = c
                                           /\ executed'[j].from = <<c, n>>
                  \/ MayBeLeftOut(c, n)'
      BY <1>1, <3>4, <3>6, <3>7, <3>8, <3>9, <3>10 DEF MayBeLeftOut
    <3> QED
      BY <3>11 DEF OneInOrder
  <2>7. \A i \in DOMAIN executed' : OneInOrder(i)'
    <3>1. \A i \in DOMAIN executed' : i \in 1..N \/ i = N+1
      BY <2>3, <2>4
    <3> QED
      BY <2>5, <2>6, <3>1
  <2> QED
    BY <2>7 DEF ExecutedInOrder, OneInOrder
<1> QED
  BY <1>4, <1>5

LEMMA TornStep ==
    TypesInv /\ GoneInv /\ OrderInv /\ TornInv /\ [Next]_vars => TornInv'
<1> SUFFICES ASSUME TypesInv, GoneInv, OrderInv, TornInv, [Next]_vars
             PROVE  TornInv'
  OBVIOUS
<1>1. /\ executed \in Seq(Executions)
      /\ \A i \in DOMAIN executed : executed[i].on \in Conns
  <2>1. executed \in Seq(Executions)
    BY DEF TypesInv
  <2>2. \A i \in DOMAIN executed : executed[i] \in Executions
    BY <2>1
  <2> QED
    BY <2>1, <2>2 DEF Executions
<1>2. \A i \in DOMAIN executed : ~executed[i].whole => Ended(executed[i].on)
  BY DEF TornInv
<1> SUFFICES ASSUME NEW i \in DOMAIN executed', ~executed'[i].whole
             PROVE  \E c \in Conns :
                        /\ c = executed'[i].on /\ Ended(c)'
                        /\ \A j \in i+1..Len(executed') : executed'[j].on # c
  BY DEF TornInv, Ended, Served, Unread
<1>3. ASSUME NEW c \in Conns, Ended(c) PROVE Ended(c)'
  <2>1. /\ peer \in [Conns -> {"open", "closed", "reset", "gone"}]
        /\ arrived \in [Conns -> Nat] /\ read \in [Conns -> Nat]
    BY DEF TypesInv, ReceptionTypeOK
  <2>2. peer[c] # "open" /\ Unread(c) = 0 /\ ~(pc # "poll" /\ at = c)
    BY <1>3 DEF Ended, Served
  <2>3. SUFFICES /\ peer'[c] # "open" /\ arrived'[c] = arrived[c]
                 /\ read'[c] = read[c] /\ (pc' # "poll" => at' # c)
    BY <2>2 DEF Ended, Served, Unread
  <2>4. CASE UNCHANGED vars
    BY <2>2, <2>4 DEF vars, netVars, recvVars
  <2>5. CASE \E d \in Conns : Arrive(d)
    BY <2>1, <2>2, <2>5 DEF Arrive
  <2>6. CASE \E d \in Conns : Leave(d)
    BY <2>1, <2>2, <2>6 DEF Leave
  <2>7. CASE \E d \in Conns : CloseEntry(d)
    BY <2>2, <2>7 DEF CloseEntry, netVars
  <2>8. CASE \E d \in Conns : Peek(d)
    BY <2>2, <2>8 DEF Peek, netVars
  <2>9. CASE Recv
    <3>1. c # at /\ peer' = peer /\ arrived' = arrived /\ at' = at
      BY <2>2, <2>9 DEF Recv, netVars
    <3>2. PICK n \in Nat \ {0} : read' = [read EXCEPT ![at] = @ + n]
      BY <2>9, RecvFacts
    <3> QED
      BY <2>1, <2>2, <3>1, <3>2
  <2>10. ASSUME NEW result, RecvEnds(result) PROVE peer'[c] # "open"
    BY <2>1, <2>2, <2>10, PeerOfRecvEnds
  <2>11. CASE HeaderRead
    BY <2>2, <2>10, <2>11 DEF HeaderRead
  <2>12. CASE BodyRead
    BY <2>2, <2>10, <2>12 DEF BodyRead
  <2>13. CASE HttpRead
    BY <2>2, <2>10, <2>13 DEF HttpRead
  <2> QED
    BY <2>4, <2>5, <2>6, <2>7, <2>8, <2>9, <2>11, <2>12, <2>13
       DEF Next, Thread
<1>4. CASE executed' = executed
  <2>1. PICK c \in Conns : c = executed[i].on /\ Ended(c)
    BY <1>1, <1>2, <1>4
  <2>2. \A j \in i+1..Len(executed) : executed[j].on # c
    BY <1>4, <2>1 DEF TornInv
  <2> QED
    BY <1>3, <1>4, <2>1, <2>2
<1>5. CASE executed' # executed
  <2>1. BodyRead
    BY <1>5 DEF Next, Thread, Arrive, Leave, CloseEntry, Peek, Recv,
       HeaderRead, HttpRead, vars, historyVars
  <2>2. PICK r \in Executions : r.on = at /\ executed' = Append(executed, r)
    BY <1>5, <2>1, RequestFacts
  <2>3. PICK N \in Nat : N = Len(executed)
    BY <1>1, <2>2, HistoryGrows
  <2>4. /\ DOMAIN executed = 1..N /\ DOMAIN executed' = 1..N+1
        /\ Len(executed') = N+1
        /\ \A n \in 1..N : executed'[n] = executed[n]
        /\ executed'[N+1] = r
    BY <1>1, <2>2, <2>3, HistoryGrows
  <2>5. Served(at)
    BY <2>1 DEF BodyRead, Served
  <2>6. CASE i \in 1..N
    <3>1. PICK c \in Conns : c = executed[i].on /\ c = executed'[i].on
      BY <1>1, <2>4, <2>6
    <3>2. ~executed[i].whole
      BY <2>4, <2>6
    <3>3. Ended(c) /\ \A j \in i+1..N : executed[j].on # c
      BY <1>2, <2>3, <2>4, <2>6, <3>1, <3>2 DEF TornInv
    <3>4. Ended(c)' /\ c # at
      BY <1>3, <2>5, <3>3 DEF Ended
    <3>5. ASSUME NEW j \in i+1..N+1 PROVE executed'[j].on # c
      <4>1. CASE j \in 1..N
        <5>1. j \in i+1..N
          BY <2>3, <2>6, <3>5, <4>1
        <5> QED
          BY <2>4, <3>3, <4>1, <5>1
      <4>2. CASE j = N+1
        BY <2>2, <2>4, <3>4, <4>2
      <4>3. j \in 1..N \/ j = N+1
        BY <2>3, <2>6, <3>5
      <4> QED
        BY <4>1, <4>2, <4>3
    <3> QED
      BY <2>4, <3>1, <3>4, <3>5
  <2>7. ASSUME ~r.whole PROVE Ended(at)'
    <3>1. /\ at' = at /\ pc' = "poll" /\ read' = read /\ arrived' = arrived
          /\ at \in Conns
      BY <2>1 DEF BodyRead, TypesInv, ReceptionTypeOK
    <3>2. CASE peer'[at] = "gone"
      <4>1. GoneInv'
        BY GoneStep
      <4> QED
        BY <3>1, <3>2, <4>1 DEF Ended, GoneInv, Served
    <3>3. CASE peer'[at] # "gone"
      <4>1. PICK m \in DOMAIN stream[at] : \E x \in Executions :
                /\ peer' = peer
                /\ executed' = IF IsRequest(stream[at][m])
                               THEN Append(executed, x) ELSE executed
                /\ \/ x.whole
                   \/ peer[at] = "closed" /\ Unread(at) = 0
        BY <2>1, <3>3, BodyFacts
      <4>2. PICK x \in Executions :
                /\ peer' = peer
                /\ executed' = IF IsRequest(stream[at][m])
                               THEN Append(executed, x) ELSE executed
                /\ \/ x.whole
                   \/ peer[at] = "closed" /\ Unread(at) = 0
        BY <4>1
      <4>3. executed' = Append(executed, x)
        BY <1>5, <4>2
      <4>4. executed'[N+1] = x
        BY <1>1, <2>3, <4>3, HistoryGrows
      <4>5. x = r
        BY <2>4, <4>4
      <4> QED
        BY <2>7, <3>1, <4>2, <4>5 DEF Ended, Served, Unread
    <3> QED
      BY <3>2, <3>3
  <2>8. CASE i = N+1
    <3>1. executed'[i] = r
      BY <2>4, <2>8
    <3>2. Ended(at)'
      BY <2>7, <3>1
    <3>3. PICK c \in Conns : c = at /\ c = executed'[i].on
      BY <2>2, <3>1 DEF TypesInv, ReceptionTypeOK
    <3>4. at' = at
      BY <2>1 DEF BodyRead
    <3>5. Ended(c)'
      BY <3>2, <3>3, <3>4 DEF Ended, Served, Unread
    <3>6. i+1..Len(executed') = {}
      BY <2>3, <2>4, <2>8
    <3> QED
      BY <3>3, <3>5, <3>6
  <2>9. i \in 1..N \/ i = N+1
    BY <2>3, <2>4
  <2> QED
    BY <2>6, <2>8, <2>9
<1> QED
  BY <1>4, <1>5
-----------------------------------------------------------------------------
(* The inductive invariant of the reception.                               *)
ReceptionInv == TypesInv /\ GoneInv /\ OrderInv /\ ExecutedInOrder /\ TornInv

LEMMA ReceptionInvariant == Spec => []ReceptionInv
<1>1. Init => ReceptionInv
  <2>1. Init => ExecutedInOrder /\ TornInv
    BY DEF Init, ExecutedInOrder, TornInv
  <2> QED
    BY <2>1, TypesInit, GoneInit, OrderInit DEF ReceptionInv
<1>2. ReceptionInv /\ [Next]_vars => ReceptionInv'
  BY TypesStep, GoneStep, OrderStep, ExecutedStep, TornStep DEF ReceptionInv
<1> QED
  BY <1>1, <1>2, PTL DEF Spec

(* The types of the variables of the reception, the history included: for  *)
(* any connections and any streams of packets, nothing is read that has    *)
(* not arrived and the buffer holds units of the streams.                  *)
THEOREM ReceptionTypeCorrect == Spec => []ReceptionTypeOK
<1>1. ReceptionInv => ReceptionTypeOK
  BY DEF ReceptionInv, TypesInv
<1> QED
  BY <1>1, ReceptionInvariant, PTL

(* handle_rpc_request of src/rpc.c carries out the requests of a           *)
(* connection as its peer sent them, however they are cut into pieces by   *)
(* the network and with one buffer for all connections.                    *)
THEOREM RequestsAreExecutedInOrder == Spec => []ExecutedInOrder
<1>1. ReceptionInv => ExecutedInOrder
  BY DEF ReceptionInv
<1> QED
  BY <1>1, ReceptionInvariant, PTL

(* recv_all of src/shared.c ends early only for a peer that is gone, and   *)
(* what is then carried out with bytes left in the buffer is the last      *)
(* request of the connection.                                              *)
THEOREM TornRequestsAreLast == Spec => []TornOnlyAtTheEnd
<1>1. ReceptionInv => TornOnlyAtTheEnd
  BY DEF ReceptionInv, TypesInv, TornInv, Ended, TornOnlyAtTheEnd
<1> QED
  BY <1>1, ReceptionInvariant, PTL
=============================================================================
