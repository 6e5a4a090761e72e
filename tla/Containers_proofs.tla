------------------------- MODULE Containers_proofs --------------------------
(***************************************************************************)
(* The containers of the node.  vector_sort sorts, and keeps every element *)
(* once: for vectors of any size and distances of any kind, equal ones     *)
(* included.  A doubly linked list stays one list from both its ends,      *)
(* whatever its nodes are.  The hash map keeps every entry where a search  *)
(* meets it, and is a map, whatever the keys and their hashes.             *)
(***************************************************************************)
EXTENDS VectorSort, LinkedList, HashMap, FiniteSetTheorems,
        WellFoundedInduction, TLAPS

(* The last i positions hold their final elements, and j elements into a   *)
(* pass the farthest of the first j + 1 has been carried to position j + 1.*)
TailSorted ==
    \A m, n \in DOMAIN vec :
        m < n /\ n > size - i => Distance[vec[m]] <= Distance[vec[n]]

FarthestCarried ==
    \A m \in DOMAIN vec :
        m <= j + 1 => Distance[vec[m]] <= Distance[vec[j + 1]]

SortInv ==
    /\ SortTypeOK
    /\ SameElements
    /\ TailSorted
    /\ sorting => FarthestCarried
    /\ ~sorting => i >= size - 1

LEMMA SortInvInit == Init => SortInv
<1> SUFFICES ASSUME Init PROVE SortInv
  OBVIOUS
<1> USE DEF Init
<1>1. /\ vec \in Seq(Elements) /\ input \in Seq(Elements)
      /\ DOMAIN vec = 1..Len(vec) /\ Len(vec) \in Nat
  <2>1. PICK n \in 0..MaxSize : input \in [1..n -> Elements]
    OBVIOUS
  <2>2. n \in Nat
    BY SortAssumption
  <2> QED
    BY <2>1, <2>2
<1>2. SortTypeOK
  BY <1>1 DEF SortTypeOK
<1>3. SameElements
  BY DEF SameElements
<1>4. TailSorted
  BY <1>1 DEF TailSorted, size
<1>5. FarthestCarried
  <2> SUFFICES ASSUME NEW m \in DOMAIN vec, m <= j + 1
               PROVE  Distance[vec[m]] <= Distance[vec[j + 1]]
    BY DEF FarthestCarried
  <2>1. m = 1 /\ j + 1 = 1
    BY <1>1
  <2>2. vec[1] \in Elements
    BY <1>1, <2>1
  <2>3. Distance[vec[1]] \in Int
    BY <2>2, SortAssumption
  <2> QED
    BY <2>1, <2>3
<1> QED
  BY <1>2, <1>3, <1>4, <1>5 DEF SortInv

(* Two elements that change places.                                        *)
Exchanged(s, p, q) == [s EXCEPT ![p] = s[q], ![q] = s[p]]

LEMMA Exchange ==
    ASSUME NEW s \in Seq(Elements), IsInjectiveSeq(s),
           NEW p \in DOMAIN s, NEW q \in DOMAIN s, p # q
    PROVE  /\ Exchanged(s, p, q) \in Seq(Elements)
           /\ Len(Exchanged(s, p, q)) = Len(s)
           /\ DOMAIN Exchanged(s, p, q) = DOMAIN s
           /\ IsInjectiveSeq(Exchanged(s, p, q))
           /\ Elems(Exchanged(s, p, q)) = Elems(s)
<1> DEFINE t == Exchanged(s, p, q)
<1> USE DEF Exchanged
<1>1. s \in [1..Len(s) -> Elements] /\ DOMAIN s = 1..Len(s) /\ Len(s) \in Nat
  OBVIOUS
<1>2. t \in [1..Len(s) -> Elements] /\ DOMAIN t = DOMAIN s
  BY <1>1
<1>3. /\ t[p] = s[q] /\ t[q] = s[p]
      /\ \A m \in DOMAIN s : m # p /\ m # q => t[m] = s[m]
  BY <1>1
<1>4. t \in Seq(Elements) /\ Len(t) = Len(s)
  BY <1>1, <1>2
<1>5. IsInjectiveSeq(t)
  BY <1>2, <1>3 DEF IsInjectiveSeq
<1>6. Elems(t) = Elems(s)
  <2>1. \A m \in DOMAIN s : t[m] \in Elems(s)
    BY <1>3 DEF Elems
  <2>2. \A m \in DOMAIN s : s[m] \in Elems(t)
    BY <1>2, <1>3 DEF Elems
  <2> QED
    BY <1>2, <2>1, <2>2 DEF Elems
<1> QED
  BY <1>2, <1>4, <1>5, <1>6

LEMMA SortInvStep == SortInv /\ [Next]_vars => SortInv'
<1> SUFFICES ASSUME SortInv, [Next]_vars PROVE SortInv'
  OBVIOUS
<1> USE DEF SortInv
<1> DEFINE L == Len(vec)
<1>1. /\ L \in Nat /\ DOMAIN vec = 1..L /\ i \in Nat /\ j \in Nat
      /\ vec \in Seq(Elements)
  BY DEF SortTypeOK
<1>2. \A m \in 1..L : Distance[vec[m]] \in Int
  <2> SUFFICES ASSUME NEW m \in 1..L PROVE Distance[vec[m]] \in Int
    OBVIOUS
  <2>1. vec[m] \in Elements
    BY <1>1
  <2> QED
    BY <2>1, SortAssumption
<1>3. CASE Compare
  <2> USE DEF Compare
  <2>1. /\ j + 1 \in 1..L /\ j + 2 \in 1..L /\ i + j + 1 < L
        /\ i < L - 1
    BY <1>1, <1>3 DEF size
  <2> DEFINE D(m) == Distance[vec[m]]
  <2> DEFINE E(m) == Distance[vec'[m]]
  <2>2. /\ vec' \in Seq(Elements) /\ Len(vec') = L /\ DOMAIN vec' = 1..L
        /\ IsInjectiveSeq(vec') /\ Elems(vec') = Elems(vec)
    <3>1. CASE cmp(vec[j + 1], vec[j + 2])
      BY <1>1, <1>3, <3>1 DEF SameElements
    <3>2. CASE ~cmp(vec[j + 1], vec[j + 2])
      <4>1. vec' = Exchanged(vec, j + 1, j + 2)
        BY <1>3, <3>2 DEF Exchanged
      <4>2. /\ vec \in Seq(Elements) /\ IsInjectiveSeq(vec)
            /\ j + 1 \in DOMAIN vec /\ j + 2 \in DOMAIN vec /\ j + 1 # j + 2
        BY <1>1, <2>1 DEF SameElements
      <4> HIDE DEF Compare, SortInv
      <4>3. /\ vec' \in Seq(Elements) /\ Len(vec') = Len(vec)
            /\ DOMAIN vec' = DOMAIN vec
            /\ IsInjectiveSeq(vec') /\ Elems(vec') = Elems(vec)
        BY ONLY <4>1, <4>2, Exchange
      <4> QED
        BY <1>1, <4>3
    <3> QED
      BY <3>1, <3>2
  <2>3. SortTypeOK'
    BY <1>1, <1>3, <2>1, <2>2 DEF SortTypeOK
  <2>4. SameElements'
    BY <1>3, <2>2 DEF SameElements
  <2>5. /\ \A m \in 1..L : m # j + 1 /\ m # j + 2 => E(m) = D(m)
        /\ \/ E(j + 1) = D(j + 1) /\ E(j + 2) = D(j + 2)
              /\ D(j + 1) <= D(j + 2)
           \/ E(j + 1) = D(j + 2) /\ E(j + 2) = D(j + 1)
              /\ D(j + 2) <= D(j + 1)
    <3>1. CASE cmp(vec[j + 1], vec[j + 2])
      BY <1>2, <1>3, <2>1, <3>1 DEF cmp
    <3>2. CASE ~cmp(vec[j + 1], vec[j + 2])
      <4>1. /\ vec'[j + 1] = vec[j + 2] /\ vec'[j + 2] = vec[j + 1]
            /\ \A m \in 1..L : m # j + 1 /\ m # j + 2 => vec'[m] = vec[m]
        BY <1>1, <1>3, <2>1, <3>2
      <4>2. D(j + 2) <= D(j + 1)
        BY <1>2, <2>1, <3>2 DEF cmp
      <4> QED
        BY <4>1, <4>2
    <3> QED
      BY <3>1, <3>2
  <2> HIDE DEF Compare
  <2>6. \A m \in 1..L : E(m) \in Int
    BY <1>2, <2>1, <2>5
  <2>7. \A m \in 1..L : m <= j + 1 => D(m) <= D(j + 1)
    BY <1>1, <1>3 DEF FarthestCarried, Compare
  <2>8. TailSorted'
    <3>1. i' = i
      BY <1>3 DEF Compare
    <3> SUFFICES ASSUME NEW m \in 1..L, NEW n \in 1..L, m < n, n > L - i
                 PROVE  E(m) <= E(n)
      BY <2>2, <3>1 DEF TailSorted, size
    <3>2. n > j + 2 /\ E(n) = D(n)
      BY <1>1, <2>1, <2>5
    <3>3. \A k \in 1..L : k < n => D(k) <= D(n)
      BY <1>1 DEF TailSorted, size
    <3>4. CASE m # j + 1 /\ m # j + 2
      BY <2>5, <3>2, <3>3, <3>4
    <3>5. CASE m = j + 1 \/ m = j + 2
      BY <1>1, <2>1, <2>5, <3>2, <3>3, <3>5
    <3> QED
      BY <3>4, <3>5
  <2>9. FarthestCarried'
    <3>1. j' = j + 1
      BY <1>3 DEF Compare
    <3> SUFFICES ASSUME NEW m \in 1..L, m <= j + 2
                 PROVE  E(m) <= E(j + 2)
      BY <1>1, <2>2, <3>1 DEF FarthestCarried
    <3>2. CASE m = j + 2
      BY <2>6, <3>2
    <3>3. CASE m = j + 1
      BY <1>2, <2>1, <2>5, <3>3
    <3>4. CASE m <= j
      BY <1>1, <1>2, <2>1, <2>5, <2>7, <3>4
    <3> QED
      BY <1>1, <3>2, <3>3, <3>4
  <2>10. sorting' = sorting /\ sorting
    BY <1>3 DEF Compare
  <2> QED
    BY <2>3, <2>4, <2>8, <2>9, <2>10
<1>4. CASE EndOfPass
  <2> USE DEF EndOfPass
  <2>1. vec' = vec /\ input' = input /\ i' = i + 1 /\ j' = 0 /\ sorting'
        /\ sorting /\ j + 1 = L - i /\ i < L - 1
    BY <1>1, <1>4 DEF size
  <2> HIDE DEF EndOfPass
  <2>2. SortTypeOK'
    BY <1>1, <2>1 DEF SortTypeOK
  <2>3. SameElements'
    BY <2>1 DEF SameElements
  <2>4. TailSorted'
    <3> SUFFICES ASSUME NEW m \in 1..L, NEW n \in 1..L, m < n, n > L - (i + 1)
                 PROVE  Distance[vec[m]] <= Distance[vec[n]]
      BY <1>1, <2>1 DEF TailSorted, size
    <3>1. CASE n > L - i
      BY <1>1, <3>1 DEF TailSorted, size
    <3>2. CASE n = j + 1
      BY <1>1, <2>1, <3>2 DEF FarthestCarried
    <3> QED
      BY <1>1, <2>1, <3>1, <3>2
  <2>5. FarthestCarried'
    <3> SUFFICES ASSUME NEW m \in 1..L, m <= 1
                 PROVE  Distance[vec[m]] <= Distance[vec[1]]
      BY <1>1, <2>1 DEF FarthestCarried
    <3>1. m = 1
      BY <1>1
    <3> QED
      BY <1>2, <3>1
  <2>6. (~sorting => i >= size - 1)'
    BY <2>1
  <2> QED
    BY <2>2, <2>3, <2>4, <2>5, <2>6
<1>5. CASE Return
  BY <1>1, <1>5 DEF Return, SortTypeOK, SameElements, TailSorted, size
<1>6. CASE UNCHANGED vars
  BY <1>6 DEF vars, SortTypeOK, SameElements, TailSorted, FarthestCarried, size
<1> QED
  BY <1>3, <1>4, <1>5, <1>6 DEF Next

LEMMA SortInvAlways == Spec => []SortInv
BY SortInvInit, SortInvStep, PTL DEF Spec

(* The loop indices stay within the vector, for vectors of every size.     *)
THEOREM SortTypeCorrect == Spec => []SortTypeOK
BY SortInvAlways, PTL DEF SortInv

(* The sort never loses or doubles a peer, at no moment of any exchange.   *)
THEOREM SortKeepsElements == Spec => []SameElements
BY SortInvAlways, PTL DEF SortInv

(* When vector_sort returns the peers are in the order of their distance.  *)
THEOREM SortSorts == Spec => []SortedWhenDone
<1>1. SortInv => SortedWhenDone
  <2> SUFFICES ASSUME SortInv, ~sorting,
                      NEW m \in DOMAIN vec, NEW n \in DOMAIN vec, m < n
               PROVE  Distance[vec[m]] <= Distance[vec[n]]
    BY DEF SortedWhenDone
  <2>1. /\ Len(vec) \in Nat /\ DOMAIN vec = 1..Len(vec) /\ i \in Nat
        /\ i >= Len(vec) - 1
    BY DEF SortInv, SortTypeOK, size
  <2> QED
    BY <2>1 DEF SortInv, TailSorted, size
<1> QED
  BY <1>1, SortInvAlways, PTL
-----------------------------------------------------------------------------
(* What holds while a pointer is left behind, too: the nodes are in order  *)
(* from the head to the tail, and only what the ends point to beyond, or   *)
(* in an empty list, is unknown.                                           *)
Holds(s) ==
    /\ InOrder(s)
    /\ len # 0 => head = s[1] /\ tail = s[len] /\ next[tail] = NULL
    /\ ~behind =>
           IF len = 0 THEN head = NULL /\ tail = NULL ELSE prev[head] = NULL

ListInv == ListTypeOK /\ \E s \in [1..len -> allocated] : Holds(s)

(* A list has a node exactly when it says so.                              *)
LEMMA ListEmpty ==
    ASSUME ListTypeOK, NEW s \in [1..len -> allocated], InOrder(s)
    PROVE  allocated = {} <=> len = 0
<1>1. len \in Nat
  BY DEF ListTypeOK
<1>2. len = 0 => allocated = {}
  <2>1. len = 0 => 1..len = {}
    OBVIOUS
  <2> QED
    BY <2>1, Zenon DEF InOrder
<1>3. len # 0 => s[1] \in allocated
  BY <1>1
<1> QED
  BY <1>2, <1>3

LEMMA AddFrontKeepsInv ==
    ASSUME ListInv, NEW n \in Nodes, AddFront(n)
    PROVE  ListInv'
<1> USE ListAssumption DEF ListTypeOK, Pointers
<1>1. ListTypeOK'
  <2>1. CASE head = NULL
    <3>1. /\ allocated' \subseteq Nodes /\ head' = n /\ tail' = n
          /\ len' = 1 /\ behind' = FALSE
      BY <2>1 DEF ListInv, AddFront
    <3>2. next' \in [Nodes -> Pointers] /\ prev' \in [Nodes -> Pointers]
      BY <2>1 DEF ListInv, AddFront
    <3> QED
      BY <3>1, <3>2
  <2>2. CASE head # NULL
    BY <2>2 DEF ListInv, AddFront
  <2> QED
    BY <2>1, <2>2
<1>2. PICK s \in [1..len -> allocated] : Holds(s)
  BY DEF ListInv
<1>3. n \notin allocated /\ allocated' = allocated \cup {n}
  BY DEF AddFront
<1>4. allocated = {} <=> len = 0
  BY <1>2, ListEmpty DEF ListInv, Holds
<1>5. head = NULL <=> len = 0
  BY <1>2, <1>4 DEF Holds, AddFront, Valid, ListInv
<1>6. len \in Nat /\ len' = len + 1
  BY <1>5 DEF AddFront, ListInv
<1>7. PICK r : r = [k \in 1..len+1 |-> IF k = 1 THEN n ELSE s[k-1]]
  OBVIOUS
<1>8. r[1] = n /\ \A k \in 1..len : r[k+1] = s[k]
  BY <1>6, <1>7
<1>9. \A k \in 2..len+1 : k - 1 \in 1..len /\ r[k] = s[k-1]
  BY <1>6, <1>7
<1>13. r \in [1..len' -> allocated']
  <2>1. \A k \in 1..len+1 : r[k] \in allocated'
    BY <1>3, <1>6, <1>7
  <2> QED
    BY <2>1, <1>6, <1>7
<1>10. InOrder(r)'
  <2>1. (\A x \in allocated : \E k \in 1..len : r[k] = x)'
    <3> SUFFICES ASSUME NEW x \in allocated'
                 PROVE  \E k \in 1..len+1 : r[k] = x
      BY <1>6
    <3>1. CASE x = n
      BY <3>1, <1>6, <1>8
    <3>2. CASE x # n
      <4>1. PICK k \in 1..len : s[k] = x
        BY <3>2, <1>2, <1>3 DEF Holds, InOrder
      <4> QED
        BY <4>1, <1>6, <1>8
    <3> QED
      BY <3>1, <3>2
  <2>2. (\A a, b \in 1..len : r[a] = r[b] => a = b)'
    <3> SUFFICES ASSUME NEW a \in 1..len+1, NEW b \in 1..len+1, r[a] = r[b]
                 PROVE  a = b
      BY <1>6
    <3>1. \A k \in 2..len+1 : r[k] # n
      BY <1>3, <1>9
    <3>2. CASE a = 1 \/ b = 1
      BY <3>1, <3>2, <1>6, <1>8
    <3>3. CASE a # 1 /\ b # 1
      <4>1. s[a-1] = s[b-1] /\ a - 1 \in 1..len /\ b - 1 \in 1..len
        BY <3>3, <1>6, <1>9
      <4>2. a - 1 = b - 1
        BY <4>1, <1>2 DEF Holds, InOrder
      <4> QED
        BY <4>2, <1>6
    <3> QED
      BY <3>2, <3>3
  <2>3. (\A k \in 1..len-1 : next[r[k]] = r[k+1] /\ prev[r[k+1]] = r[k])'
    <3> SUFFICES ASSUME NEW k \in 1..len
                 PROVE  next'[r[k]] = r[k+1] /\ prev'[r[k+1]] = r[k]
      BY <1>6
    <3>0. r[k+1] = s[k] /\ s[k] \in allocated /\ s[k] # n
      BY <1>3, <1>8
    <3>1. head = s[1] /\ head \in Nodes /\ head # NULL
      BY <1>2, <1>5, <1>6 DEF Holds, ListInv
    <3>2. /\ next' = [next EXCEPT ![n] = head]
          /\ prev' = [prev EXCEPT ![n] = NULL, ![head] = n]
      BY <3>1 DEF AddFront
    <3>3. CASE k = 1
      BY <3>0, <3>1, <3>2, <3>3, <1>8 DEF ListInv
    <3>4. CASE k # 1
      <4>1. k - 1 \in 1..len-1 /\ r[k] = s[k-1] /\ s[k-1] # n
        BY <3>4, <1>3, <1>6, <1>9
      <4>2. next[s[k-1]] = s[k] /\ prev[s[k]] = s[k-1] /\ s[k] # s[1]
        BY <4>1, <3>4, <1>2, <1>6 DEF Holds, InOrder
      <4> QED
        BY <3>0, <3>1, <3>2, <4>1, <4>2 DEF ListInv
    <3> QED
      BY <3>3, <3>4
  <2> QED
    BY <2>1, <2>2, <2>3 DEF InOrder
<1>11. (len # 0 => head = r[1] /\ tail = r[len] /\ next[tail] = NULL)'
  <2>1. head' = r[1]
    BY <1>8 DEF AddFront
  <2>2. CASE len = 0
    BY <1>5, <1>6, <1>8, <2>1, <2>2 DEF AddFront, ListInv
  <2>3. CASE len # 0
    <3>1. r[len'] = s[len] /\ s[len] \in allocated /\ s[len] # n
      BY <2>3, <1>3, <1>6, <1>8
    <3>2. tail = s[len] /\ next[tail] = NULL
      BY <2>3, <1>2 DEF Holds
    <3>3. tail' = tail /\ next' = [next EXCEPT ![n] = head]
      BY <2>3, <1>5 DEF AddFront
    <3> QED
      BY <2>1, <3>1, <3>2, <3>3 DEF ListInv
  <2> QED
    BY <2>2, <2>3
<1>12. (len # 0)' /\ prev'[head'] = NULL
  <2>1. head \in Nodes => head # n
    BY <1>3 DEF AddFront, Valid
  <2> QED
  BY <1>6, <2>1 DEF AddFront, ListInv
<1> QED
  BY <1>1, <1>13, <1>10, <1>11, <1>12 DEF ListInv, Holds

LEMMA AddBackKeepsInv ==
    ASSUME ListInv, NEW n \in Nodes, AddBack(n)
    PROVE  ListInv'
<1> USE ListAssumption DEF ListTypeOK, Pointers
<1>1. ListTypeOK'
  BY DEF ListInv, AddBack
<1>2. PICK s \in [1..len -> allocated] : Holds(s)
  BY DEF ListInv
<1>3. n \notin allocated /\ allocated' = allocated \cup {n}
  BY DEF AddBack
<1>4. allocated = {} <=> len = 0
  BY <1>2, ListEmpty DEF ListInv, Holds
<1>5. head = NULL <=> len = 0
  BY <1>2, <1>4 DEF Holds, AddBack, Valid, ListInv
<1>6. len \in Nat /\ len' = len + 1
  BY <1>5 DEF AddBack, ListInv
<1>7. PICK r : r = [k \in 1..len+1 |-> IF k = len + 1 THEN n ELSE s[k]]
  OBVIOUS
<1>8. r[len+1] = n /\ \A k \in 1..len : r[k] = s[k] /\ s[k] # n
  BY <1>3, <1>6, <1>7
<1>9. r \in [1..len' -> allocated']
  <2>1. \A k \in 1..len+1 : r[k] \in allocated'
    BY <1>3, <1>6, <1>7
  <2> QED
    BY <2>1, <1>6, <1>7
<1>10. InOrder(r)'
  <2>1. (\A x \in allocated : \E k \in 1..len : r[k] = x)'
    <3> SUFFICES ASSUME NEW x \in allocated'
                 PROVE  \E k \in 1..len+1 : r[k] = x
      BY <1>6
    <3>1. CASE x = n
      BY <3>1, <1>6, <1>8
    <3>2. CASE x # n
      <4>1. PICK k \in 1..len : s[k] = x
        BY <3>2, <1>2, <1>3 DEF Holds, InOrder
      <4> QED
        BY <4>1, <1>6, <1>8
    <3> QED
      BY <3>1, <3>2
  <2>2. (\A a, b \in 1..len : r[a] = r[b] => a = b)'
    <3> SUFFICES ASSUME NEW a \in 1..len+1, NEW b \in 1..len+1, r[a] = r[b]
                 PROVE  a = b
      BY <1>6
    <3>1. CASE a \in 1..len /\ b \in 1..len
      BY <3>1, <1>2, <1>8 DEF Holds, InOrder
    <3>2. CASE a = len + 1 \/ b = len + 1
      BY <3>2, <1>6, <1>8
    <3> QED
      BY <3>1, <3>2, <1>6
  <2>3. (\A k \in 1..len-1 : next[r[k]] = r[k+1] /\ prev[r[k+1]] = r[k])'
    <3> SUFFICES ASSUME NEW k \in 1..len
                 PROVE  next'[r[k]] = r[k+1] /\ prev'[r[k+1]] = r[k]
      BY <1>6
    <3>1. tail = s[len] /\ tail \in Nodes /\ tail # NULL
      BY <1>2, <1>5, <1>6 DEF Holds, ListInv
    <3>2. /\ next' = [next EXCEPT ![n] = NULL, ![tail] = n]
          /\ prev' = [prev EXCEPT ![n] = tail]
      BY <1>5, <1>6 DEF AddBack
    <3>3. CASE k = len
      BY <3>1, <3>2, <3>3, <1>6, <1>8 DEF ListInv
    <3>4. CASE k # len
      <4>1. k \in 1..len-1 /\ k + 1 \in 1..len
        BY <3>4, <1>6
      <4>2. next[s[k]] = s[k+1] /\ prev[s[k+1]] = s[k] /\ s[k] # s[len]
        BY <4>1, <3>4, <1>2, <1>6 DEF Holds, InOrder
      <4> QED
        BY <3>1, <3>2, <4>1, <4>2, <1>8 DEF ListInv
    <3> QED
      BY <3>3, <3>4
  <2> QED
    BY <2>1, <2>2, <2>3 DEF InOrder
<1>11. (len # 0 => head = r[1] /\ tail = r[len] /\ next[tail] = NULL)'
  <2>1. tail' = r[len'] /\ tail' = n
    BY <1>6, <1>8 DEF AddBack
  <2>2. CASE len = 0
    <3>1. head' = n /\ next' = [next EXCEPT ![n] = NULL]
      BY <1>5, <2>2 DEF AddBack
    <3> QED
      BY <3>1, <1>6, <1>8, <2>1, <2>2 DEF ListInv
  <2>3. CASE len # 0
    <3>1. head' = head /\ next' = [next EXCEPT ![n] = NULL, ![tail] = n]
      BY <2>3, <1>5 DEF AddBack
    <3>2. head = s[1] /\ s[1] = r[1] /\ tail # n
      BY <2>3, <1>2, <1>6, <1>8 DEF Holds
    <3> QED
      BY <2>1, <3>1, <3>2 DEF ListInv
  <2> QED
    BY <2>2, <2>3
<1>12. (len # 0)'
  BY <1>6
<1>13. (~behind => prev[head] = NULL)'
  <2> SUFFICES ASSUME ~behind PROVE prev'[head'] = NULL
    BY DEF AddBack
  <2>1. prev' = [prev EXCEPT ![n] = tail]
    BY DEF AddBack
  <2>2. CASE len = 0
    BY <2>1, <2>2, <1>2, <1>5 DEF AddBack, Holds, ListInv
  <2>3. CASE len # 0
    <3>1. head' = head /\ head = s[1] /\ prev[head] = NULL /\ head # n
      BY <2>3, <1>2, <1>5, <1>6, <1>8 DEF AddBack, Holds
    <3> QED
      BY <2>1, <3>1 DEF ListInv
  <2> QED
    BY <2>2, <2>3
<1> QED
  BY <1>1, <1>9, <1>10, <1>11, <1>12, <1>13 DEF ListInv, Holds

LEMMA RemoveFrontKeepsInv ==
    ASSUME ListInv, RemoveFront
    PROVE  ListInv'
<1> USE ListAssumption DEF ListTypeOK, Pointers
<1>1. PICK s \in [1..len -> allocated] : Holds(s)
  BY DEF ListInv
<1>2. head \in allocated /\ head \in Nodes
  BY DEF RemoveFront, Valid, ListInv
<1>3. len \in Nat /\ len # 0 /\ len' = len - 1 /\ len' \in Nat
  <2>1. len # 0
    BY <1>1, <1>2, ListEmpty DEF Holds, ListInv
  <2> QED
    BY <2>1 DEF RemoveFront, ListInv
<1>4. head = s[1] /\ tail = s[len] /\ next[tail] = NULL
  BY <1>1, <1>3 DEF Holds
<1>5. ListTypeOK'
  BY <1>2, <1>3 DEF ListInv, RemoveFront
<1>6. allocated' = allocated \ {head} /\ next' = next
  BY DEF RemoveFront
<1>7. PICK r : r = [k \in 1..len-1 |-> s[k+1]]
  OBVIOUS
<1>8. \A k \in 1..len-1 : k + 1 \in 1..len /\ r[k] = s[k+1] /\ s[k+1] # head
  BY <1>1, <1>3, <1>4, <1>7 DEF Holds, InOrder
<1>9. r \in [1..len' -> allocated']
  <2>1. \A k \in 1..len-1 : r[k] \in allocated'
    BY <1>6, <1>8
  <2> QED
    BY <2>1, <1>3, <1>7
<1>10. \A k \in 2..len : k - 1 \in 1..len-1 /\ r[k-1] = s[k]
  BY <1>3, <1>7
<1>11. InOrder(r)'
  <2>1. (\A x \in allocated : \E k \in 1..len : r[k] = x)'
    <3> SUFFICES ASSUME NEW x \in allocated'
                 PROVE  \E k \in 1..len-1 : r[k] = x
      BY <1>3
    <3>1. PICK k \in 1..len : s[k] = x
      BY <1>1, <1>6 DEF Holds, InOrder
    <3>2. k \in 2..len
      BY <3>1, <1>3, <1>4, <1>6
    <3> QED
      BY <3>1, <3>2, <1>10
  <2>2. (\A a, b \in 1..len : r[a] = r[b] => a = b)'
    <3> SUFFICES ASSUME NEW a \in 1..len-1, NEW b \in 1..len-1, r[a] = r[b]
                 PROVE  a = b
      BY <1>3
    <3>1. a + 1 = b + 1
      BY <1>1, <1>8 DEF Holds, InOrder
    <3> QED
      BY <3>1, <1>3
  <2>3. (\A k \in 1..len-1 : next[r[k]] = r[k+1] /\ prev[r[k+1]] = r[k])'
    <3> SUFFICES ASSUME NEW k \in 1..len-2
                 PROVE  next'[r[k]] = r[k+1] /\ prev'[r[k+1]] = r[k]
      BY <1>3
    <3>1. /\ k \in 1..len-1 /\ k + 1 \in 1..len-1 /\ 1 \in 1..len-1
          /\ k + 2 = (k + 1) + 1 /\ k + 2 \in 1..len /\ 2 \in 1..len
      BY <1>3
    <3>2. next[s[k+1]] = s[k+2] /\ prev[s[k+2]] = s[k+1]
      BY <3>1, <1>1 DEF Holds, InOrder
    <3>3. r[k] = s[k+1] /\ r[k+1] = s[k+2]
      BY <3>1, <1>7
    <3>4. next[head] = s[2] /\ s[2] # s[k+2]
      <4>1. next[s[1]] = s[1+1]
        BY <3>1, <1>1 DEF Holds, InOrder
      <4>2. s[2] = s[k+2] => 2 = k + 2
        BY <3>1, <1>1 DEF Holds, InOrder
      <4> QED
        BY <1>4, <4>1, <4>2
    <3>5. prev'[s[k+2]] = prev[s[k+2]]
      <4>1. prev' = prev \/ prev' = [prev EXCEPT ![next[head]] = NULL]
        BY DEF RemoveFront
      <4>2. next[head] # s[k+2] /\ s[k+2] \in Nodes
        BY <1>1, <3>1, <3>4 DEF ListInv
      <4>3. prev \in [Nodes -> Pointers]
        BY DEF ListInv
      <4> QED
        BY <4>1, <4>2, <4>3, Zenon
    <3> QED
      BY <3>2, <3>3, <3>5, <1>6
  <2> QED
    BY <2>1, <2>2, <2>3 DEF InOrder
<1>12. CASE len = 1
  <2>1. len' = 0 /\ allocated' = {} /\ behind'
    <3>1. allocated' = {}
      <4>1. \A x \in allocated : x = s[1]
        BY <1>1, <1>12 DEF Holds, InOrder
      <4> QED
        BY <4>1, <1>4, <1>6
    <3> QED
      <4>1. behind' = (behind \/ allocated' = {})
        BY DEF RemoveFront
      <4>2. behind'
        BY <4>1, <3>1, Zenon
      <4> QED
        BY <1>3, <1>12, <3>1, <4>2
  <2> QED
    BY <1>5, <1>9, <1>11, <2>1 DEF ListInv, Holds
<1>13. CASE len # 1
  <2>1. 1 \in 1..len-1 /\ len - 1 \in 1..len-1 /\ (len - 1) + 1 = len
    BY <1>3, <1>13
  <2>2. head' = r[1] /\ r[1] = s[2] /\ s[2] \in Nodes /\ next[head] = s[2]
    <3>0. 2 \in 1..len
      BY <2>1, <1>3
    <3>1. 1 + 1 = 2 /\ s[2] \in allocated
      BY <3>0
    <3>2. next[s[1]] = s[1+1] /\ r[1] = s[1+1]
      BY <2>1, <1>1, <1>8 DEF Holds, InOrder
    <3> QED
      BY <3>1, <3>2, <1>4 DEF RemoveFront, ListInv
  <2>3. (tail = r[len] /\ next[tail] = NULL)'
    BY <2>1, <1>3, <1>4, <1>6, <1>8 DEF RemoveFront
  <2>4. prev'[head'] = NULL
    BY <2>2 DEF RemoveFront, ListInv
  <2> QED
    BY <1>3, <1>5, <1>9, <1>11, <1>13, <2>2, <2>3, <2>4 DEF ListInv, Holds
<1> QED
  BY <1>12, <1>13

LEMMA RemoveBackKeepsInv ==
    ASSUME ListInv, RemoveBack
    PROVE  ListInv'
<1> USE ListAssumption DEF ListTypeOK, Pointers
<1>1. PICK s \in [1..len -> allocated] : Holds(s)
  BY DEF ListInv
<1>2. tail \in allocated /\ tail \in Nodes
  BY DEF RemoveBack, Valid, ListInv
<1>3. len \in Nat /\ len # 0 /\ len' = len - 1 /\ len' \in Nat
  <2>1. len # 0
    BY <1>1, <1>2, ListEmpty DEF Holds, ListInv
  <2> QED
    BY <2>1 DEF RemoveBack, ListInv
<1>4. head = s[1] /\ tail = s[len] /\ next[tail] = NULL
  BY <1>1, <1>3 DEF Holds
<1>5. ListTypeOK'
  BY <1>2, <1>3 DEF ListInv, RemoveBack
<1>6. allocated' = allocated \ {tail} /\ prev' = prev /\ head' = head
  BY DEF RemoveBack
<1>7. PICK r : r = [k \in 1..len-1 |-> s[k]]
  OBVIOUS
<1>8. \A k \in 1..len-1 : k \in 1..len /\ r[k] = s[k] /\ s[k] # tail
  BY <1>1, <1>3, <1>4, <1>7 DEF Holds, InOrder
<1>9. r \in [1..len' -> allocated']
  <2>1. \A k \in 1..len-1 : r[k] \in allocated'
    BY <1>6, <1>8
  <2> QED
    BY <2>1, <1>3, <1>7
<1>10. CASE len = 1
  <2>1. len' = 0 /\ 1..len' = {}
    BY <1>3, <1>10
  <2>2. allocated' = {}
    <3>1. \A x \in allocated : x = s[1]
      BY <1>1, <1>10 DEF Holds, InOrder
    <3> QED
      BY <3>1, <1>4, <1>6, <1>10
  <2>3. InOrder(r)'
    BY <2>1, <2>2 DEF InOrder
  <2>4. behind'
    BY <2>2 DEF RemoveBack
  <2> QED
    BY <1>5, <1>9, <2>1, <2>3, <2>4 DEF ListInv, Holds
<1>11. CASE len # 1
  <2>1. 1 \in 1..len-1 /\ len - 1 \in 1..len-1 /\ (len - 1) + 1 = len
    BY <1>3, <1>11
  <2>2. prev[tail] = s[len-1] /\ s[len-1] \in Nodes
    BY <2>1, <1>1, <1>4, <1>8 DEF Holds, InOrder, ListInv
  <2>3. next' = [next EXCEPT ![s[len-1]] = NULL] /\ tail' = s[len-1]
    BY <2>2 DEF RemoveBack
  <2>4. InOrder(r)'
    <3>1. (\A x \in allocated : \E k \in 1..len : r[k] = x)'
      <4> SUFFICES ASSUME NEW x \in allocated'
                   PROVE  \E k \in 1..len-1 : r[k] = x
        BY <1>3
      <4>1. PICK k \in 1..len : s[k] = x
        BY <1>1, <1>6 DEF Holds, InOrder
      <4>2. k \in 1..len-1
        BY <4>1, <1>3, <1>4, <1>6
      <4> QED
        BY <4>1, <4>2, <1>8
    <3>2. (\A a, b \in 1..len : r[a] = r[b] => a = b)'
      <4> SUFFICES ASSUME NEW a \in 1..len-1, NEW b \in 1..len-1, r[a] = r[b]
                   PROVE  a = b
        BY <1>3
      <4> QED
        BY <1>1, <1>8 DEF Holds, InOrder
    <3>3. (\A k \in 1..len-1 : next[r[k]] = r[k+1] /\ prev[r[k+1]] = r[k])'
      <4> SUFFICES ASSUME NEW k \in 1..len-2
                   PROVE  next'[r[k]] = r[k+1] /\ prev'[r[k+1]] = r[k]
        BY <1>3
      <4>1. k \in 1..len-1 /\ k + 1 \in 1..len-1 /\ k # len - 1
        BY <1>3
      <4>2. next[s[k]] = s[k+1] /\ prev[s[k+1]] = s[k] /\ s[k] # s[len-1]
        BY <4>1, <2>1, <1>1, <1>8 DEF Holds, InOrder
      <4> QED
        BY <4>1, <4>2, <2>2, <2>3, <1>6, <1>8 DEF ListInv
    <3> QED
      BY <3>1, <3>2, <3>3 DEF InOrder
  <2>5. (head = r[1] /\ tail = r[len] /\ next[tail] = NULL)'
    BY <2>1, <2>2, <2>3, <1>3, <1>4, <1>6, <1>8 DEF ListInv
  <2>6. (~behind => prev[head] = NULL)'
    BY <1>1, <1>3, <1>6 DEF RemoveBack, Holds
  <2> QED
    BY <1>3, <1>5, <1>9, <1>11, <2>4, <2>5, <2>6 DEF ListInv, Holds
<1> QED
  BY <1>10, <1>11

(* In whatever order nodes are put and removed at the two ends.            *)
LEMMA ListInvariant == ListSpec => []ListInv
<1>1. ListInit => ListInv
  <2> SUFFICES ASSUME ListInit PROVE ListInv
    OBVIOUS
  <2>1. ListTypeOK
    BY ListAssumption DEF ListInit, ListTypeOK, Pointers
  <2>2. PICK s : s = [k \in 1..0 |-> NULL]
    OBVIOUS
  <2>3. 1..0 = {} /\ s \in [1..0 -> allocated]
    BY <2>2
  <2>4. len = 0 /\ allocated = {} /\ head = NULL /\ tail = NULL
    BY DEF ListInit
  <2>5. Holds(s)
    BY <2>3, <2>4 DEF Holds, InOrder
  <2> QED
    BY <2>1, <2>3, <2>4, <2>5 DEF ListInv
<1>2. ListInv /\ [ListNext]_listVars => ListInv'
  <2> SUFFICES ASSUME ListInv, [ListNext]_listVars PROVE ListInv'
    OBVIOUS
  <2>1. CASE UNCHANGED listVars
    BY <2>1 DEF listVars, ListInv, ListTypeOK, Holds, InOrder
  <2> QED
    BY <2>1, AddFrontKeepsInv, AddBackKeepsInv, RemoveFrontKeepsInv,
       RemoveBackKeepsInv DEF ListNext
<1> QED
  BY <1>1, <1>2, PTL DEF ListSpec

(* No pointer that an operation could follow leads to freed memory.        *)
NothingDangles ==
    LET There(p) == p = NULL \/ Valid(p)
    IN  /\ There(head) /\ There(tail)
        /\ \A n \in allocated : There(next[n]) /\ There(prev[n])

(* As long as no removal has taken the last node, the list is the same     *)
(* from both ends, with every node once, and no pointer dangles, so that   *)
(* none of the four operations follows one.  Once a removal has taken the  *)
(* last node (behind), nothing is said until add_front makes it sound      *)
(* again.                                                                  *)
THEOREM ListIsTheSameBothWays ==
    ListSpec => [](BothWaysTheSame /\ (~behind => NothingDangles))
<1>1. ListInv => BothWaysTheSame
  <2> SUFFICES ASSUME ListInv, ~behind
               PROVE  \E s \in [1..len -> allocated] :
                          /\ InOrder(s)
                          /\ \/ len = 0 /\ head = NULL /\ tail = NULL
                             \/ /\ len # 0
                                /\ head = s[1] /\ prev[head] = NULL
                                /\ tail = s[len] /\ next[tail] = NULL
    BY DEF ListInv, BothWaysTheSame
  <2> QED
    BY DEF ListInv, Holds
<1>2. BothWaysTheSame /\ ~behind => NothingDangles
  <2> SUFFICES ASSUME BothWaysTheSame, ~behind PROVE NothingDangles
    OBVIOUS
  <2>1. PICK s \in [1..len -> allocated] :
            /\ InOrder(s)
            /\ \/ len = 0 /\ head = NULL /\ tail = NULL
               \/ /\ len # 0
                  /\ head = s[1] /\ prev[head] = NULL
                  /\ tail = s[len] /\ next[tail] = NULL
    BY DEF BothWaysTheSame
  <2>2. len \in Nat
    BY DEF BothWaysTheSame, ListTypeOK
  <2>3. /\ head = NULL \/ head \in allocated
        /\ tail = NULL \/ tail \in allocated
    BY <2>1, <2>2
  <2>4. ASSUME NEW n \in allocated
        PROVE  /\ next[n] = NULL \/ next[n] \in allocated
               /\ prev[n] = NULL \/ prev[n] \in allocated
    <3>1. PICK q \in 1..len : s[q] = n
      BY <2>1 DEF InOrder
    <3>2. next[n] = NULL \/ next[n] \in allocated
      <4>1. CASE q = len
        BY <2>1, <2>2, <3>1, <4>1
      <4>2. CASE q # len
        <5>1. q \in 1..len-1 /\ q + 1 \in 1..len
          BY <2>2, <4>2
        <5> QED
          BY <2>1, <3>1, <5>1 DEF InOrder
      <4> QED
        BY <4>1, <4>2
    <3>3. prev[n] = NULL \/ prev[n] \in allocated
      <4>1. CASE q = 1
        BY <2>1, <2>2, <3>1, <4>1
      <4>2. CASE q # 1
        <5>1. q - 1 \in 1..len-1 /\ q - 1 \in 1..len /\ (q - 1) + 1 = q
          BY <2>2, <4>2
        <5> QED
          BY <2>1, <3>1, <5>1 DEF InOrder
      <4> QED
        BY <4>1, <4>2
    <3> QED
      BY <3>2, <3>3
  <2> QED
    BY <2>3, <2>4 DEF NothingDangles, Valid
<1> QED
  BY <1>1, <1>2, ListInvariant, PTL
-----------------------------------------------------------------------------
(* The arithmetic of an array of N slots: the slots before and after one,  *)
(* how far slot a is from slot b, and the slot d before a.                 *)
Ahead(N, a) == IF a + 1 = N THEN 0 ELSE a + 1
Behind(N, a) == IF a = 0 THEN N - 1 ELSE a - 1
Dist(N, a, b) == IF a >= b THEN a - b ELSE a - b + N
Back(N, a, d) == IF a >= d THEN a - d ELSE a - d + N

Array(N) == [0..N-1 -> {Free} \cup Full]

Used(s) == {n \in DOMAIN s : s[n].dib > 0}

(* What MapSound says of an array s of N slots, H[k] the home of key k.    *)
KeysOnce(s) ==
    \A m, n \in Used(s) : s[m].key = s[n].key => m = n

AtDistance(s, N, H) ==
    \A n \in Used(s) : s[n].dib = Dist(N, n, H[s[n].key]) + 1

Follows(s, N) ==
    \A n \in Used(s) : s[n].dib > 1 => s[Behind(N, n)].dib >= s[n].dib - 1

Good(s, N, H) == KeysOnce(s) /\ AtDistance(s, N, H) /\ Follows(s, N)
-----------------------------------------------------------------------------
LEMMA SmallestNumber ==
    ASSUME NEW S, S \subseteq Nat, S # {}
    PROVE  \E x \in S : \A y \in S : x <= y
<1>1. PICK x \in S : \A y \in S : ~(<<y, x>> \in OpToRel(<, Nat))
  BY NatLessThanWellFounded, WFMin, Zenon
<1>2. ASSUME NEW y \in S PROVE x <= y
  <2>1. x \in Nat /\ y \in Nat /\ ~(y < x)
    BY <1>1 DEF OpToRel
  <2> QED
    BY <2>1
<1> QED
  BY <1>2

(* The arithmetic of the code is this arithmetic.                          *)
LEMMA Remainders ==
    ASSUME NEW N \in Nat, N > 0, NEW a \in 0..N-1
    PROVE  /\ (a + 1) % N = Ahead(N, a) /\ (a - 1) % N = Behind(N, a)
           /\ \A b \in 0..N-1 : (a - b) % N = Dist(N, a, b)
           /\ \A k \in Nat : k % N \in 0..N-1
<1>1. (a + 1) % N = Ahead(N, a)
  <2>1. CASE a + 1 = N
    <3>1. N % N = 0
      OBVIOUS
    <3> QED
      BY <2>1, <3>1 DEF Ahead
  <2>2. CASE a + 1 # N
    <3>1. a + 1 \in 0..N-1
      BY <2>2
    <3>2. (a + 1) % N = a + 1
      BY <3>1
    <3> QED
      BY <2>2, <3>2 DEF Ahead
  <2> QED
    BY <2>1, <2>2
<1>2. ASSUME NEW b \in 0..N-1 PROVE (a - b) % N = Dist(N, a, b)
  <2>1. CASE a >= b
    <3>1. a - b \in 0..N-1
      BY <2>1
    <3>2. (a - b) % N = a - b
      BY <3>1
    <3> QED
      BY <2>1, <3>2 DEF Dist
  <2>2. CASE ~(a >= b)
    <3> DEFINE q == (a - b) \div N
               r == (a - b) % N
    <3>1. q \in Int /\ r \in 0..N-1 /\ a - b = N * q + r
      OBVIOUS
    <3> HIDE DEF q, r
    <3>2. q < 0
      <4>1. q >= 0 => N * q >= 0
        BY <3>1
      <4> QED
        BY <2>2, <3>1, <4>1
    <3>3. q > -2
      <4>1. q <= -2 => N * q <= N * (-2)
        BY <3>1
      <4> QED
        BY <2>2, <3>1, <4>1
    <3>4. q = -1
      BY <3>1, <3>2, <3>3
    <3>5. r = a - b + N
      BY <3>1, <3>4
    <3> QED
      BY <2>2, <3>5 DEF Dist, r
  <2> QED
    BY <2>1, <2>2
<1>3. (a - 1) % N = Behind(N, a)
  <2>1. CASE N = 1
    <3>1. (a - 1) % N = 0
      BY <2>1
    <3> QED
      BY <2>1, <3>1 DEF Behind
  <2>2. CASE N # 1
    <3>1. 1 \in 0..N-1
      BY <2>2
    <3>2. (a - 1) % N = Dist(N, a, 1)
      BY <1>2, <3>1
    <3> QED
      BY <3>2 DEF Behind, Dist
  <2> QED
    BY <2>1, <2>2
<1>4. \A k \in Nat : k % N \in 0..N-1
  OBVIOUS
<1> QED
  BY <1>1, <1>2, <1>3, <1>4
-----------------------------------------------------------------------------
(* What a slot of an array holds.                                          *)
LEMMA SlotType ==
    ASSUME NEW N \in Nat, NEW s \in Array(N), NEW a \in 0..N-1
    PROVE  /\ DOMAIN s = 0..N-1 /\ s[a].dib \in Nat
           /\ s[a].dib > 0 => a \in Used(s) /\ s[a] \in Full /\ s[a].key \in Keys
           /\ s[a].dib = 0 => a \notin Used(s) /\ s[a] = Free
<1>1. s[a] \in {Free} \cup Full /\ DOMAIN s = 0..N-1
  BY DEF Array
<1>2. CASE s[a] = Free
  BY <1>1, <1>2 DEF Free, Used
<1>3. CASE s[a] \in Full
  BY <1>1, <1>3 DEF Full, Used
<1> QED
  BY <1>1, <1>2, <1>3

(* In a good array the dib of the entries before one goes down by at most  *)
(* one from slot to slot,                                                  *)
LEMMA Chain ==
    ASSUME NEW N \in Nat, NEW H \in [Keys -> 0..N-1], NEW s \in Array(N),
           Good(s, N, H), NEW n \in Used(s), NEW d \in 0..N-1, d < s[n].dib
    PROVE  s[Back(N, n, d)].dib >= s[n].dib - d
<1> DEFINE S == {e \in 0..d : s[Back(N, n, e)].dib < s[n].dib - e}
<1>1. n \in 0..N-1 /\ s[n].dib \in Nat
  BY SlotType DEF Used, Array
<1> SUFFICES ASSUME S # {} PROVE FALSE
  <2>1. d \in 0..d /\ Back(N, n, d) \in 0..N-1
    BY <1>1 DEF Back
  <2>2. s[Back(N, n, d)].dib \in Nat
    BY <2>1, SlotType
  <2> QED
    BY <1>1, <2>1, <2>2
<1>2. PICK e \in S : \A f \in S : e <= f
  <2>1. S \subseteq Nat
    OBVIOUS
  <2> HIDE DEF S
  <2> QED
    BY <2>1, SmallestNumber
<1> HIDE DEF S
<1>3. e \in 0..d /\ s[Back(N, n, e)].dib < s[n].dib - e
  BY <1>2 DEF S
<1>4. e > 0
  BY <1>1, <1>3 DEF Back
<1> DEFINE m == Back(N, n, e - 1)
<1>5. m \in 0..N-1 /\ Behind(N, m) = Back(N, n, e) /\ e - 1 \in 0..d
  BY <1>1, <1>3, <1>4 DEF Back, Behind
<1>6. e - 1 \notin S
  BY <1>2, <1>3
<1> HIDE DEF m
<1>7. s[m].dib >= s[n].dib - (e - 1)
  <2>1. s[m].dib \in Nat
    BY <1>5, SlotType
  <2>2. ~(s[m].dib < s[n].dib - (e - 1))
    BY <1>5, <1>6 DEF S, m
  <2> QED
    BY <1>1, <1>3, <2>1, <2>2
<1>8. s[m].dib > 1 /\ m \in Used(s) /\ s[m].dib \in Nat
  <2>1. s[m].dib \in Nat
    BY <1>5, SlotType
  <2>2. s[m].dib > 1
    BY <1>1, <1>3, <1>7, <2>1
  <2> QED
    BY <1>5, <2>1, <2>2, SlotType
<1>9. s[Back(N, n, e)].dib >= s[m].dib - 1
  BY <1>5, <1>8 DEF Good, Follows
<1>10. s[Back(N, n, e)].dib \in Nat
  <2>1. Back(N, n, e) \in 0..N-1
    BY <1>1, <1>3 DEF Back
  <2> QED
    BY <2>1, SlotType
<1> QED
  BY <1>1, <1>3, <1>7, <1>8, <1>9, <1>10

(* so that a slot which an entry has passed holds one that has come as far,*)
LEMMA Passed ==
    ASSUME NEW N \in Nat, NEW H \in [Keys -> 0..N-1], NEW s \in Array(N),
           Good(s, N, H), NEW n \in Used(s), NEW a \in 0..N-1,
           Dist(N, a, H[s[n].key]) <= Dist(N, n, H[s[n].key])
    PROVE  s[a].dib >= Dist(N, a, H[s[n].key]) + 1
<1>1. n \in 0..N-1 /\ s[n].dib \in Nat /\ s[n].key \in Keys
  BY SlotType DEF Used, Array
<1> DEFINE h == H[s[n].key]
           d == Dist(N, n, h) - Dist(N, a, h)
<1>2. h \in 0..N-1
  BY <1>1
<1>3. s[n].dib = Dist(N, n, h) + 1
  BY DEF Good, AtDistance
<1> HIDE DEF h
<1>4. d \in 0..N-1 /\ Back(N, n, d) = a /\ d < s[n].dib
      /\ s[n].dib - d = Dist(N, a, h) + 1
  <2>1. Dist(N, a, h) <= Dist(N, n, h)
    BY DEF h
  <2> QED
    BY <1>1, <1>2, <1>3, <2>1 DEF Dist, Back
<1> HIDE DEF d
<1>5. s[Back(N, n, d)].dib >= s[n].dib - d
  BY <1>4, Chain
<1> QED
  BY <1>4, <1>5 DEF h

(* and one that has come all the way round has met no free slot.           *)
LEMMA FullCircle ==
    ASSUME NEW N \in Nat, NEW H \in [Keys -> 0..N-1], NEW s \in Array(N),
           Good(s, N, H), NEW a \in 0..N-1, s[a].dib >= N,
           NEW m \in 0..N-1
    PROVE  m \in Used(s)
<1> DEFINE d == Dist(N, a, m)
<1>1. s[a].dib \in Nat /\ a \in Used(s)
  BY SlotType
<1>2. d \in 0..N-1 /\ Back(N, a, d) = m
  BY DEF Dist, Back
<1> HIDE DEF d
<1>3. s[m].dib >= s[a].dib - d
  BY <1>1, <1>2, Chain
<1>4. s[m].dib > 0
  BY <1>1, <1>2, <1>3, SlotType
<1> QED
  BY <1>4, SlotType

(* An array with fewer entries than slots has a free one.                  *)
LEMMA Room ==
    ASSUME NEW N \in Nat, NEW s \in Array(N)
    PROVE  /\ IsFiniteSet(Used(s)) /\ Cardinality(Used(s)) \in Nat
           /\ Cardinality(DOMAIN s) = N
           /\ Cardinality(Used(s)) < N => \E m \in 0..N-1 : m \notin Used(s)
<1>1. DOMAIN s = 0..N-1 /\ Used(s) \subseteq 0..N-1
  BY DEF Array, Used
<1>2. 0 \in Int /\ N - 1 \in Int
  OBVIOUS
<1>3. IsFiniteSet(0..N-1) /\ Cardinality(0..N-1) = N
  BY <1>2, FS_Interval
<1>4. IsFiniteSet(Used(s))
  BY <1>1, <1>3, FS_Subset
<1>5. Cardinality(Used(s)) \in Nat
  BY <1>4, FS_CardinalityType
<1>6. ASSUME \A m \in 0..N-1 : m \in Used(s) PROVE Cardinality(Used(s)) = N
  <2>1. Used(s) = 0..N-1
    BY <1>1, <1>6
  <2> QED
    BY <1>3, <2>1
<1>7. Cardinality(Used(s)) < N => \E m \in 0..N-1 : m \notin Used(s)
  BY <1>5, <1>6
<1> QED
  BY <1>1, <1>3, <1>4, <1>5, <1>7
-----------------------------------------------------------------------------
(* The entry e on its way to a free slot has come to slot a: its dib says  *)
(* so, the slot before is not closer to its home, and its key is not among *)
(* those passed.                                                           *)
Carried(s, N, H, e, a) ==
    /\ e \in Full
    /\ e.dib = Dist(N, a, H[e.key]) + 1
    /\ e.dib > 1 => s[Behind(N, a)].dib >= e.dib - 1
    /\ \A n \in Used(s) : s[n].key = e.key =>
           Dist(N, a, H[e.key]) <= Dist(N, n, H[e.key])

(* t is s with the entry e in slot a.                                      *)
Put(s, N, e, a, t) ==
    t \in Array(N) /\ t[a] = e /\ \A n \in 0..N-1 : n # a => t[n] = s[n]

LEMMA AtHome ==
    ASSUME NEW N \in Nat, NEW H \in [Keys -> 0..N-1], NEW s \in Array(N),
           NEW e \in Full, e.dib = 1
    PROVE  Carried(s, N, H, e, H[e.key])
<1>1. e.key \in Keys
  BY DEF Full
<1>2. H[e.key] \in 0..N-1
  BY <1>1
<1>3. \A n \in 0..N-1 : Dist(N, H[e.key], H[e.key]) <= Dist(N, n, H[e.key])
      /\ Dist(N, H[e.key], H[e.key]) = 0
  BY <1>2 DEF Dist
<1>4. Used(s) \subseteq 0..N-1
  BY DEF Used, Array
<1>5. e.dib = Dist(N, H[e.key], H[e.key]) + 1
  BY <1>2, <1>3
<1> QED
  BY <1>3, <1>4, <1>5 DEF Carried

(* Where the entry stays its key is nowhere,                               *)
LEMMA Absent ==
    ASSUME NEW N \in Nat, NEW H \in [Keys -> 0..N-1], NEW s \in Array(N),
           Good(s, N, H), NEW a \in 0..N-1, NEW e,
           Carried(s, N, H, e, a), s[a].dib < e.dib
    PROVE  \A n \in Used(s) : s[n].key # e.key
<1> SUFFICES ASSUME NEW n \in Used(s), s[n].key = e.key PROVE FALSE
  OBVIOUS
<1>1. Dist(N, a, H[e.key]) <= Dist(N, n, H[e.key])
  BY DEF Carried
<1>2. s[a].dib >= Dist(N, a, H[e.key]) + 1
  BY <1>1, Passed
<1>3. s[a].dib \in Nat /\ e.dib \in Nat
  BY SlotType DEF Carried, Full
<1> QED
  BY <1>2, <1>3 DEF Carried

(* and the array is good with it, in a free slot or in exchange.           *)
LEMMA PutGood ==
    ASSUME NEW N \in Nat, N > 1, NEW H \in [Keys -> 0..N-1],
           NEW s \in Array(N), Good(s, N, H), NEW a \in 0..N-1, NEW e,
           Carried(s, N, H, e, a), s[a].dib < e.dib,
           NEW t, Put(s, N, e, a, t)
    PROVE  Good(t, N, H) /\ Used(t) = Used(s) \cup {a}
<1>1. /\ t \in Array(N) /\ t[a] = e /\ DOMAIN t = 0..N-1
      /\ \A n \in 0..N-1 : n # a => t[n] = s[n]
      /\ DOMAIN s = 0..N-1
  BY DEF Put, Array
<1>2. /\ e \in Full /\ e.dib \in Nat /\ e.dib > 0
      /\ e.dib = Dist(N, a, H[e.key]) + 1
      /\ e.dib > 1 => s[Behind(N, a)].dib >= e.dib - 1
  BY DEF Carried, Full
<1>3. Used(t) = Used(s) \cup {a}
  <2>1. \A n \in 0..N-1 : t[n].dib > 0 <=> n \in Used(s) \cup {a}
    BY <1>1, <1>2 DEF Used
  <2> QED
    BY <1>1, <2>1 DEF Used
<1>4. \A n \in Used(s) : s[n].key # e.key
  BY Absent
<1>5. KeysOnce(t)
  BY <1>1, <1>3, <1>4 DEF Good, KeysOnce, Used
<1>6. AtDistance(t, N, H)
  <2> SUFFICES ASSUME NEW n \in Used(t)
               PROVE  t[n].dib = Dist(N, n, H[t[n].key]) + 1
    BY DEF AtDistance
  <2>1. CASE n = a
    BY <1>1, <1>2, <2>1
  <2>2. CASE n # a
    <3>1. n \in Used(s) /\ t[n] = s[n]
      BY <1>1, <1>3, <2>2 DEF Used
    <3> QED
      BY <3>1 DEF Good, AtDistance
  <2> QED
    BY <2>1, <2>2
<1>7. ASSUME NEW n \in Used(t), t[n].dib > 1
      PROVE  t[Behind(N, n)].dib >= t[n].dib - 1
  <2>1. n \in 0..N-1 /\ Behind(N, n) \in 0..N-1 /\ Behind(N, n) # n
    <3>1. n \in 0..N-1
      BY <1>1 DEF Used
    <3> QED
      BY <3>1 DEF Behind
  <2>2. CASE n = a
    BY <1>1, <1>2, <1>7, <2>1, <2>2
  <2>3. CASE n # a
    <3>1. n \in Used(s) /\ t[n] = s[n]
      BY <1>1, <1>3, <2>1, <2>3
    <3>2. s[Behind(N, n)].dib >= s[n].dib - 1
      BY <1>7, <3>1 DEF Good, Follows
    <3>3. CASE Behind(N, n) = a
      <4>1. s[a].dib \in Nat /\ s[n].dib \in Nat
        BY <2>1, SlotType
      <4> QED
        BY <1>1, <1>2, <3>1, <3>2, <3>3, <4>1
    <3>4. CASE Behind(N, n) # a
      BY <1>1, <2>1, <3>1, <3>2, <3>4
    <3> QED
      BY <3>3, <3>4
  <2> QED
    BY <2>2, <2>3
<1> QED
  BY <1>3, <1>5, <1>6, <1>7 DEF Good, Follows

(* Past an entry that is not closer to its home it is carried on,          *)
LEMMA CarryOn ==
    ASSUME NEW N \in Nat, NEW H \in [Keys -> 0..N-1], NEW s \in Array(N),
           Good(s, N, H), Cardinality(Used(s)) < N, NEW a \in 0..N-1, NEW e,
           Carried(s, N, H, e, a), s[a].dib >= e.dib, s[a].key # e.key
    PROVE  Carried(s, N, H, [e EXCEPT !.dib = @ + 1], Ahead(N, a))
<1> DEFINE f == [e EXCEPT !.dib = @ + 1]
           h == H[e.key]
<1>1. e \in Full /\ e.dib \in Nat /\ e.dib > 0 /\ e.key \in Keys
  BY DEF Carried, Full
<1>2. f \in Full /\ f.key = e.key /\ f.dib = e.dib + 1
  BY <1>1 DEF Full
<1> HIDE DEF f
<1>3. h \in 0..N-1 /\ e.dib = Dist(N, a, h) + 1
  BY <1>1 DEF Carried
<1>4. s[a].dib < N
  <2>1. s[a].dib \in Nat
    BY SlotType
  <2>2. PICK m \in 0..N-1 : m \notin Used(s)
    BY Room
  <2>3. ~(s[a].dib >= N)
    BY <2>2, FullCircle
  <2> QED
    BY <2>1, <2>3
<1>5. Dist(N, a, h) + 1 < N
  <2>1. s[a].dib \in Nat
    BY SlotType
  <2> QED
    BY <1>1, <1>3, <1>4, <2>1
<1> DEFINE b == Ahead(N, a)
<1>6. b \in 0..N-1 /\ Behind(N, b) = a /\ Dist(N, b, h) = Dist(N, a, h) + 1
  BY <1>3, <1>5 DEF Ahead, Behind, Dist
<1> HIDE DEF b
<1>7. ASSUME NEW n \in Used(s), s[n].key = e.key
      PROVE  Dist(N, b, h) <= Dist(N, n, h)
  <2>1. n \in 0..N-1 /\ n # a
    BY <1>7 DEF Used, Array
  <2>2. Dist(N, a, h) <= Dist(N, n, h)
    BY <1>7 DEF Carried
  <2>3. Dist(N, a, h) # Dist(N, n, h)
    BY <1>3, <2>1 DEF Dist
  <2>4. Dist(N, a, h) \in Int /\ Dist(N, n, h) \in Int
    BY <1>3, <2>1 DEF Dist
  <2> QED
    BY <1>6, <2>2, <2>3, <2>4
<1>8. Carried(s, N, H, f, b)
  <2>1. f.dib = Dist(N, b, h) + 1 /\ s[Behind(N, b)].dib >= f.dib - 1
    BY <1>1, <1>2, <1>3, <1>6
  <2> QED
    BY <1>2, <1>7, <2>1 DEF Carried
<1> QED
  BY <1>8 DEF f, b

(* and the entry it is exchanged for is carried on in its stead.           *)
LEMMA CarryExchanged ==
    ASSUME NEW N \in Nat, N > 1, NEW H \in [Keys -> 0..N-1],
           NEW s \in Array(N), Good(s, N, H), NEW a \in 0..N-1, NEW e,
           Carried(s, N, H, e, a), s[a].dib > 0, s[a].dib < e.dib,
           NEW t, Put(s, N, e, a, t)
    PROVE  /\ Carried(t, N, H, [s[a] EXCEPT !.dib = @ + 1], Ahead(N, a))
           /\ \A n \in Used(t) : t[n].key # s[a].key
<1> DEFINE f == [s[a] EXCEPT !.dib = @ + 1]
           h == H[f.key]
           b == Ahead(N, a)
<1>1. s[a] \in Full /\ a \in Used(s) /\ s[a].dib \in Nat /\ s[a].key \in Keys
  BY SlotType
<1>2. f \in Full /\ f.key = s[a].key /\ f.dib = s[a].dib + 1
  BY <1>1 DEF Full
<1>3. e.dib \in Nat /\ e.key \in Keys /\ e.dib = Dist(N, a, H[e.key]) + 1
  BY DEF Carried, Full
<1> HIDE DEF f
<1>4. h \in 0..N-1 /\ s[a].dib = Dist(N, a, h) + 1
  BY <1>1, <1>2 DEF Good, AtDistance
<1>5. e.dib <= N
  <2>1. H[e.key] \in 0..N-1
    BY <1>3
  <2> QED
    BY <1>3, <2>1 DEF Dist
<1> HIDE DEF h
<1>6. b \in 0..N-1 /\ Behind(N, b) = a /\ Dist(N, b, h) = Dist(N, a, h) + 1
  BY <1>1, <1>3, <1>4, <1>5 DEF Ahead, Behind, Dist
<1> HIDE DEF b
<1>7. t[a] = e /\ Used(t) = Used(s) \cup {a}
  BY PutGood DEF Put
<1>8. ASSUME NEW n \in Used(t) PROVE t[n].key # s[a].key
  <2>1. CASE n = a
    <3>1. s[a].key # e.key
      BY <1>1, Absent
    <3> QED
      BY <1>7, <2>1, <3>1
  <2>2. CASE n # a
    <3>1. n \in Used(s) /\ n \in 0..N-1
      BY <1>7, <2>2 DEF Used, Array
    <3>2. t[n] = s[n]
      BY <2>2, <3>1 DEF Put
    <3> QED
      BY <1>1, <2>2, <3>1, <3>2 DEF Good, KeysOnce
  <2> QED
    BY <2>1, <2>2
<1>9. Carried(t, N, H, f, b)
  <2>1. f.dib = Dist(N, b, h) + 1
    BY <1>1, <1>2, <1>4, <1>6
  <2>2. t[Behind(N, b)].dib >= f.dib - 1
    BY <1>1, <1>2, <1>3, <1>6, <1>7
  <2> QED
    BY <1>2, <1>8, <2>1, <2>2 DEF Carried, h
<1> QED
  BY <1>8, <1>9 DEF f, b
-----------------------------------------------------------------------------
(* While a deletion shifts entries back the slot before a is the hole: what*)
(* it holds does not count, and the entry at a may be one slot too far.    *)
Hole(N, a) == Behind(N, a)

Others(s, N, a) == Used(s) \ {Hole(N, a)}

Holed(s, N, H, a) ==
    /\ \A m, n \in Others(s, N, a) : s[m].key = s[n].key => m = n
    /\ \A n \in Others(s, N, a) : s[n].dib = Dist(N, n, H[s[n].key]) + 1
    /\ \A n \in Others(s, N, a) : n # a /\ s[n].dib > 1 =>
           s[Behind(N, n)].dib >= s[n].dib - 1
    /\ s[a].dib > 2 => s[Behind(N, Hole(N, a))].dib >= s[a].dib - 2

LEMMA DeleteHoles ==
    ASSUME NEW N \in Nat, N > 1, NEW H \in [Keys -> 0..N-1],
           NEW s \in Array(N), Good(s, N, H), NEW a \in Used(s),
           NEW t, Put(s, N, Free, a, t)
    PROVE  /\ Holed(t, N, H, Ahead(N, a))
           /\ Others(t, N, Ahead(N, a)) = Used(s) \ {a}
<1> DEFINE b == Ahead(N, a)
<1>1. a \in 0..N-1 /\ b \in 0..N-1 /\ Hole(N, b) = a /\ b # a
  BY DEF Used, Array, Ahead, Behind, Hole
<1> HIDE DEF b
<1>2. /\ t \in Array(N) /\ t[a] = Free /\ DOMAIN t = 0..N-1
      /\ \A n \in 0..N-1 : n # a => t[n] = s[n]
      /\ DOMAIN s = 0..N-1
  BY DEF Put, Array
<1>3. Others(t, N, b) = Used(s) \ {a}
  BY <1>1, <1>2 DEF Others, Used
<1>4. \A n \in Others(t, N, b) :
          n \in Used(s) /\ n \in 0..N-1 /\ n # a /\ t[n] = s[n]
  BY <1>2, <1>3 DEF Used
<1>5. \A m, n \in Others(t, N, b) : t[m].key = t[n].key => m = n
  BY <1>4 DEF Good, KeysOnce
<1>6. \A n \in Others(t, N, b) : t[n].dib = Dist(N, n, H[t[n].key]) + 1
  BY <1>4 DEF Good, AtDistance
<1>7. ASSUME NEW n \in Others(t, N, b), n # b, t[n].dib > 1
      PROVE  t[Behind(N, n)].dib >= t[n].dib - 1
  <2>1. Behind(N, n) \in 0..N-1 /\ Behind(N, n) # a
    BY <1>1, <1>4, <1>7 DEF Behind, Hole
  <2>2. s[Behind(N, n)].dib >= s[n].dib - 1
    BY <1>4, <1>7 DEF Good, Follows
  <2> QED
    BY <1>2, <1>4, <2>1, <2>2
<1>8. ASSUME t[b].dib > 2
      PROVE  t[Behind(N, Hole(N, b))].dib >= t[b].dib - 2
  <2>1. t[b] = s[b] /\ s[b].dib \in Nat /\ b \in Used(s) /\ s[a].dib \in Nat
    BY <1>1, <1>2, <1>8, SlotType
  <2>2. s[a].dib >= s[b].dib - 1
    BY <1>1, <1>8, <2>1 DEF Good, Follows, Hole
  <2>3. s[Behind(N, a)].dib >= s[a].dib - 1
    BY <1>8, <2>1, <2>2 DEF Good, Follows
  <2>4. Behind(N, a) \in 0..N-1 /\ Behind(N, a) # a
    BY <1>1 DEF Behind
  <2>5. s[Behind(N, a)].dib \in Nat
    BY <2>4, SlotType
  <2> QED
    BY <1>1, <1>2, <2>1, <2>2, <2>3, <2>4, <2>5
<1>9. Holed(t, N, H, b)
  BY <1>5, <1>6, <1>7, <1>8 DEF Holed
<1> QED
  BY <1>3, <1>9 DEF b

(* The entry at a moves into the hole, and leaves one.                     *)
LEMMA ShiftHoles ==
    ASSUME NEW N \in Nat, N > 1, NEW H \in [Keys -> 0..N-1],
           NEW s \in Array(N), NEW a \in 0..N-1, Holed(s, N, H, a),
           s[a].dib > 1,
           NEW t, Put(s, N, [s[a] EXCEPT !.dib = @ - 1], Hole(N, a), t)
    PROVE  /\ Holed(t, N, H, Ahead(N, a))
           /\ Others(t, N, Ahead(N, a)) =
                  (Others(s, N, a) \ {a}) \cup {Hole(N, a)}
           /\ a \in Others(s, N, a) /\ Hole(N, a) \notin Others(s, N, a)
<1> DEFINE e == [s[a] EXCEPT !.dib = @ - 1]
           o == Hole(N, a)
           b == Ahead(N, a)
           k == s[a].key
<1>1. /\ o \in 0..N-1 /\ b \in 0..N-1 /\ o # a /\ b # a
      /\ o = Behind(N, a) /\ Hole(N, b) = a /\ Behind(N, o) \in 0..N-1
      /\ Behind(N, o) # o
      /\ N > 2 => b # o
      /\ N = 2 => b = o
  BY DEF Ahead, Behind, Hole
<1>2. s[a] \in Full /\ s[a].dib \in Nat /\ k \in Keys /\ a \in Used(s)
  BY SlotType
<1>3. e \in Full /\ e.key = k /\ e.dib = s[a].dib - 1
  BY <1>2 DEF Full
<1> HIDE DEF e
<1>4. /\ t[o] = e
      /\ \A n \in 0..N-1 : n # o => t[n] = s[n]
  BY DEF Put, e
<1>5. t \in Array(N) /\ DOMAIN t = 0..N-1 /\ DOMAIN s = 0..N-1
  BY DEF Put, Array
<1>6. a \in Others(s, N, a) /\ o \notin Others(s, N, a)
  BY <1>1, <1>2 DEF Others
<1> HIDE DEF o, b
<1>7. Others(t, N, b) = (Others(s, N, a) \ {a}) \cup {o}
  <2>1. o \in Used(t)
    BY <1>1, <1>2, <1>3, <1>4, <1>5 DEF Used
  <2>2. \A n \in 0..N-1 : n # o => (n \in Used(t) <=> n \in Used(s))
    BY <1>4, <1>5 DEF Used
  <2>3. Used(t) \subseteq 0..N-1 /\ Used(s) \subseteq 0..N-1
    BY <1>5 DEF Used
  <2>4. Others(t, N, b) = Used(t) \ {a} /\ Others(s, N, a) = Used(s) \ {o}
    BY <1>1 DEF Others, Hole
  <2> QED
    BY <1>1, <2>1, <2>2, <2>3, <2>4
<1>8. ASSUME NEW n \in Others(t, N, b), n # o
      PROVE  n \in Others(s, N, a) /\ n # a /\ t[n] = s[n] /\ n \in 0..N-1
  BY <1>4, <1>5, <1>7, <1>8 DEF Others, Used
<1>9. s[a].dib = Dist(N, a, H[k]) + 1 /\ H[k] \in 0..N-1
  BY <1>2, <1>6 DEF Holed
<1>10. s[a].dib <= N
  BY <1>9 DEF Dist
<1>11. ASSUME NEW m \in Others(t, N, b), NEW n \in Others(t, N, b),
              t[m].key = t[n].key
       PROVE  m = n
  <2>1. ASSUME NEW x \in Others(t, N, b), x # o PROVE t[x].key # k
    BY <1>6, <1>8, <2>1 DEF Holed
  <2>2. CASE m # o /\ n # o
    BY <1>8, <1>11, <2>2 DEF Holed
  <2>3. CASE m = o \/ n = o
    BY <1>3, <1>4, <1>11, <2>1, <2>3
  <2> QED
    BY <2>2, <2>3
<1>12. ASSUME NEW n \in Others(t, N, b)
       PROVE  t[n].dib = Dist(N, n, H[t[n].key]) + 1
  <2>1. CASE n = o
    <3>1. Dist(N, o, H[k]) = Dist(N, a, H[k]) - 1
      BY <1>1, <1>2, <1>9 DEF Dist, Behind
    <3>2. Dist(N, a, H[k]) \in Int
      BY <1>9 DEF Dist
    <3> QED
      BY <1>3, <1>4, <1>9, <2>1, <3>1, <3>2
  <2>2. CASE n # o
    BY <1>8, <2>2 DEF Holed
  <2> QED
    BY <2>1, <2>2
<1>13. s[Behind(N, o)].dib \in Nat
  BY <1>1, SlotType
<1>14. ASSUME NEW n \in Others(t, N, b), n # b, t[n].dib > 1
       PROVE  t[Behind(N, n)].dib >= t[n].dib - 1
  <2>1. CASE n = o
    <3>1. s[a].dib > 2
      BY <1>2, <1>3, <1>4, <1>14, <2>1
    <3>2. s[Behind(N, o)].dib >= s[a].dib - 2
      BY <3>1 DEF Holed, o
    <3> QED
      BY <1>1, <1>2, <1>3, <1>4, <1>13, <2>1, <3>2
  <2>2. CASE n # o
    <3>1. n \in Others(s, N, a) /\ n # a /\ t[n] = s[n] /\ n \in 0..N-1
      BY <1>8, <2>2
    <3>2. s[Behind(N, n)].dib >= s[n].dib - 1
      BY <1>14, <3>1 DEF Holed
    <3>3. Behind(N, n) \in 0..N-1 /\ Behind(N, n) # o
      BY <1>1, <3>1 DEF Behind
    <3> QED
      BY <1>4, <3>1, <3>2, <3>3
  <2> QED
    BY <2>1, <2>2
<1>15. ASSUME t[b].dib > 2
       PROVE  t[Behind(N, Hole(N, b))].dib >= t[b].dib - 2
  <2>1. CASE N = 2
    BY <1>1, <1>2, <1>3, <1>4, <1>10, <1>15, <2>1
  <2>2. CASE N > 2
    <3>1. b # o /\ t[b] = s[b] /\ s[b].dib \in Nat /\ b \in Used(s)
      BY <1>1, <1>4, <1>15, <2>2, SlotType
    <3>2. b \in Others(s, N, a)
      BY <3>1 DEF Others, o
    <3>3. s[a].dib >= s[b].dib - 1
      <4>1. Behind(N, b) = a
        BY <1>1 DEF Hole
      <4> QED
        BY <1>1, <1>15, <3>1, <3>2, <4>1 DEF Holed
    <3>4. t[o].dib = s[a].dib - 1
      BY <1>3, <1>4
    <3> QED
      BY <1>1, <1>2, <3>1, <3>3, <3>4
  <2> QED
    BY <2>1, <2>2
<1>16. Holed(t, N, H, b)
  BY <1>11, <1>12, <1>14, <1>15 DEF Holed
<1> QED
  BY <1>6, <1>7, <1>16 DEF o, b

(* The hole is free in the end.                                            *)
LEMMA EndHoles ==
    ASSUME NEW N \in Nat, N > 1, NEW H \in [Keys -> 0..N-1],
           NEW s \in Array(N), NEW a \in 0..N-1, Holed(s, N, H, a),
           s[a].dib <= 1,
           NEW t, Put(s, N, Free, Hole(N, a), t)
    PROVE  Good(t, N, H) /\ Used(t) = Others(s, N, a)
<1> DEFINE o == Hole(N, a)
<1>1. o \in 0..N-1 /\ o # a /\ o = Behind(N, a)
  BY DEF Behind, Hole
<1>2. /\ t[o].dib = 0
      /\ \A n \in 0..N-1 : n # o => t[n] = s[n]
  BY DEF Put, Free
<1>3. t \in Array(N) /\ DOMAIN t = 0..N-1 /\ DOMAIN s = 0..N-1
  BY DEF Put, Array
<1>4. Used(t) = Others(s, N, a)
  <2>1. Others(s, N, a) = Used(s) \ {o}
    BY DEF Others
  <2> HIDE DEF o
  <2>2. \A n \in 0..N-1 : n \in Used(t) <=> n \in Used(s) \ {o}
    BY <1>2, <1>3 DEF Used
  <2> QED
    BY <1>3, <2>1, <2>2 DEF Used
<1>5. \A n \in Used(t) : /\ n \in 0..N-1 /\ n # o /\ t[n] = s[n]
                         /\ n \in Others(s, N, a)
  BY <1>2, <1>3, <1>4 DEF Others, Used
<1> HIDE DEF o
<1>6. KeysOnce(t)
  BY <1>5 DEF KeysOnce, Holed
<1>7. AtDistance(t, N, H)
  BY <1>5 DEF AtDistance, Holed
<1>8. ASSUME NEW n \in Used(t), t[n].dib > 1
      PROVE  t[Behind(N, n)].dib >= t[n].dib - 1
  <2>1. n # a
    <3>1. s[a].dib \in Nat
      BY SlotType
    <3> QED
      BY <1>5, <1>8, <3>1
  <2>2. s[Behind(N, n)].dib >= s[n].dib - 1
    BY <1>5, <1>8, <2>1 DEF Holed
  <2>3. Behind(N, n) \in 0..N-1 /\ Behind(N, n) # o
    BY <1>1, <1>5, <2>1 DEF Behind
  <2> QED
    BY <1>2, <1>5, <2>2, <2>3
<1> QED
  BY <1>4, <1>6, <1>7, <1>8 DEF Good, Follows
-----------------------------------------------------------------------------
homes == [k \in Keys |-> home(k)]

(* The sizes an array goes through: MinBuckets, doubled again and again.   *)
ASize(n) ==
    \A S \in SUBSET Nat :
        MinBuckets \in S /\ (\A m \in S : 2 * m \in S) => n \in S

(* Outside of resizes and deletions the array is good and is all there is. *)
AtRest ==
    op \notin {"move", "shift"} =>
        /\ Good(slots, nbuckets, homes)
        /\ count = Cardinality(Taken)
        /\ old = <<>> /\ item = Nothing

Setting ==
    op = "set" =>
        /\ hand # Nothing /\ count < growat
        /\ Carried(slots, nbuckets, homes, hand, at)

Shifting ==
    op = "shift" =>
        /\ Holed(slots, nbuckets, homes, at)
        /\ count = Cardinality(Others(slots, nbuckets, at)) + 1
        /\ old = <<>> /\ item = Nothing

Shrinking ==
    op = "shrink" => nbuckets > MinBuckets /\ count <= shrinkat

(* A resize: the entries are in the new array, in hand, or left in the old *)
(* one, each key once.                                                     *)
Moving ==
    op = "move" =>
        /\ Good(slots, nbuckets, homes)
        /\ count = Cardinality(Taken) + Cardinality(Left)
                     + (IF hand = Nothing THEN 0 ELSE 1)
        /\ \A m, n \in Left : old[m].key = old[n].key => m = n
        /\ \A m \in Taken, n \in Left : slots[m].key # old[n].key
        /\ hand # Nothing =>
               /\ Carried(slots, nbuckets, homes, hand, at)
               /\ \A n \in Taken : slots[n].key # hand.key
               /\ \A n \in Left : old[n].key # hand.key
        /\ item # Nothing => item.dib = 1 /\ count < growat

MapInv ==
    /\ MapTypeOK /\ ASize(nbuckets)
    /\ count <= growat
    /\ AtRest /\ Setting /\ Shifting /\ Shrinking /\ Moving

LEMMA Sizes ==
    ASSUME NEW n \in Nat, ASize(n)
    PROVE  /\ n >= MinBuckets /\ ASize(2 * n)
           /\ n > MinBuckets => /\ n \div 2 \in Nat /\ n \div 2 >= MinBuckets
                                /\ n = 2 * (n \div 2) /\ ASize(n \div 2)
<1> USE MapAssumption
<1>1. n >= MinBuckets
  <2> DEFINE S == {m \in Nat : m >= MinBuckets}
  <2>1. S \in SUBSET Nat /\ MinBuckets \in S /\ \A m \in S : 2 * m \in S
    OBVIOUS
  <2>2. n \in S
    BY <2>1 DEF ASize
  <2> QED
    BY <2>2
<1>2. ASize(2 * n)
  BY DEF ASize
<1>3. ASSUME n > MinBuckets
      PROVE  /\ n \div 2 \in Nat /\ n \div 2 >= MinBuckets
             /\ n = 2 * (n \div 2) /\ ASize(n \div 2)
  <2>1. ASSUME NEW S \in SUBSET Nat,
               MinBuckets \in S, \A m \in S : 2 * m \in S
        PROVE  \E p \in S : n = 2 * p
    <3> DEFINE T == {m \in Nat : m = MinBuckets \/ \E p \in S : m = 2 * p}
    <3>1. T \in SUBSET Nat /\ MinBuckets \in T
      OBVIOUS
    <3>2. ASSUME NEW m \in T PROVE 2 * m \in T
      <4>1. m \in S
        BY <2>1
      <4> QED
        BY <4>1
    <3>3. n \in T
      <4> HIDE DEF T
      <4> QED
        BY <3>1, <3>2 DEF ASize
    <3> QED
      BY <1>3, <3>3
  <2>2. ASSUME NEW p \in Nat, n = 2 * p PROVE p = n \div 2
    BY <2>2
  <2>3. ASSUME NEW S \in SUBSET Nat,
               MinBuckets \in S, \A m \in S : 2 * m \in S
        PROVE  n \div 2 \in S /\ n = 2 * (n \div 2)
    <3>1. PICK p \in S : n = 2 * p
      BY <2>1, <2>3
    <3>2. p \in Nat
      BY <2>3
    <3>3. p = n \div 2
      BY <2>2, <3>1, <3>2
    <3> QED
      BY <3>1, <3>3
  <2>4. ASize(n \div 2)
    BY <2>3 DEF ASize
  <2> DEFINE R == {m \in Nat : m >= MinBuckets}
  <2>5. R \in SUBSET Nat /\ MinBuckets \in R /\ \A m \in R : 2 * m \in R
    OBVIOUS
  <2>6. n \div 2 \in R /\ n = 2 * (n \div 2)
    <3> HIDE DEF R
    <3> QED
      BY <2>3, <2>5
  <2> QED
    BY <2>4, <2>6
<1> QED
  BY <1>1, <1>2, <1>3

LEMMA MapFacts ==
    ASSUME MapTypeOK
    PROVE  /\ nbuckets \in Nat /\ nbuckets > 1 /\ slots \in Array(nbuckets)
           /\ DOMAIN slots = 0..nbuckets-1 /\ at \in 0..nbuckets-1
           /\ homes \in [Keys -> 0..nbuckets-1]
           /\ \A k \in Keys : homes[k] = home(k) /\ home(k) \in 0..nbuckets-1
           /\ after(at) = Ahead(nbuckets, at) /\ after(at) \in 0..nbuckets-1
           /\ (at - 1) % nbuckets = Behind(nbuckets, at)
           /\ Behind(nbuckets, at) \in 0..nbuckets-1
           /\ growat \in Nat /\ growat < nbuckets
           /\ shrinkat \in Nat /\ shrinkat <= growat
           /\ Taken = Used(slots)
<1> USE MapAssumption
<1>1. nbuckets \in Nat /\ nbuckets > 1
  BY DEF MapTypeOK
<1>2. slots \in Array(nbuckets) /\ DOMAIN slots = 0..nbuckets-1
  BY DEF MapTypeOK, Array
<1>3. at \in 0..nbuckets-1
  BY <1>2 DEF MapTypeOK
<1>4. PICK N, a : N = nbuckets /\ a = at
  OBVIOUS
<1>5. N \in Nat /\ N > 0 /\ N > 1 /\ a \in 0..N-1
  BY <1>1, <1>3, <1>4
<1>6. /\ (a + 1) % N = Ahead(N, a) /\ (a - 1) % N = Behind(N, a)
      /\ \A k \in Nat : k % N \in 0..N-1
  BY <1>5, Remainders
<1>7. \A k \in Keys : home(k) \in 0..nbuckets-1
  BY <1>4, <1>6 DEF home, MapTypeOK
<1>8. homes \in [Keys -> 0..nbuckets-1] /\ \A k \in Keys : homes[k] = home(k)
  BY <1>7 DEF homes
<1>9. Ahead(N, a) \in 0..N-1 /\ Behind(N, a) \in 0..N-1
  BY <1>5 DEF Ahead, Behind
<1>10. /\ growat \in Nat /\ growat < nbuckets
       /\ shrinkat \in Nat /\ shrinkat <= growat
  BY <1>1 DEF growat, shrinkat
<1>11. Taken = Used(slots)
  BY DEF Taken, Used
<1> QED
  BY <1>1, <1>2, <1>3, <1>4, <1>6, <1>7, <1>8, <1>9, <1>10, <1>11 DEF after

(* An array of the same size keeps all that depends on the size.           *)
LEMMA SameSize ==
    ASSUME MapTypeOK, hash' = hash, slots' \in Array(nbuckets)
    PROVE  /\ nbuckets' = nbuckets /\ homes' = homes
           /\ growat' = growat /\ shrinkat' = shrinkat
           /\ Taken' = Used(slots')
           /\ slots' \in [0..nbuckets'-1 -> {Free} \cup Full]
           /\ nbuckets' \in MinBuckets..MaxBuckets
           /\ DOMAIN slots' = 0..nbuckets-1
<1>1. PICK N, t : N = nbuckets /\ t = slots'
  OBVIOUS
<1>2. N \in Nat /\ t \in Array(N)
  BY <1>1, MapFacts
<1>3. Cardinality(DOMAIN t) = N
  BY <1>2, Room
<1>4. nbuckets' = nbuckets
  BY <1>1, <1>3 DEF nbuckets
<1>5. homes' = homes
  BY <1>4 DEF homes, home
<1>6. growat' = growat /\ shrinkat' = shrinkat
  BY <1>4 DEF growat, shrinkat
<1>7. Taken' = Used(slots')
  BY DEF Taken, Used
<1> QED
  BY <1>1, <1>2, <1>4, <1>5, <1>6, <1>7 DEF MapTypeOK, Array

(* A resize begins with an array of free slots.                            *)
LEMMA NewSize ==
    ASSUME NEW n \in Nat, n > 0, n \in MinBuckets..MaxBuckets, hash' = hash,
           MapTypeOK, slots' = [m \in 0..n-1 |-> Free]
    PROVE  /\ nbuckets' = n /\ slots' \in Array(n)
           /\ slots' \in [0..nbuckets'-1 -> {Free} \cup Full]
           /\ DOMAIN slots' = 0..n-1
           /\ Taken' = {} /\ Cardinality(Taken') = 0
           /\ Good(slots', n, homes')
<1>1. PICK t : t = slots'
  OBVIOUS
<1>2. t \in Array(n) /\ DOMAIN t = 0..n-1
  BY <1>1 DEF Array
<1>3. Cardinality(DOMAIN t) = n
  BY <1>2, Room
<1>4. nbuckets' = n
  BY <1>1, <1>3 DEF nbuckets
<1>5. Used(slots') = {}
  BY <1>1, <1>2 DEF Used, Free
<1>6. Taken' = {}
  BY <1>5 DEF Taken, Used
<1>7. Good(slots', n, homes')
  BY <1>5 DEF Good, KeysOnce, AtDistance, Follows
<1> QED
  BY <1>1, <1>2, <1>4, <1>6, <1>7, FS_EmptySet DEF Array

LEMMA LeftFinite ==
    ASSUME MapTypeOK
    PROVE  /\ IsFiniteSet(Left) /\ Cardinality(Left) \in Nat
           /\ \A n \in Left : n \in DOMAIN old /\ old[n] \in Full
                              /\ old[n].key \in Keys
<1>1. CASE old = <<>>
  <2>1. Left = {}
    BY <1>1 DEF Left
  <2> QED
    BY <2>1, FS_EmptySet
<1>2. CASE old # <<>>
  <2>1. PICK n \in MinBuckets..MaxBuckets : old \in [0..n-1 -> {Free} \cup Full]
    BY <1>2 DEF MapTypeOK
  <2>2. n \in Int /\ 0 \in Int /\ n - 1 \in Int
    BY MapAssumption
  <2>3. IsFiniteSet(0..n-1) /\ Left \subseteq 0..n-1
    BY <2>1, <2>2, FS_Interval DEF Left
  <2>4. IsFiniteSet(Left)
    BY <2>3, FS_Subset
  <2>5. ASSUME NEW x \in Left
        PROVE  x \in DOMAIN old /\ old[x] \in Full /\ old[x].key \in Keys
    <3>1. x \in 0..n-1 /\ old[x].dib > 0 /\ old[x] \in {Free} \cup Full
      BY <2>1 DEF Left
    <3>2. old[x] # Free
      BY <3>1 DEF Free
    <3> QED
      BY <2>1, <3>1, <3>2 DEF Full
  <2> QED
    BY <2>4, <2>5, FS_CardinalityType
<1> QED
  BY <1>1, <1>2

LEMMA PutIs ==
    ASSUME NEW N \in Nat, NEW s \in Array(N), NEW a \in 0..N-1,
           NEW e \in {Free} \cup Full
    PROVE  Put(s, N, e, a, [s EXCEPT ![a] = e])
BY DEF Put, Array

LEMMA NothingElse ==
    Nothing \notin Full
<1>1. \A e \in Full : "dib" \in DOMAIN e
  BY DEF Full
<1>2. "dib" \notin DOMAIN Nothing
  BY DEF Nothing
<1> QED
  BY <1>1, <1>2

LEMMA PlaceKeeps ==
    ASSUME MapInv, Place
    PROVE  MapInv'
<1>0. PICK N, H, s, a, e, t :
        N = nbuckets /\ H = homes /\ s = slots /\ a = at /\ e = hand
        /\ t = slots'
  OBVIOUS
<1>1. /\ N \in Nat /\ N > 1 /\ H \in [Keys -> 0..N-1] /\ s \in Array(N)
      /\ a \in 0..N-1 /\ Taken = Used(s)
  BY <1>0, MapFacts DEF MapInv
<1>2. /\ Good(s, N, H) /\ Carried(s, N, H, e, a) /\ e \in Full
      /\ s[a].dib = 0
  BY <1>0 DEF MapInv, AtRest, Setting, Moving, Place, Carried
<1>3. s[a].dib < e.dib /\ a \notin Used(s)
  BY <1>1, <1>2 DEF Full, Used
<1>4. Put(s, N, e, a, t) /\ t \in Array(N)
  <2>1. Put(s, N, e, a, t)
    <3>1. t = [s EXCEPT ![a] = e]
      BY <1>0 DEF Place
    <3> QED
      BY <1>1, <1>2, <3>1, PutIs
  <2> QED
    BY <2>1 DEF Put
<1>5. Good(t, N, H) /\ Used(t) = Used(s) \cup {a}
  BY <1>1, <1>2, <1>3, <1>4, PutGood
<1>6. /\ Cardinality(Used(t)) = Cardinality(Used(s)) + 1
      /\ Cardinality(Used(s)) \in Nat
  <2>1. IsFiniteSet(Used(s)) /\ Cardinality(Used(s)) \in Nat
    BY <1>1, Room
  <2> QED
    BY <1>3, <1>5, <2>1, FS_AddElement
<1>7. /\ nbuckets' = N /\ homes' = H /\ growat' = growat
      /\ shrinkat' = shrinkat /\ Taken' = Used(t)
      /\ slots' \in [0..nbuckets'-1 -> {Free} \cup Full]
      /\ nbuckets' \in MinBuckets..MaxBuckets
      /\ DOMAIN slots' = 0..N-1
  BY <1>0, <1>4, SameSize DEF MapInv, Place
<1>8. MapTypeOK'
  BY <1>0, <1>1, <1>7 DEF MapInv, MapTypeOK, Place, resizeVars
<1>9. ASize(nbuckets')
  BY <1>0, <1>7 DEF MapInv
<1>10. growat \in Nat /\ count \in Nat /\ Cardinality(Left) \in Nat
  BY MapFacts, LeftFinite DEF MapInv, MapTypeOK
<1>11. old' = old /\ moved' = moved /\ item' = item /\ hand' = Nothing
  BY DEF Place, resizeVars
<1>12. CASE op = "set"
  <2>1. op' = "idle" /\ count' = count + 1 /\ count < growat
        /\ count = Cardinality(Used(s)) /\ old = <<>> /\ item = Nothing
    BY <1>0, <1>1, <1>12 DEF Place, MapInv, AtRest, Setting
  <2>2. count' <= growat'
    BY <1>7, <1>10, <2>1
  <2>3. AtRest'
    BY <1>0, <1>5, <1>6, <1>7, <1>11, <2>1 DEF AtRest
  <2> QED
    BY <1>8, <1>9, <2>1, <2>2, <2>3
    DEF MapInv, Setting, Shifting, Shrinking, Moving
<1>13. CASE op = "move"
  <2>1. op' = "move" /\ count' = count /\ Left' = Left
    BY <1>11, <1>13 DEF Place, Left
  <2>2. e # Nothing /\ Moving
    BY <1>0, <1>13 DEF Place, MapInv
  <2>3. count' = Cardinality(Used(t)) + Cardinality(Left)
    BY <1>0, <1>1, <1>6, <1>10, <1>13, <2>1, <2>2 DEF Moving
  <2>4. ASSUME NEW m \in Used(t), NEW n \in Left
        PROVE  t[m].key # old[n].key
    <3>1. CASE m = a
      BY <1>0, <1>4, <1>13, <2>2, <3>1 DEF Put, Moving
    <3>2. CASE m # a
      <4>1. m \in Used(s) /\ m \in 0..N-1
        BY <1>1, <1>5, <3>2 DEF Used, Array
      <4>2. t[m] = s[m]
        BY <1>4, <3>2, <4>1 DEF Put
      <4> QED
        BY <1>0, <1>1, <1>13, <2>2, <4>1, <4>2 DEF Moving
    <3> QED
      BY <3>1, <3>2
  <2>5. Moving'
    <3>1. Good(slots', nbuckets', homes')
      BY <1>0, <1>5, <1>7
    <3>2. count' = Cardinality(Taken') + Cardinality(Left')
                     + (IF hand' = Nothing THEN 0 ELSE 1)
      BY <1>6, <1>7, <1>10, <1>11, <2>1, <2>3, Room, <1>4
    <3>3. \A m, n \in Left' : old'[m].key = old'[n].key => m = n
      BY <1>11, <1>13, <2>1, <2>2 DEF Moving
    <3>4. \A m \in Taken', n \in Left' : slots'[m].key # old'[n].key
      BY <1>0, <1>7, <1>11, <2>1, <2>4
    <3>5. item' # Nothing => item'.dib = 1 /\ count' < growat'
      BY <1>7, <1>11, <1>13, <2>1, <2>2 DEF Moving
    <3> QED
      BY <1>11, <3>1, <3>2, <3>3, <3>4, <3>5 DEF Moving
  <2>6. count' <= growat'
    BY <1>7, <2>1 DEF MapInv
  <2> QED
    BY <1>8, <1>9, <2>1, <2>5, <2>6
    DEF MapInv, AtRest, Setting, Shifting, Shrinking
<1> QED
  BY <1>12, <1>13 DEF Place

LEMMA GoOnKeeps ==
    ASSUME MapInv, GoOn
    PROVE  MapInv'
<1>0. PICK N, H, s, a, e, t, f :
        N = nbuckets /\ H = homes /\ s = slots /\ a = at /\ e = hand
        /\ t = slots' /\ f = hand'
  OBVIOUS
<1>1. /\ N \in Nat /\ N > 1 /\ H \in [Keys -> 0..N-1] /\ s \in Array(N)
      /\ a \in 0..N-1 /\ Taken = Used(s)
      /\ at' = Ahead(N, a) /\ Ahead(N, a) \in 0..N-1
  BY <1>0, MapFacts DEF MapInv, GoOn
<1>2. /\ Good(s, N, H) /\ Carried(s, N, H, e, a) /\ e \in Full
      /\ s[a].dib > 0
  BY <1>0 DEF MapInv, AtRest, Setting, Moving, GoOn, Carried
<1>3. /\ growat \in Nat /\ growat < N /\ count \in Nat
      /\ Cardinality(Left) \in Nat /\ Cardinality(Used(s)) \in Nat
  BY <1>0, <1>1, MapFacts, LeftFinite, Room DEF MapInv, MapTypeOK
<1>4. Cardinality(Used(s)) < N
  <2>1. CASE op = "set"
    BY <1>1, <1>3, <2>1 DEF MapInv, AtRest, Setting
  <2>2. CASE op = "move"
    <3>1. hand # Nothing
      BY DEF GoOn
    <3>2. count = Cardinality(Used(s)) + Cardinality(Left) + 1
      BY <1>1, <2>2, <3>1 DEF MapInv, Moving
    <3>3. count <= growat
      BY DEF MapInv
    <3> QED
      BY <1>1, <1>3, <3>2, <3>3
  <2> QED
    BY <2>1, <2>2 DEF GoOn
<1>5. s[a] \in Full /\ s[a].dib \in Nat /\ a \in Used(s) /\ e.dib \in Nat
  BY <1>1, <1>2, SlotType DEF Full
<1>6. s[a].key # e.key
  BY <1>0, <1>1, <1>5 DEF GoOn, MapInv, Moving
<1>7. /\ t \in Array(N) /\ Good(t, N, H) /\ Used(t) = Used(s)
      /\ f \in Full /\ Carried(t, N, H, f, Ahead(N, a))
      /\ op = "move" =>
             /\ \A n \in Used(t) : t[n].key # f.key
             /\ \A n \in Left : old[n].key # f.key
             /\ \A m \in Used(t), n \in Left : t[m].key # old[n].key
  <2>1. CASE s[a].dib < e.dib
    <3>1. t = [s EXCEPT ![a] = e] /\ f = [s[a] EXCEPT !.dib = @ + 1]
      BY <1>0, <2>1 DEF GoOn
    <3>2. Put(s, N, e, a, t)
      BY <1>1, <1>2, <3>1, PutIs
    <3>3. /\ Carried(t, N, H, [s[a] EXCEPT !.dib = @ + 1], Ahead(N, a))
          /\ \A n \in Used(t) : t[n].key # s[a].key
      BY <1>1, <1>2, <2>1, <3>2, CarryExchanged
    <3>4. Good(t, N, H) /\ Used(t) = Used(s) \cup {a}
      BY <1>1, <1>2, <2>1, <3>2, PutGood
    <3>5. f \in Full /\ f.key = s[a].key
      BY <1>5, <3>1 DEF Full
    <3>6. ASSUME op = "move"
          PROVE  /\ \A n \in Left : old[n].key # f.key
                 /\ \A m \in Used(t), n \in Left : t[m].key # old[n].key
      <4>1. /\ \A m \in Used(s), n \in Left : s[m].key # old[n].key
            /\ \A n \in Left : old[n].key # e.key
        BY <1>0, <1>1, <3>6 DEF GoOn, MapInv, Moving
      <4>2. ASSUME NEW m \in Used(t), NEW n \in Left
            PROVE  t[m].key # old[n].key
        <5>1. CASE m = a
          BY <3>2, <4>1, <5>1 DEF Put
        <5>2. CASE m # a
          <6>1. m \in Used(s) /\ m \in 0..N-1
            BY <1>1, <3>4, <5>2 DEF Used, Array
          <6> QED
            BY <3>2, <4>1, <5>2, <6>1 DEF Put
        <5> QED
          BY <5>1, <5>2
      <4> QED
        BY <1>5, <3>5, <4>1, <4>2
    <3> QED
      BY <1>5, <3>1, <3>2, <3>3, <3>4, <3>5, <3>6 DEF Put
  <2>2. CASE ~(s[a].dib < e.dib)
    <3>1. t = s /\ f = [e EXCEPT !.dib = @ + 1]
      BY <1>0, <2>2 DEF GoOn
    <3>2. s[a].dib >= e.dib
      BY <1>5, <2>2
    <3>3. Carried(s, N, H, [e EXCEPT !.dib = @ + 1], Ahead(N, a))
      BY <1>1, <1>2, <1>4, <1>6, <3>2, CarryOn
    <3>4. f \in Full /\ f.key = e.key
      BY <1>2, <3>1 DEF Full
    <3>5. ASSUME op = "move"
          PROVE  /\ \A n \in Used(s) : s[n].key # e.key
                 /\ \A n \in Left : old[n].key # e.key
                 /\ \A m \in Used(s), n \in Left : s[m].key # old[n].key
      BY <1>0, <1>1, <3>5 DEF GoOn, MapInv, Moving
    <3> QED
      BY <1>1, <1>2, <3>1, <3>3, <3>4, <3>5
  <2> QED
    BY <2>1, <2>2
<1>8. /\ nbuckets' = N /\ homes' = H /\ growat' = growat
      /\ shrinkat' = shrinkat /\ Taken' = Used(t)
      /\ slots' \in [0..nbuckets'-1 -> {Free} \cup Full]
      /\ nbuckets' \in MinBuckets..MaxBuckets
      /\ DOMAIN slots' = 0..N-1
  BY <1>0, <1>7, SameSize DEF MapInv, GoOn
<1>9. /\ hash' = hash /\ count' = count /\ op' = op /\ old' = old
      /\ moved' = moved /\ item' = item /\ Left' = Left
  BY DEF GoOn, resizeVars, Left
<1>10. MapTypeOK'
  BY <1>0, <1>1, <1>7, <1>8, <1>9 DEF MapInv, MapTypeOK
<1>11. ASize(nbuckets') /\ count' <= growat'
  BY <1>0, <1>8, <1>9 DEF MapInv
<1>12. hand' # Nothing /\ op \in {"set", "move"} /\ hand # Nothing
  BY <1>0, <1>7, NothingElse DEF GoOn
<1>13. AtRest' /\ Setting'
  BY <1>0, <1>1, <1>7, <1>8, <1>9, <1>12 DEF MapInv, AtRest, Setting
<1>14. ASSUME op = "move" PROVE Moving'
  <2>1. Moving
    BY DEF MapInv
  <2>2. count' = Cardinality(Taken') + Cardinality(Left')
                   + (IF hand' = Nothing THEN 0 ELSE 1)
    BY <1>1, <1>7, <1>8, <1>9, <1>12, <1>14, <2>1 DEF Moving
  <2>3. \A m, n \in Left' : old'[m].key = old'[n].key => m = n
    BY <1>9, <1>14, <2>1 DEF Moving
  <2>4. item' # Nothing => item'.dib = 1 /\ count' < growat'
    BY <1>8, <1>9, <1>14, <2>1 DEF Moving
  <2>5. /\ Good(slots', nbuckets', homes')
        /\ Carried(slots', nbuckets', homes', hand', at')
    BY <1>0, <1>1, <1>7, <1>8
  <2>6. /\ \A n \in Taken' : slots'[n].key # hand'.key
        /\ \A n \in Left' : old'[n].key # hand'.key
        /\ \A m \in Taken', n \in Left' : slots'[m].key # old'[n].key
    BY <1>0, <1>7, <1>8, <1>9, <1>14
  <2> QED
    BY <2>2, <2>3, <2>4, <2>5, <2>6 DEF Moving
<1> QED
  BY <1>9, <1>10, <1>11, <1>12, <1>13, <1>14
  DEF MapInv, Shifting, Shrinking, Moving

(* What the start of a resize needs.                                       *)
LEMMA ResizeKeeps ==
    ASSUME MapInv, op \notin {"move", "shift"}, hash' = hash,
           count' = count, NEW n \in MinBuckets..MaxBuckets, ASize(n),
           Resize(n), item' \in {Nothing} \cup Full,
           count <= (n * 60) \div 100,
           item' # Nothing => item'.dib = 1 /\ count < (n * 60) \div 100
    PROVE  MapInv'
<1>1. n \in Nat /\ n > 0
  BY MapAssumption
<1>2. /\ slots' = [m \in 0..n-1 |-> Free] /\ old' = slots /\ moved' = 0
      /\ op' = "move" /\ hand' = Nothing /\ at' = 0
  BY DEF Resize
<1>3. MapTypeOK
  BY DEF MapInv
<1>4. /\ nbuckets' = n /\ slots' \in Array(n)
      /\ slots' \in [0..nbuckets'-1 -> {Free} \cup Full]
      /\ DOMAIN slots' = 0..n-1
      /\ Taken' = {} /\ Cardinality(Taken') = 0
      /\ Good(slots', n, homes')
  BY <1>1, <1>2, <1>3, NewSize
<1>5. PICK N, s : N = nbuckets /\ s = slots
  OBVIOUS
<1>6. /\ N \in Nat /\ s \in Array(N) /\ DOMAIN s = 0..N-1
      /\ N \in MinBuckets..MaxBuckets /\ Taken = Used(s)
  BY <1>3, <1>5, MapFacts DEF MapTypeOK
<1>7. Good(slots, nbuckets, homes) /\ count = Cardinality(Used(s))
  BY <1>5, <1>6 DEF MapInv, AtRest
<1>8. Left' = Used(s)
  BY <1>2, <1>5, <1>6 DEF Left, Used
<1>9. old' \in [0..N-1 -> {Free} \cup Full]
  BY <1>2, <1>5, <1>6 DEF Array
<1>10. MapTypeOK'
  BY <1>1, <1>2, <1>3, <1>4, <1>6, <1>9 DEF MapTypeOK
<1>11. growat' = (n * 60) \div 100
  BY <1>4 DEF growat
<1>12. Moving'
  <2>1. Good(slots', nbuckets', homes')
    BY <1>4
  <2>2. count' = Cardinality(Taken') + Cardinality(Left')
                   + (IF hand' = Nothing THEN 0 ELSE 1)
    BY <1>2, <1>3, <1>4, <1>7, <1>8 DEF MapTypeOK
  <2>3. \A l, m \in Left' : old'[l].key = old'[m].key => l = m
    BY <1>2, <1>5, <1>7, <1>8 DEF Good, KeysOnce
  <2>4. item' # Nothing => item'.dib = 1 /\ count' < growat'
    BY <1>11
  <2> QED
    BY <1>2, <1>4, <2>1, <2>2, <2>3, <2>4 DEF Moving
<1> QED
  BY <1>2, <1>4, <1>10, <1>11, <1>12
  DEF MapInv, AtRest, Setting, Shifting, Shrinking

LEMMA SetKeeps ==
    ASSUME MapInv, NEW k \in Keys, NEW v \in Values, Set(k, v)
    PROVE  MapInv'
<1>1. op = "idle" /\ hash' = hash /\ count' = count
  BY DEF Set
<1>2. MapTypeOK /\ count \in Nat /\ nbuckets \in MinBuckets..MaxBuckets
  BY DEF MapInv, MapTypeOK
<1>3. Entry(k, v) \in Full /\ Entry(k, v).dib = 1 /\ Entry(k, v).key = k
  BY DEF Entry, Full
<1>4. CASE count < growat
  <2>1. /\ slots' = slots /\ old' = old /\ moved' = moved /\ item' = item
        /\ op' = "set" /\ hand' = Entry(k, v) /\ at' = home(k)
    BY <1>2, <1>4, MapFacts DEF Set, resizeVars
  <2>2. PICK N, H, s, e : N = nbuckets /\ H = homes /\ s = slots
                          /\ e = Entry(k, v)
    OBVIOUS
  <2>3. /\ N \in Nat /\ H \in [Keys -> 0..N-1] /\ s \in Array(N)
        /\ H[k] = home(k) /\ home(k) \in 0..N-1 /\ DOMAIN slots = 0..N-1
    BY <1>2, <2>2, MapFacts
  <2>4. Carried(s, N, H, e, H[k])
    <3>1. e \in Full /\ e.dib = 1 /\ e.key = k
      BY <1>3, <2>2
    <3>2. Carried(s, N, H, e, H[e.key])
      BY <2>3, <3>1, AtHome
    <3> QED
      BY <3>1, <3>2
  <2>5. /\ nbuckets' = nbuckets /\ homes' = homes /\ growat' = growat
        /\ Taken' = Taken
    BY <1>1, <2>1 DEF nbuckets, homes, home, growat, Taken
  <2>6. hand' # Nothing
    BY <1>3, <2>1, NothingElse
  <2>7. MapTypeOK'
    BY <1>1, <1>2, <1>3, <2>1, <2>2, <2>3, <2>5 DEF MapTypeOK
  <2>8. Setting'
    BY <1>1, <1>4, <2>1, <2>2, <2>3, <2>4, <2>5, <2>6 DEF Setting
  <2>9. AtRest'
    BY <1>1, <2>1, <2>5 DEF MapInv, AtRest
  <2> QED
    BY <1>1, <2>1, <2>5, <2>7, <2>8, <2>9
    DEF MapInv, Shifting, Shrinking, Moving
<1>5. CASE ~(count < growat)
  <2>1. Resize(2 * nbuckets) /\ item' = Entry(k, v)
    BY <1>5 DEF Set
  <2>2. 2 * nbuckets \in MinBuckets..MaxBuckets
    BY <1>2, <2>1, MapAssumption DEF Resize
  <2>3. count < ((2 * nbuckets) * 60) \div 100
    BY <1>2, MapAssumption DEF MapInv, growat
  <2>4. ASize(2 * nbuckets)
    BY <1>2, Sizes, MapAssumption DEF MapInv
  <2>5. PICK n : n = 2 * nbuckets
    OBVIOUS
  <2> QED
    BY <1>1, <1>2, <1>3, <2>1, <2>2, <2>3, <2>4, <2>5, ResizeKeeps
<1> QED
  BY <1>4, <1>5

LEMMA MoveNextKeeps ==
    ASSUME MapInv, MoveNext
    PROVE  MapInv'
<1>1. /\ op = "move" /\ hand = Nothing /\ moved \in DOMAIN old
      /\ hash' = hash /\ slots' = slots /\ count' = count /\ op' = op
      /\ old' = old /\ item' = item /\ moved' = moved + 1
  BY DEF MoveNext
<1>2. MapTypeOK /\ Moving /\ ASize(nbuckets) /\ count <= growat
  BY DEF MapInv
<1>3. /\ nbuckets' = nbuckets /\ homes' = homes /\ growat' = growat
      /\ shrinkat' = shrinkat /\ Taken' = Taken
  BY <1>1 DEF nbuckets, homes, home, growat, shrinkat, Taken
<1>4. /\ moved \in Nat /\ IsFiniteSet(Left) /\ Cardinality(Left) \in Nat
      /\ Cardinality(Taken) \in Nat /\ count \in Nat
  <2>1. PICK N, s : N = nbuckets /\ s = slots
    OBVIOUS
  <2>2. N \in Nat /\ s \in Array(N) /\ Taken = Used(s)
    BY <1>2, <2>1, MapFacts
  <2> QED
    BY <1>2, <2>2, LeftFinite, Room DEF MapTypeOK
<1>5. \A n \in DOMAIN old : n \in Int
  <2>1. PICK n \in MinBuckets..MaxBuckets : old \in [0..n-1 -> {Free} \cup Full]
    BY <1>1, <1>2 DEF MapTypeOK
  <2> QED
    BY <2>1
<1>6. Left' = Left \ {moved}
  BY <1>1, <1>4, <1>5 DEF Left
<1>7. CASE old[moved].dib > 0
  <2>1. moved \in Left
    BY <1>1, <1>4, <1>7 DEF Left
  <2>2. hand' = [old[moved] EXCEPT !.dib = 1] /\ at' = home(old[moved].key)
    BY <1>7 DEF MoveNext
  <2>3. PICK N, H, s, e, f : N = nbuckets /\ H = homes /\ s = slots
                             /\ e = old[moved] /\ f = hand'
    OBVIOUS
  <2>4. /\ N \in Nat /\ H \in [Keys -> 0..N-1] /\ s \in Array(N)
        /\ \A k \in Keys : H[k] = home(k) /\ home(k) \in 0..N-1
        /\ DOMAIN slots = 0..N-1
    BY <1>2, <2>3, MapFacts
  <2>5. e \in Full /\ e.key \in Keys
    BY <1>2, <2>1, <2>3, LeftFinite
  <2>6. f \in Full /\ f.dib = 1 /\ f.key = e.key
    <3>1. f = [e EXCEPT !.dib = 1]
      BY <2>2, <2>3
    <3> QED
      BY <2>5, <3>1 DEF Full
  <2>7. Carried(s, N, H, f, H[f.key])
    BY <2>4, <2>6, AtHome
  <2>8. at' = H[f.key] /\ at' \in 0..N-1
    BY <2>2, <2>3, <2>4, <2>5, <2>6
  <2>9. MapTypeOK'
    BY <1>1, <1>2, <1>3, <1>4, <2>3, <2>4, <2>6, <2>8 DEF MapTypeOK
  <2>10. hand' # Nothing
    BY <2>3, <2>6, NothingElse
  <2>11. Cardinality(Left') = Cardinality(Left) - 1
    BY <1>4, <1>6, <2>1, FS_RemoveElement
  <2>12. Moving'
    <3>1. count' = Cardinality(Taken') + Cardinality(Left')
                     + (IF hand' = Nothing THEN 0 ELSE 1)
      BY <1>1, <1>2, <1>3, <1>4, <2>10, <2>11 DEF Moving
    <3>2. \A l, m \in Left' : old'[l].key = old'[m].key => l = m
      BY <1>1, <1>2, <1>6 DEF Moving
    <3>3. \A m \in Taken', n \in Left' : slots'[m].key # old'[n].key
      BY <1>1, <1>2, <1>3, <1>6 DEF Moving
    <3>4. \A n \in Taken' : slots'[n].key # hand'.key
      BY <1>1, <1>2, <1>3, <2>1, <2>3, <2>6 DEF Moving
    <3>5. \A n \in Left' : old'[n].key # hand'.key
      BY <1>1, <1>2, <1>6, <2>1, <2>3, <2>6 DEF Moving
    <3>6. Carried(slots', nbuckets', homes', hand', at')
      BY <1>1, <1>3, <2>3, <2>7, <2>8
    <3>7. /\ Good(slots', nbuckets', homes')
          /\ item' # Nothing => item'.dib = 1 /\ count' < growat'
      BY <1>1, <1>2, <1>3 DEF Moving
    <3> QED
      BY <3>1, <3>2, <3>3, <3>4, <3>5, <3>6, <3>7 DEF Moving
  <2> QED
    BY <1>1, <1>2, <1>3, <2>9, <2>12
    DEF MapInv, AtRest, Setting, Shifting, Shrinking
<1>8. CASE ~(old[moved].dib > 0)
  <2>1. hand' = hand /\ at' = at
    BY <1>8 DEF MoveNext
  <2>2. Left' = Left
    BY <1>6, <1>8 DEF Left
  <2>3. MapTypeOK'
    BY <1>1, <1>2, <1>3, <1>4, <2>1 DEF MapTypeOK
  <2>4. Moving'
    BY <1>1, <1>2, <1>3, <2>1, <2>2 DEF Moving
  <2> QED
    BY <1>1, <1>2, <1>3, <2>3, <2>4
    DEF MapInv, AtRest, Setting, Shifting, Shrinking
<1> QED
  BY <1>7, <1>8

LEMMA EndOfMoveKeeps ==
    ASSUME MapInv, EndOfMove
    PROVE  MapInv'
<1>1. /\ op = "move" /\ hand = Nothing /\ moved \notin DOMAIN old
      /\ hash' = hash /\ slots' = slots /\ count' = count
      /\ old' = <<>> /\ moved' = 0 /\ item' = Nothing
  BY DEF EndOfMove
<1>2. MapTypeOK /\ Moving /\ ASize(nbuckets) /\ count <= growat
  BY DEF MapInv
<1>3. /\ nbuckets' = nbuckets /\ homes' = homes /\ growat' = growat
      /\ shrinkat' = shrinkat /\ Taken' = Taken
  BY <1>1 DEF nbuckets, homes, home, growat, shrinkat, Taken
<1>4. Left = {}
  <2>1. CASE old = <<>>
    BY <2>1 DEF Left
  <2>2. CASE old # <<>>
    <3>1. PICK n \in MinBuckets..MaxBuckets :
              old \in [0..n-1 -> {Free} \cup Full]
      BY <1>2, <2>2 DEF MapTypeOK
    <3>2. moved \in Nat /\ n \in Int /\ DOMAIN old = 0..n-1
      BY <1>2, <3>1 DEF MapTypeOK
    <3>3. moved > n - 1
      BY <1>1, <3>2
    <3> QED
      BY <3>2, <3>3 DEF Left
  <2> QED
    BY <2>1, <2>2
<1>5. PICK N, H, s, e : N = nbuckets /\ H = homes /\ s = slots /\ e = item
  OBVIOUS
<1>6. /\ N \in Nat /\ H \in [Keys -> 0..N-1] /\ s \in Array(N)
      /\ \A k \in Keys : H[k] = home(k) /\ home(k) \in 0..N-1
      /\ DOMAIN slots = 0..N-1 /\ Taken = Used(s)
  BY <1>2, <1>5, MapFacts
<1>7. Good(slots, nbuckets, homes) /\ count = Cardinality(Taken)
  <2>1. Cardinality(Left) = 0 /\ Cardinality(Taken) \in Nat
    BY <1>4, <1>6, FS_EmptySet, Room
  <2> QED
    BY <1>1, <1>2, <2>1 DEF Moving
<1>8. op' \notin {"move", "shift"} => AtRest'
  BY <1>1, <1>3, <1>7 DEF AtRest
<1>9. CASE item # Nothing
  <2>1. op' = "set" /\ hand' = item /\ at' = home(item.key)
    BY <1>9 DEF EndOfMove
  <2>2. e \in Full /\ e.key \in Keys /\ e.dib = 1 /\ count < growat
    <3>1. item \in Full
      BY <1>2, <1>9 DEF MapTypeOK
    <3> QED
      BY <1>1, <1>2, <1>5, <1>9, <3>1 DEF Full, Moving
  <2>3. Carried(s, N, H, e, H[e.key])
    BY <1>6, <2>2, AtHome
  <2>4. at' = H[e.key] /\ at' \in 0..N-1
    BY <1>5, <1>6, <2>1, <2>2
  <2>5. MapTypeOK'
    BY <1>1, <1>2, <1>3, <1>5, <1>6, <2>1, <2>2, <2>4 DEF MapTypeOK
  <2>6. Setting'
    BY <1>1, <1>3, <1>5, <1>9, <2>1, <2>2, <2>3, <2>4 DEF Setting
  <2> QED
    BY <1>1, <1>2, <1>3, <1>8, <2>1, <2>5, <2>6
    DEF MapInv, Shifting, Shrinking, Moving
<1>10. CASE item = Nothing
  <2>1. op' = "idle" /\ hand' = hand /\ at' = at
    BY <1>10 DEF EndOfMove
  <2>2. MapTypeOK'
    BY <1>1, <1>2, <1>3, <2>1 DEF MapTypeOK
  <2> QED
    BY <1>1, <1>2, <1>3, <1>8, <2>1, <2>2
    DEF MapInv, Setting, Shifting, Shrinking, Moving
<1> QED
  BY <1>9, <1>10

(* A new value changes nothing of this.                                    *)
LEMMA SameKeys ==
    ASSUME NEW N \in Nat, NEW H, NEW s \in Array(N), NEW t \in Array(N),
           Good(s, N, H),
           \A n \in 0..N-1 : t[n].dib = s[n].dib
                             /\ (s[n].dib > 0 => t[n].key = s[n].key)
    PROVE  Good(t, N, H) /\ Used(t) = Used(s)
<1>1. DOMAIN s = 0..N-1 /\ DOMAIN t = 0..N-1
  BY DEF Array
<1>2. Used(t) = Used(s)
  BY <1>1 DEF Used
<1>3. \A n \in Used(s) : /\ n \in 0..N-1
                         /\ t[n].dib = s[n].dib /\ t[n].key = s[n].key
  BY <1>1 DEF Used
<1>4. KeysOnce(t)
  BY <1>2, <1>3 DEF Good, KeysOnce
<1>5. AtDistance(t, N, H)
  BY <1>2, <1>3 DEF Good, AtDistance
<1>6. ASSUME NEW n \in Used(t), t[n].dib > 1
      PROVE  t[Behind(N, n)].dib >= t[n].dib - 1
  <2>1. n \in 0..N-1 /\ Behind(N, n) \in 0..N-1
    BY <1>2, <1>3 DEF Behind
  <2>2. s[Behind(N, n)].dib >= s[n].dib - 1
    BY <1>2, <1>3, <1>6 DEF Good, Follows
  <2> QED
    BY <2>1, <2>2
<1> QED
  BY <1>2, <1>4, <1>5, <1>6 DEF Good, Follows

LEMMA ReplaceKeeps ==
    ASSUME MapInv, Replace
    PROVE  MapInv'
<1>0. PICK N, H, s, a, e, t :
        N = nbuckets /\ H = homes /\ s = slots /\ a = at /\ e = hand
        /\ t = slots'
  OBVIOUS
<1>1. /\ N \in Nat /\ N > 1 /\ H \in [Keys -> 0..N-1] /\ s \in Array(N)
      /\ a \in 0..N-1 /\ Taken = Used(s) /\ DOMAIN s = 0..N-1
  BY <1>0, MapFacts DEF MapInv
<1>2. /\ op = "set" /\ op' = "idle" /\ hand' = Nothing /\ hash' = hash
      /\ count' = count /\ at' = at /\ old' = old /\ moved' = moved
      /\ item' = item
  BY DEF Replace, resizeVars
<1>3. e \in Full /\ Good(s, N, H) /\ count = Cardinality(Used(s))
      /\ old = <<>> /\ item = Nothing
  BY <1>0, <1>1, <1>2 DEF MapInv, AtRest, Setting, Carried
<1>4. s[a] \in Full /\ t = [s EXCEPT ![a].value = e.value]
  BY <1>0, <1>1, SlotType DEF Replace
<1>5. e.value \in Values \cup {NoValue}
  BY <1>3 DEF Full
<1>6. /\ [s[a] EXCEPT !.value = e.value] \in Full
      /\ [s[a] EXCEPT !.value = e.value].dib = s[a].dib
      /\ [s[a] EXCEPT !.value = e.value].key = s[a].key
  BY <1>4, <1>5 DEF Full
<1>7. /\ t[a] = [s[a] EXCEPT !.value = e.value]
      /\ \A n \in 0..N-1 : n # a => t[n] = s[n]
      /\ t \in Array(N)
  BY <1>1, <1>4, <1>6 DEF Array
<1>8. \A n \in 0..N-1 : t[n].dib = s[n].dib
                        /\ (s[n].dib > 0 => t[n].key = s[n].key)
  BY <1>6, <1>7
<1>9. Good(t, N, H) /\ Used(t) = Used(s)
  BY <1>1, <1>3, <1>7, <1>8, SameKeys
<1>10. /\ nbuckets' = N /\ homes' = H /\ growat' = growat
       /\ shrinkat' = shrinkat /\ Taken' = Used(t)
       /\ slots' \in [0..nbuckets'-1 -> {Free} \cup Full]
       /\ nbuckets' \in MinBuckets..MaxBuckets
       /\ DOMAIN slots' = 0..N-1
  BY <1>0, <1>2, <1>7, SameSize DEF MapInv
<1>11. MapTypeOK'
  BY <1>0, <1>1, <1>2, <1>10 DEF MapInv, MapTypeOK
<1>12. AtRest'
  BY <1>0, <1>2, <1>3, <1>9, <1>10 DEF AtRest
<1>13. ASize(nbuckets') /\ count' <= growat'
  BY <1>0, <1>2, <1>10 DEF MapInv
<1> QED
  BY <1>2, <1>11, <1>12, <1>13
  DEF MapInv, Setting, Shifting, Shrinking, Moving

LEMMA LookKeeps ==
    ASSUME MapInv,
           \/ \E k \in Keys, what \in {"get", "delete"} : Search(k, what)
           \/ SearchOn \/ Get \/ DeleteNothing
           \/ SetOutOfMemory \/ ReturnOutOfMemory
    PROVE  MapInv'
<1>1. /\ hash' = hash /\ slots' = slots /\ count' = count /\ old' = old
      /\ moved' = moved /\ item' = item
      /\ op \in {"idle", "get", "delete", "refused"}
      /\ op' \in {"idle", "get", "delete", "refused"}
  BY DEF Search, SearchOn, Get, DeleteNothing, SetOutOfMemory,
         ReturnOutOfMemory, resizeVars
<1>2. /\ nbuckets' = nbuckets /\ homes' = homes /\ growat' = growat
      /\ shrinkat' = shrinkat /\ Taken' = Taken
  BY <1>1 DEF nbuckets, homes, home, growat, shrinkat, Taken
<1>3. MapTypeOK
  BY DEF MapInv
<1>4. at' \in 0..nbuckets-1 /\ hand' \in {Nothing} \cup Full
  <2>1. ASSUME NEW k \in Keys, NEW what, Search(k, what)
        PROVE  at' \in 0..nbuckets-1 /\ hand' \in {Nothing} \cup Full
    <3>1. Entry(k, NoValue) \in Full
      BY DEF Entry, Full
    <3> QED
      BY <1>3, <2>1, <3>1, MapFacts DEF Search
  <2>2. CASE SearchOn
    BY <1>3, <2>2, MapFacts DEF SearchOn, MapTypeOK
  <2>3. CASE Get \/ DeleteNothing
    BY <1>3, <2>3, MapFacts DEF Get, DeleteNothing
  <2>4. CASE SetOutOfMemory \/ ReturnOutOfMemory
    BY <1>3, <2>4, MapFacts DEF SetOutOfMemory, ReturnOutOfMemory, MapTypeOK
  <2> QED
    BY <2>1, <2>2, <2>3, <2>4
<1>5. MapTypeOK'
  BY <1>1, <1>2, <1>3, <1>4, MapFacts DEF MapTypeOK
<1>6. AtRest'
  BY <1>1, <1>2 DEF MapInv, AtRest
<1>7. ASize(nbuckets') /\ count' <= growat'
  BY <1>1, <1>2 DEF MapInv
<1> QED
  BY <1>1, <1>5, <1>6, <1>7 DEF MapInv, Setting, Shifting, Shrinking, Moving

LEMMA DeleteKeeps ==
    ASSUME MapInv, Delete
    PROVE  MapInv'
<1>0. PICK N, H, s, a, t :
        N = nbuckets /\ H = homes /\ s = slots /\ a = at /\ t = slots'
  OBVIOUS
<1>1. /\ N \in Nat /\ N > 1 /\ H \in [Keys -> 0..N-1] /\ s \in Array(N)
      /\ a \in 0..N-1 /\ Taken = Used(s) /\ DOMAIN s = 0..N-1
      /\ at' = Ahead(N, a) /\ Ahead(N, a) \in 0..N-1
  BY <1>0, MapFacts DEF MapInv, Delete
<1>2. /\ op = "delete" /\ op' = "shift" /\ hand' = Nothing /\ hash' = hash
      /\ count' = count /\ old' = old /\ moved' = moved /\ item' = item
  BY DEF Delete, resizeVars
<1>3. Good(s, N, H) /\ count = Cardinality(Used(s))
      /\ old = <<>> /\ item = Nothing
  BY <1>0, <1>1, <1>2 DEF MapInv, AtRest
<1>4. a \in Used(s)
  BY <1>0, <1>1, SlotType DEF Delete
<1>5. Put(s, N, Free, a, t)
  <2>1. t = [s EXCEPT ![a] = Free]
    BY <1>0 DEF Delete
  <2> QED
    BY <1>1, <2>1, PutIs
<1>6. /\ Holed(t, N, H, Ahead(N, a))
      /\ Others(t, N, Ahead(N, a)) = Used(s) \ {a}
  BY <1>1, <1>3, <1>4, <1>5, DeleteHoles
<1>7. count = Cardinality(Used(s) \ {a}) + 1
  <2>1. IsFiniteSet(Used(s)) /\ Cardinality(Used(s)) \in Nat
    BY <1>1, Room
  <2>2. Cardinality(Used(s) \ {a}) = Cardinality(Used(s)) - 1
    BY <1>4, <2>1, FS_RemoveElement
  <2> QED
    BY <1>3, <2>1, <2>2
<1>8. /\ nbuckets' = N /\ homes' = H /\ growat' = growat
      /\ slots' \in [0..nbuckets'-1 -> {Free} \cup Full]
      /\ nbuckets' \in MinBuckets..MaxBuckets
      /\ DOMAIN slots' = 0..N-1
  <2>1. t \in Array(N)
    BY <1>5 DEF Put
  <2> QED
    BY <1>0, <1>2, <2>1, SameSize DEF MapInv
<1>9. MapTypeOK'
  BY <1>0, <1>1, <1>2, <1>8 DEF MapInv, MapTypeOK
<1>10. Shifting'
  BY <1>0, <1>1, <1>2, <1>3, <1>6, <1>7, <1>8 DEF Shifting
<1>11. ASize(nbuckets') /\ count' <= growat'
  BY <1>0, <1>2, <1>8 DEF MapInv
<1> QED
  BY <1>2, <1>9, <1>10, <1>11 DEF MapInv, AtRest, Setting, Shrinking, Moving

LEMMA ShiftKeeps ==
    ASSUME MapInv, Shift
    PROVE  MapInv'
<1>0. PICK N, H, s, a, t :
        N = nbuckets /\ H = homes /\ s = slots /\ a = at /\ t = slots'
  OBVIOUS
<1>1. /\ N \in Nat /\ N > 1 /\ H \in [Keys -> 0..N-1] /\ s \in Array(N)
      /\ a \in 0..N-1 /\ DOMAIN s = 0..N-1
      /\ at' = Ahead(N, a) /\ Ahead(N, a) \in 0..N-1
      /\ (at - 1) % nbuckets = Behind(N, a) /\ Behind(N, a) \in 0..N-1
  BY <1>0, MapFacts DEF MapInv, Shift
<1>2. /\ op = "shift" /\ op' = "shift" /\ hand' = hand /\ hash' = hash
      /\ count' = count /\ old' = old /\ moved' = moved /\ item' = item
  BY DEF Shift, resizeVars
<1>3. /\ Holed(s, N, H, a)
      /\ count = Cardinality(Others(s, N, a)) + 1
      /\ old = <<>> /\ item = Nothing
  BY <1>0, <1>2 DEF MapInv, Shifting
<1>4. s[a].dib > 1
  BY <1>0 DEF Shift
<1>5. Put(s, N, [s[a] EXCEPT !.dib = @ - 1], Hole(N, a), t)
  <2>1. t = [s EXCEPT ![Behind(N, a)] = [s[a] EXCEPT !.dib = @ - 1]]
    BY <1>0, <1>1 DEF Shift
  <2>2. s[a] \in Full /\ s[a].dib \in Nat
    BY <1>1, <1>4, SlotType
  <2>3. [s[a] EXCEPT !.dib = @ - 1] \in Full
    BY <1>4, <2>2 DEF Full
  <2> QED
    BY <1>1, <2>1, <2>3, PutIs DEF Hole
<1>6. /\ Holed(t, N, H, Ahead(N, a))
      /\ Others(t, N, Ahead(N, a)) =
             (Others(s, N, a) \ {a}) \cup {Hole(N, a)}
      /\ a \in Others(s, N, a) /\ Hole(N, a) \notin Others(s, N, a)
  BY <1>1, <1>3, <1>4, <1>5, ShiftHoles
<1>7. Cardinality(Others(t, N, Ahead(N, a))) = Cardinality(Others(s, N, a))
  <2>1. PICK O, h : O = Others(s, N, a) /\ h = Hole(N, a)
    OBVIOUS
  <2>2. IsFiniteSet(O)
    <3>1. IsFiniteSet(Used(s)) /\ O \subseteq Used(s)
      BY <1>1, <2>1, Room DEF Others
    <3> QED
      BY <3>1, FS_Subset
  <2>3. Cardinality(O) \in Nat /\ a \in O /\ h \notin O
    BY <1>6, <2>1, <2>2, FS_CardinalityType
  <2>4. IsFiniteSet(O \ {a}) /\ Cardinality(O \ {a}) = Cardinality(O) - 1
    BY <2>2, <2>3, FS_RemoveElement
  <2>5. Cardinality((O \ {a}) \cup {h}) = Cardinality(O \ {a}) + 1
    BY <2>3, <2>4, FS_AddElement
  <2> QED
    BY <1>6, <2>1, <2>3, <2>4, <2>5
<1>8. /\ nbuckets' = N /\ homes' = H /\ growat' = growat
      /\ slots' \in [0..nbuckets'-1 -> {Free} \cup Full]
      /\ nbuckets' \in MinBuckets..MaxBuckets
      /\ DOMAIN slots' = 0..N-1
  <2>1. t \in Array(N)
    BY <1>5 DEF Put
  <2> QED
    BY <1>0, <1>2, <2>1, SameSize DEF MapInv
<1>9. MapTypeOK'
  BY <1>0, <1>1, <1>2, <1>8 DEF MapInv, MapTypeOK
<1>10. Shifting'
  BY <1>0, <1>1, <1>2, <1>3, <1>6, <1>7, <1>8 DEF Shifting
<1>11. ASize(nbuckets') /\ count' <= growat'
  BY <1>0, <1>2, <1>8 DEF MapInv
<1> QED
  BY <1>2, <1>9, <1>10, <1>11 DEF MapInv, AtRest, Setting, Shrinking, Moving

LEMMA EndOfShiftKeeps ==
    ASSUME MapInv, EndOfShift
    PROVE  MapInv'
<1>0. PICK N, H, s, a, t :
        N = nbuckets /\ H = homes /\ s = slots /\ a = at /\ t = slots'
  OBVIOUS
<1>1. /\ N \in Nat /\ N > 1 /\ H \in [Keys -> 0..N-1] /\ s \in Array(N)
      /\ a \in 0..N-1 /\ DOMAIN s = 0..N-1
      /\ (at - 1) % nbuckets = Behind(N, a) /\ Behind(N, a) \in 0..N-1
      /\ growat \in Nat
  BY <1>0, MapFacts DEF MapInv
<1>2. /\ op = "shift" /\ op' \in {"shrink", "idle"} /\ hand' = hand
      /\ hash' = hash /\ count' = count - 1 /\ old' = old /\ at' = at
      /\ moved' = moved /\ item' = item
      /\ op' = "shrink" => nbuckets > MinBuckets /\ count' <= shrinkat
  BY DEF EndOfShift, resizeVars
<1>3. /\ Holed(s, N, H, a)
      /\ count = Cardinality(Others(s, N, a)) + 1
      /\ old = <<>> /\ item = Nothing
  BY <1>0, <1>2 DEF MapInv, Shifting
<1>4. s[a].dib <= 1
  BY <1>0 DEF EndOfShift
<1>5. Put(s, N, Free, Hole(N, a), t)
  <2>1. t = [s EXCEPT ![Behind(N, a)] = Free]
    BY <1>0, <1>1 DEF EndOfShift
  <2> QED
    BY <1>1, <2>1, PutIs DEF Hole
<1>6. Good(t, N, H) /\ Used(t) = Others(s, N, a)
  BY <1>1, <1>3, <1>4, <1>5, EndHoles
<1>7. t \in Array(N)
  BY <1>5 DEF Put
<1>8. /\ nbuckets' = N /\ homes' = H /\ growat' = growat
      /\ shrinkat' = shrinkat /\ Taken' = Used(t)
      /\ slots' \in [0..nbuckets'-1 -> {Free} \cup Full]
      /\ nbuckets' \in MinBuckets..MaxBuckets
      /\ DOMAIN slots' = 0..N-1
  BY <1>0, <1>2, <1>7, SameSize DEF MapInv
<1>9. count' = Cardinality(Used(t)) /\ count' \in Nat /\ count \in Nat
  <2>1. Cardinality(Used(t)) \in Nat
    BY <1>1, <1>7, Room
  <2> QED
    BY <1>2, <1>3, <1>6, <2>1
<1>10. MapTypeOK'
  BY <1>0, <1>1, <1>2, <1>8, <1>9 DEF MapInv, MapTypeOK
<1>11. AtRest' /\ Shrinking'
  BY <1>0, <1>2, <1>3, <1>6, <1>8, <1>9 DEF AtRest, Shrinking
<1>12. ASize(nbuckets') /\ count' <= growat'
  <2>1. ASize(nbuckets) /\ count <= growat
    BY DEF MapInv
  <2> QED
    BY <1>0, <1>1, <1>2, <1>8, <1>9, <2>1
<1> QED
  BY <1>2, <1>10, <1>11, <1>12 DEF MapInv, Setting, Shifting, Moving

LEMMA ShrinkKeeps ==
    ASSUME MapInv, Shrink
    PROVE  MapInv'
<1>1. op = "shrink" /\ hash' = hash /\ count' = count /\ item' = item
  BY DEF Shrink
<1>2. /\ MapTypeOK /\ count \in Nat /\ nbuckets \in MinBuckets..MaxBuckets
      /\ nbuckets > MinBuckets /\ count <= shrinkat /\ item = Nothing
      /\ ASize(nbuckets) /\ count <= growat
  BY <1>1 DEF MapInv, MapTypeOK, Shrinking, AtRest
<1>3. CASE Resize(nbuckets \div 2)
  <2>1. PICK N, n : N = nbuckets /\ n = nbuckets \div 2
    OBVIOUS
  <2>2. N \in Nat /\ N > MinBuckets /\ ASize(N) /\ MinBuckets \in Nat
        /\ MaxBuckets \in Nat
    BY <1>2, <2>1, MapAssumption
  <2>3. n \in Nat /\ n >= MinBuckets /\ N = 2 * n /\ ASize(n)
    BY <2>1, <2>2, Sizes
  <2>4. n <= MaxBuckets
    BY <1>3, <2>1 DEF Resize
  <2>5. count <= (N * 10) \div 100
    BY <1>2, <2>1 DEF shrinkat
  <2>6. count <= (n * 60) \div 100
    BY <1>2, <2>3, <2>5
  <2> QED
    BY <1>1, <1>2, <1>3, <2>1, <2>2, <2>3, <2>4, <2>6, ResizeKeeps
<1>4. CASE op' = "idle" /\ UNCHANGED <<slots, old, moved, hand, at>>
  <2>1. /\ nbuckets' = nbuckets /\ homes' = homes /\ growat' = growat
        /\ Taken' = Taken
    BY <1>1, <1>4 DEF nbuckets, homes, home, growat, Taken
  <2>2. MapTypeOK'
    BY <1>1, <1>2, <1>4, <2>1 DEF MapTypeOK
  <2>3. AtRest'
    BY <1>1, <1>4, <2>1 DEF MapInv, AtRest
  <2> QED
    BY <1>1, <1>2, <1>4, <2>1, <2>2, <2>3
    DEF MapInv, Setting, Shifting, Shrinking, Moving
<1> QED
  BY <1>3, <1>4 DEF Shrink

LEMMA MapInvStarts == MapInit => MapInv
<1> SUFFICES ASSUME MapInit PROVE MapInv
  OBVIOUS
<1> USE DEF MapInit
<1>1. MinBuckets \in Nat /\ MinBuckets > 1 /\ MinBuckets <= MaxBuckets
      /\ MaxBuckets \in Nat
  BY MapAssumption
<1>2. PICK N, s : N = MinBuckets /\ s = slots
  OBVIOUS
<1>3. s \in Array(N) /\ DOMAIN s = 0..N-1 /\ N \in Nat /\ N > 1
  BY <1>1, <1>2 DEF Array
<1>4. nbuckets = MinBuckets
  BY <1>2, <1>3, Room DEF nbuckets
<1>5. Used(s) = {}
  BY <1>2, <1>3 DEF Used, Free
<1>6. Good(s, N, homes)
  BY <1>5 DEF Good, KeysOnce, AtDistance, Follows
<1>7. Taken = {} /\ Cardinality(Taken) = 0
  BY <1>2, <1>5, FS_EmptySet DEF Taken, Used
<1>8. MapTypeOK
  BY <1>1, <1>2, <1>3, <1>4 DEF MapTypeOK, Array
<1>9. ASize(nbuckets)
  BY <1>4 DEF ASize
<1>10. count <= growat
  BY <1>8, MapFacts
<1> QED
  BY <1>2, <1>4, <1>6, <1>7, <1>8, <1>9, <1>10
  DEF MapInv, AtRest, Setting, Shifting, Shrinking, Moving

LEMMA MapInvKept == MapInv /\ [MapNext]_mapVars => MapInv'
<1> SUFFICES ASSUME MapInv, [MapNext]_mapVars PROVE MapInv'
  OBVIOUS
<1>1. ASSUME MapNext PROVE MapInv'
  <2>1. ASSUME NEW k \in Keys, NEW v \in Values, Set(k, v) PROVE MapInv'
    BY <2>1, SetKeeps
  <2>2. ASSUME NEW k \in Keys, NEW what \in {"get", "delete"},
               Search(k, what)
        PROVE  MapInv'
    BY <2>2, LookKeeps
  <2>3. CASE MapStep
    BY <2>3, MoveNextKeeps, EndOfMoveKeeps, PlaceKeeps, ReplaceKeeps,
       GoOnKeeps, LookKeeps, DeleteKeeps, ShiftKeeps, EndOfShiftKeeps,
       ShrinkKeeps DEF MapStep
  <2>4. CASE SetOutOfMemory
    BY <2>4, LookKeeps
  <2> QED
    BY <1>1, <2>1, <2>2, <2>3, <2>4 DEF MapNext
<1>2. CASE UNCHANGED mapVars
  <2> USE <1>2 DEF mapVars, resizeVars
  <2>1. /\ nbuckets' = nbuckets /\ homes' = homes /\ growat' = growat
        /\ shrinkat' = shrinkat /\ Taken' = Taken /\ Left' = Left
    BY DEF nbuckets, homes, home, growat, shrinkat, Taken, Left
  <2>2. MapTypeOK'
    BY <2>1 DEF MapInv, MapTypeOK
  <2>3. AtRest' /\ Setting'
    BY <2>1 DEF MapInv, AtRest, Setting
  <2>4. Shifting' /\ Shrinking'
    BY <2>1 DEF MapInv, Shifting, Shrinking
  <2>5. Moving'
    BY <2>1 DEF MapInv, Moving
  <2>6. ASize(nbuckets') /\ count' <= growat'
    BY <2>1 DEF MapInv
  <2> QED
    BY <2>2, <2>3, <2>4, <2>5, <2>6 DEF MapInv
<1> QED
  BY <1>1, <1>2

LEMMA MapInvHolds == MapSpec => []MapInv
BY MapInvStarts, MapInvKept, PTL DEF MapSpec

(* Between two calls of the map every entry is where a search meets it, no *)
(* key is there twice, and count is right: for any keys and hashes.        *)
THEOREM MapIsSound == MapSpec => []MapSound
<1>1. MapInv => MapSound
  <2> SUFFICES ASSUME MapInv PROVE MapSound
    OBVIOUS
  <2>1. PICK N, H, s, c : N = nbuckets /\ H = homes /\ s = slots /\ c = count
    OBVIOUS
  <2>2. /\ N \in Nat /\ N > 1 /\ H \in [Keys -> 0..N-1] /\ s \in Array(N)
        /\ DOMAIN s = 0..N-1 /\ Taken = Used(s)
        /\ \A k \in Keys : H[k] = home(k)
        /\ growat \in Nat /\ growat < N
    BY <2>1, MapFacts DEF MapInv
  <2>3. MapTypeOK /\ c <= growat /\ c \in Nat
    BY <2>1 DEF MapInv, MapTypeOK
  <2>4. ASSUME op \in {"idle", "get", "refused"}
        PROVE  Good(s, N, H) /\ c = Cardinality(Used(s))
    BY <2>1, <2>2, <2>4 DEF MapInv, AtRest
  <2>5. ASSUME NEW n \in Used(s)
        PROVE  /\ n \in 0..N-1 /\ H[s[n].key] \in 0..N-1
               /\ H[s[n].key] = home(s[n].key)
               /\ (n - H[s[n].key]) % N = Dist(N, n, H[s[n].key])
               /\ (n - 1) % N = Behind(N, n)
    <3>1. n \in 0..N-1 /\ s[n].key \in Keys
      BY <2>2, SlotType DEF Used
    <3>2. H[s[n].key] \in 0..N-1 /\ H[s[n].key] = home(s[n].key)
      BY <2>2, <3>1
    <3> QED
      BY <2>2, <3>1, <3>2, Remainders
  <2>6. ASSUME op \in {"idle", "get", "refused"}
        PROVE  /\ \A m, n \in Taken : slots[m].key = slots[n].key => m = n
               /\ \A n \in Taken :
                      /\ slots[n].dib =
                             ((n - home(slots[n].key)) % nbuckets) + 1
                      /\ slots[n].dib > 1 =>
                             slots[(n - 1) % nbuckets].dib >= slots[n].dib - 1
    <3>1. KeysOnce(s) /\ AtDistance(s, N, H) /\ Follows(s, N)
      BY <2>4, <2>6 DEF Good
    <3>2. \A n \in Used(s) : s[n].dib = ((n - home(s[n].key)) % N) + 1
      BY <2>5, <3>1 DEF AtDistance
    <3>3. \A n \in Used(s) : s[n].dib > 1 => s[(n - 1) % N].dib >= s[n].dib - 1
      BY <2>5, <3>1 DEF Follows
    <3> QED
      BY <2>1, <2>2, <3>1, <3>2, <3>3 DEF KeysOnce
  <2>7. op \in {"idle", "get", "refused"} => count = Cardinality(Taken) /\ count < nbuckets
    BY <2>1, <2>2, <2>3, <2>4
  <2> QED
    BY <2>3, <2>6, <2>7 DEF MapSound
<1> QED
  BY <1>1, MapInvHolds, PTL
-----------------------------------------------------------------------------
(* A search has met other keys only,                                       *)
Looking ==
    op \in {"get", "delete"} =>
        /\ hand \in Full
        /\ \A n \in 0..nbuckets-1 :
               Dist(nbuckets, n, homes[hand.key])
                   < Dist(nbuckets, at, homes[hand.key]) =>
               n \in Taken /\ slots[n].key # hand.key

(* and the hole holds nothing that the slot before it does not hold.       *)
HoleCopied ==
    op = "shift" =>
        LET o == Hole(nbuckets, at)
            b == Behind(nbuckets, o)
        IN  slots[o].dib > 0 => /\ slots[b].dib > 0
                                /\ slots[b].key = slots[o].key
                                /\ slots[b].value = slots[o].value

(* Which pairs the contents consist of.                                    *)
Stored(k, v) ==
    \/ \E n \in Taken : slots[n].key = k /\ slots[n].value = v
    \/ \E n \in Left : old[n].key = k /\ old[n].value = v

Carrying == op \in {"set", "move"} /\ hand # Nothing

HasPair(k, v) ==
    IF item # Nothing /\ item.key = k THEN v = item.value
    ELSE IF Carrying /\ hand.key = k THEN v = hand.value
    ELSE Stored(k, v)

HeldFacts ==
    /\ held = [k \in DOMAIN held |-> held[k]]
    /\ \A k : k \in DOMAIN held <=> \E v : HasPair(k, v)
    /\ \A k, v : k \in DOMAIN held => (HasPair(k, v) <=> v = held[k])

LEMMA StoredOnce ==
    ASSUME MapInv, HoleCopied, NEW k, NEW v, NEW w, Stored(k, v), Stored(k, w)
    PROVE  v = w
<1>1. CASE op = "move"
  BY <1>1 DEF MapInv, Moving, Good, KeysOnce, Stored, Taken, Used
<1>2. CASE op \notin {"move", "shift"}
  <2>1. Left = {} /\ KeysOnce(slots)
    BY <1>2 DEF MapInv, AtRest, Left, Good
  <2> QED
    BY <2>1 DEF Stored, KeysOnce, Taken, Used
<1>3. CASE op = "shift"
  <2>1. Left = {}
    BY <1>3 DEF MapInv, Shifting, Left
  <2>2. PICK N, s, a, o : N = nbuckets /\ s = slots /\ a = at /\ o = Hole(N, a)
    OBVIOUS
  <2>3. /\ N \in Nat /\ N > 1 /\ s \in Array(N) /\ a \in 0..N-1
        /\ Taken = Used(s) /\ DOMAIN s = 0..N-1
    BY <2>2, MapFacts DEF MapInv
  <2>4. Behind(N, o) # o /\ Behind(N, o) \in 0..N-1 /\ o \in 0..N-1
    BY <2>2, <2>3 DEF Behind, Hole
  <2>5. ASSUME NEW n \in Used(s)
        PROVE  \E m \in Others(s, N, a) : /\ s[m].key = s[n].key
                                          /\ s[m].value = s[n].value
    <3>1. CASE n # o
      BY <2>2, <3>1 DEF Others
    <3>2. CASE n = o
      <4>1. s[o].dib > 0
        BY <3>2 DEF Used
      <4>2. /\ s[Behind(N, o)].dib > 0
            /\ s[Behind(N, o)].key = s[o].key
            /\ s[Behind(N, o)].value = s[o].value
        BY <1>3, <2>2, <4>1 DEF HoleCopied
      <4>3. Behind(N, o) \in Others(s, N, a)
        BY <2>2, <2>3, <2>4, <4>2 DEF Others, Used
      <4> QED
        BY <3>2, <4>2, <4>3
    <3> QED
      BY <3>1, <3>2
  <2>6. \A m, n \in Others(s, N, a) : s[m].key = s[n].key => m = n
    BY <1>3, <2>2 DEF MapInv, Shifting, Holed
  <2>7. /\ \E n \in Used(s) : s[n].key = k /\ s[n].value = v
        /\ \E n \in Used(s) : s[n].key = k /\ s[n].value = w
    BY <2>1, <2>2, <2>3 DEF Stored
  <2> QED
    BY <2>5, <2>6, <2>7
<1> QED
  BY <1>1, <1>2, <1>3

LEMMA HeldIs == MapInv /\ HoleCopied => HeldFacts
<1> SUFFICES ASSUME MapInv, HoleCopied PROVE HeldFacts
  OBVIOUS
<1> DEFINE D == {e.key : e \in Inserting \cup InHand \cup InArrays}
<1>1. held = [k \in D |-> (CHOOSE e \in Current(k) : TRUE).value]
  BY DEF held
<1>2. ASSUME NEW k
      PROVE  /\ \A v : HasPair(k, v) <=> \E e \in Current(k) : e.value = v
             /\ k \in D <=> Current(k) # {}
  <2>1. Of(Inserting, k) = IF item # Nothing /\ item.key = k
                           THEN {item} ELSE {}
    BY DEF Of, Inserting
  <2>2. Of(InHand, k) = IF Carrying /\ hand.key = k THEN {hand} ELSE {}
    BY DEF Of, InHand, Carrying
  <2>3. \A v : Stored(k, v) <=> \E e \in Of(InArrays, k) : e.value = v
    BY DEF Of, InArrays, Stored
  <2>4. \A v : HasPair(k, v) <=> \E e \in Current(k) : e.value = v
    BY <2>1, <2>2, <2>3 DEF HasPair, Current
  <2>5. k \in D <=> \/ Of(Inserting, k) # {} \/ Of(InHand, k) # {}
                    \/ Of(InArrays, k) # {}
    BY DEF Of
  <2> QED
    BY <2>4, <2>5 DEF Current
<1>3. ASSUME NEW k, NEW v, NEW w, HasPair(k, v), HasPair(k, w) PROVE v = w
  BY <1>3, StoredOnce DEF HasPair
<1>4. ASSUME NEW k \in D
      PROVE  HasPair(k, held[k])
  <2>1. Current(k) # {} /\ held[k] = (CHOOSE e \in Current(k) : TRUE).value
    BY <1>1, <1>2
  <2>2. (CHOOSE e \in Current(k) : TRUE) \in Current(k)
    BY <2>1
  <2> QED
    BY <1>2, <2>1, <2>2
<1> HIDE DEF D
<1>5. DOMAIN held = D /\ held = [k \in DOMAIN held |-> held[k]]
  BY <1>1
<1>6. \A k : k \in D <=> \E v : HasPair(k, v)
  BY <1>2
<1> QED
  BY <1>3, <1>4, <1>5, <1>6 DEF HeldFacts

LEMMA HeldNext == (MapInv /\ HoleCopied)' => HeldFacts'
BY HeldIs, PTL

(* What becomes of the contents is read off the pairs.                     *)
LEMMA HeldSame ==
    ASSUME MapInv, HoleCopied, MapInv', HoleCopied',
           \A k, v : HasPair(k, v)' <=> HasPair(k, v)
    PROVE  held' = held
<1>1. HeldFacts /\ HeldFacts'
  BY HeldIs, HeldNext
<1>2. DOMAIN held' = DOMAIN held
  BY <1>1 DEF HeldFacts
<1>3. \A k \in DOMAIN held : held'[k] = held[k]
  BY <1>1, <1>2 DEF HeldFacts
<1> QED
  BY <1>1, <1>2, <1>3 DEF HeldFacts

LEMMA HeldStore ==
    ASSUME MapInv, HoleCopied, MapInv', HoleCopied', NEW x, NEW w,
           \A k, v : HasPair(k, v)' <=> IF k = x THEN v = w ELSE HasPair(k, v)
    PROVE  held' = [k \in DOMAIN held \cup {x} |->
                        IF k = x THEN w ELSE held[k]]
<1>1. HeldFacts /\ HeldFacts'
  BY HeldIs, HeldNext
<1>2. \A k : k \in DOMAIN held' <=> k \in DOMAIN held \/ k = x
  BY <1>1 DEF HeldFacts
<1>3. \A k \in DOMAIN held' : held'[k] = IF k = x THEN w ELSE held[k]
  BY <1>1, <1>2 DEF HeldFacts
<1>4. DOMAIN held' = DOMAIN held \cup {x}
  BY <1>2
<1>5. held' = [k \in DOMAIN held' |-> held'[k]]
  BY <1>1 DEF HeldFacts
<1> QED
  BY <1>3, <1>4, <1>5

LEMMA HeldRemove ==
    ASSUME MapInv, HoleCopied, MapInv', HoleCopied', NEW x,
           \A k, v : HasPair(k, v)' <=> k # x /\ HasPair(k, v)
    PROVE  held' = [k \in DOMAIN held \ {x} |-> held[k]]
<1>1. HeldFacts /\ HeldFacts'
  BY HeldIs, HeldNext
<1>2. \A k : k \in DOMAIN held' <=> k \in DOMAIN held /\ k # x
  BY <1>1 DEF HeldFacts
<1>3. \A k \in DOMAIN held' : held'[k] = held[k]
  BY <1>1, <1>2 DEF HeldFacts
<1>4. DOMAIN held' = DOMAIN held \ {x}
  BY <1>2
<1>5. held' = [k \in DOMAIN held' |-> held'[k]]
  BY <1>1 DEF HeldFacts
<1> QED
  BY <1>3, <1>4, <1>5

LEMMA CallingIs ==
    /\ op = "idle" => calling = <<"none">>
    /\ op \in {"get", "delete"} => calling = <<op, hand.key>>
    /\ op = "refused" => calling = <<"refused">>
    /\ op \notin {"idle", "get", "delete", "refused"} =>
           calling = <<"ending">>
BY DEF calling

LEMMA CallingNext ==
    /\ op' = "idle" => calling' = <<"none">>
    /\ op' \in {"get", "delete"} => calling' = <<op', hand'.key>>
    /\ op' = "refused" => calling' = <<"refused">>
    /\ op' \notin {"idle", "get", "delete", "refused"} =>
           calling' = <<"ending">>
BY DEF calling

LEMMA LookingKept ==
    ASSUME MapInv, Looking, [MapNext]_mapVars
    PROVE  Looking'
<1>1. ASSUME NEW k \in Keys, NEW what, Search(k, what) PROVE Looking'
  <2>1. /\ op' = what /\ hand' = Entry(k, NoValue) /\ at' = home(k)
        /\ slots' = slots /\ hash' = hash
    BY <1>1 DEF Search
  <2>2. nbuckets' = nbuckets /\ homes' = homes
    BY <2>1 DEF nbuckets, homes, home
  <2>3. hand' \in Full /\ hand'.key = k
    BY <2>1 DEF Entry, Full
  <2>4. PICK N, h : N = nbuckets /\ h = home(k)
    OBVIOUS
  <2>5. N \in Nat /\ h \in 0..N-1 /\ homes[k] = h
    BY <2>4, MapFacts DEF MapInv
  <2>6. \A n \in 0..N-1 : ~(Dist(N, n, h) < Dist(N, h, h))
    BY <2>5 DEF Dist
  <2> QED
    BY <2>1, <2>2, <2>3, <2>4, <2>5, <2>6 DEF Looking
<1>2. ASSUME SearchOn PROVE Looking'
  <2>1. PICK N, H, s, a, k :
            N = nbuckets /\ H = homes /\ s = slots /\ a = at /\ k = hand.key
    OBVIOUS
  <2>2. /\ hash' = hash /\ slots' = slots /\ op' = op /\ hand' = hand
        /\ op \in {"get", "delete"} /\ s[a].dib > 0 /\ s[a].key # k
    BY <1>2, <2>1 DEF SearchOn
  <2>3. nbuckets' = nbuckets /\ homes' = homes /\ Taken' = Taken
    BY <2>2 DEF nbuckets, homes, home, Taken
  <2>4. /\ N \in Nat /\ N > 1 /\ H \in [Keys -> 0..N-1] /\ s \in Array(N)
        /\ a \in 0..N-1 /\ Taken = Used(s) /\ at' = Ahead(N, a)
        /\ growat \in Nat /\ growat < N
    BY <1>2, <2>1, MapFacts DEF MapInv, SearchOn
  <2>5. /\ hand \in Full /\ k \in Keys
        /\ \A n \in 0..N-1 : Dist(N, n, H[k]) < Dist(N, a, H[k]) =>
               n \in Used(s) /\ s[n].key # k
    BY <2>1, <2>2, <2>4 DEF Looking, Full
  <2>6. H[k] \in 0..N-1
    BY <2>4, <2>5
  <2>7. a \in Used(s)
    BY <2>2, <2>4, SlotType
  <2>8. Dist(N, a, H[k]) # N - 1
    <3> SUFFICES ASSUME Dist(N, a, H[k]) = N - 1 PROVE FALSE
      OBVIOUS
    <3>1. \A n \in 0..N-1 : n # a => Dist(N, n, H[k]) < Dist(N, a, H[k])
      BY <2>4, <2>6 DEF Dist
    <3>2. \A n \in 0..N-1 : n \in Used(s)
      BY <2>5, <2>7, <3>1
    <3>3. count = Cardinality(Used(s)) /\ count <= growat /\ count \in Nat
      BY <2>2, <2>4 DEF MapInv, AtRest, MapTypeOK
    <3>4. Cardinality(Used(s)) < N
      BY <2>4, <3>3
    <3> QED
      BY <2>4, <3>2, <3>4, Room
  <2>9. ASSUME NEW n \in 0..N-1,
               Dist(N, n, H[k]) < Dist(N, Ahead(N, a), H[k])
        PROVE  n \in Used(s) /\ s[n].key # k
    <3>1. n = a \/ Dist(N, n, H[k]) < Dist(N, a, H[k])
      BY <2>4, <2>6, <2>8, <2>9 DEF Dist, Ahead
    <3> QED
      BY <2>2, <2>5, <2>7, <3>1
  <2> QED
    BY <2>1, <2>2, <2>3, <2>4, <2>5, <2>9 DEF Looking
<1>3. ASSUME \/ \E k \in Keys, v \in Values : Set(k, v)
             \/ MoveNext \/ EndOfMove \/ Place \/ Replace \/ GoOn
             \/ Get \/ DeleteNothing \/ Delete
             \/ Shift \/ EndOfShift \/ Shrink
             \/ SetOutOfMemory \/ ReturnOutOfMemory
      PROVE  op' \notin {"get", "delete"}
  BY <1>3 DEF SetOutOfMemory, ReturnOutOfMemory, Set, MoveNext, EndOfMove, Place, Replace, GoOn, Get,
     DeleteNothing, Delete, Shift, EndOfShift, Shrink, Resize
<1>4. CASE UNCHANGED mapVars
  <2> USE <1>4 DEF mapVars
  <2>1. nbuckets' = nbuckets /\ homes' = homes /\ Taken' = Taken
    BY DEF nbuckets, homes, home, Taken
  <2> QED
    BY <2>1 DEF Looking
<1>5. op' \notin {"get", "delete"} => Looking'
  BY DEF Looking
<1> QED
  BY <1>1, <1>2, <1>3, <1>4, <1>5 DEF MapNext, MapStep

LEMMA HoleCopiedKept ==
    ASSUME MapInv, HoleCopied, [MapNext]_mapVars
    PROVE  HoleCopied'
<1>0. PICK N, s, a, t : N = nbuckets /\ s = slots /\ a = at /\ t = slots'
  OBVIOUS
<1>1. /\ N \in Nat /\ N > 1 /\ s \in Array(N) /\ a \in 0..N-1
      /\ DOMAIN s = 0..N-1 /\ after(at) = Ahead(N, a)
      /\ (at - 1) % nbuckets = Behind(N, a)
  BY <1>0, MapFacts DEF MapInv
<1>2. /\ Hole(N, Ahead(N, a)) = a /\ Behind(N, a) # a
      /\ Ahead(N, a) \in 0..N-1 /\ Behind(N, a) \in 0..N-1
  BY <1>1 DEF Hole, Ahead, Behind
<1>3. ASSUME Delete PROVE HoleCopied'
  <2>1. at' = Ahead(N, a) /\ t = [s EXCEPT ![a] = Free] /\ hash' = hash
    BY <1>0, <1>1, <1>3 DEF Delete
  <2>2. t[a].dib = 0 /\ t \in Array(N)
    BY <1>1, <2>1 DEF Array, Free
  <2>3. nbuckets' = N
    BY <1>0, <2>1, <2>2, SameSize DEF MapInv
  <2>4. ~(t[a].dib > 0)
    BY <2>2
  <2> QED
    BY <1>0, <1>2, <2>1, <2>3, <2>4 DEF HoleCopied
<1>4. ASSUME Shift PROVE HoleCopied'
  <2>1. /\ at' = Ahead(N, a) /\ hash' = hash /\ s[a].dib > 1
        /\ t = [s EXCEPT ![Behind(N, a)] = [s[a] EXCEPT !.dib = @ - 1]]
    BY <1>0, <1>1, <1>4 DEF Shift
  <2>2. s[a] \in Full /\ s[a].dib \in Nat
    BY <1>1, <2>1, SlotType
  <2>3. PICK e : e = [s[a] EXCEPT !.dib = @ - 1]
    OBVIOUS
  <2>4. e \in Full /\ e.dib > 0 /\ e.key = s[a].key /\ e.value = s[a].value
    BY <2>1, <2>2, <2>3 DEF Full
  <2>5. t[Behind(N, a)] = e /\ t[a] = s[a] /\ t \in Array(N)
    BY <1>1, <1>2, <2>1, <2>3, <2>4 DEF Array
  <2>6. nbuckets' = N
    BY <1>0, <2>1, <2>5, SameSize DEF MapInv
  <2>7. /\ t[Behind(N, a)].dib > 0 /\ t[Behind(N, a)].key = t[a].key
        /\ t[Behind(N, a)].value = t[a].value
    BY <2>4, <2>5
  <2> QED
    BY <1>0, <1>2, <2>1, <2>6, <2>7 DEF HoleCopied
<1>5. ASSUME \/ \E k \in Keys, v \in Values : Set(k, v)
             \/ \E k \in Keys, what \in {"get", "delete"} : Search(k, what)
             \/ MoveNext \/ EndOfMove \/ Place \/ Replace \/ GoOn
             \/ SearchOn \/ Get \/ DeleteNothing
             \/ EndOfShift \/ Shrink \/ SetOutOfMemory \/ ReturnOutOfMemory
      PROVE  op' # "shift"
  BY <1>5 DEF SetOutOfMemory, ReturnOutOfMemory, Set, MoveNext, EndOfMove, Place, Replace, GoOn, Get, Search,
     SearchOn, DeleteNothing, EndOfShift, Shrink, Resize
<1>6. CASE UNCHANGED mapVars
  <2> USE <1>6 DEF mapVars
  <2>1. nbuckets' = nbuckets
    BY DEF nbuckets
  <2> QED
    BY <2>1 DEF HoleCopied
<1>7. op' # "shift" => HoleCopied'
  BY DEF HoleCopied
<1> QED
  BY <1>3, <1>4, <1>5, <1>6, <1>7 DEF MapNext, MapStep
-----------------------------------------------------------------------------
(* What each step does to the contents.                                    *)
LEMMA ResizeKeepsPairs ==
    ASSUME MapInv, op \notin {"move", "shift"}, NEW n, Resize(n),
           NEW k, NEW v
    PROVE  Stored(k, v)' <=> Stored(k, v)
<1>1. /\ slots' = [m \in 0..n-1 |-> Free] /\ old' = slots /\ moved' = 0
  BY DEF Resize
<1>2. Left = {}
  BY DEF MapInv, AtRest, Left
<1>3. Taken' = {}
  BY <1>1 DEF Taken, Free
<1>4. Left' = Taken
  <2>1. \A m \in DOMAIN slots : m >= 0
    BY MapFacts DEF MapInv
  <2> QED
    BY <1>1, <2>1 DEF Left, Taken
<1> QED
  BY <1>1, <1>2, <1>3, <1>4 DEF Stored

LEMMA SetStores ==
    ASSUME MapInv, NEW x \in Keys, NEW w \in Values, Set(x, w), NEW k, NEW v
    PROVE  HasPair(k, v)' <=> IF k = x THEN v = w ELSE HasPair(k, v)
<1>1. op = "idle" /\ item = Nothing /\ old = <<>>
  BY DEF Set, MapInv, AtRest
<1>2. Left = {} /\ ~Carrying
  BY <1>1 DEF Left, Carrying
<1>3. PICK e : e = Entry(x, w)
  OBVIOUS
<1>4. e \in Full /\ e # Nothing /\ e.key = x /\ e.value = w
  BY <1>3, NothingElse DEF Entry, Full
<1>5. CASE count < growat
  <2>1. /\ slots' = slots /\ old' = old /\ item' = item
        /\ op' = "set" /\ hand' = e
    BY <1>3, <1>5, MapFacts DEF Set, resizeVars, MapInv, MapTypeOK
  <2>2. Stored(k, v)' <=> Stored(k, v)
    BY <1>1, <2>1 DEF Stored, Taken, Left
  <2> QED
    BY <1>1, <1>2, <1>4, <2>1, <2>2 DEF HasPair, Carrying
<1>6. CASE ~(count < growat)
  <2>1. /\ Resize(2 * nbuckets) /\ item' = e
    BY <1>3, <1>6 DEF Set
  <2> QED
    <3>1. PICK n : n = 2 * nbuckets
      OBVIOUS
    <3>2. Stored(k, v)' <=> Stored(k, v)
      BY <1>1, <2>1, <3>1, ResizeKeepsPairs
    <3>3. ~Carrying'
      BY <2>1 DEF Resize, Carrying
    <3> QED
      BY <1>1, <1>2, <1>4, <2>1, <3>2, <3>3 DEF HasPair
<1> QED
  BY <1>5, <1>6

LEMMA MoveNextStores ==
    ASSUME MapInv, HoleCopied, MoveNext, NEW k, NEW v
    PROVE  HasPair(k, v)' <=> HasPair(k, v)
<1>1. /\ op = "move" /\ hand = Nothing /\ moved \in DOMAIN old
      /\ slots' = slots /\ op' = op /\ old' = old /\ item' = item
      /\ moved' = moved + 1
  BY DEF MoveNext
<1>2. MapTypeOK /\ Moving
  BY DEF MapInv
<1>3. \A n \in DOMAIN old : n \in Int
  <2>1. PICK n \in MinBuckets..MaxBuckets : old \in [0..n-1 -> {Free} \cup Full]
    BY <1>1, <1>2 DEF MapTypeOK
  <2> QED
    BY <2>1
<1>4. moved \in Nat
  BY <1>2 DEF MapTypeOK
<1>5. Left' = Left \ {moved} /\ Taken' = Taken
  BY <1>1, <1>3, <1>4 DEF Left, Taken
<1>6. CASE old[moved].dib > 0
  <2>1. moved \in Left
    BY <1>1, <1>4, <1>6 DEF Left
  <2>2. PICK e : e = old[moved]
    OBVIOUS
  <2>3. hand' = [e EXCEPT !.dib = 1] /\ e \in Full
    BY <1>2, <1>6, <2>1, <2>2, LeftFinite DEF MoveNext
  <2>4. hand' \in Full /\ hand'.key = e.key /\ hand'.value = e.value
    BY <2>3 DEF Full
  <2>5. Carrying' /\ ~Carrying
    BY <1>1, <2>4, NothingElse DEF Carrying
  <2>6. Stored(k, v)' <=> Stored(k, v) /\ k # e.key
    BY <1>1, <1>2, <1>5, <2>1, <2>2 DEF Stored, Moving
  <2>7. Stored(e.key, e.value)
    BY <2>1, <2>2 DEF Stored
  <2>8. k = e.key => (Stored(k, v) <=> v = e.value)
    BY <2>7, StoredOnce
  <2> QED
    BY <1>1, <2>4, <2>5, <2>6, <2>8 DEF HasPair
<1>7. CASE ~(old[moved].dib > 0)
  <2>1. hand' = hand /\ Left' = Left
    BY <1>5, <1>7 DEF MoveNext, Left
  <2>2. Stored(k, v)' <=> Stored(k, v)
    BY <1>1, <1>5, <2>1 DEF Stored
  <2> QED
    BY <1>1, <2>1, <2>2 DEF HasPair, Carrying
<1> QED
  BY <1>6, <1>7

LEMMA NothingLeft ==
    ASSUME MapTypeOK, moved \notin DOMAIN old
    PROVE  Left = {}
<1>1. CASE old = <<>>
  BY <1>1 DEF Left
<1>2. CASE old # <<>>
  <2>1. PICK n \in MinBuckets..MaxBuckets :
            old \in [0..n-1 -> {Free} \cup Full]
    BY <1>2 DEF MapTypeOK
  <2>2. moved \in Nat /\ n \in Int /\ DOMAIN old = 0..n-1
    BY <2>1 DEF MapTypeOK
  <2>3. moved > n - 1
    BY <2>2
  <2> QED
    BY <2>2, <2>3 DEF Left
<1> QED
  BY <1>1, <1>2

LEMMA EndOfMoveStores ==
    ASSUME MapInv, EndOfMove, NEW k, NEW v
    PROVE  HasPair(k, v)' <=> HasPair(k, v)
<1>1. /\ op = "move" /\ hand = Nothing /\ moved \notin DOMAIN old
      /\ slots' = slots /\ old' = <<>> /\ item' = Nothing
      /\ item # Nothing => op' = "set" /\ hand' = item
      /\ item = Nothing => op' = "idle"
  BY DEF EndOfMove
<1>2. Left = {} /\ Left' = {} /\ Taken' = Taken
  <2>1. Left = {}
    BY <1>1, NothingLeft DEF MapInv
  <2>2. Left' = {} /\ Taken' = Taken
    BY <1>1 DEF Left, Taken
  <2> QED
    BY <2>1, <2>2
<1>3. Stored(k, v)' <=> Stored(k, v)
  BY <1>1, <1>2 DEF Stored
<1> QED
  BY <1>1, <1>3 DEF HasPair, Carrying

(* An entry that is put where it stays was nowhere.                        *)
LEMMA HandAbsent ==
    ASSUME MapInv, op \in {"set", "move"}, hand # Nothing,
           slots[at].dib < hand.dib, NEW v
    PROVE  ~Stored(hand.key, v)
<1>1. PICK N, H, s, a, e :
        N = nbuckets /\ H = homes /\ s = slots /\ a = at /\ e = hand
  OBVIOUS
<1>2. /\ N \in Nat /\ H \in [Keys -> 0..N-1] /\ s \in Array(N)
      /\ a \in 0..N-1 /\ Taken = Used(s)
  BY <1>1, MapFacts DEF MapInv
<1>3. Good(s, N, H) /\ Carried(s, N, H, e, a)
  BY <1>1 DEF MapInv, AtRest, Setting, Moving
<1>4. \A n \in Taken : slots[n].key # hand.key
  BY <1>1, <1>2, <1>3, Absent
<1>5. \A n \in Left : old[n].key # hand.key
  BY DEF MapInv, AtRest, Moving, Left
<1> QED
  BY <1>4, <1>5 DEF Stored

LEMMA PlaceStores ==
    ASSUME MapInv, Place, NEW k, NEW v
    PROVE  HasPair(k, v)' <=> HasPair(k, v)
<1>1. /\ op \in {"set", "move"} /\ hand # Nothing /\ slots[at].dib = 0
      /\ slots' = [slots EXCEPT ![at] = hand] /\ hand' = Nothing
      /\ old' = old /\ moved' = moved /\ item' = item
  BY DEF Place, resizeVars
<1>2. at \in DOMAIN slots /\ hand \in Full /\ hand.dib > 0
  BY <1>1 DEF MapInv, MapTypeOK, Full
<1>3. Taken' = Taken \cup {at} /\ at \notin Taken /\ Left' = Left
  BY <1>1, <1>2 DEF Taken, Left
<1>4. Stored(k, v)' <=> \/ Stored(k, v)
                        \/ k = hand.key /\ v = hand.value
  <2>1. \A n \in Taken : slots'[n] = slots[n]
    BY <1>1, <1>3 DEF Taken
  <2>2. slots'[at] = hand
    BY <1>1, <1>2
  <2> QED
    BY <1>1, <1>3, <2>1, <2>2 DEF Stored
<1>5. ~Stored(hand.key, v)
  BY <1>1, <1>2, HandAbsent
<1>6. Carrying /\ ~Carrying'
  BY <1>1 DEF Carrying
<1> QED
  BY <1>1, <1>4, <1>5, <1>6 DEF HasPair

LEMMA ReplaceStores ==
    ASSUME MapInv, MapInv', HoleCopied', Replace, NEW k, NEW v
    PROVE  HasPair(k, v)' <=> HasPair(k, v)
<1>1. /\ op = "set" /\ slots[at].dib > 0 /\ slots[at].key = hand.key
      /\ slots' = [slots EXCEPT ![at].value = hand.value]
      /\ hand' = Nothing /\ op' = "idle"
      /\ old' = old /\ moved' = moved /\ item' = item
  BY DEF Replace, resizeVars
<1>2. /\ at \in Taken /\ hand # Nothing /\ KeysOnce(slots) /\ Left = {}
      /\ item = Nothing
  BY <1>1 DEF MapInv, MapTypeOK, AtRest, Setting, Good, Taken, Left
<1>3. PICK e, f : e = slots[at] /\ f = slots'[at]
  OBVIOUS
<1>4. e \in Full
  <2>1. slots[at] \in {Free} \cup Full
    BY DEF MapInv, MapTypeOK
  <2> QED
    BY <1>1, <1>3, <2>1 DEF Free
<1>5. f = [e EXCEPT !.value = hand.value]
  BY <1>1, <1>2, <1>3 DEF Taken
<1>6. f.key = hand.key /\ f.value = hand.value /\ f.dib = e.dib
  BY <1>1, <1>3, <1>4, <1>5 DEF Full
<1>7. \A n \in DOMAIN slots : n # at => slots'[n] = slots[n]
  BY <1>1
<1>8. DOMAIN slots' = DOMAIN slots
  BY <1>1
<1>9. Taken' = Taken /\ Left' = Left
  BY <1>1, <1>3, <1>6, <1>7, <1>8 DEF Taken, Left
<1>10. Stored(k, v)' <=> IF k = hand.key THEN v = hand.value ELSE Stored(k, v)
  <2>1. Stored(k, v)' <=> \E n \in Taken : slots'[n].key = k
                                           /\ slots'[n].value = v
    BY <1>2, <1>9 DEF Stored
  <2>2. Stored(k, v) <=> \E n \in Taken : slots[n].key = k
                                          /\ slots[n].value = v
    BY <1>2 DEF Stored
  <2>3. \A n \in Taken : n # at => slots[n].key # hand.key
                                   /\ slots'[n] = slots[n]
    BY <1>1, <1>2, <1>7 DEF KeysOnce, Taken, Used
  <2>4. slots'[at].key = hand.key /\ slots'[at].value = hand.value
    BY <1>3, <1>6
  <2> QED
    BY <1>1, <1>2, <2>1, <2>2, <2>3, <2>4
<1>11. Carrying /\ ~Carrying'
  BY <1>1, <1>2 DEF Carrying
<1> QED
  BY <1>1, <1>2, <1>10, <1>11 DEF HasPair

LEMMA GoOnStores ==
    ASSUME MapInv, HoleCopied, MapInv', GoOn, NEW k, NEW v
    PROVE  HasPair(k, v)' <=> HasPair(k, v)
<1>1. /\ op \in {"set", "move"} /\ hand # Nothing /\ slots[at].dib > 0
      /\ op' = op /\ old' = old /\ moved' = moved /\ item' = item
  BY DEF GoOn, resizeVars
<1>2. PICK e, f, g : e = hand /\ f = slots[at] /\ g = hand'
  OBVIOUS
<1>3. e \in Full /\ e.dib \in Nat /\ e.dib > 0 /\ at \in DOMAIN slots
  BY <1>1, <1>2 DEF MapInv, MapTypeOK, Full
<1>4. f \in Full /\ f.dib \in Nat
  <2>1. slots[at] \in {Free} \cup Full
    BY <1>3 DEF MapInv, MapTypeOK
  <2> QED
    BY <1>1, <1>2, <2>1 DEF Free, Full
<1>5. Carrying
  BY <1>1 DEF Carrying
<1>6. CASE f.dib < e.dib
  <2>1. slots' = [slots EXCEPT ![at] = e] /\ g = [f EXCEPT !.dib = @ + 1]
    BY <1>2, <1>6 DEF GoOn
  <2>2. g \in Full /\ g.key = f.key /\ g.value = f.value
    BY <1>4, <2>1 DEF Full
  <2>3. Carrying'
    BY <1>1, <1>2, <2>2, NothingElse DEF Carrying
  <2>4. /\ Taken' = Taken /\ Left' = Left /\ at \in Taken
        /\ slots'[at] = e
        /\ \A n \in Taken : n # at => slots'[n] = slots[n]
    BY <1>1, <1>2, <1>3, <2>1 DEF Taken, Left
  <2>5. \A x : ~Stored(e.key, x)
    BY <1>1, <1>2, <1>6, HandAbsent
  <2>6. Stored(f.key, f.value)
    BY <1>2, <2>4 DEF Stored
  <2>7. /\ \A n \in Taken : n # at => slots[n].key # f.key
        /\ \A n \in Left : old[n].key # f.key
    <3>1. KeysOnce(slots)
      BY <1>1 DEF MapInv, AtRest, Moving, Good
    <3>2. \A n \in Left : old[n].key # f.key
      BY <1>1, <1>2, <2>4 DEF MapInv, AtRest, Moving, Left
    <3> QED
      BY <1>2, <2>4, <3>1, <3>2 DEF KeysOnce, Taken, Used
  <2>8. Stored(k, v)' <=> \/ k = e.key /\ v = e.value
                          \/ k # f.key /\ Stored(k, v)
    <3>1. \A n \in Left : old'[n] = old[n]
      BY <1>1
    <3>2. e.key # f.key
      BY <2>5, <2>6
    <3> QED
      BY <1>2, <2>4, <2>7, <3>1, <3>2 DEF Stored
  <2>9. k = f.key => (Stored(k, v) <=> v = f.value)
    BY <2>6, StoredOnce
  <2>10. e.key # f.key
    BY <2>5, <2>6
  <2>11. HasPair(k, v)' <=> IF item # Nothing /\ item.key = k THEN v = item.value
                          ELSE IF k = f.key THEN v = f.value
                          ELSE Stored(k, v)'
    BY <1>1, <1>2, <2>2, <2>3 DEF HasPair
  <2>12. HasPair(k, v) <=> IF item # Nothing /\ item.key = k THEN v = item.value
                         ELSE IF k = e.key THEN v = e.value
                         ELSE Stored(k, v)
    BY <1>2, <1>5 DEF HasPair
  <2> QED
    BY <2>5, <2>8, <2>9, <2>10, <2>11, <2>12
<1>7. CASE ~(f.dib < e.dib)
  <2>1. slots' = slots /\ g = [e EXCEPT !.dib = @ + 1]
    BY <1>2, <1>7 DEF GoOn
  <2>2. g \in Full /\ g.key = e.key /\ g.value = e.value
    BY <1>3, <2>1 DEF Full
  <2>3. Carrying'
    BY <1>1, <1>2, <2>2, NothingElse DEF Carrying
  <2>4. Stored(k, v)' <=> Stored(k, v)
    BY <1>1, <2>1 DEF Stored, Taken, Left
  <2> QED
    BY <1>1, <1>2, <1>5, <2>2, <2>3, <2>4 DEF HasPair
<1> QED
  BY <1>6, <1>7

LEMMA LookStores ==
    ASSUME \/ \E x \in Keys, what \in {"get", "delete"} : Search(x, what)
           \/ SearchOn \/ Get \/ DeleteNothing
           \/ SetOutOfMemory \/ ReturnOutOfMemory,
           NEW k, NEW v
    PROVE  HasPair(k, v)' <=> HasPair(k, v)
<1>1. /\ slots' = slots /\ old' = old /\ moved' = moved /\ item' = item
      /\ op \in {"idle", "get", "delete", "refused"}
      /\ op' \in {"idle", "get", "delete", "refused"}
  BY DEF Search, SearchOn, Get, DeleteNothing, SetOutOfMemory,
         ReturnOutOfMemory, resizeVars
<1>2. Stored(k, v)' <=> Stored(k, v)
  BY <1>1 DEF Stored, Taken, Left
<1> QED
  BY <1>1, <1>2 DEF HasPair, Carrying

(* At a free slot the search is over.                                      *)
LEMMA NotThere ==
    ASSUME MapInv, Looking, op \in {"get", "delete"}, slots[at].dib = 0,
           NEW v
    PROVE  ~HasPair(hand.key, v)
<1>1. PICK N, H, s, a, k :
        N = nbuckets /\ H = homes /\ s = slots /\ a = at /\ k = hand.key
  OBVIOUS
<1>2. /\ N \in Nat /\ H \in [Keys -> 0..N-1] /\ s \in Array(N)
      /\ a \in 0..N-1 /\ Taken = Used(s)
  BY <1>1, MapFacts DEF MapInv
<1>3. /\ Good(s, N, H) /\ item = Nothing /\ Left = {} /\ ~Carrying
  BY <1>1 DEF MapInv, AtRest, Left, Carrying
<1>4. /\ k \in Keys
      /\ \A n \in 0..N-1 : Dist(N, n, H[k]) < Dist(N, a, H[k]) =>
             n \in Used(s) /\ s[n].key # k
  BY <1>1, <1>2 DEF Looking, Full
<1>5. ASSUME NEW n \in Used(s), s[n].key = k PROVE FALSE
  <2>1. n \in 0..N-1 /\ H[k] \in 0..N-1
    BY <1>2, <1>4 DEF Used, Array
  <2>2. Dist(N, n, H[k]) \in Int /\ Dist(N, a, H[k]) \in Nat
    BY <1>2, <2>1 DEF Dist
  <2>3. Dist(N, a, H[k]) <= Dist(N, n, H[k])
    BY <1>4, <1>5, <2>1, <2>2
  <2>4. s[a].dib >= Dist(N, a, H[k]) + 1
    BY <1>2, <1>3, <1>5, <2>3, Passed
  <2> QED
    BY <1>1, <2>2, <2>4
<1> QED
  BY <1>1, <1>2, <1>3, <1>5 DEF HasPair, Stored

LEMMA DeleteStores ==
    ASSUME MapInv, Delete, NEW k, NEW v
    PROVE  /\ HasPair(k, v)' <=> k # hand.key /\ HasPair(k, v)
           /\ HasPair(hand.key, slots[at].value)
<1>1. /\ op = "delete" /\ op' = "shift" /\ slots[at].dib > 0
      /\ slots[at].key = hand.key
      /\ slots' = [slots EXCEPT ![at] = Free]
      /\ old' = old /\ moved' = moved /\ item' = item
  BY DEF Delete, resizeVars
<1>2. /\ at \in Taken /\ KeysOnce(slots) /\ Left = {} /\ item = Nothing
      /\ at \in DOMAIN slots
  BY <1>1 DEF MapInv, MapTypeOK, AtRest, Good, Taken, Left
<1>3. Taken' = Taken \ {at} /\ Left' = {}
  BY <1>1, <1>2 DEF Taken, Left, Free
<1>4. \A n \in Taken \ {at} : slots'[n] = slots[n] /\ slots[n].key # hand.key
  BY <1>1, <1>2 DEF KeysOnce, Taken, Used
<1>5. Stored(k, v)' <=> k # hand.key /\ Stored(k, v)
  BY <1>1, <1>2, <1>3, <1>4 DEF Stored
<1>6. Stored(hand.key, slots[at].value)
  BY <1>1, <1>2 DEF Stored
<1>7. ~Carrying /\ ~Carrying'
  BY <1>1 DEF Carrying
<1> QED
  BY <1>1, <1>2, <1>5, <1>6, <1>7 DEF HasPair

(* What the hole holds is held elsewhere.                                  *)
LEMMA HoleStores ==
    ASSUME MapInv, HoleCopied, Shift \/ EndOfShift, NEW k, NEW v
    PROVE  HasPair(k, v)' <=> HasPair(k, v)
<1>1. /\ op = "shift" /\ op' \notin {"set", "move"}
      /\ old' = old /\ moved' = moved /\ item' = item
  BY DEF Shift, EndOfShift, resizeVars
<1>2. PICK N, s, a, t, o :
        N = nbuckets /\ s = slots /\ a = at /\ t = slots' /\ o = Hole(N, a)
  OBVIOUS
<1>3. /\ N \in Nat /\ N > 1 /\ s \in Array(N) /\ a \in 0..N-1
      /\ DOMAIN s = 0..N-1 /\ Taken = Used(s)
      /\ (at - 1) % nbuckets = Behind(N, a)
  BY <1>2, MapFacts DEF MapInv
<1>4. /\ o \in 0..N-1 /\ o # a /\ Behind(N, o) \in 0..N-1
      /\ Behind(N, o) # o /\ o = Behind(N, a)
  BY <1>2, <1>3 DEF Behind, Hole
<1>5. s[o].dib > 0 => /\ s[Behind(N, o)].dib > 0
                      /\ s[Behind(N, o)].key = s[o].key
                      /\ s[Behind(N, o)].value = s[o].value
  BY <1>1, <1>2 DEF HoleCopied
<1>6. PICK e : e = IF Shift THEN [s[a] EXCEPT !.dib = @ - 1] ELSE Free
  OBVIOUS
<1>7. t = [s EXCEPT ![o] = e]
  BY <1>2, <1>3, <1>4, <1>6 DEF Shift, EndOfShift
<1>8. /\ DOMAIN t = 0..N-1 /\ t[o] = e
      /\ \A n \in 0..N-1 : n # o => t[n] = s[n]
  BY <1>3, <1>4, <1>7 DEF Array
<1>9. e.dib > 0 => s[a].dib > 0 /\ e.key = s[a].key /\ e.value = s[a].value
  <2>1. CASE Shift
    <3>1. s[a].dib > 1
      BY <1>2, <2>1 DEF Shift
    <3>2. s[a] \in Full
      BY <1>3, <3>1, SlotType
    <3> QED
      BY <1>6, <2>1, <3>1, <3>2 DEF Full
  <2>2. CASE ~Shift
    BY <1>6, <2>2 DEF Free
  <2> QED
    BY <2>1, <2>2
<1>10. Left = {} /\ Left' = {} /\ Taken' = Used(t)
  BY <1>1, <1>2 DEF MapInv, Shifting, Left, Taken, Used
<1>11. (\E n \in Used(t) : t[n].key = k /\ t[n].value = v)
         <=> \E n \in Used(s) : s[n].key = k /\ s[n].value = v
  <2>1. ASSUME NEW n \in Used(s)
        PROVE  \E m \in Used(t) : t[m].key = s[n].key /\ t[m].value = s[n].value
    <3>1. CASE n = o
      BY <1>4, <1>5, <1>8, <3>1 DEF Used
    <3>2. CASE n # o
      BY <1>3, <1>8, <3>2 DEF Used
    <3> QED
      BY <3>1, <3>2
  <2>2. ASSUME NEW n \in Used(t)
        PROVE  \E m \in Used(s) : s[m].key = t[n].key /\ s[m].value = t[n].value
    <3>1. CASE n = o
      BY <1>3, <1>8, <1>9, <3>1 DEF Used
    <3>2. CASE n # o
      BY <1>3, <1>8, <3>2 DEF Used
    <3> QED
      BY <3>1, <3>2
  <2> QED
    BY <2>1, <2>2
<1>12. Stored(k, v)' <=> Stored(k, v)
  BY <1>2, <1>3, <1>10, <1>11 DEF Stored
<1>13. ~Carrying /\ ~Carrying'
  BY <1>1 DEF Carrying
<1> QED
  BY <1>1, <1>12, <1>13 DEF HasPair

LEMMA ShrinkStores ==
    ASSUME MapInv, Shrink, NEW k, NEW v
    PROVE  HasPair(k, v)' <=> HasPair(k, v)
<1>1. op = "shrink" /\ item' = item
  BY DEF Shrink
<1>2. CASE Resize(nbuckets \div 2)
  <2>1. PICK n : n = nbuckets \div 2
    OBVIOUS
  <2>2. Stored(k, v)' <=> Stored(k, v)
    BY <1>1, <1>2, <2>1, ResizeKeepsPairs
  <2>3. ~Carrying /\ ~Carrying'
    BY <1>1, <1>2 DEF Carrying, Resize
  <2> QED
    BY <1>1, <2>2, <2>3 DEF HasPair
<1>3. CASE op' = "idle" /\ UNCHANGED <<slots, old, moved, hand, at>>
  <2>1. Stored(k, v)' <=> Stored(k, v)
    BY <1>3 DEF Stored, Taken, Left
  <2>2. ~Carrying /\ ~Carrying'
    BY <1>1, <1>3 DEF Carrying
  <2> QED
    BY <1>1, <2>1, <2>2 DEF HasPair
<1> QED
  BY <1>2, <1>3 DEF Shrink
-----------------------------------------------------------------------------
UseInv == MapInv /\ Looking /\ HoleCopied

LEMMA UseInvHolds == MapSpec => []UseInv
<1>1. MapInit => UseInv
  BY MapInvStarts DEF UseInv, MapInit, Looking, HoleCopied
<1>2. UseInv /\ [MapNext]_mapVars => UseInv'
  BY MapInvKept, LookingKept, HoleCopiedKept DEF UseInv
<1> QED
  BY <1>1, <1>2, PTL DEF MapSpec

(* A step of the map is a step of a call as the user sees it, or none.     *)
MapStutters == held' = held /\ result' = result /\ calling' = calling

LEMMA MapSteps ==
    ASSUME UseInv, UseInv', [MapNext]_mapVars
    PROVE  Map!KeyValuesNext \/ MapStutters
<1> USE DEF UseInv
<1>1. ASSUME NEW x \in Keys, NEW w \in Values, Set(x, w)
      PROVE  Map!Store(x, w)
  <2>1. \A k, v : HasPair(k, v)' <=> IF k = x THEN v = w ELSE HasPair(k, v)
    BY <1>1, SetStores
  <2>2. held' = [k \in DOMAIN held \cup {x} |->
                     IF k = x THEN w ELSE held[k]]
    BY <2>1, HeldStore
  <2>3. op = "idle" /\ op' \in {"set", "move"} /\ result' = result
    BY <1>1 DEF Set, Resize
  <2> QED
    BY <2>2, <2>3, CallingIs, CallingNext DEF Map!Store
<1>2. ASSUME NEW x \in Keys, NEW what \in {"get", "delete"}, Search(x, what)
      PROVE  Map!LookFor(x, what)
  <2>1. \A k, v : HasPair(k, v)' <=> HasPair(k, v)
    BY <1>2, LookStores
  <2>2. held' = held
    BY <2>1, HeldSame
  <2>3. op = "idle" /\ op' = what /\ hand'.key = x /\ result' = result
    BY <1>2 DEF Search, Entry
  <2> QED
    BY <2>2, <2>3, CallingIs, CallingNext DEF Map!LookFor
<1>3. ASSUME \/ MoveNext \/ EndOfMove \/ Place \/ Replace \/ GoOn
             \/ Shift \/ EndOfShift \/ Shrink
      PROVE  Map!Return \/ MapStutters
  <2>1. \A k, v : HasPair(k, v)' <=> HasPair(k, v)
    BY <1>3, MoveNextStores, EndOfMoveStores, PlaceStores, ReplaceStores,
       GoOnStores, HoleStores, ShrinkStores
  <2>2. held' = held
    BY <2>1, HeldSame
  <2>3. /\ op \in {"set", "move", "shift", "shrink"}
        /\ op' \in {"set", "move", "shift", "shrink", "idle"}
        /\ result' = result
    BY <1>3 DEF MoveNext, EndOfMove, Place, Replace, GoOn, Shift, EndOfShift,
       Shrink, Resize
  <2>4. calling = <<"ending">>
    BY <2>3, CallingIs
  <2>5. CASE op' = "idle"
    BY <2>2, <2>3, <2>4, <2>5, CallingNext DEF Map!Return
  <2>6. CASE op' # "idle"
    BY <2>2, <2>3, <2>4, <2>6, CallingNext DEF MapStutters
  <2> QED
    BY <2>5, <2>6
<1>4. ASSUME SearchOn PROVE MapStutters
  <2>1. \A k, v : HasPair(k, v)' <=> HasPair(k, v)
    BY <1>4, LookStores
  <2>2. held' = held
    BY <2>1, HeldSame
  <2>3. op' = op /\ hand' = hand /\ result' = result
    BY <1>4 DEF SearchOn
  <2> QED
    BY <2>2, <2>3 DEF MapStutters, calling
<1>5. ASSUME Get PROVE \E k \in Keys : Map!Find(k)
  <2>1. \A k, v : HasPair(k, v)' <=> HasPair(k, v)
    BY <1>5, LookStores
  <2>2. held' = held
    BY <2>1, HeldSame
  <2>3. op = "get" /\ op' = "idle"
    BY <1>5 DEF Get
  <2>4. hand.key \in Keys
    BY <2>3 DEF Looking, Full
  <2>5. HeldFacts
    BY HeldIs
  <2>6. result' = IF hand.key \in DOMAIN held THEN held[hand.key] ELSE NoValue
    <3>1. CASE slots[at].dib = 0
      <4>1. \A v : ~HasPair(hand.key, v)
        BY <2>3, <3>1, NotThere
      <4>2. hand.key \notin DOMAIN held
        BY <2>5, <4>1 DEF HeldFacts
      <4>3. result' = NoValue
        BY <1>5, <3>1 DEF Get
      <4> QED
        BY <4>2, <4>3
    <3>2. CASE slots[at].dib # 0
      <4>1. slots[at].dib > 0 /\ slots[at].key = hand.key
            /\ result' = slots[at].value
        BY <1>5, <3>2 DEF Get
      <4>2. at \in Taken
        BY <4>1 DEF Taken, MapInv, MapTypeOK
      <4>3. Stored(hand.key, slots[at].value)
        BY <4>1, <4>2 DEF Stored
      <4>4. HasPair(hand.key, slots[at].value)
        BY <2>3, <4>3 DEF HasPair, Carrying, MapInv, AtRest
      <4> QED
        BY <2>5, <4>1, <4>4 DEF HeldFacts
    <3> QED
      BY <3>1, <3>2
  <2>7. calling = <<"get", hand.key>> /\ calling' = <<"none">>
    BY <2>3, CallingIs, CallingNext
  <2>8. Map!Find(hand.key)
    BY <2>2, <2>6, <2>7 DEF Map!Find
  <2> QED
    BY <2>4, <2>8
<1>6. ASSUME DeleteNothing PROVE \E k \in Keys : Map!Remove(k)
  <2>1. \A k, v : HasPair(k, v)' <=> HasPair(k, v)
    BY <1>6, LookStores
  <2>2. op = "delete" /\ op' = "idle" /\ slots[at].dib = 0
        /\ result' = result
    BY <1>6 DEF DeleteNothing
  <2>3. hand.key \in Keys
    BY <2>2 DEF Looking, Full
  <2>4. \A v : ~HasPair(hand.key, v)
    BY <2>2, NotThere
  <2>5. hand.key \notin DOMAIN held
    BY <2>4, HeldIs DEF HeldFacts
  <2>6. PICK x : x = hand.key
    OBVIOUS
  <2>7. held' = [k \in DOMAIN held \ {x} |-> held[k]]
    BY <2>1, <2>4, <2>6, HeldRemove
  <2>8. calling = <<"delete", hand.key>> /\ calling' = <<"none">>
    BY <2>2, CallingIs, CallingNext
  <2>9. Map!Remove(x)
    BY <2>2, <2>5, <2>6, <2>7, <2>8 DEF Map!Remove
  <2> QED
    BY <2>3, <2>6, <2>9
<1>7. ASSUME Delete PROVE \E k \in Keys : Map!Remove(k)
  <2>1. /\ \A k, v : HasPair(k, v)' <=> k # hand.key /\ HasPair(k, v)
        /\ HasPair(hand.key, slots[at].value)
    BY <1>7, DeleteStores
  <2>2. op = "delete" /\ op' = "shift" /\ result' = result
    BY <1>7 DEF Delete
  <2>3. hand.key \in Keys
    BY <2>2 DEF Looking, Full
  <2>4. hand.key \in DOMAIN held
    BY <2>1, HeldIs DEF HeldFacts
  <2>5. PICK x : x = hand.key
    OBVIOUS
  <2>6. held' = [k \in DOMAIN held \ {x} |-> held[k]]
    BY <2>1, <2>5, HeldRemove
  <2>7. calling = <<"delete", hand.key>> /\ calling' = <<"ending">>
    BY <2>2, CallingIs, CallingNext
  <2>8. Map!Remove(x)
    BY <2>2, <2>4, <2>5, <2>6, <2>7 DEF Map!Remove
  <2> QED
    BY <2>3, <2>5, <2>8
<1>8. ASSUME UNCHANGED mapVars PROVE MapStutters
  <2> USE <1>8 DEF mapVars, resizeVars
  <2>1. \A k, v : HasPair(k, v)' <=> HasPair(k, v)
    BY DEF HasPair, Carrying, Stored, Taken, Left
  <2>2. held' = held
    BY <2>1, HeldSame
  <2> QED
    BY <2>2 DEF MapStutters, calling
<1>11. ASSUME SetOutOfMemory \/ ReturnOutOfMemory
       PROVE  Map!Refuse \/ Map!Return
  <2>1. \A k, v : HasPair(k, v)' <=> HasPair(k, v)
    BY <1>11, LookStores
  <2>2. held' = held
    BY <2>1, HeldSame
  <2>3. /\ \/ op = "idle" /\ op' = "refused"
           \/ op = "refused" /\ op' = "idle"
        /\ result' = result
    BY <1>11 DEF SetOutOfMemory, ReturnOutOfMemory
  <2> QED
    BY <2>2, <2>3, CallingIs, CallingNext DEF Map!Refuse, Map!Return
<1>9. ASSUME MapStep PROVE Map!KeyValuesNext \/ MapStutters
  BY <1>3, <1>4, <1>5, <1>6, <1>7, <1>9, <1>11 DEF MapStep, Map!KeyValuesNext
<1>10. ASSUME MapNext PROVE Map!KeyValuesNext \/ MapStutters
  BY <1>1, <1>2, <1>9, <1>10, <1>11 DEF MapNext, Map!KeyValuesNext
<1> QED
  BY <1>8, <1>10

(* The map is a map: each call changes the value of its own key, once, and *)
(* a search returns what was stored last.  hashmap.c implements KeyValues, *)
(* for any keys, values and hashes, through every exchange, shift and      *)
(* change of the array.                                                    *)
THEOREM HashMapIsAMap == MapSpec => IsAMap
<1>1. MapInit => Map!KeyValuesInit
  <2> SUFFICES ASSUME MapInit PROVE Map!KeyValuesInit
    OBVIOUS
  <2>1. MapInv /\ HoleCopied
    BY MapInvStarts DEF MapInit, HoleCopied
  <2>2. Taken = {} /\ Left = {}
    BY DEF MapInit, Taken, Left, Free
  <2>3. \A k, v : ~HasPair(k, v)
    BY <2>2 DEF MapInit, HasPair, Carrying, Stored
  <2>4. held = [k \in {} |-> held[k]]
    BY <2>1, <2>3, HeldIs DEF HeldFacts
  <2>5. held = <<>>
    BY <2>4
  <2> QED
    BY <2>5, CallingIs DEF MapInit, Map!KeyValuesInit
<1>2. UseInv /\ UseInv' /\ [MapNext]_mapVars =>
          [Map!KeyValuesNext]_<<held, result, calling>>
  BY MapSteps DEF MapStutters
<1> QED
  BY <1>1, <1>2, UseInvHolds, PTL DEF MapSpec, IsAMap, Map!KeyValuesSpec
=============================================================================
