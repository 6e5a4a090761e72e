----------------------------- MODULE VectorSort -----------------------------
(***************************************************************************)
(* vector_sort of src/vector.c, the bubble sort that puts the peers of a   *)
(* lookup in the order of their distance to the target: one comparison, or *)
(* the end of a pass, per step.                                            *)
(*                                                                         *)
(* The elements are pointers to separate allocations, none of them NULL;   *)
(* two of them may point to peers at the same distance.  Index n of the    *)
(* program is position n + 1 of vec.                                       *)
(***************************************************************************)
EXTENDS Integers, Sequences

CONSTANTS
    Elements,     \* the pointers
    Distance,     \* what peer_distance_cmp compares, one value per pointer
    MaxSize       \* bound on the size of the vector

ASSUME SortAssumption ==
    /\ Distance \in [Elements -> Int]
    /\ MaxSize \in Nat

VARIABLES
    input,        \* history: the vector as it was passed
    vec, i, j,
    sorting       \* vector_sort has not returned

vars == <<input, vec, i, j, sorting>>

size == Len(vec)

IsInjectiveSeq(s) == \A m, n \in DOMAIN s : s[m] = s[n] => m = n

Elems(s) == {s[n] : n \in DOMAIN s}
-----------------------------------------------------------------------------
(* Plausible slips in the definitions below, for the mutation checks.      *)

cmp_farther(a, b) == Distance[a] > Distance[b]

Compare_copying ==
    /\ sorting /\ i < size - 1 /\ j < size - 1 - i
    /\ vec' = IF Distance[vec[j + 1]] < Distance[vec[j + 2]] THEN vec
              ELSE [vec EXCEPT ![j + 1] = vec[j + 2]]
    /\ j' = j + 1
    /\ UNCHANGED <<input, i, sorting>>
-----------------------------------------------------------------------------
(* peer_distance_cmp: strictly closer.                                     *)
cmp(a, b) == Distance[a] < Distance[b]

Init ==
    /\ \E n \in 0..MaxSize : input \in [1..n -> Elements]
    /\ IsInjectiveSeq(input)
    /\ vec = input
    /\ i = 0 /\ j = 0
    /\ sorting = TRUE

(* The inner loop's body: two neighbours change places unless the left one *)
(* is strictly closer.                                                     *)
Compare ==
    /\ sorting /\ i < size - 1 /\ j < size - 1 - i
    /\ vec' = IF cmp(vec[j + 1], vec[j + 2]) THEN vec
              ELSE [vec EXCEPT ![j + 1] = vec[j + 2], ![j + 2] = vec[j + 1]]
    /\ j' = j + 1
    /\ UNCHANGED <<input, i, sorting>>

EndOfPass ==
    /\ sorting /\ i < size - 1 /\ j = size - 1 - i
    /\ i' = i + 1
    /\ j' = 0
    /\ UNCHANGED <<input, vec, sorting>>

(* After the last pass, or at once with fewer than two elements.           *)
Return ==
    /\ sorting /\ i >= size - 1
    /\ sorting' = FALSE
    /\ UNCHANGED <<input, vec, i, j>>

Next == Compare \/ EndOfPass \/ Return

Spec == Init /\ [][Next]_vars
-----------------------------------------------------------------------------
SortTypeOK ==
    /\ input \in Seq(Elements)
    /\ vec \in Seq(Elements) /\ Len(vec) = Len(input)
    /\ i \in Nat /\ (i > 0 => i < Len(vec))
    /\ j \in Nat /\ (j > 0 => i + j < Len(vec))
    /\ sorting \in BOOLEAN

(* Nobody is lost or doubled by the exchanges, at any moment of the sort:  *)
(* each peer stays in the vector once (the caller frees each once).        *)
SameElements == IsInjectiveSeq(vec) /\ Elems(vec) = Elems(input)

(* vector_sort returns with the closest first.                             *)
SortedWhenDone ==
    ~sorting => \A m, n \in DOMAIN vec :
                    m < n => Distance[vec[m]] <= Distance[vec[n]]
=============================================================================
