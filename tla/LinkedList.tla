----------------------------- MODULE LinkedList -----------------------------
(***************************************************************************)
(* The doubly linked list of src/list.c, node by node: what add_front,     *)
(* add_back, remove_front and remove_back do to the pointers.  Buckets     *)
(* uses add_front alone and takes a list for a sequence.                   *)
(*                                                                         *)
(* A node is named by its address, and stands for the peer it points to.   *)
(***************************************************************************)
EXTENDS Integers

CONSTANTS Nodes, NULL

ASSUME ListAssumption == NULL \notin Nodes

VARIABLES
    allocated,        \* nodes that malloc gave and free did not take back
    next, prev,       \* node -> what it points to
    head, tail, len,  \* struct DList
    behind            \* history: a pointer was left behind to freed memory

listVars == <<allocated, next, prev, head, tail, len, behind>>

(* p is followed.  Nothing is said of a program that follows a pointer to  *)
(* freed memory, so there is no step that does.                            *)
Valid(p) == p \in allocated
-----------------------------------------------------------------------------
(* Plausible slips in the definitions below, for the mutation checks.      *)

RemoveBack_keeping_next ==
    /\ tail # NULL /\ Valid(tail)
    /\ tail' = prev[tail]
    /\ allocated' = allocated \ {tail}
    /\ len' = len - 1
    /\ behind' = (behind \/ allocated' = {})
    /\ UNCHANGED <<next, prev, head>>
-----------------------------------------------------------------------------
ListInit ==
    /\ allocated = {}
    /\ next = [n \in Nodes |-> NULL] /\ prev = [n \in Nodes |-> NULL]
    /\ head = NULL /\ tail = NULL /\ len = 0
    /\ behind = FALSE

AddFront(n) ==
    /\ n \in Nodes \ allocated
    /\ allocated' = allocated \cup {n}
    /\ next' = [next EXCEPT ![n] = head]
    /\ head' = n
    /\ \/ /\ head = NULL
          /\ prev' = [prev EXCEPT ![n] = NULL]
          /\ tail' = n /\ len' = 1
          /\ behind' = FALSE
       \/ /\ head # NULL /\ Valid(head)
          /\ prev' = [prev EXCEPT ![n] = NULL, ![head] = n]
          /\ len' = len + 1
          /\ UNCHANGED <<tail, behind>>

AddBack(n) ==
    /\ n \in Nodes \ allocated
    /\ allocated' = allocated \cup {n}
    /\ prev' = [prev EXCEPT ![n] = tail]
    /\ tail' = n
    /\ \/ /\ head = NULL
          /\ next' = [next EXCEPT ![n] = NULL]
          /\ head' = n /\ len' = 1
       \/ /\ head # NULL /\ Valid(tail)
          /\ next' = [next EXCEPT ![n] = NULL, ![tail] = n]
          /\ len' = len + 1
          /\ UNCHANGED head
    /\ UNCHANGED behind

(* The last node is freed like any other, and tail goes on pointing to it, *)
(* until a node is put in front.                                           *)
RemoveFront ==
    /\ head # NULL /\ Valid(head)
    /\ \/ next[head] = NULL /\ UNCHANGED prev
       \/ Valid(next[head]) /\ prev' = [prev EXCEPT ![next[head]] = NULL]
    /\ head' = next[head]
    /\ allocated' = allocated \ {head}
    /\ len' = len - 1
    /\ behind' = (behind \/ allocated' = {})
    /\ UNCHANGED <<next, tail>>

(* So here, with head.                                                     *)
RemoveBack ==
    /\ tail # NULL /\ Valid(tail)
    /\ \/ prev[tail] = NULL /\ UNCHANGED next
       \/ Valid(prev[tail]) /\ next' = [next EXCEPT ![prev[tail]] = NULL]
    /\ tail' = prev[tail]
    /\ allocated' = allocated \ {tail}
    /\ len' = len - 1
    /\ behind' = (behind \/ allocated' = {})
    /\ UNCHANGED <<prev, head>>

ListNext ==
    \/ \E n \in Nodes : AddFront(n) \/ AddBack(n)
    \/ RemoveFront \/ RemoveBack

ListSpec == ListInit /\ [][ListNext]_listVars
-----------------------------------------------------------------------------
Pointers == Nodes \cup {NULL}

ListTypeOK ==
    /\ allocated \subseteq Nodes
    /\ next \in [Nodes -> Pointers] /\ prev \in [Nodes -> Pointers]
    /\ head \in Pointers /\ tail \in Pointers
    /\ len \in Nat /\ behind \in BOOLEAN

(* The nodes of the list from its head on, each of them once.              *)
InOrder(s) ==
    /\ \A n \in allocated : \E i \in 1..len : s[i] = n
    /\ \A i, j \in 1..len : s[i] = s[j] => i = j
    /\ \A i \in 1..len-1 : next[s[i]] = s[i+1] /\ prev[s[i+1]] = s[i]

(* It is the same list in both directions, of as many nodes as it says,    *)
(* and with every node that was allocated for it: none is lost or found    *)
(* twice, in whatever order the two ends are used, unless a removal has    *)
(* emptied the list.  One that grows and shrinks in front alone recovers   *)
(* from that, and one that is never emptied, like those of Buckets, never  *)
(* has to.                                                                 *)
BothWaysTheSame ==
    /\ ListTypeOK
    /\ ~behind =>
           \E s \in [1..len -> allocated] :
               /\ InOrder(s)
               /\ \/ len = 0 /\ head = NULL /\ tail = NULL
                  \/ /\ len # 0
                     /\ head = s[1] /\ prev[head] = NULL
                     /\ tail = s[len] /\ next[tail] = NULL
=============================================================================
