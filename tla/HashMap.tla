------------------------------ MODULE HashMap -------------------------------
(***************************************************************************)
(* The map behind the storage: lib/hash/hashmap.c, open addressing with    *)
(* robin hood hashing, slot by slot.  The program keeps its pairs of a key *)
(* and the owners of a file in it (src/storage.c).                         *)
(*                                                                         *)
(* One thread uses it, one call at a time.  A slot is free or holds a key, *)
(* its value and dib, one more than its distance from the slot that the    *)
(* hash selects.  Keys are equal iff the map's compare says so; two of     *)
(* them may have the same hash.  nbuckets is a power of two, so the mask   *)
(* is a remainder.                                                         *)
(***************************************************************************)
EXTENDS Integers, Sequences, FiniteSets

CONSTANTS
    Keys, Values, NoValue,
    HashValues,        \* what the hash of a key may be
    MinBuckets,        \* the least number of slots: 16
    MaxBuckets         \* bound: an allocation above this fails for certain

ASSUME MapAssumption ==
    /\ NoValue \notin Values
    /\ HashValues \subseteq Nat
    /\ MinBuckets \in Nat /\ MaxBuckets \in Nat
    /\ 1 < MinBuckets /\ MinBuckets <= MaxBuckets

VARIABLES
    hash,              \* key -> its hash
    slots, count,      \* map->buckets and map->count
    op,                \* the call under way, "idle" between calls
    hand, at,          \* the entry to place or to look for; where
    old, moved,        \* the array a resize leaves; how much of it is moved
    item,              \* what a set that resizes first will insert
    result             \* what the last search returned

resizeVars == <<old, moved, item>>
mapVars == <<hash, slots, count, op, hand, at, resizeVars, result>>

Free == [dib |-> 0]

Nothing == [key |-> "none"]

Entry(k, v) == [key |-> k, value |-> v, dib |-> 1]

nbuckets == Cardinality(DOMAIN slots)

(* Two slips, for the mutation checks.                                     *)
growat_full == nbuckets
growat == (nbuckets * 60) \div 100
shrinkat == (nbuckets * 10) \div 100

home(k) == hash[k] % nbuckets

after(n) == (n + 1) % nbuckets
-----------------------------------------------------------------------------
(* Plausible slips in the definitions below, for the mutation checks.      *)

Shift_keeping_dib ==
    /\ op = "shift" /\ slots[at].dib > 1
    /\ slots' = [slots EXCEPT ![(at - 1) % nbuckets] = slots[at]]
    /\ at' = after(at)
    /\ UNCHANGED <<hash, count, op, hand, resizeVars, result>>

Replace_by_hash ==
    /\ op = "set" /\ slots[at].dib > 0
    /\ hash[slots[at].key] = hash[hand.key]
    /\ slots' = [slots EXCEPT ![at].value = hand.value]
    /\ op' = "idle" /\ hand' = Nothing
    /\ UNCHANGED <<hash, count, at, resizeVars, result>>
-----------------------------------------------------------------------------
(* hashmap_new.                                                            *)
MapInit ==
    /\ hash \in [Keys -> HashValues]
    /\ slots = [n \in 0..MinBuckets-1 |-> Free]
    /\ count = 0 /\ op = "idle" /\ at = 0
    /\ hand = Nothing /\ item = Nothing /\ old = <<>> /\ moved = 0
    /\ result = NoValue

(* The start of a resize: the entries leave for an array of another size.  *)
Resize(n) ==
    /\ n <= MaxBuckets
    /\ slots' = [m \in 0..n-1 |-> Free]
    /\ old' = slots /\ moved' = 0
    /\ op' = "move" /\ hand' = Nothing /\ at' = 0

(* hashmap_set, which makes room first.                                    *)
Set(k, v) ==
    /\ op = "idle"
    /\ \/ /\ count < growat
          /\ op' = "set" /\ hand' = Entry(k, v) /\ at' = home(k)
          /\ UNCHANGED <<slots, resizeVars>>
       \/ /\ count >= growat
          /\ Resize(2 * nbuckets)
          /\ item' = Entry(k, v)
    /\ UNCHANGED <<hash, count, result>>

(* Without memory for that nothing is inserted.  What is returned is what  *)
(* a new key returns, and storage_put_value does not ask hashmap_oom.      *)
SetOutOfMemory ==
    /\ op = "idle" /\ count >= growat
    /\ op' = "refused"
    /\ UNCHANGED <<hash, slots, count, hand, at, resizeVars, result>>

ReturnOutOfMemory ==
    /\ op = "refused"
    /\ op' = "idle"
    /\ UNCHANGED <<hash, slots, count, hand, at, resizeVars, result>>

(* resize0 goes on with the next slot of the old array,                    *)
MoveNext ==
    /\ op = "move" /\ hand = Nothing /\ moved \in DOMAIN old
    /\ moved' = moved + 1
    /\ IF old[moved].dib > 0
       THEN /\ hand' = [old[moved] EXCEPT !.dib = 1]
            /\ at' = home(old[moved].key)
       ELSE UNCHANGED <<hand, at>>
    /\ UNCHANGED <<hash, slots, count, op, old, item, result>>

(* or gives it back; a set that made room then inserts.                    *)
EndOfMove ==
    /\ op = "move" /\ hand = Nothing /\ moved \notin DOMAIN old
    /\ IF item # Nothing
       THEN op' = "set" /\ hand' = item /\ at' = home(item.key)
       ELSE op' = "idle" /\ UNCHANGED <<hand, at>>
    /\ old' = <<>> /\ moved' = 0 /\ item' = Nothing
    /\ UNCHANGED <<hash, slots, count, result>>

(* The loop that places an entry, of a set or of a resize: into a free     *)
(* slot, or over the old value of its key,                                 *)
Place ==
    /\ op \in {"set", "move"} /\ hand # Nothing
    /\ slots[at].dib = 0
    /\ slots' = [slots EXCEPT ![at] = hand]
    /\ count' = IF op = "set" THEN count + 1 ELSE count
    /\ op' = IF op = "set" THEN "idle" ELSE op
    /\ hand' = Nothing
    /\ UNCHANGED <<hash, at, resizeVars, result>>

Replace ==
    /\ op = "set" /\ slots[at].dib > 0
    /\ slots[at].key = hand.key
    /\ slots' = [slots EXCEPT ![at].value = hand.value]
    /\ op' = "idle" /\ hand' = Nothing
    /\ UNCHANGED <<hash, count, at, resizeVars, result>>

(* or past a slot, in exchange for an entry that is closer to its home.    *)
GoOn ==
    /\ op \in {"set", "move"} /\ hand # Nothing
    /\ slots[at].dib > 0
    /\ op = "set" => slots[at].key # hand.key
    /\ IF slots[at].dib < hand.dib
       THEN /\ slots' = [slots EXCEPT ![at] = hand]
            /\ hand' = [slots[at] EXCEPT !.dib = @ + 1]
       ELSE hand' = [hand EXCEPT !.dib = @ + 1] /\ UNCHANGED slots
    /\ at' = after(at)
    /\ UNCHANGED <<hash, count, op, resizeVars, result>>

(* hashmap_get and hashmap_delete look for a key up to a free slot.        *)
Search(k, what) ==
    /\ op = "idle"
    /\ op' = what /\ hand' = Entry(k, NoValue) /\ at' = home(k)
    /\ UNCHANGED <<hash, slots, count, resizeVars, result>>

SearchOn ==
    /\ op \in {"get", "delete"}
    /\ slots[at].dib > 0 /\ slots[at].key # hand.key
    /\ at' = after(at)
    /\ UNCHANGED <<hash, slots, count, op, hand, resizeVars, result>>

Get ==
    /\ op = "get"
    /\ \/ slots[at].dib = 0 /\ result' = NoValue
       \/ /\ slots[at].dib > 0 /\ slots[at].key = hand.key
          /\ result' = slots[at].value
    /\ op' = "idle" /\ hand' = Nothing
    /\ UNCHANGED <<hash, slots, count, at, resizeVars>>

DeleteNothing ==
    /\ op = "delete" /\ slots[at].dib = 0
    /\ op' = "idle" /\ hand' = Nothing
    /\ UNCHANGED <<hash, slots, count, at, resizeVars, result>>

Delete ==
    /\ op = "delete" /\ slots[at].dib > 0 /\ slots[at].key = hand.key
    /\ slots' = [slots EXCEPT ![at] = Free]
    /\ op' = "shift" /\ hand' = Nothing /\ at' = after(at)
    /\ UNCHANGED <<hash, count, resizeVars, result>>

(* The entries that follow move one slot towards their homes, up to one    *)
(* that is at home,                                                        *)
Shift ==
    /\ op = "shift" /\ slots[at].dib > 1
    /\ slots' = [slots EXCEPT ![(at - 1) % nbuckets] =
                                  [slots[at] EXCEPT !.dib = @ - 1]]
    /\ at' = after(at)
    /\ UNCHANGED <<hash, count, op, hand, resizeVars, result>>

(* where the slot before it becomes free.  An array that has grown and is  *)
(* all but empty is given up for a smaller one, memory permitting.         *)
EndOfShift ==
    /\ op = "shift" /\ slots[at].dib <= 1
    /\ LET freed == [slots EXCEPT ![(at - 1) % nbuckets] = Free]
       IN  /\ slots' = freed
           /\ op' = IF nbuckets > MinBuckets /\ count - 1 <= shrinkat
                    THEN "shrink" ELSE "idle"
    /\ count' = count - 1
    /\ UNCHANGED <<hash, hand, at, resizeVars, result>>

Shrink ==
    /\ op = "shrink"
    /\ \/ Resize(nbuckets \div 2)
       \/ op' = "idle" /\ UNCHANGED <<slots, old, moved, hand, at>>
    /\ UNCHANGED <<hash, count, item, result>>
-----------------------------------------------------------------------------
MapStep ==
    \/ MoveNext \/ EndOfMove \/ Place \/ Replace \/ GoOn
    \/ SearchOn \/ Get \/ DeleteNothing \/ Delete
    \/ Shift \/ EndOfShift \/ Shrink \/ ReturnOutOfMemory

MapNext ==
    \/ \E k \in Keys, v \in Values : Set(k, v)
    \/ SetOutOfMemory
    \/ \E k \in Keys, what \in {"get", "delete"} : Search(k, what)
    \/ MapStep

MapSpec == MapInit /\ [][MapNext]_mapVars

MapFairSpec == MapSpec /\ WF_mapVars(MapStep)
-----------------------------------------------------------------------------
Full == [key : Keys, value : Values \cup {NoValue}, dib : Nat \ {0}]

MapTypeOK ==
    /\ hash \in [Keys -> HashValues]
    /\ slots \in [0..nbuckets-1 -> {Free} \cup Full]
    /\ nbuckets \in MinBuckets..MaxBuckets
    /\ count \in Nat
    /\ op \in {"idle", "set", "move", "get", "delete", "shift", "shrink",
               "refused"}
    /\ hand \in {Nothing} \cup Full /\ item \in {Nothing} \cup Full
    /\ at \in DOMAIN slots
    /\ old = <<>> \/ \E n \in MinBuckets..MaxBuckets :
                         old \in [0..n-1 -> {Free} \cup Full]
    /\ moved \in Nat

Taken == {n \in DOMAIN slots : slots[n].dib > 0}

(* Between calls every entry is where a search from its home meets it      *)
(* before a free slot, no key is there twice, dib tells the distance, and  *)
(* count the entries: whatever was exchanged, shifted back or moved to     *)
(* another array, and however the hashes collide.                          *)
MapSound ==
    /\ MapTypeOK
    /\ op \in {"idle", "get", "refused"} =>
           /\ count = Cardinality(Taken) /\ count < nbuckets
           /\ \A m, n \in Taken : slots[m].key = slots[n].key => m = n
           /\ \A n \in Taken :
                  /\ slots[n].dib = ((n - home(slots[n].key)) % nbuckets) + 1
                  /\ LET before == (n - 1) % nbuckets
                     IN  slots[n].dib > 1 =>
                             slots[before].dib >= slots[n].dib - 1

(* Every call returns: the loops have no bound but a free slot.            *)
MapCallsReturn == op # "idle" ~> op = "idle"
-----------------------------------------------------------------------------
(* Of the old array, what is not moved yet.                                *)
Left == {n \in DOMAIN old : n >= moved /\ old[n].dib > 0}

(* The contents of the map while a call goes on: what it is about to       *)
(* insert, then the entry in hand, then what is in the arrays.             *)
Inserting == {item} \ {Nothing}

InHand == {e \in {hand} \ {Nothing} : op \in {"set", "move"}}

InArrays == {slots[n] : n \in Taken} \cup {old[n] : n \in Left}

Of(E, k) == {e \in E : e.key = k}

Current(k) ==
    IF Of(Inserting, k) # {} THEN Of(Inserting, k)
    ELSE IF Of(InHand, k) # {} THEN Of(InHand, k)
    ELSE Of(InArrays, k)

held ==
    [k \in {e.key : e \in Inserting \cup InHand \cup InArrays} |->
        (CHOOSE e \in Current(k) : TRUE).value]

(* The call as its user knows it: which key is searched for, or that what  *)
(* it does to the contents is done.                                        *)
calling ==
    CASE op = "idle" -> <<"none">>
      [] op \in {"get", "delete"} -> <<op, hand.key>>
      [] op = "refused" -> <<"refused">>
      [] OTHER -> <<"ending">>

Map == INSTANCE KeyValues WITH contents <- held, call <- calling

(* The program takes it for a map.                                         *)
IsAMap == Map!KeyValuesSpec
=============================================================================
