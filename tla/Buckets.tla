------------------------------ MODULE Buckets -------------------------------
(***************************************************************************)
(* The table of known peers of one node: src/bucket.c and the list         *)
(* functions of src/list.c that it calls.                                  *)
(*                                                                         *)
(* A peer is represented by its identifier; its address and public key     *)
(* travel with it and no decision depends on them.  NULL, which            *)
(* find_closest_peers returns when it has nobody to return, is <<>>.       *)
(***************************************************************************)
EXTENDS Hash, SequencesExt

CONSTANTS
    BUCKET_COUNT,   \* buckets in the table: 8
    K_VALUE,        \* BUCKET_SIZE, peers in a bucket: 4
    own_id,         \* what get_own_id returns
    Peers           \* the identifiers the node may hear of, its own included

ASSUME BucketsAssumption ==
    /\ BUCKET_COUNT \in Nat \ {0}
    /\ K_VALUE \in Nat \ {0}
    /\ own_id \in HashID
    /\ Peers \subseteq HashID

VARIABLES
    buckets,        \* bucket number -> its list of peers, the head first
    damaged         \* memory behind the array has been written over

bucketVars == <<buckets, damaged>>

Buckets == 0..BUCKET_COUNT-1

(* The bucket of an identifier; -1 for our own.  An identifier that shares *)
(* BUCKET_COUNT bits or more with ours has a number past the array.        *)
bucket_index(id) == get_bucket_index(dist_hash(own_id, id))

TablePeers == UNION {ToSet(buckets[b]) : b \in Buckets}
-----------------------------------------------------------------------------
(* Plausible slips in the definitions below, for the mutation checks.      *)

update_without_presence_test(bs, p) ==
    LET b == bucket_index(p)
    IN  IF b \in Buckets /\ Len(bs[b]) < K_VALUE
        THEN [bs EXCEPT ![b] = <<p>> \o @] ELSE bs

update_replacing_last(bs, p) ==
    LET b == bucket_index(p)
    IN  IF b \notin Buckets \/ Contains(bs[b], p) THEN bs
        ELSE IF Len(bs[b]) >= K_VALUE
             THEN [bs EXCEPT ![b] = <<p>> \o Front(@)]
             ELSE [bs EXCEPT ![b] = <<p>> \o @]

find_nearest_keeping_far(list, id, max_neighbors) ==
    LET out[m \in 0..Len(list)] ==
          IF m = 0 THEN <<>>
          ELSE IF Len(out[m-1]) < max_neighbors THEN Append(out[m-1], list[m])
          ELSE [i \in DOMAIN out[m-1] |->
                   IF Closer(out[m-1][i], list[m], id)
                   THEN list[m] ELSE out[m-1][i]]
    IN  out[Len(list)]
-----------------------------------------------------------------------------
(* find_nearest: the list is walked from its head; the first max_neighbors *)
(* peers fill the output, and each later peer then takes the place of      *)
(* EVERY farther one in it: the inner loop has no break.                   *)
find_nearest(list, id, max_neighbors) ==
    LET out[m \in 0..Len(list)] ==
          IF m = 0 THEN <<>>
          ELSE IF Len(out[m-1]) < max_neighbors THEN Append(out[m-1], list[m])
          ELSE [i \in DOMAIN out[m-1] |->
                   IF Closer(list[m], out[m-1][i], id)
                   THEN list[m] ELSE out[m-1][i]]
    IN  out[Len(list)]

(* What is found in bucket i, if there is one, is added to found.  Once n  *)
(* peers are found find_nearest is called with 0 and finds nobody, so the  *)
(* end of the search and its early exit coincide.                          *)
SearchBucket(bs, i, target, n, found) ==
    IF i \in Buckets
    THEN found \o find_nearest(bs[i], target, n - Len(found))
    ELSE found

(* From the target's bucket b outward: b, b-1, b+1, b-2, b+2, ... as far   *)
(* as they exist.  That b itself exists is not looked at.                  *)
find_closest_peers(bs, target, n) ==
    LET b == bucket_index(target)
        result[offset \in Buckets] ==
            IF offset = 0 THEN find_nearest(bs[b], target, n)
            ELSE SearchBucket(bs, b + offset, target, n,
                     SearchBucket(bs, b - offset, target, n, result[offset-1]))
    IN  IF b = -1 THEN <<>> ELSE result[BUCKET_COUNT-1]

(* update_bucket_peers: a new peer goes to the head of its bucket unless   *)
(* it is ourselves, is there already, or the bucket is full.  The index is *)
(* not compared with BUCKET_COUNT.                                         *)
update_bucket_peers(bs, p) ==
    LET b == bucket_index(p)
    IN  IF \/ b \notin Buckets
           \/ Contains(bs[b], p)
           \/ Len(bs[b]) >= K_VALUE
        THEN bs
        ELSE [bs EXCEPT ![b] = <<p>> \o @]
-----------------------------------------------------------------------------
BucketsInit ==
    /\ buckets = [b \in Buckets |-> <<>>]
    /\ damaged = FALSE

(* A peer is heard of: a discovery broadcast, or an entry of a response.   *)
(* With a bucket number past the array the program reads whatever is there *)
(* as a list and either takes the peer for present or the list for full,   *)
(* or writes the new head there.                                           *)
Heard(p) ==
    /\ buckets' = update_bucket_peers(buckets, p)
    /\ damaged' \in IF bucket_index(p) >= BUCKET_COUNT
                    THEN {damaged, TRUE} ELSE {damaged}

(* Nothing is said of the program once memory has been overwritten.        *)
BucketsNext == ~damaged /\ \E p \in Peers : Heard(p)

BucketsSpec == BucketsInit /\ [][BucketsNext]_bucketVars
-----------------------------------------------------------------------------
BucketsTypeOK ==
    /\ buckets \in [Buckets -> Seq(Peers)]
    /\ damaged \in BOOLEAN

(* Every peer sits in the bucket its distance selects, no bucket lists a   *)
(* peer twice or holds more than K_VALUE peers, and our own identifier is  *)
(* nowhere: whatever the order in which broadcasts and responses arrive.   *)
TableSound ==
    \A b \in Buckets :
        /\ Len(buckets[b]) <= K_VALUE
        /\ \A i \in DOMAIN buckets[b] : bucket_index(buckets[b][i]) = b
        /\ \A i, j \in DOMAIN buckets[b] :
               buckets[b][i] = buckets[b][j] => i = j

(* The targets whose bucket exists (for another, the first list read is    *)
(* already outside the array).                                             *)
Targets == {t \in HashID : bucket_index(t) \in Buckets}

(* A search returns as many entries as it can, all from the table, and the *)
(* whole table when that is not larger than the request.  If the target's  *)
(* bucket is not empty, the peer of the whole table that is closest to the *)
(* target is among those found, however few are asked for and whatever     *)
(* find_nearest overwrites.                                                *)
SearchFinds ==
    \A t \in Targets, n \in 1..K_VALUE :
        LET found == find_closest_peers(buckets, t, n)
            known == Cardinality(TablePeers)
        IN  /\ Len(found) = IF n < known THEN n ELSE known
            /\ ToSet(found) \subseteq TablePeers
            /\ known <= n => ToSet(found) = TablePeers
            /\ buckets[bucket_index(t)] # <<>> =>
                   \E p \in ToSet(found) :
                       \A q \in TablePeers \ {p} : Closer(p, q, t)

(* A peer that entered a bucket keeps its place for the node's lifetime:   *)
(* newcomers go in front, nobody is evicted, refreshed or reordered.       *)
OldestKept ==
    [][\A b \in Buckets : IsSuffix(buckets[b], buckets'[b])]_bucketVars
-----------------------------------------------------------------------------
(* src/bucket.c:16, "Returns the bucket to choose for this distance": the  *)
(* number is one of a bucket, so the table's memory is all that changes.   *)
OnlyTheTableWritten == ~damaged
=============================================================================
