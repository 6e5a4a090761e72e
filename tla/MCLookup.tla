------------------------------ MODULE MCLookup ------------------------------
(***************************************************************************)
(* Instances of Lookup for TLC: three-bit identifiers, ours is 101.        *)
(* At(n) is the identifier at distance n from ours: At(4..7) belong to     *)
(* bucket 0, At(2..3) to bucket 1, At(1) to bucket 2.                      *)
(***************************************************************************)
EXTENDS Lookup

MCBit == 0..2

MCOwnId == [b \in MCBit |-> IF b = 1 THEN 0 ELSE 1]

At(n) == [b \in MCBit |-> (MCOwnId[b] + n \div 2^(2 - b)) % 2]

(* Three peers of the first bucket, one of the second and ourselves: with  *)
(* K_VALUE = 3 a search from the second bucket has two places for three,   *)
(* and find_nearest repeats the closest.                                   *)
MCPeers == {At(n) : n \in {0, 2, 4, 5, 7}}

(* A hash for each of these buckets; the last is also a node's identifier. *)
MCKeys == {At(n) : n \in {3, 4}}
=============================================================================
