---------------------------- MODULE MCDiscovery -----------------------------
(***************************************************************************)
(* Instances of Buckets and Discovery for TLC.  Identifiers have four bits *)
(* and ours is 1010.  At(n) is the identifier at distance n from ours, so  *)
(* At(8..15) belong to bucket 0, At(4..7) to 1, At(2..3) to 2 and At(1) to *)
(* 3.                                                                      *)
(***************************************************************************)
EXTENDS Discovery

MCBit == 0..3

MCOwnId == [i \in MCBit |-> IF i \in {0, 2} THEN 1 ELSE 0]

At(n) == [i \in MCBit |-> (MCOwnId[i] + n \div 2^(3 - i)) % 2]

(* Three peers for a bucket of two, one for each of the others, and one    *)
(* past the end of a table of three buckets.                               *)
MCPeers == {At(n) : n \in {1, 2, 4, 8, 9, 12}}
=============================================================================
