-------------------------------- MODULE Hash --------------------------------
(***************************************************************************)
(* Identifiers of nodes and files (SHA-256 digests in the program) and the *)
(* XOR distance between them: src/list.c, src/bucket.c.                    *)
(*                                                                         *)
(* An identifier is a function from bit positions to {0, 1}.  Position 0   *)
(* is the most significant bit of byte 0: the program tests the bits of a  *)
(* byte with 0x80 >> bit and numbers them byte * 8 + bit.                  *)
(***************************************************************************)
EXTENDS Integers

CONSTANT IdBits               \* 256 in the program

ASSUME IdBitsAssumption == IdBits \in Nat \ {0}

Bit == 0..IdBits-1

HashID == [Bit -> {0, 1}]

dist_hash(id1, id2) == [i \in Bit |-> IF id1[i] = id2[i] THEN 0 ELSE 1]

SetBits(distance) == {i \in Bit : distance[i] = 1}

(* The position of the first bit set, -1 when none is: identifiers at that *)
(* distance are equal.                                                     *)
get_bucket_index(distance) ==
    IF SetBits(distance) = {} THEN -1
    ELSE CHOOSE i \in SetBits(distance) : \A j \in SetBits(distance) : i <= j

(* The program compares byte by byte; as the bits of a byte are numbered   *)
(* from the most significant, the first bit that differs decides.          *)
compare_hashes(dist1, dist2) ==
    LET first == get_bucket_index(dist_hash(dist1, dist2))
    IN  IF first = -1 THEN 0
        ELSE IF dist1[first] < dist2[first] THEN -1 ELSE 1

(* p is strictly closer to target than q.                                  *)
Closer(p, q, target) ==
    compare_hashes(dist_hash(p, target), dist_hash(q, target)) = -1
=============================================================================
