---------------------------- MODULE MCContainers ----------------------------
(***************************************************************************)
(* Instances of the data structures for TLC: VectorSort, HashMap and       *)
(* LinkedList.  They share nothing, so a behaviour uses one of the three.  *)
(***************************************************************************)
EXTENDS VectorSort, HashMap, LinkedList

VARIABLE used

(* Five pointers, two of them at one distance.                             *)
MCElements == 1..5

MCDistance == [e \in MCElements |-> IF e = 5 THEN 2 ELSE e]

(* Hashes that collide in an array of two, of four, and always.            *)
MCHashes == 0..3

ContainersInit ==
    /\ Init /\ MapInit /\ ListInit
    /\ used \in {"vector", "map", "list"}
    /\ used # "vector" => input = <<>>
    /\ used # "map" => \A k \in Keys : hash[k] = 0

Sort == Next /\ UNCHANGED <<mapVars, listVars, used>>

UseMap(step) ==
    used = "map" /\ ~sorting /\ step /\ UNCHANGED <<vars, listVars, used>>

UseList ==
    used = "list" /\ ~sorting /\ ListNext /\ UNCHANGED <<vars, mapVars, used>>

ContainersSpec ==
    /\ ContainersInit
    /\ [][Sort \/ UseMap(MapNext) \/ UseList]_<<vars, mapVars, listVars, used>>
    /\ WF_mapVars(UseMap(MapStep))
=============================================================================
