--------------------------- MODULE MCSocketTable ----------------------------
(***************************************************************************)
(* Instances of SocketTable for TLC.                                       *)
(***************************************************************************)
EXTENDS SocketTable

CONSTANTS c1, c2, c3

MCThree == {c1, c2, c3}

MCRpc == {c1}
=============================================================================
