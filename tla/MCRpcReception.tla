--------------------------- MODULE MCRpcReception ---------------------------
(***************************************************************************)
(* Instances of RpcReception for TLC.                                      *)
(***************************************************************************)
EXTENDS RpcReception

CONSTANTS c1, c2

MCTwo == {c1, c2}

Packet(type, size) == [call_type |-> type, packet_size |-> size]

PING == Packet("PING", HEADER)
FIND == Packet("FIND_VALUE", HEADER + 1)
STORE == Packet("STORE", HEADER + 2)

(* A STORE of a program built with another K_VALUE, and a packet larger    *)
(* than any of ours.  An answer nobody asked for is treated as the former. *)
OTHER_STORE == Packet("STORE", HEADER + 1)
LARGE == Packet("FIND_NODE_RESPONSE", HEADER + 3)

(* A header alone, with a size of none.                                    *)
SHORT == Packet("PING", HEADER - 1)

(* When the header of the STORE comes in pieces, the rest of it and a PING *)
(* fill a buffer of 4, and the other PING is in step again; a FIND behind  *)
(* a SHORT overruns it.                                                    *)
MCStreams ==
    {<<STORE, PING, PING>>, <<OTHER_STORE, PING>>, <<LARGE>>, <<SHORT, FIND>>}
=============================================================================
