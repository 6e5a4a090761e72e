---------------------------- MODULE RpcReception ----------------------------
(***************************************************************************)
(* How the network thread takes RPC packets off the connections of peers   *)
(* and what it executes: handle_connected, get_rpc_request and             *)
(* get_http_request of src/network.c, handle_rpc_request of src/rpc.c,     *)
(* recv_all, recv_all_peek and recv_until of src/shared.c.                 *)
(*                                                                         *)
(* A connection carries a stream of packets, which arrives in pieces cut   *)
(* anywhere behind a magic number (SocketTable has one cut in the middle). *)
(* A packet is as long as its header says, and at least a header.  It is   *)
(* made of units: the magic number, one with packet_size and call_type,    *)
(* then the body.  <<c, m, k>> is unit k of packet m of connection c.  The *)
(* thread has one static buffer for all connections; the model ends where  *)
(* bytes are written behind it.  What a request does is in Discovery and   *)
(* Replication, how connections come and go in SocketTable.                *)
(***************************************************************************)
EXTENDS Integers, Sequences, FiniteSets

CONSTANTS
    Conns,
    Streams,              \* what a peer may send: sequences of packets
    MAX_RPC_PACKET_SIZE,
    BUF_SIZE              \* units of the buffer

HEADER == 2               \* units of an RPCMessageHeader

Requests == {"PING", "STORE", "FIND_NODE", "FIND_VALUE", "BROADCAST"}
Responses == {"PING_RESPONSE", "STORE_RESPONSE", "FIND_NODE_RESPONSE",
              "FIND_VALUE_RESPONSE"}

Packets == [call_type : Requests \cup Responses \cup {"UNKNOWN"},
            packet_size : Nat]

(* What a packet takes of its stream.                                      *)
Length(p) == IF p.packet_size < HEADER THEN HEADER ELSE p.packet_size

ASSUME ReceptionAssumption ==
    /\ Conns # {}
    /\ Streams \subseteq Seq(Packets)
    /\ MAX_RPC_PACKET_SIZE \in Nat /\ MAX_RPC_PACKET_SIZE > HEADER
    /\ BUF_SIZE \in Nat /\ BUF_SIZE >= MAX_RPC_PACKET_SIZE

VARIABLES
    stream,        \* connection -> the packets its peer sends
    arrived, read, \* units that have come, and that were taken off
    peer,          \* "open", "closed", "reset", or "gone": the reset was seen
    listed,        \* connections with an entry in sock_array
    buf,           \* position -> unit, Nothing where nothing was written
    pc, at,        \* where the thread is, the connection it serves
    nb_read, ret,  \* of the recv_all or recv_until under way
    executed,      \* history: the requests carried out, and from what
    lost,          \* history: connections of which a header was refused
    flooded        \* history: those of which recv_until filled the buffer

netVars == <<stream, arrived, peer>>
recvVars == <<nb_read, ret>>
historyVars == <<executed, lost, flooded>>
vars == <<netVars, read, listed, buf, pc, at, recvVars, historyVars>>

Nothing == <<>>

(* The units of a stream, each as packet and place in it, in their order.  *)
Units(s) == UNION {{m} \X (1..Length(s[m])) : m \in DOMAIN s}

UpTo(s, u) ==
    {v \in Units(s) : v[1] < u[1] \/ (v[1] = u[1] /\ v[2] <= u[2])}

Layout == [s \in Streams |->
              [p \in 1..Cardinality(Units(s)) |->
                  CHOOSE u \in Units(s) : Cardinality(UpTo(s, u)) = p]]

StreamSize(c) == Len(Layout[stream[c]])

Unit(c, p) == <<c>> \o Layout[stream[c]][p]

Unread(c) == arrived[c] - read[c]

(* The packet a header unit belongs to.                                    *)
PacketOf(u) == stream[u[1]][u[2]]

(* What handle_rpc_request compares packet_size with.                      *)
expected_size(call_type) ==
    CASE call_type = "PING" -> HEADER
      [] call_type = "STORE" -> HEADER + 2
      [] call_type \in {"FIND_NODE", "FIND_VALUE", "BROADCAST"} -> HEADER + 1
      [] OTHER -> 0

IsRequest(p) ==
    p.call_type \in Requests /\ p.packet_size = expected_size(p.call_type)

(* The n units at the head of the stream of c go to buf after offset.      *)
Take(c, n, offset) ==
    /\ read' = [read EXCEPT ![c] = @ + n]
    /\ buf' = [i \in DOMAIN buf |->
                   IF i - offset \in 1..n THEN Unit(c, read[c] + i - offset)
                   ELSE buf[i]]

Smaller(m, n) == IF m < n THEN m ELSE n

(* A size below that of a header leaves a body of less than nothing, which *)
(* is unsigned: more than there is room for.                               *)
Undersized == PacketOf(buf[HEADER]).packet_size < HEADER

(* What the recv_all or recv_until under way is to read.  No RPC contains  *)
(* the end of an HTTP header: recv_until goes on to the end of the buffer. *)
Wanted ==
    CASE pc = "header" -> HEADER
      [] pc = "body" -> IF Undersized THEN BUF_SIZE
                        ELSE PacketOf(buf[HEADER]).packet_size - HEADER
      [] pc = "http" -> BUF_SIZE

(* Where in the buffer the bytes go that are read next.                    *)
Offset == nb_read + (IF pc = "body" THEN HEADER ELSE 0)

(* It ends with everything, at the end of the stream (0), or with an error *)
(* (-1): a reset, which the socket reports once, or where read refuses to  *)
(* be asked for more than SSIZE_MAX bytes, as Linux does and POSIX allows. *)
RecvEnds(result) ==
    \/ /\ pc = "body" /\ Undersized /\ nb_read = 0
       /\ result = -1 /\ UNCHANGED peer
    \/ nb_read = Wanted /\ result = ret /\ UNCHANGED peer
    \/ /\ nb_read < Wanted /\ Unread(at) = 0
       /\ \/ peer[at] \in {"closed", "gone"} /\ result = 0 /\ UNCHANGED peer
          \/ /\ peer[at] = "reset" /\ result = -1
             /\ peer' = [peer EXCEPT ![at] = "gone"]
-----------------------------------------------------------------------------
(* Plausible slips in the definitions below, for the mutation checks.      *)

Recv_once ==
    /\ pc \in {"header", "body", "http"} /\ nb_read < Wanted
    /\ Unread(at) > 0
    /\ LET n == Smaller(Wanted - nb_read, Unread(at))
       IN  /\ Take(at, n, Offset)
           /\ nb_read' = Wanted
           /\ ret' = n
           /\ pc' = IF Offset + n > BUF_SIZE THEN "overrun" ELSE pc
    /\ UNCHANGED <<netVars, listed, at, historyVars>>

HeaderRead_testing_the_sign ==
    /\ pc = "header"
    /\ \E result \in -1..HEADER :
        /\ RecvEnds(result)
        /\ LET u == buf[HEADER]
               refused == \/ result = -1
                          \/ u = Nothing \/ u[3] # HEADER
                          \/ PacketOf(u).packet_size > MAX_RPC_PACKET_SIZE
           IN  /\ pc' = IF refused THEN "poll" ELSE "body"
               /\ lost' = IF refused THEN lost \cup {at} ELSE lost
    /\ nb_read' = 0 /\ ret' = 0
    /\ UNCHANGED <<stream, arrived, read, listed, buf, at, executed, flooded>>

HeaderRead_refusing_others ==
    /\ pc = "header"
    /\ \E result \in -1..HEADER :
        /\ RecvEnds(result)
        /\ LET u == buf[HEADER]
               refused == \/ result \in 0..HEADER-1
                          \/ u = Nothing \/ u[3] # HEADER
           IN  pc' = IF refused \/ ~IsRequest(PacketOf(u))
                     THEN "poll" ELSE "body"
    /\ nb_read' = 0 /\ ret' = 0
    /\ UNCHANGED <<stream, arrived, read, listed, buf, at, historyVars>>
-----------------------------------------------------------------------------
Init ==
    /\ stream \in [Conns -> Streams]
    /\ arrived = [c \in Conns |-> 0]
    /\ read = [c \in Conns |-> 0]
    /\ peer = [c \in Conns |-> "open"]
    /\ listed = Conns
    /\ buf = [i \in 1..BUF_SIZE |-> Nothing]
    /\ pc = "poll"
    /\ at = CHOOSE c \in Conns : TRUE
    /\ nb_read = 0 /\ ret = 0
    /\ executed = <<>> /\ lost = {} /\ flooded = {}

(* What peers and the network do.                                          *)

Arrive(c) ==
    /\ peer[c] = "open"
    /\ \E n \in arrived[c]+1..StreamSize(c) :
           arrived' = [arrived EXCEPT ![c] = n]
    /\ UNCHANGED <<stream, peer, read, listed, buf, pc, at, recvVars,
                   historyVars>>

(* The peer closes or dies, with its packets sent or in the middle of one. *)
Leave(c) ==
    /\ peer[c] = "open"
    /\ \E how \in {"closed", "reset"} : peer' = [peer EXCEPT ![c] = how]
    /\ UNCHANGED <<stream, arrived, read, listed, buf, pc, at, recvVars,
                   historyVars>>
-----------------------------------------------------------------------------
(* handle_connected takes connections that poll reported, one after the    *)
(* other.                                                                  *)

(* POLLHUP, when poll has seen the reset, or nothing to peek at and the    *)
(* peer gone.  What has arrived before the reset is not read.              *)
CloseEntry(c) ==
    /\ pc = "poll" /\ c \in listed
    /\ \/ peer[c] \in {"reset", "gone"}
       \/ peer[c] = "closed" /\ Unread(c) = 0
    /\ listed' = listed \ {c}
    /\ UNCHANGED <<netVars, read, buf, pc, at, recvVars, historyVars>>

(* The magic number tells an RPC from HTTP.                                *)
Peek(c) ==
    /\ pc = "poll" /\ c \in listed /\ Unread(c) > 0
    /\ at' = c
    /\ nb_read' = 0 /\ ret' = 0
    /\ pc' = IF Unit(c, read[c] + 1)[3] = 1 THEN "header" ELSE "http"
    /\ UNCHANGED <<netVars, read, listed, buf, historyVars>>

(* One read of recv_all or recv_until.  Bytes that do not fit are written  *)
(* behind the buffer, and of what follows nothing is said.                 *)
Recv ==
    /\ pc \in {"header", "body", "http"} /\ nb_read < Wanted
    /\ Unread(at) > 0
    /\ LET n == Smaller(Wanted - nb_read, Unread(at))
       IN  /\ Take(at, n, Offset)
           /\ nb_read' = nb_read + n
           /\ ret' = n
           /\ pc' = IF Offset + n > BUF_SIZE THEN "overrun" ELSE pc
    /\ UNCHANGED <<netVars, listed, at, historyVars>>

(* A header of which the last read brought less than all is refused; a     *)
(* result of -1 compared with an unsigned size is not, and the buffer has  *)
(* the header of whatever was received before.  A size is not compared     *)
(* with that of a header.                                                  *)
HeaderRead ==
    /\ pc = "header"
    /\ \E result \in -1..HEADER :
        /\ RecvEnds(result)
        /\ LET u == buf[HEADER]
               refused == \/ result \in 0..HEADER-1
                          \/ u = Nothing \/ u[3] # HEADER
                          \/ PacketOf(u).packet_size > MAX_RPC_PACKET_SIZE
           IN  /\ pc' = IF refused THEN "poll" ELSE "body"
               /\ lost' = IF refused THEN lost \cup {at} ELSE lost
    /\ nb_read' = 0 /\ ret' = 0
    /\ UNCHANGED <<stream, arrived, read, listed, buf, at, executed, flooded>>

(* handle_rpc_request: a request of the expected size is carried out with  *)
(* what the buffer holds, the end of the stream being no error.            *)
BodyRead ==
    /\ pc = "body"
    /\ \E result \in -1..MAX_RPC_PACKET_SIZE :
        /\ RecvEnds(result)
        /\ LET u == buf[HEADER]
               p == PacketOf(u)
               request == [on |-> at, from |-> <<u[1], u[2]>>,
                           whole |-> \A k \in 1..p.packet_size :
                                         buf[k] = <<u[1], u[2], k>>]
           IN  executed' = IF result # -1 /\ IsRequest(p)
                           THEN Append(executed, request) ELSE executed
    /\ pc' = "poll"
    /\ nb_read' = 0 /\ ret' = 0
    /\ UNCHANGED <<stream, arrived, read, listed, buf, at, lost, flooded>>

(* recv_until found no end of an HTTP header: the bytes are answered with  *)
(* an error, or with nothing, and what comes behind a full buffer may be a *)
(* packet again.                                                           *)
HttpRead ==
    /\ pc = "http"
    /\ \E result \in -1..BUF_SIZE : RecvEnds(result)
    /\ flooded' = IF nb_read = BUF_SIZE THEN flooded \cup {at} ELSE flooded
    /\ pc' = "poll"
    /\ nb_read' = 0 /\ ret' = 0
    /\ UNCHANGED <<stream, arrived, read, listed, buf, at, executed, lost>>
-----------------------------------------------------------------------------
Thread ==
    \/ \E c \in Conns : CloseEntry(c) \/ Peek(c)
    \/ Recv \/ HeaderRead \/ BodyRead \/ HttpRead

Next ==
    \/ \E c \in Conns : Arrive(c) \/ Leave(c)
    \/ Thread

Spec == Init /\ [][Next]_vars

(* The thread runs, and no peer keeps a connection open for ever.          *)
FairSpec ==
    /\ Spec
    /\ WF_vars(Thread)
    /\ \A c \in Conns : WF_vars(Leave(c))
-----------------------------------------------------------------------------
ReceptionTypeOK ==
    /\ stream \in [Conns -> Streams]
    /\ arrived \in [Conns -> Nat] /\ read \in [Conns -> Nat]
    /\ \A c \in Conns : /\ arrived[c] \in 0..StreamSize(c)
                        /\ read[c] \in 0..arrived[c]
    /\ peer \in [Conns -> {"open", "closed", "reset", "gone"}]
    /\ listed \subseteq Conns /\ at \in Conns
    /\ lost \subseteq Conns /\ flooded \subseteq lost
    /\ \A i \in DOMAIN buf :
           buf[i] # Nothing =>
               LET u == buf[i]
               IN  /\ u[1] \in Conns /\ u[2] \in DOMAIN stream[u[1]]
                   /\ u[3] \in 1..Length(PacketOf(u))
    /\ pc \in {"poll", "header", "body", "http", "overrun"}
    /\ nb_read \in Nat /\ ret \in 0..nb_read
    /\ \A i \in DOMAIN executed : executed[i].on \in Conns

(* A packet without a body, refused, or what recv_until then read.         *)
MayBeLeftOut(c, n) ==
    /\ c \in lost
    /\ stream[c][n].packet_size = HEADER \/ c \in flooded

(* However the stream of a connection is cut into pieces, and whatever     *)
(* other connections put into the shared buffer meanwhile: until a read of *)
(* it fails, what is carried out for it are requests of its peer, each once*)
(* and in order.  None is left out before another, except where a header   *)
(* was refused: one without a body, whose header came in pieces, or, when  *)
(* recv_until has filled the buffer, what it read.  Any other such packet  *)
(* puts an end to what is carried out for the connection.                  *)
ExecutedInOrder ==
    \A i \in DOMAIN executed :
        LET c == executed[i].on
            m == executed[i].from[2]
        IN  peer[c] # "gone" =>
                /\ executed[i].from[1] = c /\ IsRequest(stream[c][m])
                /\ \A j \in 1..i-1 :
                       executed[j].on = c => executed[j].from[2] < m
                /\ \A n \in 1..m-1 : IsRequest(stream[c][n]) =>
                       \/ \E j \in 1..i-1 : /\ executed[j].on = c
                                            /\ executed[j].from = <<c, n>>
                       \/ MayBeLeftOut(c, n)

(* A request is carried out with other bytes than its peer's, those left   *)
(* in the buffer by an earlier packet, only if the peer is gone, and as    *)
(* the last one of its connection.                                         *)
TornOnlyAtTheEnd ==
    /\ ReceptionTypeOK
    /\ \A i \in DOMAIN executed : ~executed[i].whole =>
           /\ peer[executed[i].on] # "open"
           /\ \A j \in i+1..Len(executed) : executed[j].on # executed[i].on

(* A request that has arrived is carried out at last, whatever the peers   *)
(* of other connections do short of having the buffer overrun, unless a    *)
(* header before it came in pieces or had a size too large or too small,   *)
(* or a reset came first.  README.md:61 has downloads rely on the answers  *)
(* of other nodes.                                                         *)
ArrivedAreServed ==
    <>[](pc = "overrun" \/ \A c \in Conns : \A p \in 1..arrived[c] :
            LET m == Unit(c, p)[2]
            IN  (/\ IsRequest(stream[c][m])
                 /\ Unit(c, p)[3] = stream[c][m].packet_size)
                => \/ \E i \in DOMAIN executed : executed[i].from = <<c, m>>
                   \/ c \in lost \/ peer[c] \in {"reset", "gone"}
                   \/ \E n \in 1..m-1 : stream[c][n].packet_size < HEADER)
=============================================================================
