---------------------------- MODULE SocketTable -----------------------------
(***************************************************************************)
(* The rounds of the network thread over its array of sockets: poll,       *)
(* handle_incoming, handle_connected and stop_network of src/network.c,    *)
(* while peers connect, send and close as they like.                       *)
(*                                                                         *)
(* A connection carries one message, an RPC request or an HTTP request;    *)
(* how several follow each other on a connection is in RpcReception, what  *)
(* serving one does in Discovery, Replication and Transfer, and so is the  *)
(* broadcast socket, entry 1.  A peer is named by its connection, and so   *)
(* is the descriptor that accept returns for it.                           *)
(***************************************************************************)
EXTENDS Integers, Sequences, FiniteSets

CONSTANTS
    Conns,            \* connections that peers may open
    RpcConns,         \* those with an RPC request, the others use HTTP
    NoFd,             \* the -1 of a free entry
    MAX_SOCK,         \* entries of the array: 128, two for the node's own
    MAX_WAIT_CON      \* accepted by the kernel, not yet by us: 5

ASSUME SocketAssumption ==
    /\ NoFd \notin Conns /\ RpcConns \subseteq Conns
    /\ MAX_SOCK \in Nat /\ MAX_SOCK > 2
    /\ MAX_WAIT_CON \in Nat \ {0}

VARIABLES
    sock_array,       \* entry -> descriptor (entries from 2 on)
    ready,            \* revents: the entries poll found ready
    hung_up,          \* those with POLLHUP
    fds,              \* the descriptors of connections the process has open
    backlog,          \* connections the kernel has queued
    peer,             \* connection -> "away", "connected" or "closed"
    arrived,          \* unread at our side: "nothing", "piece" or "all"
    served,           \* how the message was handled: "no", "rpc" or "http"
    pc, k,            \* where the thread is; the entry it is at
    thread_running

tableVars == <<sock_array, fds>>
pollVars == <<ready, hung_up>>
controlVars == <<pc, k, thread_running>>
vars == <<tableVars, pollVars, backlog, peer, arrived, served, controlVars>>

Entries == 2..MAX_SOCK-1

Free == {e \in Entries : sock_array[e] = NoFd}

At(e) == sock_array[e]

message(c) == IF c \in RpcConns THEN "rpc" ELSE "http"
-----------------------------------------------------------------------------
(* Plausible slips in the definitions below, for the mutation checks.      *)

Accept_last_entry ==
    /\ pc = "incoming" /\ 0 \in ready /\ Free # {}
    /\ LET c == Head(backlog)
       IN  /\ sock_array' = [sock_array EXCEPT ![MAX_SOCK - 1] = c]
           /\ fds' = fds \cup {c}
    /\ backlog' = Tail(backlog)
    /\ pc' = "connected"
    /\ UNCHANGED <<pollVars, peer, arrived, served, k, thread_running>>

HangUp_keeping_entry ==
    /\ pc = "connected" /\ k \in Entries /\ k \in hung_up
    /\ fds' = fds \ {At(k)}
    /\ k' = k + 1
    /\ UNCHANGED <<sock_array, pollVars, backlog, peer, arrived, served, pc,
                   thread_running>>

ServeWhole_closing ==
    /\ pc = "connected" /\ k \in Entries /\ k \in ready \ hung_up
    /\ arrived[At(k)] = "all"
    /\ served' = [served EXCEPT ![At(k)] = message(At(k))]
    /\ arrived' = [arrived EXCEPT ![At(k)] = "nothing"]
    /\ sock_array' = [sock_array EXCEPT ![k] = NoFd]
    /\ fds' = fds \ {At(k)}
    /\ k' = k + 1
    /\ UNCHANGED <<pollVars, backlog, peer, pc, thread_running>>

Resume_when_whole ==
    /\ pc = "stuck"
    /\ message(At(k)) = "http" /\ arrived[At(k)] = "all"
    /\ served' = [served EXCEPT ![At(k)] = "http"]
    /\ arrived' = [arrived EXCEPT ![At(k)] = "nothing"]
    /\ pc' = "connected"
    /\ k' = k + 1
    /\ UNCHANGED <<tableVars, pollVars, backlog, peer, thread_running>>

-----------------------------------------------------------------------------
Init ==
    /\ sock_array = [e \in Entries |-> NoFd]
    /\ ready = {} /\ hung_up = {} /\ fds = {} /\ backlog = <<>>
    /\ peer = [c \in Conns |-> "away"]
    /\ arrived = [c \in Conns |-> "nothing"]
    /\ served = [c \in Conns |-> "no"]
    /\ pc = "poll" /\ k = 2
    /\ thread_running = TRUE

(* What peers do.                                                          *)

Connect(c) ==
    /\ peer[c] = "away" /\ Len(backlog) < MAX_WAIT_CON
    /\ peer' = [peer EXCEPT ![c] = "connected"]
    /\ backlog' = Append(backlog, c)
    /\ UNCHANGED <<tableVars, pollVars, arrived, served, controlVars>>

(* The message arrives at once, or a piece of it first: less than the four *)
(* bytes of the magic number, for an RPC.                                  *)
Deliver(c) ==
    /\ peer[c] = "connected" /\ served[c] = "no" /\ arrived[c] # "all"
    /\ \E part \in {"piece", "all"} \ {arrived[c]} :
           arrived' = [arrived EXCEPT ![c] = part]
    /\ UNCHANGED <<tableVars, pollVars, backlog, peer, served, controlVars>>

PeerCloses(c) ==
    /\ peer[c] = "connected"
    /\ peer' = [peer EXCEPT ![c] = "closed"]
    /\ UNCHANGED <<tableVars, pollVars, backlog, arrived, served,
                   controlVars>>
-----------------------------------------------------------------------------
(* What the thread does: update_client's test and poll begin a round.      *)

(* A connection is readable with unread bytes or at its end.  After a      *)
(* close by the peer poll may report POLLHUP, too (a reset).               *)
Poll ==
    /\ pc = "poll" /\ thread_running
    /\ ready' = {e \in Entries : /\ At(e) # NoFd
                                 /\ \/ arrived[At(e)] # "nothing"
                                    \/ peer[At(e)] = "closed"}
                \cup {e \in {0} : backlog # <<>>}
    /\ hung_up' \in SUBSET {e \in Entries : /\ At(e) # NoFd
                                            /\ peer[At(e)] = "closed"}
    /\ pc' = "incoming"
    /\ UNCHANGED <<tableVars, backlog, peer, arrived, served, k,
                   thread_running>>

(* handle_incoming, the listening socket: the new connection goes to the   *)
(* first free entry.                                                       *)
Accept ==
    /\ pc = "incoming" /\ 0 \in ready
    /\ \E i \in Free :
           /\ \A e \in Free : i <= e
           /\ sock_array' = [sock_array EXCEPT ![i] = Head(backlog)]
    /\ fds' = fds \cup {Head(backlog)}
    /\ backlog' = Tail(backlog)
    /\ pc' = "connected"
    /\ UNCHANGED <<pollVars, peer, arrived, served, k, thread_running>>

(* With no entry free the search reads on behind the array, and nothing    *)
(* more is said of the thread.                                             *)
AcceptWhenFull ==
    /\ pc = "incoming" /\ 0 \in ready /\ Free = {}
    /\ backlog' = Tail(backlog)
    /\ pc' = "overrun"
    /\ UNCHANGED <<tableVars, pollVars, peer, arrived, served, k,
                   thread_running>>

(* Nobody to accept, or accept fails.                                      *)
NoAccept ==
    /\ pc = "incoming"
    /\ pc' = "connected"
    /\ UNCHANGED <<tableVars, pollVars, backlog, peer, arrived, served, k,
                   thread_running>>

(* handle_connected, one entry after the other.                            *)
AtEntry == pc = "connected" /\ k \in Entries

CloseEntry(c) ==
    /\ sock_array' = [sock_array EXCEPT ![k] = NoFd]
    /\ fds' = fds \ {c}
    /\ k' = k + 1

HangUp ==
    /\ AtEntry /\ k \in hung_up
    /\ CloseEntry(At(k))
    /\ UNCHANGED <<pollVars, backlog, peer, arrived, served, pc,
                   thread_running>>

SkipEntry ==
    /\ AtEntry /\ k \notin ready /\ k \notin hung_up
    /\ k' = k + 1
    /\ UNCHANGED <<tableVars, pollVars, backlog, peer, arrived, served, pc,
                   thread_running>>

EndOfFile ==
    /\ AtEntry /\ k \in ready \ hung_up
    /\ arrived[At(k)] = "nothing"
    /\ CloseEntry(At(k))
    /\ UNCHANGED <<pollVars, backlog, peer, arrived, served, pc,
                   thread_running>>

(* The whole message is there: it is dispatched by its first four bytes,   *)
(* answered, and the connection is left open.                              *)
ServeWhole ==
    /\ AtEntry /\ k \in ready \ hung_up
    /\ arrived[At(k)] = "all"
    /\ served' = [served EXCEPT ![At(k)] = message(At(k))]
    /\ arrived' = [arrived EXCEPT ![At(k)] = "nothing"]
    /\ k' = k + 1
    /\ UNCHANGED <<tableVars, pollVars, backlog, peer, pc, thread_running>>

(* A piece of a message: recv_all_peek sees the same bytes again instead   *)
(* of the following ones, so the magic number is not recognised and        *)
(* get_http_request waits for the end of an HTTP header.                   *)
StartPiece ==
    /\ AtEntry /\ k \in ready \ hung_up
    /\ arrived[At(k)] = "piece"
    /\ pc' = "stuck"
    /\ UNCHANGED <<tableVars, pollVars, backlog, peer, arrived, served, k,
                   thread_running>>

(* recv_until returns when the header's end arrives, which an RPC does not *)
(* have, or when the peer closes.                                          *)
Resume ==
    /\ pc = "stuck"
    /\ \/ message(At(k)) = "http" /\ arrived[At(k)] = "all"
       \/ peer[At(k)] = "closed"
    /\ served' = [served EXCEPT ![At(k)] = "http"]
    /\ arrived' = [arrived EXCEPT ![At(k)] = "nothing"]
    /\ pc' = "connected"
    /\ k' = k + 1
    /\ UNCHANGED <<tableVars, pollVars, backlog, peer, thread_running>>

(* handle_tasks, which is in Discovery, changes nothing here.              *)
EndOfRound ==
    /\ pc = "connected" /\ k = MAX_SOCK
    /\ pc' = "poll"
    /\ k' = 2
    /\ UNCHANGED <<tableVars, pollVars, backlog, peer, arrived, served,
                   thread_running>>

RequestStop ==
    /\ thread_running
    /\ thread_running' = FALSE
    /\ UNCHANGED <<tableVars, pollVars, backlog, peer, arrived, served, pc,
                   k>>

(* stop_network closes the entries up to the first free one, and leaves    *)
(* the array as it is.                                                     *)
Stop ==
    /\ pc = "poll" /\ ~thread_running
    /\ fds' = fds \ {At(e) : e \in {f \in Entries : \A g \in Free : f < g}}
    /\ pc' = "stopped"
    /\ UNCHANGED <<sock_array, pollVars, backlog, peer, arrived, served, k,
                   thread_running>>
-----------------------------------------------------------------------------
PeerStep ==
    \/ \E c \in Conns : Connect(c) \/ Deliver(c) \/ PeerCloses(c)

Round ==
    \/ Poll
    \/ Accept \/ AcceptWhenFull \/ NoAccept
    \/ HangUp \/ SkipEntry \/ EndOfFile \/ ServeWhole \/ StartPiece \/ Resume
    \/ EndOfRound
    \/ Stop

Next == PeerStep \/ Round \/ RequestStop

Spec == Init /\ [][Next]_vars

(* The thread runs, and no peer keeps a connection open for ever: those    *)
(* opened by connect_to_peer are closed when the caller is done or timed   *)
(* out.                                                                    *)
FairSpec ==
    /\ Spec
    /\ WF_vars(Round)
    /\ \A c \in Conns : WF_vars(PeerCloses(c))
-----------------------------------------------------------------------------
SocketTypeOK ==
    /\ sock_array \in [Entries -> Conns \cup {NoFd}]
    /\ ready \subseteq {0} \cup Entries /\ hung_up \subseteq Entries
    /\ fds \subseteq Conns /\ backlog \in Seq(Conns)
    /\ peer \in [Conns -> {"away", "connected", "closed"}]
    /\ arrived \in [Conns -> {"nothing", "piece", "all"}]
    /\ served \in [Conns -> {"no", "rpc", "http"}]
    /\ pc \in {"poll", "incoming", "connected", "stuck",
               "overrun", "stopped"}
    /\ k \in 2..MAX_SOCK
    /\ thread_running \in BOOLEAN

(* While the thread runs, every open connection has exactly one entry and  *)
(* no entry keeps a descriptor that was closed, which the kernel may have  *)
(* given to another connection since.                                      *)
OpenIsListed ==
    pc # "stopped" =>
        /\ {At(e) : e \in Entries \ Free} = fds
        /\ \A e, f \in Entries \ Free : At(e) = At(f) => e = f

(* Between poll and its turn an entry does not change hands: what poll     *)
(* reported ready is still the connection it was, and has something for    *)
(* the thread to read, or is at its end, however long other entries held   *)
(* the thread up.                                                          *)
ReadyIsReady ==
    pc = "connected" => \A e \in (ready \cap Entries) \ 2..k-1 :
        /\ At(e) # NoFd
        /\ arrived[At(e)] # "nothing" \/ peer[At(e)] = "closed"

(* Only the peer ends a connection.                                        *)
ClosedAfterPeer ==
    [][pc' # "stopped" =>
           \A c \in fds \ fds' : peer[c] = "closed"]_vars

(* A peer that sends half a message delays the others, and no more: the    *)
(* thread gets back to poll, or stops.                                     *)
RoundsGoOn == []<>(pc \in {"poll", "overrun", "stopped"})
=============================================================================
