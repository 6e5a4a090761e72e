---------------------------- MODULE Replication -----------------------------
(***************************************************************************)
(* One file in a network of nodes: handle_rpc_upload, handle_rpc_download  *)
(* and the STORE handler of src/rpc.c, the storage of src/storage.c, and   *)
(* who then has a copy and who is listed as an owner.                      *)
(*                                                                         *)
(* A node has one network thread: while it carries out an upload or a      *)
(* download it serves nobody, itself included, and what others send it     *)
(* waits in its sockets.  The lookup is in Lookup; here it yields any list *)
(* of peers, ourselves and repeated ones among them, as it can.  The bytes *)
(* of a transfer are in Transfer; here a PUT that is served brings what    *)
(* its sender has read from its own directory, and of one that was given   *)
(* up before a part or all may lie in the sockets.                         *)
(***************************************************************************)
EXTENDS Integers, Sequences

CONSTANTS
    Nodes,
    K_VALUE,     \* 4 in the program
    Cuts,        \* whether only a part may be left of a PUT given up
    DiskErrors,  \* whether a node may fail to read or write a file
    MaxUploads,  \* bound on the uploads
    MaxStops     \* bound on the times a node stops

ASSUME ReplicationAssumption ==
    /\ K_VALUE \in Nat \ {0}
    /\ Cuts \in BOOLEAN /\ DiskErrors \in BOOLEAN
    /\ MaxUploads \in Nat /\ MaxStops \in Nat

VARIABLES
    up,           \* the node's process runs
    asked,        \* the nodes whose user waits for an upload to begin
    copy,         \* the file in its upload directory: "none", "partial", "whole"
    stored,       \* the owners in its storage, <<>> without an entry
    inbox,        \* what lies in its sockets, not read yet
    pc,           \* its thread: "serve", "put", "await", "store", "get", "own"
    out_peers,    \* the peers of its upload or download
    sends,        \* what its upload has read: "nothing", "part", "whole"
    kv,           \* the owners its upload has gathered
    i,            \* the loop's index into out_peers
    body,         \* of its download: "none", "retrying", "ended"
    spoiled,      \* history: <<p, why>> when p got no file, or not all of it
    uploads, stops

diskVars == <<copy, spoiled, stored>>
threadVars == <<pc, out_peers, sends, kv, i, body>>
countVars == <<uploads, stops, asked>>
vars == <<up, diskVars, inbox, threadVars, countVars>>

(* The file could not be written or read; the process ended in the middle  *)
(* of writing it; a PUT was cut off; a PUT brought all of a part.          *)
Reasons == {"disk", "stop", "cut", "part"}

Lists(n) == UNION {[1..m -> Nodes] : m \in 0..n}

Elems(s) == {s[m] : m \in DOMAIN s}

Put(n, b) == [type |-> "PUT", from |-> n, body |-> b]

(* What may be left in the sockets of a PUT that n gives up.               *)
LeftOf(n) == {sends[n]} \cup (IF Cuts THEN {"cut"} ELSE {})

Abandoned(n, b, messages) ==
    {IF m = Put(n, "open") THEN Put(n, b) ELSE m : m \in messages}
Store(owners) == [type |-> "STORE", owners |-> owners]

Idle(n) == up[n] /\ pc[n] = "serve"

Peer(n) == out_peers[n][i[n]]

More(n) == i[n] \in DOMAIN out_peers[n]
-----------------------------------------------------------------------------
(* Plausible slips in the definitions below, for the mutation checks.      *)

Replicates_K(n) == More(n) /\ i[n] <= K_VALUE

GiveUp_listing(n) ==
    /\ up[n] /\ pc[n] = "await"
    /\ \E b \in LeftOf(n) :
           inbox' = [inbox EXCEPT ![Peer(n)] = Abandoned(n, b, @)]
    /\ pc' = [pc EXCEPT ![n] = "put"]
    /\ kv' = [kv EXCEPT ![n] = Append(@, Peer(n))]
    /\ i' = [i EXCEPT ![n] = @ + 1]
    /\ UNCHANGED <<up, diskVars, out_peers, sends, body, countVars>>

GiveUp_when_down(n) ==
    /\ up[n] /\ pc[n] = "await" /\ ~up[Peer(n)]
    /\ pc' = [pc EXCEPT ![n] = "put"]
    /\ i' = [i EXCEPT ![n] = @ + 1]
    /\ UNCHANGED <<up, diskVars, inbox, out_peers, sends, kv, body, countVars>>

-----------------------------------------------------------------------------
Init ==
    /\ up = [n \in Nodes |-> TRUE]
    /\ copy = [n \in Nodes |-> "none"]
    /\ stored = [n \in Nodes |-> <<>>]
    /\ inbox = [n \in Nodes |-> {}] /\ asked = {}
    /\ pc = [n \in Nodes |-> "serve"]
    /\ out_peers = [n \in Nodes |-> <<>>]
    /\ kv = [n \in Nodes |-> <<>>]
    /\ i = [n \in Nodes |-> 1]
    /\ sends = [n \in Nodes |-> "nothing"] /\ body = [n \in Nodes |-> "none"]
    /\ spoiled = {} /\ uploads = 0 /\ stops = 0

(* A file is replaced by what was received, which may be the whole, or all *)
(* of a part, or what was not cut off; or, with disk errors, by a part of  *)
(* it, or it cannot be created and what was there stays.                   *)
CreateFile(p, what) ==
    \/ /\ copy' = [copy EXCEPT ![p] = IF what = "whole" THEN what ELSE "partial"]
       /\ spoiled' =
              IF what = "whole" THEN spoiled ELSE spoiled \cup {<<p, what>>}
    \/ /\ DiskErrors
       /\ copy' \in {copy, [copy EXCEPT ![p] = "partial"]}
       /\ spoiled' = spoiled \cup {<<p, "disk">>}

(* storage_put_value: the first list stored for the file stays.            *)
storage_put_value(n, owners) ==
    stored' = [stored EXCEPT ![n] = IF @ = <<>> THEN owners ELSE @]

(* cli_upload_file copies the file into the upload directory, and goes on  *)
(* when it cannot; then its command waits for the network thread.          *)
Copy(n) ==
    /\ Idle(n) /\ n \notin asked /\ uploads < MaxUploads
    /\ uploads' = uploads + 1 /\ asked' = asked \cup {n}
    /\ CreateFile(n, "whole")
    /\ UNCHANGED <<up, stored, inbox, threadVars, stops>>

(* What fopen and fread get of the directory's copy by now.  Of a part the *)
(* length may be 0; fread may fail, which nobody looks at.                 *)
ReadsCopy(n) ==
    \/ /\ sends' \in
              {[sends EXCEPT ![n] = what] :
                   what \in CASE copy[n] = "none" -> {"nothing"}
                              [] copy[n] = "partial" -> {"nothing", "part"}
                              [] copy[n] = "whole" -> {"whole"}}
       /\ UNCHANGED spoiled
    \/ /\ DiskErrors /\ copy[n] # "none"
       /\ sends' = [sends EXCEPT ![n] = "part"]
       /\ spoiled' = spoiled \cup {<<n, "disk">>}

(* handle_rpc_upload stores ourselves as the only owner and looks for      *)
(* peers; it gives up when there are none or the file does not open.       *)
Upload(n) ==
    /\ Idle(n) /\ n \in asked
    /\ asked' = asked \ {n}
    /\ storage_put_value(n, <<n>>)
    /\ kv' = [kv EXCEPT ![n] = <<n>>]
    /\ \E peers \in IF copy[n] = "none" THEN {<<>>} ELSE Lists(K_VALUE) :
           out_peers' = [out_peers EXCEPT ![n] = peers]
    /\ ReadsCopy(n)
    /\ i' = [i EXCEPT ![n] = 1]
    /\ pc' = [pc EXCEPT ![n] = "put"]
    /\ UNCHANGED <<up, copy, inbox, body, uploads, stops>>

(* The file goes to the first K_VALUE - 1 of the peers.                    *)
Replicates(n) == More(n) /\ i[n] <= K_VALUE - 1

PutConnects(n) ==
    /\ up[n] /\ pc[n] = "put" /\ Replicates(n)
    /\ up[Peer(n)] /\ sends[n] # "nothing"
    /\ inbox' = [inbox EXCEPT ![Peer(n)] = @ \cup {Put(n, "open")}]
    /\ pc' = [pc EXCEPT ![n] = "await"]
    /\ UNCHANGED <<up, diskVars, out_peers, sends, kv, i, body, countVars>>

(* Nobody accepts, or upload_http_file refuses to send an empty file.      *)
PutRefused(n) ==
    /\ up[n] /\ pc[n] = "put" /\ Replicates(n)
    /\ ~up[Peer(n)] \/ sends[n] = "nothing"
    /\ i' = [i EXCEPT ![n] = @ + 1]
    /\ UNCHANGED <<up, diskVars, inbox, pc, out_peers, sends, kv, body, countVars>>

(* receive_http_file at p while n waits for the answer.  Whatever the      *)
(* status, upload_http_file returns 0 and p is listed as an owner.         *)
ServePut(p, n) ==
    /\ Idle(p) /\ Put(n, "open") \in inbox[p]
    /\ inbox' = [inbox EXCEPT ![p] = @ \ {Put(n, "open")}]
    /\ CreateFile(p, sends[n])
    /\ kv' = [kv EXCEPT ![n] = Append(@, p)]
    /\ i' = [i EXCEPT ![n] = @ + 1]
    /\ pc' = [pc EXCEPT ![n] = "put"]
    /\ UNCHANGED <<up, stored, out_peers, sends, body, countVars>>

(* No answer within 10 seconds, or p is gone: n closes the connection and  *)
(* goes on.  What it had sent by then stays in the sockets of p.           *)
GiveUp(n) ==
    /\ up[n] /\ pc[n] = "await"
    /\ \E b \in LeftOf(n) :
           inbox' = [inbox EXCEPT ![Peer(n)] = Abandoned(n, b, @)]
    /\ pc' = [pc EXCEPT ![n] = "put"]
    /\ i' = [i EXCEPT ![n] = @ + 1]
    /\ UNCHANGED <<up, diskVars, out_peers, sends, kv, body, countVars>>

(* A PUT that nobody waits for any more replaces the file all the same.    *)
ServeAbandonedPut(p) ==
    \E m \in inbox[p] :
        /\ Idle(p) /\ m.type = "PUT" /\ m.body # "open"
        /\ inbox' = [inbox EXCEPT ![p] = @ \ {m}]
        /\ CreateFile(p, m.body)
        /\ UNCHANGED <<up, stored, threadVars, countVars>>

PutLoopEnds(n) ==
    /\ up[n] /\ pc[n] = "put" /\ ~Replicates(n)
    /\ pc' = [pc EXCEPT ![n] = "store"]
    /\ i' = [i EXCEPT ![n] = 1]
    /\ UNCHANGED <<up, diskVars, inbox, out_peers, sends, kv, body, countVars>>

(* The STORE goes to every peer that accepts the connection; its answer is *)
(* not waited for.                                                         *)
SendStore(n) ==
    /\ up[n] /\ pc[n] = "store" /\ More(n)
    /\ inbox' = IF up[Peer(n)]
                THEN [inbox EXCEPT ![Peer(n)] = @ \cup {Store(kv[n])}]
                ELSE inbox
    /\ i' = [i EXCEPT ![n] = @ + 1]
    /\ UNCHANGED <<up, diskVars, pc, out_peers, sends, kv, body, countVars>>

UploadReturns(n) ==
    /\ up[n] /\ pc[n] = "store" /\ ~More(n)
    /\ pc' = [pc EXCEPT ![n] = "serve"]
    /\ kv' = [kv EXCEPT ![n] = <<>>]
    /\ out_peers' = [out_peers EXCEPT ![n] = <<>>]
    /\ i' = [i EXCEPT ![n] = 1]
    /\ sends' = [sends EXCEPT ![n] = "nothing"]
    /\ UNCHANGED <<up, diskVars, inbox, body, countVars>>

(* handle_store.                                                           *)
ServeStore(p) ==
    \E m \in inbox[p] :
        /\ Idle(p) /\ m.type = "STORE"
        /\ inbox' = [inbox EXCEPT ![p] = @ \ {m}]
        /\ storage_put_value(p, m.owners)
        /\ UNCHANGED <<up, copy, spoiled, threadVars, countVars>>
-----------------------------------------------------------------------------
StartDownload(n, from, peers) ==
    /\ Idle(n) /\ n \notin asked
    /\ pc' = [pc EXCEPT ![n] = from]
    /\ out_peers' = [out_peers EXCEPT ![n] = peers]
    /\ UNCHANGED <<up, diskVars, inbox, sends, kv, i, body, countVars>>

(* handle_rpc_download: our own storage lists owners, and these are tried; *)
(* otherwise those the lookup finds at another node, or none.              *)
Download(n) ==
    IF stored[n] # <<>>
    THEN StartDownload(n, "own", stored[n])
    ELSE \/ \E m \in Nodes \ {n} :
                Idle(m) /\ stored[m] # <<>> /\ StartDownload(n, "get", stored[m])
         \/ StartDownload(n, "get", <<>>)

DownloadReturns(n) ==
    /\ pc' = [pc EXCEPT ![n] = "serve"]
    /\ out_peers' = [out_peers EXCEPT ![n] = <<>>]
    /\ i' = [i EXCEPT ![n] = 1]
    /\ body' = [body EXCEPT ![n] = "none"]
    /\ UNCHANGED <<up, diskVars, inbox, sends, kv, countVars>>

TriesNextPeer(n) ==
    /\ i' = [i EXCEPT ![n] = @ + 1]
    /\ body' = [body EXCEPT ![n] = "none"]
    /\ UNCHANGED <<up, diskVars, inbox, pc, out_peers, sends, kv, countVars>>

Downloading(n) == up[n] /\ pc[n] \in {"get", "own"} /\ body[n] = "none"

(* The list is our own and we are on it: nothing is downloaded.            *)
AlreadyOwner(n) == Downloading(n) /\ pc[n] = "own" /\ More(n) /\ Peer(n) = n

Owns(n) == AlreadyOwner(n) /\ DownloadReturns(n)

Answered(n) ==
    Downloading(n) /\ More(n) /\ Idle(Peer(n)) /\ copy[Peer(n)] # "none"

(* The peer sends what it has and the download returns 0; what it brought  *)
(* is seen in CommandLine.                                                 *)
Get(n) == Answered(n) /\ DownloadReturns(n)

(* A chunk came in pieces and was miscounted: all that the peer had to     *)
(* send is read, the loop wants more, and every ten seconds it goes on     *)
(* waiting, since the peer does not close the connection.                  *)
GetRetries(n) ==
    /\ Answered(n)
    /\ body' = [body EXCEPT ![n] = "retrying"]
    /\ UNCHANGED <<up, diskVars, inbox, pc, out_peers, sends, kv, i, countVars>>

(* The peer's process has ended: an end of file is the end of the loop, a  *)
(* reset an error.                                                         *)
GetEnds(n) ==
    /\ up[n] /\ body[n] = "ended"
    /\ DownloadReturns(n) \/ TriesNextPeer(n)

(* The peer is down, does not answer in time (it is busy, or it is us), or *)
(* has no such file: 404.  Or the file cannot be created here.             *)
GetFails(n) ==
    /\ Downloading(n) /\ More(n) /\ ~AlreadyOwner(n)
    /\ ~Answered(n) \/ DiskErrors
    /\ TriesNextPeer(n)

NobodyServed(n) ==
    /\ Downloading(n) /\ ~More(n)
    /\ DownloadReturns(n)
-----------------------------------------------------------------------------
(* The file was being replaced when the process ended.                     *)
EndsWriting(n) ==
    /\ pc[n] = "serve"
    /\ (n \notin asked /\ uploads < MaxUploads)
           \/ \E m \in inbox[n] : m.type = "PUT"
    /\ copy' = [copy EXCEPT ![n] = "partial"]
    /\ spoiled' = spoiled \cup {<<n, "stop">>}

(* The process ends: the storage and what its threads were doing are gone, *)
(* the files stay.  PUTs that n had under way are given up, and whoever    *)
(* went on waiting for n in a download sees the end of the connection.     *)
Stop(n) ==
    /\ up[n] /\ stops < MaxStops
    /\ stops' = stops + 1
    /\ up' = [up EXCEPT ![n] = FALSE]
    /\ stored' = [stored EXCEPT ![n] = <<>>]
    /\ \E b \in LeftOf(n) :
           inbox' = [p \in Nodes |->
               IF p = n THEN {} ELSE Abandoned(n, b, inbox[p])]
    /\ pc' = [pc EXCEPT ![n] = "serve"]
    /\ out_peers' = [out_peers EXCEPT ![n] = <<>>]
    /\ sends' = [sends EXCEPT ![n] = "nothing"]
    /\ kv' = [kv EXCEPT ![n] = <<>>]
    /\ i' = [i EXCEPT ![n] = 1]
    /\ body' = [m \in Nodes |->
                    IF m = n THEN "none"
                    ELSE IF body[m] = "retrying" /\ Peer(m) = n THEN "ended"
                    ELSE body[m]]
    /\ asked' = asked \ {n}
    /\ EndsWriting(n) \/ UNCHANGED <<copy, spoiled>>
    /\ UNCHANGED uploads

Restart(n) ==
    /\ ~up[n]
    /\ up' = [up EXCEPT ![n] = TRUE]
    /\ UNCHANGED <<diskVars, inbox, threadVars, countVars>>

Working(n) ==
    \/ PutConnects(n) \/ PutRefused(n) \/ GiveUp(n) \/ PutLoopEnds(n)
    \/ SendStore(n) \/ UploadReturns(n)
    \/ Owns(n) \/ Get(n) \/ GetRetries(n) \/ GetEnds(n) \/ GetFails(n)
    \/ NobodyServed(n)

Next ==
    \E n \in Nodes :
        \/ Copy(n) \/ Upload(n) \/ Download(n)
        \/ Working(n)
        \/ \E m \in Nodes : ServePut(n, m)
        \/ ServeAbandonedPut(n) \/ ServeStore(n)
        \/ Stop(n) \/ Restart(n)

Spec == Init /\ [][Next]_vars

(* A running thread goes on: it waits 10 seconds at most for a peer to     *)
(* accept, to take a PUT or to answer.  Only the body of a download it may *)
(* await for ever, until the peer's process ends, and nobody has to end.   *)
FairSpec == Spec /\ \A n \in Nodes : WF_vars(Working(n))
-----------------------------------------------------------------------------
Messages ==
    {Put(m, b) : m \in Nodes, b \in {"open", "whole", "part", "cut"}}
        \cup {Store(s) : s \in Lists(K_VALUE)}

ReplicationTypeOK ==
    /\ up \in [Nodes -> BOOLEAN]
    /\ copy \in [Nodes -> {"none", "partial", "whole"}]
    /\ stored \in [Nodes -> Lists(K_VALUE)]
    /\ inbox \in [Nodes -> SUBSET Messages]
    /\ pc \in [Nodes -> {"serve", "put", "await", "store", "get", "own"}]
    /\ sends \in [Nodes -> {"nothing", "part", "whole"}]
    /\ body \in [Nodes -> {"none", "retrying", "ended"}]
    /\ out_peers \in [Nodes -> Lists(K_VALUE)]
    /\ kv \in [Nodes -> Lists(K_VALUE)]
    /\ i \in [Nodes -> 1..K_VALUE+1]
    /\ spoiled \subseteq Nodes \X Reasons /\ asked \subseteq Nodes

(* The owners an upload gathers fit into the K_VALUE values of the pair,   *)
(* however its peers repeat, are ourselves, or answer.                     *)
OwnersFit == \A n \in Nodes : Len(kv[n]) <= K_VALUE

ListedOwners ==
    (UNION {Elems(stored[n]) \cup Elems(kv[n]) : n \in Nodes})
        \cup (UNION {Elems(m.owners) :
                     m \in {x \in UNION {inbox[n] : n \in Nodes} :
                                x.type = "STORE"}})

(* README.md:59: the owners a node tells of are peers that have the file.  *)
(* What is in the way at an owner is its disk, the end of its process      *)
(* while it wrote, a PUT given up half-way, or a PUT of somebody who had   *)
(* only a part; and a part that is passed on began with one of the others. *)
OwnersHaveTheFile ==
    /\ \A p \in ListedOwners :
           copy[p] = "whole" \/ \E why \in Reasons : <<p, why>> \in spoiled
    /\ \A p \in Nodes : <<p, "part">> \in spoiled =>
           \E q \in Nodes, why \in Reasons \ {"part"} : <<q, why>> \in spoiled

(* Every upload and every download ends, though nodes may wait for each    *)
(* other, and a node for itself; but for a download that retries for ever  *)
(* a chunk it has miscounted, for which nothing limits the wait.           *)
ThreadReturns ==
    \A n \in Nodes : []<>(pc[n] = "serve") \/ <>[](body[n] = "retrying")

(* README.md:59, "those K peers will also be able to tell anyone that      *)
(* contacts them all the owners of the file (themselves and the others)":  *)
(* once an only upload is over, what the nodes tell agrees.                *)
AllOwnersAreTold ==
    uploads = 1 /\ stops = 0 /\ (\A n \in Nodes : pc[n] = "serve" /\ inbox[n] = {})
        => \A n \in ListedOwners : Elems(stored[n]) = ListedOwners
=============================================================================
