----------------------------- MODULE Discovery ------------------------------
(***************************************************************************)
(* How a node comes to know others, and how it lets them know of itself:   *)
(* the broadcast socket in handle_incoming, handle_tasks and               *)
(* broadcast_discovery_request of src/network.c, handle_broadcast of       *)
(* src/rpc.c, and the cached identity of src/shared.c.                     *)
(*                                                                         *)
(* A round of the network thread reads at most one datagram and looks at   *)
(* the schedule once.  The two are steps of their own here; nothing else   *)
(* of a round matters to them.  The table is the one of Buckets.           *)
(***************************************************************************)
EXTENDS Buckets

CONSTANTS
    QUEUE,            \* datagrams that the kernel keeps for us
    interval_secs,    \* time between our broadcasts: 30
    MaxSetBack        \* how far the clock is set back in all, a bound

ASSUME DiscoveryAssumption ==
    /\ QUEUE \in Nat \ {0}
    /\ interval_secs \in Nat \ {0}
    /\ MaxSetBack \in Nat

VARIABLES
    queue,            \* datagrams unread at the broadcast socket
    routed,           \* the host has a network
    cached,           \* our primary address and identifier are known
    wait,             \* next_run - now; -1 when overdue
    set_back          \* how far the clock has been set back

hostVars == <<routed, set_back>>
discoveryVars == <<bucketVars, queue, hostVars, cached, wait>>

(* A broadcast of a peer; one that comes from our own address, or has a    *)
(* foreign magic number, or a size or call type that does not fit; and one *)
(* too short for a magic number.                                           *)
Hello(p) == <<"hello", p>>
Other == <<"other">>
Short == <<"short">>

Datagrams == {Hello(p) : p \in Peers} \cup {Other, Short}

(* get_own_id or get_primary_ip has been called: it remembers an address   *)
(* once it has found one, and finds one if the host has a network.         *)
LookUpIdentity == cached' = (cached \/ routed)

Queued(d) == IF Len(queue) < QUEUE THEN Append(queue, d) ELSE queue
-----------------------------------------------------------------------------
(* Plausible slips in the definitions below, for the mutation checks.      *)

HandleTasks_when_exactly_due ==
    /\ wait = 0
    /\ wait' = interval_secs
    /\ LookUpIdentity
    /\ queue' = IF routed THEN Queued(Other) ELSE queue
    /\ UNCHANGED <<bucketVars, hostVars>>

DropDatagram_peeked_only ==
    /\ queue # <<>> /\ Head(queue) = Other
    /\ LookUpIdentity
    /\ UNCHANGED <<bucketVars, queue, hostVars, wait>>
-----------------------------------------------------------------------------
DiscoveryInit ==
    /\ BucketsInit
    /\ queue = <<>>
    /\ routed \in BOOLEAN
    /\ cached = FALSE
    /\ wait = -1
    /\ set_back = 0

(* What the network and the host do.  A datagram that finds the queue full *)
(* is lost, and so is one that never arrives.                              *)

Arrive(d) ==
    /\ Len(queue) < QUEUE
    /\ queue' = Append(queue, d)
    /\ UNCHANGED <<bucketVars, hostVars, cached, wait>>

NetworkComesOrGoes ==
    /\ routed' = ~routed
    /\ UNCHANGED <<bucketVars, queue, set_back, cached, wait>>

Tick ==
    /\ wait >= 0
    /\ wait' \in -1..wait-1
    /\ UNCHANGED <<bucketVars, queue, hostVars, cached>>

(* time() follows the clock of the host, which somebody may set.           *)
ClockSetBack ==
    /\ \E d \in 1..MaxSetBack - set_back :
           /\ wait' = wait + d
           /\ set_back' = set_back + d
    /\ UNCHANGED <<bucketVars, queue, routed, cached>>
-----------------------------------------------------------------------------
(* handle_incoming has a first look at a datagram without taking it off.   *)

(* Ours, and what is no request, is taken off and dropped.                 *)
DropDatagram ==
    /\ queue # <<>> /\ Head(queue) = Other
    /\ queue' = Tail(queue)
    /\ LookUpIdentity
    /\ UNCHANGED <<bucketVars, hostVars, wait>>

(* What is too short for a magic number stays where it is.                 *)
LeaveShort ==
    /\ queue # <<>> /\ Head(queue) = Short
    /\ LookUpIdentity
    /\ UNCHANGED <<bucketVars, queue, hostVars, wait>>

(* handle_broadcast: update_bucket_peers gives up without an identity of   *)
(* our own to measure the distance from.                                   *)
ReadHello(p) ==
    /\ queue # <<>> /\ Head(queue) = Hello(p)
    /\ queue' = Tail(queue)
    /\ LookUpIdentity
    /\ IF cached' THEN Heard(p) ELSE UNCHANGED bucketVars
    /\ UNCHANGED <<hostVars, wait>>

(* handle_tasks: next_run moves on whether or not the broadcast was sent,  *)
(* which needs an identity and a network.  What we send comes back to us.  *)
HandleTasks ==
    /\ wait <= 0
    /\ wait' = interval_secs
    /\ LookUpIdentity
    /\ queue' = IF routed THEN Queued(Other) ELSE queue
    /\ UNCHANGED <<bucketVars, hostVars>>
-----------------------------------------------------------------------------
Reading == DropDatagram \/ LeaveShort \/ \E p \in Peers : ReadHello(p)

(* Nothing is said of the program once memory has been overwritten.        *)
DiscoveryNext ==
    /\ ~damaged
    /\ \/ \E d \in Datagrams : Arrive(d)
       \/ NetworkComesOrGoes \/ Tick \/ ClockSetBack
       \/ Reading
       \/ HandleTasks

DiscoverySpec == DiscoveryInit /\ [][DiscoveryNext]_discoveryVars

(* Rounds go on (see SocketTable), and so does time.                       *)
DiscoveryFairSpec ==
    /\ DiscoverySpec
    /\ WF_discoveryVars(~damaged /\ Reading)
    /\ WF_discoveryVars(~damaged /\ HandleTasks)
    /\ WF_discoveryVars(~damaged /\ Tick)
-----------------------------------------------------------------------------
DiscoveryTypeOK ==
    /\ BucketsTypeOK
    /\ queue \in Seq(Datagrams) /\ Len(queue) <= QUEUE
    /\ routed \in BOOLEAN /\ cached \in BOOLEAN
    /\ set_back \in 0..MaxSetBack
    /\ wait \in -1..interval_secs + MaxSetBack

(* README.md:53, nodes find each other by broadcasts: a broadcast that the *)
(* kernel has queued makes its sender known, unless the sender's bucket is *)
(* full, we have no identity yet, or a datagram too short for a magic      *)
(* number came before and blocks the rest.                                 *)
HelloIsHeard ==
    \A p \in {q \in Peers : bucket_index(q) \in Buckets} :
        Contains(queue, Hello(p)) ~>
            LET bucket == buckets[bucket_index(p)]
            IN  \/ Contains(bucket, p) \/ Len(bucket) >= K_VALUE
                \/ ~cached \/ Contains(queue, Short) \/ damaged

(* Our own broadcasts go on for ever once the host has a network for good, *)
(* whatever failed before, however late the thread gets to its schedule    *)
(* and although the clock it goes by may have been set back.               *)
BroadcastsGoOn ==
    <>[]routed => []<><<HandleTasks /\ routed>>_discoveryVars \/ <>damaged
=============================================================================
