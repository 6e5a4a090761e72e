------------------------------- MODULE Lookup -------------------------------
(***************************************************************************)
(* iterative_find_peers of src/rpc.c: one node searching the network for   *)
(* the peers closest to a target (FIND_NODE, before an upload) or for the  *)
(* owners of a file (FIND_VALUE, for a download), with the node's own      *)
(* table of peers.                                                         *)
(*                                                                         *)
(* The lookup runs to its end on the node's only network thread, so the    *)
(* node handles no broadcast and no request meanwhile.  What the contacted *)
(* peer does is chosen by the environment: no connection, no valid answer  *)
(* within the socket's timeout, a list of its neighbours, or the value.    *)
(***************************************************************************)
EXTENDS Buckets

CONSTANTS
    Keys,             \* the hashes looked up
    MaxOpenSockets,   \* bound: no lookup starts with that many left open
    MaxAnswer         \* bound: entries of an answer, K_VALUE in the program

(* No key falls into a bucket past the array: with such a key the search   *)
(* of the own table starts outside it (see OnlyTheTableWritten).           *)
ASSUME LookupAssumption ==
    /\ Keys \subseteq Targets
    /\ MaxOpenSockets \in Nat \ {0}
    /\ MaxAnswer \in 1..K_VALUE

VARIABLES
    pc,               \* "idle", "copy", "scan", "learn" or "returned"
    target_key,
    find_value,
    pending,          \* vector of peers, contacted or to be contacted
    contacted,        \* vector of booleans beside it
    i,                \* the position of the scan in pending
    any_new_contact,
    value_found,
    answer,           \* what remains to be read of a list of neighbours
    out_peers,
    open_sockets,     \* sockets the lookups so far have left open
    asked,            \* history: the peers contacted, in order
    heard             \* history: every identifier this lookup came across

scanVars == <<target_key, find_value, out_peers, open_sockets>>
lookupVars == <<pc, target_key, find_value, pending, contacted, i,
                any_new_contact, value_found, answer, out_peers,
                open_sockets, asked, heard>>
vars == <<bucketVars, lookupVars>>

max_peers == K_VALUE          \* both callers pass K_VALUE
-----------------------------------------------------------------------------
(* Plausible slips in the definitions below, for the mutation checks.      *)

LearnNeighbour_unchecked ==
    /\ pc = "learn" /\ answer # <<>>
    /\ answer' = Tail(answer)
    /\ Heard(Head(answer))
    /\ heard' = heard \cup {Head(answer)}
    /\ pending' = Append(pending, Head(answer))
    /\ contacted' = Append(contacted, FALSE)
    /\ UNCHANGED <<scanVars, pc, i, any_new_contact, value_found, asked>>

LearnNeighbour_without_table ==
    /\ pc = "learn" /\ answer # <<>>
    /\ answer' = Tail(answer)
    /\ heard' = heard \cup {Head(answer)}
    /\ IF Contains(pending, Head(answer))
       THEN UNCHANGED <<pending, contacted>>
       ELSE /\ pending' = Append(pending, Head(answer))
            /\ contacted' = Append(contacted, FALSE)
    /\ UNCHANGED <<bucketVars, scanVars, pc, i, any_new_contact, value_found,
                   asked>>

EndOfPass_early ==
    /\ pc = "scan" /\ i > max_peers
    /\ pc' = "sort"
    /\ UNCHANGED <<bucketVars, scanVars, pending, contacted, i,
                   any_new_contact, value_found, answer, asked, heard>>

EndOfPass_sticky ==
    /\ pc = "scan" /\ i > Len(pending)
    /\ i' = 1
    /\ IF ~any_new_contact \/ Len(pending) >= max_peers
       THEN pc' = "sort" ELSE UNCHANGED pc
    /\ UNCHANGED <<bucketVars, scanVars, pending, contacted,
                   any_new_contact, value_found, answer, asked, heard>>

SortByDistance_farthest_first(peers) ==
    SortSeq(peers, LAMBDA p, q : Closer(q, p, target_key))
-----------------------------------------------------------------------------
LookupInit ==
    /\ BucketsInit
    /\ pc = "idle"
    /\ target_key = own_id /\ find_value = FALSE
    /\ pending = <<>> /\ contacted = <<>> /\ i = 1
    /\ any_new_contact = FALSE /\ value_found = FALSE
    /\ answer = <<>> /\ out_peers = <<>> /\ open_sockets = 0
    /\ asked = <<>> /\ heard = {}

(* Between lookups the node hears of peers from their broadcasts.          *)
HandleBroadcast(p) ==
    /\ pc = "idle" /\ ~damaged
    /\ Heard(p)
    /\ UNCHANGED lookupVars

StartLookup(target, fv) ==
    /\ pc = "idle" /\ ~damaged /\ open_sockets < MaxOpenSockets
    /\ pc' = "copy"
    /\ target_key' = target
    /\ find_value' = fv
    /\ UNCHANGED <<bucketVars, pending, contacted, i, any_new_contact,
                   value_found, answer, out_peers, open_sockets, asked, heard>>

(* The peers closest to the target that we know ourselves are copied into  *)
(* pending one by one, each not contacted yet.                             *)
CopyInitial ==
    LET initial == find_closest_peers(buckets, target_key, K_VALUE)
        n == Len(pending) + 1
    IN  /\ pc = "copy"
        /\ IF n <= Len(initial)
           THEN /\ pending' = Append(pending, initial[n])
                /\ contacted' = Append(contacted, FALSE)
                /\ heard' = heard \cup {initial[n]}
                /\ UNCHANGED pc
           ELSE /\ pc' = "scan"
                /\ UNCHANGED <<pending, contacted, heard>>
        /\ UNCHANGED <<bucketVars, scanVars, i, any_new_contact, value_found,
                       answer, asked>>

SkipContacted ==
    /\ pc = "scan" /\ i <= Len(pending) /\ contacted[i]
    /\ i' = i + 1
    /\ UNCHANGED <<bucketVars, scanVars, pc, pending, contacted,
                   any_new_contact, value_found, answer, asked, heard>>

(* The part every contact shares: the flag is set before the outcome is    *)
(* known, whatever the outcome.                                            *)
Contact ==
    /\ pc = "scan" /\ i <= Len(pending) /\ ~contacted[i]
    /\ contacted' = [contacted EXCEPT ![i] = TRUE]
    /\ any_new_contact' = TRUE
    /\ asked' = Append(asked, pending[i])
    /\ i' = i + 1

(* connect fails, or no valid packet arrives before the socket times out,  *)
(* or it is of another type: the socket, if any, is closed.  Asking        *)
(* ourselves ends so too, since the thread that would answer is this one.  *)
NoAnswer ==
    /\ Contact
    /\ UNCHANGED <<bucketVars, scanVars, pc, pending, value_found, answer,
                   heard>>

NeighboursAnswer(ids) ==
    /\ Contact
    /\ pending[i] # own_id
    /\ answer' = ids
    /\ pc' = "learn"
    /\ UNCHANGED <<bucketVars, scanVars, pending, value_found, heard>>

(* One peer of the answer: the table hears of it, and it is appended to    *)
(* pending unless it is there.  The socket is closed after the last one.   *)
LearnNeighbour ==
    /\ pc = "learn" /\ answer # <<>>
    /\ answer' = Tail(answer)
    /\ Heard(Head(answer))
    /\ heard' = heard \cup {Head(answer)}
    /\ IF Contains(pending, Head(answer))
       THEN UNCHANGED <<pending, contacted>>
       ELSE /\ pending' = Append(pending, Head(answer))
            /\ contacted' = Append(contacted, FALSE)
    /\ UNCHANGED <<scanVars, pc, i, any_new_contact, value_found, asked>>

AnswerRead ==
    /\ pc = "learn" /\ answer = <<>>
    /\ pc' = "scan"
    /\ UNCHANGED <<bucketVars, scanVars, pending, contacted, i,
                   any_new_contact, value_found, answer, asked, heard>>

(* found_key: the owners are copied out and break leaves the scan, past    *)
(* the close of the socket.                                                *)
ValueAnswer(owners) ==
    /\ Contact
    /\ find_value
    /\ pending[i] # own_id
    /\ out_peers' = owners
    /\ value_found' = TRUE
    /\ open_sockets' = open_sockets + 1
    /\ pc' = "returned"
    /\ UNCHANGED <<bucketVars, target_key, find_value, pending, answer, heard>>

(* The scan has reached the end of pending, which grew as answers came.    *)
EndOfPass ==
    /\ pc = "scan" /\ i > Len(pending)
    /\ i' = 1
    /\ any_new_contact' = FALSE
    /\ IF ~any_new_contact \/ Len(pending) >= max_peers
       THEN pc' = "sort" ELSE UNCHANGED pc
    /\ UNCHANGED <<bucketVars, scanVars, pending, contacted, value_found,
                   answer, asked, heard>>

(* vector_sort with peer_distance_cmp: an entry's place is behind all that *)
(* come before it.  VectorSort has the algorithm, which exchanges entries  *)
(* of one distance; here these keep their order, which nobody can tell,    *)
(* since they are copies of one peer.                                      *)
Before(peers, k, m) ==
    \/ Closer(peers[k], peers[m], target_key)
    \/ k < m /\ ~Closer(peers[m], peers[k], target_key)

Place(peers, k) == Cardinality({m \in DOMAIN peers : Before(peers, m, k)}) + 1

SortByDistance(peers) ==
    [n \in DOMAIN peers |->
        peers[CHOOSE k \in DOMAIN peers : Place(peers, k) = n]]

(* FIND_NODE returns the first max_peers of all peers, sorted; FIND_VALUE  *)
(* gets here only without the value, and returns -1 and nobody.            *)
SortAndReturn ==
    /\ pc = "sort"
    /\ pc' = "returned"
    /\ out_peers' =
         IF find_value THEN <<>>
         ELSE LET sorted == SortByDistance(pending)
              IN  SubSeq(sorted, 1, IF Len(sorted) < max_peers
                                    THEN Len(sorted) ELSE max_peers)
    /\ UNCHANGED <<bucketVars, target_key, find_value, open_sockets, pending,
                   contacted, i, any_new_contact, value_found, answer, asked,
                   heard>>

(* The caller takes the result and the lookup's variables are gone.        *)
Leave ==
    /\ pc = "returned"
    /\ pc' = "idle"
    /\ target_key' = own_id /\ find_value' = FALSE
    /\ pending' = <<>> /\ contacted' = <<>> /\ i' = 1
    /\ any_new_contact' = FALSE /\ value_found' = FALSE
    /\ out_peers' = <<>> /\ asked' = <<>> /\ heard' = {}
    /\ UNCHANGED <<bucketVars, answer, open_sockets>>

(* What a peer may answer: entries of its own table, K_VALUE at most, with *)
(* repetitions (find_nearest makes them), or owners.  We can be among them. *)
Answers == UNION {[1..n -> Peers] : n \in 0..MaxAnswer}
OwnerLists == UNION {[1..n -> Peers] : n \in 1..MaxAnswer}

LookupStep ==
    \/ CopyInitial
    \/ SkipContacted
    \/ NoAnswer
    \/ \E ids \in Answers : NeighboursAnswer(ids)
    \/ LearnNeighbour
    \/ AnswerRead
    \/ \E owners \in OwnerLists : ValueAnswer(owners)
    \/ EndOfPass
    \/ SortAndReturn
    \/ Leave

LookupNext ==
    \/ \E p \in Peers : HandleBroadcast(p)
    \/ \E k \in Keys, fv \in BOOLEAN : StartLookup(k, fv)
    \/ LookupStep

LookupSpec == LookupInit /\ [][LookupNext]_vars

(* The thread keeps running: connect, send and recv on these sockets       *)
(* return after 10 seconds at most (connect_to_peer sets both timeouts).   *)
LookupLiveSpec == LookupSpec /\ WF_vars(LookupStep)
-----------------------------------------------------------------------------
LookupTypeOK ==
    /\ BucketsTypeOK
    /\ pc \in {"idle", "copy", "scan", "learn", "sort", "returned"}
    /\ target_key \in HashID
    /\ {find_value, any_new_contact, value_found} \subseteq BOOLEAN
    /\ pending \in Seq(Peers)
    /\ contacted \in [DOMAIN pending -> BOOLEAN]
    /\ i \in 1..Len(pending) + 1
    /\ answer \in Seq(Peers) /\ out_peers \in Seq(Peers)
    /\ open_sockets \in 0..MaxOpenSockets
    /\ asked \in Seq(Peers)
    /\ heard \subseteq Peers

(* A lookup without the value ends only when every peer it came across, in *)
(* our table or in an answer, has been asked: in particular a download     *)
(* fails only after the whole reachable network was tried.                 *)
EveryoneIsAsked ==
    pc = "sort" \/ (pc = "returned" /\ ~value_found) => ToSet(asked) = heard

(* However answers overlap and repeat, a peer is contacted once: only the  *)
(* at most K_VALUE entries copied from the own table, where one peer may   *)
(* take several (see find_nearest), bring a second contact.                *)
OnlyTheTableRepeats ==
    \A m, n \in DOMAIN asked : m < n /\ asked[m] = asked[n] => n <= K_VALUE

(* FIND_NODE returns as many as it can of all entries it came across, none *)
(* closer to the target than an earlier one, and nobody left out is closer *)
(* than somebody returned: an uploader replicates to the right peers.      *)
ReturnsTheClosestHeard ==
    pc = "returned" /\ ~find_value =>
        /\ Len(out_peers) = IF Len(pending) < max_peers
                            THEN Len(pending) ELSE max_peers
        /\ \A m, n \in DOMAIN out_peers :
               m < n => ~Closer(out_peers[n], out_peers[m], target_key)
        /\ \A p \in ToSet(out_peers), q \in heard \ ToSet(out_peers) :
               Closer(p, q, target_key)

(* The peers an answer names are in the table, or their bucket is full,    *)
(* before the next peer is asked.                                          *)
AnswersReachTheTable ==
    /\ LookupTypeOK
    /\ pc \in {"scan", "sort", "returned"} =>
           \A p \in heard :
               bucket_index(p) \in Buckets =>
                   \/ p \in ToSet(buckets[bucket_index(p)])
                   \/ Len(buckets[bucket_index(p)]) = K_VALUE

(* Every lookup returns, whoever fails to answer.                          *)
LookupReturns == (pc = "copy") ~> (pc = "returned")
=============================================================================
