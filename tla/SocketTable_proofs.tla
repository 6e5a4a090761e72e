------------------------- MODULE SocketTable_proofs -------------------------
(***************************************************************************)
(* The array of sockets and the descriptors agree, what poll reported      *)
(* stays true until it is acted on, and only a peer ends a connection: for *)
(* any number of entries and connections, whatever peers do while the      *)
(* thread is busy with one of them.                                        *)
(***************************************************************************)
EXTENDS SocketTable, TLAPS

(* An entry for every open connection, one only, and for nothing else.     *)
Listed ==
    pc # "stopped" =>
        /\ \A e \in Entries : At(e) # NoFd => At(e) \in fds
        /\ \A c \in fds : \E e \in Entries : At(e) = c
        /\ \A e, f \in Entries : At(e) # NoFd /\ At(e) = At(f) => e = f

(* A connection waits in the backlog once, and is not open yet.            *)
Queued ==
    /\ \A n \in DOMAIN backlog : backlog[n] \notin fds
    /\ \A m, n \in DOMAIN backlog : backlog[m] = backlog[n] => m = n
    /\ \A n \in DOMAIN backlog : peer[backlog[n]] # "away"
    /\ \A c \in fds : peer[c] # "away"

(* What poll said of the entries that the thread has not come to yet.      *)
Reported ==
    /\ pc = "incoming" /\ 0 \in ready => backlog # <<>>
    /\ pc \in {"incoming", "connected", "stuck"} =>
           \A e \in Entries : e >= k =>
               /\ e \in ready =>
                      /\ At(e) # NoFd
                      /\ arrived[At(e)] # "nothing" \/ peer[At(e)] = "closed"
               /\ e \in hung_up => At(e) # NoFd /\ peer[At(e)] = "closed"
    /\ pc = "stuck" => k \in Entries /\ k \in ready

SocketInv == SocketTypeOK /\ Listed /\ Queued /\ Reported
-----------------------------------------------------------------------------
LEMMA EntryFacts ==
    /\ MAX_SOCK \in Nat /\ MAX_SOCK > 2 /\ NoFd \notin Conns
    /\ \A e \in Entries : e \in Nat /\ e >= 2 /\ e < MAX_SOCK
    /\ \A e \in Entries : e + 1 \in 2..MAX_SOCK
    /\ MAX_SOCK \in 2..MAX_SOCK /\ 2 \in 2..MAX_SOCK
  BY SocketAssumption DEF Entries

LEMMA BacklogFacts ==
    ASSUME NEW s \in Seq(Conns)
    PROVE  /\ Len(s) \in Nat /\ DOMAIN s = 1..Len(s)
           /\ \A n \in DOMAIN s : s[n] \in Conns
           /\ s # <<>> => /\ Head(s) = s[1] /\ 1 \in DOMAIN s
                          /\ Tail(s) \in Seq(Conns) /\ Len(Tail(s)) = Len(s) - 1
                          /\ \A n \in 1..Len(s)-1 : Tail(s)[n] = s[n + 1]
           /\ \A c \in Conns :
                  /\ Append(s, c) \in Seq(Conns)
                  /\ Len(Append(s, c)) = Len(s) + 1
                  /\ Append(s, c)[Len(s) + 1] = c
                  /\ \A n \in 1..Len(s) : Append(s, c)[n] = s[n]
OBVIOUS

LEMMA SocketInvInit == Init => SocketInv
<1> SUFFICES ASSUME Init PROVE SocketInv
  OBVIOUS
<1> USE DEF Init
<1>1. SocketTypeOK
  BY EntryFacts DEF SocketTypeOK
<1>2. Listed
  BY DEF Listed, At
<1>3. Queued /\ Reported
  BY DEF Queued, Reported
<1> QED
  BY <1>1, <1>2, <1>3 DEF SocketInv
-----------------------------------------------------------------------------
LEMMA ConnectStep ==
    ASSUME SocketInv, NEW c \in Conns, Connect(c)
    PROVE  SocketInv'
<1> USE DEF SocketInv, Connect, tableVars, pollVars, controlVars
<1>1. SocketTypeOK'
  BY BacklogFacts DEF SocketTypeOK
<1>2. Listed'
  BY DEF Listed, At
<1>3. Queued'
  <2>1. backlog \in Seq(Conns) /\ c \notin fds
        /\ \A n \in DOMAIN backlog : backlog[n] # c
    BY DEF SocketTypeOK, Queued
  <2>2. /\ DOMAIN backlog = 1..Len(backlog) /\ Len(backlog) \in Nat
        /\ DOMAIN backlog' = 1..Len(backlog)+1
        /\ backlog'[Len(backlog) + 1] = c
        /\ \A n \in 1..Len(backlog) : backlog'[n] = backlog[n]
    BY <2>1, BacklogFacts
  <2>3. peer' = [peer EXCEPT ![c] = "connected"]
        /\ peer \in [Conns -> {"away", "connected", "closed"}]
        /\ fds' = fds /\ fds \subseteq Conns
        /\ \A n \in DOMAIN backlog : backlog[n] \in Conns
    BY BacklogFacts DEF SocketTypeOK
  <2>4. \A n \in DOMAIN backlog' :
            \/ n \in DOMAIN backlog /\ backlog'[n] = backlog[n]
            \/ n = Len(backlog) + 1 /\ backlog'[n] = c
    <3>1. ASSUME NEW n \in DOMAIN backlog'
          PROVE  n \in 1..Len(backlog) \/ n = Len(backlog) + 1
      BY <2>2
    <3> QED
      BY <2>2, <3>1, Zenon
  <2>5. /\ \A n \in DOMAIN backlog' : backlog'[n] \notin fds'
        /\ \A n \in DOMAIN backlog' : peer'[backlog'[n]] # "away"
        /\ \A d \in fds' : peer'[d] # "away"
    BY <2>1, <2>3, <2>4 DEF Queued
  <2>6. \A m, n \in DOMAIN backlog' : backlog'[m] = backlog'[n] => m = n
    BY <2>1, <2>4 DEF Queued
  <2> QED
    BY <2>5, <2>6 DEF Queued
<1>4. Reported'
  <2>1. backlog' # <<>>
    <3>1. Len(backlog') = Len(backlog) + 1 /\ Len(backlog) \in Nat
      BY BacklogFacts DEF SocketTypeOK
    <3> QED
      BY <3>1
  <2>2. \A d \in Conns : peer[d] = "closed" => peer'[d] = "closed"
    BY DEF SocketTypeOK
  <2>3. \A e \in Entries : At(e) # NoFd => At(e) \in Conns
    BY DEF SocketTypeOK, At
  <2> QED
    BY <2>1, <2>2, <2>3 DEF Reported, At
<1> QED
  BY <1>1, <1>2, <1>3, <1>4

LEMMA PeerStepKeeps ==
    ASSUME SocketInv, NEW c \in Conns, Deliver(c) \/ PeerCloses(c)
    PROVE  SocketInv'
<1> USE DEF SocketInv, Deliver, PeerCloses, tableVars, pollVars, controlVars
<1>1. SocketTypeOK'
  BY DEF SocketTypeOK
<1>2. Listed'
  BY DEF Listed, At
<1>3. /\ \A d \in Conns : peer'[d] = "away" => peer[d] = "away"
      /\ \A d \in Conns : peer[d] = "closed" => peer'[d] = "closed"
      /\ \A d \in Conns : arrived'[d] = "nothing" => arrived[d] = "nothing"
  BY DEF SocketTypeOK
<1>4. Queued'
  BY <1>3, BacklogFacts DEF SocketTypeOK, Queued
<1>5. Reported'
  <2>1. \A e \in Entries : At(e) # NoFd => At(e) \in Conns
    BY DEF SocketTypeOK, At
  <2> QED
    BY <1>3, <2>1 DEF Reported, At
<1> QED
  BY <1>1, <1>2, <1>4, <1>5
-----------------------------------------------------------------------------
LEMMA PollStep ==
    ASSUME SocketInv, Poll
    PROVE  SocketInv'
<1> USE DEF SocketInv, Poll, tableVars
<1>1. /\ ready' = {e \in Entries : /\ At(e) # NoFd
                                   /\ \/ arrived[At(e)] # "nothing"
                                      \/ peer[At(e)] = "closed"}
                  \cup {e \in {0} : backlog # <<>>}
      /\ hung_up' \subseteq {e \in Entries : /\ At(e) # NoFd
                                            /\ peer[At(e)] = "closed"}
  OBVIOUS
<1>2. 0 \notin Entries
  BY EntryFacts
<1>3. SocketTypeOK'
  BY <1>1 DEF SocketTypeOK
<1>4. Listed' /\ Queued'
  BY DEF Listed, Queued, At
<1>5. Reported'
  <2>1. 0 \in ready' => backlog # <<>>
    BY <1>1, <1>2
  <2>2. \A e \in Entries :
            /\ e \in ready' => /\ At(e) # NoFd
                               /\ \/ arrived[At(e)] # "nothing"
                                  \/ peer[At(e)] = "closed"
            /\ e \in hung_up' => At(e) # NoFd /\ peer[At(e)] = "closed"
    BY <1>1, <1>2
  <2> QED
    BY <2>1, <2>2 DEF Reported, At
<1> QED
  BY <1>3, <1>4, <1>5

(* The entry was free, the connection nobody's: nothing is lost.           *)
LEMMA AcceptStep ==
    ASSUME SocketInv, Accept
    PROVE  SocketInv'
<1> USE DEF SocketInv
<1>1. PICK j \in Free : sock_array' = [sock_array EXCEPT ![j] = Head(backlog)]
  BY DEF Accept
<1>2. /\ pc = "incoming" /\ 0 \in ready /\ fds' = fds \cup {Head(backlog)}
      /\ backlog' = Tail(backlog) /\ pc' = "connected"
      /\ UNCHANGED <<ready, hung_up, peer, arrived, served, k, thread_running>>
  BY DEF Accept, pollVars
<1>3. PICK c \in Conns : c = Head(backlog) /\ c = backlog[1]
  BY <1>2, BacklogFacts DEF SocketTypeOK, Reported
<1>4. /\ Tail(backlog) \in Seq(Conns) /\ 1 \in DOMAIN backlog
      /\ \A n \in DOMAIN backlog' : /\ n + 1 \in DOMAIN backlog /\ n + 1 # 1
                                  /\ backlog'[n] = backlog[n + 1]
                                  /\ n \in Nat
  BY <1>2, BacklogFacts DEF SocketTypeOK, Reported
<1>5. c \notin fds /\ peer[c] # "away" /\ c # NoFd
  BY <1>3, <1>4, EntryFacts DEF Queued
<1>6. /\ j \in Entries /\ sock_array[j] = NoFd
      /\ \A e \in Entries : sock_array'[e] = IF e = j THEN c ELSE sock_array[e]
  BY <1>1, <1>3 DEF Free, SocketTypeOK
<1>7. SocketTypeOK'
  BY <1>1, <1>2, <1>3, <1>4 DEF SocketTypeOK
<1>8. Listed'
  <2>1. /\ \A e \in Entries : sock_array[e] # NoFd => sock_array[e] \in fds
        /\ \A d \in fds : \E e \in Entries : sock_array[e] = d
        /\ \A e, f \in Entries :
               sock_array[e] # NoFd /\ sock_array[e] = sock_array[f] => e = f
    BY <1>2 DEF Listed, At
  <2>2. \A e \in Entries : sock_array'[e] # NoFd => sock_array'[e] \in fds'
    BY <1>2, <1>3, <1>6, <2>1
  <2>3. ASSUME NEW d \in fds' PROVE \E e \in Entries : sock_array'[e] = d
    <3>1. CASE d = c
      BY <1>6, <3>1
    <3>2. CASE d \in fds
      <4>1. PICK e \in Entries : sock_array[e] = d
        BY <2>1, <3>2
      <4>2. e # j
        BY <1>6, <3>2, <4>1, EntryFacts DEF SocketTypeOK
      <4> QED
        BY <1>6, <4>1, <4>2
    <3> QED
      BY <1>2, <1>3, <3>1, <3>2
  <2>4. \A e, f \in Entries :
            sock_array'[e] # NoFd /\ sock_array'[e] = sock_array'[f] => e = f
    BY <1>2, <1>5, <1>6, <2>1
  <2> QED
    BY <2>2, <2>3, <2>4 DEF Listed, At
<1>9. Queued'
  <2>1. \A n \in DOMAIN backlog' : backlog'[n] # c
    BY <1>3, <1>4 DEF Queued
  <2>2. \A m, n \in DOMAIN backlog' : backlog'[m] = backlog'[n] => m = n
    BY <1>4 DEF Queued
  <2> QED
    BY <1>2, <1>3, <1>4, <1>5, <2>1, <2>2 DEF Queued
<1>10. Reported'
  <2>1. \A e \in Entries : e >= k /\ e \in ready \cup hung_up => e # j
    BY <1>2, <1>6 DEF Reported, At
  <2> QED
    BY <1>2, <1>6, <2>1 DEF Reported, At
<1> QED
  BY <1>7, <1>8, <1>9, <1>10

(* The entry the thread is at, when it has something to do there.          *)
LEMMA EntryInTurn ==
    ASSUME SocketInv, k \in Entries, pc \in {"connected", "stuck"},
           k \in ready \/ k \in hung_up
    PROVE  /\ At(k) \in Conns /\ At(k) # NoFd /\ k + 1 \in 2..MAX_SOCK
           /\ k \in hung_up \/ arrived[At(k)] = "nothing"
                  => peer[At(k)] = "closed"
           /\ \A e \in Entries : e >= k + 1 => e >= k /\ e # k
           /\ \A e \in Entries : At(e) = At(k) => e = k
<1> USE DEF SocketInv
<1>1. /\ k >= k /\ k + 1 \in 2..MAX_SOCK
      /\ \A e \in Entries : e >= k + 1 => e >= k /\ e # k
  BY EntryFacts
<1>2. At(k) # NoFd /\ At(k) \in Conns
  BY <1>1 DEF SocketTypeOK, Reported, At
<1>3. k \in hung_up \/ arrived[At(k)] = "nothing" => peer[At(k)] = "closed"
  BY <1>1 DEF Reported
<1>4. \A e \in Entries : At(e) = At(k) => e = k
  BY <1>2 DEF Listed
<1> QED
  BY <1>1, <1>2, <1>3, <1>4

(* The steps of the thread that open and close nothing, and read nothing.  *)
LEMMA GoOnStep ==
    ASSUME SocketInv,
           \/ AcceptWhenFull \/ NoAccept \/ SkipEntry \/ StartPiece
           \/ EndOfRound \/ RequestStop
    PROVE  SocketInv'
<1> USE DEF SocketInv, tableVars, pollVars
<1>1. CASE AcceptWhenFull
  <2> USE DEF AcceptWhenFull
  <2>1. /\ Tail(backlog) \in Seq(Conns)
        /\ \A n \in DOMAIN backlog' : /\ n + 1 \in DOMAIN backlog /\ n \in Nat
                                    /\ backlog'[n] = backlog[n + 1]
    BY <1>1, BacklogFacts DEF SocketTypeOK, Reported
  <2>2. SocketTypeOK'
    BY <1>1, <2>1 DEF SocketTypeOK
  <2>3. Listed' /\ Reported'
    BY <1>1 DEF Listed, Reported, At
  <2>4. Queued'
    BY <1>1, <2>1 DEF Queued
  <2> QED
    BY <2>2, <2>3, <2>4
<1>2. CASE NoAccept \/ RequestStop
  <2> USE DEF NoAccept, RequestStop
  <2>1. SocketTypeOK'
    BY <1>2 DEF SocketTypeOK
  <2>2. Listed' /\ Queued'
    BY <1>2 DEF Listed, Queued, At
  <2>3. Reported'
    BY <1>2 DEF Reported, At
  <2> QED
    BY <2>1, <2>2, <2>3
<1>3. CASE SkipEntry
  <2> USE DEF SkipEntry, AtEntry
  <2>1. /\ k + 1 \in 2..MAX_SOCK
        /\ \A e \in Entries : e >= k + 1 => e >= k
    BY <1>3, EntryFacts
  <2>2. SocketTypeOK'
    BY <1>3, <2>1 DEF SocketTypeOK
  <2>3. Listed' /\ Queued'
    BY <1>3 DEF Listed, Queued, At
  <2>4. Reported'
    BY <1>3, <2>1 DEF Reported, At
  <2> QED
    BY <2>2, <2>3, <2>4
<1>4. CASE StartPiece
  <2> USE DEF StartPiece, AtEntry
  <2>1. SocketTypeOK'
    BY <1>4 DEF SocketTypeOK
  <2>2. Listed' /\ Queued' /\ Reported'
    BY <1>4 DEF Listed, Queued, Reported, At
  <2> QED
    BY <2>1, <2>2
<1>5. CASE EndOfRound
  <2> USE DEF EndOfRound
  <2>1. SocketTypeOK'
    BY <1>5, EntryFacts DEF SocketTypeOK
  <2>2. Listed' /\ Queued' /\ Reported'
    BY <1>5 DEF Listed, Queued, Reported, At
  <2> QED
    BY <2>1, <2>2
<1> QED
  BY <1>1, <1>2, <1>3, <1>4, <1>5

(* The entry at k is read: no entry after it is the same connection's, so  *)
(* what poll said of those stays true.                                     *)
LEMMA ReadStep ==
    ASSUME SocketInv, ServeWhole \/ Resume
    PROVE  SocketInv'
<1> USE DEF SocketInv, tableVars, pollVars, ServeWhole, Resume, AtEntry
<1>1. k \in Entries /\ pc \in {"connected", "stuck"} /\ k \in ready
  BY DEF Reported
<1>2. SocketTypeOK'
  BY <1>1, EntryInTurn DEF SocketTypeOK, message
<1>3. Listed' /\ Queued'
  BY DEF Listed, Queued, At
<1>4. Reported'
  <2>1. /\ pc' = "connected" /\ k' = k + 1
        /\ arrived' = [arrived EXCEPT ![At(k)] = "nothing"]
        /\ UNCHANGED <<sock_array, ready, hung_up, peer>>
    OBVIOUS
  <2>2. \A e \in Entries : e >= k + 1 =>
            e >= k /\ (At(e) # NoFd => arrived'[At(e)] = arrived[At(e)])
    BY <1>1, <2>1, EntryInTurn DEF SocketTypeOK, At
  <2> QED
    BY <1>1, <2>1, <2>2 DEF Reported, At
<1> QED
  BY <1>2, <1>3, <1>4

(* The entry at k is closed, and freed with it.                            *)
LEMMA CloseStep ==
    ASSUME SocketInv, HangUp \/ EndOfFile
    PROVE  SocketInv'
<1> USE DEF SocketInv
<1>1. /\ k \in Entries /\ pc = "connected" /\ (k \in ready \/ k \in hung_up)
      /\ sock_array' = [sock_array EXCEPT ![k] = NoFd]
      /\ fds' = fds \ {At(k)} /\ k' = k + 1
      /\ UNCHANGED <<ready, hung_up, backlog, peer, arrived, served, pc,
                     thread_running>>
  BY DEF HangUp, EndOfFile, CloseEntry, AtEntry, pollVars
<1>2. \A e \in Entries : sock_array'[e] = IF e = k THEN NoFd ELSE sock_array[e]
  BY <1>1 DEF SocketTypeOK
<1>3. SocketTypeOK'
  BY <1>1, EntryInTurn DEF SocketTypeOK
<1>4. Listed'
  BY <1>1, <1>2, EntryInTurn DEF Listed, At
<1>5. Queued'
  BY <1>1 DEF Queued
<1>6. Reported'
  BY <1>1, <1>2, EntryInTurn DEF Reported, At
<1> QED
  BY <1>3, <1>4, <1>5, <1>6

LEMMA StopStep ==
    ASSUME SocketInv, Stop
    PROVE  SocketInv'
<1> USE DEF SocketInv, Stop, pollVars
<1>1. SocketTypeOK'
  BY DEF SocketTypeOK
<1>2. Listed' /\ Queued' /\ Reported'
  BY DEF Listed, Queued, Reported, At
<1> QED
  BY <1>1, <1>2
-----------------------------------------------------------------------------
LEMMA SocketInvNext == SocketInv /\ [Next]_vars => SocketInv'
<1> SUFFICES ASSUME SocketInv, [Next]_vars PROVE SocketInv'
  OBVIOUS
<1>1. CASE UNCHANGED vars
  BY <1>1 DEF vars, tableVars, pollVars, controlVars, SocketInv, SocketTypeOK,
              Listed, Queued, Reported, At
<1>2. CASE PeerStep
  BY <1>2, ConnectStep, PeerStepKeeps DEF PeerStep
<1>3. CASE Round \/ RequestStop
  BY <1>3, PollStep, AcceptStep, GoOnStep, ReadStep, CloseStep, StopStep
     DEF Round
<1> QED
  BY <1>1, <1>2, <1>3 DEF Next

(* The thread stays inside its array, and the kernel's queue is well typed.*)
THEOREM SocketTypeCorrect == Spec => []SocketTypeOK
<1>1. SocketInv => SocketTypeOK
  BY DEF SocketInv
<1> QED
  BY <1>1, SocketInvInit, SocketInvNext, PTL DEF Spec

(* While the thread runs, the array lists the open connections, each once. *)
THEOREM OpenAreListed == Spec => []OpenIsListed
<1>1. SocketInv => OpenIsListed
  <2> SUFFICES ASSUME SocketInv, pc # "stopped"
               PROVE  /\ {At(e) : e \in Entries \ Free} = fds
                      /\ \A e, f \in Entries \ Free : At(e) = At(f) => e = f
    BY DEF OpenIsListed
  <2>1. \A e \in Entries : e \in Entries \ Free <=> At(e) # NoFd
    BY DEF Free, At
  <2>2. \A c \in fds : c # NoFd
    BY EntryFacts DEF SocketInv, SocketTypeOK
  <2> QED
    BY <2>1, <2>2 DEF SocketInv, Listed
<1> QED
  BY <1>1, SocketInvInit, SocketInvNext, PTL DEF Spec

(* An entry that poll reported is, when its turn comes, still the same     *)
(* connection, which has something to read or is at its end.               *)
THEOREM ReadyStaysReady == Spec => []ReadyIsReady
<1>1. ASSUME SocketInv, pc = "connected", NEW e \in (ready \cap Entries) \ 2..k-1
      PROVE  /\ At(e) # NoFd
             /\ arrived[At(e)] # "nothing" \/ peer[At(e)] = "closed"
  <2>1. e \in Entries /\ e \in ready /\ e >= k
    BY <1>1, EntryFacts DEF SocketInv, SocketTypeOK
  <2> QED
    BY <1>1, <2>1 DEF SocketInv, Reported
<1>2. SocketInv => ReadyIsReady
  BY <1>1 DEF ReadyIsReady
<1> QED
  BY <1>2, SocketInvInit, SocketInvNext, PTL DEF Spec

(* As long as it is not being stopped, the node closes a connection only   *)
(* after its peer did.                                                     *)
THEOREM OnlyPeersClose == Spec => ClosedAfterPeer
<1> DEFINE Closed == pc' # "stopped" =>
                         \A c \in fds \ fds' : peer[c] = "closed"
<1>1. ASSUME SocketInv, Round PROVE Closed
  <2>1. CASE HangUp \/ EndOfFile
    <3>1. /\ fds' = fds \ {At(k)} /\ k \in Entries /\ pc = "connected"
          /\ \/ k \in hung_up
             \/ k \in ready /\ arrived[At(k)] = "nothing"
      BY <2>1 DEF HangUp, EndOfFile, CloseEntry, AtEntry
    <3> QED
      BY <1>1, <3>1, EntryInTurn
  <2>2. CASE Stop
    BY <2>2 DEF Stop
  <2>3. CASE Poll \/ AcceptWhenFull \/ NoAccept \/ SkipEntry \/ ServeWhole
             \/ StartPiece \/ Resume \/ EndOfRound
    BY <2>3 DEF Poll, AcceptWhenFull, NoAccept, SkipEntry, ServeWhole,
                StartPiece, Resume, EndOfRound, tableVars
  <2>4. CASE Accept
    BY <2>4 DEF Accept
  <2> QED
    BY <1>1, <2>1, <2>2, <2>3, <2>4 DEF Round
<1>2. ASSUME SocketInv, PeerStep \/ RequestStop PROVE Closed
  BY <1>2 DEF PeerStep, Connect, Deliver, PeerCloses, RequestStop, tableVars
<1>3. SocketInv /\ [Next]_vars => [Closed]_vars
  BY <1>1, <1>2 DEF Next
<1> QED
  BY <1>3, SocketInvInit, SocketInvNext, PTL DEF Spec, ClosedAfterPeer
=============================================================================
