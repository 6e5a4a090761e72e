------------------------- MODULE Replication_proofs -------------------------
(***************************************************************************)
(* The lists of owners fit into the pair, and name only nodes that have    *)
(* the file or for whose lack of it there is a known reason: for any       *)
(* number of nodes, of replicas, of uploads and of restarts, although      *)
(* nodes wait for each other, carry out PUTs that were given up, and send  *)
(* on whatever their directory has.                                        *)
(***************************************************************************)
EXTENDS Replication, TLAPS

(* Those that have the file, or a known reason for not having it.          *)
Good ==
    {p \in Nodes :
        copy[p] = "whole" \/ \E why \in Reasons : <<p, why>> \in spoiled}

(* Some file was spoiled other than by a PUT of a part.                    *)
Began == \E q \in Nodes, why \in Reasons \ {"part"} : <<q, why>> \in spoiled

(* A loop over the peers is never past the replicas it may make, and has   *)
(* gathered no more owners than peers it has passed, and the node itself.  *)
LoopsInBounds ==
    \A n \in Nodes :
        /\ pc[n] \in {"put", "await"} =>
               /\ Len(kv[n]) <= i[n] /\ i[n] <= K_VALUE
        /\ pc[n] = "await" => i[n] < K_VALUE /\ i[n] <= Len(out_peers[n])

(* A PUT has a file to send, and a download that awaits a body a peer.     *)
DataAwaited ==
    \A n \in Nodes :
        /\ pc[n] = "await" => sends[n] # "nothing"
        /\ body[n] # "none" => /\ pc[n] \in {"get", "own"}
                              /\ i[n] \in DOMAIN out_peers[n]

(* A PUT that a peer may still answer is the one its sender waits for.     *)
OpenIsAwaited ==
    \A p, n \in Nodes :
        Put(n, "open") \in inbox[p] => pc[n] = "await" /\ Peer(n) = p

(* Before that there is no part anywhere: in no directory, in no memory    *)
(* and in no socket.                                                       *)
PartsBegan ==
    Began \/ \A n \in Nodes :
                 /\ copy[n] # "partial" /\ sends[n] # "part"
                 /\ <<n, "part">> \notin spoiled
                 /\ \A m \in Nodes : Put(m, "part") \notin inbox[n]

AskedAreGood == asked \subseteq Good

ListsGood ==
    \A n \in Nodes :
        /\ Elems(stored[n]) \subseteq Good /\ Elems(kv[n]) \subseteq Good
        /\ \A s \in Lists(K_VALUE) :
               Store(s) \in inbox[n] => Elems(s) \subseteq Good

ReplicationInv ==
    ReplicationTypeOK /\ LoopsInBounds /\ OpenIsAwaited /\ ListsGood
        /\ DataAwaited /\ PartsBegan /\ AskedAreGood
-----------------------------------------------------------------------------
LEMMA ListsAreSequences ==
    ASSUME NEW n \in Nat, NEW s
    PROVE  s \in Lists(n) <=> s \in Seq(Nodes) /\ Len(s) <= n
<1>1. ASSUME s \in Lists(n) PROVE s \in Seq(Nodes) /\ Len(s) <= n
  <2>1. PICK m \in 0..n : s \in [1..m -> Nodes]
    BY <1>1 DEF Lists
  <2> QED
    BY <2>1
<1>2. ASSUME s \in Seq(Nodes), Len(s) <= n PROVE s \in Lists(n)
  <2>1. Len(s) \in 0..n /\ s \in [1..Len(s) -> Nodes]
    BY <1>2
  <2> QED
    BY <2>1 DEF Lists
<1> QED
  BY <1>1, <1>2

LEMMA MessageForms ==
    /\ \A n, b, s : Put(n, b) # Store(s)
    /\ \A n, b, m, c : Put(n, b) = Put(m, c) => n = m /\ b = c
    /\ \A s, t : Store(s) = Store(t) => s = t
    /\ \A n, b : Put(n, b).type = "PUT" /\ Put(n, b).body = b
    /\ \A s : Store(s).type = "STORE" /\ Store(s).owners = s
<1>1. /\ \A n, b, s : Put(n, b) # Store(s)
      /\ \A n, b, m, c : Put(n, b) = Put(m, c) => n = m /\ b = c
      /\ \A s, t : Store(s) = Store(t) => s = t
  BY DEF Put, Store
<1>2. /\ \A n, b : Put(n, b).type = "PUT" /\ Put(n, b).body = b
      /\ \A s : Store(s).type = "STORE" /\ Store(s).owners = s
  BY DEF Put, Store
<1> QED
  BY <1>1, <1>2

Bodies == {"open", "whole", "part", "cut"}

LEMMA MessageKinds ==
    /\ \A m \in Messages : m.type = "STORE" =>
           \E s \in Lists(K_VALUE) : m = Store(s) /\ m.owners = s
    /\ \A m \in Messages : m.type = "PUT" =>
           \E n \in Nodes, b \in Bodies : m = Put(n, b) /\ m.body = b
    /\ \A n \in Nodes, b \in Bodies : Put(n, b) \in Messages
    /\ \A s \in Lists(K_VALUE) : Store(s) \in Messages
<1>1. ASSUME NEW m \in Messages
      PROVE  \/ \E n \in Nodes, b \in Bodies : m = Put(n, b)
             \/ \E s \in Lists(K_VALUE) : m = Store(s)
  BY DEF Messages, Bodies
<1>2. /\ \A m \in Messages : m.type = "STORE" =>
             \E s \in Lists(K_VALUE) : m = Store(s) /\ m.owners = s
      /\ \A m \in Messages : m.type = "PUT" =>
             \E n \in Nodes, b \in Bodies : m = Put(n, b) /\ m.body = b
  BY <1>1, MessageForms
<1>3. /\ \A n \in Nodes, b \in Bodies : Put(n, b) \in Messages
      /\ \A s \in Lists(K_VALUE) : Store(s) \in Messages
  BY DEF Messages, Bodies
<1> QED
  BY <1>2, <1>3

(* CreateFile loses nobody, and the node it is at is a good one after it.  *)
(* A part comes of it only where there was one, or where one begins.       *)
LEMMA CreateFileKeeps ==
    ASSUME NEW p \in Nodes, NEW what \in {"whole", "part", "cut"},
           ReplicationTypeOK, CreateFile(p, what)
    PROVE  /\ copy' \in [Nodes -> {"none", "partial", "whole"}]
           /\ spoiled' \subseteq Nodes \X Reasons /\ spoiled \subseteq spoiled'
           /\ Good \subseteq Good' /\ p \in Good'
           /\ Began => Began'
           /\ \/ Began'
              \/ what = "part"
              \/ spoiled' = spoiled /\ copy' = [copy EXCEPT ![p] = "whole"]
<1>1. CASE what = "whole" /\ copy' = [copy EXCEPT ![p] = "whole"]
           /\ spoiled' = spoiled
  BY <1>1 DEF Good, Began, ReplicationTypeOK
<1>2. ASSUME NEW why \in Reasons, spoiled' = spoiled \cup {<<p, why>>},
             copy' \in {copy, [copy EXCEPT ![p] = "partial"]}
      PROVE  /\ copy' \in [Nodes -> {"none", "partial", "whole"}]
             /\ spoiled' \subseteq Nodes \X Reasons /\ spoiled \subseteq spoiled'
             /\ Good \subseteq Good' /\ p \in Good'
             /\ Began => Began'
             /\ why # "part" => Began'
  <2>1. \A q \in Nodes \ {p} : copy'[q] = copy[q]
    BY <1>2 DEF ReplicationTypeOK
  <2>2. <<p, why>> \in spoiled' /\ spoiled \subseteq spoiled'
    BY <1>2
  <2>3. Good \subseteq Good' /\ p \in Good'
    BY <2>1, <2>2 DEF Good
  <2>4. (Began => Began') /\ (why # "part" => Began')
    BY <2>2 DEF Began
  <2>5. spoiled' \subseteq Nodes \X Reasons
    BY <1>2 DEF ReplicationTypeOK
  <2>6. copy' \in [Nodes -> {"none", "partial", "whole"}]
    BY <1>2 DEF ReplicationTypeOK
  <2> QED
    BY <2>2, <2>3, <2>4, <2>5, <2>6
<1>3. CASE \E why \in {what, "disk"} \ {"whole"} :
               /\ spoiled' = spoiled \cup {<<p, why>>}
               /\ copy' \in {copy, [copy EXCEPT ![p] = "partial"]}
  <2>1. PICK why \in {what, "disk"} \ {"whole"} :
            /\ spoiled' = spoiled \cup {<<p, why>>}
            /\ copy' \in {copy, [copy EXCEPT ![p] = "partial"]}
    BY <1>3
  <2>2. why \in Reasons
    BY DEF Reasons
  <2> QED
    BY <1>2, <2>1, <2>2
<1> QED
  BY <1>1, <1>3 DEF CreateFile

LEMMA ListFacts ==
    /\ K_VALUE \in Nat /\ K_VALUE >= 1
    /\ <<>> \in Lists(K_VALUE) /\ Elems(<<>>) = {}
    /\ \A n \in Nodes : <<n>> \in Lists(K_VALUE) /\ Elems(<<n>>) = {n}
    /\ \A s \in Lists(K_VALUE), n \in Nodes :
           /\ Len(s) < K_VALUE => Append(s, n) \in Lists(K_VALUE)
           /\ Len(Append(s, n)) = Len(s) + 1
           /\ Elems(Append(s, n)) = Elems(s) \cup {n}
    /\ \A s \in Lists(K_VALUE) : /\ Len(s) \in 0..K_VALUE
                                 /\ DOMAIN s = 1..Len(s)
                                 /\ \A m \in DOMAIN s : s[m] \in Nodes
<1>1. K_VALUE \in Nat /\ K_VALUE >= 1
  BY ReplicationAssumption
<1>2. <<>> \in Lists(K_VALUE) /\ Elems(<<>>) = {}
  <2>1. <<>> \in Seq(Nodes) /\ Len(<<>>) = 0
    OBVIOUS
  <2>2. ASSUME NEW s, s = <<>> PROVE s \in Lists(K_VALUE)
    <3>1. s \in Seq(Nodes) /\ Len(s) = 0
      BY <2>2
    <3>2. Len(s) <= K_VALUE
      BY <1>1, <3>1
    <3> QED
      BY <1>1, <3>1, <3>2, ListsAreSequences
  <2>3. Elems(<<>>) = {}
    <3>1. DOMAIN <<>> = {}
      OBVIOUS
    <3> QED
      BY <3>1, Zenon DEF Elems
  <2> QED
    BY <2>2, <2>3
<1>3. ASSUME NEW n \in Nodes
      PROVE  <<n>> \in Lists(K_VALUE) /\ Elems(<<n>>) = {n}
  <2>1. <<n>> \in Seq(Nodes) /\ Len(<<n>>) = 1
    OBVIOUS
  <2>2. <<n>> \in Lists(K_VALUE)
    BY <1>1, <2>1, ListsAreSequences
  <2>3. Elems(<<n>>) = {n}
    BY DEF Elems
  <2> QED
    BY <2>2, <2>3
<1>4. ASSUME NEW s \in Lists(K_VALUE)
      PROVE  /\ s \in Seq(Nodes) /\ Len(s) \in 0..K_VALUE
             /\ DOMAIN s = 1..Len(s)
             /\ \A m \in DOMAIN s : s[m] \in Nodes
  BY <1>1, ListsAreSequences
<1>5. ASSUME NEW s \in Lists(K_VALUE), NEW n \in Nodes
      PROVE  /\ Len(s) < K_VALUE => Append(s, n) \in Lists(K_VALUE)
             /\ Len(Append(s, n)) = Len(s) + 1
             /\ Elems(Append(s, n)) = Elems(s) \cup {n}
  <2>1. s \in Seq(Nodes) /\ Len(s) \in Nat
    BY <1>4
  <2>2. /\ Append(s, n) \in Seq(Nodes) /\ Len(Append(s, n)) = Len(s) + 1
        /\ Append(s, n)[Len(s) + 1] = n
        /\ \A m \in 1..Len(s) : Append(s, n)[m] = s[m]
    BY <2>1
  <2>3. Elems(Append(s, n)) = Elems(s) \cup {n}
    BY <2>1, <2>2 DEF Elems
  <2>4. Len(s) < K_VALUE => Append(s, n) \in Lists(K_VALUE)
    <3>1. Len(s) < K_VALUE => Len(Append(s, n)) <= K_VALUE
      BY <1>1, <2>1, <2>2
    <3> QED
      BY <1>1, <2>2, <3>1, ListsAreSequences
  <2> QED
    BY <2>2, <2>3, <2>4
<1> QED
  BY <1>1, <1>2, <1>3, <1>4, <1>5
-----------------------------------------------------------------------------
(* A step of one thread that sends nothing and is not waiting for a PUT,   *)
(* and that gathers no owner.                                              *)
LEMMA ThreadStep ==
    ASSUME ReplicationInv, NEW n \in Nodes, pc[n] # "await",
           UNCHANGED <<diskVars, inbox, asked>>,
           sends' = sends \/ sends' = [sends EXCEPT ![n] = "nothing"],
           kv' = kv \/ kv' = [kv EXCEPT ![n] = <<>>],
           \A m \in Nodes \ {n} :
               pc'[m] = pc[m] /\ out_peers'[m] = out_peers[m] /\ i'[m] = i[m]
    PROVE  OpenIsAwaited' /\ ListsGood' /\ PartsBegan' /\ AskedAreGood'
<1>1. OpenIsAwaited'
  BY DEF ReplicationInv, OpenIsAwaited, Peer
<1>2. Good' = Good /\ stored' = stored /\ inbox' = inbox
  BY DEF Good, diskVars
<1>3. \A m \in Nodes : kv'[m] = kv[m] \/ kv'[m] = <<>>
  BY DEF ReplicationInv, ReplicationTypeOK
<1>4. ListsGood'
  BY <1>2, <1>3, ListFacts DEF ReplicationInv, ListsGood
<1>5. \A m \in Nodes : sends'[m] = sends[m] \/ sends'[m] = "nothing"
  BY DEF ReplicationInv, ReplicationTypeOK
<1>6. PartsBegan' /\ AskedAreGood'
  BY <1>2, <1>5 DEF ReplicationInv, PartsBegan, AskedAreGood, Began, diskVars
<1> QED
  BY <1>1, <1>4, <1>6
-----------------------------------------------------------------------------
LEMMA LoopFacts ==
    ASSUME ReplicationInv, NEW n \in Nodes
    PROVE  /\ i[n] \in 1..K_VALUE+1 /\ K_VALUE \in Nat /\ K_VALUE >= 1
           /\ Len(out_peers[n]) \in 0..K_VALUE /\ Len(kv[n]) \in 0..K_VALUE
           /\ More(n) <=> i[n] <= Len(out_peers[n])
           /\ More(n) => Peer(n) \in Nodes
  BY ListFacts DEF ReplicationInv, ReplicationTypeOK, More, Peer

(* The steps of a download, and those of an upload that send nothing and   *)
(* list nobody.                                                            *)
LEMMA QuietStep ==
    ASSUME ReplicationInv, NEW n \in Nodes,
           \/ Download(n) \/ Owns(n) \/ Get(n) \/ GetRetries(n) \/ GetEnds(n)
           \/ GetFails(n) \/ NobodyServed(n)
           \/ PutRefused(n) \/ PutLoopEnds(n) \/ UploadReturns(n)
    PROVE  ReplicationInv'
<1> USE DEF ReplicationInv
<1>1. CASE Download(n)
  <2>1. PICK from \in {"get", "own"}, peers \in Lists(K_VALUE) :
            StartDownload(n, from, peers)
    BY <1>1, ListFacts DEF Download, ReplicationTypeOK
  <2> USE DEF StartDownload, Idle
  <2>2. ReplicationTypeOK' /\ LoopsInBounds' /\ DataAwaited'
    BY <2>1 DEF ReplicationTypeOK, LoopsInBounds, diskVars, countVars,
        DataAwaited
  <2>3. OpenIsAwaited' /\ ListsGood' /\ PartsBegan' /\ AskedAreGood'
    BY <2>1, ThreadStep DEF ReplicationTypeOK, countVars
  <2> QED
    BY <2>2, <2>3
<1>2. CASE pc[n] \in {"get", "own"} /\ DownloadReturns(n)
  <2> USE DEF DownloadReturns
  <2>1. ReplicationTypeOK' /\ LoopsInBounds' /\ DataAwaited'
    BY <1>2, ListFacts DEF ReplicationTypeOK, LoopsInBounds, diskVars, countVars,
        DataAwaited
  <2>2. OpenIsAwaited' /\ ListsGood' /\ PartsBegan' /\ AskedAreGood'
    BY <1>2, ThreadStep DEF ReplicationTypeOK, countVars
  <2> QED
    BY <2>1, <2>2
<1>3. CASE pc[n] \in {"get", "own"} /\ More(n) /\ TriesNextPeer(n)
  <2> USE DEF TriesNextPeer
  <2>1. ReplicationTypeOK' /\ LoopsInBounds' /\ DataAwaited'
    BY <1>3, LoopFacts DEF ReplicationTypeOK, LoopsInBounds, diskVars, countVars,
        DataAwaited
  <2>2. OpenIsAwaited' /\ ListsGood' /\ PartsBegan' /\ AskedAreGood'
    BY <1>3, ThreadStep DEF ReplicationTypeOK, countVars
  <2> QED
    BY <2>1, <2>2
<1>4. CASE PutRefused(n)
  <2> USE DEF PutRefused, Replicates
  <2>1. ReplicationTypeOK' /\ LoopsInBounds' /\ DataAwaited'
    <3>1. i[n] + 1 \in 1..K_VALUE /\ Len(kv[n]) <= i[n] + 1
      BY <1>4, LoopFacts DEF LoopsInBounds
    <3>2. ReplicationTypeOK'
      BY <1>4, <3>1, LoopFacts DEF ReplicationTypeOK, diskVars, countVars
    <3>3. LoopsInBounds' /\ DataAwaited'
      BY <1>4, <3>1, LoopFacts DEF ReplicationTypeOK, LoopsInBounds, DataAwaited
    <3> QED
      BY <3>2, <3>3
  <2>2. OpenIsAwaited' /\ ListsGood' /\ PartsBegan' /\ AskedAreGood'
    BY <1>4, ThreadStep DEF ReplicationTypeOK, countVars
  <2> QED
    BY <2>1, <2>2
<1>5. CASE PutLoopEnds(n)
  <2> USE DEF PutLoopEnds
  <2>1. ReplicationTypeOK' /\ LoopsInBounds' /\ DataAwaited'
    BY <1>5, LoopFacts DEF ReplicationTypeOK, LoopsInBounds, diskVars, countVars,
        DataAwaited
  <2>2. OpenIsAwaited' /\ ListsGood' /\ PartsBegan' /\ AskedAreGood'
    BY <1>5, ThreadStep DEF ReplicationTypeOK, countVars
  <2> QED
    BY <2>1, <2>2
<1>6. CASE UploadReturns(n)
  <2> USE DEF UploadReturns
  <2>1. ReplicationTypeOK' /\ LoopsInBounds' /\ DataAwaited'
    BY <1>6, ListFacts DEF ReplicationTypeOK, LoopsInBounds, diskVars, countVars,
        DataAwaited
  <2>2. OpenIsAwaited' /\ ListsGood' /\ PartsBegan' /\ AskedAreGood'
    BY <1>6, ThreadStep DEF ReplicationTypeOK, countVars
  <2> QED
    BY <2>1, <2>2
<1>7. CASE GetRetries(n)
  <2> USE DEF GetRetries, Answered, Downloading
  <2>1. ReplicationTypeOK' /\ LoopsInBounds' /\ DataAwaited'
    BY <1>7 DEF ReplicationTypeOK, LoopsInBounds, diskVars, countVars,
        DataAwaited, More
  <2>2. OpenIsAwaited' /\ ListsGood' /\ PartsBegan' /\ AskedAreGood'
    BY <1>7, ThreadStep DEF ReplicationTypeOK, countVars
  <2> QED
    BY <2>1, <2>2
<1>8. CASE Owns(n) \/ Get(n) \/ NobodyServed(n) \/ GetFails(n)
  BY <1>2, <1>3, <1>8
     DEF Owns, AlreadyOwner, Get, Answered, NobodyServed, GetFails, Downloading
<1>9. CASE GetEnds(n)
  BY <1>2, <1>3, <1>9 DEF GetEnds, DataAwaited, More
<1> QED
  BY <1>1, <1>4, <1>5, <1>6, <1>7, <1>8, <1>9

(* The copy that the command line makes.                                   *)
LEMMA CopyStep ==
    ASSUME ReplicationInv, NEW n \in Nodes, Copy(n)
    PROVE  ReplicationInv'
<1> USE DEF ReplicationInv
<1>1. /\ copy' \in [Nodes -> {"none", "partial", "whole"}]
      /\ spoiled' \subseteq Nodes \X Reasons
      /\ Good \subseteq Good' /\ n \in Good' /\ (Began => Began')
      /\ \/ Began'
         \/ spoiled' = spoiled /\ copy' = [copy EXCEPT ![n] = "whole"]
  <2>1. CreateFile(n, "whole")
    BY DEF Copy
  <2> QED
    BY <2>1, CreateFileKeeps
<1>2. /\ UNCHANGED <<up, stored, inbox, threadVars>>
      /\ asked' = asked \cup {n}
  BY DEF Copy, ReplicationTypeOK
<1>3. ReplicationTypeOK'
  BY <1>1, <1>2 DEF ReplicationTypeOK, threadVars
<1>4. LoopsInBounds' /\ OpenIsAwaited' /\ DataAwaited'
  BY <1>2 DEF LoopsInBounds, OpenIsAwaited, DataAwaited, threadVars, Peer
<1>5. ListsGood'
  BY <1>1, <1>2 DEF ListsGood, threadVars
<1>6. PartsBegan' /\ AskedAreGood'
  BY <1>1, <1>2 DEF PartsBegan, AskedAreGood, Began, threadVars,
                    ReplicationTypeOK
<1> QED
  BY <1>3, <1>4, <1>5, <1>6

(* An upload has asked for a copy before it begins, so that its node has   *)
(* the file or a known reason for not having it.                           *)
LEMMA UploadStep ==
    ASSUME ReplicationInv, NEW n \in Nodes, Upload(n)
    PROVE  ReplicationInv'
<1> USE DEF ReplicationInv
<1>1. /\ copy' = copy /\ spoiled \subseteq spoiled'
      /\ spoiled' \subseteq Nodes \X Reasons
      /\ sends' \in [Nodes -> {"nothing", "part", "whole"}]
      /\ \A m \in Nodes \ {n} : sends'[m] = sends[m]
      /\ \/ Began \/ Began'
         \/ spoiled' = spoiled /\ sends'[n] # "part"
  <2>1. copy' = copy /\ ReadsCopy(n) /\ copy[n] \in {"none", "partial", "whole"}
    BY DEF Upload, ReplicationTypeOK
  <2>2. CASE \E what \in {"nothing", "part", "whole"} :
                 /\ sends' = [sends EXCEPT ![n] = what] /\ spoiled' = spoiled
                 /\ what = "part" => copy[n] = "partial"
    <3>1. PICK what \in {"nothing", "part", "whole"} :
              /\ sends' = [sends EXCEPT ![n] = what] /\ spoiled' = spoiled
              /\ what = "part" => copy[n] = "partial"
      BY <2>2
    <3>2. sends' \in [Nodes -> {"nothing", "part", "whole"}] /\ sends'[n] = what
      BY <3>1 DEF ReplicationTypeOK
    <3>3. \A m \in Nodes \ {n} : sends'[m] = sends[m]
      BY <3>1 DEF ReplicationTypeOK
    <3>4. Began \/ copy[n] # "partial"
      BY DEF PartsBegan
    <3> QED
      BY <2>1, <3>1, <3>2, <3>3, <3>4 DEF ReplicationTypeOK
  <2>3. CASE /\ sends' = [sends EXCEPT ![n] = "part"]
             /\ spoiled' = spoiled \cup {<<n, "disk">>}
    <3>1. sends' \in [Nodes -> {"nothing", "part", "whole"}]
      BY <2>3 DEF ReplicationTypeOK
    <3>2. \A m \in Nodes \ {n} : sends'[m] = sends[m]
      BY <2>3 DEF ReplicationTypeOK
    <3>3. "disk" \in Reasons /\ spoiled \subseteq Nodes \X Reasons
      BY DEF ReplicationTypeOK, Reasons
    <3>4. spoiled' \subseteq Nodes \X Reasons /\ Began'
      BY <2>3, <3>3 DEF Began
    <3> QED
      BY <2>1, <2>3, <3>1, <3>2, <3>4
  <2> QED
    BY <2>1, <2>2, <2>3 DEF ReadsCopy
<1>2. Good \subseteq Good' /\ (Began => Began') /\ n \in Good
  <2>1. n \in Good
    BY DEF AskedAreGood, Upload
  <2> QED
    BY <1>1, <2>1 DEF Good, Began
<1>3. PICK peers \in Lists(K_VALUE) :
          out_peers' = [out_peers EXCEPT ![n] = peers]
  BY ListFacts DEF Upload
<1>4. PICK own \in Lists(K_VALUE) :
          /\ Len(own) = 1 /\ Elems(own) = {n}
          /\ kv' = [kv EXCEPT ![n] = own]
          /\ stored' = [stored EXCEPT ![n] = IF @ = <<>> THEN own ELSE @]
  <2>1. <<n>> \in Lists(K_VALUE) /\ Len(<<n>>) = 1 /\ Elems(<<n>>) = {n}
    BY ListFacts
  <2> QED
    BY <2>1 DEF Upload, storage_put_value
<1>5. /\ pc[n] = "serve" /\ UNCHANGED <<up, inbox, body>>
      /\ i' = [i EXCEPT ![n] = 1] /\ pc' = [pc EXCEPT ![n] = "put"]
      /\ asked' \subseteq asked
  BY DEF Upload, Idle
<1>6. \A m \in Nodes : /\ kv'[m] = IF m = n THEN own ELSE kv[m]
                      /\ stored'[m] \in {stored[m], kv'[m]}
  BY <1>4 DEF ReplicationTypeOK
<1>7. ReplicationTypeOK'
  <2>1. kv' \in [Nodes -> Lists(K_VALUE)] /\ stored' \in [Nodes -> Lists(K_VALUE)]
    BY <1>4 DEF ReplicationTypeOK
  <2>2. i' \in [Nodes -> 1..K_VALUE+1]
    BY <1>5, ListFacts DEF ReplicationTypeOK
  <2>3. /\ pc' \in [Nodes -> {"serve", "put", "await", "store", "get", "own"}]
        /\ out_peers' \in [Nodes -> Lists(K_VALUE)]
    BY <1>3, <1>5 DEF ReplicationTypeOK
  <2> QED
    BY <1>1, <1>5, <2>1, <2>2, <2>3 DEF ReplicationTypeOK
<1>8. LoopsInBounds' /\ DataAwaited'
  <2>1. pc'[n] = "put" /\ Len(kv'[n]) <= i'[n] /\ i'[n] <= K_VALUE
    <3>1. pc'[n] = "put" /\ i'[n] = 1 /\ kv'[n] = own
      BY <1>5, <1>6 DEF ReplicationTypeOK
    <3>2. Len(own) <= 1 /\ 1 <= K_VALUE
      BY <1>4, ReplicationAssumption
    <3> QED
      BY <3>1, <3>2, Zenon
  <2>2. \A m \in Nodes \ {n} :
            /\ pc'[m] = pc[m] /\ kv'[m] = kv[m] /\ i'[m] = i[m]
            /\ out_peers'[m] = out_peers[m] /\ sends'[m] = sends[m]
            /\ body'[m] = body[m]
    BY <1>1, <1>3, <1>5, <1>6 DEF ReplicationTypeOK
  <2>3. pc'[n] # "await" /\ body'[n] = "none"
    BY <1>5, <2>1 DEF DataAwaited
  <2> QED
    BY <2>1, <2>2, <2>3 DEF LoopsInBounds, DataAwaited
<1>9. OpenIsAwaited'
  BY <1>3, <1>5 DEF ReplicationTypeOK, OpenIsAwaited, Peer
<1>10. ListsGood'
  <2>1. \A m \in Nodes : /\ Elems(kv'[m]) \subseteq Good'
                        /\ Elems(stored'[m]) \subseteq Good'
    BY <1>2, <1>4, <1>6 DEF ListsGood
  <2> QED
    BY <1>2, <1>5, <2>1 DEF ListsGood
<1>11. PartsBegan' /\ AskedAreGood'
  BY <1>1, <1>2, <1>5 DEF PartsBegan, AskedAreGood
<1> QED
  BY <1>7, <1>8, <1>9, <1>10, <1>11

LEMMA PutConnectsStep ==
    ASSUME ReplicationInv, NEW n \in Nodes, PutConnects(n)
    PROVE  ReplicationInv'
<1> USE DEF ReplicationInv, PutConnects, Replicates
<1>1. Peer(n) \in Nodes /\ Put(n, "open") \in Messages
  BY LoopFacts, MessageKinds DEF Bodies
<1>2. ReplicationTypeOK'
  BY <1>1 DEF ReplicationTypeOK, diskVars, countVars
<1>3. LoopsInBounds' /\ DataAwaited'
  <2>1. LoopsInBounds'
    BY LoopFacts DEF ReplicationTypeOK, LoopsInBounds
  <2>2. DataAwaited'
    BY DEF ReplicationTypeOK, DataAwaited
  <2> QED
    BY <2>1, <2>2
<1>4. OpenIsAwaited'
  BY <1>1, MessageForms DEF ReplicationTypeOK, OpenIsAwaited, Peer
<1>5. ListsGood'
  <2>1. Good' = Good /\ UNCHANGED <<stored, kv>>
    BY DEF Good, diskVars
  <2>2. \A m \in Nodes, s \in Lists(K_VALUE) :
            Store(s) \in inbox'[m] => Store(s) \in inbox[m]
    BY MessageForms DEF ReplicationTypeOK
  <2> QED
    BY <2>1, <2>2 DEF ListsGood
<1>6. PartsBegan' /\ AskedAreGood'
  <2>1. \A m, q \in Nodes : Put(q, "part") \in inbox'[m] =>
            Put(q, "part") \in inbox[m]
    BY MessageForms DEF ReplicationTypeOK
  <2> QED
    BY <2>1 DEF PartsBegan, AskedAreGood, Began, Good, diskVars, countVars
<1> QED
  BY <1>2, <1>3, <1>4, <1>5, <1>6

(* The peer lists itself by answering, and has created the file by then.   *)
LEMMA ServePutStep ==
    ASSUME ReplicationInv, NEW p \in Nodes, NEW n \in Nodes, ServePut(p, n)
    PROVE  ReplicationInv'
<1> USE DEF ReplicationInv
<1>2. pc[n] = "await" /\ Peer(n) = p /\ sends[n] \in {"part", "whole"}
  BY DEF ServePut, OpenIsAwaited, DataAwaited, ReplicationTypeOK
<1>1. /\ copy' \in [Nodes -> {"none", "partial", "whole"}]
      /\ spoiled' \subseteq Nodes \X Reasons
      /\ Good \subseteq Good' /\ p \in Good' /\ (Began => Began')
      /\ \/ Began' \/ sends[n] = "part"
         \/ spoiled' = spoiled /\ copy' = [copy EXCEPT ![p] = "whole"]
  BY <1>2, CreateFileKeeps DEF ServePut
<1>3. /\ i[n] + 1 \in 1..K_VALUE /\ Len(kv[n]) < K_VALUE
      /\ Len(kv[n]) + 1 <= i[n] + 1
  BY <1>2, LoopFacts DEF LoopsInBounds
<1>4. kv[n] \in Lists(K_VALUE) /\ kv'[n] = Append(kv[n], p)
  BY DEF ServePut, ReplicationTypeOK
<1>5. /\ kv'[n] \in Lists(K_VALUE) /\ Len(kv'[n]) = Len(kv[n]) + 1
      /\ Elems(kv'[n]) = Elems(kv[n]) \cup {p}
  BY <1>3, <1>4, ListFacts
<1>6. ReplicationTypeOK'
  <2>1. kv' \in [Nodes -> Lists(K_VALUE)]
    BY <1>5 DEF ServePut, ReplicationTypeOK
  <2>2. i' \in [Nodes -> 1..K_VALUE+1]
    BY <1>3, LoopFacts DEF ServePut, ReplicationTypeOK
  <2>3. inbox' \in [Nodes -> SUBSET Messages]
    BY DEF ServePut, ReplicationTypeOK
  <2> QED
    BY <1>1, <2>1, <2>2, <2>3 DEF ServePut, ReplicationTypeOK, countVars
<1>7. LoopsInBounds' /\ DataAwaited'
  <2>1. LoopsInBounds'
    BY <1>3, <1>5, LoopFacts DEF ServePut, ReplicationTypeOK, LoopsInBounds
  <2>2. DataAwaited'
    BY <1>2 DEF ServePut, ReplicationTypeOK, DataAwaited
  <2> QED
    BY <2>1, <2>2
<1>8. OpenIsAwaited'
  BY <1>2, MessageForms DEF ServePut, ReplicationTypeOK, OpenIsAwaited, Peer
<1>9. ListsGood'
  <2>1. \A m \in Nodes : stored'[m] = stored[m] /\ inbox'[m] \subseteq inbox[m]
    BY DEF ServePut, ReplicationTypeOK
  <2>2. \A m \in Nodes \ {n} : kv'[m] = kv[m]
    BY DEF ServePut, ReplicationTypeOK
  <2> QED
    BY <1>1, <1>5, <2>1, <2>2 DEF ListsGood
<1>10. PartsBegan' /\ AskedAreGood'
  <2>1. /\ \A m \in Nodes : inbox'[m] \subseteq inbox[m]
        /\ UNCHANGED <<sends, asked>>
    BY DEF ServePut, ReplicationTypeOK, countVars
  <2>2. sends[n] = "part" => Began
    BY DEF PartsBegan
  <2> QED
    BY <1>1, <2>1, <2>2 DEF PartsBegan, AskedAreGood, Began, ReplicationTypeOK
<1> QED
  BY <1>6, <1>7, <1>8, <1>9, <1>10

(* Nothing new is stored, gathered or sent, but a PUT that is given up.    *)
LEMMA ListsStayGood ==
    ASSUME ReplicationInv, Good \subseteq Good', UNCHANGED <<stored, kv>>,
           \A p \in Nodes : \A m \in inbox'[p] :
               m \in inbox[p] \/ \E n, b : m = Put(n, b)
    PROVE  ListsGood'
<1>1. \A p \in Nodes, s \in Lists(K_VALUE) :
          Store(s) \in inbox'[p] => Store(s) \in inbox[p]
  BY MessageForms
<1> QED
  BY <1>1 DEF ReplicationInv, ListsGood

LEMMA GiveUpStep ==
    ASSUME ReplicationInv, NEW n \in Nodes, GiveUp(n)
    PROVE  ReplicationInv'
<1> USE DEF ReplicationInv
<1>1. /\ pc[n] = "await" /\ i[n] + 1 \in 1..K_VALUE /\ Len(kv[n]) <= i[n] + 1
      /\ Peer(n) \in Nodes
  <2>1. pc[n] = "await" /\ i[n] < K_VALUE /\ i[n] <= Len(out_peers[n])
        /\ Len(kv[n]) <= i[n]
    BY DEF GiveUp, LoopsInBounds
  <2> QED
    BY <2>1, LoopFacts
<1>2. PICK b \in LeftOf(n) :
          inbox' = [inbox EXCEPT ![Peer(n)] =
                       {IF m = Put(n, "open") THEN Put(n, b) ELSE m : m \in @}]
  BY DEF GiveUp, Abandoned
<1>3. Put(n, b) \in Messages /\ b # "open" /\ b \in {sends[n], "cut"}
  <2>1. b \in {sends[n], "cut"} /\ sends[n] \in {"part", "whole"}
    BY <1>1 DEF LeftOf, DataAwaited, ReplicationTypeOK
  <2> QED
    BY <2>1, MessageKinds DEF Bodies
<1>4. /\ inbox' \in [Nodes -> SUBSET Messages]
      /\ \A p \in Nodes : \A m \in inbox'[p] :
             (m \in inbox[p] /\ ~(p = Peer(n) /\ m = Put(n, "open")))
                 \/ m = Put(n, b)
  BY <1>1, <1>2, <1>3 DEF ReplicationTypeOK
<1>5. ReplicationTypeOK'
  <2>1. i' \in [Nodes -> 1..K_VALUE+1]
    BY <1>1, LoopFacts DEF GiveUp, ReplicationTypeOK
  <2> QED
    BY <1>4, <2>1 DEF GiveUp, ReplicationTypeOK, diskVars, countVars
<1>6. LoopsInBounds' /\ DataAwaited'
  <2>1. LoopsInBounds'
    BY <1>1, LoopFacts DEF GiveUp, ReplicationTypeOK, LoopsInBounds
  <2>2. DataAwaited'
    BY <1>1 DEF GiveUp, ReplicationTypeOK, DataAwaited
  <2> QED
    BY <2>1, <2>2
<1>7. OpenIsAwaited'
  <2>1. ASSUME NEW p \in Nodes, NEW m \in Nodes, Put(m, "open") \in inbox'[p]
        PROVE  Put(m, "open") \in inbox[p] /\ m # n
    BY <1>3, <1>4, <2>1, MessageForms DEF OpenIsAwaited
  <2> QED
    BY <2>1 DEF GiveUp, ReplicationTypeOK, OpenIsAwaited, Peer
<1>8. ListsGood'
  BY <1>4, ListsStayGood DEF GiveUp, diskVars, Good
<1>9. PartsBegan' /\ AskedAreGood'
  <2>1. \A p, m \in Nodes : Put(m, "part") \in inbox'[p] =>
            Put(m, "part") \in inbox[p] \/ sends[n] = "part"
    BY <1>3, <1>4, MessageForms
  <2> QED
    BY <2>1 DEF GiveUp, PartsBegan, AskedAreGood, Began, Good, diskVars, countVars
<1> QED
  BY <1>5, <1>6, <1>7, <1>8, <1>9

LEMMA ServeAbandonedPutStep ==
    ASSUME ReplicationInv, NEW p \in Nodes, ServeAbandonedPut(p)
    PROVE  ReplicationInv'
<1> USE DEF ReplicationInv
<1>1. PICK m \in inbox[p] : 
          /\ m.type = "PUT" /\ m.body # "open"
          /\ inbox' = [inbox EXCEPT ![p] = @ \ {m}]
          /\ CreateFile(p, m.body)
          /\ UNCHANGED <<up, stored, threadVars, countVars>>
  BY DEF ServeAbandonedPut
<1>2. m.body \in {"whole", "part", "cut"} /\ (m.body = "part" => Began)
  <2>1. m \in Messages
    BY DEF ReplicationTypeOK
  <2>2. PICK n \in Nodes, b \in Bodies : m = Put(n, b) /\ m.body = b
    BY <1>1, <2>1, MessageKinds
  <2> QED
    BY <1>1, <2>2 DEF PartsBegan, Bodies
<1>3. /\ copy' \in [Nodes -> {"none", "partial", "whole"}]
      /\ spoiled' \subseteq Nodes \X Reasons
      /\ Good \subseteq Good' /\ (Began => Began')
      /\ \/ Began'
         \/ spoiled' = spoiled /\ copy' = [copy EXCEPT ![p] = "whole"]
  <2>1. /\ copy' \in [Nodes -> {"none", "partial", "whole"}]
        /\ spoiled' \subseteq Nodes \X Reasons
        /\ Good \subseteq Good' /\ (Began => Began')
        /\ \/ Began' \/ m.body = "part"
           \/ spoiled' = spoiled /\ copy' = [copy EXCEPT ![p] = "whole"]
    BY <1>1, <1>2, CreateFileKeeps
  <2> QED
    BY <1>2, <2>1
<1>4. /\ inbox' \in [Nodes -> SUBSET Messages]
      /\ \A q \in Nodes : inbox'[q] \subseteq inbox[q]
  BY <1>1 DEF ReplicationTypeOK
<1>5. ReplicationTypeOK'
  BY <1>1, <1>3, <1>4 DEF ReplicationTypeOK, threadVars, countVars
<1>6. LoopsInBounds' /\ OpenIsAwaited' /\ DataAwaited'
  BY <1>1, <1>4 DEF LoopsInBounds, OpenIsAwaited, DataAwaited, threadVars, Peer
<1>7. ListsGood'
  BY <1>1, <1>3, <1>4, ListsStayGood DEF threadVars
<1>8. PartsBegan' /\ AskedAreGood'
  BY <1>1, <1>3, <1>4
     DEF PartsBegan, AskedAreGood, Began, threadVars, countVars, ReplicationTypeOK
<1> QED
  BY <1>5, <1>6, <1>7, <1>8

LEMMA SendStoreStep ==
    ASSUME ReplicationInv, NEW n \in Nodes, SendStore(n)
    PROVE  ReplicationInv'
<1> USE DEF ReplicationInv
<1>1. /\ kv[n] \in Lists(K_VALUE) /\ Store(kv[n]) \in Messages
      /\ Elems(kv[n]) \subseteq Good
  BY MessageKinds DEF ReplicationTypeOK, ListsGood
<1>2. /\ inbox' \in [Nodes -> SUBSET Messages]
      /\ \A q \in Nodes : inbox'[q] \subseteq inbox[q] \cup {Store(kv[n])}
  BY <1>1, LoopFacts DEF SendStore, ReplicationTypeOK
<1>3. Good' = Good /\ UNCHANGED <<stored, kv>>
  BY DEF SendStore, diskVars, Good
<1>4. ReplicationTypeOK'
  <2>1. i' \in [Nodes -> 1..K_VALUE+1]
    BY LoopFacts DEF SendStore, ReplicationTypeOK
  <2> QED
    BY <1>2, <2>1 DEF SendStore, ReplicationTypeOK, diskVars, countVars
<1>5. LoopsInBounds' /\ DataAwaited'
  BY DEF SendStore, ReplicationTypeOK, LoopsInBounds, DataAwaited
<1>6. OpenIsAwaited'
  <2>1. \A p, m \in Nodes :
            Put(m, "open") \in inbox'[p] => Put(m, "open") \in inbox[p]
    BY <1>2, MessageForms
  <2> QED
    BY <2>1 DEF SendStore, ReplicationTypeOK, OpenIsAwaited, Peer
<1>7. ListsGood'
  <2>1. \A q \in Nodes, s \in Lists(K_VALUE) :
            Store(s) \in inbox'[q] => Store(s) \in inbox[q] \/ s = kv[n]
    BY <1>2, MessageForms
  <2> QED
    BY <1>1, <1>3, <2>1 DEF ListsGood
<1>8. PartsBegan' /\ AskedAreGood'
  <2>1. \A p, m \in Nodes : Put(m, "part") \in inbox'[p] =>
            Put(m, "part") \in inbox[p]
    BY <1>2, MessageForms
  <2> QED
    BY <1>3, <2>1 DEF SendStore, PartsBegan, AskedAreGood, Began, diskVars,
                      countVars
<1> QED
  BY <1>4, <1>5, <1>6, <1>7, <1>8

LEMMA ServeStoreStep ==
    ASSUME ReplicationInv, NEW p \in Nodes, ServeStore(p)
    PROVE  ReplicationInv'
<1> USE DEF ReplicationInv
<1>1. PICK m \in inbox[p] : 
          /\ m.type = "STORE"
          /\ inbox' = [inbox EXCEPT ![p] = @ \ {m}]
          /\ storage_put_value(p, m.owners)
          /\ UNCHANGED <<up, copy, spoiled, threadVars, countVars>>
  BY DEF ServeStore
<1>2. PICK s \in Lists(K_VALUE) : m = Store(s) /\ m.owners = s
  <2>1. m \in Messages
    BY DEF ReplicationTypeOK
  <2> QED
    BY <1>1, <2>1, MessageKinds
<1>3. Elems(s) \subseteq Good /\ Good' = Good
  BY <1>1, <1>2 DEF ListsGood, Good
<1>4. /\ inbox' \in [Nodes -> SUBSET Messages]
      /\ \A q \in Nodes : inbox'[q] \subseteq inbox[q]
  BY <1>1 DEF ReplicationTypeOK
<1>5. /\ stored' \in [Nodes -> Lists(K_VALUE)]
      /\ \A q \in Nodes : stored'[q] \in {stored[q], s}
  BY <1>1, <1>2 DEF storage_put_value, ReplicationTypeOK
<1>6. ReplicationTypeOK'
  BY <1>1, <1>4, <1>5 DEF ReplicationTypeOK, threadVars, countVars
<1>7. LoopsInBounds' /\ OpenIsAwaited' /\ DataAwaited'
  BY <1>1, <1>4 DEF LoopsInBounds, OpenIsAwaited, DataAwaited, threadVars, Peer
<1>8. ListsGood'
  BY <1>1, <1>3, <1>4, <1>5 DEF ListsGood, threadVars
<1>9. PartsBegan' /\ AskedAreGood'
  BY <1>1, <1>3, <1>4 DEF PartsBegan, AskedAreGood, Began, threadVars, countVars
<1> QED
  BY <1>6, <1>7, <1>8, <1>9

LEMMA StopStep ==
    ASSUME ReplicationInv, NEW n \in Nodes, Stop(n)
    PROVE  ReplicationInv'
<1> USE DEF ReplicationInv
<1>1. PICK b \in LeftOf(n) :
          inbox' = [p \in Nodes |->
              IF p = n THEN {}
              ELSE {IF m = Put(n, "open") THEN Put(n, b) ELSE m : m \in inbox[p]}]
  BY DEF Stop, Abandoned
<1>2. ASSUME NEW p \in Nodes, Put(n, "open") \in inbox[p]
      PROVE  Put(n, b) \in Messages /\ b # "open" /\ b \in {sends[n], "cut"}
  <2>1. b \in {sends[n], "cut"} /\ sends[n] \in {"part", "whole"}
    BY <1>2 DEF LeftOf, OpenIsAwaited, DataAwaited, ReplicationTypeOK
  <2> QED
    BY <2>1, MessageKinds DEF Bodies
<1>3. \A p \in Nodes : \A m \in inbox'[p] :
          \/ m \in inbox[p] /\ m # Put(n, "open")
          \/ /\ Put(n, "open") \in inbox[p] /\ m = Put(n, b)
             /\ m \in Messages /\ b # "open" /\ b \in {sends[n], "cut"}
  BY <1>1, <1>2
<1>4. /\ Good \subseteq Good' /\ (Began => Began')
      /\ Began' \/ UNCHANGED <<copy, spoiled>>
      /\ copy' \in [Nodes -> {"none", "partial", "whole"}]
      /\ spoiled' \subseteq Nodes \X Reasons
  <2>1. CASE UNCHANGED <<copy, spoiled>>
    BY <2>1 DEF Good, Began, ReplicationTypeOK
  <2>2. CASE EndsWriting(n)
    <3>1. /\ copy' = [copy EXCEPT ![n] = "partial"]
          /\ spoiled' = spoiled \cup {<<n, "stop">>} /\ "stop" \in Reasons
      BY <2>2 DEF EndsWriting, Reasons
    <3>2. \A m \in Nodes \ {n} : copy'[m] = copy[m]
      BY <3>1 DEF ReplicationTypeOK
    <3>3. Good \subseteq Good'
      BY <3>1, <3>2 DEF Good
    <3>4. Began'
      BY <3>1 DEF Began
    <3> QED
      BY <3>1, <3>3, <3>4 DEF ReplicationTypeOK
  <2> QED
    BY <2>1, <2>2 DEF Stop
<1>5. ReplicationTypeOK'
  <2>1. inbox' \in [Nodes -> SUBSET Messages]
    <3>1. \A p \in Nodes : inbox'[p] \subseteq Messages
      BY <1>3 DEF ReplicationTypeOK
    <3> QED
      BY <1>1, <3>1
  <2>2. /\ i' \in [Nodes -> 1..K_VALUE+1] /\ asked' \subseteq Nodes
        /\ out_peers' \in [Nodes -> Lists(K_VALUE)]
        /\ kv' \in [Nodes -> Lists(K_VALUE)]
        /\ stored' \in [Nodes -> Lists(K_VALUE)]
    BY ListFacts DEF Stop, ReplicationTypeOK
  <2>3. /\ body' \in [Nodes -> {"none", "retrying", "ended"}]
        /\ sends' \in [Nodes -> {"nothing", "part", "whole"}]
        /\ up' \in [Nodes -> BOOLEAN]
        /\ pc' \in [Nodes -> {"serve", "put", "await", "store", "get", "own"}]
    BY DEF Stop, ReplicationTypeOK
  <2> QED
    BY <1>4, <2>1, <2>2, <2>3 DEF ReplicationTypeOK
<1>6. \A m \in Nodes \ {n} :
          /\ pc'[m] = pc[m] /\ kv'[m] = kv[m] /\ i'[m] = i[m]
          /\ out_peers'[m] = out_peers[m] /\ sends'[m] = sends[m]
          /\ body'[m] # "none" => body[m] # "none"
  BY DEF Stop, ReplicationTypeOK
<1>7. LoopsInBounds' /\ DataAwaited'
  <2>1. pc'[n] = "serve" /\ body'[n] = "none"
    BY DEF Stop, ReplicationTypeOK
  <2> QED
    BY <1>6, <2>1 DEF LoopsInBounds, DataAwaited
<1>8. OpenIsAwaited'
  <2>1. ASSUME NEW p \in Nodes, NEW m \in Nodes, Put(m, "open") \in inbox'[p]
        PROVE  Put(m, "open") \in inbox[p] /\ m # n
    BY <1>3, <2>1, MessageForms
  <2> QED
    BY <1>6, <2>1 DEF OpenIsAwaited, Peer
<1>9. ListsGood'
  <2>1. \A m \in Nodes : /\ stored'[m] \in {stored[m], <<>>}
                        /\ kv'[m] \in {kv[m], <<>>}
    BY DEF Stop, ReplicationTypeOK
  <2>2. \A m \in Nodes, s \in Lists(K_VALUE) :
            Store(s) \in inbox'[m] => Store(s) \in inbox[m]
    BY <1>3, MessageForms
  <2> QED
    BY <1>4, <2>1, <2>2, ListFacts DEF ListsGood
<1>10. PartsBegan'
  <2>1. ASSUME ~Began'
        PROVE  /\ UNCHANGED <<copy, spoiled>>
               /\ \A m \in Nodes : sends'[m] # "part"
               /\ \A p, m \in Nodes : Put(m, "part") \notin inbox'[p]
    <3>1. /\ UNCHANGED <<copy, spoiled>>
          /\ \A m \in Nodes : sends[m] # "part"
          /\ \A p, m \in Nodes : Put(m, "part") \notin inbox[p]
      BY <1>4, <2>1 DEF PartsBegan
    <3>2. sends'[n] = "nothing"
      BY DEF Stop, ReplicationTypeOK
    <3>3. \A p, m \in Nodes : Put(m, "part") \notin inbox'[p]
      BY <1>3, <3>1, MessageForms
    <3> QED
      BY <1>6, <3>1, <3>2, <3>3
  <2> QED
    BY <1>4, <2>1 DEF PartsBegan
<1>11. AskedAreGood'
  BY <1>4 DEF Stop, AskedAreGood
<1> QED
  BY <1>5, <1>7, <1>8, <1>9, <1>10, <1>11

(* A restart, or no step at all.                                           *)
LEMMA NothingSpent ==
    ASSUME ReplicationInv, up' \in [Nodes -> BOOLEAN],
           UNCHANGED <<diskVars, inbox, threadVars, asked>>
    PROVE  ReplicationInv'
<1>1. ReplicationTypeOK' /\ LoopsInBounds' /\ DataAwaited'
  BY DEF ReplicationInv, ReplicationTypeOK, LoopsInBounds, DataAwaited, diskVars,
         threadVars
<1>2. OpenIsAwaited' /\ ListsGood' /\ AskedAreGood'
  BY DEF ReplicationInv, OpenIsAwaited, ListsGood, AskedAreGood, Good, Peer,
         diskVars, threadVars
<1>3. PartsBegan'
  BY DEF ReplicationInv, PartsBegan, Began, diskVars, threadVars
<1> QED
  BY <1>1, <1>2, <1>3 DEF ReplicationInv
-----------------------------------------------------------------------------
LEMMA ReplicationInvInit == Init => ReplicationInv
<1> SUFFICES ASSUME Init PROVE ReplicationInv
  OBVIOUS
<1> USE DEF Init
<1>1. ReplicationTypeOK
  BY ListFacts DEF ReplicationTypeOK
<1>2. LoopsInBounds /\ OpenIsAwaited /\ DataAwaited
  BY DEF LoopsInBounds, OpenIsAwaited, DataAwaited
<1>3. ListsGood /\ PartsBegan /\ AskedAreGood
  BY ListFacts DEF ListsGood, PartsBegan, AskedAreGood
<1> QED
  BY <1>1, <1>2, <1>3 DEF ReplicationInv

LEMMA ReplicationInvNext == ReplicationInv /\ [Next]_vars => ReplicationInv'
<1> SUFFICES ASSUME ReplicationInv, [Next]_vars
             PROVE  ReplicationInv'
  OBVIOUS
<1>1. CASE UNCHANGED vars
  BY <1>1, NothingSpent DEF vars, countVars, ReplicationInv, ReplicationTypeOK
<1>2. ASSUME NEW n \in Nodes, Restart(n) PROVE ReplicationInv'
  <2>1. up' \in [Nodes -> BOOLEAN]
    BY <1>2 DEF Restart, ReplicationInv, ReplicationTypeOK
  <2> QED
    BY <1>2, <2>1, NothingSpent DEF Restart, countVars
<1>3. ASSUME NEW n \in Nodes, Working(n) \/ Download(n) PROVE ReplicationInv'
  BY <1>3, QuietStep, PutConnectsStep, GiveUpStep, SendStoreStep DEF Working
<1>4. ASSUME NEW n \in Nodes,
             \/ Copy(n) \/ Upload(n) \/ (\E m \in Nodes : ServePut(n, m))
             \/ ServeAbandonedPut(n) \/ ServeStore(n) \/ Stop(n)
      PROVE  ReplicationInv'
  BY <1>4, CopyStep, UploadStep, ServePutStep, ServeAbandonedPutStep, ServeStoreStep,
     StopStep
<1> QED
  BY <1>1, <1>2, <1>3, <1>4 DEF Next

(* The loops over peers, the lists and what is under way keep their types. *)
THEOREM ReplicationTypeCorrect == Spec => []ReplicationTypeOK
<1>1. ReplicationInv => ReplicationTypeOK
  BY DEF ReplicationInv
<1> QED
  BY <1>1, ReplicationInvInit, ReplicationInvNext, PTL DEF Spec

(* No upload writes behind the K_VALUE owners that kv has room for.        *)
THEOREM OwnersAlwaysFit == Spec => []OwnersFit
<1>1. ASSUME ReplicationInv, NEW n \in Nodes PROVE Len(kv[n]) <= K_VALUE
  BY <1>1, LoopFacts
<1>2. ReplicationInv => OwnersFit
  BY <1>1 DEF OwnersFit
<1> QED
  BY <1>2, ReplicationInvInit, ReplicationInvNext, PTL DEF Spec

(* A listed owner has the file, or one of four things has happened to it:  *)
(* its disk failed, it stopped while it wrote, a PUT to it was cut off, or *)
(* it was sent a part, which began with one of the other three somewhere.  *)
THEOREM ListedOwnersHaveTheFile == Spec => []OwnersHaveTheFile
<1>1. ASSUME ReplicationInv, NEW p \in ListedOwners PROVE p \in Good
  <2> DEFINE Kept == UNION {Elems(stored[n]) \cup Elems(kv[n]) : n \in Nodes}
             Sent == UNION {Elems(m.owners) :
                            m \in {x \in UNION {inbox[n] : n \in Nodes} :
                                       x.type = "STORE"}}
  <2>1. CASE \E n \in Nodes : p \in Elems(stored[n]) \cup Elems(kv[n])
    BY <1>1, <2>1 DEF ReplicationInv, ListsGood
  <2>2. CASE \E n \in Nodes : \E m \in inbox[n] :
                 m.type = "STORE" /\ p \in Elems(m.owners)
    <3>1. PICK n \in Nodes : \E m \in inbox[n] :
              m.type = "STORE" /\ p \in Elems(m.owners)
      BY <2>2
    <3>2. PICK m \in inbox[n] : m.type = "STORE" /\ p \in Elems(m.owners)
      BY <3>1
    <3>3. m \in Messages
      BY <1>1 DEF ReplicationInv, ReplicationTypeOK
    <3>4. PICK s \in Lists(K_VALUE) : m = Store(s) /\ m.owners = s
      BY <3>2, <3>3, MessageKinds
    <3> QED
      BY <1>1, <3>2, <3>4 DEF ReplicationInv, ListsGood
  <2>3. ListedOwners = Kept \cup Sent
    BY DEF ListedOwners
  <2>4. p \in Kept => \E n \in Nodes : p \in Elems(stored[n]) \cup Elems(kv[n])
    OBVIOUS
  <2>5. p \in Sent => \E n \in Nodes : \E m \in inbox[n] :
                          m.type = "STORE" /\ p \in Elems(m.owners)
    OBVIOUS
  <2> HIDE DEF Kept, Sent
  <2> QED
    BY <2>1, <2>2, <2>3, <2>4, <2>5
<1>2. ReplicationInv => OwnersHaveTheFile
  BY <1>1 DEF ReplicationInv, PartsBegan, Began, OwnersHaveTheFile, Good
<1> QED
  BY <1>2, ReplicationInvInit, ReplicationInvNext, PTL DEF Spec
=============================================================================
