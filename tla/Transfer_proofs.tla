-------------------------- MODULE Transfer_proofs ---------------------------
(***************************************************************************)
(* What is safe about a transfer although recv_all miscounts: for files,   *)
(* chunks and socket buffers of any size, and however the network cuts the *)
(* bytes into reads.                                                       *)
(***************************************************************************)
EXTENDS Transfer, TLAPS

Prefix(m) == [n \in 1..m |-> n]

Written == size - remaining

(* The bytes of s go upwards, and no further than most.                    *)
Rising(s, most) ==
    /\ \A m, n \in DOMAIN s : m < n => s[m] < s[n]
    /\ \A n \in DOMAIN s : s[n] <= most

(* A chunk is read until it is whole; what its last read returned is       *)
(* written of it.                                                          *)
RetFits ==
    /\ receiver = "read" /\ remaining > 0 => nb_read < Wanted
    /\ receiver = "write" => ret <= nb_read

(* Bytes are counted late, never early: all that has been written was      *)
(* consumed, and as long as the two counts agree nothing is missing but    *)
(* what stdio lost.  Once they differ they differ for good, which keeps    *)
(* remaining from 0.                                                       *)
CountsLag ==
    /\ receiver \in {"read", "write"} => consumed - nb_read >= Written
    /\ receiver \in {"read", "write"} /\ consumed - nb_read = Written /\ ~lost
           => file = Prefix(Written)

(* Without a split recv_all the two counts agree.                          *)
UnsplitCounts ==
    ~split =>
        /\ ~lost => file = Prefix(Written)
        /\ receiver \in {"read", "write"} => consumed - nb_read = Written
        /\ receiver = "write" => ret \in {0, nb_read}

(* A chunk that is still to be read, or to be written, comes after all     *)
(* that is in the file.                                                    *)
Ordered ==
    /\ Rising(file, size)
    /\ receiver \in {"read", "write"} => Rising(file, consumed - nb_read)

(* While the sender's end is open, the loop of the receiver ends only with *)
(* the whole file; a download returns, and an answer is given, after it.   *)
LoopWaits ==
    /\ sender_open /\ receiver = "write" => ret > 0
    /\ sender_open /\ receiver = "finished" /\ answer = 0 /\ ~lost
           => file = Content
    /\ op = "GET" => /\ answer = 0
                     /\ client = "returned" => receiver = "finished"

WholeOrShortened ==
    \/ file = Content
    \/ lost /\ file \in Shortened(Content, StdioBuffer)

PutWaits ==
    op = "PUT" =>
        /\ sender_open <=> client = "busy"
        /\ answer # 0 => receiver \in {"finished", "gone"}
        /\ client = "returned" /\ client_result = 0 => answer # 0
        /\ lost => answer # 0 \/ receiver = "gone"
        /\ answer = 201 /\ (sender_open \/ client_result = 0)
               => WholeOrShortened

TransferInv ==
    /\ TransferTypeOK /\ RetFits /\ CountsLag /\ UnsplitCounts
    /\ Ordered /\ LoopWaits /\ PutWaits

LEMMA ConcatFacts ==
    ASSUME NEW T, NEW s \in Seq(T), NEW t \in Seq(T)
    PROVE  /\ s \o t \in Seq(T) /\ Len(s \o t) = Len(s) + Len(t)
           /\ \A n \in 1..Len(s) : (s \o t)[n] = s[n]
           /\ \A n \in 1..Len(t) : (s \o t)[Len(s) + n] = t[n]
OBVIOUS

LEMMA ShortenedFacts ==
    ASSUME NEW T, NEW s \in Seq(T), NEW most \in Nat,
           NEW t \in Shortened(s, most)
    PROVE  /\ t \in Seq(T) /\ DOMAIN t \subseteq DOMAIN s
           /\ \A n \in DOMAIN t : t[n] = s[n]
<1>1. PICK m \in 0..Len(s) - 1 : t = SubSeq(s, 1, m)
  BY DEF Shortened
<1>2. m \in Nat /\ m <= Len(s)
  BY <1>1
<1> QED
  BY <1>1, <1>2

LEMMA ShortenedRises ==
    ASSUME NEW s \in Seq(Int), NEW most \in Nat,
           NEW t \in Shortened(s, most), NEW bound, Rising(s, bound)
    PROVE  Rising(t, bound)
<1>1. DOMAIN t \subseteq DOMAIN s /\ \A n \in DOMAIN t : t[n] = s[n]
  BY ShortenedFacts
<1> QED
  BY <1>1 DEF Rising

LEMMA SmallerFacts ==
    ASSUME NEW m \in Int, NEW n \in Int
    PROVE  /\ Smaller(m, n) \in {m, n}
           /\ Smaller(m, n) <= m /\ Smaller(m, n) <= n
BY DEF Smaller

LEMMA WrittenType ==
    ASSUME TransferTypeOK
    PROVE  /\ size \in Nat /\ sent \in Nat /\ consumed \in Nat
           /\ consumed <= sent /\ sent <= size
           /\ remaining \in Nat /\ remaining <= size /\ Written \in Nat
           /\ Wanted \in Nat /\ Wanted <= remaining /\ Wanted <= CHUNK_SIZE
           /\ nb_read \in Nat /\ nb_read <= Wanted /\ ret \in Nat
           /\ Available \in Nat /\ Available <= SocketBuffer
           /\ SocketBuffer \in Nat /\ CHUNK_SIZE \in Nat /\ CHUNK_SIZE > 0
<1>1. MaxSize \in Nat /\ CHUNK_SIZE \in Nat
  BY TransferAssumption
<1>2. size \in Nat /\ sent \in Nat /\ consumed \in Nat /\ remaining \in Nat
  BY <1>1 DEF TransferTypeOK
<1>3. Wanted \in Nat /\ Wanted <= remaining /\ Wanted <= CHUNK_SIZE
  BY <1>1, <1>2, SmallerFacts DEF Wanted
<1> QED
  BY <1>1, <1>2, <1>3, TransferAssumption
     DEF TransferTypeOK, Written, Available

(* With nothing left to read, the whole file is there: every byte that was *)
(* miscounted would be missing from those still to come.                   *)
LEMMA AllReadIsIntact ==
    ASSUME TransferInv, receiver = "read", remaining = 0, ~lost
    PROVE  file = Content
<1>1. consumed - nb_read = Written /\ Written = size
  BY WrittenType DEF TransferInv, CountsLag, Written
<1>2. file = Prefix(size)
  BY <1>1 DEF TransferInv, CountsLag
<1> QED
  BY <1>2 DEF Prefix, Content

LEMMA TransferInvInit == Init => TransferInv
<1> SUFFICES ASSUME Init PROVE TransferInv
  OBVIOUS
<1> USE DEF Init
<1>1. size \in Nat /\ size \in 0..MaxSize /\ MaxSize \in Nat
  BY TransferAssumption
<1>2. Wanted \in Nat
  BY <1>1, SmallerFacts, TransferAssumption DEF Wanted
<1>3. TransferTypeOK
  <2>1. sent \in 0..size /\ consumed \in 0..sent /\ Available <= SocketBuffer
    BY <1>1, TransferAssumption DEF Available
  <2>2. /\ remaining \in 0..size /\ nb_read \in 0..Wanted
        /\ ret \in 0..CHUNK_SIZE
    BY <1>1, <1>2, TransferAssumption
  <2>3. file \in Seq(1..size)
    BY <1>1
  <2>4. {sender_open, split, lost} \subseteq BOOLEAN
    BY Zenon
  <2> QED
    BY <1>1, <2>1, <2>2, <2>3, <2>4 DEF TransferTypeOK
<1>4. file = Prefix(Written)
  BY <1>1 DEF Prefix, Written
<1>5. RetFits /\ CountsLag /\ UnsplitCounts
  <2>1. remaining > 0 => Wanted > 0
    BY <1>1, SmallerFacts, TransferAssumption DEF Wanted
  <2> QED
    BY <1>1, <1>4, <2>1 DEF RetFits, CountsLag, UnsplitCounts, Written
<1>6. Ordered /\ LoopWaits /\ PutWaits
  BY DEF Ordered, Rising, LoopWaits, PutWaits
<1> QED
  BY <1>3, <1>5, <1>6 DEF TransferInv

(* Nothing about the receiver's loop changes.                              *)
LEMMA LoopUntouched ==
    ASSUME TransferInv, UNCHANGED <<size, receiverVars>>
    PROVE  RetFits' /\ CountsLag' /\ UnsplitCounts' /\ Ordered'
BY DEF TransferInv, RetFits, CountsLag, UnsplitCounts, Ordered, Rising,
       receiverVars, Written, Prefix, Wanted

LEMMA SendStep == TransferInv /\ Send => TransferInv'
<1> SUFFICES ASSUME TransferInv, Send PROVE TransferInv'
  OBVIOUS
<1> USE DEF Send
<1>1. TransferTypeOK
  BY DEF TransferInv
<1>2. PICK n \in 1..Smaller(size - sent, SocketBuffer - Available) :
          sent' = sent + n
  OBVIOUS
<1>3. /\ n \in Nat /\ sent + n <= size /\ n <= SocketBuffer - Available
  BY <1>1, <1>2, WrittenType, SmallerFacts, TransferAssumption
<1>4. TransferTypeOK'
  <2>1. sent' \in 0..size /\ consumed \in 0..sent' /\ Available' <= SocketBuffer
    BY <1>1, <1>2, <1>3, WrittenType DEF Available, receiverVars
  <2> QED
    BY <1>1, <2>1 DEF TransferTypeOK, receiverVars, clientVars, Wanted
<1>5. LoopWaits' /\ PutWaits'
  BY DEF TransferInv, LoopWaits, PutWaits, WholeOrShortened, receiverVars,
         clientVars, Content
<1> QED
  BY <1>4, <1>5, LoopUntouched DEF TransferInv, receiverVars

LEMMA ReadStep == TransferInv /\ Read => TransferInv'
<1> SUFFICES ASSUME TransferInv, Read PROVE TransferInv'
  OBVIOUS
<1> DEFINE r == Smaller(Wanted - nb_read, Available)
<1>1. TransferTypeOK
  BY DEF TransferInv
<1>2. /\ receiver = "read" /\ remaining > 0 /\ Available > 0
      /\ consumed' = consumed + r /\ nb_read' = nb_read + r /\ ret' = r
      /\ split' = (split \/ nb_read > 0)
      /\ receiver' = IF nb_read + r = Wanted THEN "write" ELSE "read"
      /\ UNCHANGED <<op, size, sent, sender_open, answer, clientVars,
                     remaining, file, lost>>
  BY DEF Read
<1>3. /\ r \in Nat /\ nb_read + r <= Wanted /\ r <= Available
      /\ Available <= SocketBuffer /\ SocketBuffer \in Nat
  <2>1. Wanted - nb_read \in Int /\ Available \in Int
    BY <1>1, WrittenType
  <2> QED
    BY <1>1, <2>1, WrittenType, SmallerFacts
<1> HIDE DEF r
<1>4. TransferTypeOK'
  <2>1. /\ consumed' \in 0..sent /\ Available' <= SocketBuffer
    BY <1>1, <1>2, <1>3, WrittenType DEF Available
  <2>2. nb_read' \in 0..Wanted /\ ret' \in 0..CHUNK_SIZE /\ Wanted' = Wanted
    BY <1>1, <1>2, <1>3, WrittenType, TransferAssumption DEF Wanted
  <2>3. receiver' \in {"read", "write"}
    BY <1>2
  <2>4. {sender_open', split', lost'} \subseteq BOOLEAN
    BY <1>1, <1>2 DEF TransferTypeOK
  <2> QED
    BY <1>1, <1>2, <2>1, <2>2, <2>3, <2>4 DEF TransferTypeOK, clientVars
<1>5. RetFits'
  <2>1. Wanted' = Wanted
    BY <1>2 DEF Wanted
  <2> QED
    BY <1>1, <1>2, <1>3, <2>1, WrittenType DEF RetFits
<1>6. /\ consumed' - nb_read' = consumed - nb_read /\ Written' = Written
      /\ file' = file
  BY <1>1, <1>2, <1>3, WrittenType DEF Written
<1>7. CountsLag' /\ Ordered'
  BY <1>2, <1>6 DEF TransferInv, CountsLag, Ordered, Rising, Prefix
<1>8. UnsplitCounts'
  <2> SUFFICES ASSUME ~split'
               PROVE  /\ ~lost' => file' = Prefix(Written')
                      /\ consumed' - nb_read' = Written'
                      /\ ret' = nb_read'
    BY DEF UnsplitCounts, Prefix
  <2>1. ~split /\ ~(nb_read > 0)
    BY <1>2, Zenon
  <2>2. nb_read = 0
    BY <1>1, <2>1, WrittenType
  <2> QED
    BY <1>2, <1>3, <1>6, <2>1, <2>2 DEF TransferInv, UnsplitCounts
<1>9. LoopWaits' /\ PutWaits'
  <2>1. r > 0
    <3>1. nb_read < Wanted
      BY <1>2 DEF TransferInv, RetFits
    <3> QED
      BY <1>1, <1>2, <3>1, WrittenType DEF r, Smaller
  <2> QED
    BY <1>2, <2>1 DEF TransferInv, LoopWaits, PutWaits, WholeOrShortened,
                      clientVars, Content
<1> QED
  BY <1>4, <1>5, <1>7, <1>8, <1>9 DEF TransferInv

(* What the receiver has in its buffer comes after what is in the file.    *)
LEMMA ChunkFacts ==
    ASSUME TransferInv, receiver = "write", ret # 0
    PROVE  /\ ret > 0 /\ ret <= nb_read /\ ret <= remaining
           /\ consumed - nb_read >= Written
           /\ file \in Seq(1..size) /\ Chunk \in Seq(1..size)
           /\ Len(Chunk) = ret
           /\ \A n \in 1..ret : Chunk[n] = consumed - nb_read + n
           /\ file \o Chunk \in Seq(1..size)
           /\ Rising(file \o Chunk, consumed)
<1>1. TransferTypeOK
  BY DEF TransferInv
<1>2. /\ ret \in Nat /\ ret > 0 /\ ret <= nb_read /\ nb_read \in Nat
      /\ nb_read <= remaining /\ ret <= remaining
  BY <1>1, WrittenType DEF TransferInv, RetFits
<1>3. consumed - nb_read >= Written
  BY DEF TransferInv, CountsLag
<1>4. /\ consumed - nb_read \in Nat /\ consumed \in Nat /\ consumed <= size
      /\ size \in Nat
  BY <1>1, <1>2, <1>3, WrittenType
<1>5. /\ Chunk \in Seq(1..size) /\ Len(Chunk) = ret
      /\ \A n \in 1..ret : Chunk[n] = consumed - nb_read + n
  <2>1. \A n \in 1..ret : consumed - nb_read + n \in 1..size
    BY <1>2, <1>4
  <2> QED
    BY <1>2, <2>1 DEF Chunk
<1>6. file \in Seq(1..size)
  BY <1>1 DEF TransferTypeOK
<1>7. /\ file \o Chunk \in Seq(1..size)
      /\ Len(file \o Chunk) = Len(file) + ret
      /\ \A n \in 1..Len(file) : (file \o Chunk)[n] = file[n]
      /\ \A n \in 1..ret : (file \o Chunk)[Len(file) + n] = Chunk[n]
  <2>1. /\ file \o Chunk \in Seq(1..size)
        /\ Len(file \o Chunk) = Len(file) + Len(Chunk)
        /\ \A n \in 1..Len(file) : (file \o Chunk)[n] = file[n]
        /\ \A n \in 1..Len(Chunk) : (file \o Chunk)[Len(file) + n] = Chunk[n]
    <3>1. Chunk \in Seq(1..size)
      BY <1>5
    <3> QED
      BY <1>6, <3>1
  <2> QED
    BY <1>5, <2>1
<1>8. Rising(file \o Chunk, consumed)
  <2> DEFINE t == file \o Chunk
  <2>1. /\ Rising(file, consumed - nb_read) /\ DOMAIN file = 1..Len(file)
        /\ Len(file) \in Nat
    BY <1>6 DEF TransferInv, Ordered
  <2>2. DOMAIN t = 1..Len(file) + ret
    BY <1>2, <1>7, <2>1
  <2>3. \A n \in 1..Len(file) :
            t[n] = file[n] /\ t[n] \in Int /\ t[n] <= consumed - nb_read
    <3>1. \A n \in 1..Len(file) : t[n] = file[n]
      BY <1>7
    <3>2. \A n \in 1..Len(file) : file[n] <= consumed - nb_read
      BY <2>1 DEF Rising
    <3>3. \A n \in 1..Len(file) : file[n] \in Int
      <4>1. \A n \in 1..Len(file) : file[n] \in 1..size
        BY <1>4, <1>6
      <4> QED
        BY <1>4, <4>1
    <3> HIDE DEF t
    <3> QED
      BY <3>1, <3>2, <3>3
  <2>4. ASSUME NEW n \in DOMAIN t, n > Len(file)
        PROVE  t[n] = consumed - nb_read + (n - Len(file))
    <3>1. n - Len(file) \in 1..ret /\ Len(file) + (n - Len(file)) = n
      BY <1>2, <2>1, <2>2, <2>4
    <3>2. t[Len(file) + (n - Len(file))] = Chunk[n - Len(file)]
      BY <1>7, <3>1
    <3> QED
      BY <1>5, <3>1, <3>2
  <2> HIDE DEF t
  <2>5. ASSUME NEW n \in DOMAIN t
        PROVE  t[n] <= consumed
    <3>1. CASE n <= Len(file)
      BY <1>2, <1>4, <2>1, <2>2, <2>3, <3>1
    <3>2. CASE n > Len(file)
      BY <1>2, <1>4, <2>1, <2>2, <2>4, <3>2
    <3> QED
      BY <2>1, <2>2, <3>1, <3>2
  <2>6. ASSUME NEW m \in DOMAIN t, NEW n \in DOMAIN t, m < n
        PROVE  t[m] < t[n]
    <3>1. CASE n <= Len(file)
      <4>1. m \in 1..Len(file) /\ n \in 1..Len(file)
        BY <2>1, <2>2, <2>6, <3>1
      <4> QED
        BY <2>1, <2>3, <2>6, <4>1 DEF Rising
    <3>2. CASE n > Len(file)
      <4>1. t[n] = consumed - nb_read + (n - Len(file))
        BY <2>4, <3>2
      <4>2. CASE m <= Len(file)
        BY <1>4, <2>1, <2>2, <2>3, <3>2, <4>1, <4>2
      <4>3. CASE m > Len(file)
        <5>1. t[m] = consumed - nb_read + (m - Len(file))
          BY <2>4, <4>3
        <5> QED
          BY <1>4, <2>1, <2>2, <2>6, <4>1, <5>1
      <4> QED
        BY <2>1, <2>2, <4>2, <4>3
    <3> QED
      BY <2>1, <2>2, <3>1, <3>2
  <2>7. Rising(t, consumed)
    BY <2>5, <2>6 DEF Rising
  <2> QED
    BY <2>7 DEF t
<1> QED
  BY <1>2, <1>3, <1>5, <1>6, <1>7, <1>8

LEMMA ShortenedChunk ==
    ASSUME TransferInv, receiver = "write", ret # 0,
           file' \in Shortened(file \o Chunk, StdioBuffer + ret)
    PROVE  file' \in Seq(1..size) /\ Rising(file', consumed)
<1>1. /\ file \o Chunk \in Seq(1..size) /\ Rising(file \o Chunk, consumed)
      /\ StdioBuffer + ret \in Nat /\ size \in Nat
  BY ChunkFacts, WrittenType, TransferAssumption DEF TransferInv
<1>2. PICK t \in Shortened(file \o Chunk, StdioBuffer + ret) : t = file'
  OBVIOUS
<1>3. t \in Seq(1..size)
  BY <1>1, ShortenedFacts
<1>4. Rising(t, consumed)
  <2>1. file \o Chunk \in Seq(Int)
    BY <1>1
  <2> QED
    BY <1>1, <2>1, ShortenedRises
<1> QED
  BY <1>2, <1>3, <1>4

(* The chunk is counted, whatever has become of it.                        *)
LEMMA Counted ==
    ASSUME TransferInv, receiver = "write", ret # 0,
           receiver' = "read", nb_read' = 0, remaining' = remaining - ret,
           UNCHANGED <<op, size, sent, sender_open, answer, clientVars,
                       ret, consumed, split>>,
           file' \in Seq(1..size), Rising(file', consumed),
           lost' \in BOOLEAN, op = "PUT" => lost' = lost
    PROVE  /\ TransferTypeOK' /\ RetFits' /\ Ordered'
           /\ LoopWaits' /\ PutWaits'
           /\ Written' = Written + ret /\ consumed' - nb_read' >= Written'
           /\ consumed' - nb_read' = Written' =>
                  consumed - nb_read = Written /\ ret = nb_read
           /\ ~split => consumed' - nb_read' = Written'
<1>1. TransferTypeOK
  BY DEF TransferInv
<1>2. /\ ret \in Nat /\ ret > 0 /\ ret <= nb_read /\ nb_read \in Nat
      /\ ret <= remaining /\ remaining \in Nat /\ remaining <= size
      /\ size \in Nat /\ consumed \in Nat
      /\ consumed - nb_read >= Written
  BY <1>1, ChunkFacts, WrittenType
<1>3. Written' = Written + ret /\ Written \in Nat
  BY <1>2 DEF Written
<1>4. remaining' \in 0..size
  BY <1>2
<1>5. /\ Wanted' \in Nat
      /\ receiver' = "read" /\ remaining' > 0 => nb_read' < Wanted'
  <2>1. CHUNK_SIZE \in Nat /\ CHUNK_SIZE > 0
    BY TransferAssumption
  <2>2. remaining' \in Nat
    BY <1>2
  <2> QED
    BY <2>1, <2>2 DEF Wanted, Smaller
<1>6. TransferTypeOK'
  <2>1. {sender_open', split', lost'} \subseteq BOOLEAN
    BY <1>1 DEF TransferTypeOK
  <2>2. nb_read' \in 0..Wanted'
    BY <1>5
  <2> QED
    BY <1>1, <1>4, <2>1, <2>2 DEF TransferTypeOK, clientVars, Available
<1>7. RetFits'
  BY <1>5 DEF RetFits
<1>8. Ordered'
  <2>1. consumed' - nb_read' = consumed
    BY <1>2
  <2>2. Rising(file', size')
    <3>1. PICK t \in Seq(1..size) : t = file'
      OBVIOUS
    <3>2. \A n \in DOMAIN t : t[n] <= size
      BY <1>2
    <3> QED
      BY <3>1, <3>2 DEF Rising
  <2> QED
    BY <2>1, <2>2 DEF Ordered, Rising
<1>9. LoopWaits' /\ PutWaits'
  BY DEF TransferInv, LoopWaits, PutWaits, clientVars
<1>10. ~split => consumed - nb_read = Written /\ ret = nb_read
  BY DEF TransferInv, UnsplitCounts
<1> QED
  BY <1>2, <1>3, <1>6, <1>7, <1>8, <1>9, <1>10

LEMMA WriteStep == TransferInv /\ Write => TransferInv'
<1> SUFFICES ASSUME TransferInv, Write PROVE TransferInv'
  OBVIOUS
<1>1. TransferTypeOK
  BY DEF TransferInv
<1>2. /\ receiver = "write" /\ nb_read' = 0
      /\ UNCHANGED <<op, size, sent, sender_open, answer, clientVars,
                     ret, consumed, split, lost>>
  BY DEF Write
<1>3. CASE ret = 0
  <2>1. receiver' = "finished" /\ UNCHANGED <<remaining, file>>
    BY <1>3 DEF Write
  <2>2. TransferTypeOK'
    BY <1>1, <1>2, <2>1, WrittenType
       DEF TransferTypeOK, clientVars, Wanted, Available
  <2>3. RetFits' /\ CountsLag' /\ UnsplitCounts' /\ Ordered'
    BY <1>2, <2>1 DEF TransferInv, RetFits, CountsLag, UnsplitCounts, Ordered,
                      Rising, Prefix, Written
  <2>4. LoopWaits' /\ PutWaits'
    BY <1>2, <1>3, <2>1 DEF TransferInv, LoopWaits, PutWaits, clientVars, Content
  <2> QED
    BY <2>2, <2>3, <2>4 DEF TransferInv
<1>4. CASE ret # 0
  <2>1. /\ file' = file \o Chunk /\ remaining' = remaining - ret
        /\ receiver' = "read"
    BY <1>4 DEF Write
  <2>2. /\ ret > 0 /\ ret <= nb_read
        /\ Chunk \in Seq(1..size) /\ Len(Chunk) = ret
        /\ \A n \in 1..ret : Chunk[n] = consumed - nb_read + n
        /\ file \o Chunk \in Seq(1..size)
        /\ Rising(file \o Chunk, consumed)
    BY <1>2, <1>4, ChunkFacts
  <2>3. lost \in BOOLEAN
    BY <1>1 DEF TransferTypeOK
  <2>4. /\ TransferTypeOK' /\ RetFits' /\ Ordered' /\ LoopWaits' /\ PutWaits'
        /\ Written' = Written + ret /\ consumed' - nb_read' >= Written'
        /\ consumed' - nb_read' = Written' =>
               consumed - nb_read = Written /\ ret = nb_read
        /\ ~split => consumed' - nb_read' = Written'
    <3>1. /\ file' \in Seq(1..size) /\ Rising(file', consumed)
          /\ lost' \in BOOLEAN /\ lost' = lost
      BY <1>2, <2>1, <2>2, <2>3
    <3> QED
      BY <1>2, <1>4, <2>1, <3>1, Counted
  <2>5. ASSUME consumed - nb_read = Written, file = Prefix(Written)
        PROVE  file' = Prefix(Written')
    <3>1. /\ file \in Seq(1..size) /\ Len(file) = Written /\ Written \in Nat
          /\ \A n \in 1..Written : file[n] = n
      BY <1>1, <2>5, WrittenType DEF TransferTypeOK, Prefix
    <3>2. file' \in Seq(1..size) /\ Len(file') = Written + ret
      BY <2>1, <2>2, <3>1, ConcatFacts
    <3>3. ASSUME NEW n \in 1..Written + ret PROVE file'[n] = n
      <4>1. ret \in Nat
        BY <1>1, WrittenType
      <4>2. CASE n <= Written
        BY <2>1, <2>2, <3>1, <4>1, <4>2, ConcatFacts
      <4>3. CASE n > Written
        <5>1. n - Written \in 1..ret /\ Written + (n - Written) = n
          BY <3>1, <4>1, <4>3
        <5>2. (file \o Chunk)[Written + (n - Written)] = Chunk[n - Written]
          <6>1. file \in Seq(1..size) /\ Chunk \in Seq(1..size)
            BY <2>2, <3>1
          <6>2. \A i \in 1..Len(Chunk) :
                    (file \o Chunk)[Len(file) + i] = Chunk[i]
            BY <6>1
          <6> QED
            BY <2>2, <3>1, <5>1, <6>2
        <5>3. Chunk[n - Written] = Written + (n - Written)
          BY <2>2, <2>5, <5>1
        <5> QED
          BY <2>1, <5>1, <5>2, <5>3
      <4> QED
        BY <3>1, <4>1, <4>2, <4>3
    <3> QED
      BY <2>4, <3>2, <3>3 DEF Prefix
  <2>6. CountsLag'
    BY <1>2, <2>4, <2>5 DEF TransferInv, CountsLag, Prefix
  <2>7. UnsplitCounts'
    <3> SUFFICES ASSUME ~split'
                 PROVE  /\ ~lost' => file' = Prefix(Written')
                        /\ consumed' - nb_read' = Written'
      BY <2>1 DEF UnsplitCounts, Prefix
    <3>1. ~split
      BY <1>2, Zenon
    <3>2. ~lost => file = Prefix(Written) /\ consumed - nb_read = Written
      BY <1>2, <3>1 DEF TransferInv, UnsplitCounts
    <3> QED
      BY <1>2, <2>4, <2>5, <3>1, <3>2
  <2> QED
    BY <2>4, <2>6, <2>7 DEF TransferInv
<1> QED
  BY <1>3, <1>4

LEMMA WriteFailsStep == TransferInv /\ WriteFails => TransferInv'
<1> SUFFICES ASSUME TransferInv, WriteFails PROVE TransferInv'
  OBVIOUS
<1>1. /\ op = "GET" /\ receiver = "write" /\ ret # 0
      /\ file' \in Shortened(file \o Chunk, StdioBuffer + ret)
      /\ lost' = TRUE /\ remaining' = remaining - ret /\ receiver' = "read"
      /\ nb_read' = 0
      /\ UNCHANGED <<op, size, sent, sender_open, answer, clientVars,
                     ret, consumed, split>>
  BY DEF WriteFails
<1>2. file' \in Seq(1..size) /\ Rising(file', consumed)
  BY <1>1, ShortenedChunk
<1>3. /\ TransferTypeOK' /\ RetFits' /\ Ordered' /\ LoopWaits' /\ PutWaits'
      /\ consumed' - nb_read' >= Written'
      /\ ~split => consumed' - nb_read' = Written'
  BY <1>1, <1>2, Counted
<1>4. CountsLag' /\ UnsplitCounts'
  BY <1>1, <1>3 DEF CountsLag, UnsplitCounts
<1> QED
  BY <1>3, <1>4 DEF TransferInv

LEMMA ServerCannotWriteStep ==
    TransferInv /\ ServerCannotWrite => TransferInv'
<1> SUFFICES ASSUME TransferInv, ServerCannotWrite PROVE TransferInv'
  OBVIOUS
<1>1. /\ op = "PUT" /\ answer = 0 /\ receiver = "write" /\ ret # 0
      /\ file' \in Shortened(file \o Chunk, StdioBuffer + ret)
      /\ lost' = TRUE /\ receiver' = "finished" /\ answer' = 500
      /\ UNCHANGED <<op, size, sent, sender_open, clientVars,
                     remaining, nb_read, ret, consumed, split>>
  BY DEF ServerCannotWrite
<1>2. file' \in Seq(1..size) /\ Rising(file', consumed)
  BY <1>1, ShortenedChunk
<1>3. TransferTypeOK'
  BY <1>1, <1>2 DEF TransferInv, TransferTypeOK, clientVars, Wanted, Available
<1>4. RetFits' /\ CountsLag' /\ UnsplitCounts' /\ Ordered'
  <2>1. Rising(file', size')
    <3>1. PICK t \in Seq(1..size) : t = file'
      BY <1>2
    <3>2. \A n \in DOMAIN t : t[n] <= size
      BY WrittenType DEF TransferInv
    <3> QED
      BY <1>1, <1>2, <3>1, <3>2 DEF Rising
  <2> QED
    BY <1>1, <2>1 DEF RetFits, CountsLag, UnsplitCounts, Ordered
<1>5. LoopWaits' /\ PutWaits'
  BY <1>1 DEF TransferInv, LoopWaits, PutWaits, clientVars
<1> QED
  BY <1>3, <1>4, <1>5 DEF TransferInv

(* A fclose takes away the end of the file or nothing.                     *)
LEMMA ClosedFile ==
    ASSUME TransferInv, Close
    PROVE  /\ file' \in Seq(1..size) /\ lost' \in BOOLEAN
           /\ Rising(file', size)
           /\ ~lost' => ~lost /\ file' = file
<1>1. TransferTypeOK
  BY DEF TransferInv
<1>2. CASE UNCHANGED <<file, lost>>
  BY <1>1, <1>2 DEF TransferInv, TransferTypeOK, Ordered, Rising
<1>3. CASE file' \in Shortened(file, StdioBuffer) /\ lost' = TRUE
  <2>1. /\ file \in Seq(1..size) /\ file \in Seq(Int) /\ Rising(file, size)
        /\ StdioBuffer \in Nat
    <3>1. file \in Seq(1..size) /\ Rising(file, size)
      BY <1>1 DEF TransferInv, TransferTypeOK, Ordered
    <3>2. file \in Seq(Int)
      BY <1>1, <3>1, WrittenType
    <3> QED
      BY <3>1, <3>2, TransferAssumption
  <2>2. PICK t \in Shortened(file, StdioBuffer) : t = file'
    BY <1>3
  <2>3. t \in Seq(1..size) /\ Rising(t, size)
    BY <2>1, ShortenedFacts, ShortenedRises
  <2> QED
    BY <1>3, <2>2, <2>3
<1> QED
  BY <1>2, <1>3 DEF Close

LEMMA GetReturnsStep == TransferInv /\ GetReturns => TransferInv'
<1> SUFFICES ASSUME TransferInv, GetReturns PROVE TransferInv'
  OBVIOUS
<1>1. /\ op = "GET" /\ receiver = "finished"
      /\ client' = "returned" /\ client_result' = 0 /\ Close
      /\ UNCHANGED <<op, size, sent, sender_open, answer, receiver, remaining,
                     nb_read, ret, consumed, split>>
  BY DEF GetReturns
<1>2. /\ file' \in Seq(1..size) /\ lost' \in BOOLEAN /\ Rising(file', size)
      /\ ~lost' => ~lost /\ file' = file
  BY <1>1, ClosedFile
<1>3. TransferTypeOK'
  BY <1>1, <1>2 DEF TransferInv, TransferTypeOK, Wanted, Available
<1>4. RetFits' /\ CountsLag' /\ UnsplitCounts' /\ Ordered'
  BY <1>1, <1>2 DEF TransferInv, RetFits, CountsLag, UnsplitCounts, Ordered,
                    Rising, Prefix, Written
<1>5. LoopWaits' /\ PutWaits'
  BY <1>1, <1>2 DEF TransferInv, LoopWaits, PutWaits, Content
<1> QED
  BY <1>3, <1>4, <1>5 DEF TransferInv

LEMMA ServerAnswersStep == TransferInv /\ ServerAnswers => TransferInv'
<1> SUFFICES ASSUME TransferInv, ServerAnswers PROVE TransferInv'
  OBVIOUS
<1>1. /\ op = "PUT" /\ receiver = "finished" /\ answer = 0 /\ answer' = 201
      /\ Close
      /\ UNCHANGED <<op, size, sent, sender_open, clientVars, receiver,
                     remaining, nb_read, ret, consumed, split>>
  BY DEF ServerAnswers
<1>2. /\ file' \in Seq(1..size) /\ lost' \in BOOLEAN /\ Rising(file', size)
      /\ ~lost' => ~lost /\ file' = file
  BY <1>1, ClosedFile
<1>3. TransferTypeOK'
  BY <1>1, <1>2 DEF TransferInv, TransferTypeOK, clientVars, Wanted, Available
<1>4. RetFits' /\ CountsLag' /\ UnsplitCounts' /\ Ordered'
  BY <1>1, <1>2 DEF TransferInv, RetFits, CountsLag, UnsplitCounts, Ordered,
                    Rising, Prefix, Written
<1>5. LoopWaits'
  BY <1>1 DEF TransferInv, LoopWaits, clientVars
<1>6. ASSUME sender_open \/ client_result = 0
      PROVE  WholeOrShortened'
  <2>1. sender_open /\ ~lost
    <3>1. client \in {"busy", "returned"}
      BY DEF TransferInv, TransferTypeOK
    <3> QED
      BY <1>1, <1>6, <3>1 DEF TransferInv, PutWaits
  <2>2. file = Content /\ Content' = Content
    BY <1>1, <2>1 DEF TransferInv, LoopWaits, Content
  <2> QED
    BY <1>1, <2>2 DEF Close, WholeOrShortened
<1>7. PutWaits'
  BY <1>1, <1>6 DEF TransferInv, PutWaits, clientVars
<1> QED
  BY <1>3, <1>4, <1>5, <1>7 DEF TransferInv

LEMMA ServerStopsStep == TransferInv /\ ServerStops => TransferInv'
<1> SUFFICES ASSUME TransferInv, ServerStops PROVE TransferInv'
  OBVIOUS
<1>1. UNCHANGED <<op, size, sent, answer, remaining, nb_read, ret,
                  consumed, split, clientVars>>
  BY DEF ServerStops
<1>2. CASE op = "GET"
  <2>1. /\ sender_open' = FALSE
        /\ UNCHANGED <<receiver, file, lost>>
    BY <1>2 DEF ServerStops
  <2>2. TransferTypeOK'
    BY <1>1, <2>1 DEF TransferInv, TransferTypeOK, clientVars, Wanted, Available
  <2>3. LoopWaits' /\ PutWaits'
    BY <1>1, <1>2, <2>1 DEF TransferInv, LoopWaits, PutWaits, clientVars
  <2> QED
    BY <1>1, <2>1, <2>2, <2>3, LoopUntouched DEF TransferInv, receiverVars
<1>3. CASE op = "PUT"
  <2>1. /\ receiver' = "gone" /\ UNCHANGED sender_open
        /\ IF answer = 0 THEN Close ELSE UNCHANGED <<file, lost>>
    BY <1>3 DEF ServerStops
  <2>2. /\ file' \in Seq(1..size) /\ lost' \in BOOLEAN /\ Rising(file', size)
        /\ ~lost' => ~lost /\ file' = file
    BY <2>1, ClosedFile DEF TransferInv, TransferTypeOK, Ordered, Rising
  <2>3. TransferTypeOK'
    BY <1>1, <2>1, <2>2
       DEF TransferInv, TransferTypeOK, clientVars, Wanted, Available
  <2>4. RetFits' /\ CountsLag' /\ UnsplitCounts' /\ Ordered'
    BY <1>1, <2>1, <2>2 DEF TransferInv, RetFits, CountsLag, UnsplitCounts,
                            Ordered, Rising, Prefix, Written
  <2>5. LoopWaits' /\ PutWaits'
    BY <1>1, <1>3, <2>1 DEF TransferInv, LoopWaits, PutWaits, WholeOrShortened,
                            clientVars, Content
  <2> QED
    BY <2>3, <2>4, <2>5 DEF TransferInv
<1> QED
  BY <1>2, <1>3 DEF TransferInv, TransferTypeOK

LEMMA TransferInvStep == TransferInv /\ [Next]_vars => TransferInv'
<1> SUFFICES ASSUME TransferInv, [Next]_vars
             PROVE  TransferInv'
  OBVIOUS
<1>1. TransferTypeOK
  BY DEF TransferInv
<1>2. CASE UNCHANGED vars
  <2>1. TransferTypeOK' /\ LoopWaits' /\ PutWaits'
    BY <1>2 DEF TransferInv, vars, receiverVars, clientVars, TransferTypeOK,
                Wanted, Available, LoopWaits, PutWaits, WholeOrShortened,
                Content
  <2> QED
    BY <1>2, <2>1, LoopUntouched DEF TransferInv, vars
<1>3. CASE ReadEof
  <2> USE <1>3 DEF ReadEof
  <2>1. ret' \in 0..CHUNK_SIZE
    BY TransferAssumption
  <2>2. TransferTypeOK'
    BY <1>1, <2>1 DEF TransferTypeOK, clientVars, Wanted, Available
  <2>3. RetFits'
    BY <1>1, WrittenType DEF RetFits
  <2>4. CountsLag' /\ UnsplitCounts' /\ Ordered'
    BY DEF TransferInv, CountsLag, UnsplitCounts, Ordered, Rising, Written,
           Prefix
  <2>5. LoopWaits' /\ PutWaits'
    BY DEF TransferInv, LoopWaits, PutWaits, clientVars, Content
  <2> QED
    BY <2>2, <2>3, <2>4, <2>5 DEF TransferInv
<1>4. CASE LoopEnds
  <2> USE <1>4 DEF LoopEnds
  <2>1. TransferTypeOK'
    BY <1>1 DEF TransferTypeOK, clientVars, Wanted, Available
  <2>2. RetFits' /\ CountsLag' /\ UnsplitCounts' /\ Ordered'
    BY DEF TransferInv, RetFits, CountsLag, UnsplitCounts, Ordered, Rising,
           Written, Prefix
  <2>3. LoopWaits' /\ PutWaits'
    BY AllReadIsIntact DEF TransferInv, LoopWaits, PutWaits, clientVars, Content
  <2> QED
    BY <2>1, <2>2, <2>3 DEF TransferInv
<1>5. CASE ServerCannotCreate
  <2> USE <1>5 DEF ServerCannotCreate
  <2>1. TransferTypeOK'
    BY <1>1 DEF TransferTypeOK, clientVars, Wanted, Available
  <2>2. RetFits' /\ CountsLag' /\ UnsplitCounts' /\ Ordered'
    BY DEF TransferInv, RetFits, CountsLag, UnsplitCounts, Ordered, Rising,
           Written, Prefix
  <2>3. LoopWaits' /\ PutWaits'
    BY DEF TransferInv, LoopWaits, PutWaits, clientVars, Content
  <2> QED
    BY <2>1, <2>2, <2>3 DEF TransferInv
<1>6. CASE ServerDrops
  <2> USE <1>6 DEF ServerDrops
  <2>1. consumed' \in 0..sent /\ Available' <= SocketBuffer
    BY <1>1, WrittenType DEF Available
  <2>2. TransferTypeOK'
    BY <1>1, <2>1 DEF TransferTypeOK, clientVars, Wanted
  <2>3. receiver \in {"finished", "gone"}
    BY <1>1 DEF TransferInv, TransferTypeOK, LoopWaits, PutWaits
  <2>4. RetFits' /\ CountsLag' /\ UnsplitCounts' /\ Ordered'
    BY <2>3 DEF TransferInv, RetFits, CountsLag, UnsplitCounts, Ordered,
                Rising, Written, Prefix
  <2>5. LoopWaits' /\ PutWaits'
    BY DEF TransferInv, LoopWaits, PutWaits, WholeOrShortened, clientVars,
           Content
  <2> QED
    BY <2>2, <2>4, <2>5 DEF TransferInv
<1>7. CASE PutReturns \/ PutFails
  <2>1. /\ UNCHANGED <<op, size, sent, answer, receiverVars>>
        /\ op = "PUT" /\ client = "busy"
        /\ client' = "returned" /\ client_result' \in {0, -1}
        /\ client_result' = 0 => answer # 0
        /\ sender_open' = FALSE
    BY <1>7 DEF PutReturns, PutFails
  <2>2. TransferTypeOK'
    <3>1. {sender_open', split', lost'} \subseteq BOOLEAN
      BY <1>1, <2>1 DEF TransferTypeOK, receiverVars
    <3> QED
      BY <1>1, <2>1, <3>1
         DEF TransferTypeOK, receiverVars, Wanted, Available
  <2>3. LoopWaits' /\ PutWaits'
    BY <2>1 DEF TransferInv, LoopWaits, PutWaits, WholeOrShortened,
                receiverVars, Content
  <2> QED
    BY <2>1, <2>2, <2>3, LoopUntouched DEF TransferInv
<1>8. CASE ReadTimesOut
  <2> USE <1>8 DEF ReadTimesOut
  <2>1. Wanted \in Nat /\ Wanted > 0
    BY <1>1, WrittenType DEF Wanted, Smaller
  <2>2. TransferTypeOK'
    <3>1. {sender_open', split', lost'} \subseteq BOOLEAN
      BY <1>1 DEF TransferTypeOK
    <3> QED
      BY <1>1, <2>1, <3>1 DEF TransferTypeOK, clientVars, Wanted, Available
  <2>3. RetFits'
    BY <2>1 DEF RetFits, Wanted
  <2>4. nb_read \in Nat /\ consumed \in Nat /\ Written \in Nat
    BY <1>1, WrittenType
  <2>5. CountsLag'
    <3>1. /\ consumed >= Written
          /\ consumed = Written => nb_read = 0
      BY <2>4 DEF TransferInv, CountsLag
    <3>2. consumed' = consumed /\ nb_read' = 0 /\ Written' = Written
      BY DEF Written
    <3>3. consumed' - nb_read' = consumed
      BY <2>4, <3>2
    <3>4. consumed = Written /\ ~lost => file' = Prefix(Written')
      BY <2>4, <3>1, <3>2 DEF TransferInv, CountsLag
    <3> QED
      BY <3>1, <3>2, <3>3, <3>4 DEF CountsLag, Prefix
  <2>6. UnsplitCounts'
    <3> SUFFICES ASSUME ~split'
                 PROVE  /\ ~lost' => file' = Prefix(Written')
                        /\ consumed' - nb_read' = Written'
      BY DEF UnsplitCounts, Prefix
    <3>1. ~split /\ ~(nb_read > 0)
      BY Zenon
    <3>2. nb_read = 0
      BY <2>4, <3>1
    <3> QED
      BY <3>1, <3>2 DEF TransferInv, UnsplitCounts, Written
  <2>7. Ordered'
    <3>1. Rising(file, consumed - nb_read) /\ file \in Seq(1..size)
      BY <1>1 DEF TransferInv, TransferTypeOK, Ordered
    <3>2. \A n \in DOMAIN file : file[n] <= consumed
      BY <1>1, <2>4, <3>1, WrittenType DEF Rising
    <3>3. Rising(file', consumed' - nb_read')
      BY <2>4, <3>1, <3>2 DEF Rising
    <3> QED
      BY <3>3 DEF TransferInv, Ordered, Rising
  <2>8. LoopWaits' /\ PutWaits'
    BY DEF TransferInv, LoopWaits, PutWaits, clientVars, Content
  <2> QED
    BY <2>2, <2>3, <2>5, <2>6, <2>7, <2>8 DEF TransferInv
<1> QED
  BY <1>2, <1>3, <1>4, <1>5, <1>6, <1>7, <1>8, SendStep, ReadStep, WriteStep,
     WriteFailsStep, ServerCannotWriteStep, GetReturnsStep, ServerAnswersStep,
     ServerStopsStep
     DEF Next, ReceiverStep, ServerStep, ClientEnds

LEMMA TransferInvariant == Spec => []TransferInv
BY TransferInvInit, TransferInvStep, PTL DEF Spec

(* The variables keep their types: no count leaves its range, whatever the *)
(* order of reads, time-outs, refusals and closed connections.             *)
THEOREM TransferTypeCorrect == Spec => []TransferTypeOK
<1>1. TransferInv => TransferTypeOK
  BY DEF TransferInv
<1> QED
  BY <1>1, TransferInvariant, PTL

(* A client told 201 has its file at the server, although recv_all returns *)
(* only the count of its last read: the loop of receive_http_file cannot   *)
(* end early while the client waits.  What can be missing is the end that  *)
(* stdio kept back, when the fclose before the answer failed.              *)
THEOREM AcknowledgedPutsAreIntact == Spec => []AcknowledgedPutIsIntact
<1>1. TransferInv => AcknowledgedPutIsIntact
  BY DEF TransferInv, PutWaits, WholeOrShortened, AcknowledgedPutIsIntact
<1> QED
  BY <1>1, TransferInvariant, PTL

(* A download that returns without the whole file, even if chunks were     *)
(* split or timed out, has had its server's end of the connection closed,  *)
(* or its own stdio could not write: the truncation DownloadedIsIntact     *)
(* tells of has no third cause.                                            *)
THEOREM TruncationHasTwoCauses ==
    Spec => [](op = "GET" /\ client = "returned" /\ file # Content
                   => ~sender_open \/ lost)
<1>1. TransferInv =>
          (op = "GET" /\ client = "returned" /\ file # Content
               => ~sender_open \/ lost)
  BY DEF TransferInv, LoopWaits
<1> QED
  BY <1>1, TransferInvariant, PTL

(* Whatever was split, timed out or refused by the disk, the file has its  *)
(* bytes in the order of the content and none twice; a receiver whose      *)
(* chunks came whole and were written has the beginning of the content.    *)
THEOREM UnsplitFilesArePrefixes == Spec => []UnsplitFileIsPrefix
<1>1. TransferInv => UnsplitFileIsPrefix
  <2> SUFFICES ASSUME TransferInv PROVE UnsplitFileIsPrefix
    OBVIOUS
  <2>1. TransferTypeOK
    BY DEF TransferInv
  <2>2. \A m, n \in DOMAIN file : m < n => file[m] < file[n]
    BY DEF TransferInv, Ordered, Rising
  <2>3. ASSUME ~split, ~lost
        PROVE  file = SubSeq(Content, 1, size - remaining)
    <3>1. file = Prefix(Written)
      BY <2>3 DEF TransferInv, UnsplitCounts
    <3>2. SubSeq(Content, 1, Written) = Prefix(Written)
      BY <2>1, WrittenType DEF Content, Prefix, Written
    <3> QED
      BY <3>1, <3>2 DEF Written
  <2> QED
    BY <2>1, <2>2, <2>3 DEF UnsplitFileIsPrefix
<1> QED
  BY <1>1, TransferInvariant, PTL
=============================================================================
