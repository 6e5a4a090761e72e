------------------------------ MODULE Transfer ------------------------------
(***************************************************************************)
(* One file moving between two nodes over one TCP connection: src/http.c   *)
(* with recv_all and send_all of src/shared.c.                             *)
(*                                                                         *)
(*   GET  the client (download_http_file) is the receiver, the server      *)
(*        (send_http_file) the sender;                                     *)
(*   PUT  the client (upload_http_file) is the sender, the server          *)
(*        (receive_http_file) the receiver, and it answers.                *)
(*                                                                         *)
(* The header has been exchanged (it is read byte by byte, so no byte of   *)
(* the body is taken with it).  The bytes of the file are 1..size.  The    *)
(* sockets of a client time out, those of a server do not, and the server  *)
(* does not close a connection after serving it.  read() returns what has  *)
(* arrived, at most what is asked: how much arrives between two reads is   *)
(* up to the network.  The receiver writes through stdio, which keeps back *)
(* up to StdioBuffer bytes; file holds those too, and when they cannot be  *)
(* flushed, because the disk is full or the process ends, they are gone.   *)
(***************************************************************************)
EXTENDS Integers, Sequences

CONSTANTS
    MaxSize,       \* bound on the size of the file
    CHUNK_SIZE,    \* bytes asked of one recv_all: 4096
    SocketBuffer,  \* bytes that fit between the two processes
    StdioBuffer    \* bytes that a FILE keeps back: 4096

ASSUME TransferAssumption ==
    /\ MaxSize \in Nat
    /\ CHUNK_SIZE \in Nat \ {0}
    /\ SocketBuffer \in Nat \ {0}
    /\ StdioBuffer \in Nat

VARIABLES
    op, size,
    sent, consumed,  \* bytes written into, and read from, the connection
    sender_open,     \* the sender has not closed it
    receiver,        \* "read" or "write" in the loop, "finished", "gone"
    remaining,       \* content_length
    nb_read, ret,    \* of the recv_all under way
    file,            \* what the receiver has written
    answer,          \* the server's status line for a PUT, 0 before it
    client,          \* "busy", or "returned" with
    client_result,
    split,           \* history: a recv_all needed more than one read
    lost             \* history: what was given to stdio did not all get out

receiverVars ==
    <<receiver, remaining, nb_read, ret, file, consumed, split, lost>>
clientVars == <<client, client_result>>
vars == <<op, size, sent, sender_open, answer, receiverVars, clientVars>>

Smaller(m, n) == IF m < n THEN m ELSE n

Available == sent - consumed
Wanted == Smaller(remaining, CHUNK_SIZE)
Content == [n \in 1..size |-> n]

(* What the receiver has in its buffer and counts as read.                 *)
Chunk == [n \in 1..ret |-> consumed - nb_read + n]

(* s without its last bytes, up to so many of them.                        *)
Shortened(s, most) ==
    {SubSeq(s, 1, m) : m \in {k \in 0..Len(s)-1 : Len(s) - k <= most}}

(* fclose, whose result nobody looks at.                                   *)
Close ==
    \/ UNCHANGED <<file, lost>>
    \/ file' \in Shortened(file, StdioBuffer) /\ lost' = TRUE
-----------------------------------------------------------------------------
(* Plausible slips in the definitions below, for the mutation checks.      *)

ReadEof_retrying ==
    /\ receiver = "read" /\ remaining > 0
    /\ Available = 0 /\ ~sender_open
    /\ nb_read' = 0
    /\ UNCHANGED <<op, size, sent, sender_open, answer, clientVars,
                   receiver, remaining, consumed, ret, file, split, lost>>

Write_whole_buffer ==
    /\ receiver = "write"
    /\ file' = file \o [n \in 1..CHUNK_SIZE |-> consumed - nb_read + n]
    /\ remaining' = remaining - ret
    /\ receiver' = IF ret = 0 THEN "finished" ELSE "read"
    /\ nb_read' = 0
    /\ UNCHANGED <<op, size, sent, sender_open, answer, clientVars,
                   ret, consumed, split, lost>>

ServerAnswers_before_the_body ==
    /\ op = "PUT" /\ receiver \in {"read", "finished"} /\ answer = 0
    /\ answer' = 201
    /\ UNCHANGED <<op, size, sent, sender_open, receiverVars, clientVars>>

PutFails_leaving_open ==
    /\ op = "PUT" /\ client = "busy"
    /\ client' = "returned" /\ client_result' = -1
    /\ UNCHANGED <<op, size, sent, sender_open, answer, receiverVars>>
-----------------------------------------------------------------------------
(* An empty file is refused by upload_http_file before it connects.        *)
Init ==
    /\ op \in {"GET", "PUT"}
    /\ size \in IF op = "PUT" THEN 1..MaxSize ELSE 0..MaxSize
    /\ sent = 0 /\ consumed = 0 /\ sender_open = TRUE
    /\ receiver = "read" /\ remaining = size
    /\ nb_read = 0 /\ ret = 0 /\ file = <<>>
    /\ answer = 0
    /\ client = "busy" /\ client_result = 0
    /\ split = FALSE /\ lost = FALSE

(* send_all: part of the rest fits into the socket.                        *)
Send ==
    /\ sender_open /\ receiver # "gone"
    /\ \E n \in 1..Smaller(size - sent, SocketBuffer - Available) :
           sent' = sent + n
    /\ UNCHANGED <<op, size, sender_open, answer, receiverVars, clientVars>>

(* One read of recv_all; when it has all it was asked for, recv_all        *)
(* returns what this LAST read returned.                                   *)
Read ==
    /\ receiver = "read" /\ remaining > 0 /\ Available > 0
    /\ LET r == Smaller(Wanted - nb_read, Available)
       IN  /\ consumed' = consumed + r
           /\ nb_read' = nb_read + r
           /\ ret' = r
           /\ split' = (split \/ nb_read > 0)
           /\ receiver' = IF nb_read + r = Wanted THEN "write" ELSE "read"
    /\ UNCHANGED <<op, size, sent, sender_open, answer, clientVars,
                   remaining, file, lost>>

(* End of file: recv_all returns 0, whatever it has read before.           *)
ReadEof ==
    /\ receiver = "read" /\ remaining > 0
    /\ Available = 0 /\ ~sender_open
    /\ ret' = 0
    /\ receiver' = "write"
    /\ UNCHANGED <<op, size, sent, sender_open, answer, clientVars,
                   remaining, consumed, nb_read, file, split, lost>>

(* The client's socket times out: recv_all returns -1, the loop of         *)
(* download_http_file takes EAGAIN for a reason to go on and calls it      *)
(* again with the buffer's start.                                          *)
ReadTimesOut ==
    /\ op = "GET"
    /\ receiver = "read" /\ remaining > 0 /\ Available = 0 /\ sender_open
    /\ split' = (split \/ nb_read > 0)
    /\ nb_read' = 0
    /\ UNCHANGED <<op, size, sent, sender_open, answer, clientVars,
                   receiver, remaining, consumed, ret, file, lost>>

(* The first ret bytes of the buffer are written and counted; with 0 the   *)
(* loop ends.                                                              *)
Write ==
    /\ receiver = "write"
    /\ IF ret = 0
       THEN /\ receiver' = "finished"
            /\ UNCHANGED <<remaining, file>>
       ELSE /\ file' = file \o Chunk
            /\ remaining' = remaining - ret
            /\ receiver' = "read"
    /\ nb_read' = 0
    /\ UNCHANGED <<op, size, sent, sender_open, answer, clientVars,
                   ret, consumed, split, lost>>

(* The fwrite of a download fails: of what stdio kept back and of the      *)
(* chunk the end is gone, and the chunk is counted all the same.           *)
WriteFails ==
    /\ op = "GET" /\ receiver = "write" /\ ret # 0
    /\ file' \in Shortened(file \o Chunk, StdioBuffer + ret) /\ lost' = TRUE
    /\ remaining' = remaining - ret
    /\ receiver' = "read"
    /\ nb_read' = 0
    /\ UNCHANGED <<op, size, sent, sender_open, answer, clientVars,
                   ret, consumed, split>>

LoopEnds ==
    /\ receiver = "read" /\ remaining = 0
    /\ receiver' = "finished"
    /\ UNCHANGED <<op, size, sent, sender_open, answer, clientVars,
                   remaining, consumed, nb_read, ret, file, split, lost>>

(* download_http_file returns 0 however its loop and the fclose ended.     *)
GetReturns ==
    /\ op = "GET" /\ client = "busy" /\ receiver = "finished"
    /\ client' = "returned" /\ client_result' = 0
    /\ Close
    /\ UNCHANGED <<op, size, sent, sender_open, answer, receiver, remaining,
                   nb_read, ret, consumed, split>>

(* receive_http_file says 201 however its loop and the fclose ended.       *)
ServerAnswers ==
    /\ op = "PUT" /\ receiver = "finished" /\ answer = 0
    /\ answer' = 201
    /\ Close
    /\ UNCHANGED <<op, size, sent, sender_open, clientVars, receiver,
                   remaining, nb_read, ret, consumed, split>>

(* The file, or its directory, cannot be created: 500.                     *)
ServerCannotCreate ==
    /\ op = "PUT" /\ answer = 0
    /\ receiver = "read" /\ consumed = 0
    /\ receiver' = "finished"
    /\ answer' = 500
    /\ UNCHANGED <<op, size, sent, sender_open, clientVars,
                   remaining, nb_read, ret, file, consumed, split, lost>>

(* The fwrite of a PUT fails: 500 too.                                     *)
ServerCannotWrite ==
    /\ op = "PUT" /\ answer = 0
    /\ receiver = "write" /\ ret # 0
    /\ file' \in Shortened(file \o Chunk, StdioBuffer + ret) /\ lost' = TRUE
    /\ receiver' = "finished"
    /\ answer' = 500
    /\ UNCHANGED <<op, size, sent, sender_open, clientVars,
                   remaining, nb_read, ret, consumed, split>>

(* The body the server left in the socket reaches get_http_request as if   *)
(* it were another request, and is dropped.                                *)
ServerDrops ==
    /\ answer = 500 /\ Available > 0
    /\ consumed' = sent
    /\ UNCHANGED <<op, size, sent, sender_open, answer, clientVars,
                   receiver, remaining, nb_read, ret, file, split, lost>>

(* upload_http_file reads an answer and returns 0 whatever its status.     *)
PutReturns ==
    /\ op = "PUT" /\ client = "busy" /\ sent = size /\ answer # 0
    /\ client' = "returned" /\ client_result' = 0
    /\ sender_open' = FALSE
    /\ UNCHANGED <<op, size, sent, answer, receiverVars>>

(* The server does not read, or does not answer, for ten seconds, or its   *)
(* end of the connection is gone: -1.                                      *)
PutFails ==
    /\ op = "PUT" /\ client = "busy"
    /\ client' = "returned" /\ client_result' = -1
    /\ sender_open' = FALSE
    /\ UNCHANGED <<op, size, sent, answer, receiverVars>>

(* The server's process ends; its end of the connection is closed, and     *)
(* what stdio kept back of a PUT is gone.                                  *)
ServerStops ==
    /\ client = "busy"
    /\ IF op = "GET"
       THEN /\ sender_open /\ sender_open' = FALSE
            /\ UNCHANGED <<receiver, file, lost>>
       ELSE /\ receiver # "gone" /\ receiver' = "gone"
            /\ IF answer = 0 THEN Close ELSE UNCHANGED <<file, lost>>
            /\ UNCHANGED sender_open
    /\ UNCHANGED <<op, size, sent, answer, remaining, nb_read, ret,
                   consumed, split, clientVars>>

ReceiverStep == Read \/ ReadEof \/ Write \/ WriteFails \/ LoopEnds
ServerStep ==
    ServerAnswers \/ ServerCannotCreate \/ ServerCannotWrite \/ ServerDrops
ClientEnds == GetReturns \/ PutReturns

Next ==
    \/ Send \/ ReceiverStep \/ ServerStep \/ ClientEnds
    \/ ReadTimesOut \/ PutFails \/ ServerStops

Spec == Init /\ [][Next]_vars

(* Both processes run, and the ten seconds of a waiting client pass; that  *)
(* they pass before the answer, or that the server stops, is not forced.   *)
FairSpec ==
    /\ Spec
    /\ WF_vars(Send) /\ WF_vars(ReceiverStep) /\ WF_vars(ServerAnswers)
    /\ WF_vars(ClientEnds) /\ WF_vars(PutFails)
-----------------------------------------------------------------------------
TransferTypeOK ==
    /\ op \in {"GET", "PUT"} /\ size \in 0..MaxSize
    /\ sent \in 0..size /\ consumed \in 0..sent
    /\ Available <= SocketBuffer
    /\ receiver \in {"read", "write", "finished", "gone"}
    /\ remaining \in 0..size /\ nb_read \in 0..Wanted /\ ret \in 0..CHUNK_SIZE
    /\ file \in Seq(1..size)
    /\ answer \in {0, 201, 500}
    /\ client \in {"busy", "returned"} /\ client_result \in {0, -1}
    /\ {sender_open, split, lost} \subseteq BOOLEAN

(* A PUT that the client has seen answered with 201 has left the whole     *)
(* file at the server, although recv_all miscounts (src/shared.c:47): once *)
(* bytes are miscounted the server waits for more than will come and does  *)
(* not answer before the client gives up.  Only the fclose before the      *)
(* answer can fail unseen, and takes no more than stdio keeps back.        *)
AcknowledgedPutIsIntact ==
    op = "PUT" /\ client = "returned" /\ client_result = 0 /\ answer = 201
        => \/ file = Content
           \/ lost /\ file \in Shortened(Content, StdioBuffer)

(* Whatever is miscounted and whatever the disk refuses, the file has      *)
(* bytes of the content in their order and none twice.  As long as every   *)
(* recv_all was satisfied by one read and stdio got rid of everything, it  *)
(* is exactly the beginning of the content.                                *)
UnsplitFileIsPrefix ==
    /\ TransferTypeOK
    /\ \A m, n \in DOMAIN file : m < n => file[m] < file[n]
    /\ ~split /\ ~lost => file = SubSeq(Content, 1, size - remaining)

(* The server's thread gets out of every PUT: the client closes its end    *)
(* whether it was answered or gave up.                                     *)
ServerLeavesPut == op = "PUT" ~> receiver \in {"finished", "gone"}

(* A download whose chunks come whole, or whose server stops, returns.     *)
DownloadReturnsUnlessSplit == <>(client = "returned" \/ split)

(* include/client.h:44-45, "0 if the file was downloaded successfully".    *)
DownloadedIsIntact ==
    op = "GET" /\ client = "returned" /\ client_result = 0 => file = Content
=============================================================================
