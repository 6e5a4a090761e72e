# A verification project for KademliaTransfer

KademliaTransfer is a peer-to-peer file transfer program in C: nodes find each
other by UDP broadcasts, keep a Kademlia-like table of peers, look up nodes and
owners of files by asking peers over TCP, and move files by HTTP. This directory
holds TLA+ modules of its core, TLC instances that check them, and TLAPS proofs
of what matters most. Source paths below are relative to the repository, which
has its code in `src/` and `include/`; `PROJECT.json` maps every definition to
the lines it stands for.

## 1. Inventory of the system

A node is one process with two kinds of threads. *Frontend threads* (the command
line in `src/main.c`) call `download_file`, `upload_file`, `show_network_status`
and `stop_client`. One *network thread* (`update_client` in `src/client.c`) runs
rounds of `update_network`: the queued commands, `poll`, new connections and
broadcasts, readable connections, the broadcast timer. Everything a node
does for others or for its user happens on that thread, blocking. That is the
source of most of the hard behaviour: while a node executes an upload it answers
nobody, and two nodes that contact each other wait until a timeout.

| Component | State | Operations | Talks to | What makes it correct |
|---|---|---|---|---|
| Identifiers (`list.c`, `bucket.c`) | none | `dist_hash`, `compare_hashes`, `get_bucket_index` | table, lookup, sort | XOR distance orders identifiers; the bucket number is that of an existing bucket |
| Table of peers (`bucket.c`, `list.c`) | 8 lists of at most 4 peers | `update_bucket_peers`, `find_closest_peers`, `find_nearest` | RPC handlers, lookup, discovery | each peer once, in its bucket; searches return the closest known |
| Doubly linked list (`list.c`) | nodes and their pointers, head, tail, length | add and remove at either end | table | the same list in both directions; no node lost |
| Discovery (`network.c`, `shared.c`, `schedule.h`) | datagrams unread, cached identity, time of the next broadcast | read a datagram, broadcast every 30 s | table | greetings are heard; broadcasts go on |
| Iterative lookup (`rpc.c:193-416`) | two vectors side by side, a scan index | one loop for FIND_NODE and FIND_VALUE | table, sockets, sort | everybody heard of is asked, once; it ends; the closest are returned |
| Vector sort (`vector.c`) | a vector | bubble sort with a comparator | lookup | a sorted permutation |
| Command queue (`command.c`, `client.c`, `network.c:297-345`) | ring of 10, per command lock, condition, flag, result | push, pop, wait, complete, free, stop | frontend and network threads | no lost wakeup, no use after free, order kept, calls return |
| Network rounds (`network.c`) | 128 `pollfd` entries, descriptors | accept, dispatch, close, stop | peers, all handlers | entries and open descriptors agree; rounds go on |
| Reception of packets (`network.c:40-160`, `rpc.c`, `shared.c`) | one static buffer for all connections | header, size check, body, dispatch by call type | rounds, handlers | what is executed is what was sent, once, in order |
| HTTP transfer (`http.c`, `shared.c`) | one stream on each side | GET, PUT, `recv_all`, `send_all` | peers | success means the file is there, whole |
| Upload, download, STORE, storage (`rpc.c`, `storage.c`) | key to list of owners; files | replicate, STORE, find owners, GET | all nodes | listed owners own the file; calls end though nodes wait for each other |
| Hash map (`lib/hash/hashmap.c`) | array of slots | set, get, delete, resize | storage | it is a map; its loops end |
| Command line and magnet links (`main.c`, `magnet.c`) | directories of files and links | menu, share a file, fetch a file, headless mode | queue, network thread (through the disk) | link, copy, owner and download agree; the menu comes back |
| Serialisation, hashing, log, scripts | static caches, output | parse, format | | section 7 |

Hard to test are: the interleavings of frontend and network threads around one
command, and around one file of the upload directory; the table's dependence on
the order in which peers are heard of; answers that overlap while the scanned
vector grows; TCP splitting a stream at any byte; a peer that closes, is reset,
times out or stops between two steps; arrays, queues and hash tables at their
limit; a clock that is late or set back; a timeout racing a late server.
`PROJECT.json` lists each hazard with its line and the properties that watch it.

## 2. Modules

```
Hash <- Buckets <- Lookup            CommandService <- CommandQueue
           ^                         KeyValues      <- HashMap
       Discovery
VectorSort  LinkedList  Transfer  SocketTable  RpcReception
Replication  CommandLine
```

An arrow points to the module used. `X_proofs` extends X with its theorems:
CommandQueue, SocketTable, RpcReception, Replication, Transfer and CommandLine
have one each; `Peers_proofs` is about Hash, Buckets, Discovery and Lookup,
`Containers_proofs` about VectorSort, LinkedList and HashMap. The `MC*` modules give
constants values for TLC. Each module of
state machines starts with a few operators named after the definition they
spoil (`Pop_newest`, `Accept_last_entry`): plausible slips used to see that the
properties notice them; no specification uses them. The type invariant of a module
(`XTypeOK`) is proved, or is the first conjunct of its first safety invariant
in the runs.

**Hash.** An identifier is a function from bit positions to {0, 1} with position
0 the most significant bit of byte 0, as the code numbers bits. The program's
byte-wise comparison is decided by the first differing bit.

**Buckets.** `buckets[b]` is the list of bucket `b`, head first. `Heard(p)` is
`update_bucket_peers`; it is called for broadcasts and for peers in answers.
`find_nearest` is the C loop as a recursive function, including the missing `break`
that lets one peer replace every farther entry. `find_closest_peers` visits the
buckets in the code's order b, b-1, b+1, b-2, ..., each by `SearchBucket`. `damaged` records that a
bucket past the array was looked for or written to; nothing is said of the
program after that.

**Discovery** extends Buckets with what drives it outside lookups: the datagrams
unread at the broadcast socket, and the schedule. The first look at a datagram
leaves it in the queue; ours and foreign ones are then taken off
(`DropDatagram`), one too short for a magic number is not (`LeaveShort`). Our
identity is found once a network is there, and then cached (`LookUpIdentity`);
without it `update_bucket_peers` gives up. `wait` is `next_run - now`, and
the clock may be set back by `MaxSetBack` in all.

**Lookup** extends Buckets with `iterative_find_peers`: `pending` and
`contacted` are the two vectors, `i` the scan index, `answer` what remains to be
read of a response. A contact has one of the code's outcomes (no connection or
timeout or wrong packet: `NoAnswer`; a list of neighbours; the value), chosen by
the environment. `asked` and `heard` are history. `open_sockets` counts the
sockets left open by the `break` at `rpc.c:306`.

**VectorSort** is `vector_sort`, one comparison per step, with the comparator of
`rpc.c:155-165` as `cmp`. Elements are pointers; several may be at one distance.

**HashMap** is `lib/hash/hashmap.c` as the storage uses it, one slot per step:
robin hood insertion with its exchanges (`GoOn`), the backward shift of a delete,
the resizes and a resize that finds no memory. A resize leaves the array `old`,
of which `moved` slots are done, one per step, and ends in `EndOfMove`. `hash` is
chosen at the start, so all patterns of collision are covered. **KeyValues** is
the map it implements: one call at a time, each changes nothing but its own key,
and that once, and a get returns what was stored. `IsAMap` is its specification
under a mapping (`held`, `calling`) that, in the middle of a call, looks for a key
first in what a set that resizes is about to insert, then in the entry in hand,
then in the array and the part of the old one that is not moved yet. A set
without memory for a larger array changes nothing (`SetOutOfMemory`, `Refuse`).

**LinkedList** is `src/list.c` on nodes and pointers. Removing the last node
leaves the other end pointing to freed memory; `behind` records that. There
is no step that follows a pointer to freed memory (`Valid`).

**CommandQueue** has one action per critical section or unlocked access. A
thread has at most one call in progress, so a command is named by its caller.
`locked` is true while the network thread holds a command's lock;
`pthread_cond_wait` may return without a signal (`SpuriousWakeup`). The test
of `commands.count` and the pop are separate steps, as in the code. A download may
come to be retried without limit (`DownloadRetries`), which only its server ends
(`ServerCloses`).
**CommandService** is the abstract specification: calls in a line, executed once
in order, refused only when the line is full; no ring, locks or wakeups.
`ServesInOrder` is `Service!ServiceSpec` under the mapping in CommandQueue: the
line is the ring's contents, with a popped and not yet executed command before
them. A refused call is "lost" there, as it is in the code.

**SocketTable** is the rounds of the network thread over `sock_array` while
peers connect, send a message whole or in pieces, and close. `pc` and `k` are
the place in the round and the entry at hand; `ready` and `hung_up` are
`revents`, which stay as poll left them for the whole round. `fds` is the set of
open descriptors. A message that comes in two pieces within its first four bytes
is waited for in `recv_until`, as in the code.

**RpcReception** goes into one entry's turn: several packets on a connection, cut
anywhere behind a magic number. `recv_all` is a loop of `Recv` steps whose `ret`
is the count of the last piece only; `HeaderRead` compares that with the header's
size, `BodyRead` executes what the static buffer holds. A unit of the stream
is named by connection, packet and place, so bytes left from another packet show.
`lost` is history: connections of which a header was refused. If that packet
has a body, what follows it is read as an HTTP request by `recv_until`, and the
connection comes into step again only where that fills the buffer (`flooded`); a
PING has none, so only the PING is left out. A size below a header's makes the
length of the body wrap around: `read` refuses it at once, or takes all that
comes; where that goes past the buffer the model ends ("overrun").

**Transfer** is the body of a GET or PUT over one connection: `sent` and
`consumed` bytes, the receiver's loop around `recv_all`, the client's timeouts
and the server's lack of them, the answer of a PUT. `Read` returns what happens
to have arrived; `ret` is what `recv_all` returns, namely the count of its last
read. The file is written through stdio, which keeps up to `StdioBuffer` bytes
back: an `fwrite` or `fclose` that fails, and a process that ends, lose the end of
it (`Shortened`, history `lost`). The bytes of the file are 1..size, so a wrong,
repeated or missing byte shows in `file`.

**Replication** is one file in a network of nodes: who has a copy, who is
stored as an owner, what lies unread in each node's sockets. One thread per node:
a node that waits for a PUT serves nobody. `Copy` is the command line's copy into
the upload directory, which may fail; the upload then sends what it finds there
(`ReadsCopy`), so a part may be replicated. A PUT that its client gave up stays
in the sockets, whole or cut off, and is carried out later. A process may end
in the middle of writing the file (`EndsWriting`). A download ends, fails, or is
retried until its server's process ends (`body`). `spoiled` is history: the nodes to
which one of four things happened, namely that the disk failed, the process ended
while it wrote, a PUT was cut off, or one brought all of a part. The lookup is
reduced to its result (any list of peers, repetitions and ourselves included).

**CommandLine** is one node's user and its directories: several files, whose names
pass for each other because a link is cut at `&` (`magnet.c:116`) and a request at
a blank (`http.c:203`). The menu's steps interleave with a PUT that the network
thread receives into the same directory (`PutOpens`, `PutEnds`, `PutIsCut`) or
answers with 500 (`PutRefused`, and `PutIsCut` for a write that fails), after
which the others list us all the same. The other nodes are one node, to which our
copy goes whole, in part or not at all. A content stands for its hash. `given`,
`spoiled` and `unlinked` are history: what was shared under which name, copies
that came to harm, and names whose last upload ended without a link. `brought`
says whether a download that reported success brought all or a part.

## 3. Runs

| Run | Instance | Shows |
|---|---|---|
| `discovery` | 4-bit identifiers, 3 buckets of 2, six peers, queue of 2 | whatever arrives in whatever order, the table is sound and nobody loses a place; every search, for every target and size, is as full as it can be and has the closest peer of all when the target's bucket is not empty (`SearchFinds`); a queued greeting makes its sender known unless a named obstacle is in the way; broadcasts go on |
| `table_range` | the same: a peer sharing three bits with three buckets | violation: see (1) below |
| `lookup` | 3-bit identifiers, 3 buckets of 3, five peers, answers of at most 2, one lookup that leaves a socket open | whoever fails to answer and whatever the others answer: everybody heard of is asked, the table learns them, only copies from the own table repeat, the closest are returned, the lookup ends |
| `containers` | vectors of 0 to 5 out of five elements, two at one distance; a hash map of 2, 4 or 8 slots, three keys with every choice of hashes in 0..3; a list of three nodes | the sort keeps the elements and sorts them; the map is a map, its entries are where a search finds them, its calls return; the list is the same from both ends |
| `commands` | 3 callers, ring of 2, transfers with and without a file | queue and commands stay consistent in every interleaving; CommandService is implemented; accepted calls return and stopping ends, unless a download is retried for ever |
| `transfer` | files of at most 6, chunks of 2, socket buffer of 3, stdio buffer of 2 | what still holds although `recv_all` miscounts and files are closed without a look |
| `transfer_truncated` | files of at most 5, stdio buffer of 1 | violation: see (5) |
| `sockets` | 3 connections, 2 entries, backlog of 1 | no descriptor is lost or listed twice, `revents` is still true at its entry's turn, only a peer ends a connection, rounds go on; goes up to the accept that finds no free entry |
| `packets` | 2 connections, one to three packets each: requests with and without a body, a request of a wrong size, one too large, one smaller than its header; a buffer of 4 units | executed requests are those sent, once and in order, and what is left out had its header in pieces or was read into a buffer that filled up; one with missing bytes is executed only as the last of its connection; what has arrived is served |
| `replication` | 2 nodes, K = 3, 1 upload, any downloads, 2 stops, disk errors, abandoned PUTs | owners fit in the pair, are who has the file (or one of four known things happened to them), every upload ends, and every download that is not retried for ever |
| `owners_told` | 2 nodes, K = 2 | violation: see (6) |
| `cli` | 3 names that pass for each other, 2 contents, a directory, 2 uploads of ours and the others' together, at most 1 of theirs, 1 edit | links name the copies beside them, listed owners have the file, downloads bring what was linked, each with its exceptions by name; the menu comes back unless a download is retried for ever |

The three data structures share one run because they share nothing: a behaviour
of MCContainers uses one of them.

**Why the bounds are enough to be of interest.** Buckets of two peers with
three candidates fill up and refuse; three buckets have neighbours on one or both
sides of a target. In `lookup`, a list of three with two places left makes
`find_nearest` replace several entries by one, which is the case behind
`OnlyTheTableRepeats`; two entries per answer suffice for answers that overlap,
repeat and extend `pending` behind the scan. Three callers on two slots reach
the full ring, and its indices wrap. Arrays of 2, 4 and 8 slots with three keys
grow twice, shrink, fail to grow, wrap around and shift over the end. Files of up to 6
with chunks of 2 have three whole chunks, or whole ones and a partial one; a buffer
of 3 splits chunks, and stdio keeps back as much as a chunk. Packets of two to five
units on each of two connections leave stale units in the buffer at every place a
torn packet can end; a STORE in pieces and a PING fill the buffer of 4, so that the
next PING is in step again, and what follows a size below the header's overruns it.
K = 3 with two
nodes gives lists with repetitions and with the uploader itself, the cases in
which an upload waits for its own thread. In `cli` the three names are one that is
kept, one cut in a link and one cut in a request; the user has a file and a
directory under two of them, and two uploads, of which one may be the others', suffice
for two contents to meet under one name.

**Bounds by name.** `QUEUE`, `MaxSetBack` (Discovery), `MaxAnswer`,
`MaxOpenSockets` (Lookup), `MaxSize` (Transfer, VectorSort), `MaxBuckets`
(HashMap: allocations above fail), `MaxUploads`, `MaxStops` (Replication),
`MaxUploads`, `MaxOffers`, `MaxShares`, `MaxEdits` (CommandLine). The other
constants are the program's own or the system's (`SocketBuffer`,
`StdioBuffer`), made small. `CHECK_DEADLOCK FALSE` appears where the system
really stops: after the table is overrun (Discovery), or the array of sockets
or the static buffer is, when the thread has stopped, when all connections are
closed, when the program has ended and at the end of a sort or a transfer.

**Fairness.**
- Discovery: the rounds read the socket and look at the schedule, and time passes.
  Nothing is assumed of datagrams, of the network or of the clock's being right.
- Lookup: weak fairness of its steps. Connect, send and receive on sockets from
  `connect_to_peer` return after 10 s (`network.c:454-458`).
- CommandQueue: weak fairness of each caller, of the network thread and of the
  join, plus `PeerGoesOn`: a peer that began a message ends it or closes. The
  last is a real assumption, not given by the code: accepted sockets have no
  timeout (`network.c:178`). Without it the thread, and every call, can wait for
  ever. Nothing is assumed of the server of a download that is retried
  (`ServerCloses` has no fairness), as `http.c:331` has no limit and a server does not
  close: `AcceptedCallsReturn` and `StopCompletes` hold unless the thread stays there for
  ever. Spurious wakeups and stops are not assumed to happen.
- SocketTable and RpcReception: the thread runs, and no peer keeps a connection
  open for ever. The same remark applies; this program's own clients close after
  10 s.
- HashMap: a call under way goes on.
- Transfer: both processes run and a waiting client's timeout passes
  (`WF(PutFails)`). That the server stops, or that a timeout precedes an
  answer, is never forced.
- Replication: a running thread goes on. It waits 10 s at most for a peer to accept,
  to take a PUT or to answer, but for the body of a download as long as the peer's
  process runs (`GetRetries`), and no process need end. `ThreadReturns` needs neither
  that a peer is up nor that it serves.
- CommandLine: the program's own steps, the answers of the network thread (see
  CommandQueue), and a peer that began a PUT ends it or closes. Nothing is assumed
  of the end of a download that is retried. The user need not choose anything.

## 4. Proofs

All theorems hold for every value of the constants that satisfies the named
assumptions (`IdBitsAssumption`, `BucketsAssumption`, `DiscoveryAssumption`,
`LookupAssumption`, `SortAssumption`, `ListAssumption`, `CommandAssumption`,
`SocketAssumption`, `ReplicationAssumption`, `TransferAssumption`,
`CommandLineAssumption`, `ReceptionAssumption`, `MapAssumption`), which TLC evaluates
in the passing runs.

- **Peers_proofs**, on identifiers. `FirstBitSet` and `FirstDifferenceDecides`
  reduce comparison to the first differing bit; the least element of a set of
  naturals comes from well-foundedness. `OwnBucketIsClosest`: a peer in the
  target's bucket is closer than any outside, so starting there is right.
  `LowerBucketIsFarther`: a peer in a bucket below is farther than one in any
  bucket above, so preferring b-1 to b+1 is wrong: divergence (2).
- On the table. `TableInv` is type correctness with `TableSound`; it is inductive
  together: that an inserted peer is new needs the bucket condition, and types
  are needed to reason about the lists. From it: `BucketsTypeCorrect`,
  `TableIsSound`, `PeersAreKept` (the action property `OldestKept`).
  `IndexPastTheArray`: the number of a peer's bucket is past the array exactly if
  the peer is not ourselves and shares `BUCKET_COUNT` leading bits with us;
  `OverrunNeedsPrefix`: so memory behind it is touched only if such a peer exists.
- On searches. `SearchIsComplete` (`SearchFinds`): a search returns known peers, as
  many as it can, and the closest of all when the target's bucket has
  somebody. The two loops are recursive functions. That such a function exists
  (`RecursionExists`) and what holds of all its values is derived from the least
  number of which it would be wrong (`LeastElement`), so no induction theorem
  is needed that takes an operator. `NearestByPlaces` says what one inner loop
  does to each entry, `NearestFacts` and `FoundInList` what a bucket contributes,
  `SearchFacts` what was seen within an offset of the target's bucket.
- On discovery. `DiscoveryTypeCorrect`; `DiscoveryImplementsBuckets`: every step of
  discovery is a step of Buckets or leaves the table alone, so
  `DiscoveredTableIsSound` follows from the theorem on Buckets.
- On lookups. `EveryPeerIsAsked`: a lookup without the value ends only
  after everybody it heard of was asked. The property is not inductive.
  `LookupInv` adds that both vectors have one length, everything heard of is in
  `pending`, and no peer behind the scan index is uncontacted (`VectorsInStep`);
  that whoever is marked as contacted was asked (`AskedAreContacted`); and that
  the loop is left, without the value, only with everybody contacted
  (`PassesComplete`). Peers are appended at the end, ahead of the scan, which is
  why growth of the vector under the scan does no harm. With `TypesInv` (whose
  part on the table is `TableInv`) it gives `LookupTypeCorrect`. `AnswersAreKept`
  is proved from `Reached`: whoever was heard of is in its bucket, or that is full
  or past the array. `AnswersRepeatNobody` needs that peers are asked
  in the order of the vector (`AskedInOrder`), in which only the copies from
  the own table repeat (`OnlyCopiesRepeat`). `TheClosestAreReturned` rests on
  `SortFacts`: sorting by the code's comparator is a permutation in order of
  distance, which takes that distances are a total order (`CloserTransitive`,
  `CloserTotal`).
- **Containers_proofs.** `SortTypeCorrect`, `SortKeepsElements` and `SortSorts`,
  for vectors of any length. The invariant adds to type and elements
  that the last `i` elements are in order and not closer than any before them
  (`TailSorted`), and that during a pass the element at `j` is not closer than
  any before it (`FarthestCarried`). `ListIsTheSameBothWays`: until a removal takes
  the last node, the list is the same from both ends and no pointer that an operation
  follows dangles (`NothingDangles`). `ListInv` says that there is a sequence of the
  nodes along which `next` and `prev` lead, and each of the four operations makes one
  from the last.
- On the hash map. `MapIsSound` (`MapSound`) and `HashMapIsAMap` (the refinement
  `IsAMap`), for any keys, values and hashes and any least and greatest size.
  `MapInv` says what each phase of a call may find. A good array (`Good`) has each
  key once, `dib` that tells the distance from home, and before each entry one whose
  `dib` is at most one less (`Follows`). From slot to slot backwards that makes
  `Chain`, and so an entry is never placed beyond a slot whose entry is closer to
  its own home (`Passed`): an entry in hand that finds such a slot has met its key
  nowhere and can be exchanged (`Absent`, `PutGood`, `Carried`). A slot is
  free at every insertion (`Room`, because of the load factor), so no entry comes all
  the way round (`FullCircle`). During the shift of a delete the slot before `at` is
  a hole that does not count (`Holed`); during a resize each key is in one of the
  new array, the hand and the rest of the old array (`Moving`). The arrays' sizes
  are what doubling makes of the least one (`ASize`), so they halve without rest.
  For the refinement, `Looking` says that a search has met other keys only,
  and `HoleCopied` that what the hole holds is a copy; `HasPair` reads the contents as
  pairs of a key and a value, which an exchange, a shift or a move leaves alone.
- **Transfer_proofs.** `AcknowledgedPutsAreIntact` and `UnsplitFilesArePrefixes`,
  for files, chunks and buffers of any size. `CountsLag` is the reason why
  miscounting does no more harm: bytes are counted late, never early, and once
  the count is behind it stays behind, so the loop does not reach its end
  while the other side is there (`LoopWaits`), and a server that was fed
  in pieces does not answer (`PutWaits`). What is left to go wrong for a PUT that is
  answered 201 is the last `fclose`, and it can lose no more than stdio keeps back.
  A file always has bytes of the content in their order, none twice.
  `TruncationHasTwoCauses`: a download that returns without the whole file had its
  server's end closed or something not written, which is the boundary of
  divergence (5).
- **CommandLine_proofs.** For any names, contents, ways of cutting names and
  interleavings with the uploads of others: `LinksNameCopies`, `OwnedFilesAreHere`
  and `DownloadsBringTheLinked`. `TypesInv` says what each place of the program
  may find on the disk. `LinksInv`: for a name that only we used, the link, the copy
  and what the upload under way has hashed belong together, unless the last upload
  came to no link. `CopiesInv`: a clean
  name's copy is one of what was shared under it. `OwnedInv` ties the storage, and
  `HeldInv` what the others hold, to what was shared; a download that brought all is
  then `Vouched` for, or `Misleading` in one of the named ways.
- **CommandQueue_proofs.** For any number of callers and any ring: the command the
  network thread works on is never a freed one (`NothingFreedIsUsed`), the
  unchecked pop finds a command (`PopsAreFull`), what is queued still waits, each
  once (`WaitersAreQueued`), and `QueueImplementsService`: the whole is an
  implementation of CommandService. The invariant `CommandInv` says that `tail` is
  the place behind the entries (`RingInv`), that everybody in the ring is in a
  call that is not done (`InCall`), that from pop to unlock the command is not
  in the ring any more and its caller does not get past the lock (`ServedInv`), and
  that a caller reads only what was executed (`CallsInv`). `RingSlots` holds
  the arithmetic of the wrapping indices. The refinement takes it step by step:
  `PushRefines`, `ServeRefines`, `SkipRefines`, `DestroyRefines`, `ReturnRefines`,
  and the pop, which moves an entry from the ring to the thread's hands and
  changes nothing in the line.
- **SocketTable_proofs.** `OpenAreListed`, `ReadyStaysReady` and `OnlyPeersClose`,
  for any number of entries and connections. `SocketInv` adds that a connection
  waits in the backlog once and is not open yet (`Queued`) and what poll's report
  still says of the entries from `k` on (`Reported`): an entry that is taken
  anew in the round was free, so it was not reported.
- **RpcReception_proofs.** `RequestsAreExecutedInOrder` and `TornRequestsAreLast`,
  for any streams, connections and size of the buffer. A stream is laid out by
  counting the units up to each (`UpTo`); `RanksFollow` and `LayoutFacts` show
  that this is what it should be, packet after packet without a gap. The invariant
  `OrderInv` says of a connection that is not served that it is in front of a
  packet all requests before which are done or may be left out (`DoneBefore`), or
  `Stuck`: at its end, or in front of something that is no magic number. Of the one that is served
  it says that the buffer begins with the units read last (`InBuffer`), which is
  why bytes left by others do not show. `GoneInv` and `TornInv` say that nothing
  is read any more of a connection that saw a reset or had a torn request.
- **Replication_proofs.** `OwnersAlwaysFit` and `ListedOwnersHaveTheFile`, for any
  number of nodes, replicas, uploads and restarts. `ReplicationInv` adds the bounds
  of the replication loop (`LoopsInBounds`), that a PUT that may still be answered
  is the one its sender waits for (`OpenIsAwaited`: an abandoned PUT cannot be
  taken for the present one), that every list of owners, in storage, in the
  making or in a request, names good nodes (`ListsGood`), and that whoever sends or holds
  a part does so after one of the causes (`PartsBegan`).

Only model-checked: the liveness properties (fairness is out of the prover's
reach). Every invariant and every action property of the passing runs, and every
refinement, is stated by a theorem.

## 5. Where code and documents disagree

Found while modelling. Three of these, (1), (5) and (6), are runs that end in a
violation.

1. *Index past the buckets* (run `table_range`). `get_bucket_index` yields up to
   255 and `bucket.c:129` uses it as an index of 8 buckets; `bucket.c:16` says
   "Returns the bucket to choose for this distance".
2. *Not the closest* (theorem `LowerBucketIsFarther`). `bucket.c:74-87` takes whole
   neighbouring buckets, the one below first, whose peers are all farther than
   those above; `rpc.c:206` says "Find the closest potential peers among those we
   already know of".
3. *One peer, several entries.* The inner loop of `list.c:115-120` has no
   `break`; `bucket.h:33-34` says entries are NULL when fewer are found. Such a
   peer is contacted twice (`rpc.c:209`, although `rpc.c:317` checks answers for
   it) and may be sent the file twice. `OnlyTheTableRepeats` says that nothing
   else repeats.
4. *A socket is lost* for each value found: the `break` at `rpc.c:306` leaves
   past `close`; `rpc.c:289` says "Free all remaining peers in pending to avoid
   leaks".
5. *Success without the file* (run `transfer_truncated`). An early end of the
   stream ends the loop and returns 0 (`http.c:339-350`); neither length nor
   hash is compared, and what `fwrite` and `fclose` return is not looked at
   (`http.c:342`, `346`); `client.h:44-45` promises "0 if the file was downloaded
   successfully". Behind it, `recv_all` returns the count of its last read
   (`shared.c:47`; `shared.h:57` says "how many bytes were actually read"), so a
   chunk in two pieces is written wrongly, and the download then waits for bytes
   that never come: its `continue` on EAGAIN (`http.c:331`) has no limit, though
   `network.c:454-455` sets timeouts "so we don't entirely block the client", and
   the server says `Connection: close` (`http.c:78`) without closing. Until the
   server's process ends, the node then serves nobody and no call returns.
   A PUT answered with an error counts as success (`http.c:410-434`; `rpc.c:553`
   says "We successfully replicated to this peer"), and 201 is said after an
   `fclose` (`http.c:190`) that may have failed: the last bytes are then missing.
6. *The uploader tells of itself only* (run `owners_told`). It stores itself
   before it replicates (`rpc.c:495-498`) and the first pair stored stays
   (`storage.c:88`); `README.md:59` says the K peers "will also be able to tell
   anyone that contacts them all the owners of the file".
7. *Calls that do not return.* `queue_push` may refuse a command and its result
   is ignored (`client.c:105`); with no file, `handle_pending` skips the
   completion (`network.c:314-325`). `client.h:44-45` promises a return value.
   In CommandService such calls are lost; `AcceptedCallsReturn` covers the rest.
   The command line has one caller and always names a file.
8. *The array of sockets.* The search for a free entry is bounded only after it
   (`network.c:174`, `184`). `stop_network` stops at the first hole
   (`network.c:437`; `network.h:42` says "Stops and cleans up"). `revents &&
   POLLIN` (`network.c:193`) is true of any event. A magic number
   in two pieces is misread by `recv_all_peek` (`shared.c:55`), which leads to
   the HTTP branch (`network.c:283`).
9. *Datagrams.* One shorter than four bytes is peeked at and never consumed
   (`network.c:219-224`), so later broadcasts are not read: `HelloIsHeard` excludes
   it by name. The address is cached for good once found, although the network may
   change.
10. *Packets.* A header that comes in pieces is refused, because `recv_all` counts
   its last piece (`network.c:53`). A PING is lost that way; of any other packet
   the body is then read as if it were an HTTP request, and nothing after it is
   executed unless that read fills the buffer (`ExecutedInOrder`). A failed read is -1 and passes a comparison with
   an unsigned size. A packet cut short by its peer is executed with the bytes an
   earlier one left in the buffer (`TornOnlyAtTheEnd`). A hang-up reported together
   with unread packets closes the connection over them (`network.c:256`). A
   `packet_size` below that of a header passes `network.c:76`, and the length of the
   body wraps around (`network.c:84`): Linux's `read` refuses such a length at once,
   POSIX leaves it open, and where it is taken the rest of the connection goes into
   the buffer and, if there is enough of it, behind it.
11. *An abandoned PUT is carried out all the same* and can replace a whole copy
   by a part (`http.c:127`). An upload replicates whatever the upload directory
   holds, also the part that a failed copy left (`main.c:164-171`), and a failing
   `fread` is not noticed (`rpc.c:528`). With a disk that fails and a process that
   ends while it writes, these are the exceptions in `OwnersHaveTheFile`.
   A download whose own stored owners all fail does not ask the network
   (`rpc.c:608-623`; `README.md:61` says it will "automatically traverse the
   network"). An empty file is never replicated (`http.c:355`).
12. *The command line.* Sharing a file that is already in the upload directory
   copies it onto itself and empties it (`main.c:19`). A file is hashed, copied and
   replicated at three different times. A copy that fails is a warning, and we
   become an owner all the same (`main.c:164`); so do we when a PUT of others is
   answered 500 here (`http.c:98-132`, `179-185`), because they list us (`rpc.c:554`).
   An upload that fails, or whose link cannot be opened (`main.c:187-194`), leaves the
   link of an earlier one beside the new copy. Sharing a directory frees a name
   that was never set (`magnet.c:18`). Names are cut at `&` in a link and at a
   blank in a request, and the hash of what comes is never compared. At the end of
   its input the menu is shown again for ever (`main.c:241`). The exceptions in
   `LinkNamesTheCopy`, `OwnedAreHere` and `DownloadBringsTheLinked` are these.
13. *Smaller ones.* `vector_sort` exchanges equal elements (`vector.c:89`) and so
   is not the "Stable bubble sort" of `vector.c:80`. Error answers of RPCs have
   `success = true` (`rpc.c:57-68`). A full bucket never lets anybody in
   (`bucket.c:135`): dead peers are kept. Magnet links without length or name
   leave fields unset (`magnet.c:123,143`). Removing the last node of a list leaves
   one end dangling (`list.c:57`); the program only adds in front.
   `storage_put_value` does not notice a hash map out of memory.

## 6. Abstractions to keep in mind

- A peer is its identifier; addresses and keys travel with it and decide nothing.
- In Lookup the answers of peers are chosen freely, so the whole network is any
  behaviour of the others.
- Replication serves a PUT in one step (its bytes are in Transfer), unless the
  process stops in the middle of one. What a download of Replication brings is not
  recorded: that it may be a part is in Transfer and CommandLine. It has one file;
  CommandLine has several, and one node beside ours.
- SocketTable has one message per connection, RpcReception several, on connections
  that are there from the start; a unit of RpcReception is a field or part of
  one, and a magic number is never cut there, as SocketTable has that case. No
  body holds the bytes of a magic number or the end of an HTTP header. What is
  written behind the static buffer ends the model.
- Transfer has no error of a read but the timeout: a reset fails a PUT as its
  timeout does, and ends a download with -1.
- HashMap has one hash per key, and memory fails exactly above `MaxBuckets` or,
  when shrinking, at any time.
- CommandLine: distinct contents have distinct hashes; the others' upload may or
  may not reach us, and its PUT writes where the file was last emptied. Links are
  not shared themselves and no shared file has the name of a link: sharing one
  would overwrite the link of that name in the upload directory.

## 7. Not modelled, and why

Serialisation (copies field by field, without a decision), SHA-256 and the search
for an address (OpenSSL and the kernel), log (pure output), prompts, the creation
of sockets in `init_network` (it runs once, before anything else, and failure
ends the program), errors on the broadcast socket, SIGPIPE (a node's death is
`Replication.Stop`), the hash map's operations that nobody calls (clear, probe,
scan, iter), its hash functions and its test program, the NULL fields of foreign
magnet links, the scripts, build and container files.

## 8. Plan

Done: all modules above; the proofs of the table, the searches, lookups and
discovery, of the containers, the command queue with its refinement, the socket
array, reception, transfers, the command line, replication, and of the hash map
with its refinement.

What could follow: several files in Replication, joined to CommandLine.
