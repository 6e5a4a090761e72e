---------------------------- MODULE CommandLine -----------------------------
(***************************************************************************)
(* The menu of src/main.c with the links of src/magnet.c: what a user who  *)
(* shares files and fetches them does to the directories of the node,      *)
(* while its network thread serves the uploads of others.                  *)
(*                                                                         *)
(* A file is known on the network by the hash of its content, but it is    *)
(* asked for, stored and overwritten by its name.  A name is cut at the    *)
(* first & when a link is read, and at the first blank when a request is.  *)
(* The content of a file stands for its hash.                              *)
(* The queue of commands is in CommandQueue, what replication and a        *)
(* download do among several nodes in Replication and their bytes in       *)
(* Transfer: here a command is one step, and the others are one node.      *)
(***************************************************************************)
EXTENDS Integers

CONSTANTS
    Names,         \* of the files that are shared
    LinkOf,        \* name -> the name of its link, name.torrent
    InLink,        \* name -> what parse_magnet_from_uri makes of it
    InRequest,     \* name -> what the server of an HTTP request makes of it
    Contents,      \* contents of the files that are shared, without the empty
    Empty, Mixed,  \* other contents: of no byte, and of pieces
    Absent, Directory,
    UserFiles,     \* what the user's files may be, by name
    MaxUploads,    \* bound on the uploads of the user
    MaxOffers,     \* bound on the uploads of the others
    MaxShares,     \* bound on both together
    MaxEdits       \* bound on the changes the user makes to files

FileNames == Names \cup {LinkOf[n] : n \in Names}
Data == Contents \cup {Empty, Mixed}

Here == "files"
UPLOAD_DIR == "upload"
DOWNLOAD_DIR == "download"

Paths == {Here, UPLOAD_DIR, DOWNLOAD_DIR} \X FileNames

(* save_magnet_to_uri and parse_magnet_from_uri.  An empty file has no     *)
(* length in its link.                                                     *)
Link(v, n) == [hash |-> v, name |-> n, sized |-> v # Empty]
Links == {Link(v, n) : v \in Data, n \in Names}

(* A name cut twice is as if cut once.  Links are not shared (see ReadPath) *)
(* and no file that is shared has the name of a link.                       *)
ASSUME CommandLineAssumption ==
    /\ LinkOf \in [Names -> STRING] /\ \A n \in Names : LinkOf[n] \notin Names
    /\ \A m, n \in Names : LinkOf[m] = LinkOf[n] => m = n
    /\ InLink \in [Names -> Names] /\ InRequest \in [Names -> Names]
    /\ \A n \in Names : InRequest[InRequest[n]] = InRequest[n]
    /\ Contents \cap {Empty, Mixed} = {} /\ Absent # Directory
    /\ Data \cap {Absent, Directory} = {}
    /\ Links \cap (Data \cup {Absent, Directory}) = {}
    /\ UserFiles \subseteq [Names -> Data \cup {Absent, Directory}]
    /\ MaxUploads \in Nat /\ MaxOffers \in Nat /\ MaxShares \in Nat
    /\ MaxEdits \in Nat

VARIABLES
    disk,       \* path -> what is there
    cli,        \* the place in main.c
    path, magnet,   \* of the upload or download under way
    stored,     \* hash -> the owners in our storage
    known,      \* hashes for which the others have an owner
    held,       \* name -> the others' copy
    offer,      \* the upload of the others that reaches us
    uploads, offers, edits,
    given,      \* history: who shared what under which name
    spoiled,    \* history: <<whose, name>> of the copies that came to harm
    unlinked,   \* history: names whose last upload ended without a link
    brought     \* history: what a download that reported success has stored

userVars == <<cli, path, magnet, uploads, edits>>
storeVars == <<stored, known, held>>
offerVars == <<offer, offers>>
historyVars == <<given, spoiled, unlinked, brought>>
vars == <<disk, userVars, storeVars, offerVars, historyVars>>

NoPath == <<Here, "none">>
NoMagnet == [hash |-> Empty, name |-> "none", sized |-> FALSE]
Gift(who, n, v) == [by |-> who, name |-> n, content |-> v]
NoOffer == [state |-> "none", name |-> "none", content |-> Empty]

name == path[2]
Copy == <<UPLOAD_DIR, name>>

(* What is left of a content that breaks off as it is written or sent.     *)
Parts == {Empty, Mixed}

(* Our copy, or that of the others, is not what it should be.              *)
Copies == {"us", "others"} \X Names
Spoil(whose, n) == spoiled' = spoiled \cup {<<whose, n>>}
-----------------------------------------------------------------------------
(* Plausible slips in the definitions below, for the mutation checks.      *)

CopyRest_whole_blocks_only ==
    /\ cli = "copying"
    /\ cli' = "asked" /\ UNCHANGED <<path, magnet, uploads, edits>>
    /\ UNCHANGED <<disk, storeVars, offerVars, historyVars>>

CopyOpens_unless_there ==
    /\ cli = "copy"
    /\ IF disk[Copy] = Absent
       THEN cli' = "copying" /\ disk' = [disk EXCEPT ![Copy] = Empty]
       ELSE cli' = "asked" /\ UNCHANGED disk
    /\ IF path = Copy THEN Spoil("us", name) ELSE UNCHANGED spoiled
    /\ UNCHANGED <<path, magnet, uploads, edits, storeVars, offerVars>>
    /\ UNCHANGED <<given, unlinked, brought>>

UploadAnswered_if_copied ==
    /\ cli = "asked" /\ offer.state # "open" /\ disk[Copy] # Absent
    /\ stored' = [stored EXCEPT ![magnet.hash] = IF @ = {} THEN {"us"} ELSE @]
    /\ cli' = "save"
    /\ UNCHANGED <<known, held, disk, path, magnet, uploads, edits>>
    /\ UNCHANGED <<offerVars, historyVars>>

FromOthers_whatever_the_status ==
    LET file == held[InRequest[magnet.name]]
    IN  /\ disk' = [disk EXCEPT ![<<DOWNLOAD_DIR, magnet.name>>] =
                        IF file = Absent THEN Empty ELSE file]
        /\ brought' = "all"
-----------------------------------------------------------------------------
(* Files of the user; headless mode has no menu.                           *)
Init ==
    /\ disk \in {[p \in Paths |-> IF p \in {Here} \X Names THEN f[p[2]] ELSE Absent] :
                    f \in UserFiles}
    /\ cli \in {"menu", "headless"}
    /\ path = NoPath /\ magnet = NoMagnet
    /\ stored = [v \in Data |-> {}] /\ known = {}
    /\ held = [n \in Names |-> Absent]
    /\ offer = NoOffer /\ uploads = 0 /\ offers = 0 /\ edits = 0
    /\ given = {} /\ spoiled = {} /\ unlinked = {} /\ brought = "nothing"

(* main reads a choice; what is no number from 1 to 4, or no input at all, *)
(* brings the menu again.  For the status the network thread is asked.     *)
Choose(c) ==
    /\ cli = "menu"
    /\ cli' = CASE c = 1 -> "status" [] c = 2 -> "upload?"
                [] c = 3 -> "download?" [] c = 4 -> "ended"
    /\ c = 2 => uploads < MaxUploads /\ uploads + offers < MaxShares
    /\ uploads' = IF c = 2 THEN uploads + 1 ELSE uploads
    /\ IF c \in {2, 3} THEN brought' = "nothing" /\ magnet' = NoMagnet
       ELSE UNCHANGED <<brought, magnet>>
    /\ UNCHANGED <<disk, path, edits, storeVars, offerVars, given, spoiled, unlinked>>

StatusShown ==
    /\ cli = "status" /\ offer.state # "open"
    /\ cli' = "menu"
    /\ UNCHANGED <<disk, path, magnet, uploads, edits, storeVars, offerVars, historyVars>>

(* cli_upload_file: the end of the input, a path where nothing is or that  *)
(* cannot be opened, or one that can, which a directory can, too.  Links   *)
(* are shared like any file, which is left out so that they do not nest.   *)
ReadPath(p) ==
    /\ cli = "upload?" /\ p[2] \in Names
    /\ \/ cli' = "menu" /\ UNCHANGED path
       \/ cli' = "hash" /\ disk[p] # Absent /\ path' = p
    /\ UNCHANGED <<disk, magnet, uploads, edits, storeVars, offerVars, historyVars>>

(* create_magnet.                                                          *)
Hash ==
    /\ cli = "hash" /\ disk[path] # Directory
    /\ magnet' = Link(disk[path], name)
    /\ given' = given \cup {Gift("us", name, disk[path])}
    /\ cli' = "copy"
    /\ UNCHANGED <<disk, path, uploads, edits, storeVars, offerVars>>
    /\ UNCHANGED <<spoiled, unlinked, brought>>

(* A directory, or a file that cannot be opened again, has no hash: the    *)
(* magnet is freed, with its name, which nobody has set.                   *)
HashFails ==
    /\ cli = "hash"
    /\ cli' \in {"menu", "crashed"} /\ path' = NoPath
    /\ UNCHANGED <<disk, magnet, uploads, edits, storeVars, offerVars, historyVars>>

UploadReturns == cli' = "menu" /\ path' = NoPath /\ magnet' = NoMagnet

(* The upload directory is not there and cannot be created.                *)
NoUploadDirectory ==
    /\ cli = "copy" /\ \A f \in FileNames : disk[<<UPLOAD_DIR, f>>] = Absent
    /\ UploadReturns
    /\ UNCHANGED <<disk, uploads, edits, storeVars, offerVars, historyVars>>

(* copy_file empties the copy before it reads the first block, even if it  *)
(* is about to read the same file;                                         *)
CopyOpens ==
    /\ cli = "copy"
    /\ cli' = "copying"
    /\ disk' = [disk EXCEPT ![Copy] = Empty]
    /\ IF path = Copy THEN Spoil("us", name) ELSE UNCHANGED spoiled
    /\ UNCHANGED <<path, magnet, uploads, edits, storeVars, offerVars>>
    /\ UNCHANGED <<given, unlinked, brought>>

(* one of the files cannot be opened, or the copy not written, which is    *)
(* not seen if only fclose fails: the upload goes on.                      *)
CopyFails ==
    /\ \/ cli = "copy" /\ UNCHANGED disk
       \/ /\ cli = "copying" /\ disk[path] # Empty
          /\ \E part \in {disk[Copy], Mixed} : disk' = [disk EXCEPT ![Copy] = part]
    /\ cli' = "asked" /\ Spoil("us", name)
    /\ UNCHANGED <<path, magnet, uploads, edits, storeVars, offerVars>>
    /\ UNCHANGED <<given, unlinked, brought>>

(* What is written where another content has been written since the file   *)
(* was emptied does not replace all of it.                                 *)
Over(p, v) == IF disk[p] \in {Empty, v} THEN v ELSE Mixed

CopyRest ==
    /\ cli = "copying"
    /\ disk' = [disk EXCEPT ![Copy] = Over(Copy, disk[path])]
    /\ cli' = "asked"
    /\ UNCHANGED <<path, magnet, uploads, edits, storeVars, offerVars, historyVars>>

(* handle_rpc_upload: first we are an owner.  There is no peer to store    *)
(* at, or the copy cannot be opened;                                       *)
BecomeOwner ==
    stored' = [stored EXCEPT ![magnet.hash] = IF @ = {} THEN {"us"} ELSE @]

UploadFails ==
    /\ UploadReturns /\ unlinked' = unlinked \cup {name}
    /\ UNCHANGED <<known, held, spoiled>>

(* or it goes to the others, unless it is empty, and arrives there or not, *)
(* or in part; and they are told, as far as they answer.                   *)
Replicate ==
    LET Store(v) == held' = [held EXCEPT ![InRequest[name]] = v]
    IN  /\ disk[Copy] # Absent
        /\ cli' = "save" /\ UNCHANGED <<path, magnet, unlinked>>
        /\ \/ UNCHANGED <<held, spoiled>>
           \/ disk[Copy] # Empty /\ Store(disk[Copy]) /\ UNCHANGED spoiled
           \/ /\ disk[Copy] # Empty /\ Spoil("others", name)
              /\ \E part \in Parts : Store(part)
        /\ known' \in {known, known \cup {magnet.hash}}

UploadAnswered ==
    /\ cli = "asked" /\ offer.state # "open"
    /\ BecomeOwner
    /\ UploadFails \/ Replicate
    /\ UNCHANGED <<disk, uploads, edits, offerVars, given, brought>>

(* The link is written; or it cannot be opened, and an older one stays; or *)
(* not a byte of it gets to the disk, for it is one buffer of stdio.       *)
SaveLink ==
    LET p == <<UPLOAD_DIR, LinkOf[name]>>
    IN  /\ cli = "save" /\ UploadReturns
        /\ \/ disk' = [disk EXCEPT ![p] = magnet] /\ unlinked' = unlinked \ {name}
           \/ UNCHANGED disk /\ unlinked' = unlinked \cup {name}
           \/ disk' = [disk EXCEPT ![p] = Empty] /\ UNCHANGED unlinked
        /\ UNCHANGED <<uploads, edits, storeVars, offerVars, given, spoiled, brought>>

(* The user changes a file, perhaps one that is being shared: its content  *)
(* is hashed and copied at different times.                                *)
Edit(n, v) ==
    /\ edits < MaxEdits
    /\ disk[<<Here, n>>] \in Data \ {v}
    /\ edits' = edits + 1
    /\ disk' = [disk EXCEPT ![<<Here, n>>] = v]
    /\ IF cli \in {"copy", "copying"} /\ path = <<Here, n>>
       THEN Spoil("us", n) ELSE UNCHANGED spoiled
    /\ UNCHANGED <<cli, path, magnet, uploads, storeVars, offerVars>>
    /\ UNCHANGED <<given, unlinked, brought>>
-----------------------------------------------------------------------------
(* cli_download_file: the end of the input, no such file, a directory, or  *)
(* one that cannot be read or is no link; or a link, as it is parsed.      *)
ReadLink(p) ==
    /\ cli = "download?"
    /\ \/ cli' = "menu" /\ UNCHANGED magnet
       \/ /\ cli' = "fetch" /\ disk[p] \in Links
          /\ magnet' = [disk[p] EXCEPT !.name = InLink[@]]
    /\ UNCHANGED <<disk, path, uploads, edits, storeVars, offerVars, historyVars>>

(* handle_rpc_download: owners of our own storage, ourselves last, or else *)
(* those the others know.                                                  *)
OthersAreAsked ==
    LET owners == stored[magnet.hash]
    IN  /\ cli = "fetch" /\ offer.state # "open"
        /\ "others" \in owners \/ (owners = {} /\ magnet.hash \in known)

Downloaded(v) == disk' = [disk EXCEPT ![<<DOWNLOAD_DIR, magnet.name>>] = v]

(* download_http_file at the others: they are asked for the name alone.    *)
(* The end of the connection is the end of the file; and the bytes of a    *)
(* chunk that comes in pieces are lost (see Transfer).                     *)
FromOthers ==
    LET file == held[InRequest[magnet.name]]
    IN  \/ file # Absent /\ Downloaded(file) /\ brought' = "all"
        \/ /\ file \notin {Absent, Empty} /\ brought' = "part"
           /\ \E part \in Parts : Downloaded(part)

(* A download that breaks off, or that never began, fails; one that finds  *)
(* us among the owners is over at once.  Whatever fails, the menu is next. *)
DownloadAnswered ==
    /\ cli = "fetch" /\ offer.state # "open"
    /\ \/ OthersAreAsked /\ FromOthers /\ UNCHANGED magnet
       \/ /\ OthersAreAsked /\ held[InRequest[magnet.name]] \notin {Absent, Empty}
          /\ \E part \in Parts : Downloaded(part)
          /\ magnet' = NoMagnet /\ UNCHANGED brought
       \/ magnet' = NoMagnet /\ UNCHANGED <<disk, brought>>
    /\ cli' = "menu"
    /\ UNCHANGED <<path, uploads, edits, storeVars, offerVars, given, spoiled, unlinked>>

(* After a chunk in pieces more bytes are expected than are to come, and   *)
(* recv_all is called again until the server closes.                       *)
DownloadRetries ==
    /\ OthersAreAsked /\ held[InRequest[magnet.name]] \notin {Absent, Empty}
    /\ \E part \in Parts : Downloaded(part)
    /\ cli' = "retrying"
    /\ UNCHANGED <<path, magnet, uploads, edits, storeVars, offerVars, historyVars>>

ServerCloses ==
    /\ cli = "retrying" /\ cli' = "menu"
    /\ \E part \in {disk[<<DOWNLOAD_DIR, magnet.name>>], Mixed} : Downloaded(part)
    /\ \/ brought' = "part" /\ UNCHANGED magnet
       \/ magnet' = NoMagnet /\ UNCHANGED brought
    /\ UNCHANGED <<path, uploads, edits, storeVars, offerVars, given, spoiled, unlinked>>

NoInput ==
    /\ cli \in {"upload?", "download?"}
    /\ cli' = "menu"
    /\ UNCHANGED <<disk, path, magnet, uploads, edits, storeVars, offerVars, historyVars>>
-----------------------------------------------------------------------------
(* A user of the others shares a file, whose copy there may come to harm,  *)
(* and gives ours the link.  Their upload may reach us: a PUT and a STORE, *)
(* or the STORE alone; what has not, when they share another, never does.  *)
OthersUpload(n, v) ==
    /\ offer.state # "open"
    /\ offers < MaxOffers /\ uploads + offers < MaxShares
    /\ offers' = offers + 1
    /\ \/ held' = [held EXCEPT ![n] = v] /\ UNCHANGED spoiled
       \/ \E part \in Parts :
              held' = [held EXCEPT ![n] = part] /\ Spoil("others", n)
    /\ known' = known \cup {v}
    /\ given' = given \cup {Gift("others", n, v)}
    /\ disk' = [disk EXCEPT ![<<Here, LinkOf[n]>>] = Link(v, n)]
    /\ \E s \in {"put", "store"} :
           offer' = [state |-> s, name |-> InRequest[n], content |-> v]
    /\ UNCHANGED <<userVars, stored, unlinked, brought>>

(* receive_http_file on the network thread, beside the menu, unless that   *)
(* thread is in a download.                                                *)
PutArrives ==
    /\ offer.state = "put" /\ cli # "retrying"
    /\ given' = given \cup {Gift("others", offer.name, offer.content)}

PutOpens ==
    /\ PutArrives
    /\ disk' = [disk EXCEPT ![<<UPLOAD_DIR, offer.name>>] = Empty]
    /\ offer' = [offer EXCEPT !.state = "open"]
    /\ UNCHANGED <<userVars, storeVars, offers, spoiled, unlinked, brought>>

(* Whatever is answered, 500 too, has the others list us as an owner, and  *)
(* if no answer comes they list themselves.                                *)
PutIsOver ==
    \E s \in {"told", "store"} : offer' = [offer EXCEPT !.state = s]

(* The directory or the file cannot be created.                            *)
PutRefused ==
    /\ PutArrives /\ PutIsOver
    /\ Spoil("us", offer.name)
    /\ UNCHANGED <<disk, userVars, storeVars, offers, unlinked, brought>>

PutEnds ==
    LET p == <<UPLOAD_DIR, offer.name>>
    IN  /\ offer.state = "open" /\ PutIsOver
        /\ disk' = [disk EXCEPT ![p] = Over(p, offer.content)]
        /\ UNCHANGED <<userVars, storeVars, offers, historyVars>>

(* The others give up, or send what is left of their own copy, or a write  *)
(* fails.                                                                  *)
PutIsCut ==
    LET p == <<UPLOAD_DIR, offer.name>>
    IN  /\ offer.state = "open" /\ PutIsOver
        /\ \E part \in {disk[p], Mixed} : disk' = [disk EXCEPT ![p] = part]
        /\ Spoil("us", offer.name)
        /\ UNCHANGED <<userVars, storeVars, offers, given, unlinked, brought>>

(* handle_store: the first owners stay.                                    *)
StoreArrives ==
    /\ offer.state \in {"store", "told"} /\ cli # "retrying"
    /\ stored' = [stored EXCEPT ![offer.content] =
                     IF @ # {} THEN @
                     ELSE IF offer.state = "told" THEN {"others", "us"}
                     ELSE {"others"}]
    /\ offer' = NoOffer
    /\ UNCHANGED <<disk, userVars, known, held, offers, historyVars>>
-----------------------------------------------------------------------------
CliStep ==
    \/ Hash \/ HashFails \/ NoUploadDirectory
    \/ CopyOpens \/ CopyFails \/ CopyRest \/ SaveLink

ThreadAnswers == StatusShown \/ UploadAnswered \/ DownloadAnswered

Next ==
    \/ \E c \in 1..4 : Choose(c)
    \/ NoInput
    \/ \E p \in Paths : ReadPath(p) \/ ReadLink(p)
    \/ CliStep \/ ThreadAnswers \/ DownloadRetries \/ ServerCloses
    \/ \E n \in Names, v \in Contents : OthersUpload(n, v) \/ Edit(n, v)
    \/ PutOpens \/ PutRefused \/ PutEnds \/ PutIsCut \/ StoreArrives

Spec == Init /\ [][Next]_vars

(* The program goes on, and a peer that began a PUT ends it or closes.     *)
(* Nothing is assumed of the end of a download that is retried.            *)
FairSpec ==
    /\ Spec
    /\ WF_vars(CliStep) /\ WF_vars(ThreadAnswers)
    /\ WF_vars(PutEnds \/ PutIsCut)
-----------------------------------------------------------------------------
CommandLineTypeOK ==
    /\ disk \in [Paths -> Data \cup Links \cup {Absent, Directory}]
    /\ cli \in {"menu", "headless", "status", "upload?", "download?", "hash",
                "copy", "copying", "asked",
                "save", "fetch", "retrying", "ended", "crashed"}
    /\ cli \in {"hash", "copy", "copying", "asked", "save"} => path \in Paths
    /\ cli \in {"copy", "copying", "asked", "save", "fetch", "retrying"} =>
           magnet \in Links
    /\ stored \in [Data -> SUBSET {"us", "others"}] /\ known \subseteq Data
    /\ held \in [Names -> Data \cup {Absent}]
    /\ offer.state \in {"none", "put", "store", "open", "told"}
    /\ spoiled \subseteq Copies /\ unlinked \subseteq Names
    /\ brought \in {"nothing", "all", "part"}

(* When the menu is back, the link beside a copy names that copy, by hash  *)
(* and by name, however often the user shared files of that name; unless   *)
(* others did, the copy failed, it was made of itself, the file changed    *)
(* meanwhile, or the last upload of the name came to no link.              *)
LinkNamesTheCopy ==
    /\ CommandLineTypeOK
    /\ cli = "menu" =>
           \A n \in Names :
               LET link == disk[<<UPLOAD_DIR, LinkOf[n]>>]
               IN  \/ link \notin Links
                   \/ link = Link(disk[<<UPLOAD_DIR, n>>], n)
                   \/ n \in unlinked \/ <<"us", n>> \in spoiled
                   \/ \E g \in given : g.by = "others" /\ g.name = n

(* A name that was used for one file only, and whose copy is unharmed.     *)
Clean(n) ==
    /\ <<"us", n>> \notin spoiled
    /\ \A g, h \in given : g.name = n /\ h.name = n => g.content = h.content

(* The download that finds us among the owners returns 0 at once           *)
(* (src/rpc.c:615): what we are listed for is in our upload directory,     *)
(* under a name it was shared under, unless that name stood for two files  *)
(* or the copy came to harm.                                               *)
OwnedAreHere ==
    cli \in {"menu", "fetch"} /\ offer.state # "open" =>
        \A v \in Data :
            "us" \in stored[v] =>
                \E g \in given :
                    /\ g.content = v
                    /\ Clean(g.name) => disk[<<UPLOAD_DIR, g.name>>] = v

(* A download brings what its link names, although neither side looks at   *)
(* the hash, unless it was cut short, which is reported as success, too;   *)
(* something else was shared under a name that passes for the one asked    *)
(* for; or a copy of it harmed.                                            *)
DownloadBringsTheLinked ==
    brought # "nothing" =>
        \/ disk[<<DOWNLOAD_DIR, magnet.name>>] = magnet.hash
        \/ brought = "part"
        \/ \E g \in given :
               /\ InRequest[g.name] = InRequest[magnet.name]
               /\ \/ g.content # magnet.hash
                  \/ \E whose \in {"us", "others"} : <<whose, g.name>> \in spoiled

(* Whatever the user chose, the menu comes back, or the program has ended, *)
(* or a download is retried for ever.                                      *)
MenuComesBack ==
    cli \notin {"menu", "headless", "upload?", "download?"}
        ~> cli \in {"menu", "ended", "crashed"} \/ [](cli = "retrying")
=============================================================================
