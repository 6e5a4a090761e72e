------------------------- MODULE CommandLine_proofs -------------------------
(***************************************************************************)
(* What a user finds in the directories, for any names and contents, any   *)
(* number of uploads, downloads, edits, and offers of the others, in any   *)
(* order: beside a copy the link that names it, the files the node is      *)
(* listed for, and in a download what its link names.                      *)
(***************************************************************************)
EXTENDS CommandLine, TLAPS

Dirs == {Here, UPLOAD_DIR, DOWNLOAD_DIR}

(* Links are where links belong, and only the user has directories.        *)
FilesInv ==
    /\ disk \in [Paths -> Data \cup Links \cup {Absent, Directory}]
    /\ \A n \in Names :
           /\ disk[<<Here, n>>] \in Data \cup {Absent, Directory}
           /\ disk[<<UPLOAD_DIR, n>>] \in Data \cup {Absent}
           /\ disk[<<DOWNLOAD_DIR, n>>] \in Data \cup {Absent}
           /\ \A d \in Dirs : disk[<<d, LinkOf[n]>>] \in Links \cup {Absent, Empty}

(* What the upload and the download under way are of.                      *)
UserInv ==
    /\ cli \in {"menu", "headless", "status", "upload?", "download?", "hash",
                "copy", "copying", "asked", "save", "fetch", "retrying",
                "ended", "crashed"}
    /\ cli \in {"hash", "copy", "copying", "asked", "save"} =>
           path \in Paths /\ name \in Names
    /\ cli = "hash" => disk[path] \in Data \cup {Directory}
    /\ cli \in {"copy", "copying"} => disk[path] \in Data
    /\ cli \in {"copy", "copying", "asked", "save"} =>
           /\ magnet \in Links /\ magnet = Link(magnet.hash, name)
           /\ Gift("us", name, magnet.hash) \in given
    /\ cli \in {"fetch", "retrying"} => magnet \in Links /\ brought = "nothing"
    /\ brought \in {"nothing", "all", "part"}
    /\ brought # "nothing" =>
           cli \in {"menu", "status", "ended"} /\ magnet \in Links
    /\ unlinked \subseteq Names

(* What the others hold and offer.                                         *)
OthersInv ==
    /\ stored \in [Data -> SUBSET {"us", "others"}] /\ known \subseteq Data
    /\ held \in [Names -> Data \cup {Absent}]
    /\ offer \in [state : {"none", "put", "store", "open", "told"},
                  name : Names \cup {"none"}, content : Data]
    /\ offer.state # "none" => offer.name \in Names /\ offer.content \in Contents
    /\ offer.state \in {"open", "told"} =>
           Gift("others", offer.name, offer.content) \in given
    /\ spoiled \subseteq Copies

TypesInv == FilesInv /\ UserInv /\ OthersInv
-----------------------------------------------------------------------------
(* Nobody but the user shared a file of this name, and its copy is         *)
(* unharmed.                                                               *)
OursAlone(n) ==
    /\ <<"us", n>> \notin spoiled
    /\ \A g \in given : ~(g.by = "others" /\ g.name = n)

(* Until the copy is emptied the old link names it; then the new link is   *)
(* made of what the copy has been made of.                                 *)
LinkInv(n) ==
    LET copy == disk[<<UPLOAD_DIR, n>>]
        link == disk[<<UPLOAD_DIR, LinkOf[n]>>]
    IN  /\ ~(cli \in {"copying", "asked", "save"} /\ name = n) =>
               link \notin Links \/ link = Link(copy, n) \/ n \in unlinked
        /\ cli = "copy" /\ name = n => disk[path] = magnet.hash
        /\ cli = "copying" /\ name = n =>
               copy = Empty /\ path # Copy /\ disk[path] = magnet.hash
        /\ cli \in {"asked", "save"} /\ name = n => magnet = Link(copy, n)

LinksInv == \A n \in Names : OursAlone(n) => LinkInv(n)
-----------------------------------------------------------------------------
Shared(n, v) == \E g \in given : g.name = n /\ g.content = v

(* The copy is there, or it is being written.                              *)
Kept(n, v) ==
    \/ disk[<<UPLOAD_DIR, n>>] = v
    \/ /\ disk[<<UPLOAD_DIR, n>>] = Empty
       /\ \/ cli = "copying" /\ name = n
          \/ offer.state = "open" /\ offer.name = n

(* While a name stands for one file, whoever writes its copy writes that.  *)
CopyInv(n) ==
    /\ cli = "copy" /\ name = n /\ path # Copy => disk[path] = magnet.hash
    /\ cli = "copying" /\ name = n =>
           /\ path # Copy /\ disk[path] = magnet.hash
           /\ disk[<<UPLOAD_DIR, n>>] \in {Empty, magnet.hash}
    /\ cli = "asked" /\ name = n => Kept(n, magnet.hash)
    /\ offer.state = "open" /\ offer.name = n =>
           disk[<<UPLOAD_DIR, n>>] \in {Empty, offer.content}
    /\ offer.state = "told" /\ offer.name = n => Kept(n, offer.content)

CopiesInv == \A n \in Names : Clean(n) => CopyInv(n)

(* We are listed for what was shared, under a name that has it still if it *)
(* stands for nothing else.                                                *)
OwnedInv ==
    \A v \in Data :
        "us" \in stored[v] =>
            \E n \in Names : Shared(n, v) /\ (Clean(n) => Kept(n, v))
-----------------------------------------------------------------------------
(* The others hold what was shared under a name that passes for theirs, or *)
(* such a name is harmed or stands for two files.                          *)
Harmed(n) == \E whose \in {"us", "others"} : <<whose, n>> \in spoiled

HeldInv ==
    \A x \in Names :
        held[x] # Absent =>
            \E g \in given :
                /\ InRequest[g.name] = InRequest[x]
                /\ \/ g.content = held[x]
                   \/ Harmed(g.name)
                   \/ \E h \in given : h.name = g.name /\ h.content # g.content
-----------------------------------------------------------------------------
LEMMA PathFacts ==
    /\ \A d \in Dirs, f \in FileNames : <<d, f>> \in Paths
    /\ \A p \in Paths : p[1] \in Dirs /\ p[2] \in FileNames /\ p = <<p[1], p[2]>>
    /\ \A n \in Names : n \in FileNames /\ LinkOf[n] \in FileNames
    /\ \A n \in Names : LinkOf[n] \notin Names
    /\ \A f \in FileNames : f \in Names \/ \E n \in Names : f = LinkOf[n]
    /\ {Here, UPLOAD_DIR, DOWNLOAD_DIR} \subseteq Dirs
    /\ Here # UPLOAD_DIR /\ UPLOAD_DIR # DOWNLOAD_DIR /\ Here # DOWNLOAD_DIR
BY CommandLineAssumption
   DEF Dirs, Paths, FileNames, Here, UPLOAD_DIR, DOWNLOAD_DIR

LEMMA LinkFacts ==
    /\ \A v \in Data, n \in Names : Link(v, n) \in Links
    /\ \A l \in Links : l.hash \in Data /\ l.name \in Names
                        /\ l = Link(l.hash, l.name)
                        /\ [l EXCEPT !.name = InLink[@]] \in Links
    /\ \A v, n, w, m : Link(v, n) = Link(w, m) <=> v = w /\ n = m
    /\ \A l \in Links : l \notin Data /\ l # Absent /\ l # Directory
    /\ Absent \notin Data /\ Directory \notin Data
    /\ Empty \in Data /\ Mixed \in Data /\ Contents \subseteq Data
<1>1. \A v \in Data, n \in Names : Link(v, n) \in Links
  BY DEF Links
<1>2. ASSUME NEW l \in Links
      PROVE  /\ l.hash \in Data /\ l.name \in Names
             /\ l = Link(l.hash, l.name)
             /\ [l EXCEPT !.name = InLink[@]] \in Links
  <2>1. PICK v \in Data, n \in Names : l = Link(v, n)
    BY DEF Links
  <2>2. l.hash = v /\ l.name = n /\ l = Link(l.hash, l.name)
    BY <2>1 DEF Link
  <2>3. InLink[n] \in Names
    BY CommandLineAssumption
  <2>4. [l EXCEPT !.name = InLink[@]] = Link(v, InLink[n])
    BY <2>1 DEF Link
  <2> QED
    BY <1>1, <2>2, <2>3, <2>4
<1>3. \A v, n, w, m : Link(v, n) = Link(w, m) <=> v = w /\ n = m
  BY DEF Link
<1>4. /\ \A l \in Links : l \notin Data /\ l # Absent /\ l # Directory
      /\ Absent \notin Data /\ Directory \notin Data
  BY CommandLineAssumption
<1> QED
  BY <1>1, <1>2, <1>3, <1>4 DEF Data

(* One path is written, with content under a shared name and with a link   *)
(* under a link's.                                                         *)
LEMMA WriteFacts ==
    ASSUME FilesInv, NEW d \in Dirs, NEW f \in FileNames, NEW v,
           f \in Names => v \in Data, f \notin Names => v \in Links \cup {Empty},
           disk' = [disk EXCEPT ![<<d, f>>] = v]
    PROVE  /\ FilesInv'
           /\ disk'[<<d, f>>] = v
           /\ \A e \in Dirs, g \in FileNames :
                  e # d \/ g # f => disk'[<<e, g>>] = disk[<<e, g>>]
           /\ \A p \in Paths :
                  /\ p # <<d, f>> => disk'[p] = disk[p]
                  /\ p[2] \in Names /\ disk[p] \in Data => disk'[p] \in Data
                  /\ p[2] \in Names /\ disk[p] \in Data \cup {Directory} =>
                         disk'[p] \in Data \cup {Directory}
<1> DEFINE q == <<d, f>>
           All == Data \cup Links \cup {Absent, Directory}
<1>1. q \in Paths /\ v \in All
  BY PathFacts, LinkFacts
<1>2. /\ disk \in [Paths -> All] /\ disk' \in [Paths -> All]
      /\ disk'[q] = v /\ \A p \in Paths : p # q => disk'[p] = disk[p]
  BY <1>1 DEF FilesInv
<1>3. \A e \in Dirs, g \in FileNames :
          e # d \/ g # f => disk'[<<e, g>>] = disk[<<e, g>>]
  <2> SUFFICES ASSUME NEW e \in Dirs, NEW g \in FileNames, e # d \/ g # f
               PROVE  disk'[<<e, g>>] = disk[<<e, g>>]
    OBVIOUS
  <2>1. <<e, g>> \in Paths /\ <<e, g>> # q
    BY PathFacts
  <2> QED
    BY <1>2, <2>1
<1>4. ASSUME NEW n \in Names
      PROVE  /\ disk'[<<Here, n>>] \in Data \cup {Absent, Directory}
             /\ disk'[<<UPLOAD_DIR, n>>] \in Data \cup {Absent}
             /\ disk'[<<DOWNLOAD_DIR, n>>] \in Data \cup {Absent}
             /\ \A e \in Dirs : disk'[<<e, LinkOf[n]>>] \in Links \cup {Absent, Empty}
  <2>1. /\ n \in FileNames /\ LinkOf[n] \in FileNames
        /\ LinkOf[n] \notin Names
        /\ {Here, UPLOAD_DIR, DOWNLOAD_DIR} \subseteq Dirs
    BY PathFacts
  <2>2. ASSUME NEW e \in Dirs
        PROVE  disk'[<<e, n>>] \in {disk[<<e, n>>]} \cup Data
    <3>1. CASE e = d /\ n = f
      BY <1>2, <3>1
    <3>2. CASE e # d \/ n # f
      BY <1>3, <2>1, <3>2
    <3> QED
      BY <3>1, <3>2
  <2>3. ASSUME NEW e \in Dirs
        PROVE  disk'[<<e, LinkOf[n]>>] \in {disk[<<e, LinkOf[n]>>], Empty} \cup Links
    <3>1. CASE e = d /\ LinkOf[n] = f
      BY <1>2, <2>1, <3>1
    <3>2. CASE e # d \/ LinkOf[n] # f
      BY <1>3, <2>1, <3>2
    <3> QED
      BY <3>1, <3>2
  <2> QED
    BY <2>1, <2>2, <2>3 DEF FilesInv
<1>5. FilesInv'
  BY <1>2, <1>4 DEF FilesInv
<1>6. ASSUME NEW p \in Paths, p[2] \in Names
      PROVE  disk'[p] \in {disk[p]} \cup Data
  BY <1>2, <1>6
<1> QED
  BY <1>2, <1>3, <1>5, <1>6

LEMMA InitialTypes == Init => TypesInv
<1> SUFFICES ASSUME Init PROVE TypesInv
  OBVIOUS
<1>1. FilesInv
  <2>1. PICK f \in UserFiles :
            disk = [p \in Paths |-> IF p \in {Here} \X Names
                                    THEN f[p[2]] ELSE Absent]
    <3> DEFINE Start(f) == [p \in Paths |-> IF p \in {Here} \X Names
                                            THEN f[p[2]] ELSE Absent]
    <3>1. disk \in {Start(f) : f \in UserFiles}
      BY Zenon DEF Init
    <3>2. PICK f \in UserFiles : disk = Start(f)
      <4> HIDE DEF Start
      <4> QED
        BY <3>1
    <3> QED
      BY <3>2
  <2>2. \A n \in Names : f[n] \in Data \cup {Absent, Directory}
    <3>1. UserFiles \subseteq [Names -> Data \cup {Absent, Directory}]
      BY CommandLineAssumption
    <3> QED
      BY <2>1, <3>1
  <2>3. \A p \in Paths : p \in {Here} \X Names => p[2] \in Names
    OBVIOUS
  <2>4. disk \in [Paths -> Data \cup Links \cup {Absent, Directory}]
    BY <2>1, <2>2, <2>3
  <2>5. ASSUME NEW n \in Names
        PROVE  /\ disk[<<Here, n>>] \in Data \cup {Absent, Directory}
               /\ disk[<<UPLOAD_DIR, n>>] = Absent
               /\ disk[<<DOWNLOAD_DIR, n>>] = Absent
               /\ \A d \in Dirs : disk[<<d, LinkOf[n]>>] = Absent
    BY <2>1, <2>2, PathFacts
  <2> QED
    BY <2>4, <2>5 DEF FilesInv
<1>2. UserInv
  BY DEF Init, UserInv
<1>3. OthersInv
  BY LinkFacts DEF Init, OthersInv, NoOffer
<1> QED
  BY <1>1, <1>2, <1>3 DEF TypesInv

(* Only the commands touch what the user's invariant speaks of, apart from *)
(* what is written.                                                        *)
LEMMA UserKept ==
    ASSUME UserInv, UNCHANGED <<cli, path, magnet, brought, unlinked>>,
           given \subseteq given',
           \A p \in Paths :
               p[2] \in Names =>
                   /\ disk[p] \in Data => disk'[p] \in Data
                   /\ disk[p] \in Data \cup {Directory} =>
                          disk'[p] \in Data \cup {Directory}
    PROVE  UserInv'
BY DEF UserInv, name

LEMMA OverFacts ==
    ASSUME NEW p, NEW v \in Data
    PROVE  Over(p, v) \in Data
BY LinkFacts DEF Over

LEMMA CopiesFacts ==
    \A n \in Names : <<"us", n>> \in Copies /\ <<"others", n>> \in Copies
BY DEF Copies

LEMMA SpoiledTypes ==
    ASSUME spoiled \subseteq Copies, NEW n,
           spoiled' = spoiled \/ spoiled' = spoiled \cup {<<"us", n>>},
           spoiled' = spoiled \/ n \in Names
    PROVE  spoiled' \subseteq Copies
<1>1. CASE spoiled' = spoiled
  BY <1>1
<1>2. CASE n \in Names /\ spoiled' = spoiled \cup {<<"us", n>>}
  <2>1. PICK c \in Copies : c = <<"us", n>>
    BY <1>2, CopiesFacts
  <2>2. spoiled' = spoiled \cup {c}
    BY <1>2, <2>1
  <2> QED
    BY <2>2
<1> QED
  BY <1>1, <1>2

LEMMA PartsAreData == Parts \subseteq Data
BY LinkFacts DEF Parts

LEMMA UserStepTypes ==
    ASSUME TypesInv, CliStep
    PROVE  TypesInv'
<1> USE DEF TypesInv
<1>0. UNCHANGED storeVars /\ UNCHANGED offerVars
  BY DEF CliStep, Hash, HashFails, NoUploadDirectory, CopyOpens, CopyFails,
         CopyRest, SaveLink
<1>1. given \subseteq given'
  BY DEF CliStep, Hash, HashFails, NoUploadDirectory, CopyOpens, CopyFails,
         CopyRest, SaveLink, historyVars
<1>s. spoiled' = spoiled \/ spoiled' = spoiled \cup {<<"us", name>>}
  BY DEF CliStep, Hash, HashFails, NoUploadDirectory, CopyOpens, CopyFails,
         CopyRest, SaveLink, historyVars, Spoil
<1>u. cli \in {"copy", "copying"} \/ spoiled' = spoiled
  BY DEF CliStep, Hash, HashFails, NoUploadDirectory, CopyOpens, CopyFails,
         CopyRest, SaveLink, historyVars
<1>2. OthersInv'
  <2>1. spoiled' \subseteq Copies
    <3>1. spoiled' = spoiled \/ name \in Names
      BY <1>u DEF UserInv
    <3> QED
      BY <1>s, <3>1, SpoiledTypes DEF OthersInv
  <2> QED
    BY <1>0, <1>1, <2>1 DEF storeVars, offerVars, OthersInv
<1>b. ASSUME cli \in {"copy", "copying"}
      PROVE  disk[<<UPLOAD_DIR, name>>] \in Data \cup {Absent}
  BY <1>b DEF UserInv, FilesInv
<1>3. CASE Hash
  <2>1. disk[path] \in Data /\ path \in Paths /\ name \in Names
    BY <1>3 DEF Hash, UserInv
  <2>2. Link(disk[path], name) \in Links /\ magnet' = Link(disk[path], name)
    BY <1>3, <2>1, LinkFacts DEF Hash
  <2>3. magnet'.hash = disk[path]
    BY <2>2 DEF Link
  <2>4. FilesInv'
    BY <1>3 DEF Hash, FilesInv
  <2>5. UserInv'
    BY <1>3, <2>1, <2>2, <2>3 DEF Hash, UserInv, name
  <2> QED
    BY <1>2, <2>4, <2>5
<1>4. CASE HashFails
  BY <1>2, <1>4 DEF HashFails, FilesInv, UserInv, historyVars
<1>9. CASE NoUploadDirectory
  BY <1>2, <1>9
     DEF NoUploadDirectory, UploadReturns, FilesInv, UserInv, historyVars
<1>5. CASE CopyOpens
  <2>1. /\ path \in Paths /\ name \in Names /\ disk[path] \in Data
        /\ disk' = [disk EXCEPT ![<<UPLOAD_DIR, name>>] = Empty]
    BY <1>5 DEF CopyOpens, UserInv, Copy
  <2>2. /\ FilesInv'
        /\ \A p \in Paths :
               p[2] \in Names /\ disk[p] \in Data => disk'[p] \in Data
    BY <2>1, WriteFacts, PathFacts, LinkFacts
  <2>3. UserInv'
    BY <1>5, <2>1, <2>2 DEF CopyOpens, UserInv, name
  <2> QED
    BY <1>2, <2>2, <2>3
<1>6. CASE CopyFails
  <2>1. FilesInv'
    <3>1. CASE UNCHANGED disk
      BY <3>1 DEF FilesInv
    <3>2. ASSUME cli = "copying", NEW part \in {disk[Copy], Mixed},
                 disk' = [disk EXCEPT ![Copy] = part]
          PROVE  FilesInv'
      <4>1. CASE part \in Data
        <5>1. /\ name \in Names
              /\ disk' = [disk EXCEPT ![<<UPLOAD_DIR, name>>] = part]
          BY <3>2 DEF UserInv, Copy
        <5> QED
          BY <4>1, <5>1, WriteFacts, PathFacts
      <4>2. CASE part = disk[Copy]
        <5>1. disk' = disk
          BY <3>2, <4>2 DEF FilesInv
        <5> QED
          BY <5>1 DEF FilesInv
      <4> QED
        BY <3>2, <4>1, <4>2, LinkFacts
    <3> QED
      BY <1>6, <3>1, <3>2 DEF CopyFails
  <2>2. UserInv'
    BY <1>6 DEF CopyFails, UserInv, name
  <2> QED
    BY <1>2, <2>1, <2>2
<1>7. CASE CopyRest
  <2>1. /\ path \in Paths /\ name \in Names /\ disk[path] \in Data
        /\ disk' = [disk EXCEPT ![<<UPLOAD_DIR, name>>] =
                        Over(Copy, disk[path])]
        /\ Over(Copy, disk[path]) \in Data
    BY <1>7, OverFacts DEF CopyRest, UserInv, Copy
  <2>2. FilesInv'
    BY <2>1, WriteFacts, PathFacts
  <2>3. UserInv'
    BY <1>7, <2>1 DEF CopyRest, UserInv, name, historyVars
  <2> QED
    BY <1>2, <2>2, <2>3
<1>8. CASE SaveLink
  <2>1. magnet \in Links /\ name \in Names
    BY <1>8 DEF SaveLink, UserInv
  <2>2. FilesInv'
    <3>1. CASE UNCHANGED disk
      BY <3>1 DEF FilesInv
    <3>2. ASSUME NEW v \in {magnet, Empty},
                 disk' = [disk EXCEPT ![<<UPLOAD_DIR, LinkOf[name]>>] = v]
          PROVE  FilesInv'
      <4>1. v \in Links \cup {Empty}
        BY <2>1
      <4> QED
        BY <2>1, <3>2, <4>1, WriteFacts, PathFacts
    <3> QED
      BY <1>8, <3>1, <3>2 DEF SaveLink
  <2>3. UserInv'
    BY <1>8, <2>1 DEF SaveLink, UploadReturns, UserInv
  <2> QED
    BY <1>2, <2>2, <2>3
<1> QED
  BY <1>3, <1>4, <1>5, <1>6, <1>7, <1>8, <1>9 DEF CliStep

(* What a download leaves under the name it was asked for.                 *)
LEMMA DownloadedFacts ==
    ASSUME FilesInv, magnet \in Links, NEW v \in Data, Downloaded(v)
    PROVE  FilesInv'
<1>1. magnet.name \in Names
  BY LinkFacts
<1> QED
  BY <1>1, WriteFacts, PathFacts DEF Downloaded

LEMMA ThreadStepTypes ==
    ASSUME TypesInv, ThreadAnswers \/ DownloadRetries \/ ServerCloses
    PROVE  TypesInv'
<1> USE DEF TypesInv
<1>1. CASE StatusShown
  <2>1. FilesInv'
    BY <1>1 DEF StatusShown, FilesInv
  <2>2. UserInv'
    BY <1>1 DEF StatusShown, UserInv, historyVars
  <2>3. OthersInv'
    BY <1>1 DEF StatusShown, OthersInv, storeVars, offerVars, historyVars
  <2> QED
    BY <2>1, <2>2, <2>3
<1>2. CASE UploadAnswered
  <2>1. /\ name \in Names /\ magnet \in Links /\ magnet.hash \in Data
        /\ disk[Copy] \in Data \cup {Absent} /\ InRequest[name] \in Names
        /\ brought = "nothing"
    BY <1>2, LinkFacts, CommandLineAssumption
       DEF UploadAnswered, UserInv, FilesInv, Copy
  <2>2. FilesInv'
    BY <1>2 DEF UploadAnswered, FilesInv
  <2>3. /\ offer' = offer /\ given' = given /\ brought' = brought
        /\ stored' \in [Data -> SUBSET {"us", "others"}]
    BY <1>2, <2>1 DEF UploadAnswered, BecomeOwner, OthersInv, offerVars
  <2>4. CASE UploadFails
    <3>1. UserInv'
      BY <2>1, <2>3, <2>4 DEF UploadFails, UploadReturns, UserInv
    <3>2. OthersInv'
      BY <2>3, <2>4 DEF UploadFails, OthersInv
    <3> QED
      BY <2>2, <3>1, <3>2
  <2>5. CASE Replicate
    <3>1. UserInv'
      BY <1>2, <2>1, <2>3, <2>5 DEF UploadAnswered, Replicate, UserInv, name
    <3>2. known' \subseteq Data
      BY <2>1, <2>5 DEF Replicate, OthersInv
    <3>3. /\ held' \in [Names -> Data \cup {Absent}]
          /\ spoiled' \subseteq Copies
      <4>1. CASE UNCHANGED <<held, spoiled>>
        BY <4>1 DEF OthersInv
      <4>2. ASSUME NEW v \in Data, held' = [held EXCEPT ![InRequest[name]] = v],
                   \/ spoiled' = spoiled
                   \/ spoiled' = spoiled \cup {<<"others", name>>}
            PROVE  /\ held' \in [Names -> Data \cup {Absent}]
                   /\ spoiled' \subseteq Copies
        BY <2>1, <4>2, CopiesFacts DEF OthersInv
      <4>3. \/ UNCHANGED <<held, spoiled>>
            \/ \E v \in Data :
                   /\ held' = [held EXCEPT ![InRequest[name]] = v]
                   /\ \/ spoiled' = spoiled
                      \/ spoiled' = spoiled \cup {<<"others", name>>}
        <5>1. CASE UNCHANGED <<held, spoiled>>
          BY <5>1
        <5>2. CASE /\ held' = [held EXCEPT ![InRequest[name]] = disk[Copy]]
                   /\ UNCHANGED spoiled
          <6>1. disk[Copy] \in Data
            BY <2>1, <2>5 DEF Replicate
          <6> QED
            BY <5>2, <6>1
        <5>3. ASSUME NEW part \in Parts,
                     held' = [held EXCEPT ![InRequest[name]] = part],
                     Spoil("others", name)
              PROVE  \E v \in Data :
                         /\ held' = [held EXCEPT ![InRequest[name]] = v]
                         /\ \/ spoiled' = spoiled
                            \/ spoiled' = spoiled \cup {<<"others", name>>}
          BY <5>3, PartsAreData DEF Spoil
        <5> QED
          BY <2>5, <5>1, <5>2, <5>3 DEF Replicate
      <4> QED
        BY <4>1, <4>2, <4>3
    <3>4. OthersInv'
      BY <2>3, <3>2, <3>3 DEF OthersInv
    <3> QED
      BY <2>2, <3>1, <3>4
  <2> QED
    BY <1>2, <2>4, <2>5 DEF UploadAnswered
<1>3. CASE DownloadAnswered \/ DownloadRetries \/ ServerCloses
  <2>1. /\ magnet \in Links /\ magnet.name \in Names
        /\ InRequest[magnet.name] \in Names
        /\ cli \in {"fetch", "retrying"} /\ brought = "nothing"
    <3>1. cli \in {"fetch", "retrying"}
      BY <1>3 DEF DownloadAnswered, DownloadRetries, OthersAreAsked, ServerCloses
    <3> QED
      BY <3>1, LinkFacts, CommandLineAssumption DEF UserInv
  <2>2. \/ disk' = disk
        \/ \E v \in Data : Downloaded(v)
    <3>1. CASE DownloadAnswered
      <4>1. CASE FromOthers
        <5>1. held[InRequest[magnet.name]] \in Data \cup {Absent}
          BY <2>1 DEF OthersInv
        <5> QED
          BY <4>1, <5>1, PartsAreData DEF FromOthers
      <4> QED
        BY <3>1, <4>1, PartsAreData DEF DownloadAnswered
    <3>2. CASE DownloadRetries
      BY <3>2, PartsAreData DEF DownloadRetries
    <3>3. CASE ServerCloses
      <4>1. disk[<<DOWNLOAD_DIR, magnet.name>>] \in Data \cup {Absent}
        BY <2>1 DEF FilesInv
      <4>2. PICK part \in {disk[<<DOWNLOAD_DIR, magnet.name>>], Mixed} :
                Downloaded(part)
        BY <3>3 DEF ServerCloses
      <4>3. CASE part \in Data
        BY <4>2, <4>3
      <4>4. CASE part = disk[<<DOWNLOAD_DIR, magnet.name>>]
        BY <4>2, <4>4 DEF Downloaded, FilesInv
      <4> QED
        BY <4>2, <4>3, <4>4, LinkFacts
    <3> QED
      BY <1>3, <3>1, <3>2, <3>3
  <2>3. FilesInv'
    <3>1. CASE disk' = disk
      BY <3>1 DEF FilesInv
    <3> QED
      BY <2>1, <2>2, <3>1, DownloadedFacts
  <2>4. UserInv'
    <3>1. /\ unlinked' = unlinked
          /\ \/ cli' = "retrying" /\ magnet' = magnet /\ brought' = brought
             \/ cli' = "menu" /\ magnet' = magnet /\ brought' \in {"all", "part"}
             \/ cli' = "menu" /\ brought' = brought
      BY <1>3 DEF DownloadAnswered, DownloadRetries, ServerCloses, FromOthers,
                  historyVars
    <3> QED
      BY <2>1, <3>1 DEF UserInv
  <2>5. OthersInv'
    <3>1. UNCHANGED <<storeVars, offerVars, given, spoiled>>
      BY <1>3 DEF DownloadAnswered, DownloadRetries, ServerCloses, historyVars
    <3> QED
      BY <3>1 DEF OthersInv, storeVars, offerVars
  <2> QED
    BY <2>3, <2>4, <2>5
<1> QED
  BY <1>1, <1>2, <1>3 DEF ThreadAnswers

LEMMA OffersStepTypes ==
    ASSUME TypesInv,
           \/ \E n \in Names, v \in Contents : OthersUpload(n, v)
           \/ PutOpens \/ PutRefused \/ PutEnds \/ PutIsCut \/ StoreArrives
    PROVE  TypesInv'
<1> USE DEF TypesInv
<1>0. /\ UNCHANGED userVars /\ UNCHANGED <<brought, unlinked>>
      /\ given \subseteq given'
  BY DEF OthersUpload, PutOpens, PutRefused, PutEnds, PutIsCut, StoreArrives,
         PutArrives, historyVars
<1>1. ASSUME NEW n \in Names, NEW v \in Contents, OthersUpload(n, v)
      PROVE  TypesInv'
  <2>1. /\ v \in Data /\ Link(v, n) \in Links /\ InRequest[n] \in Names
        /\ disk' = [disk EXCEPT ![<<Here, LinkOf[n]>>] = Link(v, n)]
    BY <1>1, LinkFacts, CommandLineAssumption DEF OthersUpload
  <2>2. /\ FilesInv'
        /\ \A p \in Paths :
               p[2] \in Names =>
                   /\ disk[p] \in Data => disk'[p] \in Data
                   /\ disk[p] \in Data \cup {Directory} =>
                          disk'[p] \in Data \cup {Directory}
    BY <2>1, WriteFacts, PathFacts
  <2>3. UserInv'
    BY <1>0, <2>2, UserKept DEF userVars
  <2>4. stored' = stored /\ known' \subseteq Data
    BY <1>1, <2>1 DEF OthersUpload, OthersInv
  <2>h. /\ held' \in [Names -> Data \cup {Absent}]
        /\ spoiled' \subseteq Copies
    <3>1. CASE held' = [held EXCEPT ![n] = v] /\ UNCHANGED spoiled
      BY <2>1, <3>1 DEF OthersInv
    <3>2. ASSUME NEW part \in Parts, held' = [held EXCEPT ![n] = part],
                 Spoil("others", n)
          PROVE  /\ held' \in [Names -> Data \cup {Absent}]
                 /\ spoiled' \subseteq Copies
      BY <3>2, PartsAreData, CopiesFacts DEF OthersInv, Spoil
    <3> QED
      BY <1>1, <3>1, <3>2 DEF OthersUpload
  <2>5. PICK t \in {"put", "store"} :
            offer' = [state |-> t, name |-> InRequest[n], content |-> v]
    BY <1>1 DEF OthersUpload
  <2>6. /\ offer' \in [state : {"none", "put", "store", "open", "told"},
                         name : Names \cup {"none"}, content : Data]
        /\ offer'.name \in Names /\ offer'.content \in Contents
        /\ offer'.state \notin {"open", "told"}
    BY <2>1, <2>5
  <2>7. OthersInv'
    BY <2>4, <2>6, <2>h DEF OthersInv
  <2> QED
    BY <2>2, <2>3, <2>7
<1>2. CASE PutOpens
  <2>1. /\ offer.name \in Names /\ Empty \in Data
        /\ disk' = [disk EXCEPT ![<<UPLOAD_DIR, offer.name>>] = Empty]
    BY <1>2, LinkFacts DEF PutOpens, PutArrives, OthersInv
  <2>2. /\ FilesInv'
        /\ \A p \in Paths :
               p[2] \in Names =>
                   /\ disk[p] \in Data => disk'[p] \in Data
                   /\ disk[p] \in Data \cup {Directory} =>
                          disk'[p] \in Data \cup {Directory}
    BY <2>1, WriteFacts, PathFacts
  <2>3. UserInv'
    BY <1>0, <2>2, UserKept DEF userVars
  <2>4. OthersInv'
    BY <1>2 DEF PutOpens, PutArrives, OthersInv, storeVars
  <2> QED
    BY <2>2, <2>3, <2>4
<1>6. CASE PutRefused
  <2>1. FilesInv' /\ UserInv'
    BY <1>0, <1>6, UserKept DEF PutRefused, FilesInv, userVars
  <2>2. OthersInv'
    <3>1. PICK t \in {"told", "store"} : offer' = [offer EXCEPT !.state = t]
      BY <1>6 DEF PutRefused, PutIsOver
    <3>2. /\ offer' \in [state : {"none", "put", "store", "open", "told"},
                           name : Names \cup {"none"}, content : Data]
          /\ offer'.name = offer.name /\ offer'.content = offer.content
      BY <3>1 DEF OthersInv
    <3>3. /\ offer.name \in Names /\ offer.content \in Contents
          /\ Gift("others", offer.name, offer.content) \in given'
      BY <1>6 DEF PutRefused, PutArrives, OthersInv
    <3>4. spoiled' \subseteq Copies
      BY <1>6, <3>3, CopiesFacts DEF PutRefused, Spoil, OthersInv
    <3> QED
      BY <1>6, <3>2, <3>3, <3>4 DEF PutRefused, OthersInv, storeVars
  <2> QED
    BY <2>1, <2>2
<1>3. CASE PutEnds \/ PutIsCut
  <2>1. /\ offer.state = "open" /\ offer.name \in Names
        /\ UNCHANGED <<storeVars, given>>
        /\ \/ spoiled' = spoiled
           \/ spoiled' = spoiled \cup {<<"us", offer.name>>}
    BY <1>3 DEF PutEnds, PutIsCut, Spoil, OthersInv, historyVars
  <2>2. \/ disk' = disk
        \/ \E v \in Data : disk' = [disk EXCEPT ![<<UPLOAD_DIR, offer.name>>] = v]
    <3>1. PICK p : p = <<UPLOAD_DIR, offer.name>>
      OBVIOUS
    <3>2. CASE PutEnds
      <4>1. Over(p, offer.content) \in Data
        BY <3>1, OverFacts DEF OthersInv
      <4> QED
        BY <3>1, <3>2, <4>1 DEF PutEnds
    <3>3. CASE PutIsCut
      <4>1. PICK part \in {disk[p], Mixed} : disk' = [disk EXCEPT ![p] = part]
        BY <3>1, <3>3 DEF PutIsCut
      <4>2. CASE part = disk[p]
        BY <4>1, <4>2 DEF FilesInv
      <4>3. CASE part = Mixed
        BY <3>1, <4>1, <4>3, LinkFacts
      <4> QED
        BY <4>1, <4>2, <4>3
    <3> QED
      BY <1>3, <3>2, <3>3
  <2>3. /\ FilesInv'
        /\ \A q \in Paths :
               q[2] \in Names =>
                   /\ disk[q] \in Data => disk'[q] \in Data
                   /\ disk[q] \in Data \cup {Directory} =>
                          disk'[q] \in Data \cup {Directory}
    <3>1. CASE disk' = disk
      BY <3>1 DEF FilesInv
    <3>2. ASSUME NEW v \in Data,
                 disk' = [disk EXCEPT ![<<UPLOAD_DIR, offer.name>>] = v]
          PROVE  /\ FilesInv'
                 /\ \A q \in Paths :
                        q[2] \in Names =>
                            /\ disk[q] \in Data => disk'[q] \in Data
                            /\ disk[q] \in Data \cup {Directory} =>
                                   disk'[q] \in Data \cup {Directory}
      BY <2>1, <3>2, WriteFacts, PathFacts
    <3> QED
      BY <2>2, <3>1, <3>2
  <2>4. UserInv'
    BY <1>0, <2>3, UserKept DEF userVars
  <2>5. OthersInv'
    <3>1. PICK t \in {"told", "store"} : offer' = [offer EXCEPT !.state = t]
      BY <1>3 DEF PutEnds, PutIsCut, PutIsOver
    <3>2. /\ offer' \in [state : {"none", "put", "store", "open", "told"},
                           name : Names \cup {"none"}, content : Data]
          /\ offer'.name = offer.name /\ offer'.content = offer.content
      BY <3>1 DEF OthersInv
    <3>3. spoiled' \subseteq Copies
      BY <2>1, SpoiledTypes DEF OthersInv
    <3> QED
      BY <2>1, <3>2, <3>3 DEF OthersInv, storeVars
  <2> QED
    BY <2>3, <2>4, <2>5
<1>5. CASE StoreArrives
  <2>1. FilesInv' /\ UserInv'
    BY <1>0, <1>5, UserKept DEF StoreArrives, FilesInv, userVars
  <2>2. stored' \in [Data -> SUBSET {"us", "others"}]
    BY <1>5 DEF StoreArrives, OthersInv
  <2>3. OthersInv'
    BY <1>5, <2>2, LinkFacts DEF StoreArrives, OthersInv, NoOffer, historyVars
  <2> QED
    BY <2>1, <2>3
<1> QED
  BY <1>1, <1>2, <1>3, <1>5, <1>6

LEMMA TypesStep == TypesInv /\ [Next]_vars => TypesInv'
<1> SUFFICES ASSUME TypesInv, [Next]_vars PROVE TypesInv'
  OBVIOUS
<1> USE DEF TypesInv
<1>a. UNCHANGED <<storeVars, offerVars, spoiled>> /\ given' = given => OthersInv'
  BY DEF OthersInv, storeVars, offerVars
<1>f. UNCHANGED disk => FilesInv'
  BY DEF FilesInv
<1>1. ASSUME NEW c \in 1..4, Choose(c) PROVE TypesInv'
  <2>1. UserInv'
    <3>1. cli' \in {"status", "upload?", "download?", "ended"}
      BY <1>1 DEF Choose
    <3>2. \/ brought' = "nothing"
          \/ /\ c \notin {2, 3} /\ cli' \in {"status", "ended"}
             /\ brought' = brought /\ magnet' = magnet
      BY <1>1 DEF Choose
    <3>0. unlinked' = unlinked /\ brought \in {"nothing", "all", "part"}
      BY <1>1 DEF Choose, UserInv
    <3>3. CASE brought' = "nothing"
      BY <3>0, <3>1, <3>3 DEF UserInv
    <3>4. CASE cli' \in {"status", "ended"} /\ UNCHANGED <<brought, magnet>>
      BY <3>0, <3>4 DEF UserInv
    <3> QED
      BY <3>2, <3>3, <3>4
  <2> QED
    BY <1>1, <1>a, <1>f, <2>1 DEF Choose
<1>2. CASE NoInput
  BY <1>2, <1>a, <1>f DEF NoInput, historyVars, UserInv
<1>3. ASSUME NEW p \in Paths, ReadPath(p) PROVE TypesInv'
  <2>1. UserInv'
    <3>1. CASE cli' = "menu"
      BY <1>3, <3>1 DEF ReadPath, historyVars, UserInv
    <3>2. CASE cli' = "hash" /\ disk[p] # Absent /\ path' = p
      <4>1. p[2] \in Names /\ disk[p] \in Data \cup {Directory}
        <5>1. PICK d \in Dirs : p = <<d, p[2]>>
          BY PathFacts
        <5> QED
          BY <1>3, <3>2, <5>1 DEF ReadPath, FilesInv, Dirs
      <4> QED
        BY <1>3, <3>2, <4>1 DEF ReadPath, historyVars, UserInv, name
    <3> QED
      BY <1>3, <3>1, <3>2 DEF ReadPath
  <2> QED
    BY <1>3, <1>a, <1>f, <2>1 DEF ReadPath, historyVars
<1>4. ASSUME NEW p \in Paths, ReadLink(p) PROVE TypesInv'
  <2>1. disk[p] \in Links => [disk[p] EXCEPT !.name = InLink[@]] \in Links
    BY LinkFacts
  <2>2. UserInv'
    <3>1. cli' = "menu" \/ (cli' = "fetch" /\ magnet' \in Links)
      BY <1>4, <2>1 DEF ReadLink
    <3>2. brought' = "nothing" /\ unlinked' = unlinked
      BY <1>4 DEF ReadLink, historyVars, UserInv
    <3> QED
      BY <3>1, <3>2 DEF UserInv
  <2> QED
    BY <1>4, <1>a, <1>f, <2>2 DEF ReadLink, historyVars
<1>5. ASSUME NEW n \in Names, NEW v \in Contents, Edit(n, v) PROVE TypesInv'
  <2>1. v \in Data /\ disk' = [disk EXCEPT ![<<Here, n>>] = v]
    BY <1>5, LinkFacts DEF Edit
  <2>2. /\ FilesInv'
        /\ \A p \in Paths :
               p[2] \in Names =>
                   /\ disk[p] \in Data => disk'[p] \in Data
                   /\ disk[p] \in Data \cup {Directory} =>
                          disk'[p] \in Data \cup {Directory}
    BY <2>1, WriteFacts, PathFacts
  <2>3. UserInv'
    BY <1>5, <2>2, UserKept DEF Edit
  <2>4. OthersInv'
    <3>1. spoiled' = spoiled \/ spoiled' = spoiled \cup {<<"us", n>>}
      BY <1>5 DEF Edit, Spoil
    <3> QED
      BY <1>5, <3>1, CopiesFacts DEF Edit, OthersInv, storeVars, offerVars
  <2> QED
    BY <2>2, <2>3, <2>4
<1>6. CASE UNCHANGED vars
  BY <1>6 DEF vars, userVars, storeVars, offerVars, historyVars, FilesInv,
              UserInv, OthersInv, name
<1> QED
  BY <1>1, <1>2, <1>3, <1>4, <1>5, <1>6, UserStepTypes, ThreadStepTypes,
     OffersStepTypes DEF Next

(* The variables keep their types: in particular what is shared is never a *)
(* link, and a download goes by a link that was one.                       *)
THEOREM CommandLineTypeCorrect == Spec => []CommandLineTypeOK
<1>1. TypesInv => CommandLineTypeOK
  BY DEF TypesInv, FilesInv, UserInv, OthersInv, CommandLineTypeOK
<1> QED
  BY <1>1, InitialTypes, TypesStep, PTL DEF Spec
-----------------------------------------------------------------------------
LEMMA HistoryGrows ==
    [Next]_vars => given \subseteq given' /\ spoiled \subseteq spoiled'
<1> USE DEF historyVars, Spoil
<1>1. CliStep => given \subseteq given' /\ spoiled \subseteq spoiled'
  BY DEF CliStep, Hash, HashFails, NoUploadDirectory, CopyOpens, CopyFails,
         CopyRest, SaveLink
<1>2. ThreadAnswers \/ DownloadRetries \/ ServerCloses
      => given \subseteq given' /\ spoiled \subseteq spoiled'
  BY DEF ThreadAnswers, StatusShown, UploadAnswered, UploadFails, Replicate,
         DownloadAnswered, DownloadRetries, ServerCloses
<1>3. PutOpens \/ PutRefused \/ PutEnds \/ PutIsCut \/ StoreArrives
      => given \subseteq given' /\ spoiled \subseteq spoiled'
  BY DEF PutArrives, PutOpens, PutRefused, PutEnds, PutIsCut, StoreArrives
<1>4. ASSUME NEW n \in Names, NEW v \in Contents, OthersUpload(n, v) \/ Edit(n, v)
      PROVE  given \subseteq given' /\ spoiled \subseteq spoiled'
  BY <1>4 DEF OthersUpload, Edit
<1>5. ASSUME \/ \E c \in 1..4 : Choose(c)
             \/ NoInput \/ \E p \in Paths : ReadPath(p) \/ ReadLink(p)
             \/ UNCHANGED vars
      PROVE  given \subseteq given' /\ spoiled \subseteq spoiled'
  BY <1>5 DEF Choose, NoInput, ReadPath, ReadLink, vars
<1> QED
  BY <1>1, <1>2, <1>3, <1>4, <1>5 DEF Next

LEMMA OursAlonePersists ==
    ASSUME NEW n, [Next]_vars, OursAlone(n)'
    PROVE  OursAlone(n)
BY HistoryGrows DEF OursAlone

(* Where the copy and the link of a name stay, its invariant does, unless  *)
(* the user's upload of it goes on.                                        *)
LEMMA LinkKept ==
    ASSUME NEW n \in Names, LinkInv(n), n \in unlinked => n \in unlinked',
           disk'[<<UPLOAD_DIR, n>>] = disk[<<UPLOAD_DIR, n>>],
           disk'[<<UPLOAD_DIR, LinkOf[n]>>] = disk[<<UPLOAD_DIR, LinkOf[n]>>],
           \/ /\ UNCHANGED <<cli, path, magnet>>
              /\ cli \in {"copy", "copying"} /\ name = n =>
                     disk'[path] = disk[path]
           \/ /\ ~(cli \in {"copying", "asked", "save"} /\ name = n)
              /\ cli' \notin {"copy", "copying", "asked", "save"}
    PROVE  LinkInv(n)'
<1>1. CASE /\ UNCHANGED <<cli, path, magnet>>
           /\ cli \in {"copy", "copying"} /\ name = n =>
                  disk'[path] = disk[path]
  BY <1>1 DEF LinkInv, name, Copy
<1>2. CASE /\ ~(cli \in {"copying", "asked", "save"} /\ name = n)
           /\ cli' \notin {"copy", "copying", "asked", "save"}
  BY <1>2 DEF LinkInv
<1> QED
  BY <1>1, <1>2

LEMMA WriteAt ==
    ASSUME FilesInv, NEW p \in Paths, NEW v, disk' = [disk EXCEPT ![p] = v]
    PROVE  disk'[p] = v /\ \A q \in Paths : q # p => disk'[q] = disk[q]
BY DEF FilesInv

LEMMA LinkStepOfUser ==
    ASSUME TypesInv, NEW n \in Names, OursAlone(n), OursAlone(n)', LinkInv(n),
           CliStep
    PROVE  LinkInv(n)'
<1> DEFINE copy == <<UPLOAD_DIR, n>>
           link == <<UPLOAD_DIR, LinkOf[n]>>
<1>p. /\ copy \in Paths /\ link \in Paths
      /\ \A m \in Names : /\ <<UPLOAD_DIR, m>> \in Paths
                          /\ <<UPLOAD_DIR, LinkOf[m]>> \in Paths
                          /\ <<UPLOAD_DIR, m>> # link
                          /\ <<UPLOAD_DIR, LinkOf[m]>> # copy
                          /\ <<UPLOAD_DIR, m>> = copy => m = n
                          /\ <<UPLOAD_DIR, LinkOf[m]>> = link => m = n
  BY PathFacts, CommandLineAssumption
<1>1. CASE Hash
  <2>1. magnet'.hash = disk[path]
    BY <1>1 DEF Hash, Link
  <2> QED
    BY <1>1, <2>1 DEF Hash, LinkInv, name
<1>2. CASE HashFails
  BY <1>2, LinkKept DEF HashFails, historyVars
<1>7. CASE NoUploadDirectory
  BY <1>7, LinkKept DEF NoUploadDirectory, UploadReturns, historyVars
<1>3. CASE CopyOpens
  <2>1. /\ path \in Paths /\ name \in Names
        /\ cli' = "copying" /\ UNCHANGED <<path, magnet, unlinked>>
        /\ disk' = [disk EXCEPT ![<<UPLOAD_DIR, name>>] = Empty]
    BY <1>3 DEF CopyOpens, Copy, TypesInv, UserInv
  <2>w. /\ disk'[<<UPLOAD_DIR, name>>] = Empty
        /\ \A q \in Paths : q # <<UPLOAD_DIR, name>> => disk'[q] = disk[q]
    BY <1>p, <2>1, WriteAt DEF TypesInv
  <2>2. disk'[link] = disk[link]
    BY <1>p, <2>w, <2>1
  <2>3. CASE name = n
    <3>1. path # Copy /\ disk[path] = magnet.hash
      BY <1>3, <2>3 DEF CopyOpens, OursAlone, LinkInv, Spoil
    <3>2. disk'[copy] = Empty /\ disk'[path] = disk[path]
      BY <1>p, <2>w, <2>1, <2>3, <3>1 DEF Copy
    <3> QED
      BY <2>1, <2>3, <3>1, <3>2 DEF LinkInv, name, Copy
  <2>4. CASE name # n
    <3>1. disk'[copy] = disk[copy]
      BY <1>p, <2>w, <2>1, <2>4
    <3> QED
      BY <2>1, <2>2, <2>4, <3>1 DEF LinkInv, name
  <2> QED
    BY <2>3, <2>4
<1>4. CASE CopyFails
  <2>1. /\ name # n /\ name \in Names
        /\ cli \in {"copy", "copying"} /\ cli' = "asked"
        /\ UNCHANGED <<path, magnet, unlinked>>
    BY <1>4 DEF CopyFails, OursAlone, Spoil, TypesInv, UserInv
  <2>2. disk'[copy] = disk[copy] /\ disk'[link] = disk[link]
    <3>1. ASSUME NEW v, disk' = [disk EXCEPT ![Copy] = v]
          PROVE  disk'[copy] = disk[copy] /\ disk'[link] = disk[link]
      <4>1. PICK p \in Paths : p = Copy /\ p # copy /\ p # link
        BY <1>p, <2>1 DEF Copy
      <4> QED
        BY <1>p, <3>1, <4>1, WriteAt DEF TypesInv
    <3> QED
      BY <1>4, <3>1 DEF CopyFails
  <2> QED
    BY <2>1, <2>2 DEF LinkInv, name
<1>5. CASE CopyRest
  <2>1. /\ path \in Paths /\ name \in Names
        /\ cli = "copying" /\ cli' = "asked"
        /\ UNCHANGED <<path, magnet, unlinked>>
        /\ magnet = Link(magnet.hash, name)
        /\ disk' = [disk EXCEPT ![<<UPLOAD_DIR, name>>] =
                        Over(Copy, disk[path])]
    BY <1>5 DEF CopyRest, Copy, TypesInv, UserInv, historyVars
  <2>w. /\ disk'[<<UPLOAD_DIR, name>>] = Over(Copy, disk[path])
        /\ \A q \in Paths : q # <<UPLOAD_DIR, name>> => disk'[q] = disk[q]
    BY <1>p, <2>1, WriteAt DEF TypesInv
  <2>2. disk'[link] = disk[link]
    BY <1>p, <2>w, <2>1
  <2>3. CASE name = n
    <3>1. Over(Copy, disk[path]) = magnet.hash
      BY <2>1, <2>3 DEF LinkInv, Over, Copy
    <3>2. disk'[copy] = magnet.hash
      BY <1>p, <2>w, <2>1, <2>3, <3>1
    <3> QED
      BY <2>1, <2>3, <3>2 DEF LinkInv, name
  <2>4. CASE name # n
    <3>1. disk'[copy] = disk[copy]
      BY <1>p, <2>w, <2>1, <2>4
    <3> QED
      BY <2>1, <2>2, <2>4, <3>1 DEF LinkInv, name
  <2> QED
    BY <2>3, <2>4
<1>6. CASE SaveLink
  <2>1. name \in Names /\ cli = "save" /\ cli' = "menu"
    BY <1>6 DEF SaveLink, UploadReturns, TypesInv, UserInv
  <2>2. CASE UNCHANGED disk /\ unlinked' = unlinked \cup {name}
    BY <2>1, <2>2 DEF LinkInv
  <2>3. ASSUME NEW v, disk' = [disk EXCEPT ![<<UPLOAD_DIR, LinkOf[name]>>] = v],
               v = magnet \/ v = Empty,
               \A m \in unlinked : m = name \/ m \in unlinked'
        PROVE  LinkInv(n)'
    <3>1. PICK p \in Paths : p = <<UPLOAD_DIR, LinkOf[name]>>
      BY <1>p, <2>1
    <3>2. disk'[p] = v /\ \A q \in Paths : q # p => disk'[q] = disk[q]
      BY <2>3, <3>1, WriteAt DEF TypesInv
    <3>3. disk'[copy] = disk[copy]
      BY <1>p, <2>1, <3>1, <3>2
    <3>4. CASE name = n
      <4>1. disk'[link] = v /\ magnet = Link(disk[copy], n)
        BY <2>1, <3>1, <3>2, <3>4 DEF LinkInv
      <4> QED
        BY <2>1, <2>3, <3>3, <4>1, LinkFacts DEF LinkInv
    <3>5. CASE name # n
      <4>1. disk'[link] = disk[link]
        BY <1>p, <2>1, <3>1, <3>2, <3>5
      <4>2. n \in unlinked => n \in unlinked'
        BY <2>3, <3>5
      <4> QED
        BY <2>1, <3>3, <3>5, <4>1, <4>2, LinkKept
    <3> QED
      BY <3>4, <3>5
  <2> QED
    BY <1>6, <2>2, <2>3 DEF SaveLink
<1> QED
  BY <1>1, <1>2, <1>3, <1>4, <1>5, <1>6, <1>7 DEF CliStep

LEMMA LinkStepOfOthers ==
    ASSUME TypesInv, NEW n \in Names, OursAlone(n), OursAlone(n)', LinkInv(n),
           UNCHANGED <<cli, path, magnet, unlinked>>,
           \/ \E m \in Names, v \in Contents : OthersUpload(m, v) \/ Edit(m, v)
           \/ PutOpens \/ PutRefused \/ PutEnds \/ PutIsCut \/ StoreArrives
    PROVE  LinkInv(n)'
<1> DEFINE copy == <<UPLOAD_DIR, n>>
           link == <<UPLOAD_DIR, LinkOf[n]>>
<1>p. copy \in Paths /\ link \in Paths /\ LinkOf[n] \notin Names
  BY PathFacts
<1>u. cli \in {"copy", "copying"} => path \in Paths /\ disk[path] \in Data
  BY DEF TypesInv, UserInv
<1>n. cli \in {"copy", "copying"} => name \in Names
  BY DEF TypesInv, UserInv
<1>1. ASSUME NEW m \in Names, NEW v \in Contents, OthersUpload(m, v)
      PROVE  LinkInv(n)'
  <2>1. PICK p \in Paths : p = <<Here, LinkOf[m]>>
    BY PathFacts
  <2>2. \A q \in Paths : q # p => disk'[q] = disk[q]
    BY <1>1, <2>1, WriteAt DEF TypesInv, OthersUpload
  <2>3. p # copy /\ p # link
    BY <2>1, PathFacts
  <2>4. cli \in {"copy", "copying"} => path # p
    BY <1>n, <2>1, PathFacts DEF name
  <2> QED
    BY <1>p, <1>u, <2>2, <2>3, <2>4, LinkKept
<1>2. ASSUME NEW m \in Names, NEW v \in Contents, Edit(m, v)
      PROVE  LinkInv(n)'
  <2>1. PICK p \in Paths : p = <<Here, m>>
    BY PathFacts
  <2>2. \A q \in Paths : q # p => disk'[q] = disk[q]
    BY <1>2, <2>1, WriteAt DEF TypesInv, Edit
  <2>3. p # copy /\ p # link
    BY <2>1, PathFacts
  <2>4. cli \in {"copy", "copying"} /\ name = n => path # p
    <3> SUFFICES ASSUME cli \in {"copy", "copying"}, path = p, name = n
                 PROVE  FALSE
      OBVIOUS
    <3>1. m = n
      BY <2>1 DEF name
    <3>2. <<"us", n>> \in spoiled'
      BY <1>2, <2>1, <3>1 DEF Edit, Spoil
    <3> QED
      BY <3>2 DEF OursAlone
  <2> QED
    BY <1>p, <1>u, <2>2, <2>3, <2>4, LinkKept
<1>3. CASE PutOpens \/ PutEnds \/ PutIsCut
  <2>1. offer.name \in Names /\ offer.name # n
    <3>1. offer.state \in {"put", "open"}
      BY <1>3 DEF PutOpens, PutArrives, PutEnds, PutIsCut
    <3>2. Gift("others", offer.name, offer.content) \in given'
      BY <1>3 DEF PutOpens, PutArrives, PutEnds, PutIsCut, TypesInv, OthersInv,
                  historyVars
    <3> QED
      BY <3>1, <3>2 DEF TypesInv, OthersInv, OursAlone, Gift
  <2>2. PICK p \in Paths : p = <<UPLOAD_DIR, offer.name>>
    BY <2>1, PathFacts
  <2>3. \E v : disk' = [disk EXCEPT ![p] = v]
    BY <1>3, <2>2 DEF PutOpens, PutEnds, PutIsCut
  <2>4. \A q \in Paths : q # p => disk'[q] = disk[q]
    BY <2>3, WriteAt DEF TypesInv
  <2>5. p # copy /\ p # link
    BY <1>p, <2>1, <2>2
  <2>6. name = n => path # p
    BY <2>1, <2>2 DEF name
  <2> QED
    BY <1>p, <1>u, <2>4, <2>5, <2>6, LinkKept
<1>4. CASE PutRefused \/ StoreArrives
  BY <1>4, LinkKept DEF PutRefused, StoreArrives
<1> QED
  BY <1>1, <1>2, <1>3, <1>4

LEMMA LinksStep == TypesInv /\ LinksInv /\ [Next]_vars => LinksInv'
<1> SUFFICES ASSUME TypesInv, LinksInv, [Next]_vars,
                    NEW n \in Names, OursAlone(n)'
             PROVE  LinkInv(n)'
  BY DEF LinksInv
<1>0. OursAlone(n) /\ LinkInv(n)
  BY OursAlonePersists DEF LinksInv
<1> DEFINE copy == <<UPLOAD_DIR, n>>
           link == <<UPLOAD_DIR, LinkOf[n]>>
           Uploading == {"copy", "copying", "asked", "save"}
<1>a. ASSUME cli \notin Uploading, cli' \notin Uploading,
             UNCHANGED <<disk, unlinked>>
      PROVE  LinkInv(n)'
  BY <1>0, <1>a, LinkKept
<1>1. ASSUME NEW c \in 1..4, Choose(c) PROVE LinkInv(n)'
  <2>1. cli' \in {"status", "upload?", "download?", "ended"}
    BY <1>1 DEF Choose
  <2> QED
    BY <1>1, <1>a, <2>1 DEF Choose
<1>2. ASSUME NEW p \in Paths, ReadPath(p) \/ ReadLink(p) PROVE LinkInv(n)'
  BY <1>2, <1>a DEF ReadPath, ReadLink, historyVars
<1>3. CASE NoInput \/ StatusShown
  BY <1>3, <1>a DEF NoInput, StatusShown, historyVars
<1>4. CASE CliStep
  BY <1>0, <1>4, LinkStepOfUser
<1>5. CASE UploadAnswered
  <2>1. cli = "asked" /\ disk' = disk
    BY <1>5 DEF UploadAnswered
  <2>2. CASE Replicate
    BY <1>0, <2>1, <2>2 DEF Replicate, LinkInv, name
  <2>3. CASE UploadFails
    BY <1>0, <2>1, <2>3 DEF UploadFails, UploadReturns, LinkInv
  <2> QED
    BY <1>5, <2>2, <2>3 DEF UploadAnswered
<1>6. CASE DownloadAnswered \/ DownloadRetries \/ ServerCloses
  <2>1. /\ cli \in {"fetch", "retrying"} /\ cli' \in {"menu", "retrying"}
        /\ unlinked' = unlinked
    BY <1>6 DEF DownloadAnswered, DownloadRetries, OthersAreAsked,
                ServerCloses, historyVars
  <2>2. disk'[copy] = disk[copy] /\ disk'[link] = disk[link]
    <3>1. disk' = disk \/ \E v : Downloaded(v)
      BY <1>6 DEF DownloadAnswered, DownloadRetries, ServerCloses, FromOthers
    <3>2. ASSUME NEW v, Downloaded(v)
          PROVE  disk'[copy] = disk[copy] /\ disk'[link] = disk[link]
      <4>1. magnet.name \in Names
        BY <2>1, LinkFacts DEF TypesInv, UserInv
      <4>2. PICK p \in Paths : p = <<DOWNLOAD_DIR, magnet.name>>
        BY <4>1, PathFacts
      <4>3. \A q \in Paths : q # p => disk'[q] = disk[q]
        BY <3>2, <4>2, WriteAt DEF TypesInv, Downloaded
      <4> QED
        BY <4>2, <4>3, PathFacts
    <3> QED
      BY <3>1, <3>2
  <2> QED
    BY <1>0, <2>1, <2>2, LinkKept
<1>7. CASE \/ \E m \in Names, v \in Contents : OthersUpload(m, v) \/ Edit(m, v)
           \/ PutOpens \/ PutRefused \/ PutEnds \/ PutIsCut \/ StoreArrives
  <2>1. UNCHANGED <<cli, path, magnet, unlinked>>
    BY <1>7 DEF OthersUpload, Edit, PutOpens, PutRefused, PutEnds, PutIsCut,
                StoreArrives, userVars, historyVars
  <2> QED
    BY <1>0, <1>7, <2>1, LinkStepOfOthers
<1>8. CASE UNCHANGED vars
  BY <1>0, <1>8, LinkKept DEF vars, userVars, historyVars
<1> QED
  BY <1>1, <1>2, <1>3, <1>4, <1>5, <1>6, <1>7, <1>8 DEF Next, ThreadAnswers

(* When the menu is back, the link beside a copy is of that copy, however  *)
(* often the user shared files of its name: unless others did, the copy    *)
(* failed or was made of itself, the file changed meanwhile, or the last   *)
(* upload of the name came to no link.                                     *)
THEOREM LinksNameCopies == Spec => []LinkNamesTheCopy
<1>1. Init => LinksInv
  <2> SUFFICES ASSUME Init, NEW n \in Names PROVE LinkInv(n)
    BY DEF LinksInv
  <2>1. cli \in {"menu", "headless"} /\ disk[<<UPLOAD_DIR, LinkOf[n]>>] = Absent
    <3>1. <<UPLOAD_DIR, LinkOf[n]>> \in Paths
      BY PathFacts
    <3> QED
      BY <3>1, PathFacts DEF Init
  <2> QED
    BY <2>1, LinkFacts DEF LinkInv
<1>2. TypesInv /\ LinksInv => LinkNamesTheCopy
  <2> SUFFICES ASSUME TypesInv, LinksInv, cli = "menu", NEW n \in Names,
                      OursAlone(n), n \notin unlinked
               PROVE  LET link == disk[<<UPLOAD_DIR, LinkOf[n]>>]
                      IN  \/ link \notin Links
                          \/ link = Link(disk[<<UPLOAD_DIR, n>>], n)
    BY DEF LinkNamesTheCopy, OursAlone, TypesInv, FilesInv, UserInv, OthersInv,
           CommandLineTypeOK
  <2> QED
    BY DEF LinksInv, LinkInv
<1> QED
  BY <1>1, <1>2, LinksStep, InitialTypes, TypesStep, PTL DEF Spec
-----------------------------------------------------------------------------
LEMMA CleanPersists ==
    ASSUME NEW n, [Next]_vars, Clean(n)'
    PROVE  Clean(n)
BY HistoryGrows DEF Clean

(* A clean name stands for one content.                                    *)
LEMMA OneContent ==
    ASSUME NEW n, Clean(n), NEW v, NEW w, Shared(n, v)
    PROVE  /\ Shared(n, w) => v = w
           /\ \A who : Gift(who, n, w) \in given => v = w
BY DEF Clean, Shared, Gift

LEMMA GiftsAreShared ==
    ASSUME NEW who, NEW n, NEW v, Gift(who, n, v) \in given
    PROVE  Shared(n, v)
BY DEF Shared, Gift

(* What a step does for a name that it leaves clean.                       *)
CopyStays(n) ==
    CopyInv(n)' /\ \A v : Shared(n, v) /\ Kept(n, v) => Kept(n, v)'

LEMMA CopyUntouched ==
    ASSUME NEW n \in Names, CopyInv(n),
           disk'[<<UPLOAD_DIR, n>>] = disk[<<UPLOAD_DIR, n>>],
           \/ offer' = offer
           \/ /\ ~(offer.state = "open" /\ offer.name = n)
              /\ ~(offer'.state \in {"open", "told"} /\ offer'.name = n),
           \/ /\ UNCHANGED <<cli, path, magnet>>
              /\ cli \in {"copy", "copying"} /\ name = n =>
                     disk'[path] = disk[path]
           \/ /\ ~(cli = "copying" /\ name = n)
              /\ \/ cli' \notin {"copy", "copying", "asked"}
                 \/ UNCHANGED <<path, magnet>> /\ name # n
    PROVE  CopyStays(n)
<1>1. ASSUME NEW v, Kept(n, v) PROVE Kept(n, v)'
  BY <1>1 DEF Kept, name
<1>2. CopyInv(n)'
  <2>1. CASE /\ UNCHANGED <<cli, path, magnet>>
             /\ cli \in {"copy", "copying"} /\ name = n =>
                    disk'[path] = disk[path]
    BY <1>1, <2>1 DEF CopyInv, Kept, name, Copy
  <2>2. CASE /\ ~(cli = "copying" /\ name = n)
             /\ \/ cli' \notin {"copy", "copying", "asked"}
                \/ UNCHANGED <<path, magnet>> /\ name # n
    BY <1>1, <2>2 DEF CopyInv, Kept, name, Copy
  <2> QED
    BY <2>1, <2>2
<1> QED
  BY <1>1, <1>2 DEF CopyStays

LEMMA CopyStepOfUser ==
    ASSUME TypesInv, NEW n \in Names, Clean(n), Clean(n)', CopyInv(n), CliStep
    PROVE  CopyStays(n)
<1> DEFINE copy == <<UPLOAD_DIR, n>>
<1>p. /\ copy \in Paths
      /\ \A m \in Names : /\ <<UPLOAD_DIR, m>> \in Paths
                          /\ <<UPLOAD_DIR, LinkOf[m]>> \in Paths
                          /\ <<UPLOAD_DIR, LinkOf[m]>> # copy
                          /\ <<UPLOAD_DIR, m>> = copy => m = n
  BY PathFacts
<1>o. UNCHANGED offer
  BY DEF CliStep, Hash, HashFails, NoUploadDirectory, CopyOpens, CopyFails,
         CopyRest, SaveLink, offerVars
<1>g. offer.state \in {"open", "told"} /\ offer.name = n =>
          Shared(n, offer.content)
  BY GiftsAreShared DEF TypesInv, OthersInv
<1>1. CASE Hash
  <2>1. magnet'.hash = disk[path]
    BY <1>1 DEF Hash, Link
  <2>2. ASSUME NEW v, Kept(n, v) PROVE Kept(n, v)'
    BY <1>1, <1>o, <2>2 DEF Hash, Kept
  <2>3. CopyInv(n)'
    BY <1>1, <1>o, <2>1, <2>2 DEF Hash, CopyInv, name, Copy
  <2> QED
    BY <2>2, <2>3 DEF CopyStays
<1>2. CASE HashFails
  BY <1>2, <1>o, CopyUntouched DEF HashFails
<1>7. CASE NoUploadDirectory
  BY <1>7, <1>o, CopyUntouched DEF NoUploadDirectory, UploadReturns
<1>3. CASE CopyOpens
  <2>1. /\ path \in Paths /\ name \in Names
        /\ cli' = "copying" /\ UNCHANGED <<path, magnet>>
        /\ disk' = [disk EXCEPT ![<<UPLOAD_DIR, name>>] = Empty]
    BY <1>3 DEF CopyOpens, Copy, TypesInv, UserInv
  <2>w. /\ disk'[<<UPLOAD_DIR, name>>] = Empty
        /\ \A q \in Paths : q # <<UPLOAD_DIR, name>> => disk'[q] = disk[q]
    BY <1>p, <2>1, WriteAt DEF TypesInv
  <2>2. CASE name = n
    <3>1. path # Copy /\ disk[path] = magnet.hash
      BY <1>3, <2>2 DEF CopyOpens, Clean, CopyInv, Spoil
    <3>2. disk'[copy] = Empty /\ disk'[path] = disk[path]
      BY <2>1, <2>w, <2>2, <3>1 DEF Copy
    <3>3. \A v : Kept(n, v)'
      BY <2>1, <2>2, <3>2 DEF Kept, name
    <3>4. CopyInv(n)'
      BY <1>o, <2>1, <2>2, <3>1, <3>2, <3>3 DEF CopyInv, name, Copy
    <3> QED
      BY <3>3, <3>4 DEF CopyStays
  <2>3. CASE name # n
    <3>1. disk'[copy] = disk[copy]
      BY <1>p, <2>w, <2>1, <2>3
    <3> QED
      BY <1>o, <2>1, <2>3, <3>1, CopyUntouched
  <2> QED
    BY <2>2, <2>3
<1>4. CASE CopyFails
  <2>1. /\ name # n /\ name \in Names
        /\ cli' = "asked" /\ UNCHANGED <<path, magnet>>
    BY <1>4 DEF CopyFails, Clean, Spoil, TypesInv, UserInv
  <2>2. disk'[copy] = disk[copy]
    <3>1. ASSUME NEW v, disk' = [disk EXCEPT ![Copy] = v]
          PROVE  disk'[copy] = disk[copy]
      <4>1. PICK p \in Paths : p = Copy /\ p # copy
        BY <1>p, <2>1 DEF Copy
      <4> QED
        BY <1>p, <3>1, <4>1, WriteAt DEF TypesInv
    <3> QED
      BY <1>4, <3>1 DEF CopyFails
  <2> QED
    BY <1>o, <2>1, <2>2, CopyUntouched
<1>5. CASE CopyRest
  <2>1. /\ path \in Paths /\ name \in Names
        /\ cli = "copying" /\ cli' = "asked" /\ UNCHANGED <<path, magnet>>
        /\ Gift("us", name, magnet.hash) \in given
        /\ disk' = [disk EXCEPT ![<<UPLOAD_DIR, name>>] =
                        Over(Copy, disk[path])]
    BY <1>5 DEF CopyRest, Copy, TypesInv, UserInv
  <2>w. /\ disk'[<<UPLOAD_DIR, name>>] = Over(Copy, disk[path])
        /\ \A q \in Paths : q # <<UPLOAD_DIR, name>> => disk'[q] = disk[q]
    BY <1>p, <2>1, WriteAt DEF TypesInv
  <2>2. CASE name = n
    <3>1. disk'[copy] = magnet.hash
      BY <2>1, <2>w, <2>2 DEF CopyInv, Over, Copy
    <3>2. Shared(n, magnet.hash)
      BY <2>1, <2>2, GiftsAreShared
    <3>3. ASSUME NEW v, Shared(n, v) PROVE Kept(n, v)' /\ v = magnet.hash
      BY <3>1, <3>2, <3>3, OneContent DEF Kept
    <3>4. CopyInv(n)'
      <4>1. Kept(n, magnet.hash)'
        BY <2>1, <3>1 DEF Kept
      <4>2. offer.state \in {"open", "told"} /\ offer.name = n =>
                offer.content = magnet.hash
        BY <1>g, <3>3
      <4> QED
        BY <1>o, <2>1, <2>2, <3>1, <4>1, <4>2 DEF CopyInv, Kept, name
    <3> QED
      BY <3>3, <3>4 DEF CopyStays
  <2>3. CASE name # n
    <3>1. disk'[copy] = disk[copy]
      BY <1>p, <2>w, <2>1, <2>3
    <3> QED
      BY <1>o, <2>1, <2>3, <3>1, CopyUntouched
  <2> QED
    BY <2>2, <2>3
<1>6. CASE SaveLink
  <2>1. /\ name \in Names /\ cli = "save" /\ cli' = "menu"
    BY <1>6 DEF SaveLink, UploadReturns, TypesInv, UserInv
  <2>2. disk'[copy] = disk[copy]
    <3>1. PICK p \in Paths : p = <<UPLOAD_DIR, LinkOf[name]>> /\ p # copy
      BY <1>p, <2>1
    <3>2. ASSUME NEW v, disk' = [disk EXCEPT ![p] = v]
          PROVE  disk'[copy] = disk[copy]
      BY <1>p, <3>1, <3>2, WriteAt DEF TypesInv
    <3> QED
      BY <1>6, <3>1, <3>2 DEF SaveLink
  <2> QED
    BY <1>o, <2>1, <2>2, CopyUntouched
<1> QED
  BY <1>1, <1>2, <1>3, <1>4, <1>5, <1>6, <1>7 DEF CliStep

LEMMA CopyStepOfOthers ==
    ASSUME TypesInv, NEW n \in Names, Clean(n), Clean(n)', CopyInv(n),
           UNCHANGED <<cli, path, magnet>>,
           \/ \E m \in Names, v \in Contents : OthersUpload(m, v) \/ Edit(m, v)
           \/ PutOpens \/ PutRefused \/ PutEnds \/ PutIsCut \/ StoreArrives
    PROVE  CopyStays(n)
<1> DEFINE copy == <<UPLOAD_DIR, n>>
<1>p. copy \in Paths
  BY PathFacts
<1>u. /\ cli \in {"copy", "copying"} => path \in Paths /\ disk[path] \in Data
      /\ cli \in {"copying", "asked"} /\ name = n => Shared(n, magnet.hash)
      /\ cli \in {"copy", "copying"} => name \in Names
  BY GiftsAreShared DEF TypesInv, UserInv
<1>1. ASSUME NEW m \in Names, NEW v \in Contents, OthersUpload(m, v)
      PROVE  CopyStays(n)
  <2>1. PICK p \in Paths : p = <<Here, LinkOf[m]>>
    BY PathFacts
  <2>2. \A q \in Paths : q # p => disk'[q] = disk[q]
    BY <1>1, <2>1, WriteAt DEF TypesInv, OthersUpload
  <2>3. p # copy
    BY <2>1, PathFacts
  <2>4. cli \in {"copy", "copying"} => path # p
    BY <1>u, <2>1, PathFacts DEF name
  <2>5. offer.state # "open" /\ offer'.state \in {"put", "store"}
    BY <1>1 DEF OthersUpload
  <2> QED
    BY <1>p, <1>u, <2>2, <2>3, <2>4, <2>5, CopyUntouched
<1>2. ASSUME NEW m \in Names, NEW v \in Contents, Edit(m, v)
      PROVE  CopyStays(n)
  <2>1. PICK p \in Paths : p = <<Here, m>>
    BY PathFacts
  <2>2. \A q \in Paths : q # p => disk'[q] = disk[q]
    BY <1>2, <2>1, WriteAt DEF TypesInv, Edit
  <2>3. p # copy
    BY <2>1, PathFacts
  <2>4. cli \in {"copy", "copying"} /\ name = n => path # p
    <3> SUFFICES ASSUME cli \in {"copy", "copying"}, path = p, name = n
                 PROVE  FALSE
      OBVIOUS
    <3>1. m = n
      BY <2>1 DEF name
    <3>2. <<"us", n>> \in spoiled'
      BY <1>2, <2>1, <3>1 DEF Edit, Spoil
    <3> QED
      BY <3>2 DEF Clean
  <2>5. offer' = offer
    BY <1>2 DEF Edit, offerVars
  <2> QED
    BY <1>p, <1>u, <2>2, <2>3, <2>4, <2>5, CopyUntouched
<1>3. CASE PutOpens
  <2>1. /\ offer.state = "put" /\ offer'.state = "open"
        /\ offer'.name = offer.name /\ offer.name \in Names
    BY <1>3 DEF PutOpens, PutArrives, TypesInv, OthersInv
  <2>2. PICK p \in Paths : p = <<UPLOAD_DIR, offer.name>>
    BY <2>1, PathFacts
  <2>3. disk'[p] = Empty /\ \A q \in Paths : q # p => disk'[q] = disk[q]
    BY <1>3, <2>2, WriteAt DEF TypesInv, PutOpens
  <2>4. CASE offer.name = n
    <3>1. disk'[copy] = Empty
      BY <2>2, <2>3, <2>4
    <3>2. \A v : Kept(n, v)'
      BY <2>1, <2>4, <3>1 DEF Kept
    <3>3. cli \in {"copy", "copying"} /\ name = n /\ path # Copy =>
              disk'[path] = disk[path]
      BY <1>u, <2>2, <2>3, <2>4 DEF Copy
    <3>4. CopyInv(n)'
      BY <2>1, <3>1, <3>2, <3>3 DEF CopyInv, name, Copy
    <3> QED
      BY <3>2, <3>4 DEF CopyStays
  <2>5. CASE offer.name # n
    <3>1. disk'[copy] = disk[copy]
      BY <1>p, <2>2, <2>3, <2>5
    <3>2. cli \in {"copy", "copying"} /\ name = n => disk'[path] = disk[path]
      BY <1>u, <2>2, <2>3, <2>5 DEF name
    <3>3. ASSUME NEW v, Kept(n, v) PROVE Kept(n, v)'
      BY <2>1, <2>5, <3>1, <3>3 DEF Kept, name
    <3>4. CopyInv(n)'
      BY <2>1, <2>5, <3>1, <3>2, <3>3 DEF CopyInv, name, Copy
    <3> QED
      BY <3>3, <3>4 DEF CopyStays
  <2> QED
    BY <2>4, <2>5
<1>4. CASE PutEnds
  <2>1. /\ offer.state = "open" /\ offer'.state \in {"told", "store"}
        /\ offer'.name = offer.name /\ offer'.content = offer.content
        /\ offer.name \in Names
        /\ Gift("others", offer.name, offer.content) \in given
    BY <1>4 DEF PutEnds, PutIsOver, TypesInv, OthersInv
  <2>2. PICK p \in Paths : p = <<UPLOAD_DIR, offer.name>>
    BY <2>1, PathFacts
  <2>3. /\ disk'[p] = Over(p, offer.content)
        /\ \A q \in Paths : q # p => disk'[q] = disk[q]
    <3>1. PICK v : v = Over(p, offer.content)
      OBVIOUS
    <3>2. disk' = [disk EXCEPT ![p] = v]
      BY <1>4, <2>2, <3>1 DEF PutEnds
    <3> QED
      BY <3>1, <3>2, WriteAt DEF TypesInv
  <2>4. CASE offer.name = n
    <3>1. disk'[copy] = offer.content
      BY <2>1, <2>2, <2>3, <2>4 DEF CopyInv, Over
    <3>2. Shared(n, offer.content)
      BY <2>1, <2>4, GiftsAreShared
    <3>3. ASSUME NEW v, Shared(n, v) PROVE Kept(n, v)' /\ v = offer.content
      BY <3>1, <3>2, <3>3, OneContent DEF Kept
    <3>4. cli \in {"copy", "copying"} /\ name = n /\ path # Copy =>
              disk'[path] = disk[path]
      BY <1>u, <2>2, <2>3, <2>4 DEF Copy
    <3>5. /\ cli \in {"copying", "asked"} /\ name = n =>
                 magnet.hash = offer.content
          /\ Kept(n, offer.content)'
      <4>1. cli \in {"copying", "asked"} /\ name = n =>
                magnet.hash = offer.content
        BY <1>u, <3>3
      <4>2. Kept(n, offer.content)'
        BY <2>1, <3>1 DEF Kept
      <4> QED
        BY <4>1, <4>2
    <3>6. CopyInv(n)'
      <4>1. /\ cli' = cli /\ path' = path /\ magnet' = magnet
            /\ name' = name /\ Copy' = Copy
        BY DEF name, Copy
      <4>2. cli = "copy" /\ name = n /\ path # Copy =>
                disk'[path] = magnet.hash
        BY <3>4 DEF CopyInv
      <4>3. cli = "copying" /\ name = n =>
                /\ path # Copy /\ disk'[path] = magnet.hash
                /\ disk'[copy] = magnet.hash
        BY <3>1, <3>4, <3>5 DEF CopyInv
      <4>4. cli = "asked" /\ name = n => Kept(n, magnet.hash)'
        BY <2>1, <3>1, <3>5 DEF Kept
      <4>5. ~(offer'.state = "open") /\ Kept(n, offer.content)'
        BY <2>1, <3>5
      <4> QED
        BY <3>1, <4>1, <4>2, <4>3, <4>4, <4>5 DEF CopyInv
    <3> QED
      BY <3>3, <3>6 DEF CopyStays
  <2>5. CASE offer.name # n
    <3>1. disk'[copy] = disk[copy]
      BY <1>p, <2>2, <2>3, <2>5
    <3>2. cli \in {"copy", "copying"} /\ name = n => disk'[path] = disk[path]
      BY <1>u, <2>2, <2>3, <2>5 DEF name
    <3>3. ASSUME NEW v, Kept(n, v) PROVE Kept(n, v)'
      BY <2>1, <2>5, <3>1, <3>3 DEF Kept, name
    <3>4. CopyInv(n)'
      BY <2>1, <2>5, <3>1, <3>2, <3>3 DEF CopyInv, name, Copy
    <3> QED
      BY <3>3, <3>4 DEF CopyStays
  <2> QED
    BY <2>4, <2>5
<1>5. CASE PutRefused \/ PutIsCut
  <2>1. /\ offer.name \in Names /\ offer.name # n /\ offer'.name = offer.name
    BY <1>5 DEF PutRefused, PutArrives, PutIsCut, PutIsOver, Spoil, Clean,
                TypesInv, OthersInv
  <2>2. PICK p \in Paths : p = <<UPLOAD_DIR, offer.name>>
    BY <2>1, PathFacts
  <2>3. disk' = disk \/ \E v : disk' = [disk EXCEPT ![p] = v]
    BY <1>5, <2>2 DEF PutRefused, PutIsCut
  <2>4. \A q \in Paths : q # p => disk'[q] = disk[q]
    BY <2>3, WriteAt DEF TypesInv
  <2>5. p # copy /\ (name = n => path # p)
    BY <2>1, <2>2 DEF name
  <2> QED
    BY <1>p, <1>u, <2>1, <2>4, <2>5, CopyUntouched
<1>6. CASE StoreArrives
  <2>1. /\ disk' = disk /\ offer.state # "open" /\ offer'.state = "none"
    BY <1>6 DEF StoreArrives, NoOffer
  <2>2. disk'[copy] = disk[copy] /\ disk'[path] = disk[path]
    BY <2>1
  <2> QED
    BY <2>1, <2>2, CopyUntouched
<1> QED
  BY <1>1, <1>2, <1>3, <1>4, <1>5, <1>6

LEMMA CopyStep ==
    ASSUME TypesInv, CopiesInv, [Next]_vars, NEW n \in Names, Clean(n)'
    PROVE  CopyStays(n)
<1>0. Clean(n) /\ CopyInv(n)
  BY CleanPersists DEF CopiesInv
<1> DEFINE copy == <<UPLOAD_DIR, n>>
           Uploading == {"copy", "copying", "asked"}
<1>a. ASSUME cli # "copying", cli' \notin Uploading, UNCHANGED <<disk, offer>>
      PROVE  CopyStays(n)
  BY <1>0, <1>a, CopyUntouched
<1>1. ASSUME NEW c \in 1..4, Choose(c) PROVE CopyStays(n)
  <2>1. cli' \in {"status", "upload?", "download?", "ended"}
    BY <1>1 DEF Choose
  <2> QED
    BY <1>1, <1>a, <2>1 DEF Choose, offerVars
<1>2. ASSUME NEW p \in Paths, ReadPath(p) \/ ReadLink(p) PROVE CopyStays(n)
  BY <1>2, <1>a DEF ReadPath, ReadLink, offerVars
<1>3. CASE NoInput \/ StatusShown
  BY <1>3, <1>a DEF NoInput, StatusShown, offerVars
<1>4. CASE CliStep
  BY <1>0, <1>4, CopyStepOfUser
<1>5. CASE UploadAnswered
  <2>1. cli' \in {"save", "menu"}
    BY <1>5 DEF UploadAnswered, UploadFails, Replicate, UploadReturns
  <2> QED
    BY <1>5, <1>a, <2>1 DEF UploadAnswered, offerVars
<1>6. CASE DownloadAnswered \/ DownloadRetries \/ ServerCloses
  <2>1. /\ cli \in {"fetch", "retrying"} /\ cli' \in {"menu", "retrying"}
        /\ offer' = offer
    BY <1>6 DEF DownloadAnswered, DownloadRetries, OthersAreAsked,
                ServerCloses, offerVars
  <2>2. disk'[copy] = disk[copy]
    <3>1. disk' = disk \/ \E v : Downloaded(v)
      BY <1>6 DEF DownloadAnswered, DownloadRetries, ServerCloses, FromOthers
    <3>2. ASSUME NEW v, Downloaded(v)
          PROVE  disk'[copy] = disk[copy]
      <4>1. magnet.name \in Names
        BY <2>1, LinkFacts DEF TypesInv, UserInv
      <4>2. PICK p \in Paths : p = <<DOWNLOAD_DIR, magnet.name>>
        BY <4>1, PathFacts
      <4>3. \A q \in Paths : q # p => disk'[q] = disk[q]
        BY <3>2, <4>2, WriteAt DEF TypesInv, Downloaded
      <4> QED
        BY <4>2, <4>3, PathFacts
    <3> QED
      BY <3>1, <3>2
  <2> QED
    BY <1>0, <2>1, <2>2, CopyUntouched
<1>7. CASE \/ \E m \in Names, v \in Contents : OthersUpload(m, v) \/ Edit(m, v)
           \/ PutOpens \/ PutRefused \/ PutEnds \/ PutIsCut \/ StoreArrives
  <2>1. UNCHANGED <<cli, path, magnet>>
    BY <1>7 DEF OthersUpload, Edit, PutOpens, PutRefused, PutEnds, PutIsCut,
                StoreArrives, userVars
  <2> QED
    BY <1>0, <1>7, <2>1, CopyStepOfOthers
<1>8. CASE UNCHANGED vars
  BY <1>0, <1>8, CopyUntouched DEF vars, userVars, offerVars
<1> QED
  BY <1>1, <1>2, <1>3, <1>4, <1>5, <1>6, <1>7, <1>8 DEF Next, ThreadAnswers

LEMMA CopiesStep == TypesInv /\ CopiesInv /\ [Next]_vars => CopiesInv'
BY CopyStep DEF CopiesInv, CopyStays

(* We become an owner by an upload whose copy has been made, or by a STORE *)
(* that follows the PUT of the copy.                                       *)
LEMMA OwnedStep ==
    TypesInv /\ CopiesInv /\ OwnedInv /\ [Next]_vars => OwnedInv'
<1> DEFINE Backed(v) ==
               \E n \in Names : Shared(n, v) /\ (Clean(n) => Kept(n, v))
<1> SUFFICES ASSUME TypesInv, CopiesInv, OwnedInv, [Next]_vars,
                    NEW v \in Data, "us" \in stored'[v]
             PROVE  Backed(v)'
  BY DEF OwnedInv
<1>1. ASSUME Backed(v) PROVE Backed(v)'
  <2>1. PICK n \in Names : Shared(n, v) /\ (Clean(n) => Kept(n, v))
    BY <1>1
  <2>2. Shared(n, v)'
    BY <2>1, HistoryGrows DEF Shared
  <2>3. Clean(n)' => Kept(n, v)'
    BY <2>1, CleanPersists, CopyStep DEF CopyStays
  <2> QED
    BY <2>2, <2>3
<1>2. CASE "us" \in stored[v]
  BY <1>1, <1>2 DEF OwnedInv
<1>3. CASE UploadAnswered /\ v = magnet.hash
  <2>1. /\ name \in Names /\ cli = "asked"
        /\ Gift("us", name, magnet.hash) \in given
    BY <1>3 DEF UploadAnswered, TypesInv, UserInv
  <2>2. Clean(name) => Kept(name, v)
    BY <1>3, <2>1 DEF CopiesInv, CopyInv
  <2> QED
    BY <1>1, <1>3, <2>1, <2>2, GiftsAreShared
<1>4. CASE /\ StoreArrives /\ offer.state = "told" /\ v = offer.content
  <2>1. /\ offer.name \in Names
        /\ Gift("others", offer.name, offer.content) \in given
    BY <1>4 DEF TypesInv, OthersInv
  <2>2. Clean(offer.name) => Kept(offer.name, v)
    BY <1>4, <2>1 DEF CopiesInv, CopyInv
  <2> QED
    BY <1>1, <1>4, <2>1, <2>2, GiftsAreShared
<1>5. ASSUME "us" \notin stored[v]
      PROVE  \/ UploadAnswered /\ v = magnet.hash
             \/ StoreArrives /\ offer.state = "told" /\ v = offer.content
  <2>1. stored' # stored
    BY <1>5
  <2>2. UploadAnswered \/ StoreArrives
    BY <2>1 DEF Next, CliStep, ThreadAnswers, Choose, NoInput, ReadPath,
       ReadLink, Hash, HashFails, NoUploadDirectory, CopyOpens, CopyFails,
       CopyRest, SaveLink, StatusShown, DownloadAnswered, DownloadRetries,
       ServerCloses, OthersUpload, Edit, PutOpens, PutRefused, PutEnds,
       PutIsCut, vars, storeVars
  <2>3. stored \in [Data -> SUBSET {"us", "others"}]
    BY DEF TypesInv, OthersInv
  <2>4. CASE UploadAnswered
    BY <1>5, <2>3, <2>4 DEF UploadAnswered, BecomeOwner
  <2>5. CASE StoreArrives
    BY <1>5, <2>3, <2>5 DEF StoreArrives
  <2> QED
    BY <2>2, <2>4, <2>5
<1> QED
  BY <1>2, <1>3, <1>4, <1>5

(* Whatever we are listed as an owner of is among our copies whenever a    *)
(* download of it would find us there, as long as each name is used for    *)
(* one file, and its copy unharmed.                                        *)
THEOREM OwnedFilesAreHere == Spec => []OwnedAreHere
<1>1. Init => CopiesInv /\ OwnedInv
  <2> SUFFICES ASSUME Init PROVE CopiesInv /\ OwnedInv
    OBVIOUS
  <2>1. cli \in {"menu", "headless"} /\ offer.state = "none"
    BY DEF Init, NoOffer
  <2>2. \A v \in Data : stored[v] = {}
    BY DEF Init
  <2> QED
    BY <2>1, <2>2 DEF CopiesInv, CopyInv, OwnedInv
<1>2. OwnedInv => OwnedAreHere
  <2> SUFFICES ASSUME OwnedInv, cli \in {"menu", "fetch"}, offer.state # "open",
                      NEW v \in Data, "us" \in stored[v]
               PROVE  \E g \in given :
                          /\ g.content = v
                          /\ Clean(g.name) => disk[<<UPLOAD_DIR, g.name>>] = v
    BY DEF OwnedAreHere
  <2>1. PICK n \in Names : Shared(n, v) /\ (Clean(n) => Kept(n, v))
    BY DEF OwnedInv
  <2>2. PICK g \in given : g.name = n /\ g.content = v
    BY <2>1 DEF Shared
  <2>3. Clean(n) => disk[<<UPLOAD_DIR, n>>] = v
    BY <2>1 DEF Kept
  <2> QED
    BY <2>2, <2>3
<1> QED
  BY <1>1, <1>2, CopiesStep, OwnedStep, InitialTypes, TypesStep, PTL DEF Spec
-----------------------------------------------------------------------------
(* What speaks for a content that the others hold under a name.            *)
Vouched(x, w) ==
    \E g \in given :
        /\ InRequest[g.name] = InRequest[x]
        /\ \/ g.content = w
           \/ Harmed(g.name)
           \/ \E h \in given : h.name = g.name /\ h.content # g.content

LEMMA VouchedPersists ==
    ASSUME [Next]_vars, NEW x, NEW w, Vouched(x, w)
    PROVE  Vouched(x, w)'
BY HistoryGrows DEF Vouched, Harmed

LEMMA HeldStep ==
    TypesInv /\ CopiesInv /\ HeldInv /\ [Next]_vars => HeldInv'
<1> SUFFICES ASSUME TypesInv, CopiesInv, HeldInv, [Next]_vars,
                    NEW x \in Names, held'[x] # Absent
             PROVE  Vouched(x, held[x])'
  BY DEF HeldInv, Vouched
<1>1. PICK w : w = held'[x]
  OBVIOUS
<1>0. ASSUME Vouched(x, w) PROVE Vouched(x, held[x])'
  <2>1. Vouched(x, w)'
    BY <1>0, VouchedPersists
  <2> QED
    BY <1>1, <2>1 DEF Vouched
<1>2. CASE held'[x] = held[x]
  BY <1>0, <1>1, <1>2 DEF HeldInv, Vouched
<1>h. held \in [Names -> Data \cup {Absent}]
  BY DEF TypesInv, OthersInv
(* A copy that has come to harm speaks for whatever the others hold.       *)
<1>s. ASSUME NEW m, NEW c, NEW who, Gift(who, m, c) \in given',
             <<"others", m>> \in spoiled', InRequest[m] = InRequest[x]
      PROVE  Vouched(x, held[x])'
  <2>1. Harmed(m)'
    BY <1>s DEF Harmed
  <2>2. PICK g \in given' : g = Gift(who, m, c)
    BY <1>s
  <2>3. g.name = m
    BY <2>2 DEF Gift
  <2> QED
    BY <1>s, <2>1, <2>3 DEF Vouched
<1>3. ASSUME NEW n \in Names, NEW v \in Contents, OthersUpload(n, v),
             held'[x] # held[x]
      PROVE  Vouched(x, held[x])'
  <2>1. x = n /\ Gift("others", x, v) \in given'
    BY <1>h, <1>3 DEF OthersUpload
  <2>2. CASE held'[x] = v
    <3>1. Vouched(x, v)'
      BY <2>1 DEF Vouched, Gift
    <3> QED
      BY <2>2, <3>1 DEF Vouched
  <2>3. CASE held'[x] # v
    <3>1. <<"others", x>> \in spoiled'
      BY <1>h, <1>3, <2>1, <2>3 DEF OthersUpload, Spoil
    <3> QED
      BY <1>s, <2>1, <3>1
  <2> QED
    BY <2>2, <2>3
<1>4. CASE UploadAnswered /\ held'[x] # held[x]
  <2>1. /\ cli = "asked" /\ name \in Names /\ offer.state # "open"
        /\ Gift("us", name, magnet.hash) \in given
    BY <1>4 DEF UploadAnswered, TypesInv, UserInv
  <2>r. Replicate
    BY <1>4 DEF UploadAnswered, UploadFails
  <2>2. x = InRequest[name]
    BY <1>h, <2>r, <1>4 DEF Replicate
  <2>3. InRequest[name] = InRequest[x]
    BY <2>1, <2>2, CommandLineAssumption
  <2>4. PICK m, c : m = name /\ c = magnet.hash
    OBVIOUS
  <2>5. PICK g \in given : g = Gift("us", m, c)
    BY <2>1, <2>4
  <2>6. g.name = m /\ g.content = c
    BY <2>5 DEF Gift
  <2>p. CASE w # disk[Copy]
    <3>1. <<"others", name>> \in spoiled'
      BY <1>h, <1>1, <1>4, <2>r, <2>2, <2>p DEF Replicate, Spoil
    <3>2. Gift("us", m, c) \in given'
      BY <2>1, <2>4, HistoryGrows
    <3> QED
      BY <1>s, <2>3, <2>4, <3>1, <3>2
  <2>7. CASE w = disk[Copy] /\ Clean(name)
    <3>1. w = c
      BY <2>1, <2>4, <2>7 DEF CopiesInv, CopyInv, Kept, Copy
    <3>2. Vouched(x, w)
      BY <2>3, <2>4, <2>6, <3>1 DEF Vouched
    <3> QED
      BY <1>0, <3>2
  <2>8. CASE <<"us", name>> \in spoiled
    <3>1. Harmed(m)
      BY <2>4, <2>8 DEF Harmed
    <3>2. Vouched(x, w)
      BY <2>3, <2>4, <2>6, <3>1 DEF Vouched
    <3> QED
      BY <1>0, <3>2
  <2>9. ASSUME NEW f \in given, NEW e \in given, f.name = name, e.name = name,
               f.content # e.content
        PROVE  Vouched(x, held[x])'
    <3>1. Vouched(x, w)
      BY <2>3, <2>9 DEF Vouched
    <3> QED
      BY <1>0, <3>1
  <2> QED
    BY <2>p, <2>7, <2>8, <2>9 DEF Clean
<1>5. ASSUME held' # held
      PROVE  \/ \E n \in Names, v \in Contents : OthersUpload(n, v)
             \/ UploadAnswered
  BY <1>5 DEF Next, CliStep, ThreadAnswers, Choose, NoInput, ReadPath,
     ReadLink, Hash, HashFails, NoUploadDirectory, CopyOpens, CopyFails,
     CopyRest, SaveLink, StatusShown, DownloadAnswered, DownloadRetries,
     ServerCloses, Edit, PutOpens, PutRefused, PutEnds, PutIsCut,
     StoreArrives, vars, storeVars
<1> QED
  BY <1>2, <1>3, <1>4, <1>5

(* While the outcome of a download stands, nobody writes to the directory  *)
(* of the downloads.                                                       *)
LEMMA DownloadsStay ==
    ASSUME TypesInv, brought # "nothing", [Next]_vars, NEW n \in Names
    PROVE  /\ disk'[<<DOWNLOAD_DIR, n>>] = disk[<<DOWNLOAD_DIR, n>>]
           /\ brought' # "nothing" => magnet' = magnet /\ brought' = brought
<1> DEFINE file == <<DOWNLOAD_DIR, n>>
<1>0. cli \in {"menu", "status", "ended"} /\ file \in Paths
  BY PathFacts DEF TypesInv, UserInv
<1>1. ASSUME NEW d \in {Here, UPLOAD_DIR}, NEW f \in FileNames, NEW v,
             disk' = [disk EXCEPT ![<<d, f>>] = v]
      PROVE  disk'[file] = disk[file]
  <2>1. PICK p \in Paths : p = <<d, f>> /\ p # file
    BY <1>1, PathFacts
  <2> QED
    BY <1>0, <1>1, <2>1, WriteAt DEF TypesInv
<1>2. ASSUME NEW c \in 1..4, Choose(c)
      PROVE  /\ disk' = disk
             /\ brought' # "nothing" => magnet' = magnet /\ brought' = brought
  BY <1>2 DEF Choose
<1>3. ASSUME NEW m \in Names, NEW v \in Contents, OthersUpload(m, v)
      PROVE  disk'[file] = disk[file] /\ magnet' = magnet /\ brought' = brought
  BY <1>1, <1>3, PathFacts DEF OthersUpload, userVars
<1>4. ASSUME NEW m \in Names, NEW v \in Contents, Edit(m, v)
      PROVE  disk'[file] = disk[file] /\ magnet' = magnet /\ brought' = brought
  BY <1>1, <1>4, PathFacts DEF Edit
<1>5. ASSUME PutOpens \/ PutEnds \/ PutIsCut
      PROVE  disk'[file] = disk[file] /\ magnet' = magnet /\ brought' = brought
  <2>1. /\ offer.name \in FileNames
        /\ \E v : disk' = [disk EXCEPT ![<<UPLOAD_DIR, offer.name>>] = v]
    BY <1>5, PathFacts DEF PutOpens, PutArrives, PutEnds, PutIsCut, TypesInv,
                           OthersInv
  <2>2. magnet' = magnet /\ brought' = brought
    BY <1>5 DEF PutOpens, PutEnds, PutIsCut, userVars, historyVars
  <2>3. PICK f \in FileNames : f = offer.name
    BY <2>1
  <2>4. PICK v : disk' = [disk EXCEPT ![<<UPLOAD_DIR, f>>] = v]
    BY <2>1, <2>3
  <2> QED
    BY <1>1, <2>2, <2>4
<1>6. ASSUME StatusShown \/ PutRefused \/ StoreArrives \/ UNCHANGED vars
      PROVE  disk' = disk /\ magnet' = magnet /\ brought' = brought
  BY <1>6 DEF StatusShown, PutRefused, StoreArrives, vars, userVars, historyVars
<1>7. ASSUME \/ NoInput \/ CliStep \/ UploadAnswered \/ DownloadAnswered
             \/ DownloadRetries \/ ServerCloses
             \/ \E p \in Paths : ReadPath(p) \/ ReadLink(p)
      PROVE  FALSE
  BY <1>0, <1>7 DEF NoInput, CliStep, Hash, HashFails, NoUploadDirectory,
     CopyOpens, CopyFails, CopyRest, SaveLink, UploadAnswered,
     DownloadAnswered, DownloadRetries, OthersAreAsked, ServerCloses,
     ReadPath, ReadLink
<1> QED
  BY <1>2, <1>3, <1>4, <1>5, <1>6, <1>7 DEF Next, ThreadAnswers

(* The names under which something else, or a harmed copy, was shared.     *)
Misleading(n, v) ==
    \E g \in given : /\ InRequest[g.name] = InRequest[n]
                     /\ g.content # v \/ Harmed(g.name)

(* A file that the others hold is the one asked for, or the name misleads. *)
LEMMA HeldIsLinked ==
    ASSUME HeldInv, NEW n \in Names, NEW v,
           held[InRequest[n]] # Absent, ~Misleading(n, v)
    PROVE  held[InRequest[n]] = v
<1>1. InRequest[n] \in Names /\ InRequest[InRequest[n]] = InRequest[n]
  BY CommandLineAssumption
<1>2. Vouched(InRequest[n], held[InRequest[n]])
  BY <1>1 DEF HeldInv, Vouched
<1>3. PICK g \in given :
          /\ InRequest[g.name] = InRequest[n]
          /\ \/ g.content = held[InRequest[n]]
             \/ Harmed(g.name)
             \/ \E h \in given : h.name = g.name /\ h.content # g.content
  BY <1>1, <1>2 DEF Vouched
<1> QED
  BY <1>3 DEF Misleading

LEMMA BroughtStep ==
    /\ TypesInv /\ HeldInv /\ DownloadBringsTheLinked /\ [Next]_vars
    => DownloadBringsTheLinked'
<1> SUFFICES ASSUME TypesInv, HeldInv, DownloadBringsTheLinked, [Next]_vars,
                    brought' # "nothing", brought' # "part"
             PROVE  \/ disk'[<<DOWNLOAD_DIR, magnet'.name>>] = magnet'.hash
                    \/ Misleading(magnet.name, magnet.hash)'
  BY DEF DownloadBringsTheLinked, Misleading, Harmed
<1>1. CASE brought # "nothing"
  <2>1. magnet.name \in Names
    BY <1>1, LinkFacts DEF TypesInv, UserInv
  <2>2. PICK n \in Names : n = magnet.name
    BY <2>1
  <2>3. PICK v : v = magnet.hash
    OBVIOUS
  <2>4. magnet'.name = n /\ magnet'.hash = v
    BY <1>1, <2>2, <2>3, DownloadsStay
  <2>5. disk[<<DOWNLOAD_DIR, n>>] = v \/ Misleading(n, v)
    <3>1. brought # "part"
      BY <1>1, DownloadsStay, <2>2
    <3> QED
      BY <1>1, <2>2, <2>3, <3>1 DEF DownloadBringsTheLinked, Misleading, Harmed
  <2>6. disk'[<<DOWNLOAD_DIR, n>>] = disk[<<DOWNLOAD_DIR, n>>]
    BY <1>1, DownloadsStay
  <2>7. Misleading(n, v) => Misleading(magnet.name, magnet.hash)'
    BY <2>4, HistoryGrows DEF Misleading, Harmed
  <2> QED
    BY <2>4, <2>5, <2>6, <2>7
<1>2. CASE brought = "nothing"
  <2>1. DownloadAnswered
    BY <1>2 DEF Next, CliStep, ThreadAnswers, Choose, NoInput, ReadPath,
       ReadLink, Hash, HashFails, NoUploadDirectory, CopyOpens, CopyFails,
       CopyRest, SaveLink, StatusShown, UploadAnswered, DownloadRetries,
       ServerCloses, OthersUpload, Edit, PutOpens, PutRefused, PutEnds,
       PutIsCut, StoreArrives, vars, historyVars
  <2>2. FromOthers /\ magnet' = magnet
    BY <1>2, <2>1 DEF DownloadAnswered
  <2>3. magnet.name \in Names
    BY <2>1, LinkFacts DEF DownloadAnswered, TypesInv, UserInv
  <2>4. PICK n \in Names : n = magnet.name
    BY <2>3
  <2>5. PICK file, v : file = held[InRequest[n]] /\ v = magnet.hash
    OBVIOUS
  <2>6. /\ file # Absent
        /\ disk' = [disk EXCEPT ![<<DOWNLOAD_DIR, n>>] = file]
    BY <2>2, <2>4, <2>5 DEF FromOthers, Downloaded
  <2>7. disk'[<<DOWNLOAD_DIR, n>>] = file
    <3>1. PICK p \in Paths : p = <<DOWNLOAD_DIR, n>>
      BY PathFacts
    <3> QED
      BY <2>6, <3>1, WriteAt DEF TypesInv
  <2>8. file = v \/ Misleading(n, v)
    BY <2>5, <2>6, HeldIsLinked
  <2>9. Misleading(n, v) => Misleading(magnet.name, magnet.hash)'
    BY <2>2, <2>4, <2>5, HistoryGrows DEF Misleading, Harmed
  <2> QED
    BY <2>2, <2>4, <2>5, <2>7, <2>8, <2>9
<1> QED
  BY <1>1, <1>2

(* A download brings the content whose hash is in its link, although it is *)
(* asked for by name: unless it was cut short and reported as success,     *)
(* something else was shared under a name that passes for it, or a copy of *)
(* it harmed.                                                              *)
THEOREM DownloadsBringTheLinked == Spec => []DownloadBringsTheLinked
<1>1. Init => CopiesInv /\ HeldInv /\ DownloadBringsTheLinked
  <2> SUFFICES ASSUME Init
               PROVE  CopiesInv /\ HeldInv /\ DownloadBringsTheLinked
    OBVIOUS
  <2>1. cli \in {"menu", "headless"} /\ offer.state = "none"
    BY DEF Init, NoOffer
  <2>2. brought = "nothing" /\ \A x \in Names : held[x] = Absent
    BY DEF Init
  <2> QED
    BY <2>1, <2>2
       DEF CopiesInv, CopyInv, HeldInv, DownloadBringsTheLinked
<1> QED
  BY <1>1, CopiesStep, HeldStep, BroughtStep, InitialTypes, TypesStep, PTL
     DEF Spec
=============================================================================
