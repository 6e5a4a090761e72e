------------------------ MODULE CommandQueue_proofs -------------------------
(***************************************************************************)
(* No interleaving of the callers with the network thread makes it touch a *)
(* command that was freed, or leaves one in the ring: for any number of    *)
(* callers and any length of the ring.                                     *)
(***************************************************************************)
EXTENDS CommandQueue, TLAPS

(* The slot of the n-th entry of a ring that begins at h, and the slot     *)
(* behind a slot.                                                          *)
Place(h, n) == (h + n - 1) % MAX_COMMANDS_PENDING

After(s) == (s + 1) % MAX_COMMANDS_PENDING

Entry(n) == items[Place(head, n)]

(* A call that is not executed yet and cannot go on before it is.          *)
InCall(f) ==
    pc[f] \in {"check", "waiting"} /\ alive[f] /\ ~executed[f] /\ ~done[f]

RingInv ==
    /\ tail = Place(head, count + 1)
    /\ \A n \in 1..count : Entry(n) \in Frontends /\ InCall(Entry(n))
    /\ \A m, n \in 1..count : Entry(m) = Entry(n) => m = n

(* What the network thread has in its hands.  From LockAndSetDone on the   *)
(* caller may be awake, but does not get past the lock.                    *)
ServedInv ==
    /\ p2p \in {"serve", "retrying", "complete", "signal", "unlock"} =>
           /\ cmd \in Frontends /\ alive[cmd]
           /\ pc[cmd] \in {"check", "waiting"}
    /\ p2p \in {"serve", "retrying"} =>
           /\ ~executed[cmd] /\ ~done[cmd]
           /\ \A n \in 1..count : Entry(n) # cmd
    /\ p2p = "retrying" => kind[cmd] # "nofile"
    /\ p2p = "complete" => executed[cmd] /\ ~done[cmd]
    /\ p2p \in {"signal", "unlock"} => executed[cmd] /\ locked[cmd]
    /\ p2p = "pop" => count > 0

CallsInv ==
    /\ \A f \in Frontends : pc[f] = "push" =>
           alive[f] /\ ~done[f] /\ ~executed[f]
    /\ \A f \in Frontends : pc[f] = "reading" => executed[f]
    /\ \A f \in Frontends : done[f] /\ pc[f] # "out" => executed[f]
    /\ stop = "down" => p2p = "exited"

CommandInv == CommandTypeOK /\ RingInv /\ ServedInv /\ CallsInv
-----------------------------------------------------------------------------
(* One turn around the ring at most.                                       *)
LEMMA Wrap ==
    ASSUME NEW N \in Nat \ {0}, NEW x \in 0..2*N-1
    PROVE  x % N = IF x < N THEN x ELSE x - N
<1>1. CASE x < N
  BY <1>1
<1>2. CASE x >= N
  BY <1>2
<1> QED
  BY <1>1, <1>2

LEMMA RingSlots ==
    /\ 0 \in Slots /\ MAX_COMMANDS_PENDING \in Nat \ {0}
    /\ \A h \in Slots : Place(h, 1) = h /\ After(h) \in Slots
    /\ \A h \in Slots, n \in 1..MAX_COMMANDS_PENDING :
           /\ Place(h, n) \in Slots
           /\ After(Place(h, n)) = Place(h, n + 1)
           /\ Place(After(h), n) = Place(h, n + 1)
    /\ \A h \in Slots, m, n \in 1..MAX_COMMANDS_PENDING :
           Place(h, m) = Place(h, n) => m = n
<1> DEFINE M == MAX_COMMANDS_PENDING
           W(x) == IF x < M THEN x ELSE x - M
<1>1. M \in Nat \ {0} /\ M \in Nat /\ M > 0 /\ Slots = 0..M-1
  BY CommandAssumption DEF Slots
<1>2. \A h, n : Place(h, n) = (h + n - 1) % M /\ After(h) = (h + 1) % M
  BY DEF Place, After
<1> HIDE DEF M
<1>3. \A x \in 0..2*M-1 : x % M = W(x) /\ W(x) \in 0..M-1
  BY <1>1, Wrap
<1>4. ASSUME NEW h \in Slots, NEW n \in 1..M+1
      PROVE  h + n - 1 \in 0..2*M-1 /\ h + 1 \in 0..2*M-1
  BY <1>1
<1>5. \A h \in Slots, n \in 1..M+1 :
          Place(h, n) = W(h + n - 1) /\ Place(h, n) \in Slots
  BY <1>1, <1>2, <1>3, <1>4
<1>6. \A h \in Slots : After(h) = W(h + 1) /\ After(h) \in Slots
  BY <1>1, <1>2, <1>3
<1>7. \A h \in Slots : Place(h, 1) = h
  BY <1>1, <1>5
<1>8. ASSUME NEW h \in Slots, NEW n \in 1..M
      PROVE  /\ After(Place(h, n)) = Place(h, n + 1)
             /\ Place(After(h), n) = Place(h, n + 1)
  <2>1. n \in 1..M+1 /\ n + 1 \in 1..M+1 /\ n \in Int /\ h \in Int
    BY <1>1
  <2>2. Place(h, n) \in Slots /\ Place(h, n) = W(h + n - 1)
    BY <1>5, <2>1
  <2>3. Place(h, n + 1) = W(h + (n + 1) - 1)
    BY <1>5, <2>1
  <2>4. After(Place(h, n)) = W(W(h + n - 1) + 1)
    BY <1>6, <2>2
  <2>5. Place(After(h), n) = W(W(h + 1) + n - 1)
    BY <1>5, <1>6, <2>1
  <2> QED
    BY <1>1, <2>1, <2>3, <2>4, <2>5
<1>9. ASSUME NEW h \in Slots, NEW m \in 1..M, NEW n \in 1..M,
             Place(h, m) = Place(h, n)
      PROVE  m = n
  <2>1. m \in 1..M+1 /\ n \in 1..M+1
    BY <1>1
  <2>2. W(h + m - 1) = W(h + n - 1)
    BY <1>5, <1>9, <2>1
  <2> QED
    BY <1>1, <2>2
<1>10. 0 \in Slots /\ \A n \in 1..M : n \in 1..M+1
  BY <1>1
<1> USE DEF M
<1> QED
  BY <1>1, <1>5, <1>6, <1>7, <1>8, <1>9, <1>10

(* The ring stays right when it is left alone and so are the calls in it.  *)
LEMMA RingLeftAlone ==
    ASSUME RingInv, UNCHANGED queueVars,
           \A n \in 1..count :
               Entry(n) \in Frontends /\ InCall(Entry(n)) => InCall(Entry(n))'
    PROVE  RingInv'
  BY DEF RingInv, queueVars, Entry
-----------------------------------------------------------------------------
LEMMA CommandInvInit == Init => CommandInv
<1> SUFFICES ASSUME Init PROVE CommandInv
  OBVIOUS
<1> USE DEF Init
<1>1. CommandTypeOK
  BY CommandAssumption, RingSlots DEF CommandTypeOK
<1>2. RingInv
  BY RingSlots DEF RingInv
<1>3. ServedInv /\ CallsInv
  BY DEF ServedInv, CallsInv
<1> QED
  BY <1>1, <1>2, <1>3 DEF CommandInv

(* What a frontend thread does.                                            *)
LEMMA CallStep ==
    ASSUME CommandInv, NEW f \in Frontends, NEW q \in Kinds, Call(f, q)
    PROVE  CommandInv'
<1> USE DEF CommandInv, Call
<1>1. CommandTypeOK'
  BY DEF CommandTypeOK, queueVars
<1>2. \A g \in Frontends : InCall(g) => InCall(g)'
  BY DEF InCall, CommandTypeOK
<1>3. RingInv'
  BY <1>2, RingLeftAlone DEF queueVars, Entry
<1>4. ServedInv'
  BY DEF ServedInv, CommandTypeOK, queueVars, Entry
<1>5. CallsInv'
  BY DEF CallsInv, CommandTypeOK
<1> QED
  BY <1>1, <1>3, <1>4, <1>5

(* Where the pushed entry goes, and that the others stay.                  *)
LEMMA PushedEntry ==
    ASSUME CommandInv, NEW f \in Frontends, Push(f),
           count # MAX_COMMANDS_PENDING
    PROVE  /\ count' = count + 1 /\ head' = head
           /\ tail' = Place(head, (count + 1) + 1) /\ tail' \in Slots
           /\ items' \in [Slots -> Frontends \cup {Nobody}]
           /\ \A n : n = count + 1 => Entry(n)' = f
           /\ \A n \in 1..count : Entry(n)' = Entry(n)
<1> USE DEF CommandInv
<1>1. /\ items' = [items EXCEPT ![tail] = f] /\ tail' = After(tail)
      /\ count' = count + 1 /\ head' = head
  BY DEF Push, After
<1>2. /\ head \in Slots /\ count \in 0..MAX_COMMANDS_PENDING
      /\ count + 1 \in 1..MAX_COMMANDS_PENDING
      /\ 1..count \subseteq 1..MAX_COMMANDS_PENDING
      /\ \A n \in 1..count : n # count + 1
  BY CommandAssumption DEF CommandTypeOK
<1>3. tail = Place(head, count + 1) /\ tail \in Slots
  BY DEF RingInv, CommandTypeOK
<1>4. tail' = Place(head, (count + 1) + 1) /\ tail' \in Slots
  BY <1>1, <1>2, <1>3, RingSlots
<1>5. \A n \in 1..count : Place(head, n) # tail /\ Place(head, n) \in Slots
  BY <1>2, <1>3, RingSlots
<1>6. items'[tail] = f /\ \A s \in Slots : s # tail => items'[s] = items[s]
  BY <1>1, <1>3 DEF CommandTypeOK
<1>7. items' \in [Slots -> Frontends \cup {Nobody}]
  BY <1>1 DEF CommandTypeOK
<1>8. \A n : n = count + 1 => Entry(n)' = f
  BY <1>1, <1>3, <1>6 DEF Entry
<1>9. \A n \in 1..count : Entry(n)' = Entry(n)
  BY <1>1, <1>5, <1>6 DEF Entry
<1> QED
  BY <1>1, <1>4, <1>7, <1>8, <1>9

LEMMA PushStep ==
    ASSUME CommandInv, NEW f \in Frontends, Push(f)
    PROVE  CommandInv'
<1> USE DEF CommandInv
<1>1. /\ pc[f] = "push" /\ pc' = [pc EXCEPT ![f] = "check"]
      /\ UNCHANGED <<commandVars, thread_running, stop, p2p, cmd, executed>>
  BY DEF Push
<1>2. InCall(f)' /\ \A g \in Frontends : InCall(g) => InCall(g)' /\ g # f
  BY <1>1 DEF InCall, CommandTypeOK, CallsInv, commandVars
<1>3. CallsInv'
  BY <1>1 DEF CallsInv, CommandTypeOK, commandVars
<1>4. \A n \in 1..count : Entry(n) # f
  BY <1>2 DEF RingInv
<1>5. p2p \in {"serve", "retrying", "complete", "signal", "unlock"} => cmd # f
  BY <1>1 DEF ServedInv
<1>6. CASE UNCHANGED queueVars
  <2>1. CommandTypeOK'
    BY <1>1, <1>6 DEF CommandTypeOK, queueVars, commandVars
  <2>2. UNCHANGED <<count, head, items>> /\ \A n \in 1..count : Entry(n)' = Entry(n)
    BY <1>6 DEF queueVars, Entry
  <2>3. RingInv'
    BY <1>2, <1>6, <2>2, RingLeftAlone DEF RingInv
  <2>4. ServedInv'
    BY <1>1, <2>2 DEF ServedInv, CommandTypeOK, commandVars
  <2> QED
    BY <1>3, <2>1, <2>3, <2>4
<1>7. CASE count # MAX_COMMANDS_PENDING
  <2>1. /\ count' = count + 1 /\ head' = head /\ tail' \in Slots
        /\ tail' = Place(head, (count + 1) + 1)
        /\ items' \in [Slots -> Frontends \cup {Nobody}]
        /\ \A n : n = count + 1 => Entry(n)' = f
        /\ \A n \in 1..count : Entry(n)' = Entry(n)
    BY <1>7, PushedEntry
  <2>2. /\ count + 1 \in 0..MAX_COMMANDS_PENDING /\ count + 1 > 0
        /\ \A n \in 1..count+1 : n \in 1..count \/ n = count + 1
    BY <1>7, CommandAssumption DEF CommandTypeOK
  <2>3. CommandTypeOK'
    BY <1>1, <2>1, <2>2 DEF CommandTypeOK, commandVars
  <2>4. RingInv'
    <3>1. \A n \in 1..count+1 : Entry(n)' \in Frontends /\ InCall(Entry(n))'
      BY <1>2, <2>1, <2>2 DEF RingInv
    <3>2. \A m, n \in 1..count+1 : Entry(m)' = Entry(n)' => m = n
      BY <1>4, <2>1, <2>2 DEF RingInv
    <3> QED
      BY <2>1, <3>1, <3>2 DEF RingInv, Place
  <2>5. ServedInv'
    <3>1. p2p \in {"serve", "retrying"} => \A n \in 1..count+1 : Entry(n)' # cmd
      BY <1>5, <2>1, <2>2 DEF ServedInv
    <3> QED
      BY <1>1, <1>5, <2>1, <2>2, <3>1
         DEF ServedInv, CommandTypeOK, commandVars
  <2> QED
    BY <1>3, <2>3, <2>4, <2>5
<1> QED
  BY <1>6, <1>7 DEF Push

LEMMA CheckStep ==
    ASSUME CommandInv, NEW f \in Frontends, Check(f) \/ SpuriousWakeup(f)
    PROVE  CommandInv'
<1> USE DEF CommandInv, Check, SpuriousWakeup
<1>1. CommandTypeOK'
  BY DEF CommandTypeOK, queueVars, commandVars
<1>2. \A g \in Frontends : InCall(g) => InCall(g)'
  BY DEF InCall, CommandTypeOK, commandVars
<1>3. UNCHANGED <<count, head, items>> /\ \A n \in 1..count : Entry(n)' = Entry(n)
  BY DEF queueVars, Entry
<1>4. RingInv'
  BY <1>2, <1>3, RingLeftAlone DEF RingInv
<1>5. ServedInv'
  <2>1. cmd' = cmd /\ p2p' = p2p /\ UNCHANGED commandVars /\ UNCHANGED executed
    BY DEF queueVars
  <2>2. p2p \in {"serve", "retrying", "complete", "signal", "unlock"} =>
            pc'[cmd] \in {"check", "waiting"}
    BY DEF ServedInv, CommandTypeOK
  <2> QED
    BY <1>3, <2>1, <2>2 DEF ServedInv, commandVars
<1>6. CallsInv'
  BY DEF CallsInv, CommandTypeOK, commandVars
<1> QED
  BY <1>1, <1>4, <1>5, <1>6

LEMMA FreeAndReturnStep ==
    ASSUME CommandInv, NEW f \in Frontends, FreeAndReturn(f)
    PROVE  CommandInv'
<1> USE DEF CommandInv, FreeAndReturn
<1>1. CommandTypeOK'
  BY DEF CommandTypeOK, queueVars
<1>2. \A g \in Frontends : InCall(g) => InCall(g)'
  BY DEF InCall, CommandTypeOK
<1>3. UNCHANGED <<count, head, items>> /\ \A n \in 1..count : Entry(n)' = Entry(n)
  BY DEF queueVars, Entry
<1>4. RingInv'
  BY <1>2, <1>3, RingLeftAlone DEF RingInv
<1>5. ServedInv'
  <2>1. cmd' = cmd /\ p2p' = p2p /\ UNCHANGED <<done, locked, executed>>
    BY DEF queueVars
  <2>2. p2p \in {"serve", "retrying", "complete", "signal", "unlock"} =>
            cmd # f /\ pc'[cmd] = pc[cmd] /\ alive'[cmd] = alive[cmd]
    BY DEF ServedInv, CommandTypeOK
  <2> QED
    BY <1>3, <2>1, <2>2 DEF ServedInv
<1>6. CallsInv'
  BY DEF CallsInv, CommandTypeOK
<1> QED
  BY <1>1, <1>4, <1>5, <1>6

(* Stopping: by the time the queue is reset the network thread is gone.    *)
LEMMA StopStep ==
    ASSUME CommandInv, RequestStop \/ JoinAndDestroy
    PROVE  CommandInv'
<1> USE DEF CommandInv
<1>1. CASE RequestStop
  <2> USE <1>1 DEF RequestStop
  <2>1. CommandTypeOK'
    BY DEF CommandTypeOK, queueVars, commandVars
  <2>2. UNCHANGED <<count, head, items>> /\ \A n \in 1..count : Entry(n)' = Entry(n)
    BY DEF queueVars, Entry
  <2>3. RingInv'
    BY <2>2, RingLeftAlone DEF RingInv, InCall, commandVars
  <2>4. ServedInv' /\ CallsInv'
    BY <2>2 DEF ServedInv, CallsInv, commandVars
  <2> QED
    BY <2>1, <2>3, <2>4
<1>2. CASE JoinAndDestroy
  <2> USE <1>2 DEF JoinAndDestroy
  <2>1. CommandTypeOK'
    BY RingSlots DEF CommandTypeOK, commandVars
  <2>2. RingInv'
    BY RingSlots DEF RingInv
  <2>3. ServedInv' /\ CallsInv'
    BY DEF ServedInv, CallsInv, commandVars
  <2> QED
    BY <2>1, <2>2, <2>3
<1> QED
  BY <1>1, <1>2
-----------------------------------------------------------------------------
(* What the network thread does between two commands.                      *)
LEMMA RoundStep ==
    ASSUME CommandInv,
           LoopTest \/ PendingTest \/ SkipNoFile \/ NetworkRound \/ PeerGoesOn
    PROVE  CommandInv'
<1> USE DEF CommandInv
<1>1. UNCHANGED <<queueVars, commandVars, pc, thread_running, stop, cmd, executed>>
  BY DEF LoopTest, PendingTest, SkipNoFile, NetworkRound, PeerGoesOn
<1>2. /\ p2p' \in {"pending", "exited", "pop", "network", "loop", "stalled"}
      /\ p2p' = "pop" => count > 0
      /\ p2p # "exited"
  BY DEF LoopTest, PendingTest, SkipNoFile, NetworkRound, PeerGoesOn
<1>3. CommandTypeOK'
  BY <1>1, <1>2 DEF CommandTypeOK, queueVars, commandVars
<1>4. UNCHANGED <<count, head, items>> /\ \A n \in 1..count : Entry(n)' = Entry(n)
  BY <1>1 DEF queueVars, Entry
<1>5. RingInv'
  BY <1>1, <1>4, RingLeftAlone DEF RingInv, InCall, commandVars
<1>6. ServedInv'
  BY <1>1, <1>2, <1>4 DEF ServedInv
<1>7. CallsInv'
  BY <1>1, <1>2 DEF CallsInv, commandVars
<1> QED
  BY <1>3, <1>5, <1>6, <1>7

(* The pop yields the oldest entry, and the others move up by one.         *)
LEMMA PoppedEntry ==
    ASSUME CommandInv, Pop
    PROVE  /\ count > 0 /\ count \in 1..MAX_COMMANDS_PENDING
           /\ cmd' = Entry(1) /\ cmd' \in Frontends /\ InCall(cmd')
           /\ count' = count - 1 /\ head' \in Slots /\ tail' = Place(head', count)
           /\ \A n \in 1..count-1 : n + 1 \in 1..count /\ n + 1 # 1
           /\ \A n \in 1..count-1 : Entry(n)' = Entry(n + 1)
<1> USE DEF CommandInv
<1>1. /\ count > 0 /\ cmd' = items[head] /\ head' = After(head)
      /\ count' = count - 1 /\ UNCHANGED <<items, tail>>
  BY DEF Pop, ServedInv, CommandTypeOK, After
<1>2. /\ head \in Slots /\ count \in 1..MAX_COMMANDS_PENDING /\ 1 \in 1..count
      /\ \A n \in 1..count-1 : /\ n \in 1..MAX_COMMANDS_PENDING
                               /\ n + 1 \in 1..count /\ n + 1 # 1
  BY <1>1, CommandAssumption DEF CommandTypeOK
<1>3. head' \in Slots /\ Place(head, 1) = head
  BY <1>1, <1>2, RingSlots
<1>4. cmd' = Entry(1) /\ cmd' \in Frontends /\ InCall(cmd')
  BY <1>1, <1>2, <1>3 DEF Entry, RingInv
<1>5. \A n \in 1..count-1 : Entry(n)' = Entry(n + 1)
  BY <1>1, <1>2, RingSlots DEF Entry
<1>6. tail' = Place(head', count)
  BY <1>1, <1>2, RingSlots DEF RingInv
<1> QED
  BY <1>1, <1>2, <1>3, <1>4, <1>5, <1>6

LEMMA PopStep ==
    ASSUME CommandInv, Pop
    PROVE  CommandInv'
<1> USE DEF CommandInv
<1>1. /\ p2p' = "serve" /\ p2p = "pop"
      /\ UNCHANGED <<items, tail, commandVars, pc, thread_running, stop, executed>>
  BY DEF Pop, queueVars
<1>2. /\ cmd' = Entry(1) /\ cmd' \in Frontends /\ InCall(cmd')
      /\ count' = count - 1 /\ head' \in Slots /\ tail' = Place(head', count)
      /\ \A n \in 1..count-1 : n + 1 \in 1..count /\ n + 1 # 1
      /\ \A n \in 1..count-1 : Entry(n)' = Entry(n + 1)
      /\ 1 \in 1..count
  BY PoppedEntry
<1>3. /\ count - 1 \in 0..MAX_COMMANDS_PENDING /\ (count - 1) + 1 = count
      /\ \A m, n \in 1..count-1 : m + 1 = n + 1 => m = n
  BY PoppedEntry, CommandAssumption
<1>4. \A n \in 1..count-1 : Entry(n)' # cmd'
  BY <1>2 DEF RingInv
<1>5. CommandTypeOK'
  BY <1>1, <1>2, <1>3 DEF CommandTypeOK, commandVars
<1>6. RingInv'
  <2>1. \A n \in 1..count-1 : Entry(n)' \in Frontends /\ InCall(Entry(n))'
    BY <1>1, <1>2 DEF RingInv, InCall, commandVars
  <2>2. \A m, n \in 1..count-1 : Entry(m)' = Entry(n)' => m = n
    BY <1>2, <1>3 DEF RingInv
  <2> QED
    BY <1>2, <1>3, <2>1, <2>2 DEF RingInv
<1>7. ServedInv'
  <2>1. \A n \in 1..count' : Entry(n)' # cmd'
    BY <1>2, <1>4
  <2>2. /\ alive'[cmd'] /\ pc'[cmd'] \in {"check", "waiting"}
        /\ ~executed'[cmd'] /\ ~done'[cmd']
    BY <1>1, <1>2 DEF InCall, commandVars
  <2> QED
    BY <1>1, <1>2, <2>1, <2>2 DEF ServedInv
<1>8. CallsInv'
  BY <1>1 DEF CallsInv, commandVars
<1> QED
  BY <1>5, <1>6, <1>7, <1>8

(* What it does with the command it popped: that one is not in the ring.   *)
LEMMA ServeStep ==
    ASSUME CommandInv,
           \/ Serve \/ ServerCloses \/ DownloadRetries
           \/ LockAndSetDone \/ Signal \/ Unlock
    PROVE  CommandInv'
<1> USE DEF CommandInv
<1>1. /\ cmd \in Frontends /\ alive[cmd] /\ pc[cmd] \in {"check", "waiting"}
      /\ p2p \in {"serve", "retrying", "complete", "signal", "unlock"}
      /\ UNCHANGED <<queueVars, kind, alive, thread_running, stop, cmd>>
  BY DEF Serve, ServerCloses, Executed, DownloadRetries, LockAndSetDone, Signal, Unlock, ServedInv, commandVars
<1>2. \A n \in 1..count : Entry(n) # cmd
  BY <1>1 DEF RingInv, ServedInv, InCall
<1>3. UNCHANGED <<count, head, items>> /\ \A n \in 1..count : Entry(n)' = Entry(n)
  BY <1>1 DEF queueVars, Entry
<1>4. CommandTypeOK'
  <2>1. CASE Serve \/ ServerCloses
    <3>1. kind[cmd] \in Kinds \cup {"status"}
      BY <1>1 DEF CommandTypeOK
    <3>2. Outcomes(kind[cmd]) \subseteq {1, 0, -1}
      BY DEF Outcomes
    <3>3. Executed
      BY <2>1 DEF Serve, ServerCloses
    <3> QED
      BY <1>1, <3>2, <3>3 DEF Executed, CommandTypeOK, queueVars
  <2>2. CASE LockAndSetDone
    BY <1>1, <2>2 DEF LockAndSetDone, CommandTypeOK, queueVars
  <2>3. CASE Signal
    BY <1>1, <2>3 DEF Signal, CommandTypeOK, queueVars, commandVars
  <2>4. CASE Unlock
    BY <1>1, <2>4 DEF Unlock, CommandTypeOK, queueVars
  <2>5. CASE DownloadRetries
    BY <1>1, <2>5 DEF DownloadRetries, CommandTypeOK, queueVars, commandVars
  <2> QED
    BY <2>1, <2>2, <2>3, <2>4, <2>5
<1>5. \A g \in Frontends : g # cmd /\ InCall(g) => InCall(g)'
  BY <1>1 DEF Serve, ServerCloses, Executed, DownloadRetries, LockAndSetDone, Signal, Unlock, InCall, CommandTypeOK, commandVars
<1>6. RingInv'
  BY <1>1, <1>2, <1>3, <1>5, RingLeftAlone DEF RingInv
<1>7. ServedInv'
  <2>1. CASE Serve \/ ServerCloses
    BY <1>1, <2>1 DEF Serve, ServerCloses, Executed, ServedInv, CommandTypeOK
  <2>2. CASE LockAndSetDone
    BY <1>1, <2>2 DEF LockAndSetDone, ServedInv, CommandTypeOK
  <2>3. CASE Signal
    BY <1>1, <2>3 DEF Signal, ServedInv, CommandTypeOK, commandVars
  <2>4. CASE Unlock
    BY <1>1, <2>4 DEF Unlock, ServedInv
  <2>5. CASE DownloadRetries
    BY <1>1, <2>5 DEF DownloadRetries, ServedInv, Entry, queueVars, commandVars
  <2> QED
    BY <2>1, <2>2, <2>3, <2>4, <2>5
<1>8. CallsInv'
  <2>1. CASE Serve \/ ServerCloses
    BY <1>1, <2>1 DEF Serve, ServerCloses, Executed, CallsInv, CommandTypeOK
  <2>2. CASE LockAndSetDone
    BY <1>1, <2>2 DEF LockAndSetDone, CallsInv, CommandTypeOK, ServedInv
  <2>3. CASE Signal
    BY <1>1, <2>3 DEF Signal, CallsInv, CommandTypeOK, commandVars
  <2>4. CASE Unlock
    BY <1>1, <2>4 DEF Unlock, CallsInv
  <2>5. CASE DownloadRetries
    BY <1>1, <2>5 DEF DownloadRetries, CallsInv, commandVars
  <2> QED
    BY <2>1, <2>2, <2>3, <2>4, <2>5
<1> QED
  BY <1>4, <1>6, <1>7, <1>8

LEMMA CommandInvNext == CommandInv /\ [Next]_vars => CommandInv'
<1> SUFFICES ASSUME CommandInv, [Next]_vars PROVE CommandInv'
  OBVIOUS
<1>1. ASSUME NEW f \in Frontends,
             (\E k \in Kinds : Call(f, k)) \/ FrontendStep(f) \/ SpuriousWakeup(f)
      PROVE  CommandInv'
  BY <1>1, CallStep, PushStep, CheckStep, FreeAndReturnStep DEF FrontendStep
<1>2. CASE NetworkThread \/ ServerCloses \/ PeerGoesOn
  BY <1>2, RoundStep, PopStep, ServeStep DEF NetworkThread
<1>3. CASE UNCHANGED vars
  <2>1. CommandTypeOK'
    BY <1>3 DEF CommandInv, CommandTypeOK, vars, queueVars, commandVars, threadVars
  <2>2. RingInv'
    BY <1>3 DEF CommandInv, RingInv, Entry, InCall, vars, queueVars, commandVars,
                threadVars
  <2>3. ServedInv' /\ CallsInv'
    BY <1>3 DEF CommandInv, ServedInv, CallsInv, Entry, vars, queueVars,
                commandVars, threadVars
  <2> QED
    BY <2>1, <2>2, <2>3 DEF CommandInv
<1> QED
  BY <1>1, <1>2, <1>3, StopStep DEF Next, Terminated

LEMMA CommandInvAlways == Spec => []CommandInv
  BY CommandInvInit, CommandInvNext, PTL DEF Spec
-----------------------------------------------------------------------------
(* The line, entry by entry.                                               *)
LineIs ==
    /\ count \in 0..MAX_COMMANDS_PENDING /\ Line \in Seq(Frontends)
    /\ Ring \in Seq(Frontends) /\ Len(Ring) = count
    /\ \A n \in 1..count : Ring[n] = Entry(n)
    /\ p2p \in {"serve", "retrying"} =>
           /\ Len(Line) = count + 1 /\ Line[1] = cmd
           /\ \A n \in 1..count : Line[n + 1] = Ring[n]
    /\ p2p \notin {"serve", "retrying"} => Line = Ring

LEMMA LineEntries == CommandInv => LineIs
<1> SUFFICES ASSUME CommandInv PROVE LineIs
  OBVIOUS
<1> USE DEF CommandInv
<1>1. count \in 0..MAX_COMMANDS_PENDING /\ count \in Nat
  BY CommandAssumption DEF CommandTypeOK
<1>2. Ring = [n \in 1..count |-> Entry(n)]
  BY DEF Ring, Entry, Place
<1>3. /\ Ring \in Seq(Frontends) /\ Len(Ring) = count
      /\ \A n \in 1..count : Ring[n] = Entry(n)
  BY <1>1, <1>2 DEF RingInv
<1>4. CASE p2p \in {"serve", "retrying"}
  <2>1. Line = <<cmd>> \o Ring /\ cmd \in Frontends
    BY <1>4 DEF Line, ServedInv
  <2>2. /\ Line \in Seq(Frontends) /\ Len(Line) = count + 1 /\ Line[1] = cmd
        /\ \A n \in 1..count : Line[n + 1] = Ring[n]
    BY <1>1, <1>3, <2>1
  <2> QED
    BY <1>1, <1>3, <1>4, <2>2 DEF LineIs
<1>5. CASE p2p \notin {"serve", "retrying"}
  BY <1>1, <1>3, <1>5 DEF Line, LineIs
<1> QED
  BY <1>4, <1>5

LEMMA WaitersInLine == CommandInv => QueuedAreWaiting
<1> SUFFICES ASSUME CommandInv PROVE QueuedAreWaiting
  OBVIOUS
<1> USE DEF CommandInv, LineIs
<1>1. CASE p2p \notin {"serve", "retrying"}
  <2>1. DOMAIN Line = 1..count /\ \A n \in 1..count : Line[n] = Entry(n)
    BY <1>1, LineEntries
  <2> QED
    BY <2>1 DEF QueuedAreWaiting, RingInv, InCall
<1>2. CASE p2p \in {"serve", "retrying"}
  <2>1. /\ cmd \in Frontends /\ InCall(cmd)
        /\ \A n \in 1..count : Entry(n) # cmd
    BY <1>2 DEF ServedInv, InCall
  <2>2. /\ DOMAIN Line = 1..count+1 /\ Line[1] = cmd
        /\ \A n \in 2..count+1 : Line[n] = Entry(n - 1)
    <3>1. /\ count \in Nat /\ Len(Line) = count + 1 /\ Line \in Seq(Frontends)
          /\ Line[1] = cmd
          /\ \A n \in 1..count : Line[n + 1] = Entry(n)
      BY <1>2, LineEntries
    <3>2. \A n \in 2..count+1 : n - 1 \in 1..count /\ (n - 1) + 1 = n
      BY <3>1
    <3> QED
      BY <3>1, <3>2
  <2>3. \A n \in 1..count+1 : n = 1 \/ (n \in 2..count+1 /\ n - 1 \in 1..count)
    BY LineEntries, CommandAssumption
  <2>4. \A m, n \in 2..count+1 : m - 1 = n - 1 => m = n
    BY LineEntries
  <2>5. \A n \in 1..count+1 : InCall(Line[n])
    BY <2>1, <2>2, <2>3 DEF RingInv
  <2>6. \A m, n \in 1..count+1 : Line[m] = Line[n] => m = n
    BY <2>1, <2>2, <2>3, <2>4 DEF RingInv
  <2> QED
    BY <2>2, <2>5, <2>6 DEF QueuedAreWaiting, InCall
<1> QED
  BY <1>1, <1>2
-----------------------------------------------------------------------------
(* Every variable of the queue, its callers and its server keeps its type. *)
THEOREM CommandTypeCorrect == Spec => []CommandTypeOK
<1>1. CommandInv => CommandTypeOK
  BY DEF CommandInv
<1> QED
  BY <1>1, CommandInvAlways, PTL

(* However the callers wake up, the network thread never works on a        *)
(* command that was freed.                                                 *)
THEOREM NothingFreedIsUsed == Spec => []NoUseAfterFree
<1>1. CommandInv => NoUseAfterFree
  BY DEF CommandInv, ServedInv, NoUseAfterFree
<1> QED
  BY <1>1, CommandInvAlways, PTL

(* The unlocked test of count is enough: the pop finds a command.          *)
THEOREM PopsAreFull == Spec => []PopFindsACommand
<1>1. CommandInv => PopFindsACommand
  BY DEF CommandInv, ServedInv, PopFindsACommand
<1> QED
  BY <1>1, CommandInvAlways, PTL

(* What the ring holds, however often it turned around, are the commands   *)
(* of callers that still wait, each once.                                  *)
THEOREM WaitersAreQueued == Spec => []QueuedAreWaiting
<1>1. CommandInv => QueuedAreWaiting
  BY WaitersInLine
<1> QED
  BY <1>1, CommandInvAlways, PTL
-----------------------------------------------------------------------------
(* The steps of the queue are steps of CommandService or leave it alone.   *)
(* Whoever is in line is inside its call and not yet executed.             *)
LEMMA InLineInCall ==
    ASSUME CommandInv, NEW f \in Frontends, InLine(f)
    PROVE  InCall(f)
<1> PICK n \in DOMAIN Line : Line[n] = f
  BY DEF InLine
<1>1. pc[f] \in {"check", "waiting"} /\ alive[f] /\ ~executed[f]
  BY WaitersInLine DEF QueuedAreWaiting
<1> QED
  BY <1>1 DEF InCall, CommandInv, CallsInv

(* The abstract state as it is read off the threads.                       *)
LEMMA LeftAlone ==
    ASSUME UNCHANGED <<items, head, count, cmd, executed>>,
           p2p' \in {"serve", "retrying"} <=> p2p \in {"serve", "retrying"},
           \A f \in Frontends : /\ pc'[f] = "out" <=> pc[f] = "out"
                                /\ pc'[f] = "push" <=> pc[f] = "push"
    PROVE  Line' = Line /\ Phase' = Phase
<1>1. Line' = Line
  BY DEF Line, Ring
<1>2. \A f : InLine(f)' <=> InLine(f)
  BY <1>1 DEF InLine
<1> QED
  BY <1>1, <1>2 DEF Phase

LEMMA LineEntriesNext == CommandInv' => LineIs'
  BY LineEntries, PTL

LEMMA PhaseSet ==
    ASSUME NEW f \in Frontends, NEW v, Phase'[f] = v,
           \A g \in Frontends : g # f => Phase'[g] = Phase[g]
    PROVE  Phase' = [Phase EXCEPT ![f] = v]
  BY DEF Phase

(* Two lines of the same entries are the same.                             *)
LEMMA SameEntries ==
    ASSUME NEW s \in Seq(Frontends), NEW t \in Seq(Frontends), Len(s) = Len(t),
           \A n \in 1..Len(s) : s[n] = t[n]
    PROVE  s = t
  OBVIOUS

LEMMA CallRefines ==
    ASSUME CommandInv, NEW f \in Frontends, NEW q \in Kinds, Call(f, q)
    PROVE  Service!Submit(f, q)
<1>1. Line' = Line
  BY DEF Call, Line, Ring, queueVars
<1>2. \A g : InLine(g)' <=> InLine(g)
  BY <1>1 DEF InLine
<1>3. /\ pc[f] = "out" /\ pc' = [pc EXCEPT ![f] = "push"] /\ stop = "up" /\ stop' = stop
      /\ executed' = [executed EXCEPT ![f] = FALSE]
      /\ kind' = [kind EXCEPT ![f] = q] /\ result' = [result EXCEPT ![f] = 0]
  BY DEF Call
<1>4. Phase[f] = "out" /\ Phase'[f] = "submitted"
  BY <1>3 DEF Phase, CommandInv, CommandTypeOK
<1>5. \A g \in Frontends : g # f => Phase'[g] = Phase[g]
  BY <1>2, <1>3 DEF Phase, CommandInv, CommandTypeOK
<1>6. Phase' = [Phase EXCEPT ![f] = "submitted"]
  BY <1>4, <1>5, PhaseSet
<1> QED
  BY <1>1, <1>3, <1>4, <1>6 DEF Service!Submit

LEMMA PushRefines ==
    ASSUME CommandInv, CommandInv', NEW f \in Frontends, Push(f)
    PROVE  Service!Accept(f) \/ Service!Refuse(f)
<1>1. /\ pc[f] = "push" /\ pc' = [pc EXCEPT ![f] = "check"]
      /\ UNCHANGED <<kind, result, stop, p2p, cmd, executed>>
  BY DEF Push, commandVars
<1>2. LineIs /\ LineIs'
  BY LineEntries, LineEntriesNext
<1>3. ~executed[f] /\ ~InLine(f)
  BY <1>1, InLineInCall DEF CommandInv, CallsInv, InCall
<1>4. Phase[f] = "submitted"
  BY <1>1 DEF Phase
<1>5. CASE count = MAX_COMMANDS_PENDING
  <2>1. Line' = Line
    BY <1>1, <1>5 DEF Push, Line, Ring, queueVars
  <2>2. \A g : InLine(g)' <=> InLine(g)
    BY <2>1 DEF InLine
  <2>3. Phase'[f] = "lost"
    BY <1>1, <1>3, <2>2 DEF Phase, CommandInv, CommandTypeOK
  <2>4. \A g \in Frontends : g # f => Phase'[g] = Phase[g]
    BY <1>1, <2>2 DEF Phase, CommandInv, CommandTypeOK
  <2>5. Phase' = [Phase EXCEPT ![f] = "lost"]
    BY <2>3, <2>4, PhaseSet
  <2>6. Len(Line) >= MAX_COMMANDS_PENDING
    BY <1>2, <1>5, CommandAssumption DEF LineIs
  <2> QED
    BY <1>1, <1>4, <2>1, <2>5, <2>6 DEF Service!Refuse
<1>6. CASE count # MAX_COMMANDS_PENDING
  <2>1. /\ count' = count + 1 /\ \A n : n = count + 1 => Entry(n)' = f
        /\ \A n \in 1..count : Entry(n)' = Entry(n)
    BY <1>6, PushedEntry
  <2>2. count \in Nat /\ \A n \in 1..count+1 : n \in 1..count \/ n = count + 1
    BY <1>2, CommandAssumption DEF LineIs
  <2>3. Ring' = Append(Ring, f)
    <3>1. /\ Ring' \in Seq(Frontends) /\ Len(Ring') = count + 1
          /\ \A n \in 1..count+1 : Ring'[n] = Entry(n)'
          /\ Ring \in Seq(Frontends) /\ Len(Ring) = count
          /\ \A n \in 1..count : Ring[n] = Entry(n)
      BY <1>2, <2>1 DEF LineIs
    <3>2. /\ Append(Ring, f) \in Seq(Frontends) /\ Len(Append(Ring, f)) = count + 1
          /\ \A n \in 1..count : Append(Ring, f)[n] = Ring[n]
          /\ Append(Ring, f)[count + 1] = f
      BY <3>1
    <3> QED
      BY <2>1, <2>2, <3>1, <3>2, SameEntries
  <2>4. Line' = Append(Line, f)
    <3>1. CASE p2p \in {"serve", "retrying"}
      <4>1. Line = <<cmd>> \o Ring /\ Line' = <<cmd>> \o Append(Ring, f)
        BY <1>1, <2>3, <3>1 DEF Line
      <4> QED
        BY <1>2, <4>1, <3>1 DEF LineIs, CommandInv, ServedInv
    <3>2. CASE p2p \notin {"serve", "retrying"}
      BY <1>1, <2>3, <3>2 DEF Line
    <3> QED
      BY <3>1, <3>2
  <2>5. InLine(f)' /\ \A g \in Frontends : g # f => (InLine(g)' <=> InLine(g))
    <3>1. Line \in Seq(Frontends)
      BY <1>2 DEF LineIs
    <3>2. /\ DOMAIN Line = 1..Len(Line) /\ DOMAIN Line' = 1..Len(Line)+1
          /\ Len(Line) + 1 \in 1..Len(Line)+1
          /\ \A n \in 1..Len(Line)+1 : n \in 1..Len(Line) \/ n = Len(Line) + 1
          /\ \A n \in 1..Len(Line) : n \in 1..Len(Line)+1 /\ Line'[n] = Line[n]
          /\ Line'[Len(Line) + 1] = f
      BY <2>4, <3>1
    <3> QED
      BY <3>2 DEF InLine
  <2>6. Phase'[f] = "accepted"
    BY <1>1, <1>3, <2>5 DEF Phase, CommandInv, CommandTypeOK
  <2>7. \A g \in Frontends : g # f => Phase'[g] = Phase[g]
    BY <1>1, <2>5 DEF Phase, CommandInv, CommandTypeOK
  <2>8. Phase' = [Phase EXCEPT ![f] = "accepted"]
    BY <2>6, <2>7, PhaseSet
  <2> QED
    BY <1>1, <1>4, <2>4, <2>8 DEF Service!Accept
<1> QED
  BY <1>5, <1>6

LEMMA ReturnRefines ==
    ASSUME CommandInv, NEW f \in Frontends, FreeAndReturn(f)
    PROVE  Service!Return(f)
<1>1. /\ pc[f] = "reading" /\ pc' = [pc EXCEPT ![f] = "out"]
      /\ UNCHANGED <<kind, result, stop, executed>>
  BY DEF FreeAndReturn
<1>2. Line' = Line
  BY DEF FreeAndReturn, Line, Ring, queueVars
<1>3. \A g : InLine(g)' <=> InLine(g)
  BY <1>2 DEF InLine
<1>4. Phase[f] = "executed" /\ Phase'[f] = "out"
  BY <1>1 DEF Phase, CommandInv, CommandTypeOK, CallsInv
<1>5. \A g \in Frontends : g # f => Phase'[g] = Phase[g]
  BY <1>1, <1>3 DEF Phase, CommandInv, CommandTypeOK
<1>6. Phase' = [Phase EXCEPT ![f] = "out"]
  BY <1>4, <1>5, PhaseSet
<1> QED
  BY <1>1, <1>2, <1>4, <1>6 DEF Service!Return

(* Popping moves the oldest command from the ring to the thread's hands,   *)
(* and the line stays as it is.                                            *)
LEMMA PopRefines ==
    ASSUME CommandInv, CommandInv', Pop
    PROVE  Line' = Line /\ Phase' = Phase
<1>1. /\ p2p = "pop" /\ p2p' = "serve"
      /\ UNCHANGED <<pc, executed>>
  BY DEF Pop
<1>2. LineIs /\ LineIs'
  BY LineEntries, LineEntriesNext
<1>3. /\ count \in 1..MAX_COMMANDS_PENDING /\ cmd' = Entry(1) /\ count' = count - 1
      /\ \A n \in 1..count-1 : n + 1 \in 1..count
      /\ \A n \in 1..count-1 : Entry(n)' = Entry(n + 1)
  BY PoppedEntry
<1>4. /\ Line \in Seq(Frontends) /\ Len(Line) = count
      /\ \A n \in 1..count : Line[n] = Entry(n)
  BY <1>1, <1>2 DEF LineIs
<1>5. /\ Line' \in Seq(Frontends) /\ Len(Line') = (count - 1) + 1
      /\ Line'[1] = Entry(1)
      /\ \A n \in 1..count-1 : Line'[n + 1] = Entry(n + 1)
  BY <1>1, <1>2, <1>3 DEF LineIs
<1>6. /\ (count - 1) + 1 = count
      /\ \A n \in 1..count : n = 1 \/ (n - 1 \in 1..count-1 /\ (n - 1) + 1 = n)
  BY <1>3, CommandAssumption
<1>7. \A n \in 1..count : Line'[n] = Line[n]
  BY <1>4, <1>5, <1>6
<1>8. Line' = Line
  BY <1>4, <1>5, <1>6, <1>7, SameEntries
<1>9. \A g : InLine(g)' <=> InLine(g)
  BY <1>8 DEF InLine
<1> QED
  BY <1>1, <1>8, <1>9 DEF Phase

(* The command in hand leaves the line.                                    *)
LEMMA ServedLeaves ==
    ASSUME CommandInv, CommandInv', p2p \in {"serve", "retrying"},
           p2p' \notin {"serve", "retrying"},
           UNCHANGED <<items, head, count, cmd>>
    PROVE  /\ Line # <<>> /\ Head(Line) = cmd /\ Line' = Tail(Line)
           /\ cmd \in Frontends /\ InLine(cmd) /\ ~InLine(cmd)'
           /\ \A g \in Frontends : g # cmd => (InLine(g)' <=> InLine(g))
<1>1. LineIs /\ cmd \in Frontends /\ \A n \in 1..count : Entry(n) # cmd
  BY LineEntries DEF CommandInv, ServedInv
<1>2. Line = <<cmd>> \o Ring /\ Line' = Ring
  BY DEF Line, Ring
<1>3. /\ Ring \in Seq(Frontends) /\ count \in Nat /\ Len(Ring) = count
      /\ \A n \in 1..count : Ring[n] # cmd
  BY <1>1, CommandAssumption DEF LineIs
<1>4. Line # <<>> /\ Head(Line) = cmd /\ Line' = Tail(Line)
  BY <1>1, <1>2, <1>3
<1>5. /\ DOMAIN Ring = 1..count /\ DOMAIN Line = 1..count+1
      /\ Line[1] = cmd /\ 1 \in 1..count+1
      /\ \A n \in 1..count : n + 1 \in 1..count+1 /\ Line[n + 1] = Ring[n]
      /\ \A n \in 1..count+1 :
             n = 1 \/ (n - 1 \in 1..count /\ Line[n] = Ring[n - 1])
  BY <1>1, <1>2, <1>3
<1>6. InLine(cmd) /\ \A g \in Frontends : g # cmd =>
          ((\E n \in 1..count : Ring[n] = g) <=> InLine(g))
  BY <1>5 DEF InLine
<1>7. \A g : InLine(g)' <=> \E n \in 1..count : Ring[n] = g
  BY <1>2, <1>5 DEF InLine
<1>8. ~InLine(cmd)'
  BY <1>2, <1>3, <1>5 DEF InLine
<1> QED
  BY <1>1, <1>4, <1>6, <1>7, <1>8

LEMMA ServeRefines ==
    ASSUME CommandInv, CommandInv', Serve \/ ServerCloses
    PROVE  Service!Execute
<1>1. /\ p2p \in {"serve", "retrying"} /\ p2p' = "complete"
      /\ kind[cmd] # "nofile"
      /\ \E r \in Outcomes(kind[cmd]) : result' = [result EXCEPT ![cmd] = r]
      /\ executed' = [executed EXCEPT ![cmd] = TRUE]
      /\ UNCHANGED <<items, head, count, cmd, kind, pc, stop>>
  BY DEF Serve, ServerCloses, Executed, queueVars, CommandInv, ServedInv
<1>2. /\ Line # <<>> /\ Head(Line) = cmd /\ Line' = Tail(Line) /\ cmd \in Frontends
      /\ \A g \in Frontends : g # cmd => (InLine(g)' <=> InLine(g))
  BY <1>1, ServedLeaves
<1>3. pc[cmd] \in {"check", "waiting"} /\ stop # "down"
  BY <1>1 DEF CommandInv, ServedInv, CallsInv
<1>4. Phase'[cmd] = "executed"
  BY <1>1, <1>2, <1>3 DEF Phase, CommandInv, CommandTypeOK
<1>5. \A g \in Frontends : g # cmd => Phase'[g] = Phase[g]
  BY <1>1, <1>2 DEF Phase, CommandInv, CommandTypeOK
<1>6. Phase' = [Phase EXCEPT ![cmd] = "executed"]
  BY <1>2, <1>4, <1>5, PhaseSet
<1>7. \E r \in Service!Outcomes(kind[cmd]) : result' = [result EXCEPT ![cmd] = r]
  BY <1>1 DEF Outcomes, Service!Outcomes
<1> QED
  BY <1>1, <1>2, <1>3, <1>6, <1>7 DEF Service!Execute

LEMMA SkipRefines ==
    ASSUME CommandInv, CommandInv', SkipNoFile
    PROVE  Service!Drop
<1>1. /\ p2p = "serve" /\ p2p' = "pending" /\ kind[cmd] = "nofile"
      /\ UNCHANGED <<items, head, count, cmd, kind, result, executed, pc, stop>>
  BY DEF SkipNoFile, queueVars, commandVars
<1>2. /\ Line # <<>> /\ Head(Line) = cmd /\ Line' = Tail(Line) /\ cmd \in Frontends
      /\ ~InLine(cmd)'
      /\ \A g \in Frontends : g # cmd => (InLine(g)' <=> InLine(g))
  BY <1>1, ServedLeaves
<1>3. pc[cmd] \in {"check", "waiting"} /\ stop # "down" /\ ~executed[cmd]
  BY <1>1 DEF CommandInv, ServedInv, CallsInv
<1>4. \A g : g = cmd => ~InLine(g)'
  BY <1>1, <1>2
<1>5. Phase'[cmd] = "lost"
  BY <1>1, <1>2, <1>3, <1>4 DEF Phase
<1>6. \A g \in Frontends : g # cmd => Phase'[g] = Phase[g]
  BY <1>1, <1>2 DEF Phase
<1>7. Phase' = [Phase EXCEPT ![cmd] = "lost"]
  BY <1>2, <1>5, <1>6, PhaseSet
<1> QED
  BY <1>1, <1>2, <1>3, <1>7 DEF Service!Drop

LEMMA DestroyRefines ==
    ASSUME CommandInv, JoinAndDestroy
    PROVE  Service!Close
<1>1. /\ stop' = "down" /\ count' = 0 /\ p2p' = "exited" /\ p2p = "exited"
      /\ UNCHANGED <<kind, result, executed, pc>>
  BY DEF JoinAndDestroy, commandVars
<1>2. Line' = <<>>
  BY <1>1 DEF Line, Ring
<1>3. \A g : ~InLine(g)'
  BY <1>2 DEF InLine
<1>4. Phase' = [f \in Frontends |->
                   IF Phase[f] = "accepted" THEN "lost" ELSE Phase[f]]
  BY <1>1, <1>3 DEF Phase
<1> QED
  BY <1>1, <1>2, <1>4 DEF Service!Close

(* The steps the frontend does not see.                                    *)
LEMMA InnerSteps ==
    ASSUME CommandInv,
           \/ \E f \in Frontends : Check(f) \/ SpuriousWakeup(f)
           \/ RequestStop \/ LoopTest \/ PendingTest \/ DownloadRetries
           \/ LockAndSetDone \/ Signal \/ Unlock \/ NetworkRound \/ PeerGoesOn
           \/ UNCHANGED vars
    PROVE  UNCHANGED <<Phase, kind, result, Line, stop = "down">>
<1> USE DEF CommandInv, CommandTypeOK
<1>1. /\ UNCHANGED <<items, head, count, cmd, executed, kind, result>>
      /\ (stop' = "down") = (stop = "down")
      /\ p2p' \in {"serve", "retrying"} <=> p2p \in {"serve", "retrying"}
  BY DEF Check, SpuriousWakeup, RequestStop, LoopTest, PendingTest,
         DownloadRetries, LockAndSetDone, Signal, Unlock, NetworkRound, PeerGoesOn,
         vars, queueVars, commandVars, threadVars
<1>2. \A f \in Frontends : /\ pc'[f] = "out" <=> pc[f] = "out"
                           /\ pc'[f] = "push" <=> pc[f] = "push"
  <2>1. CASE \E f \in Frontends : Check(f) \/ SpuriousWakeup(f)
    BY <2>1 DEF Check, SpuriousWakeup
  <2>2. CASE Signal
    BY <2>2 DEF Signal
  <2>3. CASE UNCHANGED pc
    BY <2>3
  <2> QED
    BY <2>1, <2>2, <2>3
       DEF RequestStop, LoopTest, PendingTest, DownloadRetries, LockAndSetDone, Unlock,
           NetworkRound, PeerGoesOn, vars, threadVars
<1> QED
  BY <1>1, <1>2, LeftAlone

LEMMA StepRefines ==
    CommandInv /\ CommandInv' /\ [Next]_vars =>
        [Service!ServiceNext]_<<Phase, kind, result, Line, stop = "down">>
<1> SUFFICES ASSUME CommandInv, CommandInv', [Next]_vars
             PROVE  Service!ServiceNext
                    \/ UNCHANGED <<Phase, kind, result, Line, stop = "down">>
  OBVIOUS
<1>1. ASSUME NEW f \in Frontends, NEW q \in Kinds, Call(f, q)
      PROVE  Service!ServiceNext
  BY <1>1, CallRefines DEF Service!ServiceNext
<1>2. ASSUME NEW f \in Frontends, Push(f)
      PROVE  Service!ServiceNext
  BY <1>2, PushRefines DEF Service!ServiceNext
<1>3. ASSUME NEW f \in Frontends, FreeAndReturn(f)
      PROVE  Service!ServiceNext
  BY <1>3, ReturnRefines DEF Service!ServiceNext
<1>4. CASE Pop
  <2>1. Line' = Line /\ Phase' = Phase
    BY <1>4, PopRefines
  <2> QED
    BY <1>4, <2>1 DEF Pop, commandVars
<1>5. CASE Serve \/ ServerCloses
  BY <1>5, ServeRefines DEF Service!ServiceNext
<1>6. CASE SkipNoFile
  BY <1>6, SkipRefines DEF Service!ServiceNext
<1>7. CASE JoinAndDestroy
  BY <1>7, DestroyRefines DEF Service!ServiceNext
<1>8. CASE \/ \E f \in Frontends : Check(f) \/ SpuriousWakeup(f)
           \/ RequestStop \/ LoopTest \/ PendingTest \/ DownloadRetries
           \/ LockAndSetDone \/ Signal \/ Unlock \/ NetworkRound \/ PeerGoesOn
           \/ UNCHANGED vars
  BY <1>8, InnerSteps
<1> QED
  BY <1>1, <1>2, <1>3, <1>4, <1>5, <1>6, <1>7, <1>8
     DEF Next, FrontendStep, NetworkThread, Terminated

(* The threads, the ring, the lock and the wakeups together are the simple *)
(* first-come-first-served service of CommandService.                      *)
THEOREM QueueImplementsService == Spec => ServesInOrder
<1>1. Init => Service!ServiceInit
  <2> SUFFICES ASSUME Init PROVE Service!ServiceInit
    OBVIOUS
  <2>1. Line = <<>>
    BY DEF Init, Line, Ring
  <2>2. Phase = [f \in Frontends |-> "out"]
    BY DEF Init, Phase
  <2> QED
    BY <2>1, <2>2 DEF Init, Service!ServiceInit
<1> QED
  BY <1>1, CommandInvAlways, StepRefines, PTL
     DEF Spec, ServesInOrder, Service!ServiceSpec
=============================================================================
