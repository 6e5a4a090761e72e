---------------------------- MODULE CommandQueue ----------------------------
(***************************************************************************)
(* The command queue between the frontend and the network thread:          *)
(* src/command.c, src/client.c and handle_pending of src/network.c, with   *)
(* every interleaving of the threads.                                      *)
(*                                                                         *)
(* A frontend thread has at most one call in progress, so its command is   *)
(* named by the thread.  The queue's lock is held for the body of          *)
(* queue_push and queue_pop only, which are therefore single steps; the    *)
(* test of commands.count in handle_pending takes no lock and is a step of *)
(* its own.  Of the frontend's steps under a command's lock none leaves it *)
(* held (pthread_cond_wait releases it), so locked says that the network   *)
(* thread holds it.                                                        *)
(***************************************************************************)
EXTENDS Integers, Sequences, FiniteSets

CONSTANTS
    Frontends,               \* threads that call the client
    Main,                    \* the one that stops it
    Kinds,                   \* "status", "upload", "download", "nofile"
    MAX_COMMANDS_PENDING,    \* 10 in the program
    Nobody                   \* content of a slot before it is written

ASSUME CommandAssumption ==
    /\ Main \in Frontends
    /\ Nobody \notin Frontends
    /\ Kinds \subseteq {"status", "upload", "download", "nofile"}
    /\ MAX_COMMANDS_PENDING \in Nat \ {0}

VARIABLES
    items, head, tail, count,                      \* struct CommandQueue
    kind, done, result, locked,                    \* struct Command
    alive,          \* the command is allocated
    pc,             \* where each frontend thread is
    thread_running, stop,
    p2p, cmd,       \* where the network thread is, and its command
    executed        \* history: the present call's command was executed

queueVars == <<items, head, tail, count>>
commandVars == <<kind, done, result, locked, alive>>
threadVars == <<pc, thread_running, stop, p2p, cmd, executed>>
vars == <<queueVars, commandVars, threadVars>>

Slots == 0..MAX_COMMANDS_PENDING-1
-----------------------------------------------------------------------------
(* Plausible slips in the definitions below, for the mutation checks.      *)

Push_when_full(f) ==
    /\ pc[f] = "push"
    /\ pc' = [pc EXCEPT ![f] = "check"]
    /\ items' = [items EXCEPT ![tail] = f]
    /\ tail' = (tail + 1) % MAX_COMMANDS_PENDING
    /\ count' = IF count = MAX_COMMANDS_PENDING THEN count ELSE count + 1
    /\ UNCHANGED <<head, commandVars, thread_running, stop, p2p, cmd, executed>>

SpuriousWakeup_if(f) ==
    /\ pc[f] = "waiting"
    /\ pc' = [pc EXCEPT ![f] = "reading"]
    /\ UNCHANGED <<queueVars, commandVars, thread_running, stop, p2p, cmd,
                   executed>>

Check_without_test(f) ==
    /\ pc[f] = "check" /\ ~locked[f]
    /\ pc' = [pc EXCEPT ![f] = "waiting"]
    /\ UNCHANGED <<queueVars, commandVars, thread_running, stop, p2p, cmd,
                   executed>>

PendingTest_dropped ==
    /\ p2p = "pending"
    /\ p2p' = IF cmd = Nobody /\ count = 0 THEN "network" ELSE "pop"
    /\ UNCHANGED <<queueVars, commandVars, pc, thread_running, stop, cmd,
                   executed>>

Pop_newest ==
    /\ p2p = "pop" /\ count > 0
    /\ p2p' = "serve"
    /\ LET last == (tail + MAX_COMMANDS_PENDING - 1) % MAX_COMMANDS_PENDING
       IN  cmd' = items[last] /\ tail' = last
    /\ count' = count - 1
    /\ UNCHANGED <<items, head, commandVars, pc, thread_running, stop, executed>>

RequestStop_forgotten ==
    /\ stop = "up" /\ pc[Main] = "out"
    /\ stop' = "joining"
    /\ UNCHANGED <<queueVars, commandVars, pc, thread_running, p2p, cmd,
                   executed>>
-----------------------------------------------------------------------------
Init ==
    /\ items = [s \in Slots |-> Nobody] /\ head = 0 /\ tail = 0 /\ count = 0
    /\ kind = [f \in Frontends |-> "status"]
    /\ done = [f \in Frontends |-> FALSE]
    /\ result = [f \in Frontends |-> 0]
    /\ locked = [f \in Frontends |-> FALSE]
    /\ alive = [f \in Frontends |-> FALSE]
    /\ pc = [f \in Frontends |-> "out"]
    /\ thread_running = TRUE /\ stop = "up"
    /\ p2p = "loop" /\ cmd = Nobody
    /\ executed = [f \in Frontends |-> FALSE]

(* download_file, upload_file, show_network_status: a command is allocated *)
(* and initialised.  Nobody calls a client that is being stopped.          *)
Call(f, k) ==
    /\ pc[f] = "out" /\ stop = "up"
    /\ pc' = [pc EXCEPT ![f] = "push"]
    /\ kind' = [kind EXCEPT ![f] = k]
    /\ done' = [done EXCEPT ![f] = FALSE]
    /\ result' = [result EXCEPT ![f] = 0]
    /\ alive' = [alive EXCEPT ![f] = TRUE]
    /\ executed' = [executed EXCEPT ![f] = FALSE]
    /\ UNCHANGED <<queueVars, locked, thread_running, stop, p2p, cmd>>

(* queue_push: a full queue refuses the command.  The callers ignore what  *)
(* it returns and go on to wait.                                           *)
Push(f) ==
    /\ pc[f] = "push"
    /\ pc' = [pc EXCEPT ![f] = "check"]
    /\ IF count = MAX_COMMANDS_PENDING THEN UNCHANGED queueVars
       ELSE /\ items' = [items EXCEPT ![tail] = f]
            /\ tail' = (tail + 1) % MAX_COMMANDS_PENDING
            /\ count' = count + 1
            /\ UNCHANGED head
    /\ UNCHANGED <<commandVars, thread_running, stop, p2p, cmd, executed>>

(* The lock is taken, done is tested, and the caller waits or goes on.     *)
Check(f) ==
    /\ pc[f] = "check" /\ ~locked[f]
    /\ pc' = [pc EXCEPT ![f] = IF done[f] THEN "reading" ELSE "waiting"]
    /\ UNCHANGED <<queueVars, commandVars, thread_running, stop, p2p, cmd,
                   executed>>

(* pthread_cond_wait may return without a signal.                          *)
SpuriousWakeup(f) ==
    /\ pc[f] = "waiting"
    /\ pc' = [pc EXCEPT ![f] = "check"]
    /\ UNCHANGED <<queueVars, commandVars, thread_running, stop, p2p, cmd,
                   executed>>

(* The result is read without the lock and the command is freed.           *)
FreeAndReturn(f) ==
    /\ pc[f] = "reading"
    /\ pc' = [pc EXCEPT ![f] = "out"]
    /\ alive' = [alive EXCEPT ![f] = FALSE]
    /\ UNCHANGED <<queueVars, kind, done, result, locked, thread_running,
                   stop, p2p, cmd, executed>>

(* stop_client: the flag is cleared, the thread joined, the queue reset.   *)
RequestStop ==
    /\ stop = "up" /\ pc[Main] = "out"
    /\ stop' = "joining"
    /\ thread_running' = FALSE
    /\ UNCHANGED <<queueVars, commandVars, pc, p2p, cmd, executed>>

JoinAndDestroy ==
    /\ stop = "joining" /\ p2p = "exited"
    /\ stop' = "down"
    /\ head' = 0 /\ tail' = 0 /\ count' = 0
    /\ UNCHANGED <<items, commandVars, pc, thread_running, p2p, cmd, executed>>
-----------------------------------------------------------------------------
(* update_client: the flag is tested before each round of update_network,  *)
(* whose first step, poll, returns after 50 ms.                            *)
LoopTest ==
    /\ p2p = "loop"
    /\ p2p' = IF thread_running THEN "pending" ELSE "exited"
    /\ UNCHANGED <<queueVars, commandVars, pc, thread_running, stop, cmd,
                   executed>>

(* while (commands.count > 0): read without the lock.                      *)
PendingTest ==
    /\ p2p = "pending"
    /\ p2p' = IF count > 0 THEN "pop" ELSE "network"
    /\ UNCHANGED <<queueVars, commandVars, pc, thread_running, stop, cmd,
                   executed>>

(* What queue_pop returns is not tested: with an empty queue cmd keeps the *)
(* pointer it had.                                                         *)
Pop ==
    /\ p2p = "pop"
    /\ p2p' = "serve"
    /\ IF count = 0 THEN UNCHANGED <<queueVars, cmd>>
       ELSE /\ cmd' = items[head]
            /\ head' = (head + 1) % MAX_COMMANDS_PENDING
            /\ count' = count - 1
            /\ UNCHANGED <<items, tail>>
    /\ UNCHANGED <<commandVars, pc, thread_running, stop, executed>>

Outcomes(k) == IF k = "status" THEN {1} ELSE {0, -1}

(* The command has been executed; its result is in the command.            *)
Executed ==
    /\ p2p' = "complete"
    /\ \E r \in Outcomes(kind[cmd]) : result' = [result EXCEPT ![cmd] = r]
    /\ executed' = [executed EXCEPT ![cmd] = TRUE]
    /\ UNCHANGED <<queueVars, kind, done, locked, alive, pc, thread_running,
                   stop, cmd>>

Serve ==
    /\ p2p = "serve" /\ kind[cmd] # "nofile"
    /\ Executed

(* A chunk of a download came in pieces: what is left is counted wrongly,  *)
(* and once nothing more comes recv_all times out and is called again,     *)
(* without limit, as long as the server keeps the connection open.         *)
DownloadRetries ==
    /\ p2p = "serve" /\ kind[cmd] = "download"
    /\ p2p' = "retrying"
    /\ UNCHANGED <<queueVars, commandVars, pc, thread_running, stop, cmd,
                   executed>>

ServerCloses ==
    /\ p2p = "retrying"
    /\ Executed

(* A transfer without a file: continue, and done is never set.             *)
SkipNoFile ==
    /\ p2p = "serve" /\ kind[cmd] = "nofile"
    /\ p2p' = "pending"
    /\ UNCHANGED <<queueVars, commandVars, pc, thread_running, stop, cmd,
                   executed>>

LockAndSetDone ==
    /\ p2p = "complete"
    /\ p2p' = "signal"
    /\ locked' = [locked EXCEPT ![cmd] = TRUE]
    /\ done' = [done EXCEPT ![cmd] = TRUE]
    /\ UNCHANGED <<queueVars, kind, result, alive, pc, thread_running, stop,
                   cmd, executed>>

Signal ==
    /\ p2p = "signal"
    /\ p2p' = "unlock"
    /\ pc' = [pc EXCEPT ![cmd] = IF @ = "waiting" THEN "check" ELSE @]
    /\ UNCHANGED <<queueVars, commandVars, thread_running, stop, cmd, executed>>

Unlock ==
    /\ p2p = "unlock"
    /\ p2p' = "pending"
    /\ locked' = [locked EXCEPT ![cmd] = FALSE]
    /\ UNCHANGED <<queueVars, kind, done, result, alive, pc, thread_running,
                   stop, cmd, executed>>

(* handle_incoming, handle_connected and handle_tasks.  A connection that  *)
(* was accepted has no timeout: a peer that sent part of a message holds   *)
(* the thread in recv until it goes on or closes.                          *)
NetworkRound ==
    /\ p2p = "network"
    /\ p2p' \in {"loop", "stalled"}
    /\ UNCHANGED <<queueVars, commandVars, pc, thread_running, stop, cmd,
                   executed>>

PeerGoesOn ==
    /\ p2p = "stalled"
    /\ p2p' = "loop"
    /\ UNCHANGED <<queueVars, commandVars, pc, thread_running, stop, cmd,
                   executed>>

Terminated ==
    /\ stop = "down" /\ \A f \in Frontends : pc[f] = "out"
    /\ UNCHANGED vars
-----------------------------------------------------------------------------
FrontendStep(f) == Push(f) \/ Check(f) \/ FreeAndReturn(f)

NetworkThread ==
    \/ LoopTest \/ PendingTest \/ Pop \/ Serve \/ DownloadRetries
    \/ SkipNoFile \/ LockAndSetDone \/ Signal \/ Unlock \/ NetworkRound

Next ==
    \/ \E f \in Frontends : \/ \E k \in Kinds : Call(f, k)
                            \/ FrontendStep(f)
                            \/ SpuriousWakeup(f)
    \/ RequestStop \/ JoinAndDestroy
    \/ NetworkThread \/ ServerCloses \/ PeerGoesOn
    \/ Terminated

Spec == Init /\ [][Next]_vars

(* The threads run; nothing is assumed of the connected peers, nor of the  *)
(* server whose download is retried.                                       *)
ThreadsRun ==
    /\ \A f \in Frontends : WF_vars(FrontendStep(f))
    /\ WF_vars(NetworkThread)
    /\ WF_vars(JoinAndDestroy)

FairSpec == Spec /\ ThreadsRun

(* Besides, a peer that began a message ends it or closes the connection.  *)
PeersGoOnSpec == FairSpec /\ WF_vars(PeerGoesOn)
-----------------------------------------------------------------------------
CommandTypeOK ==
    /\ items \in [Slots -> Frontends \cup {Nobody}]
    /\ head \in Slots /\ tail \in Slots /\ count \in 0..MAX_COMMANDS_PENDING
    /\ kind \in [Frontends -> Kinds \cup {"status"}]
    /\ result \in [Frontends -> {1, 0, -1}]
    /\ \A b \in {done, locked, alive, executed} : b \in [Frontends -> BOOLEAN]
    /\ pc \in [Frontends -> {"out", "push", "check", "waiting", "reading"}]
    /\ thread_running \in BOOLEAN
    /\ stop \in {"up", "joining", "down"}
    /\ p2p \in {"loop", "pending", "pop", "serve", "retrying", "complete",
                "signal", "unlock", "network", "stalled", "exited"}
    /\ cmd \in Frontends \cup {Nobody}

(* From the pop to the unlock the network thread works on a command that   *)
(* its caller has not freed, though the caller may run as soon as done is  *)
(* set and needs no signal to wake up.                                     *)
NoUseAfterFree ==
    p2p \in {"serve", "retrying", "complete", "signal", "unlock"} =>
        cmd \in Frontends /\ alive[cmd]

(* The unlocked test of count is good enough: between it and queue_pop     *)
(* nobody empties the queue, so the unchecked pop always yields a command. *)
PopFindsACommand == p2p = "pop" => count > 0

(* The contents of the ring, oldest first, with the command popped and not *)
(* yet executed before them.                                               *)
Ring ==
    [n \in 1..count |-> items[(head + n - 1) % MAX_COMMANDS_PENDING]]

Line == IF p2p \in {"serve", "retrying"} THEN <<cmd>> \o Ring ELSE Ring

InLine(f) == \E n \in DOMAIN Line : Line[n] = f

Phase ==
    [f \in Frontends |-> IF pc[f] = "out" THEN "out"
                         ELSE IF pc[f] = "push" THEN "submitted"
                         ELSE IF executed[f] THEN "executed"
                         ELSE IF InLine(f) THEN "accepted" ELSE "lost"]

Service == INSTANCE CommandService
               WITH phase <- Phase, request <- kind, outcome <- result,
                    line <- Line, closed <- stop = "down"

(* Whatever the interleaving, accepted calls are executed once, first come *)
(* first served, each returns its own outcome, none that was not executed  *)
(* returns, and none is refused while there is room.                       *)
ServesInOrder == Service!ServiceSpec

(* What is queued, or popped and not executed, belongs to callers that are *)
(* still inside their call, each at most once: no slot keeps a pointer to  *)
(* a command that was freed, and no push overwrites one that waits.        *)
QueuedAreWaiting ==
    \A n \in DOMAIN Line :
        /\ pc[Line[n]] \in {"check", "waiting"}
        /\ alive[Line[n]] /\ ~executed[Line[n]]
        /\ \A m \in DOMAIN Line : Line[m] = Line[n] => m = n

(* No wakeup is lost: a call that is in line returns, if the client goes   *)
(* on, the command is not one that handle_pending drops, and no download   *)
(* is retried for ever.                                                    *)
AcceptedCallsReturn ==
    \A f \in Frontends :
        InLine(f) /\ kind[f] # "nofile"
            ~> pc[f] = "out" \/ stop # "up" \/ [](p2p = "retrying")

(* stop_client comes back from pthread_join, whatever is queued, unless a  *)
(* download is retried for ever.                                           *)
StopCompletes ==
    stop = "joining" ~> stop = "down" \/ [](p2p = "retrying")
=============================================================================
