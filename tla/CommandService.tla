--------------------------- MODULE CommandService ---------------------------
(***************************************************************************)
(* What src/client.c gives the frontend: a call is refused only when       *)
(* MAX_COMMANDS_PENDING calls are in line; an accepted one is executed     *)
(* once, in the order of acceptance; and a call that returns, returns the  *)
(* outcome of its own execution, after it.  A call that was refused or     *)
(* dropped is lost.  No ring, locks, wakeups or threads here.              *)
(***************************************************************************)
EXTENDS Integers, Sequences

CONSTANTS Frontends, Kinds, MAX_COMMANDS_PENDING

VARIABLES phase, request, outcome, line, closed

(* What executing a command may yield: 1 (true) for the status, 0 or a     *)
(* negative number for a transfer.                                         *)
Outcomes(k) == IF k = "status" THEN {1} ELSE {0, -1}

ServiceInit ==
    /\ phase = [f \in Frontends |-> "out"]
    /\ request = [f \in Frontends |-> "status"]
    /\ outcome = [f \in Frontends |-> 0]
    /\ line = <<>>
    /\ closed = FALSE

Submit(f, k) ==
    /\ phase[f] = "out" /\ ~closed
    /\ phase' = [phase EXCEPT ![f] = "submitted"]
    /\ request' = [request EXCEPT ![f] = k]
    /\ outcome' = [outcome EXCEPT ![f] = 0]
    /\ UNCHANGED <<line, closed>>

Accept(f) ==
    /\ phase[f] = "submitted"
    /\ phase' = [phase EXCEPT ![f] = "accepted"]
    /\ line' = Append(line, f)
    /\ UNCHANGED <<request, outcome, closed>>

Refuse(f) ==
    /\ phase[f] = "submitted"
    /\ Len(line) >= MAX_COMMANDS_PENDING
    /\ phase' = [phase EXCEPT ![f] = "lost"]
    /\ UNCHANGED <<request, outcome, line, closed>>

Execute ==
    /\ line # <<>> /\ ~closed
    /\ LET f == Head(line)
       IN  /\ request[f] # "nofile"
           /\ phase' = [phase EXCEPT ![f] = "executed"]
           /\ \E r \in Outcomes(request[f]) : outcome' = [outcome EXCEPT ![f] = r]
    /\ line' = Tail(line)
    /\ UNCHANGED <<request, closed>>

(* A transfer that names no file is dropped.                               *)
Drop ==
    /\ line # <<>> /\ ~closed
    /\ request[Head(line)] = "nofile"
    /\ phase' = [phase EXCEPT ![Head(line)] = "lost"]
    /\ line' = Tail(line)
    /\ UNCHANGED <<request, outcome, closed>>

Return(f) ==
    /\ phase[f] = "executed"
    /\ phase' = [phase EXCEPT ![f] = "out"]
    /\ UNCHANGED <<request, outcome, line, closed>>

(* The client is stopped: calls still in line are lost.                    *)
Close ==
    /\ closed' = TRUE
    /\ line' = <<>>
    /\ phase' = [f \in Frontends |->
                    IF phase[f] = "accepted" THEN "lost" ELSE phase[f]]
    /\ UNCHANGED <<request, outcome>>

ServiceNext ==
    \/ \E f \in Frontends : \/ \E k \in Kinds : Submit(f, k)
                            \/ Accept(f)
                            \/ Refuse(f)
                            \/ Return(f)
    \/ Execute
    \/ Drop
    \/ Close

ServiceSpec ==
    ServiceInit /\ [][ServiceNext]_<<phase, request, outcome, line, closed>>
=============================================================================
