---------------------------- MODULE LeaseQueue ----------------------------
(***************************************************************************)
(* What FaultLane's durable job queue promises, with attempts, back-off,   *)
(* heartbeats, claims and worker processes left out.                       *)
(*                                                                         *)
(* A job waits, is held under one lease token, and is settled.  A token    *)
(* stands for one run of one worker; `acting` is the set of tokens whose   *)
(* run may still write to the database.  The promise is fencing: only the  *)
(* run that holds a job's present token can return or settle the job, it   *)
(* does so once, and no two jobs or runs ever share a token.  A run that   *)
(* has lost its lease can only stop.                                       *)
(*                                                                         *)
(* JobQueue implements this specification.                                 *)
(***************************************************************************)
CONSTANTS
    Jobs,       \* identities of job rows
    Tokens,     \* lease tokens (fresh UUIDs)
    None        \* SQL NULL

VARIABLES
    phase,      \* [Jobs -> {"idle", "waiting", "held", "settled"}]
    holder,     \* [Jobs -> Tokens \cup {None}]: the token of the present lease
    acting      \* tokens whose run is still alive

vars == <<phase, holder, acting>>

Init ==
    /\ phase = [j \in Jobs |-> "idle"]
    /\ holder = [j \in Jobs |-> None]
    /\ acting = {}

(* A job row is inserted. *)
Submit(j) ==
    /\ phase[j] = "idle"
    /\ phase' = [phase EXCEPT ![j] = "waiting"]
    /\ UNCHANGED <<holder, acting>>

(* A run takes a waiting job, or takes over the job of an expired lease,    *)
(* always under a token that nobody holds and nobody acts under.            *)
Grant(j, t) ==
    /\ phase[j] \in {"waiting", "held"}
    /\ t \notin acting
    /\ \A k \in Jobs : holder[k] # t
    /\ phase' = [phase EXCEPT ![j] = "held"]
    /\ holder' = [holder EXCEPT ![j] = t]
    /\ acting' = acting \cup {t}

(* The holder gives the job up, to `next`: back to the queue or settled.    *)
(* Its run ends with the same step.                                         *)
GiveUp(j, next) ==
    /\ phase[j] = "held"
    /\ holder[j] \in acting
    /\ phase' = [phase EXCEPT ![j] = next]
    /\ holder' = [holder EXCEPT ![j] = None]
    /\ acting' = acting \ {holder[j]}

Return(j) == GiveUp(j, "waiting")

Settle(j) == GiveUp(j, "settled")

(* A reprocessing request puts a job nobody holds back in the queue. *)
Reopen(j) ==
    /\ phase[j] \in {"waiting", "settled"}
    /\ phase' = [phase EXCEPT ![j] = "waiting"]
    /\ UNCHANGED <<holder, acting>>

(* Runs stop without touching a job: a lost lease, a lost connection, or a  *)
(* worker process that dies with all of its runs.                           *)
Stop ==
    /\ acting' \in SUBSET acting
    /\ UNCHANGED <<phase, holder>>

Next ==
    \/ \E j \in Jobs : Submit(j) \/ Return(j) \/ Settle(j) \/ Reopen(j)
    \/ \E j \in Jobs, t \in Tokens : Grant(j, t)
    \/ Stop

Spec == Init /\ [][Next]_vars
=============================================================================
