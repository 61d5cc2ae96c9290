----------------------------- MODULE JobQueue -----------------------------
(***************************************************************************)
(* The `jobs` table and the worker processes that drain it                 *)
(* (apps/server/src/worker.rs).                                            *)
(*                                                                         *)
(* A worker process claims a job under a lease, runs it in a task with a   *)
(* heartbeat, and ends the run by publishing, by giving the job back to    *)
(* the queue or by settling it.  Every write names the lease token, so a   *)
(* run that lost its lease changes nothing.  The module follows one row    *)
(* through claims, heartbeats, expiry, retries, the one resource retry,    *)
(* dependency waits, shutdown, worker crashes and lost database answers.   *)
(*                                                                         *)
(* Time is abstracted: `available` says that available_at has passed and   *)
(* `expired` that lease_expires_at has.  A lease token is a fresh UUID; a  *)
(* member of Tokens is fresh while no row and no run carries it, so the    *)
(* model needs no counter for it.  The token determines the lease owner.   *)
(* What the job does (its kind) is left to the modules that use a queue.   *)
(***************************************************************************)
EXTENDS Integers, FiniteSets

CONSTANTS
    Jobs,                \* job rows
    Projects,            \* project rows
    ProjectOf,           \* [Jobs -> Projects]
    Workers,             \* worker processes
    Tokens,              \* lease tokens
    None,                \* SQL NULL
    MaxAttempt,          \* jobs.max_attempt
    WorkerConcurrency,   \* FAULTLANE_WORKER_CONCURRENCY
    ProjectConcurrency,  \* FAULTLANE_PROJECT_CONCURRENCY
    MaxFaults,           \* bound: crashes, shutdowns, stalls, lost answers
    MaxRequests          \* bound: reprocessing requests that reach a job

ASSUME ConstantsAssumption ==
    /\ ProjectOf \in [Jobs -> Projects]
    /\ None \notin Jobs \cup Workers \cup Tokens
    /\ MaxAttempt \in Nat \ {0}
    /\ WorkerConcurrency \in Nat \ {0}
    /\ ProjectConcurrency \in Nat \ {0}
    /\ MaxFaults \in Nat
    /\ MaxRequests \in Nat

VARIABLES
    row,       \* [Jobs -> Row]: the jobs table
    run,       \* [Tokens -> Run]: the task working under each token
    claim,     \* [Workers -> SUBSET Jobs]: candidates of the claim statement in flight
    faults,    \* number of faults so far
    requests   \* number of reprocessing requests so far

vars == <<row, run, claim, faults, requests>>

Settled == {"completed", "failed", "dead"}

Row == [state : {"absent", "pending", "leased"} \cup Settled,
        attempt : Nat,
        resource_failures : Nat,
        available : BOOLEAN,           \* available_at <= now()
        token : Tokens \cup {None},    \* lease_token
        expired : BOOLEAN,             \* lease_expires_at <= now()
        newer : BOOLEAN]               \* requested generation > the lease's target

(* How a job handler can end other than by publishing (JobError), and the   *)
(* cancellation by a worker that shuts down.                                *)
Errors == {"dependency", "deterministic", "resource", "transient"}

Run == [phase : {"free", "working", "cancelled"} \cup Errors,
        worker : Workers \cup {None},
        job : Jobs \cup {None},
        attempt : Nat,                 \* the Job value the claim returned
        resource_failures : Nat,
        heartbeat : BOOLEAN,           \* the heartbeat task is alive
        container : BOOLEAN]           \* nobody has removed its container

NoRun == [phase |-> "free", worker |-> None, job |-> None, attempt |-> 0,
          resource_failures |-> 0, heartbeat |-> FALSE, container |-> FALSE]

NoRow == [state |-> "absent", attempt |-> 0, resource_failures |-> 0,
          available |-> FALSE, token |-> None, expired |-> FALSE, newer |-> FALSE]

Init ==
    /\ row = [j \in Jobs |-> NoRow]
    /\ run = [t \in Tokens |-> NoRun]
    /\ claim = [w \in Workers |-> {}]
    /\ faults = 0
    /\ requests = 0

-----------------------------------------------------------------------------
(* What the SQL conditions say.                                             *)

Live(t) == run[t].phase # "free"

(* Mutant of Active: lock_lease without its token condition. *)
ActiveAnyToken(t) ==
    /\ Live(t)
    /\ row[run[t].job].state = "leased"
    /\ ~row[run[t].job].expired

(* lease_is_active and lock_lease: leased under t and not expired. *)
Active(t) ==
    /\ Live(t)
    /\ row[run[t].job].token = t
    /\ ~row[run[t].job].expired

(* The weaker test of release_job and the heartbeat: leased under t. *)
Holds(t) ==
    /\ Live(t)
    /\ row[run[t].job].token = t

Fresh(t) ==
    /\ ~Live(t)
    /\ \A j \in Jobs : row[j].token # t

(* The claim statement's condition on a pending job's attempts. *)
AttemptsLeft(r) ==
    \/ r.attempt < MaxAttempt
    \/ r.attempt = MaxAttempt /\ r.resource_failures = 1


Eligible(r) ==
    \/ r.state = "pending" /\ r.available /\ AttemptsLeft(r)
    \/ r.state = "leased" /\ r.expired

ActiveJobs(p) ==
    {j \in Jobs : ProjectOf[j] = p /\ row[j].state = "leased" /\ ~row[j].expired}

Candidates ==
    {j \in Jobs : /\ Eligible(row[j])
                  /\ Cardinality(ActiveJobs(ProjectOf[j])) < ProjectConcurrency}

RunsOf(w) == {t \in Tokens : Live(t) /\ run[t].worker = w}

(* Mutant of MayWork: the extra attempt without a resource failure. *)
MayWorkOnceMore(attempt, resource_failures) == attempt <= MaxAttempt + 1

(* run_job refuses to start work on a job whose attempts are used up, save  *)
(* for the one retry that a resource failure is granted.                    *)
MayWork(attempt, resource_failures) ==
    \/ attempt <= MaxAttempt
    \/ resource_failures = 1 /\ attempt = MaxAttempt + 1

Fault == faults < MaxFaults /\ faults' = faults + 1

-----------------------------------------------------------------------------
(* Rows enter and re-enter the queue.                                       *)

(* INSERT INTO jobs: ingest, artifact completion, symbol caches, retention. *)
Enqueue(j) ==
    /\ row[j].state = "absent"
    /\ row' = [row EXCEPT ![j] = [NoRow EXCEPT !.state = "pending", !.available = TRUE]]
    /\ UNCHANGED <<run, claim, faults, requests>>

(* Mutant of Reactivate: the attempts of a leased row start over too. *)
ReactivateLeased(j) ==
    /\ row[j].state # "absent"
    /\ requests < MaxRequests
    /\ requests' = requests + 1
    /\ row' = [row EXCEPT ![j] =
                 IF @.state = "leased" THEN [@ EXCEPT !.newer = TRUE, !.attempt = 0]
                 ELSE [NoRow EXCEPT !.state = "pending", !.available = TRUE]]
    /\ UNCHANGED <<run, claim, faults>>

(* schedule_reprocessing_events: a leased row is left alone (its lease's    *)
(* target is now behind), any other row starts over.                        *)
Reactivate(j) ==
    /\ row[j].state # "absent"
    /\ requests < MaxRequests
    /\ requests' = requests + 1
    /\ row' = [row EXCEPT ![j] =
                 IF @.state = "leased" THEN [@ EXCEPT !.newer = TRUE]
                 ELSE [NoRow EXCEPT !.state = "pending", !.available = TRUE]]
    /\ UNCHANGED <<run, claim, faults>>

(* The back-off of a released job passes. *)
BecomeAvailable(j) ==
    /\ row[j].state = "pending"
    /\ ~row[j].available
    /\ row' = [row EXCEPT ![j].available = TRUE]
    /\ UNCHANGED <<run, claim, faults, requests>>

-----------------------------------------------------------------------------
(* The claim statement.  Its count of active leases comes from the snapshot *)
(* the statement starts with; the project row is locked later, and is not   *)
(* changed by a claim, so PostgreSQL does not evaluate the count again.     *)
(* The job row is changed by a claim, so its condition is evaluated again   *)
(* on the row that is locked.  SKIP LOCKED lets the statement pass over any *)
(* row another transaction holds, so the order of the candidates is left    *)
(* open.                                                                    *)

BeginClaim(w) ==
    /\ claim[w] = {}
    /\ Candidates # {}
    /\ Cardinality(RunsOf(w)) < WorkerConcurrency
    /\ \A t \in RunsOf(w) : run[t].phase # "cancelled"
    /\ claim' = [claim EXCEPT ![w] = Candidates]
    /\ UNCHANGED <<row, run, faults, requests>>

FinishClaim(w, j, t) ==
    /\ j \in claim[w]
    /\ Eligible(row[j])
    /\ Fresh(t)
    /\ LET attempt == row[j].attempt + 1
           resource_failures == row[j].resource_failures
       IN  /\ row' = [row EXCEPT ![j] =
                        [@ EXCEPT !.state = "leased", !.attempt = attempt,
                                  !.token = t, !.expired = FALSE, !.newer = FALSE]]
           /\ run' = [run EXCEPT ![t] =
                        [phase |-> IF MayWork(attempt, resource_failures)
                                   THEN "working" ELSE "transient",
                         worker |-> w, job |-> j, attempt |-> attempt,
                         resource_failures |-> resource_failures,
                         heartbeat |-> MayWork(attempt, resource_failures),
                         container |-> TRUE]]
    \* A claim in flight elsewhere meets a lease younger than its own now().
    /\ claim' = [v \in Workers |-> IF v = w THEN {} ELSE claim[v] \ {j}]
    /\ UNCHANGED <<faults, requests>>

(* No candidate is left, or every one of them is locked. *)
FailClaim(w) ==
    /\ claim[w] # {}
    /\ claim' = [claim EXCEPT ![w] = {}]
    /\ UNCHANGED <<row, run, faults, requests>>

-----------------------------------------------------------------------------
(* Leases.                                                                  *)

(* A lease whose run is gone runs out. *)
ExpireAbandoned(j) ==
    /\ row[j].state = "leased"
    /\ ~row[j].expired
    /\ ~Live(row[j].token)
    /\ row' = [row EXCEPT ![j].expired = TRUE]
    /\ UNCHANGED <<run, claim, faults, requests>>

(* A lease runs out under a live run: its heartbeat was stopped by an error *)
(* or the whole process was suspended for longer than LEASE_SECONDS.        *)
ExpireStalled(j) ==
    /\ row[j].state = "leased"
    /\ ~row[j].expired
    /\ Live(row[j].token)
    /\ row' = [row EXCEPT ![j].expired = TRUE]
    /\ Fault
    /\ UNCHANGED <<run, claim, requests>>

(* One tick of the heartbeat task.  It renews a lease that has expired as   *)
(* readily as one that has not, and stops when the row is no longer its own.*)
Heartbeat(t) ==
    /\ Live(t)
    /\ run[t].heartbeat
    /\ IF Holds(t)
       THEN /\ row' = [row EXCEPT ![run[t].job].expired = FALSE]
            /\ UNCHANGED run
       ELSE /\ run' = [run EXCEPT ![t].heartbeat = FALSE]
            /\ UNCHANGED row
    /\ UNCHANGED <<claim, faults, requests>>

(* The update fails: the heartbeat task returns for good. *)
HeartbeatError(t) ==
    /\ Live(t)
    /\ run[t].heartbeat
    /\ run' = [run EXCEPT ![t].heartbeat = FALSE]
    /\ Fault
    /\ UNCHANGED <<row, claim, requests>>

(* reconcile_containers, of any worker on the host: the container of a run  *)
(* whose lease is not active is removed, even if the run is still waiting   *)
(* for it.                                                                  *)
ReconcileContainer(t) ==
    /\ run[t].phase = "working"
    /\ run[t].container
    /\ ~Active(t)
    /\ run' = [run EXCEPT ![t].container = FALSE]
    /\ UNCHANGED <<row, claim, faults, requests>>

-----------------------------------------------------------------------------
(* How a run ends.                                                          *)

Free(t) == run' = [run EXCEPT ![t] = NoRun]

(* release_job: `charge` resource failures are counted, `refund` attempts   *)
(* are given back.                                                          *)
Released(r, available, charge, refund) ==
    [NoRow EXCEPT !.state = "pending", !.available = available,
                  !.attempt = r.attempt - refund,
                  !.resource_failures = r.resource_failures + charge]

ReleaseJob(t, available, charge, refund) ==
    /\ row' = IF Holds(t)
              THEN [row EXCEPT ![run[t].job] = Released(@, available, charge, refund)]
              ELSE row
    /\ Free(t)
    /\ UNCHANGED <<claim, faults, requests>>

(* requeue_job_for_new_generation *)
Requeued == [NoRow EXCEPT !.state = "pending", !.available = TRUE]

(* complete_job and terminal_job *)
Closed(r, state, charge) ==
    [NoRow EXCEPT !.state = state,
                  !.attempt = r.attempt,
                  !.resource_failures = r.resource_failures + charge]

(* The transactions that lock the lease first: publication and              *)
(* finish_failure.  A newer generation sends the job round again.           *)
CloseJob(t, state, charge) ==
    /\ row' = IF Active(t)
              THEN [row EXCEPT ![run[t].job] =
                      IF @.newer THEN Requeued ELSE Closed(@, state, charge)]
              ELSE row
    /\ Free(t)
    /\ UNCHANGED <<claim, faults, requests>>

(* The handler returns Ok: its last transaction completed the job, or found *)
(* the lease lost and rolled back.                                          *)
Publish(t) ==
    /\ run[t].phase = "working"
    /\ CloseJob(t, "completed", 0)

(* The handler returns an error; run_job stops the heartbeat. *)
Outcome(t, error) ==
    /\ run[t].phase = "working"
    /\ run' = [run EXCEPT ![t].phase = error, ![t].heartbeat = FALSE]
    /\ UNCHANGED <<row, claim, faults, requests>>

WaitForDependency(t) ==
    /\ run[t].phase = "dependency"
    /\ ReleaseJob(t, FALSE, 0, 1)

CancelJob(t) ==
    /\ run[t].phase = "cancelled"
    /\ ReleaseJob(t, TRUE, 0, 1)

Retry(t) ==
    \/ /\ run[t].phase = "transient"
       /\ run[t].attempt < MaxAttempt
       /\ ReleaseJob(t, FALSE, 0, 0)
    \/ /\ run[t].phase = "resource"
       /\ run[t].resource_failures = 0
       /\ ReleaseJob(t, FALSE, 1, 0)

Quarantine(t) ==
    /\ run[t].phase = "deterministic"
    /\ CloseJob(t, "failed", 0)

QuarantineResource(t) ==
    /\ run[t].phase = "resource"
    /\ run[t].resource_failures # 0
    /\ CloseJob(t, "failed", 1)

FailJob(t) ==
    /\ run[t].phase = "transient"
    /\ run[t].attempt >= MaxAttempt
    /\ CloseJob(t, "dead", 0)

FinishResult(t) ==
    \/ WaitForDependency(t)
    \/ CancelJob(t)
    \/ Retry(t)
    \/ Quarantine(t)
    \/ QuarantineResource(t)
    \/ FailJob(t)

(* The database does not answer: finish_result drops the error and the row  *)
(* stays leased until the lease expires.                                    *)
FinishLost(t) ==
    /\ run[t].phase \in Errors \cup {"cancelled"}
    /\ Free(t)
    /\ Fault
    /\ UNCHANGED <<row, claim, requests>>

-----------------------------------------------------------------------------
(* Worker processes.                                                        *)

(* stop_running_jobs, on ctrl-c or after a task panicked: every task is     *)
(* aborted, then cancel_job runs for each job still in `active`.            *)
Shutdown(w) ==
    /\ claim[w] = {}
    /\ \E t \in RunsOf(w) : run[t].phase # "cancelled"
    /\ run' = [t \in Tokens |->
                 IF t \in RunsOf(w)
                 THEN [run[t] EXCEPT !.phase = "cancelled", !.heartbeat = FALSE]
                 ELSE run[t]]
    /\ Fault
    /\ UNCHANGED <<row, claim, requests>>

Crash(w) ==
    /\ RunsOf(w) # {} \/ claim[w] # {}
    /\ run' = [t \in Tokens |-> IF t \in RunsOf(w) THEN NoRun ELSE run[t]]
    /\ claim' = [claim EXCEPT ![w] = {}]
    /\ Fault
    /\ UNCHANGED <<row, requests>>

-----------------------------------------------------------------------------

JobStep(j) ==
    \/ Enqueue(j)
    \/ Reactivate(j)
    \/ BecomeAvailable(j)
    \/ ExpireAbandoned(j)
    \/ ExpireStalled(j)

RunStep(t) ==
    \/ Heartbeat(t)
    \/ HeartbeatError(t)
    \/ ReconcileContainer(t)
    \/ Publish(t)
    \/ \E error \in Errors : Outcome(t, error)
    \/ FinishResult(t)
    \/ FinishLost(t)

WorkerStep(w) ==
    \/ BeginClaim(w)
    \/ \E j \in Jobs, t \in Tokens : FinishClaim(w, j, t)
    \/ FailClaim(w)
    \/ Shutdown(w)
    \/ Crash(w)

Next ==
    \/ \E j \in Jobs : JobStep(j)
    \/ \E t \in Tokens : RunStep(t)
    \/ \E w \in Workers : WorkerStep(w)

Spec == Init /\ [][Next]_vars

-----------------------------------------------------------------------------
(* Fairness.  Timers fire; a worker loop polls; a statement in flight ends; *)
(* a task that returned is finished.  Strong fairness where a step can be   *)
(* disabled again and again: SKIP LOCKED may pass over a job (rows are      *)
(* locked briefly and the oldest job goes first), and a handler may answer  *)
(* Dependency again and again (until the cache job it waits for settles).   *)

ClaimOf(j) == \E w \in Workers, t \in Tokens : FinishClaim(w, j, t)

Conclude(j) ==
    \E t \in Tokens :
        /\ run[t].job = j
        /\ Publish(t) \/ \E error \in Errors \ {"dependency"} : Outcome(t, error)

Fairness ==
    /\ \A j \in Jobs : /\ WF_vars(BecomeAvailable(j))
                       /\ WF_vars(ExpireAbandoned(j))
                       /\ SF_vars(ClaimOf(j))
                       /\ SF_vars(Conclude(j))
    /\ \A w \in Workers : WF_vars(BeginClaim(w)) /\ WF_vars(FailClaim(w))
    /\ \A t \in Tokens : WF_vars(FinishResult(t))

FairSpec == Spec /\ Fairness

-----------------------------------------------------------------------------
(* Properties.                                                              *)

(* Every variable has its type. *)
TypeOK ==
    /\ row \in [Jobs -> Row]
    /\ run \in [Tokens -> Run]
    /\ claim \in [Workers -> SUBSET Jobs]
    /\ faults \in 0..MaxFaults
    /\ requests \in 0..MaxRequests

(* A lease is one row under one token: the lease columns are set exactly    *)
(* while the row is leased, no token is on two rows, and a run whose token  *)
(* is on a row was claimed for that row (claim_job writes the columns;      *)
(* release_job, complete_job and terminal_job clear them).                  *)
OneLeasePerToken ==
    /\ \A j \in Jobs : row[j].state = "leased" <=> row[j].token # None
    /\ \A j, k \in Jobs : row[j].token = row[k].token /\ j # k => row[j].token = None
    /\ \A j \in Jobs : row[j].token # None /\ Live(row[j].token) => run[row[j].token].job = j

(* finish_result decides from the copy of the row that the claim returned.  *)
(* While the run still holds the row the copy is exact, however long ago it *)
(* was taken, so the decision is the one the row itself would have led to.  *)
LeaseCopyCurrent ==
    \A t \in Tokens :
        Holds(t) => /\ run[t].attempt = row[run[t].job].attempt
                    /\ run[t].resource_failures = row[run[t].job].resource_failures

(* The CHECK constraints of the table (attempt >= 0, resource_failures      *)
(* BETWEEN 0 AND 2) never refuse an update: a leased row has an attempt to  *)
(* give back, and a row that can still run has failed on resources at most  *)
(* once.                                                                    *)
ChecksNeverRefuse ==
    \A j \in Jobs :
        /\ row[j].state = "leased" => row[j].attempt >= 1
        /\ row[j].state \notin Settled => row[j].resource_failures \in 0..1
        /\ row[j].resource_failures \in 0..2

(* A run does work only inside its retry budget, whatever sequence of       *)
(* crashes, expiries and refunds led to its claim.                          *)
BudgetRespected ==
    \A t \in Tokens :
        Holds(t) /\ run[t].phase = "working" =>
            \/ row[run[t].job].attempt <= MaxAttempt
            \/ /\ row[run[t].job].attempt = MaxAttempt + 1
               /\ row[run[t].job].resource_failures = 1

(* The queue as its users see it: every step is a step of LeaseQueue.       *)
PhaseOf(state) ==
    CASE state = "absent" -> "idle"
      [] state = "pending" -> "waiting"
      [] state = "leased" -> "held"
      [] OTHER -> "settled"

queuePhase == [j \in Jobs |-> PhaseOf(row[j].state)]

queueHolder == [j \in Jobs |-> row[j].token]

queueActing == {t \in Tokens : Live(t)}

Queue == INSTANCE LeaseQueue WITH
    phase <- queuePhase, holder <- queueHolder, acting <- queueActing

(* Fencing: a lease is given up only by the run that holds it, once.        *)
ImplementsLeaseQueue == Queue!Spec

(* A job the claim statement can never pick again although it is pending.   *)
Stranded(j) == row[j].state = "pending" /\ ~AttemptsLeft(row[j])

=============================================================================
