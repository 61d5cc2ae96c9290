---------------------------- MODULE WorkerProofs ----------------------------
(***************************************************************************)
(* Proofs about JobQueue and Issues, the two halves of the worker, for any *)
(* number of jobs, projects, workers and tokens and for any events,        *)
(* issues, builds and bounds.                                              *)
(*                                                                         *)
(* The inductive invariant of the queue adds to the checked invariants     *)
(* that a run was claimed for a job by a worker, and that a working run    *)
(* may work by its own copy of the row.  That of the issues adds to the    *)
(* counts what the tables hold, that a grouped event is named, that an     *)
(* issue was resolved in a release whose build time is known, and what the *)
(* cursor of a list separates.                                             *)
(***************************************************************************)
EXTENDS JobQueue, Issues, FiniteSetTheorems, WellFoundedInduction, TLAPS

-----------------------------------------------------------------------------
(* The job queue.                                                          *)

RunsAreClaims ==
    \A t \in Tokens :
        Live(t) => /\ run[t].job \in Jobs
                   /\ run[t].worker \in Workers

WorkIsPermitted ==
    \A t \in Tokens :
        run[t].phase = "working" => MayWork(run[t].attempt, run[t].resource_failures)

IInv ==
    /\ TypeOK
    /\ OneLeasePerToken
    /\ RunsAreClaims
    /\ LeaseCopyCurrent
    /\ ChecksNeverRefuse
    /\ WorkIsPermitted

USE DEF Settled, Errors

-----------------------------------------------------------------------------
(* The rows and runs that the operations write are well typed.             *)

(* The constant rows and the empty run have their types.                   *)
LEMMA ConstantRows ==
    /\ NoRow \in Row
    /\ Requeued \in Row
    /\ NoRun \in Run
BY DEF NoRow, Requeued, NoRun, Row, Run

(* release_job writes a row: an attempt can be given back because a leased *)
(* row has made one.                                                       *)
LEMMA ReleasedRow ==
    ASSUME NEW r \in Row, r.attempt >= 1,
           NEW available \in BOOLEAN, NEW charge \in 0..1, NEW refund \in 0..1
    PROVE  /\ Released(r, available, charge, refund) \in Row
           /\ Released(r, available, charge, refund).state = "pending"
           /\ Released(r, available, charge, refund).token = None
           /\ Released(r, available, charge, refund).resource_failures
                = r.resource_failures + charge
<1>1. r.resource_failures + charge \in Nat /\ r.attempt - refund \in Nat
    BY DEF Row
<1> QED BY <1>1 DEF Released, NoRow, Row

(* complete_job and terminal_job write a row.                              *)
LEMMA ClosedRow ==
    ASSUME NEW r \in Row, NEW state \in Settled, NEW charge \in 0..1
    PROVE  /\ Closed(r, state, charge) \in Row
           /\ Closed(r, state, charge).state = state
           /\ Closed(r, state, charge).token = None
           /\ Closed(r, state, charge).resource_failures = r.resource_failures + charge
<1>1. r.resource_failures + charge \in Nat /\ r.attempt \in Nat
    BY DEF Row
<1> QED BY <1>1 DEF Closed, NoRow, Row

(* The initial state satisfies the inductive invariant.                    *)
LEMMA InitIInv == Init => IInv
<1> SUFFICES ASSUME Init PROVE IInv
    OBVIOUS
<1>1. TypeOK
    BY ConstantRows, ConstantsAssumption DEF Init, TypeOK
<1>2. OneLeasePerToken /\ RunsAreClaims /\ LeaseCopyCurrent /\ ChecksNeverRefuse /\ WorkIsPermitted
    BY ConstantsAssumption
    DEF Init, OneLeasePerToken, RunsAreClaims, LeaseCopyCurrent, ChecksNeverRefuse,
        WorkIsPermitted, NoRow, NoRun, Live, Holds
<1> QED BY <1>1, <1>2 DEF IInv

-----------------------------------------------------------------------------
(* Steps that several actions share.                                       *)

(* A run that ends without touching a row keeps the invariant.             *)
LEMMA RunEnds ==
    ASSUME IInv, NEW S \in SUBSET Tokens,
           row' = row,
           run' = [t \in Tokens |-> IF t \in S THEN NoRun ELSE run[t]],
           claim' \in [Workers -> SUBSET Jobs],
           faults' \in 0..MaxFaults, requests' \in 0..MaxRequests
    PROVE  IInv'
<1>1. TypeOK'
    BY ConstantRows DEF IInv, TypeOK
<1>2. \A t \in Tokens : run'[t] = run[t] \/ run'[t].phase = "free"
    BY DEF NoRun
<1>3. OneLeasePerToken' /\ RunsAreClaims' /\ LeaseCopyCurrent' /\ ChecksNeverRefuse' /\ WorkIsPermitted'
    BY <1>2
    DEF IInv, TypeOK, OneLeasePerToken, RunsAreClaims, LeaseCopyCurrent,
        ChecksNeverRefuse, WorkIsPermitted, Live, Holds, MayWork, Row
<1> QED BY <1>1, <1>3 DEF IInv

(* A run that gives up the row it holds keeps the invariant, provided the  *)
(* new row is out of lease and within the CHECK constraints.               *)
LEMMA RowGivenUp ==
    ASSUME IInv, NEW t \in Tokens, Holds(t),
           NEW r \in Row,
           r.token = None,
           r.state \in {"pending"} \cup Settled,
           r.resource_failures \in 0..2,
           r.state = "pending" => r.resource_failures \in 0..1,
           row' = [row EXCEPT ![run[t].job] = r],
           run' = [run EXCEPT ![t] = NoRun],
           UNCHANGED <<claim, faults, requests>>
    PROVE  IInv'
<1> DEFINE j == run[t].job
<1>1. j \in Jobs /\ row[j].token = t
    BY DEF IInv, RunsAreClaims, Holds
<1>2. TypeOK'
    BY <1>1, ConstantRows DEF IInv, TypeOK
<1>3. run'[t].phase = "free" /\ \A u \in Tokens : u # t => run'[u] = run[u]
    BY DEF IInv, TypeOK, NoRun
<1>4. row'[j] = r /\ \A k \in Jobs : k # j => row'[k] = row[k]
    BY <1>1 DEF IInv, TypeOK
<1>5. \A k \in Jobs : k # j => row[k].token # t
    BY <1>1, ConstantsAssumption DEF IInv, OneLeasePerToken
<1>6. OneLeasePerToken'
    BY <1>1, <1>3, <1>4, <1>5, ConstantsAssumption DEF IInv, OneLeasePerToken, Live, TypeOK, Row
<1>7. RunsAreClaims' /\ WorkIsPermitted'
    BY <1>3 DEF IInv, RunsAreClaims, WorkIsPermitted, Live, MayWork
<1>8. LeaseCopyCurrent'
    BY <1>1, <1>3, <1>4, ConstantsAssumption
    DEF IInv, LeaseCopyCurrent, RunsAreClaims, Holds, Live
<1>9. ChecksNeverRefuse'
    BY <1>4 DEF IInv, ChecksNeverRefuse
<1> QED BY <1>2, <1>6, <1>7, <1>8, <1>9 DEF IInv

(* release_job keeps the invariant: it fails when the row is not the run's,*)
(* and a charge is made only for a run whose copy counts no failure yet.   *)
LEMMA ReleaseJobKeepsIInv ==
    ASSUME IInv, NEW t \in Tokens, Live(t),
           NEW available \in BOOLEAN, NEW charge \in 0..1, NEW refund \in 0..1,
           charge = 1 => run[t].resource_failures = 0,
           ReleaseJob(t, available, charge, refund)
    PROVE  IInv'
<1> DEFINE j == run[t].job
           r == Released(row[j], available, charge, refund)
<1>1. CASE Holds(t)
  <2>1. j \in Jobs /\ row[j].token = t
      BY <1>1 DEF IInv, RunsAreClaims, Holds
  <2>2. row[j] \in Row /\ row[j].state = "leased"
      BY <2>1, ConstantsAssumption DEF IInv, TypeOK, OneLeasePerToken
  <2>3. row[j].attempt >= 1 /\ row[j].resource_failures \in 0..1
      BY <2>1, <2>2 DEF IInv, ChecksNeverRefuse
  <2>4. row[j].resource_failures = run[t].resource_failures
      BY <1>1 DEF IInv, LeaseCopyCurrent
  <2>5. r \in Row /\ r.state = "pending" /\ r.token = None
        /\ r.resource_failures = row[j].resource_failures + charge
      BY <2>2, <2>3, ReleasedRow
  <2>6. r.resource_failures \in 0..1 /\ r.resource_failures \in 0..2
      BY <2>3, <2>4, <2>5
  <2>7. row' = [row EXCEPT ![j] = r] /\ run' = [run EXCEPT ![t] = NoRun]
        /\ UNCHANGED <<claim, faults, requests>>
      BY <1>1 DEF ReleaseJob, Free
  <2> HIDE DEF r
  <2> QED BY <1>1, <2>5, <2>6, <2>7, RowGivenUp
<1>2. CASE ~Holds(t)
  <2>1. row' = row /\ claim' \in [Workers -> SUBSET Jobs]
        /\ faults' \in 0..MaxFaults /\ requests' \in 0..MaxRequests
      BY <1>2 DEF ReleaseJob, IInv, TypeOK
  <2>2. run' = [u \in Tokens |-> IF u \in {t} THEN NoRun ELSE run[u]]
      BY DEF ReleaseJob, Free, IInv, TypeOK
  <2>3. {t} \in SUBSET Tokens
      OBVIOUS
  <2> QED BY <2>1, <2>2, <2>3, RunEnds
<1> QED BY <1>1, <1>2

(* A transaction that locks the lease first keeps the invariant: it rolls  *)
(* back when the lease is lost, requeues for a newer generation, or settles.*)
LEMMA CloseJobKeepsIInv ==
    ASSUME IInv, NEW t \in Tokens, Live(t),
           NEW state \in Settled, NEW charge \in 0..1,
           CloseJob(t, state, charge)
    PROVE  IInv'
<1> DEFINE j == run[t].job
<1>1. CASE Active(t)
  <2>1. Holds(t) /\ j \in Jobs /\ row[j].token = t
      BY <1>1 DEF IInv, RunsAreClaims, Holds, Active
  <2>2. row[j] \in Row /\ row[j].state = "leased"
      BY <2>1, ConstantsAssumption DEF IInv, TypeOK, OneLeasePerToken
  <2>3. row[j].resource_failures \in 0..1
      BY <2>1, <2>2 DEF IInv, ChecksNeverRefuse
  <2>4. run' = [run EXCEPT ![t] = NoRun] /\ UNCHANGED <<claim, faults, requests>>
      BY DEF CloseJob, Free
  <2>5. CASE row[j].newer
    <3>1. row' = [row EXCEPT ![j] = Requeued]
        BY <1>1, <2>5 DEF CloseJob
    <3>2. Requeued \in Row /\ Requeued.token = None /\ Requeued.state = "pending"
          /\ Requeued.resource_failures \in 0..1 /\ Requeued.resource_failures \in 0..2
        BY ConstantRows DEF Requeued, NoRow
    <3> QED BY <2>1, <2>4, <3>1, <3>2, RowGivenUp
  <2>6. CASE ~row[j].newer
    <3> DEFINE r == Closed(row[j], state, charge)
    <3>1. row' = [row EXCEPT ![j] = r]
        BY <1>1, <2>6 DEF CloseJob
    <3>2. r \in Row /\ r.state = state /\ r.token = None
          /\ r.resource_failures = row[j].resource_failures + charge
        BY <2>2, ClosedRow
    <3>3. r.resource_failures \in 0..2
        BY <2>3, <3>2
    <3> HIDE DEF r
    <3> QED BY <2>1, <2>4, <3>1, <3>2, <3>3, RowGivenUp
  <2> QED BY <2>5, <2>6
<1>2. CASE ~Active(t)
  <2>1. row' = row /\ claim' \in [Workers -> SUBSET Jobs]
        /\ faults' \in 0..MaxFaults /\ requests' \in 0..MaxRequests
      BY <1>2 DEF CloseJob, IInv, TypeOK
  <2>2. run' = [u \in Tokens |-> IF u \in {t} THEN NoRun ELSE run[u]]
      BY DEF CloseJob, Free, IInv, TypeOK
  <2>3. {t} \in SUBSET Tokens
      OBVIOUS
  <2> QED BY <2>1, <2>2, <2>3, RunEnds
<1> QED BY <1>1, <1>2

-----------------------------------------------------------------------------
(* One lemma per group of actions.                                         *)

(* Inserting, reactivating and ageing a row keep the invariant.            *)
LEMMA JobStepKeepsIInv ==
    ASSUME IInv, NEW j \in Jobs, JobStep(j)
    PROVE  IInv'
<1> DEFINE fresh == [NoRow EXCEPT !.state = "pending", !.available = TRUE]
<1>0. fresh \in Row /\ fresh.state = "pending" /\ fresh.token = None
      /\ fresh.resource_failures = 0
    BY DEF NoRow, Row
<1> HIDE DEF fresh
<1>a. ASSUME row' = [row EXCEPT ![j] = fresh], row[j].state # "leased",
             UNCHANGED <<run, claim>>,
             faults' \in 0..MaxFaults, requests' \in 0..MaxRequests
      PROVE  IInv'
  <2>1. row'[j] = fresh /\ \A k \in Jobs : k # j => row'[k] = row[k]
      BY <1>a DEF IInv, TypeOK
  <2>2. TypeOK'
      BY <1>a, <1>0 DEF IInv, TypeOK
  <2>3. row[j].token = None
      BY <1>a DEF IInv, OneLeasePerToken
  <2>4. OneLeasePerToken' /\ RunsAreClaims' /\ LeaseCopyCurrent' /\ ChecksNeverRefuse' /\ WorkIsPermitted'
      BY <1>a, <1>0, <2>1, <2>3, ConstantsAssumption
      DEF IInv, OneLeasePerToken, RunsAreClaims, LeaseCopyCurrent, ChecksNeverRefuse,
          WorkIsPermitted, Live, Holds, MayWork
  <2> QED BY <2>2, <2>4 DEF IInv
<1>b. ASSUME NEW r \in Row, row' = [row EXCEPT ![j] = r],
             r.state = row[j].state, r.token = row[j].token,
             r.attempt = row[j].attempt, r.resource_failures = row[j].resource_failures,
             UNCHANGED <<run, claim>>,
             faults' \in 0..MaxFaults, requests' \in 0..MaxRequests
      PROVE  IInv'
  <2>1. row'[j] = r /\ \A k \in Jobs : k # j => row'[k] = row[k]
      BY <1>b DEF IInv, TypeOK
  <2>2. TypeOK'
      BY <1>b DEF IInv, TypeOK
  <2>4. OneLeasePerToken' /\ RunsAreClaims' /\ LeaseCopyCurrent' /\ ChecksNeverRefuse' /\ WorkIsPermitted'
      BY <1>b, <2>1
      DEF IInv, OneLeasePerToken, RunsAreClaims, LeaseCopyCurrent, ChecksNeverRefuse,
          WorkIsPermitted, Live, Holds, MayWork
  <2> QED BY <2>2, <2>4 DEF IInv
<1>c. row[j] \in Row
    BY DEF IInv, TypeOK
<1>1. CASE Enqueue(j)
    BY <1>1, <1>a DEF Enqueue, IInv, TypeOK, fresh
<1>2. CASE Reactivate(j)
  <2>1. requests' \in 0..MaxRequests /\ faults' \in 0..MaxFaults /\ UNCHANGED <<run, claim>>
      BY <1>2, ConstantsAssumption DEF Reactivate, IInv, TypeOK
  <2>2. CASE row[j].state = "leased"
    <3> DEFINE r == [row[j] EXCEPT !.newer = TRUE]
    <3>1. row' = [row EXCEPT ![j] = r]
        BY <1>2, <2>2 DEF Reactivate
    <3>2. r \in Row /\ r.state = row[j].state /\ r.token = row[j].token
          /\ r.attempt = row[j].attempt /\ r.resource_failures = row[j].resource_failures
        BY <1>c DEF Row
    <3> HIDE DEF r
    <3> QED BY <2>1, <3>1, <3>2, <1>b
  <2>3. CASE row[j].state # "leased"
    <3>1. row' = [row EXCEPT ![j] = fresh]
        BY <1>2, <2>3 DEF Reactivate, fresh
    <3> QED BY <2>1, <2>3, <3>1, <1>a
  <2> QED BY <2>2, <2>3
<1>3. CASE BecomeAvailable(j)
  <2> DEFINE r == [row[j] EXCEPT !.available = TRUE]
  <2>1. row' = [row EXCEPT ![j] = r]
      BY <1>3 DEF BecomeAvailable, IInv, TypeOK
  <2>2. r \in Row /\ r.state = row[j].state /\ r.token = row[j].token
        /\ r.attempt = row[j].attempt /\ r.resource_failures = row[j].resource_failures
      BY <1>c DEF Row
  <2>3. faults' \in 0..MaxFaults /\ requests' \in 0..MaxRequests /\ UNCHANGED <<run, claim>>
      BY <1>3 DEF BecomeAvailable, IInv, TypeOK
  <2> HIDE DEF r
  <2> QED BY <2>1, <2>2, <2>3, <1>b
<1>4. CASE ExpireAbandoned(j) \/ ExpireStalled(j)
  <2> DEFINE r == [row[j] EXCEPT !.expired = TRUE]
  <2>1. row' = [row EXCEPT ![j] = r]
      BY <1>4 DEF ExpireAbandoned, ExpireStalled, IInv, TypeOK
  <2>2. r \in Row /\ r.state = row[j].state /\ r.token = row[j].token
        /\ r.attempt = row[j].attempt /\ r.resource_failures = row[j].resource_failures
      BY <1>c DEF Row
  <2>3. faults' \in 0..MaxFaults /\ requests' \in 0..MaxRequests /\ UNCHANGED <<run, claim>>
      BY <1>4, ConstantsAssumption DEF ExpireAbandoned, ExpireStalled, Fault, IInv, TypeOK
  <2> HIDE DEF r
  <2> QED BY <2>1, <2>2, <2>3, <1>b
<1> QED BY <1>1, <1>2, <1>3, <1>4 DEF JobStep

(* A run that changes nothing but its phase to one that is not "working",  *)
(* its heartbeat or its container keeps the invariant.                     *)
LEMMA RunChanges ==
    ASSUME IInv, row' = row,
           run' \in [Tokens -> Run],
           \A t \in Tokens :
               /\ run'[t].job = run[t].job
               /\ run'[t].worker = run[t].worker
               /\ run'[t].attempt = run[t].attempt
               /\ run'[t].resource_failures = run[t].resource_failures
               /\ run'[t].phase = "free" <=> run[t].phase = "free"
               /\ run'[t].phase = "working" => run[t].phase = "working",
           claim' = claim, faults' \in 0..MaxFaults, requests' = requests
    PROVE  IInv'
<1>1. TypeOK'
    BY DEF IInv, TypeOK
<1>2. \A t \in Tokens : Live(t)' <=> Live(t)
    BY DEF Live
<1>3. OneLeasePerToken'
    BY <1>2 DEF IInv, TypeOK, OneLeasePerToken, Row
<1>4. RunsAreClaims' /\ ChecksNeverRefuse' /\ WorkIsPermitted'
    BY <1>2 DEF IInv, RunsAreClaims, ChecksNeverRefuse, WorkIsPermitted, MayWork
<1>5. LeaseCopyCurrent'
    BY <1>2 DEF IInv, LeaseCopyCurrent, Holds
<1> QED BY <1>1, <1>3, <1>4, <1>5 DEF IInv

(* A heartbeat, a removed container, an outcome, a publication and every   *)
(* branch of finish_result keep the invariant.                             *)
LEMMA RunStepKeepsIInv ==
    ASSUME IInv, NEW t \in Tokens, RunStep(t)
    PROVE  IInv'
<1>0. run[t] \in Run /\ run \in [Tokens -> Run]
    BY DEF IInv, TypeOK
<1>n. 0 \in 0..1 /\ 1 \in 0..1 /\ 0 # 1
    OBVIOUS
<1>1. CASE Heartbeat(t) /\ Holds(t)
  <2> DEFINE j == run[t].job
             r == [row[j] EXCEPT !.expired = FALSE]
  <2>1. j \in Jobs /\ row[j] \in Row
      BY <1>1 DEF IInv, TypeOK, RunsAreClaims, Holds
  <2>2. row' = [row EXCEPT ![j] = r] /\ UNCHANGED <<run, claim, faults, requests>>
      BY <1>1, <2>1 DEF Heartbeat, IInv, TypeOK
  <2>3. r \in Row /\ r.state = row[j].state /\ r.token = row[j].token
        /\ r.attempt = row[j].attempt /\ r.resource_failures = row[j].resource_failures
      BY <2>1 DEF Row
  <2> HIDE DEF r
  <2>4. row'[j] = r /\ \A k \in Jobs : k # j => row'[k] = row[k]
      BY <2>1, <2>2 DEF IInv, TypeOK
  <2>5. TypeOK'
      BY <2>1, <2>2, <2>3 DEF IInv, TypeOK
  <2>6. OneLeasePerToken' /\ RunsAreClaims' /\ LeaseCopyCurrent' /\ ChecksNeverRefuse' /\ WorkIsPermitted'
      BY <2>1, <2>2, <2>3, <2>4
      DEF IInv, OneLeasePerToken, RunsAreClaims, LeaseCopyCurrent, ChecksNeverRefuse,
          WorkIsPermitted, Live, Holds, MayWork
  <2> QED BY <2>5, <2>6 DEF IInv
<1>2. CASE (Heartbeat(t) /\ ~Holds(t)) \/ HeartbeatError(t)
  <2>1. run' = [run EXCEPT ![t] = [run[t] EXCEPT !.heartbeat = FALSE]]
      BY <1>2, <1>0 DEF Heartbeat, HeartbeatError
  <2>2. [run[t] EXCEPT !.heartbeat = FALSE] \in Run
      BY <1>0 DEF Run
  <2>3. row' = row /\ claim' = claim /\ faults' \in 0..MaxFaults /\ requests' = requests
      BY <1>2, ConstantsAssumption DEF Heartbeat, HeartbeatError, Fault, IInv, TypeOK
  <2> QED BY <1>0, <2>1, <2>2, <2>3, RunChanges
<1>3. CASE ReconcileContainer(t)
  <2>1. run' = [run EXCEPT ![t] = [run[t] EXCEPT !.container = FALSE]]
      BY <1>3, <1>0 DEF ReconcileContainer
  <2>2. [run[t] EXCEPT !.container = FALSE] \in Run
      BY <1>0 DEF Run
  <2>3. row' = row /\ claim' = claim /\ faults' \in 0..MaxFaults /\ requests' = requests
      BY <1>3 DEF ReconcileContainer, IInv, TypeOK
  <2> QED BY <1>0, <2>1, <2>2, <2>3, RunChanges
<1>4. CASE Publish(t)
  <2>1. Live(t) /\ CloseJob(t, "completed", 0)
      BY <1>4 DEF Publish, Live
  <2> QED BY <2>1, <1>n, CloseJobKeepsIInv
<1>5. ASSUME NEW error \in Errors, Outcome(t, error)
      PROVE  IInv'
  <2>1. run' = [run EXCEPT ![t] = [run[t] EXCEPT !.phase = error, !.heartbeat = FALSE]]
      BY <1>5, <1>0 DEF Outcome
  <2>2. [run[t] EXCEPT !.phase = error, !.heartbeat = FALSE] \in Run
      BY <1>0 DEF Run
  <2>3. row' = row /\ claim' = claim /\ faults' \in 0..MaxFaults /\ requests' = requests
        /\ run[t].phase = "working"
      BY <1>5 DEF Outcome, IInv, TypeOK
  <2> QED BY <1>0, <2>1, <2>2, <2>3, RunChanges
<1>6. CASE FinishResult(t)
  <2>1. CASE WaitForDependency(t)
    <3>1. Live(t) /\ ReleaseJob(t, FALSE, 0, 1)
        BY <2>1 DEF WaitForDependency, Live
    <3> QED BY <3>1, <1>n, ReleaseJobKeepsIInv
  <2>2. CASE CancelJob(t)
    <3>1. Live(t) /\ ReleaseJob(t, TRUE, 0, 1)
        BY <2>2 DEF CancelJob, Live
    <3> QED BY <3>1, <1>n, ReleaseJobKeepsIInv
  <2>3. CASE Retry(t)
    <3>1. Live(t)
        BY <2>3 DEF Retry, Live
    <3>2. CASE ReleaseJob(t, FALSE, 0, 0)
        BY <3>1, <3>2, <1>n, ReleaseJobKeepsIInv
    <3>3. CASE ReleaseJob(t, FALSE, 1, 0) /\ run[t].resource_failures = 0
        BY <3>1, <3>3, <1>n, ReleaseJobKeepsIInv
    <3> QED BY <2>3, <3>2, <3>3 DEF Retry
  <2>4. CASE Quarantine(t) \/ FailJob(t)
    <3>1. Live(t)
        BY <2>4 DEF Quarantine, FailJob, Live
    <3>2. CASE CloseJob(t, "failed", 0)
        BY <3>1, <3>2, <1>n, CloseJobKeepsIInv
    <3>3. CASE CloseJob(t, "dead", 0)
        BY <3>1, <3>3, <1>n, CloseJobKeepsIInv
    <3> QED BY <2>4, <3>2, <3>3 DEF Quarantine, FailJob
  <2>5. CASE QuarantineResource(t)
    <3>1. Live(t) /\ CloseJob(t, "failed", 1)
        BY <2>5 DEF QuarantineResource, Live
    <3> QED BY <3>1, <1>n, CloseJobKeepsIInv
  <2> QED BY <1>6, <2>1, <2>2, <2>3, <2>4, <2>5 DEF FinishResult
<1>7. CASE FinishLost(t)
  <2>1. row' = row /\ claim' \in [Workers -> SUBSET Jobs]
        /\ faults' \in 0..MaxFaults /\ requests' \in 0..MaxRequests
      BY <1>7, ConstantsAssumption DEF FinishLost, Fault, IInv, TypeOK
  <2>2. run' = [u \in Tokens |-> IF u \in {t} THEN NoRun ELSE run[u]]
      BY <1>7, <1>0 DEF FinishLost, Free
  <2>3. {t} \in SUBSET Tokens
      OBVIOUS
  <2> QED BY <2>1, <2>2, <2>3, RunEnds
<1> QED BY <1>1, <1>2, <1>3, <1>4, <1>5, <1>6, <1>7 DEF RunStep

(* A claim keeps the invariant: the new run's copy is the row it writes.   *)
LEMMA FinishClaimKeepsIInv ==
    ASSUME IInv, NEW w \in Workers, NEW j \in Jobs, NEW t \in Tokens, FinishClaim(w, j, t)
    PROVE  IInv'
<1> DEFINE a == row[j].attempt + 1
           rf == row[j].resource_failures
           r == row'[j]
           u == run'[t]
<1>1. row \in [Jobs -> Row] /\ run \in [Tokens -> Run] /\ row[j] \in Row
    BY DEF IInv, TypeOK
<1>2. a \in Nat /\ a >= 1 /\ rf \in 0..1
  <2>1. row[j].state \notin Settled
      BY DEF FinishClaim, Eligible
  <2> QED BY <1>1, <2>1 DEF IInv, ChecksNeverRefuse, Row
<1>3. row' = [row EXCEPT ![j] = r]
      /\ r = [row[j] EXCEPT !.state = "leased", !.attempt = a, !.token = t,
                            !.expired = FALSE, !.newer = FALSE]
    BY <1>1 DEF FinishClaim
<1>4. r \in Row /\ r.state = "leased" /\ r.attempt = a /\ r.token = t /\ r.resource_failures = rf
    BY <1>1, <1>2, <1>3 DEF Row
<1>5. run' = [run EXCEPT ![t] = u]
      /\ u = [phase |-> IF MayWork(a, rf) THEN "working" ELSE "transient",
              worker |-> w, job |-> j, attempt |-> a, resource_failures |-> rf,
              heartbeat |-> MayWork(a, rf), container |-> TRUE]
    BY <1>1 DEF FinishClaim
<1>6. u.phase \in {"working", "transient"} /\ u.worker = w /\ u.job = j
      /\ u.attempt = a /\ u.resource_failures = rf
      /\ (u.phase = "working" => MayWork(a, rf))
    BY <1>5
<1>7. u \in Run
    BY <1>2, <1>5 DEF Run, MayWork
<1>8. Fresh(t)
    BY DEF FinishClaim
<1>9. row' = [row EXCEPT ![j] = r] /\ run' = [run EXCEPT ![t] = u]
    BY <1>3, <1>5
<1>10. claim' \in [Workers -> SUBSET Jobs] /\ faults' = faults /\ requests' = requests
    BY DEF FinishClaim, IInv, TypeOK
<1>11. TypeOK'
    BY <1>4, <1>7, <1>9, <1>10 DEF IInv, TypeOK
<1> HIDE DEF r, u, a, rf
<1>12. \A k \in Jobs : k # j => row'[k] = row[k] /\ row[k].token # t
    BY <1>1, <1>8, <1>9 DEF Fresh
<1>13. \A v \in Tokens : v # t => run'[v] = run[v]
    BY <1>1, <1>9
<1>14. row'[j] = r /\ run'[t] = u
    BY DEF r, u
<1>15. OneLeasePerToken'
    BY <1>1, <1>4, <1>6, <1>12, <1>13, <1>14, ConstantsAssumption
    DEF IInv, OneLeasePerToken, Live, Row
<1>16. RunsAreClaims' /\ WorkIsPermitted'
    BY <1>6, <1>13, <1>14 DEF IInv, RunsAreClaims, WorkIsPermitted, Live, MayWork
<1>17. LeaseCopyCurrent'
    BY <1>4, <1>6, <1>12, <1>13, <1>14 DEF IInv, LeaseCopyCurrent, RunsAreClaims, Holds, Live
<1>18. ChecksNeverRefuse'
    BY <1>2, <1>4, <1>12, <1>14 DEF IInv, ChecksNeverRefuse
<1> QED BY <1>11, <1>15, <1>16, <1>17, <1>18 DEF IInv

(* Claims, shutdown and crash of a worker keep the invariant.              *)
LEMMA WorkerStepKeepsIInv ==
    ASSUME IInv, NEW w \in Workers, WorkerStep(w)
    PROVE  IInv'
<1>0. run \in [Tokens -> Run] /\ row \in [Jobs -> Row]
    BY DEF IInv, TypeOK
<1>1. CASE BeginClaim(w) \/ FailClaim(w)
  <2>1. row' = row /\ run' = run /\ faults' = faults /\ requests' = requests
        /\ claim' \in [Workers -> SUBSET Jobs]
      BY <1>1 DEF BeginClaim, FailClaim, Candidates, IInv, TypeOK
  <2>2. {} \in SUBSET Tokens /\ run' = [u \in Tokens |-> IF u \in {} THEN NoRun ELSE run[u]]
      BY <1>0, <2>1
  <2>3. faults' \in 0..MaxFaults /\ requests' \in 0..MaxRequests
      BY <2>1 DEF IInv, TypeOK
  <2> QED BY <2>1, <2>2, <2>3, RunEnds
<1>2. ASSUME NEW j \in Jobs, NEW t \in Tokens, FinishClaim(w, j, t)
      PROVE  IInv'
    BY <1>2, FinishClaimKeepsIInv
<1>3. CASE Shutdown(w)
  <2>1. \A t \in Tokens : t \in RunsOf(w) =>
          /\ run'[t] = [run[t] EXCEPT !.phase = "cancelled", !.heartbeat = FALSE]
          /\ run[t].phase # "free"
      BY <1>3 DEF Shutdown, RunsOf, Live
  <2>2. \A t \in Tokens : t \notin RunsOf(w) => run'[t] = run[t]
      BY <1>3 DEF Shutdown
  <2>3. \A t \in Tokens : [run[t] EXCEPT !.phase = "cancelled", !.heartbeat = FALSE] \in Run
      BY <1>0 DEF Run
  <2>4. run' \in [Tokens -> Run]
      BY <1>0, <1>3, <2>3 DEF Shutdown
  <2>5. row' = row /\ claim' = claim /\ requests' = requests /\ Fault
      BY <1>3 DEF Shutdown
  <2>7. faults' \in 0..MaxFaults
      BY <2>5, ConstantsAssumption DEF Fault, IInv, TypeOK
  <2>6. \A t \in Tokens :
               /\ run'[t].job = run[t].job
               /\ run'[t].worker = run[t].worker
               /\ run'[t].attempt = run[t].attempt
               /\ run'[t].resource_failures = run[t].resource_failures
               /\ run'[t].phase = "free" <=> run[t].phase = "free"
               /\ run'[t].phase = "working" => run[t].phase = "working"
    <3> SUFFICES ASSUME NEW t \in Tokens
                 PROVE  /\ run'[t].job = run[t].job
                        /\ run'[t].worker = run[t].worker
                        /\ run'[t].attempt = run[t].attempt
                        /\ run'[t].resource_failures = run[t].resource_failures
                        /\ run'[t].phase = "free" <=> run[t].phase = "free"
                        /\ run'[t].phase = "working" => run[t].phase = "working"
        OBVIOUS
    <3>1. CASE t \in RunsOf(w)
      <4> DEFINE c == [run[t] EXCEPT !.phase = "cancelled", !.heartbeat = FALSE]
      <4>1. run[t] \in Run
          BY <1>0
      <4>2. /\ c.job = run[t].job
            /\ c.worker = run[t].worker
            /\ c.attempt = run[t].attempt
            /\ c.resource_failures = run[t].resource_failures
            /\ c.phase = "cancelled"
          BY <4>1 DEF Run
      <4>3. run'[t] = c /\ run[t].phase # "free"
          BY <2>1, <3>1
      <4> HIDE DEF c
      <4> QED BY <4>2, <4>3
    <3>2. CASE t \notin RunsOf(w)
        BY <2>2, <3>2
    <3> QED BY <3>1, <3>2
  <2> QED BY <2>4, <2>5, <2>6, <2>7, RunChanges
<1>4. CASE Crash(w)
  <2>1. row' = row /\ claim' \in [Workers -> SUBSET Jobs]
        /\ faults' \in 0..MaxFaults /\ requests' \in 0..MaxRequests
      BY <1>4, ConstantsAssumption DEF Crash, Fault, IInv, TypeOK
  <2>2. RunsOf(w) \in SUBSET Tokens
        /\ run' = [u \in Tokens |-> IF u \in RunsOf(w) THEN NoRun ELSE run[u]]
      BY <1>4 DEF Crash, RunsOf
  <2> QED BY <2>1, <2>2, RunEnds
<1> QED BY <1>1, <1>2, <1>3, <1>4 DEF WorkerStep

(* The invariant is inductive.                                             *)
LEMMA NextIInv == IInv /\ [Next]_vars => IInv'
<1> SUFFICES ASSUME IInv, [Next]_vars PROVE IInv'
    OBVIOUS
<1>1. CASE Next
    BY <1>1, JobStepKeepsIInv, RunStepKeepsIInv, WorkerStepKeepsIInv DEF Next
<1>2. CASE UNCHANGED vars
    BY <1>2 DEF vars, IInv, TypeOK, OneLeasePerToken, RunsAreClaims, LeaseCopyCurrent,
        ChecksNeverRefuse, WorkIsPermitted, Live, Holds, MayWork
<1> QED BY <1>1, <1>2

(* The inductive invariant holds in every reachable state.                 *)
THEOREM InductiveInvariant == Spec => []IInv
BY InitIInv, NextIInv, PTL DEF Spec

(* Type correctness of the whole state.                                    *)
THEOREM TypeCorrect == Spec => []TypeOK
BY InductiveInvariant, PTL DEF IInv

(* The lease columns and the runs agree: one row per token.                *)
THEOREM LeasesAreExclusive == Spec => []OneLeasePerToken
BY InductiveInvariant, PTL DEF IInv

(* The copy of the row that finish_result decides from is exact while the  *)
(* run holds the row.                                                      *)
THEOREM CopiesAreCurrent == Spec => []LeaseCopyCurrent
BY InductiveInvariant, PTL DEF IInv

(* No update of the jobs table is refused by its CHECK constraints.        *)
THEOREM ChecksHold == Spec => []ChecksNeverRefuse
BY InductiveInvariant, PTL DEF IInv

(* No run works on a row beyond its retry budget.                          *)
THEOREM BudgetHolds == Spec => []BudgetRespected
<1>1. IInv => BudgetRespected
    BY ConstantsAssumption
    DEF IInv, WorkIsPermitted, LeaseCopyCurrent, BudgetRespected, MayWork, RunsAreClaims,
        Holds, TypeOK, Row
<1> QED BY <1>1, InductiveInvariant, PTL

-----------------------------------------------------------------------------
(* JobQueue implements LeaseQueue.                                         *)

(* A step that leaves every row's state and token and every run's liveness *)
(* alone is a stuttering step of LeaseQueue.                               *)
LEMMA QueueStutter ==
    ASSUME IInv,
           \A j \in Jobs : row'[j].state = row[j].state /\ row'[j].token = row[j].token,
           \A t \in Tokens : Live(t)' <=> Live(t)
    PROVE  UNCHANGED Queue!vars
<1>1. queuePhase' = queuePhase
    BY DEF queuePhase, PhaseOf
<1>2. queueHolder' = queueHolder
    BY DEF queueHolder
<1>3. queueActing' = queueActing
    BY DEF queueActing
<1> QED BY <1>1, <1>2, <1>3 DEF Queue!vars

(* Runs that end and leave every row alone are a Stop step of LeaseQueue.  *)
LEMMA QueueStop ==
    ASSUME row' = row, \A t \in Tokens : Live(t)' => Live(t)
    PROVE  Queue!Next
<1>1. queuePhase' = queuePhase /\ queueHolder' = queueHolder
    BY DEF queuePhase, queueHolder, PhaseOf
<1>2. queueActing' \in SUBSET queueActing
    BY DEF queueActing
<1>3. Queue!Stop
    BY <1>1, <1>2 DEF Queue!Stop
<1> QED BY <1>3 DEF Queue!Next

(* A run that gives up the row it holds takes a Return or Settle step.     *)
LEMMA QueueGiveUp ==
    ASSUME IInv, NEW t \in Tokens, Holds(t),
           NEW r \in Row, r.token = None, r.state \in {"pending"} \cup Settled,
           row' = [row EXCEPT ![run[t].job] = r],
           run' = [run EXCEPT ![t] = NoRun]
    PROVE  Queue!Next
<1> DEFINE j == run[t].job
           next == IF r.state = "pending" THEN "waiting" ELSE "settled"
<1>1. j \in Jobs /\ row[j].token = t /\ row[j].state = "leased" /\ Live(t)
    BY ConstantsAssumption DEF IInv, RunsAreClaims, OneLeasePerToken, Holds
<1>2. row'[j] = r /\ \A k \in Jobs : k # j => row'[k] = row[k]
    BY <1>1 DEF IInv, TypeOK
<1>3. queuePhase[j] = "held" /\ queueHolder[j] = t /\ t \in queueActing
    BY <1>1 DEF queuePhase, queueHolder, queueActing, PhaseOf
<1>4. queuePhase' = [queuePhase EXCEPT ![j] = next]
    BY <1>1, <1>2 DEF queuePhase, PhaseOf
<1>5. queueHolder' = [queueHolder EXCEPT ![j] = None]
  <2>1. \A k \in Jobs : row'[k].token = IF k = j THEN None ELSE row[k].token
      BY <1>2
  <2> HIDE DEF j
  <2> QED BY <1>1, <2>1 DEF queueHolder
<1>6. queueActing' = queueActing \ {queueHolder[j]}
    BY <1>1, <1>3 DEF queueActing, Live, NoRun, IInv, TypeOK
<1>7. Queue!GiveUp(j, next)
    BY <1>3, <1>4, <1>5, <1>6 DEF Queue!GiveUp
<1>8. Queue!Return(j) \/ Queue!Settle(j)
    BY <1>7 DEF Queue!Return, Queue!Settle
<1> QED BY <1>1, <1>8 DEF Queue!Next

(* release_job is a Return by the holder, or the end of a run that lost its*)
(* lease.                                                                  *)
LEMMA QueueRelease ==
    ASSUME IInv, NEW t \in Tokens, Live(t),
           NEW available \in BOOLEAN, NEW charge \in 0..1, NEW refund \in 0..1,
           ReleaseJob(t, available, charge, refund)
    PROVE  Queue!Next
<1> DEFINE j == run[t].job
           r == Released(row[j], available, charge, refund)
<1>1. CASE Holds(t)
  <2>1. j \in Jobs /\ row[j].token = t
      BY <1>1 DEF IInv, RunsAreClaims, Holds
  <2>2. row[j] \in Row /\ row[j].state = "leased"
      BY <2>1, ConstantsAssumption DEF IInv, TypeOK, OneLeasePerToken
  <2>3. row[j].attempt >= 1
      BY <2>1, <2>2 DEF IInv, ChecksNeverRefuse
  <2>4. r \in Row /\ r.state = "pending" /\ r.token = None
      BY <2>2, <2>3, ReleasedRow
  <2>5. row' = [row EXCEPT ![j] = r] /\ run' = [run EXCEPT ![t] = NoRun]
      BY <1>1 DEF ReleaseJob, Free
  <2> HIDE DEF r
  <2> QED BY <1>1, <2>4, <2>5, QueueGiveUp
<1>2. CASE ~Holds(t)
  <2>1. row' = row /\ run' = [run EXCEPT ![t] = NoRun]
      BY <1>2 DEF ReleaseJob, Free
  <2>2. \A u \in Tokens : Live(u)' => Live(u)
      BY <2>1 DEF Live, NoRun, IInv, TypeOK
  <2> QED BY <2>1, <2>2, QueueStop
<1> QED BY <1>1, <1>2

(* A transaction that locks the lease first is a Settle or a Return by the *)
(* holder, or the end of a run that lost its lease.                        *)
LEMMA QueueClose ==
    ASSUME IInv, NEW t \in Tokens, Live(t),
           NEW state \in Settled, NEW charge \in 0..1,
           CloseJob(t, state, charge)
    PROVE  Queue!Next
<1> DEFINE j == run[t].job
<1>0. run' = [run EXCEPT ![t] = NoRun]
    BY DEF CloseJob, Free
<1>1. CASE Active(t)
  <2>1. Holds(t) /\ j \in Jobs /\ row[j] \in Row
      BY <1>1 DEF IInv, TypeOK, RunsAreClaims, Holds, Active
  <2>2. CASE row[j].newer
    <3>1. row' = [row EXCEPT ![j] = Requeued]
        BY <1>1, <2>2 DEF CloseJob
    <3>2. Requeued \in Row /\ Requeued.token = None /\ Requeued.state = "pending"
        BY ConstantRows DEF Requeued, NoRow
    <3> QED BY <1>0, <2>1, <3>1, <3>2, QueueGiveUp
  <2>3. CASE ~row[j].newer
    <3> DEFINE r == Closed(row[j], state, charge)
    <3>1. row' = [row EXCEPT ![j] = r]
        BY <1>1, <2>3 DEF CloseJob
    <3>2. r \in Row /\ r.state = state /\ r.token = None
        BY <2>1, ClosedRow
    <3> HIDE DEF r
    <3> QED BY <1>0, <2>1, <3>1, <3>2, QueueGiveUp
  <2> QED BY <2>2, <2>3
<1>2. CASE ~Active(t)
  <2>1. row' = row
      BY <1>2 DEF CloseJob
  <2>2. \A u \in Tokens : Live(u)' => Live(u)
      BY <1>0 DEF Live, NoRun, IInv, TypeOK
  <2> QED BY <2>1, <2>2, QueueStop
<1> QED BY <1>1, <1>2

(* Submit, Reopen or a stuttering step.                                    *)
LEMMA QueueJobStep ==
    ASSUME IInv, NEW j \in Jobs, JobStep(j)
    PROVE  [Queue!Next]_(Queue!vars)
<1> DEFINE fresh == [NoRow EXCEPT !.state = "pending", !.available = TRUE]
<1>0. fresh.state = "pending" /\ fresh.token = None /\ row \in [Jobs -> Row]
    BY DEF NoRow, IInv, TypeOK
<1> HIDE DEF fresh
<1>a. ASSUME row' = [row EXCEPT ![j] = fresh], row[j].state # "leased", run' = run
      PROVE  [Queue!Next]_(Queue!vars)
  <2>1. row'[j] = fresh /\ \A k \in Jobs : k # j => row'[k] = row[k]
      BY <1>a, <1>0
  <2>2. row[j].token = None
      BY <1>a DEF IInv, OneLeasePerToken
  <2>3. queuePhase' = [queuePhase EXCEPT ![j] = "waiting"]
      BY <1>0, <2>1 DEF queuePhase, PhaseOf
  <2>4. \A k \in Jobs : row'[k].token = row[k].token
      BY <1>0, <2>1, <2>2
  <2>5. queueHolder' = queueHolder /\ queueActing' = queueActing
      BY <1>a, <2>4 DEF queueHolder, queueActing, Live
  <2>6. queuePhase[j] \in {"idle", "waiting", "settled"}
      BY <1>a DEF queuePhase, PhaseOf
  <2>7. Queue!Submit(j) \/ Queue!Reopen(j)
      BY <2>3, <2>5, <2>6 DEF Queue!Submit, Queue!Reopen
  <2> QED BY <2>7 DEF Queue!Next
<1>b. ASSUME NEW r, row' = [row EXCEPT ![j] = r],
             r.state = row[j].state, r.token = row[j].token, run' = run
      PROVE  [Queue!Next]_(Queue!vars)
  <2>1. \A k \in Jobs : row'[k].state = row[k].state /\ row'[k].token = row[k].token
      BY <1>b, <1>0
  <2>2. \A t \in Tokens : Live(t)' <=> Live(t)
      BY <1>b DEF Live
  <2> QED BY <2>1, <2>2, QueueStutter
<1>c. row[j] \in Row
    BY <1>0
<1>1. CASE Enqueue(j)
    BY <1>1, <1>a DEF Enqueue, fresh
<1>2. CASE Reactivate(j) /\ row[j].state = "leased"
  <2> DEFINE r == [row[j] EXCEPT !.newer = TRUE]
  <2>1. row' = [row EXCEPT ![j] = r] /\ run' = run
      BY <1>2 DEF Reactivate
  <2>2. r.state = row[j].state /\ r.token = row[j].token
      BY <1>c DEF Row
  <2> HIDE DEF r
  <2> QED BY <2>1, <2>2, <1>b
<1>3. CASE Reactivate(j) /\ row[j].state # "leased"
  <2>1. row' = [row EXCEPT ![j] = fresh] /\ run' = run
      BY <1>3 DEF Reactivate, fresh
  <2> QED BY <1>3, <2>1, <1>a
<1>4. CASE BecomeAvailable(j)
  <2> DEFINE r == [row[j] EXCEPT !.available = TRUE]
  <2>1. row' = [row EXCEPT ![j] = r] /\ run' = run
      BY <1>4, <1>0 DEF BecomeAvailable
  <2>2. r.state = row[j].state /\ r.token = row[j].token
      BY <1>c DEF Row
  <2> HIDE DEF r
  <2> QED BY <2>1, <2>2, <1>b
<1>5. CASE ExpireAbandoned(j) \/ ExpireStalled(j)
  <2> DEFINE r == [row[j] EXCEPT !.expired = TRUE]
  <2>1. row' = [row EXCEPT ![j] = r] /\ run' = run
      BY <1>5, <1>0 DEF ExpireAbandoned, ExpireStalled
  <2>2. r.state = row[j].state /\ r.token = row[j].token
      BY <1>c DEF Row
  <2> HIDE DEF r
  <2> QED BY <2>1, <2>2, <1>b
<1> QED BY <1>1, <1>2, <1>3, <1>4, <1>5 DEF JobStep

(* A step of a run is a Return, a Settle, a Stop or a stuttering step.     *)
LEMMA QueueRunStep ==
    ASSUME IInv, NEW t \in Tokens, RunStep(t)
    PROVE  [Queue!Next]_(Queue!vars)
<1>0. run[t] \in Run /\ run \in [Tokens -> Run] /\ row \in [Jobs -> Row]
    BY DEF IInv, TypeOK
<1>n. 0 \in 0..1 /\ 1 \in 0..1
    OBVIOUS
<1>1. CASE Heartbeat(t) /\ Holds(t)
  <2> DEFINE j == run[t].job
             r == [row[j] EXCEPT !.expired = FALSE]
  <2>1. j \in Jobs /\ row[j] \in Row
      BY <1>1 DEF IInv, TypeOK, RunsAreClaims, Holds
  <2>2. row' = [row EXCEPT ![j] = r] /\ run' = run
      BY <1>0, <1>1, <2>1 DEF Heartbeat
  <2>3. r.state = row[j].state /\ r.token = row[j].token
      BY <2>1 DEF Row
  <2> HIDE DEF r
  <2>4. \A k \in Jobs : row'[k].state = row[k].state /\ row'[k].token = row[k].token
      BY <1>0, <2>2, <2>3
  <2>5. \A u \in Tokens : Live(u)' <=> Live(u)
      BY <2>2 DEF Live
  <2> QED BY <2>4, <2>5, QueueStutter
<1>2. CASE (Heartbeat(t) /\ ~Holds(t)) \/ HeartbeatError(t) \/ ReconcileContainer(t)
           \/ \E error \in Errors : Outcome(t, error)
  <2>1. row' = row
      BY <1>2 DEF Heartbeat, HeartbeatError, ReconcileContainer, Outcome
  <2>2. \A u \in Tokens : u # t => run'[u] = run[u]
      BY <1>0, <1>2 DEF Heartbeat, HeartbeatError, ReconcileContainer, Outcome
  <2>3. run'[t].phase # "free" /\ run[t].phase # "free"
    <3>1. CASE Heartbeat(t) /\ ~Holds(t)
        BY <1>0, <3>1 DEF Heartbeat, Live, Run
    <3>2. CASE HeartbeatError(t)
        BY <1>0, <3>2 DEF HeartbeatError, Live, Run
    <3>3. CASE ReconcileContainer(t)
        BY <1>0, <3>3 DEF ReconcileContainer, Run
    <3>4. CASE \E error \in Errors : Outcome(t, error)
        BY <1>0, <3>4 DEF Outcome, Run
    <3> QED BY <1>2, <3>1, <3>2, <3>3, <3>4
  <2>4. \A u \in Tokens : Live(u)' <=> Live(u)
      BY <2>2, <2>3 DEF Live
  <2> QED BY <2>1, <2>4, QueueStutter
<1>3. CASE Publish(t) \/ Quarantine(t) \/ QuarantineResource(t) \/ FailJob(t)
  <2>1. Live(t)
      BY <1>3 DEF Publish, Quarantine, QuarantineResource, FailJob, Live
  <2>2. \E state \in Settled, charge \in 0..1 : CloseJob(t, state, charge)
      BY <1>3, <1>n DEF Publish, Quarantine, QuarantineResource, FailJob
  <2> QED BY <2>1, <2>2, QueueClose
<1>4. CASE WaitForDependency(t) \/ CancelJob(t) \/ Retry(t)
  <2>1. Live(t)
      BY <1>4 DEF WaitForDependency, CancelJob, Retry, Live
  <2>2. \E available \in BOOLEAN, charge \in 0..1, refund \in 0..1 :
            ReleaseJob(t, available, charge, refund)
      BY <1>4, <1>n DEF WaitForDependency, CancelJob, Retry
  <2> QED BY <2>1, <2>2, QueueRelease
<1>5. CASE FinishLost(t)
  <2>1. row' = row /\ run' = [run EXCEPT ![t] = NoRun]
      BY <1>5 DEF FinishLost, Free
  <2>2. \A u \in Tokens : Live(u)' => Live(u)
      BY <1>0, <2>1 DEF Live, NoRun
  <2> QED BY <2>1, <2>2, QueueStop
<1> QED BY <1>1, <1>2, <1>3, <1>4, <1>5 DEF RunStep, FinishResult

(* A claim is a Grant; shutdown and crash are a stuttering step and a Stop.*)
LEMMA QueueWorkerStep ==
    ASSUME IInv, NEW w \in Workers, WorkerStep(w)
    PROVE  [Queue!Next]_(Queue!vars)
<1>0. run \in [Tokens -> Run] /\ row \in [Jobs -> Row]
    BY DEF IInv, TypeOK
<1>1. CASE BeginClaim(w) \/ FailClaim(w)
  <2>1. row' = row /\ run' = run
      BY <1>1 DEF BeginClaim, FailClaim
  <2>2. \A u \in Tokens : Live(u)' <=> Live(u)
      BY <2>1 DEF Live
  <2> QED BY <2>1, <2>2, QueueStutter
<1>2. ASSUME NEW j \in Jobs, NEW t \in Tokens, FinishClaim(w, j, t)
      PROVE  [Queue!Next]_(Queue!vars)
  <2>1. row'[j].state = "leased" /\ row'[j].token = t
        /\ \A k \in Jobs : k # j => row'[k] = row[k]
    <3>1. row' = [row EXCEPT ![j] =
                    [row[j] EXCEPT !.state = "leased", !.attempt = row[j].attempt + 1,
                                   !.token = t, !.expired = FALSE, !.newer = FALSE]]
        BY <1>2, <1>0 DEF FinishClaim
    <3>2. row[j] \in Row
        BY <1>0
    <3> QED BY <1>0, <3>1, <3>2 DEF Row
  <2>2. run'[t].phase \in {"working", "transient"} /\ \A u \in Tokens : u # t => run'[u] = run[u]
      BY <1>2, <1>0 DEF FinishClaim
  <2>3. row[j].state \in {"pending", "leased"} /\ Fresh(t)
      BY <1>2 DEF FinishClaim, Eligible
  <2>4. queuePhase[j] \in {"waiting", "held"}
      BY <2>3 DEF queuePhase, PhaseOf
  <2>5. t \notin queueActing /\ \A k \in Jobs : queueHolder[k] # t
      BY <2>3 DEF queueActing, queueHolder, Fresh
  <2>6. queuePhase' = [queuePhase EXCEPT ![j] = "held"]
      BY <2>1 DEF queuePhase, PhaseOf
  <2>7. \A k \in Jobs : row'[k].token = IF k = j THEN t ELSE row[k].token
      BY <2>1
  <2>8. queueHolder' = [queueHolder EXCEPT ![j] = t]
      BY <2>7 DEF queueHolder
  <2>9. queueActing' = queueActing \cup {t}
      BY <2>2 DEF queueActing, Live
  <2>10. Queue!Grant(j, t)
      BY <2>4, <2>5, <2>6, <2>8, <2>9 DEF Queue!Grant
  <2> QED BY <2>10 DEF Queue!Next
<1>3. CASE Shutdown(w)
  <2>1. row' = row
      BY <1>3 DEF Shutdown
  <2>2. \A u \in Tokens : u \notin RunsOf(w) => run'[u] = run[u]
      BY <1>3 DEF Shutdown
  <2>3. \A u \in Tokens : u \in RunsOf(w) => run'[u].phase # "free" /\ run[u].phase # "free"
      BY <1>0, <1>3 DEF Shutdown, RunsOf, Live, Run
  <2>4. \A u \in Tokens : Live(u)' <=> Live(u)
      BY <2>2, <2>3 DEF Live
  <2> QED BY <2>1, <2>4, QueueStutter
<1>4. CASE Crash(w)
  <2>1. row' = row /\ \A u \in Tokens : run'[u] = run[u] \/ run'[u] = NoRun
      BY <1>4 DEF Crash
  <2>2. \A u \in Tokens : Live(u)' => Live(u)
      BY <2>1 DEF Live, NoRun
  <2> QED BY <2>1, <2>2, QueueStop
<1> QED BY <1>1, <1>2, <1>3, <1>4 DEF WorkerStep

(* Every behaviour of the job queue is one of LeaseQueue: leases are fenced*)
(* whatever crashes, stalls, late heartbeats and lost answers happen.      *)
THEOREM Refinement == Spec => ImplementsLeaseQueue
<1>1. Init => Queue!Init
  <2> SUFFICES ASSUME Init PROVE Queue!Init
      OBVIOUS
  <2>1. queuePhase = [j \in Jobs |-> "idle"] /\ queueHolder = [j \in Jobs |-> None]
      BY DEF Init, queuePhase, queueHolder, PhaseOf, NoRow
  <2>2. queueActing = {}
      BY DEF Init, queueActing, Live, NoRun
  <2> QED BY <2>1, <2>2 DEF Queue!Init
<1>2. IInv /\ [Next]_vars => [Queue!Next]_(Queue!vars)
  <2> SUFFICES ASSUME IInv, [Next]_vars PROVE [Queue!Next]_(Queue!vars)
      OBVIOUS
  <2>1. CASE Next
      BY <2>1, QueueJobStep, QueueRunStep, QueueWorkerStep DEF Next
  <2>2. CASE UNCHANGED vars
    <3>1. row' = row /\ run' = run
        BY <2>2 DEF vars
    <3>2. \A u \in Tokens : Live(u)' <=> Live(u)
        BY <3>1 DEF Live
    <3> QED BY <3>1, <3>2, QueueStutter
  <2> QED BY <2>1, <2>2
<1> QED BY <1>1, <1>2, InductiveInvariant, PTL DEF Spec, ImplementsLeaseQueue, Queue!Spec

-----------------------------------------------------------------------------
(* Least elements, and what an aggregate of events is.                     *)

NatOrder == OpToRel(<, Nat)

(* A finite set has a minimal element in every strict order on it: one with*)
(* the fewest elements below it.                                           *)
LEMMA Minimal ==
    ASSUME NEW S, IsFiniteSet(S), S # {}, NEW R,
           \A a \in S : <<a, a>> \notin R,
           \A a, b, c \in S : <<a, b>> \in R /\ <<b, c>> \in R => <<a, c>> \in R
    PROVE  \E a \in S : \A b \in S : <<b, a>> \notin R
<1> DEFINE below(a) == {x \in S : <<x, a>> \in R}
           T == {Cardinality(below(a)) : a \in S}
<1>1. ASSUME NEW a \in S PROVE IsFiniteSet(below(a)) /\ Cardinality(below(a)) \in Nat
    BY FS_Subset, FS_CardinalityType
<1>2. T \subseteq Nat /\ T # {}
    <2> HIDE DEF below
    <2> QED BY <1>1
<1>3. IsWellFoundedOn(NatOrder, Nat)
    BY NatLessThanWellFounded DEF NatOrder
<1>4. PICK n \in T : \A m \in T : ~(<<m, n>> \in NatOrder)
    BY <1>2, <1>3, WFMin
<1>5. PICK a \in S : n = Cardinality(below(a))
    BY <1>4
<1>6. ASSUME NEW b \in S, <<b, a>> \in R PROVE FALSE
    <2>1. below(b) \subseteq below(a) /\ below(b) # below(a)
        BY <1>6
    <2>2. Cardinality(below(b)) <= Cardinality(below(a))
          /\ Cardinality(below(b)) # Cardinality(below(a))
        <3> HIDE DEF below
        <3> QED BY <1>1, <2>1, FS_Subset
    <2>3. <<Cardinality(below(b)), n>> \in NatOrder
        <3>1. Cardinality(below(b)) \in Nat /\ n \in Nat /\ Cardinality(below(b)) < n
            <4> HIDE DEF below
            <4> QED BY <1>1, <1>5, <2>2
        <3> QED BY <3>1 DEF NatOrder, OpToRel
    <2>4. Cardinality(below(b)) \in T
        OBVIOUS
    <2> QED BY <1>4, <2>3, <2>4
<1> QED BY <1>6

(* The least of a set of numbers is one of them and below the others.      *)
LEMMA LeastOf ==
    ASSUME NEW T, T \subseteq Nat, T # {}
    PROVE  Min(T) \in T /\ \A y \in T : Min(T) <= y
<1>1. IsWellFoundedOn(NatOrder, Nat)
    BY NatLessThanWellFounded DEF NatOrder
<1>2. \A x, y \in Nat : x < y => <<x, y>> \in NatOrder
    BY DEF OpToRel, NatOrder
<1>3. PICK x \in T : \A y \in T : ~(<<y, x>> \in NatOrder)
    BY <1>1, WFMin
<1>4. ASSUME NEW y \in T PROVE x <= y
    <2>1. ~(y < x)
        BY <1>2, <1>3
    <2> QED BY <2>1
<1> QED BY <1>4 DEF Min

(* The greatest of a finite set of numbers is one of them.                 *)
LEMMA GreatestOf ==
    ASSUME NEW T, T \subseteq Nat, T # {}, IsFiniteSet(T)
    PROVE  Max(T) \in T /\ \A y \in T : Max(T) >= y
<1> DEFINE R == {p \in T \X T : p[1] > p[2]}
<1>1. \A a \in T : <<a, a>> \notin R
    OBVIOUS
<1>2. \A a, b, c \in T : <<a, b>> \in R /\ <<b, c>> \in R => <<a, c>> \in R
    OBVIOUS
<1>3. PICK a \in T : \A b \in T : <<b, a>> \notin R
    <2> HIDE DEF R
    <2> QED BY <1>1, <1>2, Minimal
<1>4. ASSUME NEW y \in T PROVE a >= y
    <2>1. <<y, a>> \in T \X T /\ ~(y > a)
        BY <1>3
    <2> QED BY <2>1
<1> QED BY <1>4 DEF Max

(* Events that can be compared.                                            *)
Ranked(ev, S) ==
    S # {} /\ IsFiniteSet(S) /\ S \subseteq Events /\ \A x \in S : ev[x].quality \in Nat

IsBest(ev, a, S) == a \in S /\ \A b \in S \ {a} : Before(ev, a, b)

(* A row that counts the events of S.                                      *)
Counts(ev, entry, S) ==
    /\ entry.count = Cardinality(S)
    /\ \E x \in S : Arrival[x] = entry.first
    /\ \A x \in S : entry.first <= Arrival[x]
    /\ \E x \in S : Arrival[x] = entry.last
    /\ \A x \in S : Arrival[x] <= entry.last
    /\ IsBest(ev, entry.representative, S)

(* Better quality, then the earlier arrival, orders the events of a        *)
(* group.                                                                  *)
LEMMA BeforeIsOrder ==
    ASSUME NEW ev, NEW S, Ranked(ev, S)
    PROVE  /\ \A a \in S : ~Before(ev, a, a)
           /\ \A a, b \in S : a # b => Before(ev, a, b) \/ Before(ev, b, a)
           /\ \A a, b \in S : ~(Before(ev, a, b) /\ Before(ev, b, a))
           /\ \A a, b, c \in S : Before(ev, a, b) /\ Before(ev, b, c) => Before(ev, a, c)
<1>1. \A a \in S : a \in Nat /\ Arrival[a] \in Nat /\ ev[a].quality \in Nat
    BY IssuesAssumption DEF Ranked
<1> QED BY <1>1 DEF Before

(* The query for the representative finds the one best event.              *)
LEMMA BestIsRepresentative ==
    ASSUME NEW ev, NEW S, Ranked(ev, S), NEW a, IsBest(ev, a, S)
    PROVE  Representative(ev, S) = a
<1>1. \A b \in S : (\A x \in S \ {b} : Before(ev, b, x)) => b = a
    BY BeforeIsOrder DEF IsBest
<1> QED BY <1>1 DEF IsBest, Representative

(* Of the events of a group the representative is the best.                *)
LEMMA RepresentativeIsBest ==
    ASSUME NEW ev, NEW S, Ranked(ev, S)
    PROVE  IsBest(ev, Representative(ev, S), S)
<1> DEFINE R == {p \in S \X S : Before(ev, p[1], p[2])}
<1>1. \A a, b \in S : <<a, b>> \in R <=> Before(ev, a, b)
    OBVIOUS
<1>2. PICK a \in S : \A b \in S : <<b, a>> \notin R
    <2> HIDE DEF R
    <2>1. IsFiniteSet(S) /\ S # {} /\ \A a \in S : <<a, a>> \notin R
        BY <1>1, BeforeIsOrder DEF Ranked
    <2>2. \A a, b, c \in S : <<a, b>> \in R /\ <<b, c>> \in R => <<a, c>> \in R
        BY <1>1, BeforeIsOrder
    <2> QED BY ONLY <2>1, <2>2, Minimal
<1>3. \A b \in S \ {a} : Before(ev, a, b)
    BY <1>1, <1>2, BeforeIsOrder
<1> QED BY <1>3, BestIsRepresentative DEF IsBest

(* The arrivals of a group are numbers, finitely many and not none.        *)
LEMMA ArrivalsOf ==
    ASSUME NEW ev, NEW S, Ranked(ev, S)
    PROVE  LET T == {Arrival[x] : x \in S} IN T \subseteq Nat /\ T # {} /\ IsFiniteSet(T)
<1> DEFINE T == {Arrival[x] : x \in S}
           f == [x \in S |-> Arrival[x]]
<1>1. T \subseteq Nat /\ T # {}
    <2>1. \A x \in S : Arrival[x] \in Nat
        BY IssuesAssumption DEF Ranked
    <2> QED BY <2>1 DEF Ranked
<1>2. f \in Surjection(S, T)
    BY DEF Surjection
<1>3. IsFiniteSet(T)
    <2> HIDE DEF f, T
    <2> QED BY <1>2, FS_Surjection DEF Ranked
<1> QED BY <1>1, <1>3

(* An aggregate counts its events, and nothing else does.                  *)
LEMMA AggregateCounts ==
    ASSUME NEW ev, NEW S, Ranked(ev, S)
    PROVE  Counts(ev, Aggregate(ev, S), S) /\ Aggregate(ev, S) \in CountRow
<1> DEFINE T == {Arrival[x] : x \in S}
<1>1. Min(T) \in T /\ Max(T) \in T /\ Min(T) \in Nat /\ Max(T) \in Nat
    <2> HIDE DEF T
    <2>1. T \subseteq Nat /\ T # {} /\ IsFiniteSet(T)
        BY ArrivalsOf DEF T
    <2> QED BY <2>1, LeastOf, GreatestOf
<1>2. \A x \in S : Min(T) <= Arrival[x] /\ Arrival[x] <= Max(T)
    <2>1. \A y \in T : Min(T) <= y /\ Max(T) >= y
        <3> HIDE DEF T
        <3>1. T \subseteq Nat /\ T # {} /\ IsFiniteSet(T)
            BY ArrivalsOf DEF T
        <3> QED BY <3>1, LeastOf, GreatestOf
    <2>2. \A x \in S : Arrival[x] \in T /\ Arrival[x] \in Nat
        BY IssuesAssumption DEF Ranked
    <2> HIDE DEF T
    <2> QED BY <1>1, <2>1, <2>2
<1>3. IsBest(ev, Representative(ev, S), S)
    BY RepresentativeIsBest
<1>4. Aggregate(ev, S) = [count |-> Cardinality(S), first |-> Min(T), last |-> Max(T),
                          representative |-> Representative(ev, S)]
    BY DEF Aggregate
<1>5. (\E x \in S : Arrival[x] = Min(T)) /\ (\E x \in S : Arrival[x] = Max(T))
    BY <1>1
<1>6. Cardinality(S) \in Nat /\ Representative(ev, S) \in Events
    BY <1>3, FS_CardinalityType DEF Ranked, IsBest
<1> HIDE DEF T
<1>7. Counts(ev, Aggregate(ev, S), S)
    BY <1>2, <1>3, <1>4, <1>5 DEF Counts
<1>8. Aggregate(ev, S) \in CountRow
    BY <1>1, <1>4, <1>6 DEF CountRow
<1> QED BY <1>7, <1>8

(* Two rows that count the same events agree.                              *)
LEMMA CountsDecide ==
    ASSUME NEW ev, NEW S, Ranked(ev, S), NEW entry, NEW other,
           Counts(ev, entry, S), Counts(ev, other, S)
    PROVE  /\ entry.count = other.count /\ entry.first = other.first /\ entry.last = other.last
           /\ entry.representative = other.representative
<1>1. \A x \in S : Arrival[x] \in Nat
    BY IssuesAssumption DEF Ranked
<1>2. entry.representative = other.representative
    BY BestIsRepresentative DEF Counts
<1>3. entry.first = other.first
    BY <1>1 DEF Counts
<1>4. entry.last = other.last
    BY <1>1 DEF Counts
<1> QED BY <1>2, <1>3, <1>4 DEF Counts

(* What a recount would write: a row that counts the events of S.          *)
Recounts(ev, entry, S) ==
    S # {} /\ \A f \in {"count", "first", "last", "representative"} : entry[f] = Aggregate(ev, S)[f]

(* A row is what a recount gives exactly when it counts the events.        *)
LEMMA RecountsIsCounts ==
    ASSUME NEW ev, NEW S, Ranked(ev, S), NEW entry
    PROVE  Recounts(ev, entry, S) <=> Counts(ev, entry, S)
<1> DEFINE agg == Aggregate(ev, S)
<1>1. Counts(ev, agg, S)
    BY AggregateCounts
<1>2. Recounts(ev, entry, S) <=> /\ entry.count = agg.count /\ entry.first = agg.first
                               /\ entry.last = agg.last
                               /\ entry.representative = agg.representative
    BY DEF Recounts, Ranked
<1> HIDE DEF agg
<1>3. ASSUME Recounts(ev, entry, S) PROVE Counts(ev, entry, S)
    BY <1>1, <1>2, <1>3 DEF Counts
<1>4. ASSUME Counts(ev, entry, S) PROVE Recounts(ev, entry, S)
    BY <1>1, <1>2, <1>4, CountsDecide
<1> QED BY <1>3, <1>4

(* The least and the greatest of two numbers.                              *)
LEMMA PairOf ==
    ASSUME NEW a \in Nat, NEW b \in Nat
    PROVE  /\ Min({a, b}) \in {a, b} /\ Min({a, b}) <= a /\ Min({a, b}) <= b
           /\ Max({a, b}) \in {a, b} /\ Max({a, b}) >= a /\ Max({a, b}) >= b
<1>1. IsFiniteSet({a} \cup {b}) /\ {a} \cup {b} = {a, b}
    BY FS_Singleton, FS_AddElement
<1>2. {a, b} \subseteq Nat /\ {a, b} # {}
    OBVIOUS
<1> QED BY <1>1, <1>2, LeastOf, GreatestOf

(* What an event counts for depends on the qualities of the group alone.   *)
LEMMA CountsSame ==
    ASSUME NEW ev, NEW new, NEW S, \A x \in S : new[x].quality = ev[x].quality, NEW entry
    PROVE  Counts(ev, entry, S) <=> Counts(new, entry, S)
<1>1. \A a, b \in S : Before(ev, a, b) <=> Before(new, a, b)
    BY DEF Before
<1>2. IsBest(ev, entry.representative, S) <=> IsBest(new, entry.representative, S)
    BY <1>1 DEF IsBest
<1> QED BY <1>2 DEF Counts

Rewritten(entry, n, f, l, p) ==
    [entry EXCEPT !.count = n, !.first = f, !.last = l, !.representative = p]

(* The four fields of a row are written, the others kept.                  *)
LEMMA RewrittenFields ==
    ASSUME NEW entry \in CountRow \cup IssueRow, NEW n, NEW f, NEW l, NEW p
    PROVE  /\ Rewritten(entry, n, f, l, p).count = n
           /\ Rewritten(entry, n, f, l, p).first = f
           /\ Rewritten(entry, n, f, l, p).last = l
           /\ Rewritten(entry, n, f, l, p).representative = p
           /\ n \in Nat /\ f \in Nat /\ l \in Nat /\ p \in Events =>
                /\ entry \in CountRow => Rewritten(entry, n, f, l, p) \in CountRow
                /\ entry \in IssueRow => Rewritten(entry, n, f, l, p) \in IssueRow
           /\ entry \in IssueRow => /\ Rewritten(entry, n, f, l, p).status = entry.status
                                  /\ Rewritten(entry, n, f, l, p).resolved = entry.resolved
                                  /\ Rewritten(entry, n, f, l, p).regression = entry.regression
<1> DEFINE new == Rewritten(entry, n, f, l, p)
<1>1. new.count = n /\ new.first = f /\ new.last = l /\ new.representative = p
    BY DEF CountRow, IssueRow, Rewritten
<1>2. n \in Nat /\ f \in Nat /\ l \in Nat /\ p \in Events /\ entry \in CountRow => new \in CountRow
    BY DEF CountRow, Rewritten
<1>3. n \in Nat /\ f \in Nat /\ l \in Nat /\ p \in Events /\ entry \in IssueRow => new \in IssueRow
    BY DEF IssueRow, Rewritten
<1>4. entry \in IssueRow => /\ new.status = entry.status /\ new.resolved = entry.resolved
                          /\ new.regression = entry.regression
    BY DEF IssueRow, Rewritten
<1> HIDE DEF new
<1> QED BY <1>1, <1>2, <1>3, <1>4 DEF new

(* assign_issue and add_release_membership count one event more.           *)
LEMMA JoinCounts ==
    ASSUME NEW ev, NEW S, Ranked(ev, S), NEW e \in Events, e \notin S, ev[e].quality \in Nat,
           NEW entry \in CountRow \cup IssueRow, Counts(ev, entry, S)
    PROVE  /\ Counts(ev, Joined(ev, entry, e), S \cup {e})
           /\ entry \in CountRow => Joined(ev, entry, e) \in CountRow
           /\ entry \in IssueRow => Joined(ev, entry, e) \in IssueRow
<1> DEFINE new == Joined(ev, entry, e)
           a == entry.representative
           U == S \cup {e}
<1>1. Ranked(ev, U) /\ Cardinality(U) = Cardinality(S) + 1
    BY FS_AddElement DEF Ranked
<1>j. /\ new.count = entry.count + 1
      /\ new.first = Min({entry.first, Arrival[e]})
      /\ new.last = Max({entry.last, Arrival[e]})
      /\ new.representative = Representative(ev, {a, e})
    <2> DEFINE n == entry.count + 1
               f == Min({entry.first, Arrival[e]})
               l == Max({entry.last, Arrival[e]})
               p == Representative(ev, {a, e})
    <2>1. new = Rewritten(entry, n, f, l, p)
        BY DEF Joined, Rewritten
    <2> HIDE DEF n, f, l, p, new
    <2>2. new.count = n /\ new.first = f /\ new.last = l /\ new.representative = p
        BY <2>1, RewrittenFields
    <2> QED BY <2>2 DEF n, f, l, p
<1> HIDE DEF new
<1>2. new.count = Cardinality(U)
    BY <1>1, <1>j DEF Counts
<1>3. /\ \A x \in U : Arrival[x] \in Nat
      /\ entry.first \in Nat /\ entry.last \in Nat /\ Arrival[e] \in Nat
    BY <1>1, IssuesAssumption DEF Ranked, CountRow, IssueRow
<1>4. /\ \E x \in U : Arrival[x] = new.first
      /\ \A x \in U : new.first <= Arrival[x]
    <2>1. new.first = Min({entry.first, Arrival[e]})
        BY <1>j
    <2> DEFINE m == Min({entry.first, Arrival[e]})
    <2>2. m \in {entry.first, Arrival[e]} /\ m <= entry.first /\ m <= Arrival[e]
        BY <1>3, PairOf
    <2> HIDE DEF m, new
    <2>3. \A x \in S : m <= Arrival[x]
        BY <1>3, <2>2 DEF Counts
    <2>4. \E x \in U : Arrival[x] = m
        BY <2>2 DEF Counts
    <2> QED BY <2>1, <2>2, <2>3, <2>4 DEF m
<1>5. /\ \E x \in U : Arrival[x] = new.last
      /\ \A x \in U : Arrival[x] <= new.last
    <2>1. new.last = Max({entry.last, Arrival[e]})
        BY <1>j
    <2> DEFINE m == Max({entry.last, Arrival[e]})
    <2>2. m \in {entry.last, Arrival[e]} /\ m >= entry.last /\ m >= Arrival[e]
        BY <1>3, PairOf
    <2> HIDE DEF m, new
    <2>3. \A x \in S : Arrival[x] <= m
        BY <1>3, <2>2 DEF Counts
    <2>4. \E x \in U : Arrival[x] = m
        BY <2>2 DEF Counts
    <2>5. Arrival[e] <= m
        BY <1>3, <2>2
    <2> QED BY <2>1, <2>5, <2>3, <2>4 DEF m
<1>6. IsBest(ev, new.representative, U) /\ new.representative \in Events
    <2>1. a \in S /\ a \in Events /\ a # e /\ \A b \in S \ {a} : Before(ev, a, b)
        BY DEF Counts, IsBest, Ranked
    <2>2. Ranked(ev, {a, e})
        <3>1. {a, e} \subseteq U /\ IsFiniteSet(U)
            BY <1>1, <2>1 DEF Ranked
        <3>2. IsFiniteSet({a, e})
            BY <3>1, FS_Subset
        <3> QED BY <1>1, <2>1, <3>2 DEF Ranked
    <2>3. new.representative = Representative(ev, {a, e})
        BY <1>j
    <2>4. CASE Before(ev, a, e)
        <3>1. IsBest(ev, a, {a, e})
            BY <2>4 DEF IsBest
        <3>2. new.representative = a
            BY <2>2, <2>3, <3>1, BestIsRepresentative
        <3>3. IsBest(ev, a, U)
            BY <2>1, <2>4 DEF IsBest
        <3> QED BY <2>1, <3>2, <3>3
    <2>5. CASE ~Before(ev, a, e)
        <3>0. \A x, y \in U : x # y => Before(ev, x, y) \/ Before(ev, y, x)
            BY <1>1, BeforeIsOrder
        <3>1. Before(ev, e, a)
            BY <2>1, <2>5, <3>0
        <3>2. IsBest(ev, e, {a, e})
            BY <3>1 DEF IsBest
        <3>3. new.representative = e
            BY <2>2, <2>3, <3>2, BestIsRepresentative
        <3>4. \A b \in U \ {e} : Before(ev, e, b)
            BY <1>1, <2>1, <3>1, BeforeIsOrder
        <3>5. IsBest(ev, e, U)
            BY <3>4 DEF IsBest
        <3> QED BY <3>3, <3>5
    <2> QED BY <2>4, <2>5
<1>7. /\ entry \in CountRow => new \in CountRow
      /\ entry \in IssueRow => new \in IssueRow
    <2> DEFINE n == new.count
               f == new.first
               l == new.last
               p == new.representative
    <2>1. new = Rewritten(entry, n, f, l, p)
        <3>1. n = entry.count + 1 /\ f = Min({entry.first, Arrival[e]}) /\ l = Max({entry.last, Arrival[e]})
              /\ p = Representative(ev, {entry.representative, e})
            BY <1>j
        <3> HIDE DEF n, f, l, p
        <3> QED BY <3>1 DEF new, Joined, Rewritten
    <2>2. n \in Nat /\ f \in Nat /\ l \in Nat /\ p \in Events
        <3>1. entry.count \in Nat
            BY DEF CountRow, IssueRow
        <3> QED BY <1>j, <1>3, <1>4, <1>5, <1>6, <3>1
    <2> HIDE DEF n, f, l, p
    <2> QED BY <2>1, <2>2, RewrittenFields
<1> HIDE DEF U
<1>8. Counts(ev, new, U)
    BY <1>2, <1>4, <1>5, <1>6 DEF Counts
<1> QED BY <1>7, <1>8 DEF new, U

(* An event that joins leaves the state of its issue alone.                *)
LEMMA JoinedKeeps ==
    ASSUME NEW ev, NEW e, NEW entry \in IssueRow
    PROVE  /\ Joined(ev, entry, e).status = entry.status
           /\ Joined(ev, entry, e).resolved = entry.resolved
           /\ Joined(ev, entry, e).regression = entry.regression
BY DEF Joined, IssueRow

(* What Remove writes for a row that keeps other events than e.            *)
OneLess(ev, entry, S, e, n, f, l, p) ==
    LET T == {Arrival[x] : x \in S \ {e}}
        edge == entry.first = Arrival[e] \/ entry.last = Arrival[e]
    IN /\ n = entry.count - 1
       /\ f = IF edge THEN Min(T) ELSE entry.first
       /\ l = IF edge THEN Max(T) ELSE entry.last
       /\ p = IF entry.representative = e THEN Representative(ev, S \ {e}) ELSE entry.representative

(* remove_release_membership counts one event less, and looks again for    *)
(* what the event was.                                                     *)
LEMMA RemoveCounts ==
    ASSUME NEW ev, NEW S, Ranked(ev, S), NEW e \in S, S # {e}, NEW entry \in CountRow,
           Counts(ev, entry, S), NEW n, NEW f, NEW l, NEW p, OneLess(ev, entry, S, e, n, f, l, p)
    PROVE  /\ Counts(ev, Rewritten(entry, n, f, l, p), S \ {e})
           /\ Rewritten(entry, n, f, l, p) \in CountRow
<1> DEFINE left == S \ {e}
           new == Rewritten(entry, n, f, l, p)
           T == {Arrival[x] : x \in S \ {e}}
<1> USE DEF OneLess
<1>1. Ranked(ev, left) /\ Cardinality(left) = Cardinality(S) - 1 /\ Cardinality(left) \in Nat
    <2>1. IsFiniteSet(left) /\ Cardinality(left) = Cardinality(S) - 1
        BY FS_RemoveElement DEF Ranked
    <2>2. Cardinality(left) \in Nat
        BY <2>1, FS_CardinalityType
    <2> QED BY <2>1, <2>2 DEF Ranked
<1>2. n = Cardinality(left) /\ n \in Nat
    BY <1>1 DEF Counts
<1>3. /\ \A x \in S : Arrival[x] \in Nat
      /\ entry.first \in Nat /\ entry.last \in Nat /\ Arrival[e] \in Nat
    BY IssuesAssumption DEF Ranked, CountRow
<1>4. T \subseteq Nat /\ T # {} /\ IsFiniteSet(T)
    BY <1>1, ArrivalsOf
<1>5. /\ Min(T) \in T /\ Max(T) \in T
      /\ \A y \in T : Min(T) <= y /\ Max(T) >= y
    BY <1>4, LeastOf, GreatestOf
<1>6. /\ \E x \in left : Arrival[x] = f
      /\ \A x \in left : f <= Arrival[x]
      /\ \E x \in left : Arrival[x] = l
      /\ \A x \in left : Arrival[x] <= l
    <2>1. CASE entry.first = Arrival[e] \/ entry.last = Arrival[e]
        <3> DEFINE a == Min(T)
                   b == Max(T)
        <3>1. f = a /\ l = b
            BY <2>1
        <3>2. a \in T /\ b \in T /\ a \in Nat /\ b \in Nat /\ \A y \in T : a <= y /\ b >= y
            BY <1>4, <1>5
        <3> HIDE DEF a, b
        <3>3. \A x \in left : Arrival[x] \in T /\ Arrival[x] \in Nat
            BY <1>3
        <3>4. (\E x \in left : Arrival[x] = a) /\ (\E x \in left : Arrival[x] = b)
            BY <3>2
        <3>5. \A x \in left : a <= Arrival[x] /\ Arrival[x] <= b
            BY <3>2, <3>3
        <3> QED BY <3>1, <3>4, <3>5
    <2>2. CASE ~(entry.first = Arrival[e] \/ entry.last = Arrival[e])
        <3>1. f = entry.first /\ l = entry.last
            BY <2>2
        <3> QED BY <2>2, <3>1 DEF Counts
    <2> QED BY <2>1, <2>2
<1>7. IsBest(ev, p, left)
    <2>1. CASE entry.representative = e
        BY <1>1, <2>1, RepresentativeIsBest
    <2>2. CASE entry.representative # e
        BY <2>2 DEF Counts, IsBest
    <2> QED BY <2>1, <2>2
<1>8. f \in Nat /\ l \in Nat /\ p \in Events
    BY <1>1, <1>3, <1>6, <1>7 DEF Ranked, IsBest
<1>9. /\ new.count = n /\ new.first = f /\ new.last = l /\ new.representative = p
      /\ new \in CountRow
    BY <1>2, <1>8, RewrittenFields
<1> HIDE DEF new, left
<1>10. Counts(ev, new, left)
    BY <1>2, <1>6, <1>7, <1>9 DEF Counts
<1> QED BY <1>9, <1>10 DEF new, left

IsTable(table) == table \in [DOMAIN table -> CountRow]

(* The row under k, if there is one, counts the events of S.               *)
RowCounts(ev, table, k, S) ==
    IF k \in DOMAIN table THEN S # {} /\ Counts(ev, table[k], S) ELSE S = {}

(* A table but for the row under k.                                        *)
Extends(new, table, k) ==
    /\ DOMAIN new = DOMAIN table \cup {k}
    /\ \A x \in DOMAIN table \ {k} : new[x] = table[x]

(* A table without one event in the row under k.                           *)
Reduces(new, table, k, gone) ==
    /\ DOMAIN new = IF gone THEN DOMAIN table \ {k} ELSE DOMAIN table
    /\ \A x \in DOMAIN table \ {k} : new[x] = table[x]

(* remove_release_membership deletes the row of the last event of a        *)
(* release and counts one less in any other.                               *)
LEMMA RemoveTable ==
    ASSUME NEW ev, NEW table, IsTable(table), NEW k \in DOMAIN table,
           NEW S, Ranked(ev, S), NEW e \in S, Members(ev, k) = S \ {e}, Counts(ev, table[k], S)
    PROVE  /\ IsTable(Remove(ev, table, k, e))
           /\ Reduces(Remove(ev, table, k, e), table, k, S = {e})
           /\ S # {e} => Counts(ev, Remove(ev, table, k, e)[k], S \ {e})
<1> USE DEF IsTable, Reduces
<1>1. table[k].count = 1 <=> S = {e}
    <2>1. table[k].count = Cardinality(S) /\ IsFiniteSet(S)
        BY DEF Counts, Ranked
    <2>2. Cardinality(S) = 1 <=> \E x : S = {x}
        BY <2>1, FS_Singleton
    <2> QED BY <2>1, <2>2
<1>2. CASE S = {e}
    <2>1. Remove(ev, table, k, e) = Without(table, k)
        BY <1>1, <1>2 DEF Remove
    <2> QED BY <1>2, <2>1 DEF Without
<1>3. CASE S # {e}
    <2> DEFINE entry == table[k]
               left == S \ {e}
               T == {Arrival[x] : x \in left}
               edge == entry.first = Arrival[e] \/ entry.last = Arrival[e]
               n == entry.count - 1
               p == IF entry.representative = e THEN Representative(ev, left) ELSE entry.representative
               f == IF edge THEN Min(T) ELSE entry.first
               l == IF edge THEN Max(T) ELSE entry.last
               new == Rewritten(entry, n, f, l, p)
    <2>1. Remove(ev, table, k, e) = [table EXCEPT ![k] = new]
        <3>1. Remove(ev, table, k, e) =
                [table EXCEPT ![k].count = n, ![k].representative = p, ![k].first = f, ![k].last = l]
            <4> HIDE DEF p
            <4>1. ~(table[k].count = 1)
                BY <1>1, <1>3
            <4> QED BY <4>1 DEF Remove, p
        <3> HIDE DEF n, f, l, p
        <3> QED BY <3>1 DEF Rewritten, CountRow
    <2>2. Counts(ev, new, left) /\ new \in CountRow
        <3>1. OneLess(ev, entry, S, e, n, f, l, p)
            BY DEF OneLess
        <3>2. entry \in CountRow /\ Counts(ev, entry, S)
            OBVIOUS
        <3> HIDE DEF entry, n, f, l, p, T, edge
        <3> QED BY <1>3, <3>1, <3>2, RemoveCounts
    <2> HIDE DEF new
    <2> QED BY <1>3, <2>1, <2>2
<1> QED BY <1>2, <1>3

(* The event e may join the events of S, which the row under k counts.     *)
MayJoin(ev, table, k, S, e) ==
    /\ IsTable(table) /\ RowCounts(ev, table, k, S)
    /\ e \in Events /\ e \notin S /\ Ranked(ev, S \cup {e})

(* add_release_membership and the upsert of a variant start a row or       *)
(* count one event more in it.                                             *)
LEMMA AddTable ==
    ASSUME NEW ev, NEW table, NEW k, NEW S, NEW e, MayJoin(ev, table, k, S, e)
    PROVE  /\ IsTable(Add(ev, table, k, e))
           /\ Extends(Add(ev, table, k, e), table, k)
           /\ Counts(ev, Add(ev, table, k, e)[k], S \cup {e})
<1> USE DEF MayJoin, IsTable, RowCounts, Extends
<1> DEFINE entry == IF k \in DOMAIN table THEN Joined(ev, table[k], e) ELSE Aggregate(ev, {e})
<1>1. entry \in CountRow /\ Counts(ev, entry, S \cup {e})
    <2>1. CASE k \in DOMAIN table
        <3>1. table[k] \in CountRow \cup IssueRow /\ table[k] \in CountRow
            BY <2>1
        <3>2. Ranked(ev, S) /\ ev[e].quality \in Nat
            <4>1. IsFiniteSet(S)
                BY FS_Subset DEF Ranked
            <4> QED BY <2>1, <4>1 DEF Ranked
        <3>3. Joined(ev, table[k], e) \in CountRow /\ Counts(ev, Joined(ev, table[k], e), S \cup {e})
            BY <2>1, <3>1, <3>2, JoinCounts
        <3> QED BY <2>1, <3>3
    <2>2. CASE k \notin DOMAIN table
        <3>1. S \cup {e} = {e}
            BY <2>2
        <3> QED BY <2>2, <3>1, AggregateCounts
    <2> QED BY <2>1, <2>2
<1>2. Add(ev, table, k, e) = Put(table, k, entry)
    BY DEF Add
<1> HIDE DEF entry
<1> QED BY <1>1, <1>2 DEF Put

-----------------------------------------------------------------------------
(* The rows of the three tables.                                           *)

IssueSet(ev, i) == {e \in Grouped(ev) : ev[e].issue = i}
VariantSet(ev, k) == {e \in IssueSet(ev, k[1]) : ev[e].variant = k[2]}

StoredIn(ev) == {e \in Events : ev[e] # NoValue}
GoodEvents(ev) ==
    /\ ev \in [Events -> Event \cup {NoValue}] /\ IsFiniteSet(StoredIn(ev))
    /\ \A e \in Grouped(ev) : ev[e].issue \in Issues /\ ev[e].variant \in Variants

AllPresent(ev, iss, var, rel) ==
    \A e \in Grouped(ev) :
        /\ ev[e].issue \in DOMAIN iss
        /\ <<ev[e].issue, ev[e].variant>> \in DOMAIN var
        /\ ev[e].release # NoValue => <<ev[e].issue, ev[e].release>> \in DOMAIN rel

RowsRecount(ev, iss, var, rel) ==
    /\ \A i \in DOMAIN iss : Recounts(ev, iss[i], IssueSet(ev, i))
    /\ \A k \in DOMAIN rel : Recounts(ev, rel[k], Members(ev, k))
    /\ \A k \in DOMAIN var : Recounts(ev, var[k], VariantSet(ev, k))
    /\ AllPresent(ev, iss, var, rel)

(* RowsAreRecounts, with what the rows mean.                               *)
RowsHold(ev, iss, var, rel) ==
    /\ \A i \in DOMAIN iss : IssueSet(ev, i) # {} /\ Counts(ev, iss[i], IssueSet(ev, i))
    /\ \A k \in DOMAIN rel : Members(ev, k) # {} /\ Counts(ev, rel[k], Members(ev, k))
    /\ \A k \in DOMAIN var : VariantSet(ev, k) # {} /\ Counts(ev, var[k], VariantSet(ev, k))
    /\ AllPresent(ev, iss, var, rel)

(* The events of a group have a quality and an arrival.                    *)
LEMMA GroupsRanked ==
    ASSUME NEW ev, GoodEvents(ev), NEW S, S \subseteq Grouped(ev), S # {}
    PROVE  Ranked(ev, S)
<1>1. S \subseteq StoredIn(ev) /\ S \subseteq Events
    BY DEF Grouped, StoredIn
<1>2. IsFiniteSet(S)
    BY <1>1, FS_Subset DEF GoodEvents
<1>3. \A x \in S : ev[x] \in Event
    BY <1>1 DEF StoredIn, GoodEvents
<1> QED BY <1>1, <1>2, <1>3 DEF Ranked, Event

(* Every row is a recount exactly when it counts the events behind it.     *)
LEMMA RecountedRows ==
    ASSUME NEW ev, GoodEvents(ev), NEW iss, NEW var, NEW rel
    PROVE  RowsRecount(ev, iss, var, rel) <=> RowsHold(ev, iss, var, rel)
<1>1. \A S : S \subseteq Grouped(ev) =>
         \A entry : Recounts(ev, entry, S) <=> S # {} /\ Counts(ev, entry, S)
    <2> TAKE S
    <2> HAVE S \subseteq Grouped(ev)
    <2>1. CASE S = {}
        BY <2>1 DEF Recounts
    <2>2. CASE S # {}
        BY <2>2, GroupsRanked, RecountsIsCounts
    <2> QED BY <2>1, <2>2
<1>2. /\ \A i : IssueSet(ev, i) \subseteq Grouped(ev)
      /\ \A k : Members(ev, k) \subseteq Grouped(ev) /\ VariantSet(ev, k) \subseteq Grouped(ev)
    BY DEF IssueSet, Members, VariantSet
<1> QED BY <1>1, <1>2 DEF RowsRecount, RowsHold

(* RowsAreRecounts, of this state and of the next, over the operators of   *)
(* this module.                                                            *)
LEMMA RowsAre ==
    /\ RowsAreRecounts <=> RowsRecount(event, issue, variants, releases)
    /\ RowsAreRecounts' <=> RowsRecount(event', issue', variants', releases')
<1>1. \A i : Having(i) = IssueSet(event, i) /\ Having(i)' = IssueSet(event', i)
    BY DEF Having, IssueSet, Grouped
<1>2. \A k : /\ {e \in Having(k[1]) : event[e].variant = k[2]} = VariantSet(event, k)
             /\ {e \in Having(k[1]) : event[e].variant = k[2]}' = VariantSet(event', k)
    BY DEF Having, VariantSet, IssueSet, Grouped
<1>3. \A entry, S : /\ CountedFrom(entry, S) <=> Recounts(event, entry, S)
                    /\ CountedFrom(entry, S)' <=> Recounts(event', entry, S)
    BY DEF CountedFrom, Recounts
<1>4. RowsAreRecounts <=> RowsRecount(event, issue, variants, releases)
    BY <1>1, <1>2, <1>3 DEF RowsAreRecounts, RowsRecount, AllPresent
<1>5. RowsAreRecounts' <=> RowsRecount(event', issue', variants', releases')
    BY <1>1, <1>2, <1>3 DEF RowsAreRecounts, RowsRecount, AllPresent
<1> QED BY <1>4, <1>5

SameCounts(new, entry) ==
    /\ new.count = entry.count /\ new.first = entry.first /\ new.last = entry.last
    /\ new.representative = entry.representative

(* The rows of issues differ in what is not counted only.                  *)
SameTable(new, table) ==
    /\ DOMAIN new = DOMAIN table
    /\ \A i \in DOMAIN table : SameCounts(new[i], table[i])

(* Every event is in the group and release it was in.                      *)
SameGroups(new, ev) ==
    /\ Grouped(new) = Grouped(ev)
    /\ \A x \in Grouped(ev) :
          /\ new[x].issue = ev[x].issue /\ new[x].variant = ev[x].variant
          /\ new[x].quality = ev[x].quality /\ new[x].release = ev[x].release

(* Publications that leave an event in its group and release, failures and *)
(* accepted crashes change no row.                                         *)
LEMMA SameGroupKeepsRows ==
    ASSUME NEW ev, NEW iss, NEW var, NEW rel, RowsHold(ev, iss, var, rel),
           NEW new, NEW table, SameTable(table, iss), SameGroups(new, ev)
    PROVE  RowsHold(new, table, var, rel)
<1> USE DEF SameGroups
<1>1. \A i : IssueSet(new, i) = IssueSet(ev, i)
    BY DEF IssueSet
<1>2. \A k : VariantSet(new, k) = VariantSet(ev, k)
    BY <1>1 DEF VariantSet, IssueSet
<1>3. \A k : Members(new, k) = Members(ev, k)
    BY DEF Members
<1>4. \A S : S \subseteq Grouped(ev) => \A entry : Counts(ev, entry, S) => Counts(new, entry, S)
    BY CountsSame
<1>5. /\ \A i : IssueSet(ev, i) \subseteq Grouped(ev)
      /\ \A k : Members(ev, k) \subseteq Grouped(ev) /\ VariantSet(ev, k) \subseteq Grouped(ev)
    BY DEF IssueSet, Members, VariantSet
<1>6. \A i \in DOMAIN table : IssueSet(new, i) # {} /\ Counts(new, table[i], IssueSet(new, i))
    <2> TAKE i \in DOMAIN table
    <2>1. IssueSet(ev, i) # {} /\ Counts(ev, iss[i], IssueSet(ev, i)) /\ SameCounts(table[i], iss[i])
        BY DEF RowsHold, SameTable
    <2>2. Counts(ev, table[i], IssueSet(ev, i))
        BY <2>1 DEF Counts, SameCounts
    <2> QED BY <1>1, <1>4, <1>5, <2>1, <2>2
<1>7. \A k \in DOMAIN rel : Members(new, k) # {} /\ Counts(new, rel[k], Members(new, k))
    BY <1>3, <1>4, <1>5 DEF RowsHold
<1>8. \A k \in DOMAIN var : VariantSet(new, k) # {} /\ Counts(new, var[k], VariantSet(new, k))
    BY <1>2, <1>4, <1>5 DEF RowsHold
<1>9. AllPresent(new, table, var, rel)
    BY DEF RowsHold, AllPresent, SameTable
<1> QED BY <1>6, <1>7, <1>8, <1>9 DEF RowsHold

(* An event that joins its first issue.                                    *)
Joining(ev, iss, var, rel, e, entry, new, after) ==
    /\ GoodEvents(ev) /\ GoodEvents(new) /\ RowsHold(ev, iss, var, rel)
    /\ iss \in [DOMAIN iss -> IssueRow]
    /\ var \in [DOMAIN var -> CountRow] /\ DOMAIN var \subseteq Issues \X Variants
    /\ rel \in [DOMAIN rel -> CountRow] /\ DOMAIN rel \subseteq Issues \X Releases
    /\ e \in Events /\ e \notin Grouped(ev) /\ entry \in Event /\ entry.group = "grouped"
    /\ entry.issue \in Issues /\ entry.variant \in Variants
    /\ new = [ev EXCEPT ![e] = entry]
    /\ SameCounts(after, IF entry.issue \in DOMAIN iss THEN Joined(new, iss[entry.issue], e)
                         ELSE Aggregate(new, {e}))

RowsJoined(new, rel, entry, t, v, r) ==
    /\ RowsHold(new, t, v, r)
    /\ v \in [DOMAIN v -> CountRow] /\ DOMAIN v \subseteq Issues \X Variants
    /\ r \in [DOMAIN r -> CountRow]
    /\ DOMAIN r = IF entry.release = NoValue THEN DOMAIN rel
                  ELSE DOMAIN rel \cup {<<entry.issue, entry.release>>}

(* A first grouping adds the event to its issue, its variant and its       *)
(* release, and to nothing else.                                           *)
LEMMA GroupingAddsRows ==
    ASSUME NEW ev, NEW iss, NEW var, NEW rel, NEW e, NEW entry, NEW new, NEW after,
           Joining(ev, iss, var, rel, e, entry, new, after)
    PROVE  RowsJoined(new, rel, entry, Put(iss, entry.issue, after),
                      Add(new, var, <<entry.issue, entry.variant>>, e),
                      IF entry.release = NoValue THEN rel
                      ELSE Add(new, rel, <<entry.issue, entry.release>>, e))
<1> USE DEF Joining
<1> DEFINE i == entry.issue
           vk == <<i, entry.variant>>
           rk == <<i, entry.release>>
           v == Add(new, var, vk, e)
           r == IF entry.release = NoValue THEN rel ELSE Add(new, rel, rk, e)
           t == Put(iss, i, after)
<1>1. new[e] = entry /\ e \in Grouped(new) /\ \A x \in Events : x # e => new[x] = ev[x]
    <2>1. new[e] = entry /\ \A x \in Events : x # e => new[x] = ev[x]
        BY DEF GoodEvents
    <2>2. entry # NoValue
        BY IssuesAssumption
    <2> QED BY <2>1, <2>2 DEF Grouped
<1>2. Grouped(new) = Grouped(ev) \cup {e}
    BY <1>1 DEF Grouped
<1>3. \A x \in Grouped(ev) : x # e /\ new[x] = ev[x]
    BY <1>1 DEF Grouped
<1>4. \A j : IssueSet(new, j) = IF j = i THEN IssueSet(ev, j) \cup {e} ELSE IssueSet(ev, j)
    BY <1>1, <1>2, <1>3 DEF IssueSet
<1>5. \A k : Members(new, k) = IF k = rk THEN Members(ev, k) \cup {e} ELSE Members(ev, k)
    BY <1>1, <1>2, <1>3 DEF Members
<1>6. \A k \in Issues \X Variants :
         VariantSet(new, k) = IF k = vk THEN VariantSet(ev, k) \cup {e} ELSE VariantSet(ev, k)
    <2> TAKE k \in Issues \X Variants
    <2>1. k = vk <=> k[1] = i /\ k[2] = entry.variant
        OBVIOUS
    <2>2. VariantSet(new, k) = IF k[1] = i /\ k[2] = entry.variant THEN VariantSet(ev, k) \cup {e}
                               ELSE VariantSet(ev, k)
        <3>1. CASE k[1] = i
            <4>1. IssueSet(new, k[1]) = IssueSet(ev, k[1]) \cup {e}
                BY <1>4, <3>1
            <4>2. /\ new[e].variant = entry.variant
                  /\ \A x \in IssueSet(ev, k[1]) : new[x].variant = ev[x].variant
                BY <1>1, <1>3 DEF IssueSet
            <4> QED BY ONLY <3>1, <4>1, <4>2 DEF VariantSet
        <3>2. CASE k[1] # i
            <4>1. IssueSet(new, k[1]) = IssueSet(ev, k[1])
                BY <1>4, <3>2
            <4>2. \A x \in IssueSet(ev, k[1]) : new[x].variant = ev[x].variant
                BY <1>3 DEF IssueSet
            <4> QED BY ONLY <3>2, <4>1, <4>2 DEF VariantSet
        <3> QED BY <3>1, <3>2
    <2> QED BY <2>1, <2>2
<1>7. \A S : S \subseteq Grouped(ev) => \A z : Counts(ev, z, S) => Counts(new, z, S)
    BY <1>3, CountsSame
<1>8. /\ \A j : IssueSet(ev, j) \subseteq Grouped(ev)
      /\ \A k : Members(ev, k) \subseteq Grouped(ev) /\ VariantSet(ev, k) \subseteq Grouped(ev)
    BY DEF IssueSet, Members, VariantSet
<1>9. \A S : S \subseteq Grouped(ev) => e \notin S /\ Ranked(new, S \cup {e})
    <2> TAKE S
    <2> HAVE S \subseteq Grouped(ev)
    <2>1. S \cup {e} \subseteq Grouped(new)
        BY <1>2
    <2> QED BY <2>1, GroupsRanked
<1>10. /\ DOMAIN v = DOMAIN var \cup {vk} /\ v \in [DOMAIN v -> CountRow]
       /\ \A x \in DOMAIN var \ {vk} : v[x] = var[x]
       /\ Counts(new, v[vk], VariantSet(new, vk))
    <2>1. vk \in Issues \X Variants
        OBVIOUS
    <2>2. vk \notin DOMAIN var => VariantSet(ev, vk) = {}
        BY DEF RowsHold, AllPresent, VariantSet, IssueSet
    <2>3. vk \in DOMAIN var => VariantSet(ev, vk) # {} /\ Counts(new, var[vk], VariantSet(ev, vk))
        BY <1>7, <1>8 DEF RowsHold
    <2>4. VariantSet(new, vk) = VariantSet(ev, vk) \cup {e}
        BY <1>6, <2>1
    <2>5. e \notin VariantSet(ev, vk) /\ Ranked(new, VariantSet(ev, vk) \cup {e})
        BY <1>8, <1>9
    <2> DEFINE S == VariantSet(ev, vk)
    <2>6. MayJoin(new, var, vk, S, e)
        <3> HIDE DEF vk
        <3> QED BY <2>2, <2>3, <2>5 DEF MayJoin, RowCounts, IsTable
    <2> HIDE DEF vk, S
    <2>7. IsTable(v) /\ Extends(v, var, vk) /\ Counts(new, v[vk], S \cup {e})
        BY <2>6, AddTable
    <2> HIDE DEF v
    <2> QED BY <2>4, <2>7 DEF S, IsTable, Extends
<1>11. ASSUME entry.release # NoValue
       PROVE  /\ DOMAIN r = DOMAIN rel \cup {rk} /\ r \in [DOMAIN r -> CountRow]
              /\ \A x \in DOMAIN rel \ {rk} : r[x] = rel[x]
              /\ Counts(new, r[rk], Members(new, rk))
    <2>2. rk \notin DOMAIN rel => Members(ev, rk) = {}
        BY <1>11 DEF RowsHold, AllPresent, Members
    <2>3. rk \in DOMAIN rel => Members(ev, rk) # {} /\ Counts(new, rel[rk], Members(ev, rk))
        BY <1>7, <1>8 DEF RowsHold
    <2>4. Members(new, rk) = Members(ev, rk) \cup {e}
        BY <1>5
    <2>5. e \notin Members(ev, rk) /\ Ranked(new, Members(ev, rk) \cup {e})
        BY <1>8, <1>9
    <2>r. r = Add(new, rel, rk, e)
        BY <1>11
    <2> DEFINE S == Members(ev, rk)
               added == Add(new, rel, rk, e)
    <2>6. MayJoin(new, rel, rk, S, e)
        <3> HIDE DEF rk
        <3> QED BY <2>2, <2>3, <2>5 DEF MayJoin, RowCounts, IsTable
    <2> HIDE DEF rk, S
    <2>7. IsTable(added) /\ Extends(added, rel, rk) /\ Counts(new, added[rk], S \cup {e})
        BY <2>6, AddTable
    <2> HIDE DEF added, r
    <2>8. r = added
        BY <2>r DEF added
    <2> QED BY <2>4, <2>7, <2>8 DEF S, IsTable, Extends
<1>12. Counts(new, after, IssueSet(new, i))
    <2> DEFINE z == IF i \in DOMAIN iss THEN Joined(new, iss[i], e) ELSE Aggregate(new, {e})
    <2>1. IssueSet(new, i) = IssueSet(ev, i) \cup {e}
        BY <1>4
    <2>2. CASE i \in DOMAIN iss
        <3>1. IssueSet(ev, i) # {} /\ Counts(new, iss[i], IssueSet(ev, i))
            BY <1>7, <1>8, <2>2 DEF RowsHold
        <3>2. Ranked(new, IssueSet(ev, i)) /\ e \notin IssueSet(ev, i) /\ new[e].quality \in Nat
            <4>1. Ranked(new, IssueSet(ev, i) \cup {e}) /\ e \notin IssueSet(ev, i)
                BY <1>8, <1>9
            <4>2. IsFiniteSet(IssueSet(ev, i))
                BY <4>1, FS_Subset DEF Ranked
            <4> QED BY <3>1, <4>1, <4>2 DEF Ranked
        <3>3. iss[i] \in CountRow \cup IssueRow
            BY <2>2
        <3>4. Counts(new, Joined(new, iss[i], e), IssueSet(ev, i) \cup {e})
            BY <3>1, <3>2, <3>3, JoinCounts
        <3> QED BY <2>1, <2>2, <3>4 DEF SameCounts, Counts
    <2>3. CASE i \notin DOMAIN iss
        <3>1. IssueSet(ev, i) = {}
            BY <2>3 DEF RowsHold, AllPresent, IssueSet
        <3>2. Ranked(new, {e}) /\ IssueSet(new, i) = {e}
            <4>1. Ranked(new, IssueSet(ev, i) \cup {e}) /\ IssueSet(ev, i) \cup {e} = {e}
                BY <1>8, <1>9, <3>1
            <4> QED BY <2>1, <4>1
        <3>3. Counts(new, Aggregate(new, {e}), {e})
            BY <3>2, AggregateCounts
        <3> QED BY <2>3, <3>2, <3>3 DEF SameCounts, Counts
    <2> QED BY <2>2, <2>3
<1>13. \A j \in DOMAIN t : IssueSet(new, j) # {} /\ Counts(new, t[j], IssueSet(new, j))
    <2> TAKE j \in DOMAIN t
    <2>1. CASE j = i
        BY <1>4, <1>12, <2>1 DEF Put
    <2>2. CASE j # i
        <3>1. j \in DOMAIN iss /\ t[j] = iss[j]
            BY <2>2 DEF Put
        <3>2. IssueSet(ev, j) # {} /\ Counts(new, iss[j], IssueSet(ev, j))
            BY <1>7, <1>8, <3>1 DEF RowsHold
        <3> QED BY <1>4, <2>2, <3>1, <3>2
    <2> QED BY <2>1, <2>2
<1>14. \A k \in DOMAIN v : VariantSet(new, k) # {} /\ Counts(new, v[k], VariantSet(new, k))
    <2> TAKE k \in DOMAIN v
    <2>0. vk \in Issues \X Variants
        OBVIOUS
    <2> HIDE DEF vk, v
    <2>1. CASE k = vk
        BY <1>6, <1>10, <2>0, <2>1
    <2>2. CASE k # vk
        <3>1. k \in DOMAIN var /\ v[k] = var[k] /\ k \in Issues \X Variants
            BY <1>10, <2>2
        <3>2. VariantSet(ev, k) # {} /\ Counts(new, var[k], VariantSet(ev, k))
            BY <1>7, <1>8, <3>1 DEF RowsHold
        <3> QED BY <1>6, <2>2, <3>1, <3>2
    <2> QED BY <2>1, <2>2
<1>15. \A k \in DOMAIN r : Members(new, k) # {} /\ Counts(new, r[k], Members(new, k))
    <2> TAKE k \in DOMAIN r
    <2>1. CASE entry.release # NoValue /\ k = rk
        <3> HIDE DEF rk, r
        <3> QED BY <1>5, <1>11, <2>1
    <2>2. CASE ~(entry.release # NoValue /\ k = rk)
        <3>1. k \in DOMAIN rel /\ r[k] = rel[k]
            <4>1. CASE entry.release = NoValue
                BY <4>1
            <4>2. CASE entry.release # NoValue
                <5> HIDE DEF rk, r
                <5> QED BY <1>11, <2>2, <4>2
            <4> QED BY <4>1, <4>2
        <3>2. Members(ev, k) # {} /\ Counts(new, rel[k], Members(ev, k))
            BY <1>7, <1>8, <3>1 DEF RowsHold
        <3>3. CASE k # rk
            <4> HIDE DEF rk, r
            <4> QED BY <1>5, <3>1, <3>2, <3>3
        <3>4. CASE k = rk /\ entry.release = NoValue
            BY <3>1, <3>4, IssuesAssumption
        <3> QED BY <2>2, <3>3, <3>4
    <2> QED BY <2>1, <2>2
<1>16. AllPresent(new, t, v, r)
    <2>1. DOMAIN t = DOMAIN iss \cup {i}
        BY DEF Put
    <2>2. DOMAIN rel \subseteq DOMAIN r
        <3> HIDE DEF rk
        <3>1. CASE entry.release = NoValue
            BY <3>1
        <3>2. CASE entry.release # NoValue
            <4> HIDE DEF r
            <4> QED BY <1>11, <3>2
        <3> QED BY <3>1, <3>2
    <2>3. entry.release # NoValue => rk \in DOMAIN r
        <3> HIDE DEF r, rk
        <3> QED BY <1>11
    <2>4. vk \in DOMAIN v /\ DOMAIN var \subseteq DOMAIN v
        <3> HIDE DEF v, vk
        <3> QED BY <1>10
    <2> HIDE DEF t, r, v
    <2> SUFFICES ASSUME NEW x \in Grouped(new)
                 PROVE  /\ new[x].issue \in DOMAIN t
                        /\ <<new[x].issue, new[x].variant>> \in DOMAIN v
                        /\ new[x].release # NoValue => <<new[x].issue, new[x].release>> \in DOMAIN r
        BY DEF AllPresent
    <2>5. CASE x = e
        BY <1>1, <2>1, <2>3, <2>4, <2>5
    <2>6. CASE x # e
        <3>1. x \in Grouped(ev) /\ new[x] = ev[x]
            BY <1>2, <1>3, <2>6
        <3> QED BY <2>1, <2>2, <2>4, <3>1 DEF RowsHold, AllPresent
    <2> QED BY <2>5, <2>6
<1>17. RowsHold(new, t, v, r)
    <2> HIDE DEF t, v, r
    <2> QED BY <1>13, <1>14, <1>15, <1>16 DEF RowsHold
<1>18. v \in [DOMAIN v -> CountRow] /\ DOMAIN v \subseteq Issues \X Variants
    <2>1. vk \in Issues \X Variants
        OBVIOUS
    <2> HIDE DEF v, vk
    <2> QED BY <1>10, <2>1
<1>19. /\ r \in [DOMAIN r -> CountRow]
       /\ DOMAIN r = IF entry.release = NoValue THEN DOMAIN rel ELSE DOMAIN rel \cup {rk}
    <2>1. CASE entry.release = NoValue
        BY <2>1
    <2>2. CASE entry.release # NoValue
        <3> HIDE DEF r, rk
        <3> QED BY <1>11, <2>2
    <2> QED BY <2>1, <2>2
<1> HIDE DEF t, v, r
<1>20. RowsJoined(new, rel, entry, t, v, r)
    BY <1>17, <1>18, <1>19 DEF RowsJoined
<1> QED BY <1>20 DEF t, v, r

(* A grouped event that moves to another release of its issue.             *)
Moving(ev, iss, var, rel, e, entry, new, ok, rk, left, r) ==
    /\ GoodEvents(ev) /\ GoodEvents(new) /\ RowsHold(ev, iss, var, rel)
    /\ IsTable(rel) /\ DOMAIN rel \subseteq Issues \X Releases
    /\ e \in Grouped(ev) /\ entry \in Event /\ entry.group = "grouped"
    /\ entry.issue = ev[e].issue /\ entry.variant = ev[e].variant /\ entry.quality = ev[e].quality
    /\ entry.release # ev[e].release
    /\ new = [ev EXCEPT ![e] = entry]
    /\ ok = <<ev[e].issue, ev[e].release>> /\ rk = <<ev[e].issue, entry.release>>
    /\ left = IF ev[e].release # NoValue THEN Remove(new, rel, ok, e) ELSE rel
    /\ r = IF entry.release = NoValue THEN left ELSE Add(new, left, rk, e)

(* A move takes the event from the row of its old release to that of the   *)
(* new one.                                                                *)
LEMMA MoveChangesRows ==
    ASSUME NEW ev, NEW iss, NEW var, NEW rel, NEW e, NEW entry, NEW new, NEW ok, NEW rk, NEW left, NEW r,
           Moving(ev, iss, var, rel, e, entry, new, ok, rk, left, r),
           NEW table, SameTable(table, iss)
    PROVE  /\ RowsHold(new, table, var, r)
           /\ IsTable(r)
           /\ DOMAIN r \subseteq IF entry.release = NoValue THEN DOMAIN rel ELSE DOMAIN rel \cup {rk}
           /\ DOMAIN rel \ {ok} \subseteq DOMAIN r
<1> USE DEF Moving
<1> DEFINE M(k) == Members(ev, k) \ {e}
<1>1. e \in Events /\ ev[e] # NoValue /\ ev[e].group = "grouped" /\ entry # NoValue
    BY IssuesAssumption DEF Grouped
<1>2. new[e] = entry /\ \A x \in Events : x # e => new[x] = ev[x]
    BY <1>1 DEF GoodEvents
<1>3. Grouped(new) = Grouped(ev)
    BY <1>1, <1>2 DEF Grouped
<1>4. \A x \in Grouped(ev) : /\ new[x].issue = ev[x].issue /\ new[x].variant = ev[x].variant
                             /\ new[x].quality = ev[x].quality
    BY <1>2 DEF Grouped
<1>5. \A k : /\ k # ok => Members(ev, k) = M(k)
             /\ k = ok => e \in Members(ev, k)
             /\ k # rk => Members(new, k) = M(k)
             /\ k = rk => Members(new, k) = M(k) \cup {e}
    <2> TAKE k
    <2>1. e \in Members(ev, k) <=> k = ok
        BY DEF Members
    <2>2. e \in Members(new, k) <=> k = rk
        BY <1>2, <1>3 DEF Members
    <2>3. \A x : x # e => (x \in Members(ev, k) <=> x \in Members(new, k))
        BY <1>2, <1>3 DEF Members, Grouped
    <2> QED BY <2>1, <2>2, <2>3
<1>6. \A S : S \subseteq Grouped(ev) => \A z : Counts(ev, z, S) => Counts(new, z, S)
    BY <1>4, CountsSame
<1>7. \A k : Members(ev, k) \subseteq Grouped(ev) /\ M(k) \subseteq Grouped(ev)
    BY DEF Members
<1>8. ok # rk
    OBVIOUS
<1>9. /\ IsTable(left) /\ DOMAIN left \subseteq DOMAIN rel
      /\ \A k \in DOMAIN left : M(k) # {} /\ Counts(new, left[k], M(k))
      /\ \A k \in DOMAIN rel : M(k) # {} => k \in DOMAIN left
      /\ DOMAIN rel \ {ok} \subseteq DOMAIN left
    <2> HIDE DEF M
    <2>1. CASE ev[e].release = NoValue
        <3>1. left = rel /\ ok \notin DOMAIN rel
            BY <2>1, IssuesAssumption
        <3>2. \A k \in DOMAIN left : Members(ev, k) = M(k)
            BY <1>5, <3>1
        <3>3. \A k \in DOMAIN left : M(k) # {} /\ Counts(new, left[k], M(k))
            BY <1>6, <1>7, <3>1, <3>2 DEF RowsHold
        <3> QED BY <3>1, <3>3
    <2>2. CASE ev[e].release # NoValue
        <3> DEFINE S == Members(ev, ok)
                   cut == Remove(new, rel, ok, e)
        <3>1. ok \in DOMAIN rel /\ e \in S
            BY <1>5, <2>2 DEF RowsHold, AllPresent
        <3>2. Ranked(new, S)
            BY <1>3, <1>7, <3>1, GroupsRanked
        <3>3. Members(new, ok) = S \ {e} /\ M(ok) = S \ {e}
            BY <1>5, <1>8 DEF M
        <3>4. Counts(new, rel[ok], S)
            BY <1>6, <1>7, <3>1 DEF RowsHold
        <3> HIDE DEF S
        <3>5. /\ DOMAIN cut = IF S = {e} THEN DOMAIN rel \ {ok} ELSE DOMAIN rel
              /\ IsTable(cut)
              /\ \A x \in DOMAIN rel \ {ok} : cut[x] = rel[x]
              /\ S # {e} => Counts(new, cut[ok], S \ {e})
            <4>1. /\ IsTable(cut) /\ Reduces(cut, rel, ok, S = {e})
                  /\ S # {e} => Counts(new, cut[ok], S \ {e})
                BY <3>1, <3>2, <3>3, <3>4, RemoveTable
            <4> QED BY <4>1 DEF Reduces
        <3>6. left = cut
            BY <2>2
        <3> HIDE DEF cut
        <3>7. \A k \in DOMAIN left : M(k) # {} /\ Counts(new, left[k], M(k))
            <4> TAKE k \in DOMAIN left
            <4>1. CASE k = ok
                <5>1. S # {e} /\ S \ {e} # {}
                    BY <3>1, <3>5, <3>6, <4>1
                <5> QED BY <3>3, <3>5, <3>6, <4>1, <5>1
            <4>2. CASE k # ok
                <5>1. k \in DOMAIN rel /\ left[k] = rel[k]
                    BY <3>5, <3>6, <4>2
                <5>2. Members(ev, k) # {} /\ Counts(new, rel[k], Members(ev, k))
                    BY <1>6, <1>7, <5>1 DEF RowsHold
                <5> QED BY <1>5, <4>2, <5>1, <5>2
            <4> QED BY <4>1, <4>2
        <3>8. \A k \in DOMAIN rel : M(k) # {} => k \in DOMAIN left
            BY <3>3, <3>5, <3>6
        <3> QED BY <3>5, <3>6, <3>7, <3>8 DEF IsTable
    <2> QED BY <2>1, <2>2
<1>10. /\ IsTable(r)
       /\ DOMAIN r = IF entry.release = NoValue THEN DOMAIN left ELSE DOMAIN left \cup {rk}
       /\ \A k \in DOMAIN r : Members(new, k) # {} /\ Counts(new, r[k], Members(new, k))
    <2> HIDE DEF M
    <2>1. CASE entry.release = NoValue
        <3>1. r = left /\ rk \notin DOMAIN rel
            BY <2>1, IssuesAssumption
        <3>2. \A k \in DOMAIN left : Members(new, k) = M(k)
            BY <1>5, <1>9, <3>1
        <3> QED BY <1>9, <2>1, <3>1, <3>2
    <2>2. CASE entry.release # NoValue
        <3> DEFINE S == M(rk)
        <3>1. e \notin S /\ Ranked(new, S \cup {e})
            <4>1. S \cup {e} \subseteq Grouped(new) /\ S \cup {e} # {}
                BY <1>3, <1>7
            <4>2. e \notin S
                BY DEF M
            <4> QED BY <4>1, <4>2, GroupsRanked
        <3>2. RowCounts(new, left, rk, S)
            <4>1. rk \notin DOMAIN left => S = {}
                <5>1. ASSUME NEW x \in S PROVE rk \in DOMAIN left
                    <6>1. x \in Members(ev, rk)
                        BY DEF M
                    <6>2. rk \in DOMAIN rel
                        BY <2>2, <6>1 DEF RowsHold, AllPresent, Members
                    <6> QED BY <1>9, <6>2
                <5> QED BY <5>1
            <4> QED BY <1>9, <4>1 DEF RowCounts
        <3>3. r = Add(new, left, rk, e)
            BY <2>2
        <3>4. Members(new, rk) = S \cup {e}
            BY <1>5
        <3> HIDE DEF S
        <3>5. /\ IsTable(Add(new, left, rk, e))
              /\ Extends(Add(new, left, rk, e), left, rk)
              /\ Counts(new, Add(new, left, rk, e)[rk], S \cup {e})
            <4>1. MayJoin(new, left, rk, S, e)
                BY <1>1, <1>9, <3>1, <3>2 DEF MayJoin
            <4> QED BY ONLY <4>1, AddTable
        <3>6. IsTable(r) /\ DOMAIN r = DOMAIN left \cup {rk}
              /\ \A x \in DOMAIN left \ {rk} : r[x] = left[x]
            BY ONLY <3>3, <3>5 DEF Extends
        <3>7. Members(new, rk) # {} /\ Counts(new, r[rk], Members(new, rk))
            BY <3>3, <3>4, <3>5
        <3>8. \A k \in DOMAIN r \ {rk} : Members(new, k) # {} /\ Counts(new, r[k], Members(new, k))
            <4> TAKE k \in DOMAIN r \ {rk}
            <4>1. k \in DOMAIN left /\ r[k] = left[k] /\ Members(new, k) = M(k)
                BY <1>5, <3>6
            <4> QED BY <1>9, <4>1
        <3> QED BY <2>2, <3>6, <3>7, <3>8
    <2> QED BY <2>1, <2>2
<1>12. /\ \A i : IssueSet(new, i) = IssueSet(ev, i)
       /\ \A k : VariantSet(new, k) = VariantSet(ev, k)
    <2>1. \A i : IssueSet(new, i) = IssueSet(ev, i)
        BY <1>3, <1>4 DEF IssueSet
    <2>2. ASSUME NEW k PROVE VariantSet(new, k) = VariantSet(ev, k)
        <3>1. IssueSet(new, k[1]) = IssueSet(ev, k[1])
            BY <2>1
        <3>2. \A x \in IssueSet(ev, k[1]) : new[x].variant = ev[x].variant
            BY <1>4 DEF IssueSet
        <3> QED BY ONLY <3>1, <3>2 DEF VariantSet
    <2> QED BY <2>1, <2>2
<1>13. /\ \A i \in DOMAIN table : IssueSet(new, i) # {} /\ Counts(new, table[i], IssueSet(new, i))
       /\ \A k \in DOMAIN var : VariantSet(new, k) # {} /\ Counts(new, var[k], VariantSet(new, k))
    <2>1. ASSUME NEW i \in DOMAIN table
          PROVE  IssueSet(new, i) # {} /\ Counts(new, table[i], IssueSet(new, i))
        <3>1. IssueSet(ev, i) # {} /\ Counts(ev, iss[i], IssueSet(ev, i)) /\ SameCounts(table[i], iss[i])
            BY DEF RowsHold, SameTable
        <3>2. Counts(ev, table[i], IssueSet(ev, i))
            BY <3>1 DEF Counts, SameCounts
        <3>3. IssueSet(ev, i) \subseteq Grouped(ev)
            BY DEF IssueSet
        <3> QED BY <1>6, <1>12, <3>1, <3>2, <3>3
    <2>2. ASSUME NEW k \in DOMAIN var
          PROVE  VariantSet(new, k) # {} /\ Counts(new, var[k], VariantSet(new, k))
        <3>1. VariantSet(ev, k) \subseteq Grouped(ev)
            BY DEF VariantSet, IssueSet
        <3> QED BY <1>6, <1>12, <3>1 DEF RowsHold
    <2> QED BY <2>1, <2>2
<1>14. AllPresent(new, table, var, r)
    <2> HIDE DEF M
    <2> SUFFICES ASSUME NEW x \in Grouped(new)
                 PROVE  /\ new[x].issue \in DOMAIN table
                        /\ <<new[x].issue, new[x].variant>> \in DOMAIN var
                        /\ new[x].release # NoValue => <<new[x].issue, new[x].release>> \in DOMAIN r
        BY DEF AllPresent
    <2>1. /\ ev[x].issue \in DOMAIN iss /\ <<ev[x].issue, ev[x].variant>> \in DOMAIN var
          /\ ev[x].release # NoValue => <<ev[x].issue, ev[x].release>> \in DOMAIN rel
        BY <1>3 DEF RowsHold, AllPresent
    <2>2. new[x].issue \in DOMAIN table /\ <<new[x].issue, new[x].variant>> \in DOMAIN var
        BY <1>3, <1>4, <2>1 DEF SameTable
    <2>3. CASE x = e
        BY <1>2, <1>10, <2>2, <2>3
    <2>4. CASE x # e
        <3>1. x \in Grouped(ev) /\ new[x] = ev[x]
            BY <1>2, <1>3, <2>4 DEF Grouped
        <3>2. x \in M(<<ev[x].issue, ev[x].release>>)
            BY <2>4, <3>1 DEF M, Members
        <3> QED BY <1>9, <1>10, <2>1, <2>2, <3>1, <3>2
    <2> QED BY <2>3, <2>4
<1>15. RowsHold(new, table, var, r)
    BY <1>10, <1>13, <1>14 DEF RowsHold
<1>16. /\ DOMAIN r \subseteq IF entry.release = NoValue THEN DOMAIN rel ELSE DOMAIN rel \cup {rk}
       /\ DOMAIN rel \ {ok} \subseteq DOMAIN r
    <2> HIDE DEF M
    <2> QED BY <1>9, <1>10
<1> QED BY <1>10, <1>15, <1>16

-----------------------------------------------------------------------------
(* The daily counts.                                                       *)

EventCount(ev, k) == Cardinality({e \in StoredIn(ev) : k \in EventKeys(e, ev[e])})
IssueCount(iss, k) == Cardinality({i \in DOMAIN iss : k \in IssueKeys(iss[i])})
Recounted(ev, iss, K) == [k \in K |-> EventCount(ev, k) + IssueCount(iss, k)]

(* The recount of the days, of this state and of the next.                 *)
LEMMA RecountIs ==
    /\ \A K : Recount(K) = Recounted(event, issue, K)
    /\ Recount(Keys)' = Recounted(event', issue', Keys)
<1>1. \A K : Recount(K) = Recounted(event, issue, K)
    <2> TAKE K
    <2> DEFINE events == [e \in Stored |-> EventKeys(e, event[e])]
               issues == [i \in DOMAIN issue |-> IssueKeys(issue[i])]
    <2>1. \A k : /\ {e \in Stored : k \in events[e]}
                      = {e \in StoredIn(event) : k \in EventKeys(e, event[e])}
                 /\ {i \in DOMAIN issue : k \in issues[i]}
                      = {i \in DOMAIN issue : k \in IssueKeys(issue[i])}
        BY DEF Stored, StoredIn
    <2>2. Recount(K) = [k \in K |-> Cardinality({e \in Stored : k \in events[e]})
                                     + Cardinality({i \in DOMAIN issue : k \in issues[i]})]
        BY DEF Recount
    <2> HIDE DEF events, issues
    <2> QED BY <2>1, <2>2 DEF Recounted, EventCount, IssueCount
<1>2. Recount(Keys)' = Recounted(event', issue', Keys)
    <2> DEFINE events == [e \in Stored' |-> EventKeys(e, event'[e])]
               issues == [i \in DOMAIN issue' |-> IssueKeys(issue'[i])]
    <2>1. \A k : /\ {e \in Stored' : k \in events[e]}
                      = {e \in StoredIn(event') : k \in EventKeys(e, event'[e])}
                 /\ {i \in DOMAIN issue' : k \in issues[i]}
                      = {i \in DOMAIN issue' : k \in IssueKeys(issue'[i])}
        BY DEF Stored, StoredIn
    <2>2. Recount(Keys)' = [k \in Keys |-> Cardinality({e \in Stored' : k \in events[e]})
                                     + Cardinality({i \in DOMAIN issue' : k \in issues[i]})]
        BY DEF Recount
    <2> HIDE DEF events, issues
    <2> QED BY <2>1, <2>2 DEF Recounted, EventCount, IssueCount
<1> QED BY <1>1, <1>2

(* One more for each key of A.                                             *)
Plus(base, A) == [k \in Keys |-> base[k] + (IF k \in A THEN 1 ELSE 0)]

(* apply_project_daily_rollup_delta moves one contribution from the keys in*)
(* gone to those in come.                                                  *)
LEMMA DeltaMoves ==
    ASSUME NEW base \in [Keys -> Nat], NEW A, NEW gone, gone \subseteq A,
           NEW come, come \cap (A \ gone) = {}
    PROVE  Delta(Plus(base, A), gone, come) = Plus(base, (A \ gone) \cup come)
<1> DEFINE was == Plus(base, A)
           new == Delta(was, gone, come)
           is == Plus(base, (A \ gone) \cup come)
<1>1. DOMAIN was = Keys /\ \A k \in Keys : was[k] = base[k] + (IF k \in A THEN 1 ELSE 0)
    BY DEF Plus
<1>2. new = [k \in Keys |-> CASE k \in come \ gone -> was[k] + 1
                               [] k \in gone \ come /\ was[k] > 0 -> was[k] - 1
                               [] OTHER -> was[k]]
    <2> HIDE DEF was
    <2> QED BY <1>1 DEF Delta
<1>3. is = [k \in Keys |-> base[k] + (IF k \in (A \ gone) \cup come THEN 1 ELSE 0)]
    BY DEF Plus
<1> HIDE DEF was, new, is
<1>4. ASSUME NEW k \in Keys PROVE new[k] = is[k]
    <2>1. base[k] \in Nat /\ was[k] = base[k] + (IF k \in A THEN 1 ELSE 0)
        BY <1>1
    <2>2. CASE k \in come \ gone
        <3>1. k \notin A
            BY <2>2
        <3> QED BY <1>2, <1>3, <2>1, <2>2, <3>1
    <2>3. CASE k \in gone \ come
        <3>1. was[k] = base[k] + 1 /\ was[k] > 0 /\ is[k] = base[k]
            BY <1>3, <2>1, <2>3
        <3>2. new[k] = was[k] - 1
            BY <1>2, <2>3, <3>1
        <3> QED BY <2>1, <3>1, <3>2
    <2>4. CASE k \notin come \ gone /\ k \notin gone \ come
        <3>1. new[k] = was[k]
            BY <1>2, <2>4
        <3>2. k \in (A \ gone) \cup come <=> k \in A
            BY <2>4
        <3> QED BY <1>3, <2>1, <3>1, <3>2
    <2> QED BY <2>2, <2>3, <2>4
<1> QED BY <1>2, <1>3, <1>4 DEF was, new, is

(* What an event counts for, key by key.                                   *)
LEMMA KeysOfEvent ==
    ASSUME NEW e, NEW entry
    PROVE  EventKeys(e, entry) =
             {<<Arrival[e], <<"event", "all">>>>, <<Arrival[e], <<"release", entry.release>>>>,
              <<Arrival[e], <<"type", entry.type>>>>,
              <<Arrival[e], <<"symbolication", Symbolication(entry.state, entry.symbolication)>>>>,
              <<Arrival[e], <<"state", entry.state>>>>}
BY DEF EventKeys

(* The two triggers of a publication, one after the other.                 *)
LEMMA TriggersMoveEvent ==
    ASSUME NEW base \in [Keys -> Nat], NEW e, NEW old, NEW new
    PROVE  EventDelta(SearchDelta(Plus(base, EventKeys(e, old)), e, old, new), e, old, new)
             = Plus(base, EventKeys(e, new))
<1> DEFINE d == Arrival[e]
           K(kind, v) == <<d, <<kind, v>>>>
           s0 == Symbolication(old.state, old.symbolication)
           s1 == Symbolication(old.state, new.symbolication)
           s2 == Symbolication(new.state, new.symbolication)
           A0 == {K("event", "all"), K("release", old.release), K("type", old.type),
                  K("symbolication", s0), K("state", old.state)}
           A1 == {K("event", "all"), K("release", old.release), K("type", new.type),
                  K("symbolication", s1), K("state", old.state)}
           A2 == {K("event", "all"), K("release", new.release), K("type", new.type),
                  K("symbolication", s2), K("state", new.state)}
           g1 == {K("type", old.type), K("symbolication", s0)}
           c1 == {K("type", new.type), K("symbolication", s1)}
           g2 == {K("release", old.release), K("state", old.state), K("symbolication", s1)}
           c2 == {K("release", new.release), K("state", new.state), K("symbolication", s2)}
<1>1. EventKeys(e, old) = A0 /\ EventKeys(e, new) = A2
    BY KeysOfEvent
<1>2. \A was : SearchDelta(was, e, old, new) = Delta(was, g1, c1)
    <2>1. /\ {d} \X {<<"type", old.type>>, <<"symbolication", s0>>} = g1
          /\ {d} \X {<<"type", new.type>>, <<"symbolication", s1>>} = c1
        <3> HIDE DEF d, s0, s1
        <3> QED OBVIOUS
    <2> HIDE DEF g1, c1
    <2> QED BY <2>1 DEF SearchDelta
<1>3. \A was : EventDelta(was, e, old, new) = Delta(was, g2, c2)
    <2>1. /\ {d} \X {<<"release", old.release>>, <<"state", old.state>>, <<"symbolication", s1>>} = g2
          /\ {d} \X {<<"release", new.release>>, <<"state", new.state>>, <<"symbolication", s2>>} = c2
        <3> HIDE DEF d, s1, s2
        <3> QED OBVIOUS
    <2> HIDE DEF g2, c2
    <2> QED BY <2>1 DEF EventDelta
<1>4. /\ g1 \subseteq A0 /\ c1 \cap (A0 \ g1) = {} /\ (A0 \ g1) \cup c1 = A1
    <2> HIDE DEF d, s0, s1
    <2> QED OBVIOUS
<1>5. /\ g2 \subseteq A1 /\ c2 \cap (A1 \ g2) = {} /\ (A1 \ g2) \cup c2 = A2
    <2> HIDE DEF d, s1, s2
    <2> QED OBVIOUS
<1> HIDE DEF A0, A1, A2, g1, g2, c1, c2
<1>6. Delta(Plus(base, A0), g1, c1) = Plus(base, A1)
    BY <1>4, DeltaMoves
<1>7. Delta(Plus(base, A1), g2, c2) = Plus(base, A2)
    BY <1>5, DeltaMoves
<1> QED BY <1>1, <1>2, <1>3, <1>6, <1>7

(* The trigger of a failure.                                               *)
LEMMA TriggerMovesFailed ==
    ASSUME NEW base \in [Keys -> Nat], NEW e, NEW old, NEW new,
           new.release = old.release, new.type = old.type, new.symbolication = old.symbolication
    PROVE  EventDelta(Plus(base, EventKeys(e, old)), e, old, new) = Plus(base, EventKeys(e, new))
<1> DEFINE d == Arrival[e]
           K(kind, v) == <<d, <<kind, v>>>>
           s1 == Symbolication(old.state, new.symbolication)
           s2 == Symbolication(new.state, new.symbolication)
           A1 == {K("event", "all"), K("release", old.release), K("type", old.type),
                  K("symbolication", s1), K("state", old.state)}
           A2 == {K("event", "all"), K("release", new.release), K("type", old.type),
                  K("symbolication", s2), K("state", new.state)}
           g2 == {K("release", old.release), K("state", old.state), K("symbolication", s1)}
           c2 == {K("release", new.release), K("state", new.state), K("symbolication", s2)}
<1>1. EventKeys(e, old) = A1 /\ EventKeys(e, new) = A2
    BY KeysOfEvent
<1>3. \A was : EventDelta(was, e, old, new) = Delta(was, g2, c2)
    <2>1. /\ {d} \X {<<"release", old.release>>, <<"state", old.state>>, <<"symbolication", s1>>} = g2
          /\ {d} \X {<<"release", new.release>>, <<"state", new.state>>, <<"symbolication", s2>>} = c2
        <3> HIDE DEF d, s1, s2
        <3> QED OBVIOUS
    <2> HIDE DEF g2, c2
    <2> QED BY <2>1 DEF EventDelta
<1>5. /\ g2 \subseteq A1 /\ c2 \cap (A1 \ g2) = {} /\ (A1 \ g2) \cup c2 = A2
    <2> HIDE DEF d, s1, s2
    <2> QED OBVIOUS
<1> HIDE DEF A1, A2, g2, c2
<1>7. Delta(Plus(base, A1), g2, c2) = Plus(base, A2)
    BY <1>5, DeltaMoves
<1> QED BY <1>1, <1>3, <1>7

(* A set with or without one element is counted by that element.           *)
LEMMA OneMore ==
    ASSUME NEW S, IsFiniteSet(S), NEW x, NEW T, T \ {x} = S \ {x}, IsFiniteSet(S \ {x})
    PROVE  /\ Cardinality(S \ {x}) \in Nat
           /\ Cardinality(T) = Cardinality(S \ {x}) + (IF x \in T THEN 1 ELSE 0)
<1> DEFINE R == S \ {x}
<1>1. IsFiniteSet(R) /\ Cardinality(R) \in Nat /\ x \notin R
    BY FS_CardinalityType
<1>2. Cardinality(R \cup {x}) = Cardinality(R) + 1
    BY <1>1, FS_AddElement
<1>3. x \in T => T = R \cup {x}
    OBVIOUS
<1>4. x \notin T => T = R
    OBVIOUS
<1> HIDE DEF R
<1>5. Cardinality(T) = Cardinality(R) + (IF x \in T THEN 1 ELSE 0)
    <2>1. CASE x \in T
        <3>1. Cardinality(T) = Cardinality(R) + 1
            BY <1>2, <1>3, <2>1
        <3> QED BY <2>1, <3>1
    <2>2. CASE x \notin T
        <3>1. Cardinality(T) = Cardinality(R)
            BY <1>4, <2>2
        <3> QED BY <1>1, <2>2, <3>1
    <2> QED BY <2>1, <2>2
<1> QED BY <1>1, <1>5 DEF R

(* Two recounts that differ in what one contributor counts for.            *)
Differ(was, is, A, B) == \E base \in [Keys -> Nat] : was = Plus(base, A) /\ is = Plus(base, B)

OldKeys(ev, e) == IF ev[e] = NoValue THEN {} ELSE EventKeys(e, ev[e])

(* One event is written: what the others count for stays.                  *)
LEMMA EventRecounted ==
    ASSUME NEW ev, DOMAIN ev = Events, IsFiniteSet(StoredIn(ev)), NEW iss, IsFiniteSet(DOMAIN iss),
           NEW e \in Events, NEW entry, entry # NoValue, NEW new, new = [ev EXCEPT ![e] = entry]
    PROVE  Differ(Recounted(ev, iss, Keys), Recounted(new, iss, Keys), OldKeys(ev, e),
                  EventKeys(e, entry))
<1> DEFINE A == OldKeys(ev, e)
           B == EventKeys(e, entry)
           E(k) == {x \in StoredIn(ev) : k \in EventKeys(x, ev[x])}
           N(k) == {x \in StoredIn(new) : k \in EventKeys(x, new[x])}
           base == [k \in Keys |-> Cardinality(E(k) \ {e}) + IssueCount(iss, k)]
<1>1. new[e] = entry /\ \A x \in Events : x # e => new[x] = ev[x]
    OBVIOUS
<1>2. \A k : E(k) \ {e} = N(k) \ {e}
    BY <1>1 DEF StoredIn
<1>3. \A k : (e \in E(k) <=> k \in A) /\ (e \in N(k) <=> k \in B)
    BY <1>1 DEF StoredIn, OldKeys
<1>4. \A k : IsFiniteSet(E(k)) /\ IsFiniteSet(E(k) \ {e})
    BY FS_Subset
<1>5. \A k : IssueCount(iss, k) \in Nat
    <2> TAKE k
    <2>1. IsFiniteSet({i \in DOMAIN iss : k \in IssueKeys(iss[i])})
        BY FS_Subset
    <2> QED BY <2>1, FS_CardinalityType DEF IssueCount
<1> HIDE DEF E, N, A, B
<1>6. \A k : /\ Cardinality(E(k) \ {e}) \in Nat
             /\ Cardinality(E(k)) = Cardinality(E(k) \ {e}) + (IF k \in A THEN 1 ELSE 0)
             /\ Cardinality(N(k)) = Cardinality(E(k) \ {e}) + (IF k \in B THEN 1 ELSE 0)
    <2> TAKE k
    <2>1. /\ Cardinality(E(k) \ {e}) \in Nat
          /\ Cardinality(E(k)) = Cardinality(E(k) \ {e}) + (IF e \in E(k) THEN 1 ELSE 0)
        BY <1>4, OneMore
    <2>2. N(k) \ {e} = E(k) \ {e}
        BY <1>2
    <2>3. Cardinality(N(k)) = Cardinality(E(k) \ {e}) + (IF e \in N(k) THEN 1 ELSE 0)
        BY <1>4, <2>2, OneMore
    <2> QED BY <1>3, <2>1, <2>3
<1>7. base \in [Keys -> Nat]
    BY <1>5, <1>6
<1>8. \A k : EventCount(ev, k) = Cardinality(E(k)) /\ EventCount(new, k) = Cardinality(N(k))
    BY DEF EventCount, E, N
<1>9. Recounted(ev, iss, Keys) = Plus(base, A)
    <2>1. \A k \in Keys : EventCount(ev, k) + IssueCount(iss, k) = base[k] + (IF k \in A THEN 1 ELSE 0)
        BY <1>5, <1>6, <1>8
    <2> HIDE DEF base
    <2> QED BY <2>1 DEF Recounted, Plus
<1>10. Recounted(new, iss, Keys) = Plus(base, B)
    <2>1. ASSUME NEW k \in Keys
          PROVE EventCount(new, k) + IssueCount(iss, k) = base[k] + (IF k \in B THEN 1 ELSE 0)
        <3>1. base[k] = Cardinality(E(k) \ {e}) + IssueCount(iss, k)
            OBVIOUS
        <3>2. /\ Cardinality(E(k) \ {e}) \in Nat /\ IssueCount(iss, k) \in Nat
              /\ EventCount(new, k) = Cardinality(E(k) \ {e}) + (IF k \in B THEN 1 ELSE 0)
            BY <1>5, <1>6, <1>8
        <3> HIDE DEF base
        <3> QED BY <3>1, <3>2
    <2> HIDE DEF base
    <2> QED BY <2>1 DEF Recounted, Plus
<1> HIDE DEF base
<1> QED BY <1>7, <1>9, <1>10 DEF A, B, Differ

(* One issue is written.                                                   *)
LEMMA IssueRecounted ==
    ASSUME NEW ev, IsFiniteSet(StoredIn(ev)), NEW iss, IsFiniteSet(DOMAIN iss), NEW i, NEW after
    PROVE  \E base \in [Keys -> Nat] :
              /\ Recounted(ev, iss, Keys)
                   = Plus(base, IF i \in DOMAIN iss THEN IssueKeys(iss[i]) ELSE {})
              /\ Recounted(ev, Put(iss, i, after), Keys) = Plus(base, IssueKeys(after))
<1> DEFINE new == Put(iss, i, after)
           E(k) == {x \in DOMAIN iss : k \in IssueKeys(iss[x])}
           N(k) == {x \in DOMAIN new : k \in IssueKeys(new[x])}
           base == [k \in Keys |-> EventCount(ev, k) + Cardinality(E(k) \ {i})]
           A == IF i \in DOMAIN iss THEN IssueKeys(iss[i]) ELSE {}
<1>1. DOMAIN new = DOMAIN iss \cup {i} /\ new[i] = after /\ \A x \in DOMAIN iss : x # i => new[x] = iss[x]
    BY DEF Put
<1>2. \A k : E(k) \ {i} = N(k) \ {i}
    <2> HIDE DEF new
    <2> QED BY <1>1
<1>3. \A k : (i \in E(k) <=> k \in A) /\ (i \in N(k) <=> k \in IssueKeys(after))
    <2> HIDE DEF new
    <2> QED BY <1>1
<1>4. \A k : IsFiniteSet(E(k)) /\ IsFiniteSet(E(k) \ {i})
    BY FS_Subset
<1>5. \A k : EventCount(ev, k) \in Nat
    <2> TAKE k
    <2>1. IsFiniteSet({x \in StoredIn(ev) : k \in EventKeys(x, ev[x])})
        BY FS_Subset
    <2> QED BY <2>1, FS_CardinalityType DEF EventCount
<1> HIDE DEF E, N, A
<1>6. \A k : /\ Cardinality(E(k) \ {i}) \in Nat
             /\ Cardinality(E(k)) = Cardinality(E(k) \ {i}) + (IF k \in A THEN 1 ELSE 0)
             /\ Cardinality(N(k)) = Cardinality(E(k) \ {i}) + (IF k \in IssueKeys(after) THEN 1 ELSE 0)
    <2> TAKE k
    <2>1. /\ Cardinality(E(k) \ {i}) \in Nat
          /\ Cardinality(E(k)) = Cardinality(E(k) \ {i}) + (IF i \in E(k) THEN 1 ELSE 0)
        BY <1>4, OneMore
    <2>2. N(k) \ {i} = E(k) \ {i}
        BY <1>2
    <2>3. Cardinality(N(k)) = Cardinality(E(k) \ {i}) + (IF i \in N(k) THEN 1 ELSE 0)
        BY <1>4, <2>2, OneMore
    <2> QED BY <1>3, <2>1, <2>3
<1>7. base \in [Keys -> Nat]
    BY <1>5, <1>6
<1>8. \A k : IssueCount(iss, k) = Cardinality(E(k)) /\ IssueCount(new, k) = Cardinality(N(k))
    BY DEF IssueCount, E, N
<1> HIDE DEF new
<1>9. Recounted(ev, iss, Keys) = Plus(base, A)
    <2>1. \A k \in Keys : EventCount(ev, k) + IssueCount(iss, k) = base[k] + (IF k \in A THEN 1 ELSE 0)
        BY <1>5, <1>6, <1>8
    <2> HIDE DEF base
    <2> QED BY <2>1 DEF Recounted, Plus
<1>10. Recounted(ev, new, Keys) = Plus(base, IssueKeys(after))
    <2>1. \A k \in Keys : EventCount(ev, k) + IssueCount(new, k)
                            = base[k] + (IF k \in IssueKeys(after) THEN 1 ELSE 0)
        BY <1>5, <1>6, <1>8
    <2> HIDE DEF base
    <2> QED BY <2>1 DEF Recounted, Plus
<1> HIDE DEF base
<1> QED BY <1>7, <1>9, <1>10 DEF A, new

(* The three triggers keep the counts of every day.                        *)
LEMMA IssueTriggerRecounts ==
    ASSUME NEW ev, IsFiniteSet(StoredIn(ev)), IsFiniteSet(DOMAIN issue), NEW i, NEW after
    PROVE  IssueDelta(Recounted(ev, issue, Keys), i, after) = Recounted(ev, Put(issue, i, after), Keys)
<1> DEFINE A == IF i \in DOMAIN issue THEN IssueKeys(issue[i]) ELSE {}
<1>1. PICK base \in [Keys -> Nat] :
         /\ Recounted(ev, issue, Keys) = Plus(base, A)
         /\ Recounted(ev, Put(issue, i, after), Keys) = Plus(base, IssueKeys(after))
    BY IssueRecounted
<1>2. \A was : IssueDelta(was, i, after) = Delta(was, A, IssueKeys(after))
    BY DEF IssueDelta
<1> HIDE DEF A
<1>3. Delta(Plus(base, A), A, IssueKeys(after)) = Plus(base, (A \ A) \cup IssueKeys(after))
    <2>1. IssueKeys(after) \cap (A \ A) = {}
        OBVIOUS
    <2> QED BY <2>1, DeltaMoves
<1>4. (A \ A) \cup IssueKeys(after) = IssueKeys(after)
    OBVIOUS
<1> QED BY <1>1, <1>2, <1>3, <1>4

(* ev with one event written.                                              *)
Writes(new, ev, e, entry) ==
    /\ DOMAIN ev = Events /\ IsFiniteSet(StoredIn(ev))
    /\ e \in Events /\ entry # NoValue
    /\ new = [ev EXCEPT ![e] = entry]

(* The triggers on an update of a crash keep every day a recount; without  *)
(* a change of release, type or symbolication the one of the search row    *)
(* has nothing to do.                                                      *)
LEMMA EventTriggersRecount ==
    ASSUME NEW iss, IsFiniteSet(DOMAIN iss),
           NEW ev, NEW e, NEW entry, NEW new, Writes(new, ev, e, entry), ev[e] # NoValue
    PROVE  /\ EventDelta(SearchDelta(Recounted(ev, iss, Keys), e, ev[e], entry), e, ev[e], entry)
                = Recounted(new, iss, Keys)
           /\ entry.release = ev[e].release /\ entry.type = ev[e].type
              /\ entry.symbolication = ev[e].symbolication
                => EventDelta(Recounted(ev, iss, Keys), e, ev[e], entry) = Recounted(new, iss, Keys)
<1> DEFINE A == EventKeys(e, ev[e])
           B == EventKeys(e, entry)
<1>1. A = OldKeys(ev, e) /\ B = EventKeys(e, entry)
    BY DEF OldKeys
<1>d. Differ(Recounted(ev, iss, Keys), Recounted(new, iss, Keys), OldKeys(ev, e), EventKeys(e, entry))
    BY EventRecounted DEF Writes
<1> HIDE DEF A, B
<1>2. PICK base \in [Keys -> Nat] :
         Recounted(ev, iss, Keys) = Plus(base, A) /\ Recounted(new, iss, Keys) = Plus(base, B)
    BY <1>1, <1>d DEF Differ
<1> QED BY <1>2, TriggersMoveEvent, TriggerMovesFailed DEF A, B

(* The trigger on the insertion of a crash keeps every day a recount.      *)
LEMMA AcceptedRecount ==
    ASSUME NEW iss, IsFiniteSet(DOMAIN iss),
           NEW ev, NEW e, NEW entry, NEW new, Writes(new, ev, e, entry), ev[e] = NoValue
    PROVE  Delta(Recounted(ev, iss, Keys), {}, EventKeys(e, entry)) = Recounted(new, iss, Keys)
<1> DEFINE A == {}
           B == EventKeys(e, entry)
<1>1. A = OldKeys(ev, e) /\ B = EventKeys(e, entry)
    BY DEF OldKeys
<1>d. Differ(Recounted(ev, iss, Keys), Recounted(new, iss, Keys), OldKeys(ev, e), EventKeys(e, entry))
    BY EventRecounted DEF Writes
<1> HIDE DEF A, B
<1>0. PICK base \in [Keys -> Nat] :
         Recounted(ev, iss, Keys) = Plus(base, A) /\ Recounted(new, iss, Keys) = Plus(base, B)
    BY <1>1, <1>d DEF Differ
<1>2. Delta(Plus(base, A), A, B) = Plus(base, (A \ A) \cup B)
    <2>1. B \cap (A \ A) = {} /\ A \subseteq A
        OBVIOUS
    <2> QED BY <2>1, DeltaMoves
<1>3. (A \ A) \cup B = B
    OBVIOUS
<1> QED BY <1>0, <1>2, <1>3 DEF A, B

-----------------------------------------------------------------------------
(* The state of an issue.                                                  *)

Stamped == stamp \in [Releases -> Stamps \cup {NoValue}]

Builds(R) == R \subseteq Releases /\ IsFiniteSet(R)

(* Build times to compare, and the two ends of a chronology.               *)
LEMMA Chronology ==
    ASSUME Stamped, NEW R, Builds(R), Ordered(R)
    PROVE  LET T == {stamp[r] : r \in R}
           IN  /\ T \subseteq Nat /\ Min(T) \in T /\ Max(T) \in T
               /\ \A y \in T : Min(T) <= y /\ Max(T) >= y
<1> DEFINE T == {stamp[r] : r \in R}
           f == [r \in R |-> stamp[r]]
<1>1. T \subseteq Nat /\ T # {}
    <2>1. \A r \in R : stamp[r] \in Nat
        BY IssuesAssumption DEF Stamped, Builds, Ordered
    <2> QED BY <2>1 DEF Ordered
<1>2. f \in Surjection(R, T)
    BY DEF Surjection
<1> HIDE DEF f, T
<1>3. IsFiniteSet(T)
    BY <1>2, FS_Surjection DEF Builds
<1>4. Min(T) \in T /\ \A y \in T : Min(T) <= y
    BY <1>1, LeastOf
<1>5. Max(T) \in T /\ \A y \in T : Max(T) >= y
    BY <1>1, <1>3, GreatestOf
<1> QED BY <1>1, <1>4, <1>5 DEF T

(* release_chronology: the ends are builds of the issue, the first and the *)
(* last of them.                                                           *)
FirstAndLast(a, b, R) ==
    /\ a \in R /\ b \in R
    /\ \A r \in R : stamp[a] <= stamp[r] /\ stamp[r] <= stamp[b]

(* The builds with the least and with the latest time are the first and    *)
(* the last.                                                               *)
LEMMA EndsOf ==
    ASSUME Stamped, NEW R, Builds(R), Ordered(R)
    PROVE  FirstAndLast(CHOOSE r \in R : stamp[r] = Min({stamp[s] : s \in R}),
                        CHOOSE r \in R : stamp[r] = Latest(R), R)
<1> DEFINE T == {stamp[r] : r \in R}
           n == Min(T)
           m == Max(T)
           a == CHOOSE r \in R : stamp[r] = n
           b == CHOOSE r \in R : stamp[r] = m
<1>1. n \in T /\ m \in T /\ \A y \in T : n <= y /\ m >= y
    BY Chronology
<1>2. T \subseteq Nat
    BY Chronology
<1>3. /\ \E r \in R : stamp[r] = n
      /\ \E r \in R : stamp[r] = m
      /\ \A r \in R : stamp[r] \in Nat /\ n <= stamp[r] /\ m >= stamp[r]
    <2> HIDE DEF n, m
    <2> QED BY <1>1, <1>2
<1>4. m = Latest(R)
    BY DEF Latest
<1> HIDE DEF n, m
<1>5. a \in R /\ stamp[a] = n /\ b \in R /\ stamp[b] = m
    BY <1>3
<1>6. n \in Nat /\ m \in Nat
    BY <1>3
<1> HIDE DEF a, b
<1>7. FirstAndLast(a, b, R)
    BY <1>3, <1>5, <1>6 DEF FirstAndLast
<1> QED BY <1>4, <1>7 DEF a, b, n

(* Writing the first and the last release leaves the rest of an issue      *)
(* alone.                                                                  *)
LEMMA EndsKeeps ==
    ASSUME Stamped, NEW R, Builds(R), NEW entry \in IssueRow
    PROVE  /\ Ends(entry, R) \in IssueRow
           /\ SameCounts(Ends(entry, R), entry)
           /\ Ends(entry, R).status = entry.status
           /\ Ends(entry, R).resolved = entry.resolved
           /\ Ends(entry, R).regression = entry.regression
           /\ Ordered(R) => FirstAndLast(Ends(entry, R).firstRelease, Ends(entry, R).lastRelease, R)
<1> DEFINE a == IF Ordered(R) THEN CHOOSE r \in R : stamp[r] = Min({stamp[s] : s \in R}) ELSE NoValue
           b == IF Ordered(R) THEN CHOOSE r \in R : stamp[r] = Latest(R) ELSE NoValue
<1>1. Ends(entry, R) = [entry EXCEPT !.firstRelease = a, !.lastRelease = b]
    BY DEF Ends
<1>2. a \in Releases \cup {NoValue} /\ b \in Releases \cup {NoValue}
      /\ (Ordered(R) => FirstAndLast(a, b, R))
    BY EndsOf DEF FirstAndLast, Builds
<1> HIDE DEF a, b
<1> QED BY <1>1, <1>2 DEF IssueRow, SameCounts

(* The row entry with another status.                                      *)
Stated(after, entry, a, b) ==
    /\ entry \in IssueRow /\ a \in {"open", "resolved"}
    /\ b \in {"unknown", "new", "ongoing", "resolved", "regressed"}
    /\ after = [entry EXCEPT !.status = a, !.regression = b]

(* A row with another status is a row of the same events and releases.     *)
LEMMA StatedRow ==
    ASSUME NEW entry, NEW a, NEW b, NEW after, Stated(after, entry, a, b)
    PROVE  /\ after \in IssueRow /\ SameCounts(after, entry)
           /\ after.status = a /\ after.regression = b
           /\ after.resolved = entry.resolved
           /\ after.firstRelease = entry.firstRelease /\ after.lastRelease = entry.lastRelease
<1> USE DEF Stated
<1>1. after \in IssueRow
    BY DEF IssueRow
<1>2. /\ after.status = a /\ after.regression = b /\ after.resolved = entry.resolved
      /\ after.firstRelease = entry.firstRelease /\ after.lastRelease = entry.lastRelease
    BY DEF IssueRow
<1>3. SameCounts(after, entry)
    BY DEF IssueRow, SameCounts
<1> QED BY <1>1, <1>2, <1>3

(* What update_issue_transitions makes of an issue, by the releases it     *)
(* occurs in.                                                              *)
LEMMA TransitionKeeps ==
    ASSUME Stamped, NEW R, Builds(R), NEW entry \in IssueRow
    PROVE  /\ Transition(entry, R) \in IssueRow
           /\ SameCounts(Transition(entry, R), entry)
           /\ Transition(entry, R).resolved = entry.resolved
           /\ Transition(entry, R).status = "resolved" => entry.status = "resolved"
           /\ Ordered(R) => FirstAndLast(Transition(entry, R).firstRelease,
                                         Transition(entry, R).lastRelease, R)
           /\ <<Transition(entry, R).status, Transition(entry, R).regression>> =
                 CASE Later(entry.resolved, R) -> <<"open", "regressed">>
                   [] ~Later(entry.resolved, R) /\ entry.status = "resolved" -> <<"resolved", "resolved">>
                   [] ~Later(entry.resolved, R) /\ entry.status = "open" /\ entry.resolved # NoValue ->
                          <<"open", "unknown">>
                   [] OTHER -> <<"open", Retained(R)>>
<1> DEFINE s == CASE Later(entry.resolved, R) -> <<"open", "regressed">>
                   [] ~Later(entry.resolved, R) /\ entry.status = "resolved" -> <<"resolved", "resolved">>
                   [] ~Later(entry.resolved, R) /\ entry.status = "open" /\ entry.resolved # NoValue ->
                          <<"open", "unknown">>
                   [] OTHER -> <<"open", Retained(R)>>
           e == Ends(entry, R)
           t == Transition(entry, R)
<1>1. Transition(entry, R) = [e EXCEPT !.status = s[1], !.regression = s[2]]
    BY DEF Transition
<1>2. Retained(R) \in {"unknown", "new", "ongoing"}
    BY DEF Retained
<1>3. /\ s = <<s[1], s[2]>> /\ s[1] \in {"open", "resolved"}
      /\ s[2] \in {"unknown", "new", "ongoing", "resolved", "regressed"}
      /\ s[1] = "resolved" => entry.status = "resolved"
    BY <1>2
<1>4. /\ e \in IssueRow /\ SameCounts(e, entry) /\ e.resolved = entry.resolved
      /\ Ordered(R) => FirstAndLast(e.firstRelease, e.lastRelease, R)
    BY EndsKeeps
<1> HIDE DEF s, e
<1>5. /\ t \in IssueRow /\ SameCounts(t, e)
      /\ t.status = s[1] /\ t.regression = s[2] /\ t.resolved = e.resolved
      /\ t.firstRelease = e.firstRelease /\ t.lastRelease = e.lastRelease
    <2>1. Stated(t, e, s[1], s[2])
        BY <1>1, <1>3, <1>4 DEF Stated
    <2> HIDE DEF t
    <2> QED BY <2>1, StatedRow
<1>6. <<t.status, t.regression>> = s
    BY <1>3, <1>5
<1>7. /\ Transition(entry, R) \in IssueRow
      /\ SameCounts(Transition(entry, R), entry)
      /\ Transition(entry, R).resolved = entry.resolved
      /\ Transition(entry, R).status = "resolved" => entry.status = "resolved"
      /\ Ordered(R) => FirstAndLast(Transition(entry, R).firstRelease,
                                    Transition(entry, R).lastRelease, R)
    BY <1>3, <1>4, <1>5 DEF SameCounts
<1> QED BY <1>6, <1>7 DEF s

(* As many build times as releases: each release has one, no two the       *)
(* same.                                                                   *)
LEMMA ProvableIsOrdered ==
    ASSUME Stamped, NEW R, Builds(R)
    PROVE  Provable(R) <=> Ordered(R)
<1> DEFINE K == {r \in R : stamp[r] # NoValue}
           T == {stamp[r] : r \in R} \ {NoValue}
           f == [r \in K |-> stamp[r]]
<1>1. f \in Surjection(K, T)
    BY DEF Surjection
<1>2. K \in SUBSET R /\ IsFiniteSet(R)
    BY DEF Builds
<1>3. f \in Injection(K, T) <=> \A r, s \in K : r # s => stamp[r] # stamp[s]
    BY <1>1 DEF Injection, Surjection, IsInjective
<1>4. K = R <=> \A r \in R : stamp[r] # NoValue
    OBVIOUS
<1>5. Provable(R) <=> R # {} /\ Cardinality(T) = Cardinality(R)
    BY DEF Provable
<1>6. Ordered(R) <=> R # {} /\ K = R /\ \A r, s \in K : r # s => stamp[r] # stamp[s]
    BY <1>4 DEF Ordered
<1> HIDE DEF K, T, f
<1>7. IsFiniteSet(K) /\ Cardinality(K) <= Cardinality(R) /\ (Cardinality(K) = Cardinality(R) => K = R)
    BY <1>2, FS_Subset
<1>8. /\ IsFiniteSet(T) /\ Cardinality(T) <= Cardinality(K)
      /\ Cardinality(T) = Cardinality(K) <=> f \in Injection(K, T)
    BY <1>1, <1>7, FS_Surjection
<1>9. Cardinality(K) \in Nat /\ Cardinality(R) \in Nat /\ Cardinality(T) \in Nat
    BY <1>2, <1>7, <1>8, FS_CardinalityType
<1>10. Cardinality(T) = Cardinality(R) <=> K = R /\ f \in Injection(K, T)
    BY <1>7, <1>8, <1>9
<1> QED BY <1>3, <1>5, <1>6, <1>10

(* What the CHECK constraints ask of a row's status, and that it was       *)
(* resolved, if at all, in a build whose time is known.                    *)
Resolvable(entry) ==
    /\ entry.status = "resolved" => entry.resolved # NoValue
    /\ entry.regression = "resolved" => entry.status = "resolved"
    /\ entry.regression = "regressed" => entry.status = "open" /\ entry.resolved # NoValue
    /\ entry.resolved # NoValue => stamp[entry.resolved] # NoValue

(* What an issue that occurs in the builds R should show.                  *)
Shows(entry, R) ==
    /\ entry.regression = "regressed" <=>
          entry.resolved # NoValue /\ Provable(R) /\ \E r \in R : stamp[r] > stamp[entry.resolved]
    /\ entry.status = "resolved" <=> entry.regression = "resolved"
    /\ entry.regression \in {"new", "ongoing"} <=> entry.resolved = NoValue /\ Provable(R)
    /\ Provable(R) => /\ {entry.firstRelease, entry.lastRelease} \subseteq R
                      /\ \A r \in R : stamp[entry.firstRelease] <= stamp[r]
                                      /\ stamp[r] <= stamp[entry.lastRelease]

(* The check of resolve_issue and update_issue_transitions: a release of   *)
(* the issue is provably later than the one that resolved it.              *)
LEMMA LaterIs ==
    ASSUME Stamped, NEW R, Builds(R), NEW r \in Releases \cup {NoValue},
           r # NoValue => stamp[r] # NoValue
    PROVE  Later(r, R) <=> r # NoValue /\ Ordered(R) /\ \E x \in R : stamp[x] > stamp[r]
<1>1. CASE r # NoValue /\ Ordered(R)
    <2> DEFINE T == {stamp[x] : x \in R}
               m == Max(T)
    <2>1. T \subseteq Nat /\ m \in T /\ \A y \in T : m >= y
        BY <1>1, Chronology
    <2>2. stamp[r] \in Nat
        BY <1>1, IssuesAssumption DEF Stamped
    <2>3. Later(r, R) <=> m > stamp[r]
        BY <1>1 DEF Later, Latest
    <2> HIDE DEF m
    <2>4. (\E x \in R : stamp[x] = m) /\ \A x \in R : m >= stamp[x] /\ stamp[x] \in Nat
        BY <2>1
    <2>5. m \in Nat
        BY <2>1
    <2> HIDE DEF T
    <2>6. m > stamp[r] <=> \E x \in R : stamp[x] > stamp[r]
        BY <2>2, <2>4, <2>5
    <2> QED BY <1>1, <2>3, <2>6
<1>2. CASE ~(r # NoValue /\ Ordered(R))
    BY <1>2 DEF Later
<1> QED BY <1>1, <1>2

(* update_issue_transitions leaves a row that the constraints admit.       *)
LEMMA TransitionResolvable ==
    ASSUME Stamped, NEW R, Builds(R), NEW entry \in IssueRow, Resolvable(entry)
    PROVE  Resolvable(Transition(entry, R))
<1> DEFINE t == Transition(entry, R)
<1>1. /\ t.resolved = entry.resolved
      /\ <<t.status, t.regression>> =
                 CASE Later(entry.resolved, R) -> <<"open", "regressed">>
                   [] ~Later(entry.resolved, R) /\ entry.status = "resolved" -> <<"resolved", "resolved">>
                   [] ~Later(entry.resolved, R) /\ entry.status = "open" /\ entry.resolved # NoValue ->
                          <<"open", "unknown">>
                   [] OTHER -> <<"open", Retained(R)>>
    BY TransitionKeeps
<1>2. Later(entry.resolved, R) => entry.resolved # NoValue
    BY DEF Later
<1>3. Retained(R) \notin {"resolved", "regressed"}
    BY DEF Retained
<1> HIDE DEF t
<1>4. /\ t.status = "resolved" => entry.status = "resolved"
      /\ t.regression = "resolved" => t.status = "resolved"
      /\ t.regression = "regressed" => t.status = "open" /\ entry.resolved # NoValue
    <2>1. CASE Later(entry.resolved, R)
        BY <1>1, <1>2, <2>1
    <2>2. CASE ~Later(entry.resolved, R) /\ entry.status = "resolved"
        BY <1>1, <2>2
    <2>3. CASE ~Later(entry.resolved, R) /\ entry.status = "open" /\ entry.resolved # NoValue
        BY <1>1, <2>3
    <2>4. CASE /\ ~Later(entry.resolved, R) /\ entry.status # "resolved"
               /\ ~(entry.status = "open" /\ entry.resolved # NoValue)
        BY <1>1, <1>3, <2>4
    <2> QED BY <2>1, <2>2, <2>3, <2>4
<1>5. Resolvable(t)
    BY <1>1, <1>4 DEF Resolvable
<1> QED BY <1>5 DEF t

(* update_issue_transitions leaves the state the builds call for.          *)
LEMMA TransitionShows ==
    ASSUME Stamped, NEW R, Builds(R), NEW entry \in IssueRow, Resolvable(entry)
    PROVE  Shows(Transition(entry, R), R)
<1> DEFINE t == Transition(entry, R)
           later == \E x \in R : stamp[x] > stamp[entry.resolved]
<1>1. Provable(R) <=> Ordered(R)
    BY ProvableIsOrdered
<1>2. Later(entry.resolved, R) <=> entry.resolved # NoValue /\ Ordered(R) /\ later
    BY LaterIs DEF Resolvable, IssueRow
<1>3. Retained(R) \in {"new", "ongoing"} <=> Ordered(R)
    BY DEF Retained
<1>4. Retained(R) \in {"new", "ongoing", "unknown"}
    BY DEF Retained
<1>5. /\ t.resolved = entry.resolved /\ t \in IssueRow
      /\ Ordered(R) => FirstAndLast(t.firstRelease, t.lastRelease, R)
      /\ <<t.status, t.regression>> =
                 CASE Later(entry.resolved, R) -> <<"open", "regressed">>
                   [] ~Later(entry.resolved, R) /\ entry.status = "resolved" -> <<"resolved", "resolved">>
                   [] ~Later(entry.resolved, R) /\ entry.status = "open" /\ entry.resolved # NoValue ->
                          <<"open", "unknown">>
                   [] OTHER -> <<"open", Retained(R)>>
    BY TransitionKeeps
<1>6. entry.status \in {"open", "resolved"} /\ (entry.status = "resolved" => entry.resolved # NoValue)
    BY DEF IssueRow, Resolvable
<1> HIDE DEF t, later
<1>7. t.regression = "regressed" <=> t.resolved # NoValue /\ Provable(R) /\ later
    BY <1>1, <1>2, <1>4, <1>5, <1>6
<1>8. t.status = "resolved" <=> t.regression = "resolved"
    BY <1>4, <1>5, <1>6
<1>9. t.regression \in {"new", "ongoing"} <=> t.resolved = NoValue /\ Provable(R)
    BY <1>1, <1>2, <1>3, <1>4, <1>5, <1>6
<1>10. Provable(R) => /\ {t.firstRelease, t.lastRelease} \subseteq R
                      /\ \A r \in R : stamp[t.firstRelease] <= stamp[r]
                                      /\ stamp[r] <= stamp[t.lastRelease]
    BY <1>1, <1>5 DEF FirstAndLast
<1>11. later <=> \E x \in R : stamp[x] > stamp[t.resolved]
    BY <1>5 DEF later
<1> QED BY <1>7, <1>8, <1>9, <1>10, <1>11 DEF Shows, t

-----------------------------------------------------------------------------
(* What every action needs of the invariant, and what it has to keep.      *)

(* The counts of the days stay natural numbers.                            *)
LEMMA DeltaTyped ==
    ASSUME NEW was \in [Keys -> Nat], NEW gone, NEW come
    PROVE  Delta(was, gone, come) \in [Keys -> Nat]
<1>1. \A k \in Keys : (CASE k \in come \ gone -> was[k] + 1
                         [] k \in gone \ come /\ was[k] > 0 -> was[k] - 1
                         [] OTHER -> was[k]) \in Nat
    <2> TAKE k \in Keys
    <2>1. was[k] \in Nat
        OBVIOUS
    <2>2. CASE k \in come \ gone
        BY <2>1, <2>2
    <2>3. CASE k \in gone \ come
        BY <2>1, <2>3
    <2>4. CASE k \notin come \ gone /\ k \notin gone \ come
        BY <2>1, <2>4
    <2> QED BY <2>2, <2>3, <2>4
<1> QED BY <1>1 DEF Delta

(* So they do under the triggers.                                          *)
LEMMA TriggersTyped ==
    ASSUME NEW was \in [Keys -> Nat]
    PROVE  /\ \A e, old, new : EventDelta(SearchDelta(was, e, old, new), e, old, new) \in [Keys -> Nat]
           /\ \A e, old, new : EventDelta(was, e, old, new) \in [Keys -> Nat]
           /\ \A i, after : IssueDelta(was, i, after) \in [Keys -> Nat]
<1>1. \A w \in [Keys -> Nat] : \A e, old, new : EventDelta(w, e, old, new) \in [Keys -> Nat]
    BY DeltaTyped DEF EventDelta
<1>2. \A e, old, new : SearchDelta(was, e, old, new) \in [Keys -> Nat]
    BY DeltaTyped DEF SearchDelta
<1>3. \A i, after : IssueDelta(was, i, after) \in [Keys -> Nat]
    BY DeltaTyped DEF IssueDelta
<1> QED BY <1>1, <1>2, <1>3

(* An issue occurs in finitely many releases.                              *)
LEMMA SeenBuilds ==
    ASSUME NEW table, DOMAIN table \subseteq Issues \X Releases, IsFiniteSet(DOMAIN table), NEW i
    PROVE  Builds(Seen(table, i))
<1> DEFINE K == {k \in DOMAIN table : k[1] = i}
           f == [k \in K |-> k[2]]
<1>1. f \in Surjection(K, Seen(table, i))
    BY DEF Surjection, Seen
<1>2. IsFiniteSet(K)
    BY FS_Subset
<1> HIDE DEF f, K
<1> QED BY <1>1, <1>2, FS_Surjection DEF Builds, Seen

(* The tables.                                                             *)
TablesTyped(iss, var, rel) ==
    /\ DOMAIN iss \subseteq Issues /\ IsFiniteSet(DOMAIN iss) /\ iss \in [DOMAIN iss -> IssueRow]
    /\ DOMAIN var \subseteq Issues \X Variants /\ IsTable(var)
    /\ DOMAIN rel \subseteq Issues \X Releases /\ IsFiniteSet(DOMAIN rel) /\ IsTable(rel)

(* A row written to the issues.                                            *)
LEMMA PutTyped ==
    ASSUME NEW iss, DOMAIN iss \subseteq Issues, IsFiniteSet(DOMAIN iss),
           iss \in [DOMAIN iss -> IssueRow], NEW i \in Issues, NEW after \in IssueRow
    PROVE  /\ DOMAIN Put(iss, i, after) \subseteq Issues /\ IsFiniteSet(DOMAIN Put(iss, i, after))
           /\ Put(iss, i, after) \in [DOMAIN Put(iss, i, after) -> IssueRow]
<1>1. DOMAIN Put(iss, i, after) = DOMAIN iss \cup {i}
    BY DEF Put
<1>2. IsFiniteSet(DOMAIN iss \cup {i})
    BY FS_AddElement
<1> QED BY <1>1, <1>2 DEF Put

(* The invariant without the budget, the client and the second half of a   *)
(* repair.                                                                 *)
TablesHold(ev, iss, var, rel) ==
    /\ GoodEvents(ev)
    /\ TablesTyped(iss, var, rel)
    /\ RowsHold(ev, iss, var, rel)

(* The invariant, over the operators of this module.                       *)
LEMMA InvariantMeans ==
    ASSUME IssuesIInv
    PROVE  /\ TablesHold(event, issue, variants, releases)
           /\ Stamped /\ \A i \in DOMAIN issue : Resolvable(issue[i])
           /\ daily \in [Keys -> Nat]
           /\ drift \/ daily = Recounted(event, issue, Keys)
           /\ budget \in Budget
<1>1. GoodEvents(event)
    BY DEF IssuesIInv, IssuesTypeOK, GroupsAreNamed, GoodEvents, Stored, StoredIn
<1>2. RowsHold(event, issue, variants, releases)
    BY <1>1, RowsAre, RecountedRows DEF IssuesIInv, DeltasAreRecounts
<1>3. drift \/ daily = Recounted(event, issue, Keys)
    BY RecountIs DEF IssuesIInv, DeltasAreRecounts
<1>4. TablesTyped(issue, variants, releases)
    BY DEF IssuesIInv, IssuesTypeOK, TablesTyped, IsTable
<1>5. \A i \in DOMAIN issue : Resolvable(issue[i])
    BY DEF IssuesIInv, ChecksAdmitRows, ResolvedIsStamped, Resolvable
<1> QED BY <1>1, <1>2, <1>3, <1>4, <1>5 DEF IssuesIInv, IssuesTypeOK, Stamped, TablesHold

(* What is left of the types.                                              *)
RestTyped ==
    /\ repair # NoValue => DOMAIN repair \subseteq Keys /\ repair \in [DOMAIN repair -> Nat]
    /\ enabled \in BOOLEAN /\ drift \in BOOLEAN
    /\ list \in [open : BOOLEAN, cursor : (Nat \X Nat) \cup {NoValue}, seen : [Issues -> Nat],
                  due : {list.due}]
    /\ \A i \in DOMAIN list.due : list.due[i] \in Nat
    /\ budget \in Budget

(* A row that counts events counts one at least, between its bounds.       *)
LEMMA CountedAdmitted ==
    ASSUME NEW ev, GoodEvents(ev), NEW S, S \subseteq Grouped(ev), S # {},
           NEW entry, entry.first \in Nat, entry.last \in Nat, Counts(ev, entry, S)
    PROVE  entry.count > 0 /\ entry.first <= entry.last
<1>1. IsFiniteSet(S)
    <2>1. S \subseteq StoredIn(ev) /\ IsFiniteSet(StoredIn(ev))
        BY DEF Grouped, StoredIn, GoodEvents
    <2> QED BY <2>1, FS_Subset
<1>2. Cardinality(S) \in Nat /\ Cardinality(S) # 0
    BY <1>1, FS_CardinalityType, FS_EmptySet
<1>3. PICK x \in S : entry.first = Arrival[x] /\ entry.first <= entry.last
    BY DEF Counts
<1> QED BY <1>2, <1>3 DEF Counts

(* So the rows of the three tables, which are of issues that exist.        *)
LEMMA RowsAdmitted ==
    ASSUME NEW ev, GoodEvents(ev), NEW iss, NEW var, NEW rel, TablesTyped(iss, var, rel),
           RowsHold(ev, iss, var, rel)
    PROVE  /\ \A i \in DOMAIN iss : iss[i].count > 0 /\ iss[i].first <= iss[i].last
           /\ \A k \in DOMAIN var :
                 var[k].count > 0 /\ var[k].first <= var[k].last /\ k[1] \in DOMAIN iss
           /\ \A k \in DOMAIN rel :
                 rel[k].count > 0 /\ rel[k].first <= rel[k].last /\ k[1] \in DOMAIN iss
<1>1. \A i \in DOMAIN iss : iss[i].count > 0 /\ iss[i].first <= iss[i].last
    <2> TAKE i \in DOMAIN iss
    <2>1. IssueSet(ev, i) \subseteq Grouped(ev) /\ IssueSet(ev, i) # {}
          /\ Counts(ev, iss[i], IssueSet(ev, i))
        BY DEF RowsHold, IssueSet
    <2>2. iss[i].first \in Nat /\ iss[i].last \in Nat
        BY DEF TablesTyped, IssueRow
    <2> QED BY <2>1, <2>2, CountedAdmitted
<1>2. ASSUME NEW k \in DOMAIN var
      PROVE  var[k].count > 0 /\ var[k].first <= var[k].last /\ k[1] \in DOMAIN iss
    <2>1. /\ VariantSet(ev, k) \subseteq Grouped(ev) /\ VariantSet(ev, k) # {}
          /\ Counts(ev, var[k], VariantSet(ev, k))
          /\ \A e \in VariantSet(ev, k) : ev[e].issue = k[1]
        BY DEF RowsHold, VariantSet, IssueSet
    <2>2. var[k].first \in Nat /\ var[k].last \in Nat
        BY DEF TablesTyped, IsTable, CountRow
    <2>3. k[1] \in DOMAIN iss
        BY <2>1 DEF RowsHold, AllPresent
    <2> QED BY <2>1, <2>2, <2>3, CountedAdmitted
<1>3. ASSUME NEW k \in DOMAIN rel
      PROVE  rel[k].count > 0 /\ rel[k].first <= rel[k].last /\ k[1] \in DOMAIN iss
    <2>1. k = <<k[1], k[2]>> /\ rel[k].first \in Nat /\ rel[k].last \in Nat
        BY DEF TablesTyped, IsTable, CountRow
    <2>2. /\ Members(ev, k) \subseteq Grouped(ev) /\ Members(ev, k) # {}
          /\ Counts(ev, rel[k], Members(ev, k))
          /\ \A e \in Members(ev, k) : ev[e].issue = k[1]
        BY <2>1 DEF RowsHold, Members
    <2>3. k[1] \in DOMAIN iss
        BY <2>2 DEF RowsHold, AllPresent
    <2> QED BY <2>1, <2>2, <2>3, CountedAdmitted
<1> QED BY <1>1, <1>2, <1>3

(* The invariant of the next state, from its parts.                        *)
LEMMA InvariantAfter ==
    ASSUME TablesHold(event, issue, variants, releases)', Stamped', daily' \in [Keys -> Nat],
           \A i \in DOMAIN issue' : Resolvable(issue[i])',
           drift' \/ daily' = Recounted(event', issue', Keys),
           RestTyped', CursorHolds'
    PROVE  IssuesIInv'
<1>1. IssuesTypeOK'
    BY DEF TablesHold, TablesTyped, IsTable, GoodEvents, Stamped, RestTyped, IssuesTypeOK, Stored, StoredIn
<1>2. RowsAreRecounts'
    <2>1. RowsHold(event', issue', variants', releases') /\ GoodEvents(event')
        BY DEF TablesHold
    <2> QED BY <2>1, RowsAre, RecountedRows
<1>3. DeltasAreRecounts'
    BY <1>2, RecountIs DEF DeltasAreRecounts
<1>4. GroupsAreNamed'
    BY DEF TablesHold, GoodEvents, GroupsAreNamed, Grouped
<1>5. ResolvedIsStamped'
    BY DEF ResolvedIsStamped, Resolvable
<1>6. ChecksAdmitRows'
    <2>1. /\ GoodEvents(event') /\ TablesTyped(issue', variants', releases')
          /\ RowsHold(event', issue', variants', releases')
        BY DEF TablesHold
    <2> QED BY <2>1, RowsAdmitted DEF ChecksAdmitRows, Resolvable
<1> QED BY <1>1, <1>3, <1>4, <1>5, <1>6 DEF IssuesIInv

(* No row of an issue disappears, and none becomes older.                  *)
NoneOlder(new, iss) ==
    DOMAIN iss \subseteq DOMAIN new /\ \A i \in DOMAIN iss : iss[i].last <= new[i].last

(* The cursor of a list still separates what was read while no issue       *)
(* moves back in time.                                                     *)
LEMMA CursorKept ==
    ASSUME CursorHolds, list' = list, NoneOlder(issue', issue),
           issue \in [DOMAIN issue -> IssueRow], issue' \in [DOMAIN issue' -> IssueRow],
           \A i \in DOMAIN list.due : list.due[i] \in Nat
    PROVE  CursorHolds'
<1> SUFFICES ASSUME list.open, NEW i \in DOMAIN list.due
             PROVE  /\ i \in DOMAIN issue'
                    /\ list.due[i] <= issue'[i].last
                    /\ issue'[i].last = list.due[i]
                         => list.seen[i] = (IF i \in Behind(list.cursor)' THEN 0 ELSE 1)
    BY DEF CursorHolds
<1>1. /\ i \in DOMAIN issue /\ list.due[i] <= issue[i].last
      /\ issue[i].last = list.due[i]
           => list.seen[i] = (IF i \in Behind(list.cursor) THEN 0 ELSE 1)
    BY DEF CursorHolds
<1>2. i \in DOMAIN issue' /\ issue[i].last <= issue'[i].last
    BY <1>1 DEF NoneOlder
<1>3. issue[i].last \in Nat /\ issue'[i].last \in Nat /\ list.due[i] \in Nat
    BY <1>1, <1>2 DEF IssueRow
<1>4. ASSUME issue'[i].last = list.due[i]
      PROVE  list.seen[i] = (IF i \in Behind(list.cursor)' THEN 0 ELSE 1)
    <2>1. issue'[i].last = issue[i].last /\ issue[i].last = list.due[i]
        BY <1>1, <1>2, <1>3, <1>4
    <2>2. i \in Behind(list.cursor)' <=> i \in Behind(list.cursor)
        BY <1>1, <1>2, <2>1 DEF Behind, Position
    <2> QED BY <1>1, <2>1, <2>2
<1> QED BY <1>1, <1>2, <1>3, <1>4

-----------------------------------------------------------------------------
(* Events are written.                                                     *)

(* One crash written.                                                      *)
LEMMA EventWritten ==
    ASSUME NEW ev, GoodEvents(ev), NEW e \in Events, NEW entry \in Event,
           entry.group = "grouped" => entry.issue \in Issues /\ entry.variant \in Variants,
           NEW new, new = [ev EXCEPT ![e] = entry]
    PROVE  /\ GoodEvents(new) /\ DOMAIN ev = Events
           /\ new[e] = entry /\ entry # NoValue
           /\ \A x \in Events : x # e => new[x] = ev[x]
<1>1. new[e] = entry /\ \A x \in Events : x # e => new[x] = ev[x]
    BY DEF GoodEvents
<1>2. entry # NoValue
    BY IssuesAssumption
<1>3. new \in [Events -> Event \cup {NoValue}] /\ DOMAIN ev = Events
    BY DEF GoodEvents
<1>4. IsFiniteSet(StoredIn(new))
    <2>1. StoredIn(new) = StoredIn(ev) \cup {e}
        BY <1>1, <1>2 DEF StoredIn
    <2>2. IsFiniteSet(StoredIn(ev) \cup {e})
        BY FS_AddElement DEF GoodEvents
    <2> QED BY <2>1, <2>2
<1>5. \A x \in Grouped(new) : new[x].issue \in Issues /\ new[x].variant \in Variants
    <2> TAKE x \in Grouped(new)
    <2>1. x \in Events /\ new[x].group = "grouped" /\ new[x] # NoValue
        BY DEF Grouped
    <2>2. CASE x = e
        BY <1>1, <2>1, <2>2
    <2>3. CASE x # e
        <3>1. x \in Grouped(ev) /\ new[x] = ev[x]
            BY <1>1, <2>1, <2>3 DEF Grouped
        <3> QED BY <3>1 DEF GoodEvents
    <2> QED BY <2>2, <2>3
<1> QED BY <1>1, <1>2, <1>3, <1>4, <1>5 DEF GoodEvents

(* An event that stays in its group and release, or outside of them.       *)
StaysInGroup(new, ev, e, entry) ==
    /\ e \in Events /\ entry \in Event /\ new = [ev EXCEPT ![e] = entry]
    /\ e \in Grouped(ev) => /\ entry.group = "grouped"
                            /\ entry.issue = ev[e].issue /\ entry.variant = ev[e].variant
                            /\ entry.quality = ev[e].quality /\ entry.release = ev[e].release
    /\ e \notin Grouped(ev) => entry.group # "grouped"

(* The crashes and the rows are as they were.                              *)
LEMMA GroupKept ==
    ASSUME NEW ev, GoodEvents(ev), NEW iss, NEW var, NEW rel, RowsHold(ev, iss, var, rel),
           NEW new, NEW e, NEW entry, StaysInGroup(new, ev, e, entry),
           NEW table, SameTable(table, iss)
    PROVE  GoodEvents(new) /\ RowsHold(new, table, var, rel)
<1> USE DEF StaysInGroup
<1>1. entry.group = "grouped" => entry.issue \in Issues /\ entry.variant \in Variants
    BY DEF GoodEvents
<1>2. /\ GoodEvents(new) /\ new[e] = entry /\ entry # NoValue
      /\ \A x \in Events : x # e => new[x] = ev[x]
    BY <1>1, EventWritten
<1>3. Grouped(new) = Grouped(ev)
    BY <1>2 DEF Grouped
<1>4. \A x \in Grouped(ev) :
         /\ new[x].issue = ev[x].issue /\ new[x].variant = ev[x].variant
         /\ new[x].quality = ev[x].quality /\ new[x].release = ev[x].release
    BY <1>2 DEF Grouped
<1>5. SameGroups(new, ev)
    BY <1>3, <1>4 DEF SameGroups
<1> HIDE DEF StaysInGroup
<1> QED BY <1>2, <1>5, SameGroupKeepsRows

(* A crash is accepted.                                                    *)
LEMMA IngestKeeps ==
    ASSUME IssuesIInv, NEW e \in Events, Ingest(e)
    PROVE  IssuesIInv'
<1> DEFINE entry == Unprocessed
<1>1. /\ event' = [event EXCEPT ![e] = entry] /\ event[e] = NoValue
      /\ daily' = Delta(daily, {}, EventKeys(e, entry))
      /\ UNCHANGED <<issue, variants, releases, stamp, enabled, repair, drift, list, budget>>
    BY DEF Ingest, rows
<1>2. /\ TablesHold(event, issue, variants, releases)
      /\ Stamped /\ \A i \in DOMAIN issue : Resolvable(issue[i])
      /\ daily \in [Keys -> Nat] /\ (drift \/ daily = Recounted(event, issue, Keys))
    BY InvariantMeans
<1>3. entry \in Event /\ entry.group = "none"
    BY DEF Unprocessed, Event, States
<1> HIDE DEF entry
<1>4. e \notin Grouped(event)
    BY <1>1 DEF Grouped
<1>5. GoodEvents(event') /\ RowsHold(event', issue, variants, releases)
    <2>1. SameTable(issue, issue)
        BY DEF SameTable, SameCounts
    <2>2. StaysInGroup(event', event, e, entry)
        BY <1>1, <1>3, <1>4 DEF StaysInGroup
    <2> QED BY <1>2, <2>1, <2>2, GroupKept DEF TablesHold
<1>6. TablesHold(event, issue, variants, releases)'
    BY <1>1, <1>2, <1>5 DEF TablesHold
<1>7. daily' \in [Keys -> Nat]
    BY <1>1, <1>2, DeltaTyped
<1>8. drift' \/ daily' = Recounted(event', issue', Keys)
    <2>1. entry # NoValue
        BY <1>3, IssuesAssumption
    <2>2. Writes(event', event, e, entry) /\ IsFiniteSet(DOMAIN issue)
        BY <1>1, <1>2, <2>1 DEF TablesHold, GoodEvents, TablesTyped, Writes
    <2>3. Delta(Recounted(event, issue, Keys), {}, EventKeys(e, entry)) = Recounted(event', issue, Keys)
        BY <1>1, <2>2, AcceptedRecount
    <2> QED BY <1>1, <1>2, <2>3
<1>9. CursorHolds' /\ RestTyped'
    BY <1>1 DEF IssuesIInv, IssuesTypeOK, RestTyped, CursorHolds, Behind, Position
<1>10. Stamped' /\ \A i \in DOMAIN issue' : Resolvable(issue[i])'
    BY <1>1, <1>2 DEF Stamped, Resolvable
<1> QED BY <1>6, <1>7, <1>8, <1>9, <1>10, InvariantAfter

(* Processing fails for good.                                              *)
LEMMA FailKeeps ==
    ASSUME IssuesIInv, NEW e \in Events, Fail(e)
    PROVE  IssuesIInv'
<1> DEFINE old == event[e]
           entry == event'[e]
<1>1. /\ event' = [event EXCEPT ![e].state = "failed"] /\ event[e] # NoValue
      /\ daily' = EventDelta(daily, e, old, entry)
      /\ UNCHANGED <<issue, variants, releases, stamp, enabled, repair, drift, list, budget>>
    BY DEF Fail, rows
<1>2. /\ TablesHold(event, issue, variants, releases)
      /\ Stamped /\ \A i \in DOMAIN issue : Resolvable(issue[i])
      /\ daily \in [Keys -> Nat] /\ (drift \/ daily = Recounted(event, issue, Keys))
    BY InvariantMeans
<1>3. old \in Event /\ DOMAIN event = Events
    BY <1>1, <1>2 DEF TablesHold, GoodEvents
<1>4. entry = [old EXCEPT !.state = "failed"] /\ event' = [event EXCEPT ![e] = entry]
    BY <1>1, <1>3
<1>5. /\ entry \in Event /\ entry.group = old.group /\ entry.issue = old.issue
      /\ entry.variant = old.variant /\ entry.quality = old.quality /\ entry.release = old.release
      /\ entry.type = old.type /\ entry.symbolication = old.symbolication
    <2> HIDE DEF entry, old
    <2> QED BY <1>3, <1>4 DEF Event, States
<1>6. e \in Grouped(event) <=> old.group = "grouped"
    BY <1>1 DEF Grouped
<1>7. GoodEvents(event') /\ RowsHold(event', issue, variants, releases)
    <2>1. SameTable(issue, issue)
        BY DEF SameTable, SameCounts
    <2> HIDE DEF entry
    <2>2. StaysInGroup(event', event, e, entry)
        BY <1>4, <1>5, <1>6 DEF StaysInGroup
    <2> QED BY <1>2, <2>1, <2>2, GroupKept DEF TablesHold
<1>8. TablesHold(event, issue, variants, releases)'
    BY <1>1, <1>2, <1>7 DEF TablesHold
<1>9. daily' \in [Keys -> Nat]
    BY <1>1, <1>2, TriggersTyped
<1>10. drift' \/ daily' = Recounted(event', issue', Keys)
    <2> HIDE DEF entry
    <2>1. entry # NoValue
        BY <1>5, IssuesAssumption
    <2>2. Writes(event', event, e, entry) /\ IsFiniteSet(DOMAIN issue)
        BY <1>2, <1>4, <2>1 DEF TablesHold, GoodEvents, TablesTyped, Writes
    <2>3. EventDelta(Recounted(event, issue, Keys), e, event[e], entry) = Recounted(event', issue, Keys)
        BY <1>1, <1>5, <2>2, EventTriggersRecount
    <2> QED BY <1>1, <1>2, <2>3
<1>11. CursorHolds' /\ RestTyped'
    BY <1>1 DEF IssuesIInv, IssuesTypeOK, RestTyped, CursorHolds, Behind, Position
<1>12. Stamped' /\ \A i \in DOMAIN issue' : Resolvable(issue[i])'
    BY <1>1, <1>2 DEF Stamped, Resolvable
<1> QED BY <1>8, <1>9, <1>10, <1>11, <1>12, InvariantAfter

-----------------------------------------------------------------------------
(* Build times, the switch, and the repair of a day.                       *)

(* The bounds of the runs stay bounds.                                     *)
LEMMA BudgetSpent ==
    ASSUME NEW b \in Budget
    PROVE  /\ b.changes > 0 => [b EXCEPT !.changes = @ - 1] \in Budget
           /\ b.lists > 0 => [b EXCEPT !.lists = @ - 1] \in Budget
           /\ b.repairs > 0 => [b EXCEPT !.repairs = @ - 1] \in Budget
           /\ b.publications > 0 => [b EXCEPT !.publications = @ - 1] \in Budget
<1>1. ASSUME NEW n \in Nat
      PROVE  /\ [b EXCEPT !.changes = n] \in Budget /\ [b EXCEPT !.lists = n] \in Budget
             /\ [b EXCEPT !.repairs = n] \in Budget /\ [b EXCEPT !.publications = n] \in Budget
    BY DEF Budget
<1>2. b.changes \in Nat /\ b.lists \in Nat /\ b.repairs \in Nat /\ b.publications \in Nat
    BY DEF Budget
<1>3. \A n \in Nat : n > 0 => n - 1 \in Nat
    OBVIOUS
<1> QED BY <1>1, <1>2, <1>3

(* The rows of a step that writes no crash and no row.                     *)
LEMMA RowsKept ==
    ASSUME IssuesIInv, UNCHANGED <<event, issue, variants, releases>>
    PROVE  TablesHold(event, issue, variants, releases)'
BY InvariantMeans DEF TablesHold

(* A build time arrives.                                                   *)
LEMMA StampKeeps ==
    ASSUME IssuesIInv, NEW r \in Releases, NEW t \in Stamps, StampRelease(r, t)
    PROVE  IssuesIInv'
<1>1. /\ stamp[r] = NoValue /\ stamp' = [stamp EXCEPT ![r] = t]
      /\ budget' = [budget EXCEPT !.changes = @ - 1] /\ budget.changes > 0
      /\ UNCHANGED <<event, issue, variants, releases, daily, repair, drift, enabled, list>>
    BY DEF StampRelease, rows, counts
<1>2. /\ Stamped /\ \A i \in DOMAIN issue : Resolvable(issue[i])
      /\ daily \in [Keys -> Nat] /\ (drift \/ daily = Recounted(event, issue, Keys))
      /\ issue \in [DOMAIN issue -> IssueRow]
      /\ budget \in Budget
    BY InvariantMeans DEF TablesHold, TablesTyped
<1>3. Stamped'
    BY <1>1, <1>2 DEF Stamped
<1>4. \A i \in DOMAIN issue' : Resolvable(issue[i])'
    <2> TAKE i \in DOMAIN issue'
    <2>1. Resolvable(issue[i]) /\ issue'[i] = issue[i] /\ issue[i] \in IssueRow
        BY <1>1, <1>2
    <2>2. ASSUME issue[i].resolved # NoValue PROVE stamp'[issue[i].resolved] # NoValue
        <3>1. stamp[issue[i].resolved] # NoValue /\ issue[i].resolved \in Releases
            BY <2>1, <2>2 DEF Resolvable, IssueRow
        <3> QED BY <1>1, <1>2, <3>1 DEF Stamped
    <2> QED BY <2>1, <2>2 DEF Resolvable
<1>5. RestTyped' /\ CursorHolds'
    <2>1. budget' \in Budget
        BY <1>1, <1>2 DEF Budget
    <2> QED BY <1>1, <2>1 DEF IssuesIInv, IssuesTypeOK, RestTyped, CursorHolds, Behind, Position
<1>6. TablesHold(event, issue, variants, releases)'
    BY <1>1, RowsKept
<1> QED BY <1>1, <1>2, <1>3, <1>4, <1>5, <1>6, InvariantAfter

(* A step that changes only the switch, the repair or the list.            *)
LEMMA OthersKeep ==
    ASSUME IssuesIInv, UNCHANGED <<event, issue, variants, releases, stamp, daily, drift>>,
           RestTyped', CursorHolds'
    PROVE  IssuesIInv'
<1>1. /\ Stamped' /\ \A i \in DOMAIN issue' : Resolvable(issue[i])'
      /\ daily' \in [Keys -> Nat] /\ (drift' \/ daily' = Recounted(event', issue', Keys))
    BY InvariantMeans DEF Stamped, Resolvable
<1> QED BY <1>1, RowsKept, InvariantAfter

(* Grouping is switched on or off.                                         *)
LEMMA SwitchKeeps ==
    ASSUME IssuesIInv, SwitchGrouping
    PROVE  IssuesIInv'
<1>1. /\ enabled' = ~enabled
      /\ budget' = [budget EXCEPT !.changes = @ - 1] /\ budget.changes > 0
      /\ UNCHANGED <<event, issue, variants, releases, stamp, daily, repair, drift, list>>
    BY DEF SwitchGrouping, rows, counts
<1>2. budget' \in Budget
    BY <1>1, BudgetSpent DEF IssuesIInv, IssuesTypeOK
<1>3. RestTyped' /\ CursorHolds'
    BY <1>1, <1>2 DEF IssuesIInv, IssuesTypeOK, RestTyped, CursorHolds, Behind, Position
<1> QED BY <1>1, <1>3, OthersKeep

(* A step that changes nothing.                                            *)
LEMMA StutterKeeps ==
    ASSUME IssuesIInv, UNCHANGED issueVars
    PROVE  IssuesIInv'
<1>1. UNCHANGED <<event, issue, variants, releases, stamp, daily, repair, drift, enabled, list, budget>>
    BY DEF issueVars, rows, counts
<1>2. RestTyped' /\ CursorHolds'
    BY <1>1 DEF IssuesIInv, IssuesTypeOK, RestTyped, CursorHolds, Behind, Position
<1> QED BY <1>1, <1>2, OthersKeep

(* A recount of the days gives natural numbers.                            *)
LEMMA RecountTyped ==
    ASSUME NEW ev, IsFiniteSet(StoredIn(ev)), NEW iss, IsFiniteSet(DOMAIN iss), NEW K
    PROVE  Recounted(ev, iss, K) \in [K -> Nat] /\ DOMAIN Recounted(ev, iss, K) = K
<1>1. ASSUME NEW k PROVE EventCount(ev, k) \in Nat /\ IssueCount(iss, k) \in Nat
    <2>1. /\ IsFiniteSet({x \in StoredIn(ev) : k \in EventKeys(x, ev[x])})
          /\ IsFiniteSet({i \in DOMAIN iss : k \in IssueKeys(iss[i])})
        BY FS_Subset
    <2> QED BY <2>1, FS_CardinalityType DEF EventCount, IssueCount
<1> QED BY <1>1 DEF Recounted

(* The first half of the repair of a day reads.                            *)
LEMMA DayReadKeeps ==
    ASSUME IssuesIInv, NEW d \in Days, RepairDayRead(d)
    PROVE  IssuesIInv'
<1> DEFINE K == {k \in Keys : k[1] = d}
<1>1. /\ repair' = Recount(K)
      /\ budget' = [budget EXCEPT !.days = @ \ {d}]
      /\ UNCHANGED <<event, issue, variants, releases, stamp, daily, drift, enabled, list>>
    BY DEF RepairDayRead, rows
<1>2. budget' \in Budget
    <2> DEFINE left == budget.days \ {d}
    <2>1. budget \in Budget /\ budget' = [budget EXCEPT !.days = left]
        BY <1>1 DEF IssuesIInv, IssuesTypeOK
    <2>2. left \in SUBSET Nat
        BY <2>1 DEF Budget
    <2> HIDE DEF left
    <2> QED BY <2>1, <2>2 DEF Budget
<1>3. repair' \in [K -> Nat] /\ DOMAIN repair' = K
    <2>1. IsFiniteSet(StoredIn(event)) /\ IsFiniteSet(DOMAIN issue)
        BY InvariantMeans DEF TablesHold, GoodEvents, TablesTyped
    <2> HIDE DEF K
    <2> QED BY <1>1, <2>1, RecountIs, RecountTyped
<1>4. RestTyped' /\ CursorHolds'
    BY <1>1, <1>2, <1>3 DEF IssuesIInv, IssuesTypeOK, RestTyped, CursorHolds, Behind, Position
<1> QED BY <1>1, <1>4, OthersKeep

(* A repair that reads and then writes leaves a day wrong only when its    *)
(* counts were stale, and then the history says so.                        *)
LEMMA DayWriteKeeps ==
    ASSUME IssuesIInv, RepairDayWrite
    PROVE  IssuesIInv'
<1> DEFINE now == Recounted(event, issue, Keys)
<1>1. /\ repair # NoValue /\ repair' = NoValue
      /\ daily' = [k \in Keys |-> IF k \in DOMAIN repair THEN repair[k] ELSE daily[k]]
      /\ drift' = (drift \/ repair # Recount(DOMAIN repair))
      /\ UNCHANGED <<event, issue, variants, releases, stamp, enabled, list, budget>>
    BY DEF RepairDayWrite, rows
<1>2. /\ Stamped /\ \A i \in DOMAIN issue : Resolvable(issue[i])
      /\ daily \in [Keys -> Nat] /\ (drift \/ daily = now)
    BY InvariantMeans
<1>3. DOMAIN repair \subseteq Keys /\ repair \in [DOMAIN repair -> Nat]
    BY <1>1 DEF IssuesIInv, IssuesTypeOK
<1>4. daily' \in [Keys -> Nat]
    BY <1>1, <1>2, <1>3
<1>5. drift' \/ daily' = now
    <2> SUFFICES ASSUME ~drift' PROVE daily' = now
        OBVIOUS
    <2>1. daily = now /\ repair = Recounted(event, issue, DOMAIN repair)
        BY <1>1, <1>2, RecountIs
    <2>2. \A k \in DOMAIN repair : repair[k] = now[k]
        <3>1. \A k \in DOMAIN repair :
                 Recounted(event, issue, DOMAIN repair)[k] = EventCount(event, k) + IssueCount(issue, k)
            BY DEF Recounted
        <3>2. \A k \in Keys : now[k] = EventCount(event, k) + IssueCount(issue, k)
            BY DEF Recounted
        <3> HIDE DEF now
        <3> QED BY <1>3, <2>1, <3>1, <3>2
    <2>3. \A k \in Keys : (IF k \in DOMAIN repair THEN repair[k] ELSE daily[k]) = daily[k]
        <3> HIDE DEF now
        <3> QED BY <2>1, <2>2
    <2>4. daily' = [k \in Keys |-> daily[k]]
        BY <1>1, <2>3
    <2>5. daily' = daily
        BY <1>2, <2>4
    <2> QED BY <2>1, <2>5
<1>6. RestTyped' /\ CursorHolds'
    <2>1. drift' \in BOOLEAN
        BY <1>1
    <2> QED BY <1>1, <2>1 DEF IssuesIInv, IssuesTypeOK, RestTyped, CursorHolds, Behind, Position
<1>7. Stamped' /\ \A i \in DOMAIN issue' : Resolvable(issue[i])'
    BY <1>1, <1>2 DEF Stamped, Resolvable
<1>8. drift' \/ daily' = Recounted(event', issue', Keys)
    BY <1>1, <1>5
<1> QED BY <1>1, <1>4, <1>6, <1>7, <1>8, RowsKept, InvariantAfter

-----------------------------------------------------------------------------
(* A list is read.                                                         *)

(* A client starts to list the issues: nothing was read yet.               *)
LEMMA StartKeeps ==
    ASSUME IssuesIInv, ListStart
    PROVE  IssuesIInv'
<1>1. /\ list' = [NoList EXCEPT !.open = TRUE, !.due = [i \in DOMAIN issue |-> issue[i].last]]
      /\ budget' = [budget EXCEPT !.lists = @ - 1] /\ budget.lists > 0
      /\ UNCHANGED <<event, issue, variants, releases, stamp, daily, repair, drift, enabled>>
    BY DEF ListStart, rows, counts
<1>2. budget' \in Budget
    BY <1>1, BudgetSpent DEF IssuesIInv, IssuesTypeOK
<1>3. /\ list'.open = TRUE /\ list'.cursor = NoValue /\ list'.seen = [i \in Issues |-> 0]
      /\ list'.due = [i \in DOMAIN issue |-> issue[i].last]
      /\ list' = [open |-> list'.open, cursor |-> list'.cursor, seen |-> list'.seen, due |-> list'.due]
    BY <1>1 DEF NoList
<1>4. DOMAIN issue \subseteq Issues /\ \A i \in DOMAIN issue : issue[i].last \in Nat
    BY DEF IssuesIInv, IssuesTypeOK, IssueRow
<1>5. list' \in [open : BOOLEAN, cursor : (Nat \X Nat) \cup {NoValue}, seen : [Issues -> Nat],
                 due : {list'.due}]
    <2>1. list'.open \in BOOLEAN
        <3>1. list'.open = TRUE
            BY <1>3
        <3> QED BY <3>1
    <2>2. list'.cursor \in (Nat \X Nat) \cup {NoValue} /\ list'.seen \in [Issues -> Nat]
        BY <1>3
    <2> QED BY <1>3, <2>1, <2>2
<1>6. RestTyped'
    <2>1. \A i \in DOMAIN list'.due : list'.due[i] \in Nat
        BY <1>3, <1>4
    <2> QED BY <1>1, <1>2, <1>5, <2>1 DEF IssuesIInv, IssuesTypeOK, RestTyped
<1>7. CursorHolds'
    <2> SUFFICES ASSUME NEW i \in DOMAIN list'.due
                 PROVE  /\ i \in DOMAIN issue' /\ list'.due[i] <= issue'[i].last
                        /\ list'.seen[i] = (IF i \in Behind(list.cursor)' THEN 0 ELSE 1)
        BY DEF CursorHolds
    <2>1. i \in DOMAIN issue /\ list'.due[i] = issue'[i].last /\ issue[i].last \in Nat /\ issue' = issue
        BY <1>1, <1>3, <1>4
    <2>2. i \in Behind(list.cursor)'
        BY <1>3, <2>1 DEF Behind
    <2>3. list'.seen[i] = 0
        BY <1>3, <1>4, <2>1
    <2> QED BY <2>1, <2>2, <2>3
<1> QED BY <1>1, <1>6, <1>7, OthersKeep

(* list_issues orders issues by last occurrence and identity, a total      *)
(* order.                                                                  *)
LEMMA PositionsOrdered ==
    ASSUME issue \in [DOMAIN issue -> IssueRow], DOMAIN issue \subseteq Issues
    PROVE  /\ \A i \in DOMAIN issue : Position(i) \in Nat \X Nat
           /\ \A a, b, c \in Nat \X Nat : Precedes(a, b) /\ Precedes(b, c) => Precedes(a, c)
           /\ \A a, b \in Nat \X Nat : ~(Precedes(a, b) /\ Precedes(b, a))
           /\ \A i, j \in DOMAIN issue :
                 i # j => Precedes(Position(i), Position(j)) \/ Precedes(Position(j), Position(i))
<1>1. \A i \in DOMAIN issue : issue[i].last \in Nat /\ i \in Nat
    BY IssuesAssumption DEF IssueRow
<1> QED BY <1>1 DEF Position, Precedes

(* A page that is not the whole rest: its last issue is the cursor that    *)
(* separates what was read from what was not.                              *)
LEMMA PageSplits ==
    ASSUME issue \in [DOMAIN issue -> IssueRow], DOMAIN issue \subseteq Issues,
           IsFiniteSet(DOMAIN issue),
           NEW rest, rest \subseteq DOMAIN issue, NEW page, page = FirstOf(rest, PageSize), page # rest,
           NEW end, end = CHOOSE i \in page : \A j \in page \ {i} : Precedes(Position(j), Position(i))
    PROVE  /\ end \in page /\ page \subseteq rest
           /\ \A i \in page : ~Precedes(Position(end), Position(i))
           /\ \A i \in rest \ page : Precedes(Position(end), Position(i))
<1> DEFINE P(i, j) == Precedes(Position(i), Position(j))
           before(i) == {j \in rest : P(j, i)}
           up == {p \in rest \X rest : P(p[1], p[2])}
           down == {p \in page \X page : P(p[2], p[1])}
<1>1. /\ \A i, j, k \in rest : P(i, j) /\ P(j, k) => P(i, k)
      /\ \A i, j \in rest : ~(P(i, j) /\ P(j, i))
      /\ \A i, j \in rest : i # j => P(i, j) \/ P(j, i)
    BY PositionsOrdered
<1>2. page = {i \in rest : Cardinality(before(i)) < PageSize}
    BY DEF FirstOf
<1>3. IsFiniteSet(rest) /\ rest # {} /\ page \subseteq rest
    BY <1>2, FS_Subset
<1>4. PageSize \in Nat /\ PageSize > 0
    BY IssuesAssumption
<1>5. end = CHOOSE i \in page : \A j \in page \ {i} : P(j, i)
    OBVIOUS
<1> HIDE DEF P
<1>u. \A i, j \in rest : <<i, j>> \in up <=> P(i, j)
    OBVIOUS
<1>v. \A i, j \in page : <<i, j>> \in down <=> P(j, i)
    OBVIOUS
<1> HIDE DEF up, down
<1>6. page # {}
    <2>1. PICK i \in rest : \A j \in rest : <<j, i>> \notin up
        <3>1. \A i \in rest : <<i, i>> \notin up
            BY <1>1, <1>u
        <3>2. \A i, j, k \in rest : <<i, j>> \in up /\ <<j, k>> \in up => <<i, k>> \in up
            BY <1>1, <1>u
        <3> QED BY ONLY <1>3, <3>1, <3>2, Minimal
    <2>2. before(i) = {}
        BY <1>u, <2>1
    <2>3. Cardinality(before(i)) = 0
        BY <2>2, FS_EmptySet
    <2> HIDE DEF before
    <2> QED BY <1>2, <1>4, <2>3
<1>7. PICK last \in page : \A j \in page : <<j, last>> \notin down
    <2>1. IsFiniteSet(page)
        BY <1>3, FS_Subset
    <2>2. \A i \in page : <<i, i>> \notin down
        BY <1>1, <1>3, <1>v
    <2>3. \A i, j, k \in page : <<i, j>> \in down /\ <<j, k>> \in down => <<i, k>> \in down
        BY <1>1, <1>3, <1>v
    <2> QED BY ONLY <1>6, <2>1, <2>2, <2>3, Minimal
<1>8. \A j \in page \ {last} : P(j, last)
    BY <1>1, <1>3, <1>7, <1>v
<1>9. end \in page /\ \A j \in page \ {end} : P(j, end)
    BY <1>5, <1>8
<1>10. \A i \in page : ~P(end, i)
    BY <1>1, <1>3, <1>9
<1>11. \A i \in rest \ page : P(end, i)
    <2> TAKE i \in rest \ page
    <2>1. i \in rest /\ end \in rest /\ i # end
        BY <1>3, <1>9
    <2> SUFFICES ASSUME ~P(end, i) PROVE FALSE
        OBVIOUS
    <2>2. P(i, end)
        BY <1>1, <2>1
    <2>3. before(i) \subseteq before(end)
        BY <1>1, <2>1, <2>2
    <2>4. IsFiniteSet(before(i)) /\ IsFiniteSet(before(end))
        BY <1>3, FS_Subset
    <2> HIDE DEF before
    <2>5. Cardinality(before(i)) <= Cardinality(before(end))
        BY <2>3, <2>4, FS_Subset
    <2>6. Cardinality(before(i)) \in Nat /\ Cardinality(before(end)) \in Nat
        BY <2>4, FS_CardinalityType
    <2>7. Cardinality(before(end)) < PageSize /\ ~(Cardinality(before(i)) < PageSize)
        BY <1>2, <1>9, <2>1
    <2> QED BY <1>4, <2>5, <2>6, <2>7
<1> QED BY <1>3, <1>9, <1>10, <1>11 DEF P

(* What a page does to the reading of one issue.                           *)
LEMMA PageReads ==
    ASSUME IssuesIInv, ListPage
    PROVE  LET rest == Behind(list.cursor)
               page == FirstOf(rest, PageSize)
           IN  /\ list.open /\ page \subseteq rest /\ rest \subseteq Issues
               /\ list'.open <=> page # rest
               /\ list'.seen = [i \in Issues |-> IF i \in page THEN list.seen[i] + 1 ELSE list.seen[i]]
               /\ list'.due = list.due
               /\ list'.cursor \in (Nat \X Nat) \cup {NoValue}
               /\ list' = [open |-> list'.open, cursor |-> list'.cursor, seen |-> list'.seen,
                           due |-> list'.due]
               /\ page # rest => \A i \in DOMAIN issue :
                                    i \in Behind(list'.cursor) <=> i \in rest \ page
               /\ UNCHANGED <<event, issue, variants, releases, stamp, daily, repair, drift, enabled,
                              budget>>
<1> DEFINE rest == Behind(list.cursor)
           page == FirstOf(rest, PageSize)
           end == CHOOSE i \in page : \A j \in page \ {i} : Precedes(Position(j), Position(i))
           next == IF page # rest THEN Position(end) ELSE NoValue
           seen == [i \in Issues |-> IF i \in page THEN list.seen[i] + 1 ELSE list.seen[i]]
<1>1. /\ list.open /\ list' = [list EXCEPT !.seen = seen, !.cursor = next, !.open = page # rest]
      /\ UNCHANGED <<event, issue, variants, releases, stamp, daily, repair, drift, enabled, budget>>
    <2>1. /\ list.open
          /\ UNCHANGED <<event, issue, variants, releases, stamp, daily, repair, drift, enabled, budget>>
        BY DEF ListPage, rows, counts
    <2>2. list' = [list EXCEPT !.seen = [i \in Issues |-> IF i \in page THEN @[i] + 1 ELSE @[i]],
                               !.cursor = next, !.open = page # rest]
        BY DEF ListPage
    <2> QED BY <2>1, <2>2
<1>2. /\ issue \in [DOMAIN issue -> IssueRow] /\ DOMAIN issue \subseteq Issues /\ IsFiniteSet(DOMAIN issue)
      /\ list \in [open : BOOLEAN, cursor : (Nat \X Nat) \cup {NoValue}, seen : [Issues -> Nat],
                   due : {list.due}]
    BY DEF IssuesIInv, IssuesTypeOK
<1>3. rest \subseteq DOMAIN issue /\ page \subseteq rest
    BY DEF Behind, FirstOf
<1>4. rest = {i \in DOMAIN issue : list.cursor = NoValue \/ Precedes(list.cursor, Position(i))}
    BY DEF Behind
<1>5. list.cursor # NoValue => list.cursor \in Nat \X Nat
    BY <1>2
<1>6. page # rest => /\ end \in page
                     /\ \A i \in page : ~Precedes(Position(end), Position(i))
                     /\ \A i \in rest \ page : Precedes(Position(end), Position(i))
    <2> SUFFICES ASSUME page # rest
                 PROVE  /\ end \in page
                        /\ \A i \in page : ~Precedes(Position(end), Position(i))
                        /\ \A i \in rest \ page : Precedes(Position(end), Position(i))
        OBVIOUS
    <2>1. page = FirstOf(rest, PageSize)
        OBVIOUS
    <2>2. end = CHOOSE i \in page : \A j \in page \ {i} : Precedes(Position(j), Position(i))
        OBVIOUS
    <2> HIDE DEF rest, page, end
    <2> QED BY <1>2, <1>3, <2>1, <2>2, PageSplits
<1>e. next = IF page # rest THEN Position(end) ELSE NoValue
    OBVIOUS
<1> HIDE DEF rest, page, end, next, seen
<1>7. /\ list'.open <=> page # rest
      /\ list'.seen = seen /\ list'.due = list.due /\ list'.cursor = next
      /\ list' = [open |-> list'.open, cursor |-> list'.cursor, seen |-> list'.seen,
                  due |-> list'.due]
    BY <1>1, <1>2
<1>8. /\ \A i \in DOMAIN issue : Position(i) \in Nat \X Nat
      /\ \A a, b, c \in Nat \X Nat : Precedes(a, b) /\ Precedes(b, c) => Precedes(a, c)
      /\ \A a, b \in Nat \X Nat : ~(Precedes(a, b) /\ Precedes(b, a))
    BY <1>2, PositionsOrdered
<1>9. next \in (Nat \X Nat) \cup {NoValue} /\ (page # rest => next # NoValue)
    <2>1. CASE page # rest
        <3>1. Position(end) \in Nat \X Nat
            BY <1>3, <1>6, <1>8, <2>1
        <3> QED BY <1>e, <2>1, <3>1, IssuesAssumption
    <2>2. CASE page = rest
        BY <1>e, <2>2
    <2> QED BY <2>1, <2>2
<1>10. page # rest => \A i \in DOMAIN issue : i \in Behind(next) <=> i \in rest \ page
    <2> SUFFICES ASSUME page # rest, NEW i \in DOMAIN issue
                 PROVE  i \in Behind(next) <=> i \in rest \ page
        OBVIOUS
    <2>1. i \in Behind(next) <=> Precedes(Position(end), Position(i))
        BY <1>e, <1>9 DEF Behind
    <2>2. CASE i \in rest
        BY <1>6, <2>1, <2>2
    <2>3. CASE i \notin rest
        <3>1. /\ list.cursor \in Nat \X Nat /\ ~Precedes(list.cursor, Position(i))
              /\ Precedes(list.cursor, Position(end)) /\ end \in DOMAIN issue
            BY <1>3, <1>4, <1>5, <1>6, <2>3
        <3>2. ~Precedes(Position(end), Position(i))
            BY <1>8, <3>1
        <3> QED BY <2>1, <2>3, <3>2
    <2> QED BY <2>2, <2>3
<1> QED BY <1>1, <1>2, <1>3, <1>7, <1>9, <1>10 DEF rest, page, seen

(* A page is read: its issues, and no other, are behind the cursor no      *)
(* more.                                                                   *)
LEMMA PageKeeps ==
    ASSUME IssuesIInv, ListPage
    PROVE  IssuesIInv'
<1> DEFINE rest == Behind(list.cursor)
           page == FirstOf(rest, PageSize)
<1>1. /\ list.open /\ page \subseteq rest
      /\ list'.open <=> page # rest
      /\ list'.seen = [i \in Issues |-> IF i \in page THEN list.seen[i] + 1 ELSE list.seen[i]]
      /\ list'.due = list.due
      /\ list'.cursor \in (Nat \X Nat) \cup {NoValue}
      /\ list' = [open |-> list'.open, cursor |-> list'.cursor, seen |-> list'.seen, due |-> list'.due]
      /\ page # rest => \A i \in DOMAIN issue : i \in Behind(list'.cursor) <=> i \in rest \ page
      /\ UNCHANGED <<event, issue, variants, releases, stamp, daily, repair, drift, enabled, budget>>
    BY PageReads
<1>2. /\ DOMAIN issue \subseteq Issues
      /\ list.seen \in [Issues -> Nat] /\ \A i \in DOMAIN list.due : list.due[i] \in Nat
    BY DEF IssuesIInv, IssuesTypeOK
<1>3. \A i \in DOMAIN list.due :
         /\ i \in DOMAIN issue /\ list.due[i] <= issue[i].last
         /\ issue[i].last = list.due[i] => list.seen[i] = (IF i \in rest THEN 0 ELSE 1)
    BY <1>1 DEF IssuesIInv, CursorHolds
<1> HIDE DEF rest, page
<1>4. list' \in [open : BOOLEAN, cursor : (Nat \X Nat) \cup {NoValue}, seen : [Issues -> Nat],
                 due : {list'.due}]
    <2>1. list'.open \in BOOLEAN
        <3>1. list \in [open : BOOLEAN, cursor : (Nat \X Nat) \cup {NoValue}, seen : [Issues -> Nat],
                        due : {list.due}]
            BY DEF IssuesIInv, IssuesTypeOK
        <3>2. \E b \in BOOLEAN : list'.open = b
            BY <3>1 DEF ListPage
        <3> QED BY <3>2
    <2>2. list'.seen \in [Issues -> Nat]
        <3>1. \A i \in Issues : (IF i \in page THEN list.seen[i] + 1 ELSE list.seen[i]) \in Nat
            BY <1>2
        <3> QED BY <1>1, <3>1
    <2> QED BY <1>1, <2>1, <2>2
<1>5. RestTyped'
    <2>1. \A i \in DOMAIN list'.due : list'.due[i] \in Nat
        BY <1>1, <1>2
    <2> QED BY <1>1, <1>4, <2>1 DEF IssuesIInv, IssuesTypeOK, RestTyped
<1>6. CursorHolds'
    <2> SUFFICES ASSUME list'.open, NEW i \in DOMAIN list'.due
                 PROVE  /\ i \in DOMAIN issue' /\ list'.due[i] <= issue'[i].last
                        /\ issue'[i].last = list'.due[i]
                             => list'.seen[i] = (IF i \in Behind(list.cursor)' THEN 0 ELSE 1)
        BY DEF CursorHolds
    <2>1. i \in DOMAIN issue /\ i \in Issues /\ list'.due[i] = list.due[i]
        BY <1>1, <1>2, <1>3
    <2>2. i \in Behind(list.cursor)' <=> i \in rest \ page
        <3>1. Behind(list.cursor)' = Behind(list'.cursor)
            BY <1>1 DEF Behind, Position
        <3> QED BY <1>1, <2>1, <3>1
    <2>3. list'.seen[i] = IF i \in page THEN list.seen[i] + 1 ELSE list.seen[i]
        BY <1>1, <2>1
    <2>4. ASSUME issue[i].last = list.due[i]
          PROVE  list'.seen[i] = (IF i \in Behind(list.cursor)' THEN 0 ELSE 1)
        <3>1. list.seen[i] = IF i \in rest THEN 0 ELSE 1
            BY <1>1, <1>3, <2>4
        <3> QED BY <1>1, <2>2, <2>3, <3>1
    <2> QED BY <1>1, <1>3, <2>1, <2>4
<1> QED BY <1>1, <1>5, <1>6, OthersKeep

-----------------------------------------------------------------------------
(* An issue is resolved, opened again or repaired.                         *)

(* An update of a row that is there.                                       *)
LEMMA PutIs ==
    ASSUME NEW table, NEW i, NEW after, i \in DOMAIN table, table = [x \in DOMAIN table |-> table[x]]
    PROVE  [table EXCEPT ![i] = after] = Put(table, i, after)
BY DEF Put

(* The other issues keep the release that resolved them.                   *)
LEMMA ResolvablePut ==
    ASSUME \A j \in DOMAIN issue : Resolvable(issue[j]), stamp' = stamp,
           NEW i, NEW after, Resolvable(after), issue' = Put(issue, i, after)
    PROVE  \A j \in DOMAIN issue' : Resolvable(issue[j])'
BY DEF Put, Resolvable

(* No issue last occurred earlier than it did.                             *)
LEMMA NoneOlderPut ==
    ASSUME NEW iss, iss \in [DOMAIN iss -> IssueRow], NEW i, NEW after,
           i \in DOMAIN iss => iss[i].last <= after.last
    PROVE  NoneOlder(Put(iss, i, after), iss)
<1>1. \A j \in DOMAIN iss : iss[j].last <= iss[j].last
    BY DEF IssueRow
<1> QED BY <1>1 DEF Put, NoneOlder

(* A change of the state of an issue by a user.                            *)
LEMMA ChangeKeeps ==
    ASSUME IssuesIInv, NEW i \in DOMAIN issue, NEW after \in IssueRow, SameCounts(after, issue[i]),
           Resolvable(after), Change(i, after)
    PROVE  IssuesIInv'
<1>1. /\ issue' = [issue EXCEPT ![i] = after]
      /\ daily' = IssueDelta(daily, i, after)
      /\ budget.changes > 0 /\ budget' = [budget EXCEPT !.changes = @ - 1]
      /\ UNCHANGED <<event, variants, releases, stamp, enabled, repair, drift, list>>
    BY DEF Change
<1>2. /\ TablesHold(event, issue, variants, releases)
      /\ Stamped /\ \A j \in DOMAIN issue : Resolvable(issue[j])
      /\ daily \in [Keys -> Nat] /\ (drift \/ daily = Recounted(event, issue, Keys))
      /\ budget \in Budget
    BY InvariantMeans
<1>3. /\ DOMAIN issue \subseteq Issues /\ IsFiniteSet(DOMAIN issue) /\ issue \in [DOMAIN issue -> IssueRow]
      /\ IsFiniteSet(StoredIn(event)) /\ RowsHold(event, issue, variants, releases)
      /\ TablesTyped(issue, variants, releases) /\ GoodEvents(event)
    BY <1>2 DEF TablesHold, TablesTyped, GoodEvents
<1>4. issue' = Put(issue, i, after)
    <2>1. issue = [x \in DOMAIN issue |-> issue[x]]
        BY <1>3
    <2> QED BY <1>1, <2>1, PutIs
<1>5. /\ DOMAIN issue' \subseteq Issues /\ IsFiniteSet(DOMAIN issue')
      /\ issue' \in [DOMAIN issue' -> IssueRow]
    BY <1>3, <1>4, PutTyped
<1>6. SameTable(issue', issue)
    BY <1>1, <1>3 DEF SameTable, SameCounts
<1>7. TablesHold(event, issue, variants, releases)'
    <2>1. RowsHold(event, issue', variants, releases)
        BY <1>3, <1>6, SameGroupKeepsRows DEF SameGroups
    <2> QED BY <1>1, <1>3, <1>5, <2>1 DEF TablesHold, TablesTyped
<1>8. daily' \in [Keys -> Nat]
    BY <1>1, <1>2, TriggersTyped
<1>9. drift' \/ daily' = Recounted(event', issue', Keys)
    <2>1. IssueDelta(Recounted(event, issue, Keys), i, after) = Recounted(event, issue', Keys)
        BY <1>3, <1>4, IssueTriggerRecounts
    <2> QED BY <1>1, <1>2, <2>1
<1>10. RestTyped'
    <2>1. budget' \in Budget
        BY <1>1, <1>2, BudgetSpent
    <2> QED BY <1>1, <2>1 DEF IssuesIInv, IssuesTypeOK, RestTyped
<1>11. CursorHolds'
    <2>1. after.last = issue[i].last /\ issue[i].last \in Nat
        BY <1>3 DEF SameCounts, IssueRow
    <2>2. issue[i].last <= after.last
        BY <2>1
    <2>3. NoneOlder(issue', issue)
        BY <1>3, <1>4, <2>2, NoneOlderPut
    <2>4. CursorHolds /\ \A j \in DOMAIN list.due : list.due[j] \in Nat
        BY DEF IssuesIInv, IssuesTypeOK
    <2> QED BY <1>1, <1>3, <1>5, <2>3, <2>4, CursorKept
<1>12. Stamped' /\ \A j \in DOMAIN issue' : Resolvable(issue[j])'
    BY <1>1, <1>2, <1>4, ResolvablePut DEF Stamped
<1> QED BY <1>7, <1>8, <1>9, <1>10, <1>11, <1>12, InvariantAfter

Resolved(entry, r, later) ==
    IF later THEN [entry EXCEPT !.status = "open", !.regression = "regressed", !.resolved = r]
    ELSE [entry EXCEPT !.status = "resolved", !.regression = "resolved", !.resolved = r]

Reopened(entry, state) == [entry EXCEPT !.status = "open", !.regression = state, !.resolved = NoValue]

(* The row resolve_issue writes.                                           *)
LEMMA ResolvedRow ==
    ASSUME NEW entry \in IssueRow, NEW r \in Releases, NEW later, NEW new, new = Resolved(entry, r, later)
    PROVE  /\ new \in IssueRow /\ SameCounts(new, entry) /\ new.resolved = r
           /\ new.firstRelease = entry.firstRelease /\ new.lastRelease = entry.lastRelease
           /\ later => new.status = "open" /\ new.regression = "regressed"
           /\ ~later => new.status = "resolved" /\ new.regression = "resolved"
<1>1. CASE later
    BY <1>1 DEF Resolved, IssueRow, SameCounts
<1>2. CASE ~later
    BY <1>2 DEF Resolved, IssueRow, SameCounts
<1> QED BY <1>1, <1>2

(* The row reopen_issue writes.                                            *)
LEMMA ReopenedRow ==
    ASSUME NEW entry \in IssueRow, NEW state \in {"unknown", "new", "ongoing"},
           NEW new, new = Reopened(entry, state)
    PROVE  /\ new \in IssueRow /\ SameCounts(new, entry)
           /\ new.status = "open" /\ new.regression = state /\ new.resolved = NoValue
           /\ new.firstRelease = entry.firstRelease /\ new.lastRelease = entry.lastRelease
BY DEF Reopened, IssueRow, SameCounts

(* A user resolves an issue.                                               *)
LEMMA ResolveKeeps ==
    ASSUME IssuesIInv, NEW i \in Issues, NEW r \in Releases, ResolveIssue(i, r)
    PROVE  IssuesIInv'
<1> DEFINE after == Resolved(issue[i], r, Later(r, Seen(releases, i)))
<1>1. i \in DOMAIN issue /\ stamp[r] # NoValue /\ Change(i, after)
    BY DEF ResolveIssue, Resolved
<1>2. issue[i] \in IssueRow
    BY <1>1 DEF IssuesIInv, IssuesTypeOK
<1>3. /\ after \in IssueRow /\ SameCounts(after, issue[i]) /\ after.resolved = r
      /\ \/ after.status = "open" /\ after.regression = "regressed"
         \/ after.status = "resolved" /\ after.regression = "resolved"
    BY <1>2, ResolvedRow
<1>4. r # NoValue
    BY IssuesAssumption
<1> HIDE DEF after
<1>5. Resolvable(after)
    BY <1>1, <1>3, <1>4 DEF Resolvable
<1> QED BY <1>1, <1>3, <1>5, ChangeKeeps

(* A user reopens an issue.                                                *)
LEMMA ReopenKeeps ==
    ASSUME IssuesIInv, NEW i \in Issues, ReopenIssue(i)
    PROVE  IssuesIInv'
<1> DEFINE after == Reopened(issue[i], Retained(Seen(releases, i)))
<1>1. i \in DOMAIN issue /\ Change(i, after)
    BY DEF ReopenIssue, Reopened
<1>2. issue[i] \in IssueRow
    BY <1>1 DEF IssuesIInv, IssuesTypeOK
<1>3. Retained(Seen(releases, i)) \in {"unknown", "new", "ongoing"}
    BY DEF Retained
<1>4. /\ after \in IssueRow /\ SameCounts(after, issue[i])
      /\ after.status = "open" /\ after.resolved = NoValue
      /\ after.regression \in {"unknown", "new", "ongoing"}
    BY <1>2, <1>3, ReopenedRow
<1> HIDE DEF after
<1>5. Resolvable(after)
    BY <1>4 DEF Resolvable
<1> QED BY <1>1, <1>4, <1>5, ChangeKeeps

(* The counts of a recount in the row of an issue.                         *)
LEMMA RefreshedRow ==
    ASSUME NEW entry \in IssueRow \cup {NewIssue}, NEW agg \in CountRow
    PROVE  /\ Refreshed(entry, agg) \in IssueRow
           /\ SameCounts(Refreshed(entry, agg), agg)
           /\ Refreshed(entry, agg).status = entry.status /\ Refreshed(entry, agg).resolved = entry.resolved
           /\ Refreshed(entry, agg).regression = entry.regression
<1>1. CASE entry \in IssueRow
    BY <1>1 DEF Refreshed, IssueRow, CountRow, SameCounts
<1>2. CASE entry = NewIssue
    BY <1>2 DEF Refreshed, NewIssue, IssueRow, CountRow, SameCounts
<1> QED BY <1>1, <1>2

(* repair_issue: what the deltas kept is what it counts again.             *)
LEMMA RepairRows ==
    ASSUME IssuesIInv, NEW i \in Issues, RepairIssue(i)
    PROVE  /\ i \in DOMAIN issue
           /\ DOMAIN releases' = DOMAIN releases /\ IsTable(releases')
           /\ \A k \in DOMAIN releases : Counts(event, releases'[k], Members(event, k))
           /\ DOMAIN variants' = DOMAIN variants /\ IsTable(variants')
           /\ \A k \in DOMAIN variants : Counts(event, variants'[k], VariantSet(event, k))
<1> DEFINE own == IssueSet(event, i)
           kept == {k \in DOMAIN releases : k[1] # i}
           found == {<<i, event[e].release>> : e \in {x \in own : event[x].release # NoValue}}
           builds == {<<i, event[e].variant>> : e \in own}
<1>1. own = Having(i)
    BY DEF IssueSet, Having, Grouped
<1>2. /\ i \in DOMAIN issue
      /\ releases' = [k \in found \cup kept |->
                        IF k \in found THEN Aggregate(event, Members(event, k)) ELSE releases[k]]
      /\ variants' = [k \in builds \cup DOMAIN variants |->
                        IF k \in builds THEN Aggregate(event, {e \in own : event[e].variant = k[2]})
                        ELSE variants[k]]
    <2> HIDE DEF own
    <2> QED BY <1>1 DEF RepairIssue
<1>3. /\ GoodEvents(event) /\ RowsHold(event, issue, variants, releases)
      /\ DOMAIN releases \subseteq Issues \X Releases /\ IsTable(releases)
      /\ DOMAIN variants \subseteq Issues \X Variants /\ IsTable(variants)
    BY InvariantMeans DEF TablesHold, TablesTyped
<1>4. \A e \in own : /\ e \in Grouped(event) /\ event[e].issue = i
                     /\ <<i, event[e].variant>> \in DOMAIN variants
                     /\ event[e].release # NoValue => <<i, event[e].release>> \in DOMAIN releases
    BY <1>3 DEF IssueSet, RowsHold, AllPresent
<1>5. found \cup kept = DOMAIN releases
    <2>1. found \subseteq DOMAIN releases
        BY <1>4
    <2>2. ASSUME NEW k \in DOMAIN releases, k[1] = i PROVE k \in found
        <3>1. PICK e \in Members(event, k) : TRUE
            BY <1>3 DEF RowsHold
        <3>2. e \in own /\ k = <<i, event[e].release>> /\ event[e].release # NoValue
            <4>1. e \in Grouped(event) /\ <<event[e].issue, event[e].release>> = k
                BY <3>1 DEF Members
            <4>2. event[e].issue = i /\ event[e].release = k[2] /\ k[2] \in Releases
                BY <1>3, <2>2, <4>1
            <4> QED BY <4>1, <4>2, IssuesAssumption DEF IssueSet
        <3> QED BY <3>2
    <2> QED BY <2>1, <2>2
<1>6. builds \subseteq DOMAIN variants
    BY <1>4
<1>7. \A k \in builds : {e \in own : event[e].variant = k[2]} = VariantSet(event, k)
    BY DEF VariantSet
<1>8. \A S : S \subseteq Grouped(event) /\ S # {} =>
         Counts(event, Aggregate(event, S), S) /\ Aggregate(event, S) \in CountRow
    BY <1>3, GroupsRanked, AggregateCounts
<1> HIDE DEF own, kept, found, builds
<1>9. \A k \in DOMAIN releases : releases'[k] \in CountRow /\ Counts(event, releases'[k], Members(event, k))
    <2> TAKE k \in DOMAIN releases
    <2>1. Members(event, k) \subseteq Grouped(event) /\ Members(event, k) # {}
          /\ Counts(event, releases[k], Members(event, k)) /\ releases[k] \in CountRow
        BY <1>3 DEF Members, RowsHold, IsTable
    <2>2. releases'[k] = IF k \in found THEN Aggregate(event, Members(event, k)) ELSE releases[k]
        BY <1>2, <1>5
    <2> QED BY <1>8, <2>1, <2>2
<1>10. \A k \in DOMAIN variants :
          variants'[k] \in CountRow /\ Counts(event, variants'[k], VariantSet(event, k))
    <2> TAKE k \in DOMAIN variants
    <2>1. VariantSet(event, k) \subseteq Grouped(event) /\ VariantSet(event, k) # {}
          /\ Counts(event, variants[k], VariantSet(event, k)) /\ variants[k] \in CountRow
        BY <1>3 DEF VariantSet, IssueSet, RowsHold, IsTable
    <2>2. variants'[k] = IF k \in builds THEN Aggregate(event, VariantSet(event, k)) ELSE variants[k]
        BY <1>2, <1>7
    <2> QED BY <1>8, <2>1, <2>2
<1>11. DOMAIN releases' = DOMAIN releases /\ DOMAIN variants' = DOMAIN variants
    BY <1>2, <1>5, <1>6
<1>12. IsTable(releases') /\ IsTable(variants')
    <2>1. releases' = [k \in DOMAIN releases |-> releases'[k]]
        BY <1>2, <1>5
    <2>2. variants' = [k \in DOMAIN variants |-> variants'[k]]
        BY <1>2, <1>6, <1>11
    <2> QED BY <1>9, <1>10, <1>11, <2>1, <2>2 DEF IsTable
<1> QED BY <1>2, <1>9, <1>10, <1>11, <1>12

(* Its new row of the issue.                                               *)
LEMMA RepairRow ==
    ASSUME IssuesIInv, NEW i \in Issues, RepairIssue(i)
    PROVE  \E entry \in IssueRow :
              /\ SameCounts(entry, issue[i]) /\ Resolvable(entry)
              /\ issue' = [issue EXCEPT ![i] = Transition(entry, Seen(releases', i))]
              /\ daily' = IssueDelta(daily, i, Transition(entry, Seen(releases', i)))
              /\ budget.repairs > 0 /\ budget' = [budget EXCEPT !.repairs = @ - 1]
              /\ UNCHANGED <<event, stamp, enabled, repair, drift, list>>
<1> DEFINE own == IssueSet(event, i)
           agg == Aggregate(event, own)
           entry == Refreshed(issue[i], agg)
<1>1. own = Having(i)
    BY DEF IssueSet, Having, Grouped
<1>2. /\ issue' = [issue EXCEPT ![i] = Transition(entry, Seen(releases', i))]
      /\ daily' = IssueDelta(daily, i, Transition(entry, Seen(releases', i)))
      /\ budget.repairs > 0 /\ budget' = [budget EXCEPT !.repairs = @ - 1]
      /\ UNCHANGED <<event, stamp, enabled, repair, drift, list>>
    <2> HIDE DEF own
    <2> QED BY <1>1 DEF RepairIssue
<1>3. /\ GoodEvents(event) /\ RowsHold(event, issue, variants, releases) /\ i \in DOMAIN issue
      /\ issue[i] \in IssueRow /\ Resolvable(issue[i])
    BY InvariantMeans, RepairRows DEF TablesHold, TablesTyped
<1>4. own \subseteq Grouped(event) /\ own # {} /\ Counts(event, issue[i], own)
    BY <1>3 DEF RowsHold, IssueSet
<1>5. Ranked(event, own)
    BY <1>3, <1>4, GroupsRanked
<1> HIDE DEF own
<1>6. Counts(event, agg, own) /\ agg \in CountRow
    BY <1>5, AggregateCounts
<1> HIDE DEF agg
<1>7. SameCounts(agg, issue[i])
    BY <1>4, <1>5, <1>6, CountsDecide DEF SameCounts
<1>8. /\ entry \in IssueRow /\ SameCounts(entry, agg)
      /\ entry.status = issue[i].status /\ entry.resolved = issue[i].resolved
      /\ entry.regression = issue[i].regression
    BY <1>3, <1>6, RefreshedRow
<1> HIDE DEF entry
<1>9. SameCounts(entry, issue[i]) /\ Resolvable(entry)
    BY <1>3, <1>7, <1>8 DEF SameCounts, Resolvable
<1> QED BY <1>2, <1>8, <1>9

(* One issue is written, and its trigger runs last.                        *)
LEMMA WrittenKeeps ==
    ASSUME IssuesIInv, NEW i \in Issues, NEW after \in IssueRow, issue' = Put(issue, i, after),
           Resolvable(after), i \in DOMAIN issue => issue[i].last <= after.last,
           GoodEvents(event'), RowsHold(event', issue', variants', releases'),
           DOMAIN variants' \subseteq Issues \X Variants, IsTable(variants'),
           DOMAIN releases' \subseteq Issues \X Releases, IsFiniteSet(DOMAIN releases'),
           IsTable(releases'),
           NEW projected \in [Keys -> Nat], drift \/ projected = Recounted(event', issue, Keys),
           daily' = IssueDelta(projected, i, after), budget' \in Budget,
           UNCHANGED <<stamp, enabled, repair, drift, list>>
    PROVE  IssuesIInv'
<1>1. /\ DOMAIN issue \subseteq Issues /\ IsFiniteSet(DOMAIN issue) /\ issue \in [DOMAIN issue -> IssueRow]
      /\ Stamped /\ \A j \in DOMAIN issue : Resolvable(issue[j])
    BY InvariantMeans DEF TablesHold, TablesTyped
<1>2. /\ DOMAIN issue' \subseteq Issues /\ IsFiniteSet(DOMAIN issue')
      /\ issue' \in [DOMAIN issue' -> IssueRow]
    BY <1>1, PutTyped
<1>3. TablesHold(event, issue, variants, releases)'
    BY <1>2 DEF TablesHold, TablesTyped
<1>4. daily' \in [Keys -> Nat]
    BY TriggersTyped
<1>5. drift' \/ daily' = Recounted(event', issue', Keys)
    <2>1. IsFiniteSet(StoredIn(event'))
        BY DEF GoodEvents
    <2>2. IssueDelta(Recounted(event', issue, Keys), i, after) = Recounted(event', issue', Keys)
        BY <1>1, <2>1, IssueTriggerRecounts
    <2> QED BY <2>2
<1>6. RestTyped'
    BY DEF IssuesIInv, IssuesTypeOK, RestTyped
<1>7. CursorHolds'
    <2>1. NoneOlder(issue', issue)
        BY <1>1, NoneOlderPut
    <2>2. CursorHolds /\ \A j \in DOMAIN list.due : list.due[j] \in Nat
        BY DEF IssuesIInv, IssuesTypeOK
    <2> QED BY <1>1, <1>2, <2>1, <2>2, CursorKept
<1>8. Stamped' /\ \A j \in DOMAIN issue' : Resolvable(issue[j])'
    BY <1>1, ResolvablePut DEF Stamped
<1> QED BY <1>3, <1>4, <1>5, <1>6, <1>7, <1>8, InvariantAfter

(* repair_issue counts the releases and variants of an issue again.        *)
LEMMA RepairKeeps ==
    ASSUME IssuesIInv, NEW i \in Issues, RepairIssue(i)
    PROVE  IssuesIInv'
<1>1. PICK entry \in IssueRow :
         /\ SameCounts(entry, issue[i]) /\ Resolvable(entry)
         /\ issue' = [issue EXCEPT ![i] = Transition(entry, Seen(releases', i))]
         /\ daily' = IssueDelta(daily, i, Transition(entry, Seen(releases', i)))
         /\ budget.repairs > 0 /\ budget' = [budget EXCEPT !.repairs = @ - 1]
         /\ UNCHANGED <<event, stamp, enabled, repair, drift, list>>
    BY RepairRow
<1> DEFINE R == Seen(releases', i)
           after == Transition(entry, R)
<1>2. /\ i \in DOMAIN issue
      /\ DOMAIN releases' = DOMAIN releases /\ IsTable(releases')
      /\ \A k \in DOMAIN releases : Counts(event, releases'[k], Members(event, k))
      /\ DOMAIN variants' = DOMAIN variants /\ IsTable(variants')
      /\ \A k \in DOMAIN variants : Counts(event, variants'[k], VariantSet(event, k))
    BY RepairRows
<1>3. /\ GoodEvents(event) /\ TablesTyped(issue, variants, releases)
      /\ RowsHold(event, issue, variants, releases) /\ Stamped
      /\ daily \in [Keys -> Nat] /\ (drift \/ daily = Recounted(event, issue, Keys))
      /\ budget \in Budget
    BY InvariantMeans DEF TablesHold
<1>4. Builds(R)
    BY <1>2, <1>3, SeenBuilds DEF TablesTyped
<1>5. /\ issue' = [issue EXCEPT ![i] = after] /\ daily' = IssueDelta(daily, i, after)
    BY <1>1
<1> HIDE DEF R
<1>6. after \in IssueRow /\ SameCounts(after, entry) /\ Resolvable(after)
    BY <1>1, <1>3, <1>4, TransitionKeeps, TransitionResolvable
<1> HIDE DEF after
<1>7. SameCounts(after, issue[i]) /\ Resolvable(after)
    BY <1>1, <1>6 DEF SameCounts
<1>8. issue' = Put(issue, i, after)
    <2>1. issue = [x \in DOMAIN issue |-> issue[x]]
        BY <1>3 DEF TablesTyped
    <2> QED BY <1>2, <1>5, <2>1, PutIs
<1>9. issue[i].last <= after.last
    <2>1. issue[i].last \in Nat
        BY <1>2, <1>3 DEF TablesTyped, IssueRow
    <2> QED BY <1>7, <2>1 DEF SameCounts
<1>10. RowsHold(event, issue', variants', releases')
    <2>1. SameTable(issue', issue)
        BY <1>2, <1>3, <1>5, <1>7 DEF SameTable, SameCounts, TablesTyped
    <2>2. RowsHold(event, issue', variants, releases)
        BY <1>3, <2>1, SameGroupKeepsRows DEF SameGroups
    <2> QED BY <1>2, <2>2 DEF RowsHold, AllPresent
<1>11. budget' \in Budget
    BY <1>1, <1>3, BudgetSpent
<1>12. /\ DOMAIN variants' \subseteq Issues \X Variants
       /\ DOMAIN releases' \subseteq Issues \X Releases /\ IsFiniteSet(DOMAIN releases')
    BY <1>2, <1>3 DEF TablesTyped
<1>13. GoodEvents(event') /\ RowsHold(event', issue', variants', releases')
       /\ (drift \/ daily = Recounted(event', issue, Keys))
       /\ UNCHANGED <<stamp, enabled, repair, drift, list>>
    BY <1>1, <1>3, <1>10
<1> QED BY <1>2, <1>3, <1>5, <1>6, <1>7, <1>8, <1>9, <1>11, <1>12, <1>13, WrittenKeeps

-----------------------------------------------------------------------------
(* A result is published.                                                  *)

Projected(e, new) == EventDelta(SearchDelta(daily, e, event[e], new), e, event[e], new)

WritesIssue(e, new, after) ==
    /\ issue' = Put(issue, new.issue, after)
    /\ daily' = IssueDelta(Projected(e, new), new.issue, after)

AfterMove(counted, R) == IF enabled THEN Transition(counted, R) ELSE Ends(counted, R)

(* The four things a publication may do to the rows.                       *)
StaysUngrouped(e, new) ==
    /\ event[e].group # "grouped" /\ new.group # "grouped"
    /\ UNCHANGED <<issue, variants, releases>> /\ daily' = Projected(e, new)

JoinsIssue(e, new) ==
    /\ event[e].group # "grouped" /\ new.group = "grouped"
    /\ variants' = Add(event', variants, <<new.issue, new.variant>>, e)
    /\ releases' = (IF new.release = NoValue THEN releases
                    ELSE Add(event', releases, <<new.issue, new.release>>, e))
    /\ WritesIssue(e, new, AfterMove(Assigned(event', new.issue, e), Seen(releases', new.issue)))

StaysInRelease(e, new) ==
    /\ event[e].group = "grouped" /\ event[e].release = new.release
    /\ UNCHANGED <<variants, releases>>
    /\ WritesIssue(e, new, issue[new.issue])

MovesRelease(e, new) ==
    /\ event[e].group = "grouped" /\ event[e].release # new.release
    /\ variants' = variants
    /\ \E left :
          /\ left = IF event[e].release # NoValue
                    THEN Remove(event', releases, <<event[e].issue, event[e].release>>, e) ELSE releases
          /\ releases' = IF new.release = NoValue THEN left
                         ELSE Add(event', left, <<event[e].issue, new.release>>, e)
    /\ WritesIssue(e, new, AfterMove(issue[new.issue], Seen(releases', new.issue)))

(* The event keeps its group, its issue and its quality, if it has them.   *)
KeepsGroup(old, new) ==
    old.group = "grouped" => /\ new.group = "grouped" /\ new.issue = old.issue
                             /\ new.variant = old.variant /\ new.quality = old.quality

(* The crash a publication writes: one that is in a group stays in it.     *)
LEMMA PublishedEvent ==
    ASSUME budget \in Budget, NEW old \in Event,
           old.group = "grouped" => old.issue \in Issues /\ old.variant \in Variants,
           NEW g \in Groupings, NEW r \in budget.releases, NEW result \in budget.results,
           NEW new, new = Published(old, g, r, result)
    PROVE  /\ new \in Event /\ new.release = r /\ KeepsGroup(old, new)
           /\ new.group = "grouped" => new.issue \in Issues /\ new.variant \in Variants
<1>1. /\ budget.issues \subseteq Issues /\ budget.variants \subseteq Variants
      /\ budget.qualities \subseteq Nat /\ r \in Releases \cup {NoValue} /\ result \in Result
    BY DEF Budget
<1>2. /\ g.group \in {"insufficient", "disabled", "grouped"}
      /\ g.issue \in Issues \cup {NoValue} /\ g.variant \in Variants \cup {NoValue} /\ g.quality \in Nat
      /\ g.group = "grouped" => g.issue \in Issues /\ g.variant \in Variants
    BY <1>1 DEF Groupings
<1>3. /\ result.state \in States /\ result.symbolication \in Symbolications \cup {NoValue}
      /\ result.type \in Types \cup {NoValue}
    BY <1>1 DEF Result, States
<1> DEFINE grouping == IF old.group = "grouped" THEN old ELSE g
<1>4. /\ grouping.group \in {"none", "insufficient", "disabled", "grouped"}
      /\ grouping.issue \in Issues \cup {NoValue} /\ grouping.variant \in Variants \cup {NoValue}
      /\ grouping.quality \in Nat
      /\ grouping.group = "grouped" => grouping.issue \in Issues /\ grouping.variant \in Variants
      /\ old.group = "grouped" => grouping = old
    BY <1>2 DEF Event
<1>5. new = [state |-> result.state, symbolication |-> result.symbolication, type |-> result.type,
             group |-> grouping.group, issue |-> grouping.issue, variant |-> grouping.variant,
             quality |-> grouping.quality, release |-> r]
    BY DEF Published
<1> HIDE DEF grouping
<1>6. new \in Event
    BY <1>1, <1>3, <1>4, <1>5 DEF Event
<1> QED BY <1>4, <1>5, <1>6 DEF KeepsGroup

(* A publication leaves the crash outside of the groups, brings it into    *)
(* an issue, leaves it in its release, or moves it to another.             *)
LEMMA PublishSplits ==
    ASSUME IssuesIInv, NEW e \in Events, PublishResult(e)
    PROVE  /\ event[e] \in Event /\ event[e] # NoValue
           /\ budget' \in Budget /\ UNCHANGED <<stamp, enabled, repair, drift, list>>
           /\ \E new \in Event :
                 /\ new.group = "grouped" => new.issue \in Issues /\ new.variant \in Variants
                 /\ KeepsGroup(event[e], new)
                 /\ event' = [event EXCEPT ![e] = new]
                 /\ \/ StaysUngrouped(e, new) \/ JoinsIssue(e, new)
                    \/ StaysInRelease(e, new) \/ MovesRelease(e, new)
<1>1. /\ GoodEvents(event) /\ budget \in Budget
    BY InvariantMeans DEF TablesHold
<1>2. event[e] # NoValue /\ budget.publications > 0 /\ budget' = [budget EXCEPT !.publications = @ - 1]
      /\ UNCHANGED <<stamp, enabled, repair, drift, list>>
    BY DEF PublishResult
<1>3. event[e] \in Event /\ DOMAIN event = Events
    BY <1>1, <1>2 DEF GoodEvents
<1>4. event[e].group = "grouped" => event[e].issue \in Issues /\ event[e].variant \in Variants
    <2>1. event[e].group = "grouped" => e \in Grouped(event)
        BY <1>2 DEF Grouped
    <2> QED BY <1>1, <2>1 DEF GoodEvents
<1>5. budget' \in Budget
    BY <1>1, <1>2, BudgetSpent
<1>6. PICK g \in Groupings, r \in budget.releases, result \in budget.results :
          LET old == event[e]
              new == Published(old, g, r, result)
              ev == [event EXCEPT ![e] = new]
              i == new.issue
              first == old.group # "grouped" /\ new.group = "grouped"
              moves == first \/ (old.group = "grouped" /\ old.release # r)
              counted == IF first THEN Assigned(ev, i, e) ELSE issue[i]
              table == IF moves THEN Moved(ev, old, e, r) ELSE releases
              after == CASE ~moves -> counted
                         [] moves /\ enabled -> Transition(counted, Seen(table, i))
                         [] OTHER -> Ends(counted, Seen(table, i))
              projected == EventDelta(SearchDelta(daily, e, old, new), e, old, new)
          IN  /\ event' = ev
              /\ variants' = IF first THEN Add(ev, variants, <<i, new.variant>>, e) ELSE variants
              /\ releases' = table
              /\ IF new.group = "grouped"
                 THEN issue' = Put(issue, i, after) /\ daily' = IssueDelta(projected, i, after)
                 ELSE issue' = issue /\ daily' = projected
    BY DEF PublishResult
<1> DEFINE old == event[e]
           new == Published(old, g, r, result)
           i == new.issue
           first == old.group # "grouped" /\ new.group = "grouped"
           moves == first \/ (old.group = "grouped" /\ old.release # r)
           counted == IF first THEN Assigned(event', i, e) ELSE issue[i]
           table == IF moves THEN Moved(event', old, e, r) ELSE releases
           after == CASE ~moves -> counted
                      [] moves /\ enabled -> Transition(counted, Seen(table, i))
                      [] OTHER -> Ends(counted, Seen(table, i))
<1>7. /\ event' = [event EXCEPT ![e] = new]
      /\ variants' = IF first THEN Add(event', variants, <<i, new.variant>>, e) ELSE variants
      /\ releases' = table
      /\ new.group = "grouped" => /\ issue' = Put(issue, i, after)
                                  /\ daily' = IssueDelta(Projected(e, new), i, after)
      /\ new.group # "grouped" => issue' = issue /\ daily' = Projected(e, new)
    BY <1>6 DEF Projected
<1>8. /\ new \in Event /\ new.release = r /\ KeepsGroup(old, new)
      /\ new.group = "grouped" => new.issue \in Issues /\ new.variant \in Variants
    BY <1>1, <1>3, <1>4, PublishedEvent
<1>9. event'[e] = new
    BY <1>3, <1>7
<1>p. Published(old, g, r, result) = new
    OBVIOUS
<1> HIDE DEF new
<1>10. CASE old.group # "grouped" /\ new.group # "grouped"
    <2>1. ~first /\ ~moves
        BY <1>10
    <2>2. StaysUngrouped(e, new)
        BY <1>7, <1>10, <2>1 DEF StaysUngrouped
    <2> QED BY <1>2, <1>3, <1>5, <1>7, <1>8, <2>2
<1>11. CASE old.group # "grouped" /\ new.group = "grouped"
    <2>1. first /\ moves
        BY <1>11
    <2>2. table = IF r = NoValue THEN releases ELSE Add(event', releases, <<i, r>>, e)
        BY <1>9, <1>11, <2>1 DEF Moved
    <2>3. after = AfterMove(Assigned(event', i, e), Seen(releases', i))
        BY <1>7, <2>1 DEF AfterMove
    <2> HIDE DEF after, table, first, moves
    <2>4. JoinsIssue(e, new)
        BY <1>7, <1>8, <1>11, <2>1, <2>2, <2>3 DEF JoinsIssue, WritesIssue
    <2> QED BY <1>2, <1>3, <1>5, <1>7, <1>8, <2>4
<1>12. CASE old.group = "grouped" /\ old.release = r
    <2>1. ~first /\ ~moves /\ new.group = "grouped"
        BY <1>8, <1>12 DEF KeepsGroup
    <2>2. after = issue[i] /\ table = releases
        BY <2>1
    <2> HIDE DEF after, table, first, moves
    <2>3. StaysInRelease(e, new)
        BY <1>7, <1>8, <1>12, <2>1, <2>2 DEF StaysInRelease, WritesIssue
    <2> QED BY <1>2, <1>3, <1>5, <1>7, <1>8, <2>3
<1>13. CASE old.group = "grouped" /\ old.release # r
    <2>1. ~first /\ moves /\ new.group = "grouped" /\ i = old.issue
        BY <1>8, <1>13 DEF KeepsGroup
    <2>2. after = AfterMove(issue[i], Seen(releases', i))
        BY <1>7, <2>1 DEF AfterMove
    <2> DEFINE left == IF old.release # NoValue
                       THEN Remove(event', releases, <<old.issue, old.release>>, e) ELSE releases
    <2>3. table = IF r = NoValue THEN left ELSE Add(event', left, <<old.issue, r>>, e)
        BY <1>9, <1>13, <2>1 DEF Moved
    <2>4. left = IF old.release # NoValue
                 THEN Remove(event', releases, <<old.issue, old.release>>, e) ELSE releases
        OBVIOUS
    <2> HIDE DEF after, table, first, moves, left
    <2>5. MovesRelease(e, new)
        BY <1>7, <1>8, <1>13, <2>1, <2>2, <2>3, <2>4 DEF MovesRelease, WritesIssue
    <2> QED BY <1>2, <1>3, <1>5, <1>7, <1>8, <2>5
<1> QED BY <1>10, <1>11, <1>12, <1>13

(* The transition after a move keeps the counts of the issue.              *)
LEMMA AfterMoveKeeps ==
    ASSUME Stamped, NEW R, Builds(R), NEW entry \in IssueRow, Resolvable(entry)
    PROVE  /\ AfterMove(entry, R) \in IssueRow /\ SameCounts(AfterMove(entry, R), entry)
           /\ Resolvable(AfterMove(entry, R))
<1>1. CASE enabled
    <2>1. AfterMove(entry, R) = Transition(entry, R)
        BY <1>1 DEF AfterMove
    <2>2. /\ Transition(entry, R) \in IssueRow /\ SameCounts(Transition(entry, R), entry)
          /\ Resolvable(Transition(entry, R))
        BY TransitionKeeps, TransitionResolvable
    <2> QED BY <2>1, <2>2
<1>2. CASE ~enabled
    <2>1. AfterMove(entry, R) = Ends(entry, R)
        BY <1>2 DEF AfterMove
    <2> QED BY <2>1, EndsKeeps DEF Resolvable
<1> QED BY <1>1, <1>2

(* What holds of the event and of the days, whatever the rows do.          *)
Publishes(e, new) ==
    /\ e \in Events /\ event[e] \in Event /\ event[e] # NoValue /\ new \in Event
    /\ new.group = "grouped" => new.issue \in Issues /\ new.variant \in Variants
    /\ KeepsGroup(event[e], new)
    /\ event' = [event EXCEPT ![e] = new]
    /\ budget' \in Budget /\ UNCHANGED <<stamp, enabled, repair, drift, list>>

(* The crash a publication writes, and the days after its triggers.        *)
LEMMA ProjectedIs ==
    ASSUME IssuesIInv, NEW e, NEW new, Publishes(e, new)
    PROVE  /\ GoodEvents(event') /\ event'[e] = new
           /\ e \in Grouped(event) <=> event[e].group = "grouped"
           /\ Projected(e, new) \in [Keys -> Nat]
           /\ drift \/ Projected(e, new) = Recounted(event', issue, Keys)
<1>1. /\ GoodEvents(event) /\ IsFiniteSet(DOMAIN issue)
      /\ daily \in [Keys -> Nat] /\ (drift \/ daily = Recounted(event, issue, Keys))
    BY InvariantMeans DEF TablesHold, TablesTyped
<1>2. GoodEvents(event') /\ event'[e] = new /\ new # NoValue
    BY <1>1, EventWritten DEF Publishes
<1>3. Projected(e, new) \in [Keys -> Nat]
    BY <1>1, TriggersTyped DEF Projected
<1>4. Writes(event', event, e, new)
    BY <1>1, <1>2 DEF Writes, Publishes, GoodEvents
<1>5. EventDelta(SearchDelta(Recounted(event, issue, Keys), e, event[e], new), e, event[e], new)
        = Recounted(event', issue, Keys)
    BY <1>1, <1>4, EventTriggersRecount DEF Publishes
<1>6. drift \/ Projected(e, new) = Recounted(event', issue, Keys)
    BY <1>1, <1>5 DEF Projected
<1>7. e \in Grouped(event) <=> event[e].group = "grouped"
    BY DEF Grouped, Publishes
<1> QED BY <1>2, <1>3, <1>6, <1>7

(* A publication outside of the groups.                                    *)
LEMMA UngroupedKeeps ==
    ASSUME IssuesIInv, NEW e, NEW new, Publishes(e, new), StaysUngrouped(e, new)
    PROVE  IssuesIInv'
<1>1. /\ TablesHold(event, issue, variants, releases)
      /\ Stamped /\ \A i \in DOMAIN issue : Resolvable(issue[i])
    BY InvariantMeans
<1>2. /\ GoodEvents(event') /\ e \notin Grouped(event)
      /\ daily' \in [Keys -> Nat] /\ (drift' \/ daily' = Recounted(event', issue, Keys))
    BY ProjectedIs DEF StaysUngrouped, Publishes
<1>3. RowsHold(event', issue, variants, releases)
    <2>1. SameTable(issue, issue)
        BY DEF SameTable, SameCounts
    <2>2. StaysInGroup(event', event, e, new)
        BY <1>2 DEF Publishes, StaysUngrouped, StaysInGroup
    <2>3. GoodEvents(event) /\ RowsHold(event, issue, variants, releases)
        BY <1>1 DEF TablesHold
    <2> QED BY <2>1, <2>2, <2>3, GroupKept
<1>4. TablesHold(event, issue, variants, releases)'
    BY <1>1, <1>2, <1>3 DEF TablesHold, StaysUngrouped
<1>5. drift' \/ daily' = Recounted(event', issue', Keys)
    BY <1>2 DEF StaysUngrouped
<1>6. CursorHolds' /\ RestTyped'
    <2>1. issue' = issue /\ list' = list /\ UNCHANGED <<enabled, repair, drift>> /\ budget' \in Budget
        BY DEF Publishes, StaysUngrouped
    <2> QED BY <2>1 DEF IssuesIInv, IssuesTypeOK, RestTyped, CursorHolds, Behind, Position
<1>7. Stamped' /\ \A i \in DOMAIN issue' : Resolvable(issue[i])'
    BY <1>1 DEF Stamped, Resolvable, Publishes, StaysUngrouped
<1> QED BY <1>2, <1>4, <1>5, <1>6, <1>7, InvariantAfter

(* A publication that changes neither group nor release changes no row.    *)
LEMMA StayKeeps ==
    ASSUME IssuesIInv, NEW e, NEW new, Publishes(e, new), StaysInRelease(e, new)
    PROVE  IssuesIInv' /\ issue' = issue /\ releases' = releases
<1> DEFINE i == new.issue
           after == issue[i]
           projected == Projected(e, new)
<1>1. /\ GoodEvents(event) /\ RowsHold(event, issue, variants, releases)
      /\ TablesTyped(issue, variants, releases) /\ \A j \in DOMAIN issue : Resolvable(issue[j])
    BY InvariantMeans DEF TablesHold
<1>2. /\ GoodEvents(event') /\ e \in Grouped(event)
      /\ projected \in [Keys -> Nat] /\ (drift \/ projected = Recounted(event', issue, Keys))
    BY ProjectedIs DEF StaysInRelease
<1>3. /\ e \in Events /\ new \in Event /\ event' = [event EXCEPT ![e] = new]
      /\ new.group = "grouped" /\ new.issue = event[e].issue /\ new.variant = event[e].variant
      /\ new.quality = event[e].quality /\ new.release = event[e].release
      /\ i \in Issues /\ budget' \in Budget /\ UNCHANGED <<stamp, enabled, repair, drift, list>>
    BY DEF Publishes, KeepsGroup, StaysInRelease
<1>4. i \in DOMAIN issue
    BY <1>1, <1>2, <1>3 DEF RowsHold, AllPresent
<1>5. /\ issue' = Put(issue, i, after) /\ daily' = IssueDelta(projected, i, after)
      /\ variants' = variants /\ releases' = releases
    BY DEF StaysInRelease, WritesIssue
<1>6. issue' = issue
    <2>1. issue = [x \in DOMAIN issue |-> issue[x]]
        BY <1>1 DEF TablesTyped
    <2>2. Put(issue, i, after) = [x \in DOMAIN issue |-> issue[x]]
        BY <1>4 DEF Put
    <2> QED BY <1>5, <2>1, <2>2
<1>7. RowsHold(event', issue', variants', releases')
    <2>1. SameTable(issue, issue)
        BY DEF SameTable, SameCounts
    <2>2. StaysInGroup(event', event, e, new)
        BY <1>2, <1>3 DEF StaysInGroup
    <2>3. RowsHold(event', issue, variants, releases)
        BY <1>1, <2>1, <2>2, GroupKept
    <2> QED BY <1>5, <1>6, <2>3
<1>8. after \in IssueRow /\ Resolvable(after) /\ issue[i].last <= after.last
    <2>1. after \in IssueRow /\ Resolvable(after)
        BY <1>1, <1>4 DEF TablesTyped
    <2> QED BY <2>1 DEF IssueRow
<1>9. /\ DOMAIN variants' \subseteq Issues \X Variants /\ IsTable(variants')
      /\ DOMAIN releases' \subseteq Issues \X Releases /\ IsFiniteSet(DOMAIN releases')
      /\ IsTable(releases')
    BY <1>1, <1>5 DEF TablesTyped
<1> HIDE DEF after, projected, i
<1>10. IssuesIInv'
    BY <1>2, <1>3, <1>5, <1>7, <1>8, <1>9, WrittenKeeps
<1> QED BY <1>5, <1>6, <1>10

(* assign_issue: the issue is new, or counts one event more.               *)
LEMMA AssignedRow ==
    ASSUME IssuesIInv, NEW e, NEW new, Publishes(e, new), JoinsIssue(e, new)
    PROVE  LET i == new.issue
               counted == Assigned(event', i, e)
           IN  /\ counted \in IssueRow /\ Resolvable(counted)
               /\ SameCounts(counted, IF i \in DOMAIN issue THEN Joined(event', issue[i], e)
                                      ELSE Aggregate(event', {e}))
               /\ i \in DOMAIN issue => issue[i].last <= counted.last
<1> DEFINE i == new.issue
           counted == Assigned(event', i, e)
<1>1. /\ GoodEvents(event) /\ RowsHold(event, issue, variants, releases)
      /\ issue \in [DOMAIN issue -> IssueRow] /\ \A j \in DOMAIN issue : Resolvable(issue[j])
    BY InvariantMeans DEF TablesHold, TablesTyped
<1>2. GoodEvents(event') /\ e \notin Grouped(event) /\ e \in Events /\ event'[e] = new
      /\ new.group = "grouped" /\ new \in Event
    BY ProjectedIs DEF JoinsIssue, Publishes
<1>3. e \in Grouped(event') /\ event'[e].quality \in Nat
    BY <1>2, IssuesAssumption DEF Grouped, Event
<1>4. CASE i \in DOMAIN issue
    <2> DEFINE S == IssueSet(event, i)
               entry == issue[i]
    <2>1. /\ entry \in IssueRow /\ Resolvable(entry)
          /\ S \subseteq Grouped(event) /\ S # {} /\ e \notin S /\ Counts(event, entry, S)
        BY <1>1, <1>2, <1>4 DEF RowsHold, IssueSet
    <2>2. \A x \in S : event'[x] = event[x] /\ x \in Grouped(event')
        BY <1>1, <1>2, <2>1 DEF Publishes, GoodEvents, Grouped
    <2> HIDE DEF S, entry
    <2>3. Counts(event', entry, S)
        BY <2>1, <2>2, CountsSame
    <2>4. Ranked(event', S)
        BY <1>2, <2>1, <2>2, GroupsRanked
    <2> DEFINE joined == Joined(event', entry, e)
    <2>5. joined \in IssueRow /\ Counts(event', joined, S \cup {e})
        BY <1>2, <1>3, <2>1, <2>3, <2>4, JoinCounts
    <2>6. /\ joined.status = entry.status /\ joined.resolved = entry.resolved
          /\ joined.regression = entry.regression
        BY <2>1, JoinedKeeps
    <2>7. counted = joined
        BY <1>4 DEF Assigned, entry
    <2> HIDE DEF joined
    <2>8. entry.last <= joined.last
        <3>1. PICK x \in S : Arrival[x] = entry.last
            BY <2>3 DEF Counts
        <3> QED BY <2>5, <3>1 DEF Counts
    <2>9. Resolvable(joined)
        BY <2>1, <2>6 DEF Resolvable
    <2> QED BY <1>4, <2>5, <2>7, <2>8, <2>9 DEF SameCounts, entry, joined
<1>5. CASE i \notin DOMAIN issue
    <2> DEFINE agg == Aggregate(event', {e})
               fresh == Refreshed(NewIssue, agg)
    <2>1. Ranked(event', {e})
        <3>1. {e} \subseteq Grouped(event') /\ {e} # {}
            BY <1>3
        <3> QED BY <1>2, <3>1, GroupsRanked
    <2>2. agg \in CountRow
        BY <2>1, AggregateCounts
    <2>3. counted = fresh
        BY <1>5 DEF Assigned
    <2> HIDE DEF agg
    <2>4. /\ fresh \in IssueRow /\ SameCounts(fresh, agg)
          /\ fresh.status = NewIssue.status /\ fresh.resolved = NewIssue.resolved
          /\ fresh.regression = NewIssue.regression
        BY <2>2, RefreshedRow
    <2> HIDE DEF fresh
    <2>5. Resolvable(fresh)
        BY <2>4 DEF Resolvable, NewIssue
    <2> QED BY <1>5, <2>3, <2>4, <2>5 DEF agg
<1> QED BY <1>4, <1>5

(* A publication that brings a crash into an issue, and the row it         *)
(* leaves.                                                                 *)
LEMMA JoinKeeps ==
    ASSUME IssuesIInv, NEW e, NEW new, Publishes(e, new), JoinsIssue(e, new)
    PROVE  /\ IssuesIInv'
           /\ \E entry \in IssueRow :
                 /\ Resolvable(entry)
                 /\ issue' = Put(issue, new.issue, AfterMove(entry, Seen(releases', new.issue)))
           /\ DOMAIN releases \subseteq DOMAIN releases'
           /\ DOMAIN releases' \subseteq DOMAIN releases \cup {<<new.issue, new.release>>}
           /\ Builds(Seen(releases', new.issue))
<1> DEFINE i == new.issue
           R == Seen(releases', i)
           counted == Assigned(event', i, e)
           base == IF i \in DOMAIN issue THEN Joined(event', issue[i], e) ELSE Aggregate(event', {e})
           after == AfterMove(counted, R)
           projected == Projected(e, new)
<1>1. /\ GoodEvents(event) /\ RowsHold(event, issue, variants, releases)
      /\ TablesTyped(issue, variants, releases) /\ Stamped
    BY InvariantMeans DEF TablesHold
<1>2. /\ GoodEvents(event') /\ e \notin Grouped(event)
      /\ projected \in [Keys -> Nat] /\ (drift \/ projected = Recounted(event', issue, Keys))
    BY ProjectedIs DEF JoinsIssue
<1>3. /\ e \in Events /\ new \in Event /\ event' = [event EXCEPT ![e] = new]
      /\ new.group = "grouped" /\ i \in Issues /\ new.variant \in Variants
      /\ budget' \in Budget /\ UNCHANGED <<stamp, enabled, repair, drift, list>>
    BY DEF Publishes, JoinsIssue
<1>4. /\ variants' = Add(event', variants, <<i, new.variant>>, e)
      /\ releases' = (IF new.release = NoValue THEN releases
                      ELSE Add(event', releases, <<i, new.release>>, e))
      /\ issue' = Put(issue, i, after) /\ daily' = IssueDelta(projected, i, after)
    BY DEF JoinsIssue, WritesIssue
<1>5. /\ counted \in IssueRow /\ Resolvable(counted) /\ SameCounts(counted, base)
      /\ i \in DOMAIN issue => issue[i].last <= counted.last
    BY AssignedRow
<1> HIDE DEF counted, projected, base
<1>6. /\ IsTable(releases')
      /\ DOMAIN releases' = IF new.release = NoValue THEN DOMAIN releases
                            ELSE DOMAIN releases \cup {<<i, new.release>>}
      /\ IsTable(variants') /\ DOMAIN variants' \subseteq Issues \X Variants
      /\ \A a : SameCounts(a, base) => RowsHold(event', Put(issue, i, a), variants', releases')
    <2>1. ASSUME NEW a, SameCounts(a, base)
          PROVE  RowsJoined(event', releases, new, Put(issue, i, a), variants', releases')
        <3>1. SameCounts(a, IF i \in DOMAIN issue THEN Joined(event', issue[i], e)
                            ELSE Aggregate(event', {e}))
            BY <2>1 DEF base
        <3>2. Joining(event, issue, variants, releases, e, new, event', a)
            BY <1>1, <1>2, <1>3, <3>1 DEF Joining, TablesTyped, IsTable
        <3>3. RowsJoined(event', releases, new, Put(issue, new.issue, a),
                  Add(event', variants, <<new.issue, new.variant>>, e),
                  IF new.release = NoValue THEN releases
                  ELSE Add(event', releases, <<new.issue, new.release>>, e))
            BY <3>2, GroupingAddsRows
        <3> QED BY <1>4, <3>3
    <2>2. SameCounts(base, base)
        BY DEF SameCounts
    <2> QED BY <2>1, <2>2 DEF IsTable, RowsJoined
<1>7. /\ DOMAIN releases' \subseteq Issues \X Releases /\ IsFiniteSet(DOMAIN releases')
      /\ DOMAIN releases \subseteq DOMAIN releases'
      /\ DOMAIN releases' \subseteq DOMAIN releases \cup {<<i, new.release>>}
    <2>1. IsFiniteSet(DOMAIN releases) /\ IsFiniteSet(DOMAIN releases \cup {<<i, new.release>>})
        BY <1>1, FS_AddElement DEF TablesTyped
    <2>2. new.release # NoValue => <<i, new.release>> \in Issues \X Releases
        BY <1>3 DEF Event
    <2> QED BY <1>1, <1>6, <2>1, <2>2 DEF TablesTyped
<1>8. Builds(R)
    BY <1>7, SeenBuilds
<1>r. issue' = Put(issue, i, AfterMove(counted, Seen(releases', i)))
    BY <1>4
<1> HIDE DEF R
<1>9. after \in IssueRow /\ SameCounts(after, counted) /\ Resolvable(after)
    BY <1>1, <1>5, <1>8, AfterMoveKeeps
<1> HIDE DEF after
<1>10. SameCounts(after, base) /\ (i \in DOMAIN issue => issue[i].last <= after.last)
    BY <1>5, <1>9 DEF SameCounts
<1>11. RowsHold(event', issue', variants', releases')
    BY <1>4, <1>6, <1>10
<1> HIDE DEF i
<1>12. IssuesIInv'
    BY <1>2, <1>3, <1>4, <1>6, <1>7, <1>9, <1>10, <1>11, WrittenKeeps
<1> QED BY <1>5, <1>7, <1>8, <1>12, <1>r DEF i, R

(* A publication that moves a crash to another release, and the row it     *)
(* leaves.                                                                 *)
LEMMA MoveKeeps ==
    ASSUME IssuesIInv, NEW e, NEW new, Publishes(e, new), MovesRelease(e, new)
    PROVE  /\ IssuesIInv'
           /\ \E entry \in IssueRow :
                 /\ Resolvable(entry)
                 /\ issue' = Put(issue, new.issue, AfterMove(entry, Seen(releases', new.issue)))
           /\ DOMAIN releases \ {<<new.issue, event[e].release>>} \subseteq DOMAIN releases'
           /\ DOMAIN releases' \subseteq DOMAIN releases \cup {<<new.issue, new.release>>}
           /\ Builds(Seen(releases', new.issue))
<1> DEFINE i == new.issue
           R == Seen(releases', i)
           entry == issue[i]
           after == AfterMove(entry, R)
           projected == Projected(e, new)
           ok == <<event[e].issue, event[e].release>>
           rk == <<event[e].issue, new.release>>
<1>1. /\ GoodEvents(event) /\ RowsHold(event, issue, variants, releases)
      /\ TablesTyped(issue, variants, releases) /\ Stamped
      /\ \A j \in DOMAIN issue : Resolvable(issue[j])
    BY InvariantMeans DEF TablesHold
<1>2. /\ GoodEvents(event') /\ e \in Grouped(event)
      /\ projected \in [Keys -> Nat] /\ (drift \/ projected = Recounted(event', issue, Keys))
    BY ProjectedIs DEF MovesRelease
<1>3. /\ e \in Events /\ new \in Event /\ event' = [event EXCEPT ![e] = new]
      /\ new.group = "grouped" /\ i = event[e].issue /\ new.variant = event[e].variant
      /\ new.quality = event[e].quality /\ new.release # event[e].release
      /\ i \in Issues
      /\ budget' \in Budget /\ UNCHANGED <<stamp, enabled, repair, drift, list>>
    BY DEF Publishes, KeepsGroup, MovesRelease
<1>4. PICK left :
          /\ left = IF event[e].release # NoValue THEN Remove(event', releases, ok, e) ELSE releases
          /\ releases' = IF new.release = NoValue THEN left ELSE Add(event', left, rk, e)
    BY DEF MovesRelease
<1>5. /\ variants' = variants
      /\ issue' = Put(issue, i, after) /\ daily' = IssueDelta(projected, i, after)
    BY DEF MovesRelease, WritesIssue
<1>6. i \in DOMAIN issue /\ entry \in IssueRow /\ Resolvable(entry) /\ entry.last \in Nat
    BY <1>1, <1>2, <1>3 DEF RowsHold, AllPresent, TablesTyped, IssueRow
<1>k. ok = <<event[e].issue, event[e].release>> /\ rk = <<event[e].issue, new.release>>
    OBVIOUS
<1> HIDE DEF projected, ok, rk
<1>7. /\ IsTable(releases')
      /\ DOMAIN releases' \subseteq IF new.release = NoValue THEN DOMAIN releases
                                    ELSE DOMAIN releases \cup {rk}
      /\ DOMAIN releases \ {ok} \subseteq DOMAIN releases'
      /\ \A t : SameTable(t, issue) => RowsHold(event', t, variants, releases')
    <2>1. ASSUME NEW t, SameTable(t, issue)
          PROVE  /\ RowsHold(event', t, variants, releases')
                 /\ IsTable(releases')
                 /\ DOMAIN releases' \subseteq IF new.release = NoValue THEN DOMAIN releases
                                               ELSE DOMAIN releases \cup {rk}
                 /\ DOMAIN releases \ {ok} \subseteq DOMAIN releases'
        <3>1. Moving(event, issue, variants, releases, e, new, event', ok, rk, left, releases')
            BY <1>1, <1>2, <1>3, <1>4, <1>k DEF Moving, TablesTyped
        <3> QED BY <2>1, <3>1, MoveChangesRows
    <2>2. SameTable(issue, issue)
        BY DEF SameTable, SameCounts
    <2> QED BY <2>1, <2>2
<1>8. /\ DOMAIN releases' \subseteq Issues \X Releases /\ IsFiniteSet(DOMAIN releases')
      /\ DOMAIN releases' \subseteq DOMAIN releases \cup {<<i, new.release>>}
      /\ DOMAIN releases \ {<<i, event[e].release>>} \subseteq DOMAIN releases'
    <2>1. IsFiniteSet(DOMAIN releases) /\ IsFiniteSet(DOMAIN releases \cup {rk})
        BY <1>1, FS_AddElement DEF TablesTyped
    <2>2. new.release # NoValue => rk \in Issues \X Releases
        BY <1>3, <1>k DEF Event
    <2>3. IsFiniteSet(DOMAIN releases')
        BY <1>7, <2>1, FS_Subset
    <2> QED BY <1>1, <1>3, <1>7, <1>k, <2>2, <2>3 DEF TablesTyped
<1>9. Builds(R)
    BY <1>8, SeenBuilds
<1>r. issue' = Put(issue, i, AfterMove(entry, Seen(releases', i)))
    BY <1>5
<1> HIDE DEF R
<1>10. after \in IssueRow /\ SameCounts(after, entry) /\ Resolvable(after)
    BY <1>1, <1>6, <1>9, AfterMoveKeeps
<1> HIDE DEF after
<1>11. issue[i].last <= after.last
    BY <1>6, <1>10 DEF SameCounts
<1>12. RowsHold(event', issue', variants', releases')
    <2>1. SameTable(issue', issue)
        BY <1>5, <1>6, <1>10 DEF Put, SameTable, SameCounts
    <2> QED BY <1>5, <1>7, <2>1
<1>13. DOMAIN variants' \subseteq Issues \X Variants /\ IsTable(variants')
    BY <1>1, <1>5 DEF TablesTyped
<1> HIDE DEF entry, i
<1>14. IssuesIInv'
    <2>1. i \in DOMAIN issue => issue[i].last <= after.last
        BY <1>11
    <2> QED BY <1>2, <1>3, <1>5, <1>7, <1>8, <1>10, <1>12, <1>13, <2>1, WrittenKeeps
<1> QED BY <1>6, <1>8, <1>9, <1>14, <1>r DEF i, R

(* Every publication.                                                      *)
LEMMA PublishKeeps ==
    ASSUME IssuesIInv, NEW e \in Events, PublishResult(e)
    PROVE  IssuesIInv'
<1>1. PICK new \in Event :
         Publishes(e, new) /\ (\/ StaysUngrouped(e, new) \/ JoinsIssue(e, new)
                               \/ StaysInRelease(e, new) \/ MovesRelease(e, new))
    BY PublishSplits DEF Publishes
<1> QED BY <1>1, UngroupedKeeps, JoinKeeps, StayKeeps, MoveKeeps

-----------------------------------------------------------------------------
(* The invariant.                                                          *)

(* An empty project counts nothing.                                        *)
LEMMA IssuesInitial ==
    ASSUME IssuesInit
    PROVE  IssuesIInv
<1>1. /\ event = [e \in Events |-> NoValue] /\ issue = << >> /\ variants = << >> /\ releases = << >>
      /\ daily = [k \in Keys |-> 0] /\ enabled = TRUE /\ repair = NoValue /\ drift = FALSE
      /\ list = NoList /\ budget \in Budgets /\ stamp \in [Releases -> budget.stamps]
    BY DEF IssuesInit
<1>2. Stored = {} /\ Grouped(event) = {} /\ DOMAIN issue = {} /\ DOMAIN variants = {} /\ DOMAIN releases = {}
    BY <1>1 DEF Stored, Grouped
<1>3. budget \in Budget
    BY <1>1, IssuesAssumption
<1>4. IssuesTypeOK
    <2>1. event \in [Events -> Event \cup {NoValue}] /\ IsFiniteSet(Stored)
        BY <1>1, <1>2, FS_EmptySet
    <2>2. /\ DOMAIN issue \subseteq Issues /\ IsFiniteSet(DOMAIN issue)
          /\ issue \in [DOMAIN issue -> IssueRow]
        BY <1>1, <1>2, FS_EmptySet
    <2>3. /\ DOMAIN variants \subseteq Issues \X Variants /\ variants \in [DOMAIN variants -> CountRow]
          /\ DOMAIN releases \subseteq Issues \X Releases /\ IsFiniteSet(DOMAIN releases)
          /\ releases \in [DOMAIN releases -> CountRow]
        BY <1>1, <1>2, FS_EmptySet
    <2>4. stamp \in [Releases -> Stamps \cup {NoValue}]
        BY <1>1, <1>3 DEF Budget
    <2>5. daily \in [Keys -> Nat] /\ enabled \in BOOLEAN /\ drift \in BOOLEAN
        BY <1>1
    <2>6. /\ list \in [open : BOOLEAN, cursor : (Nat \X Nat) \cup {NoValue}, seen : [Issues -> Nat],
                       due : {list.due}]
          /\ \A i \in DOMAIN list.due : list.due[i] \in Nat
        BY <1>1 DEF NoList
    <2> QED BY <1>1, <1>3, <2>1, <2>2, <2>3, <2>4, <2>5, <2>6 DEF IssuesTypeOK
<1>5. RowsAreRecounts
    BY <1>2 DEF RowsAreRecounts
<1>6. daily = Recount(Keys)
    <2>1. \A k : EventCount(event, k) = 0 /\ IssueCount(issue, k) = 0
        <3> TAKE k
        <3>1. /\ {e \in StoredIn(event) : k \in EventKeys(e, event[e])} = {}
              /\ {i \in DOMAIN issue : k \in IssueKeys(issue[i])} = {}
            BY <1>1, <1>2 DEF StoredIn
        <3> QED BY <3>1, FS_EmptySet DEF EventCount, IssueCount
    <2>2. Recount(Keys) = [k \in Keys |-> 0]
        BY <2>1, RecountIs DEF Recounted
    <2> QED BY <1>1, <2>2
<1>7. GroupsAreNamed /\ ResolvedIsStamped /\ CursorHolds
    BY <1>1, <1>2 DEF GroupsAreNamed, ResolvedIsStamped, CursorHolds, NoList
<1>8. ChecksAdmitRows
    BY <1>2 DEF ChecksAdmitRows
<1> QED BY <1>4, <1>5, <1>6, <1>7, <1>8 DEF IssuesIInv, DeltasAreRecounts

(* Every step keeps the invariant of the issues.                           *)
LEMMA IssuesStep ==
    ASSUME IssuesIInv, [IssuesNext]_issueVars
    PROVE  IssuesIInv'
<1>1. CASE \E e \in Events : Ingest(e) \/ PublishResult(e) \/ Fail(e)
    BY <1>1, IngestKeeps, PublishKeeps, FailKeeps
<1>2. CASE \E i \in Issues, r \in Releases : ResolveIssue(i, r)
    BY <1>2, ResolveKeeps
<1>3. CASE \E i \in Issues : ReopenIssue(i) \/ RepairIssue(i)
    BY <1>3, ReopenKeeps, RepairKeeps
<1>4. CASE \E r \in Releases, t \in Stamps : StampRelease(r, t)
    BY <1>4, StampKeeps
<1>5. CASE SwitchGrouping
    BY <1>5, SwitchKeeps
<1>6. CASE \E d \in Days : RepairDayRead(d)
    BY <1>6, DayReadKeeps
<1>7. CASE RepairDayWrite
    BY <1>7, DayWriteKeeps
<1>8. CASE ListStart
    BY <1>8, StartKeeps
<1>9. CASE ListPage
    BY <1>9, PageKeeps
<1>10. CASE UNCHANGED issueVars
    BY <1>10, StutterKeeps
<1> QED BY <1>1, <1>2, <1>3, <1>4, <1>5, <1>6, <1>7, <1>8, <1>9, <1>10 DEF IssuesNext

(* The tables of issues, the days and the cursors hold together in every   *)
(* reachable state, whatever is published, moved, failed, resolved or      *)
(* repaired and in whatever order.                                         *)
THEOREM IssuesInvariant == IssuesSpec => []IssuesIInv
<1>1. IssuesInit => IssuesIInv
    BY IssuesInitial
<1>2. IssuesIInv /\ [IssuesNext]_issueVars => IssuesIInv'
    BY IssuesStep
<1> QED BY <1>1, <1>2, PTL DEF IssuesSpec

(* The counts, dates and representatives that assign_issue,                *)
(* add_release_membership, remove_release_membership and the triggers      *)
(* keep by deltas are those of a recount.                                  *)
THEOREM CountsAreRecounts == IssuesSpec => []DeltasAreRecounts
<1>1. IssuesIInv => DeltasAreRecounts
    BY DEF IssuesIInv
<1> QED BY <1>1, IssuesInvariant, PTL

(* What assign_issue, add_release_membership, remove_release_membership,   *)
(* update_issue_transitions, resolve_issue, reopen_issue and repair_issue  *)
(* leave in the tables, the constraints of the schema admit.               *)
THEOREM RowsAreAdmitted == IssuesSpec => []ChecksAdmitRows
<1>1. IssuesIInv => ChecksAdmitRows
    BY DEF IssuesIInv
<1> QED BY <1>1, IssuesInvariant, PTL

-----------------------------------------------------------------------------
(* What an issue shows, and what a client reads.                           *)

(* Current, of this state and of the next, over the operators of this      *)
(* module.                                                                 *)
LEMMA CurrentIs ==
    ASSUME stamp' = stamp
    PROVE  /\ \A i : Current(i) <=> Shows(issue[i], Seen(releases, i))
           /\ \A i : Current(i)' <=> Shows(issue'[i], Seen(releases', i))
<1>1. \A i : Current(i) <=> Shows(issue[i], Seen(releases, i))
    BY DEF Current, Shows
<1>2. \A i : Current(i)' <=> Shows(issue'[i], Seen(releases', i))
    BY DEF Current, Shows, Provable, Seen
<1> QED BY <1>1, <1>2

(* What a current issue shows.                                             *)
LEMMA CurrentShows ==
    ASSUME NEW i, Current(i)
    PROVE  Shows(issue[i], Seen(releases, i))
BY DEF Current, Shows

(* One issue written that shows its releases, the releases of the others   *)
(* kept.                                                                   *)
LEMMA CurrentPut ==
    ASSUME \A j \in DOMAIN issue : Current(j), stamp' = stamp, NEW i, NEW after,
           issue' = Put(issue, i, after), Shows(after, Seen(releases', i)),
           \A j \in DOMAIN issue : j # i => Seen(releases', j) = Seen(releases, j)
    PROVE  \A j \in DOMAIN issue' : Current(j)'
<1> TAKE j \in DOMAIN issue'
<1>1. CASE j = i
    BY <1>1, CurrentIs DEF Put
<1>2. CASE j # i
    BY <1>2, CurrentIs DEF Put
<1> QED BY <1>1, <1>2

(* No issue and no release written.                                        *)
LEMMA CurrentKept ==
    ASSUME \A j \in DOMAIN issue : Current(j), UNCHANGED <<stamp, issue, releases>>
    PROVE  \A j \in DOMAIN issue' : Current(j)'
BY CurrentIs

(* A publication leaves every issue current: it runs the transition when   *)
(* it brings or moves a crash.                                             *)
LEMMA PublishCurrent ==
    ASSUME IssuesIInv, \A j \in DOMAIN issue : Current(j), enabled,
           NEW e \in Events, PublishResult(e)
    PROVE  \A j \in DOMAIN issue' : Current(j)'
<1>1. PICK new \in Event :
         Publishes(e, new) /\ (\/ StaysUngrouped(e, new) \/ JoinsIssue(e, new)
                               \/ StaysInRelease(e, new) \/ MovesRelease(e, new))
    BY PublishSplits DEF Publishes
<1>2. stamp' = stamp /\ Stamped
    BY <1>1, InvariantMeans DEF Publishes
<1>3. CASE StaysUngrouped(e, new)
    BY <1>2, <1>3, CurrentKept DEF StaysUngrouped
<1>4. CASE StaysInRelease(e, new)
    BY <1>1, <1>2, <1>4, StayKeeps, CurrentKept
<1>5. CASE JoinsIssue(e, new) \/ MovesRelease(e, new)
    <2> DEFINE R == Seen(releases', new.issue)
               old == <<new.issue, event[e].release>>
               fresh == <<new.issue, new.release>>
    <2>1. /\ \E entry \in IssueRow : Resolvable(entry) /\ issue' = Put(issue, new.issue, AfterMove(entry, R))
          /\ DOMAIN releases \ {old} \subseteq DOMAIN releases'
          /\ DOMAIN releases' \subseteq DOMAIN releases \cup {fresh}
          /\ Builds(R)
        BY <1>1, <1>5, JoinKeeps, MoveKeeps
    <2>2. \A j \in DOMAIN issue : j # new.issue => Seen(releases', j) = Seen(releases, j)
        BY <2>1 DEF Seen
    <2> HIDE DEF old, fresh
    <2>3. PICK entry \in IssueRow : Resolvable(entry) /\ issue' = Put(issue, new.issue, AfterMove(entry, R))
        BY <2>1
    <2>4. AfterMove(entry, R) = Transition(entry, R)
        BY DEF AfterMove
    <2>5. Shows(Transition(entry, R), R)
        BY <1>2, <2>1, <2>3, TransitionShows
    <2> QED BY <1>2, <2>2, <2>3, <2>4, <2>5, CurrentPut
<1> QED BY <1>1, <1>3, <1>4, <1>5

(* A change that shows the releases of its issue.                          *)
LEMMA ChangeCurrent ==
    ASSUME IssuesIInv, \A j \in DOMAIN issue : Current(j), NEW i \in DOMAIN issue, NEW after,
           Change(i, after), Shows(after, Seen(releases, i))
    PROVE  \A j \in DOMAIN issue' : Current(j)'
<1>1. issue' = [issue EXCEPT ![i] = after] /\ stamp' = stamp /\ releases' = releases
    BY DEF Change
<1>2. issue' = Put(issue, i, after)
    <2>1. issue = [x \in DOMAIN issue |-> issue[x]]
        BY InvariantMeans DEF TablesHold, TablesTyped
    <2> QED BY <1>1, <2>1, PutIs
<1> QED BY <1>1, <1>2, CurrentPut

(* resolve_issue answers with a regression when a later release is known.  *)
LEMMA ResolveCurrent ==
    ASSUME IssuesIInv, \A j \in DOMAIN issue : Current(j), NEW i \in Issues, NEW r \in Releases,
           ResolveIssue(i, r)
    PROVE  \A j \in DOMAIN issue' : Current(j)'
<1> DEFINE R == Seen(releases, i)
           entry == issue[i]
           later == Later(r, R)
           after == Resolved(entry, r, later)
           past == \E x \in R : stamp[x] > stamp[r]
<1>1. i \in DOMAIN issue /\ stamp[r] # NoValue /\ Change(i, after)
    BY DEF ResolveIssue, Resolved
<1>2. entry \in IssueRow /\ Stamped /\ Builds(R)
    BY <1>1, InvariantMeans, SeenBuilds DEF TablesHold, TablesTyped
<1>3. Shows(entry, R)
    BY <1>1, CurrentShows
<1> HIDE DEF R, entry
<1>4. r # NoValue
    BY IssuesAssumption
<1>5. later <=> Provable(R) /\ past
    BY <1>1, <1>2, <1>4, LaterIs, ProvableIsOrdered
<1> HIDE DEF later
<1>6. /\ after.resolved = r
      /\ after.firstRelease = entry.firstRelease /\ after.lastRelease = entry.lastRelease
      /\ later => after.status = "open" /\ after.regression = "regressed"
      /\ ~later => after.status = "resolved" /\ after.regression = "resolved"
    BY <1>2, ResolvedRow
<1> HIDE DEF after
<1>7. Shows(after, R)
    BY <1>3, <1>4, <1>5, <1>6 DEF Shows
<1> QED BY <1>1, <1>7, ChangeCurrent DEF R

(* reopen_issue forgets the release that resolved the issue.               *)
LEMMA ReopenCurrent ==
    ASSUME IssuesIInv, \A j \in DOMAIN issue : Current(j), NEW i \in Issues, ReopenIssue(i)
    PROVE  \A j \in DOMAIN issue' : Current(j)'
<1> DEFINE R == Seen(releases, i)
           entry == issue[i]
           after == Reopened(entry, Retained(R))
<1>1. i \in DOMAIN issue /\ Change(i, after)
    BY DEF ReopenIssue, Reopened
<1>2. entry \in IssueRow /\ Stamped /\ Builds(R)
    BY <1>1, InvariantMeans, SeenBuilds DEF TablesHold, TablesTyped
<1>3. Shows(entry, R)
    BY <1>1, CurrentShows
<1> HIDE DEF R, entry
<1>4. /\ Retained(R) \in {"unknown", "new", "ongoing"}
      /\ Retained(R) \in {"new", "ongoing"} <=> Provable(R)
    BY <1>2, ProvableIsOrdered DEF Retained
<1>5. /\ after.status = "open" /\ after.regression = Retained(R) /\ after.resolved = NoValue
      /\ after.firstRelease = entry.firstRelease /\ after.lastRelease = entry.lastRelease
    BY <1>2, <1>4, ReopenedRow
<1> HIDE DEF after
<1>6. Shows(after, R)
    BY <1>3, <1>4, <1>5 DEF Shows
<1> QED BY <1>1, <1>6, ChangeCurrent DEF R

(* repair_issue ends with the transition.                                  *)
LEMMA RepairCurrent ==
    ASSUME IssuesIInv, \A j \in DOMAIN issue : Current(j), NEW i \in Issues, RepairIssue(i)
    PROVE  \A j \in DOMAIN issue' : Current(j)'
<1> DEFINE R == Seen(releases', i)
<1>1. PICK entry \in IssueRow :
         Resolvable(entry) /\ issue' = [issue EXCEPT ![i] = Transition(entry, R)] /\ stamp' = stamp
    BY RepairRow
<1>2. i \in DOMAIN issue /\ DOMAIN releases' = DOMAIN releases
    BY RepairRows
<1>3. \A j : Seen(releases', j) = Seen(releases, j)
    BY <1>2 DEF Seen
<1>4. Stamped /\ Builds(R) /\ issue = [x \in DOMAIN issue |-> issue[x]]
    BY <1>2, InvariantMeans, SeenBuilds DEF TablesHold, TablesTyped
<1>5. issue' = Put(issue, i, Transition(entry, R))
    BY <1>1, <1>2, <1>4, PutIs
<1>6. Shows(Transition(entry, R), R)
    BY <1>1, <1>4, TransitionShows
<1> QED BY <1>1, <1>3, <1>5, <1>6, CurrentPut

(* Every step leaves the issues current.                                   *)
LEMMA StateStep ==
    ASSUME IssuesIInv, [IssuesNext]_issueVars,
           \A i \in DOMAIN issue : Current(i), stamp' = stamp, enabled
    PROVE  \A i \in DOMAIN issue' : Current(i)'
<1>1. CASE \E e \in Events : PublishResult(e)
    BY <1>1, PublishCurrent
<1>2. CASE \E i \in Issues, r \in Releases : ResolveIssue(i, r)
    BY <1>2, ResolveCurrent
<1>3. CASE \E i \in Issues : ReopenIssue(i)
    BY <1>3, ReopenCurrent
<1>4. CASE \E i \in Issues : RepairIssue(i)
    BY <1>4, RepairCurrent
<1>5. CASE \/ \E e \in Events : Ingest(e) \/ Fail(e)
           \/ \E r \in Releases, t \in Stamps : StampRelease(r, t)
           \/ SwitchGrouping \/ (\E d \in Days : RepairDayRead(d)) \/ RepairDayWrite
           \/ ListStart \/ ListPage \/ UNCHANGED issueVars
    <2>1. issue' = issue /\ releases' = releases
        BY <1>5 DEF Ingest, Fail, StampRelease, SwitchGrouping, RepairDayRead, RepairDayWrite,
                    ListStart, ListPage, issueVars, rows
    <2> QED BY <2>1, CurrentKept
<1> QED BY <1>1, <1>2, <1>3, <1>4, <1>5 DEF IssuesNext

(* An issue that shows the state its releases call for does so after       *)
(* every step, but for a build time that arrives late or a publication     *)
(* while grouping is off (update_issue_transitions, resolve_issue,         *)
(* reopen_issue).                                                          *)
THEOREM IssueStatesFollow == IssuesSpec => StateFollowsReleases
<1>1. IssuesIInv /\ [IssuesNext]_issueVars
        => [(\A i \in DOMAIN issue : Current(i)) /\ stamp' = stamp /\ enabled
              => \A i \in DOMAIN issue' : Current(i)']_issueVars
    BY StateStep
<1> QED BY <1>1, IssuesInvariant, PTL DEF IssuesSpec, StateFollowsReleases

(* The page that ends a list.                                              *)
LEMMA ListStep ==
    ASSUME IssuesIInv, [IssuesNext]_issueVars, list.open, ~list'.open,
           NEW i \in DOMAIN list.due, issue[i].last = list.due[i]
    PROVE  list'.seen[i] = 1
<1>1. CASE ListPage
    <2> DEFINE rest == Behind(list.cursor)
               page == FirstOf(rest, PageSize)
    <2>1. /\ page = rest
          /\ list'.seen = [j \in Issues |-> IF j \in page THEN list.seen[j] + 1 ELSE list.seen[j]]
        BY <1>1, PageReads
    <2>2. i \in Issues /\ list.seen[i] = (IF i \in rest THEN 0 ELSE 1)
        BY DEF IssuesIInv, IssuesTypeOK, CursorHolds
    <2> HIDE DEF rest, page
    <2> QED BY <2>1, <2>2
<1>2. CASE ListStart
    BY <1>2 DEF ListStart
<1>3. CASE ~ListPage /\ ~ListStart
    <2>1. list' = list
        BY <1>3 DEF IssuesNext, Ingest, PublishResult, Fail, ResolveIssue, ReopenIssue, Change,
                    RepairIssue, StampRelease, SwitchGrouping, RepairDayRead, RepairDayWrite, issueVars
    <2> QED BY <2>1
<1> QED BY <1>1, <1>2, <1>3

(* A client that follows the cursors of list_issues reads every issue      *)
(* that did not change meanwhile exactly once.                             *)
THEOREM ListsReadOnce == IssuesSpec => ListedOnce
<1>1. IssuesIInv /\ [IssuesNext]_issueVars
        => [list.open /\ ~list'.open =>
              \A i \in DOMAIN list.due : issue[i].last = list.due[i] => list'.seen[i] = 1]_issueVars
    BY ListStep
<1> QED BY <1>1, IssuesInvariant, PTL DEF IssuesSpec, ListedOnce

(* Type correctness of the state of the issues.                            *)
THEOREM IssueTypes == IssuesSpec => []IssuesTypeOK
<1>1. IssuesIInv => IssuesTypeOK
    BY DEF IssuesIInv
<1> QED BY <1>1, IssuesInvariant, PTL
=============================================================================
