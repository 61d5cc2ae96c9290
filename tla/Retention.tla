----------------------------- MODULE Retention -----------------------------
(***************************************************************************)
(* The life of raw crash objects after acceptance (apps/server/src/usage.rs *)
(* and delete_raw in apps/server/src/worker.rs), for the events of one     *)
(* issue and release.                                                      *)
(*                                                                         *)
(* Publication decides what quota sampling keeps, the scheduler expires    *)
(* what is past its deadline, delete_raw jobs delete the objects and       *)
(* record it, and project_storage_counters follows the bytes retained.     *)
(* Database transactions are fenced by the job's lease; the object store   *)
(* is not, so a run that lost its lease can still delete.  Retries and     *)
(* leases are JobQueue's subject: here a job may be taken over at any time *)
(* and an error leads to another try or to a dead job.                     *)
(*                                                                         *)
(* FAULTLANE_USAGE_ENFORCEMENT_ENABLED and FAULTLANE_RETENTION_V2_ENABLED  *)
(* are read by each process and may differ between processes while they    *)
(* are being changed.                                                      *)
(***************************************************************************)
EXTENDS Integers, FiniteSets, FiniteSetsExt

CONSTANTS
    NumEvents,    \* events are numbered by (received_at, id)
    Sampled,      \* events accepted with usage_outcome = 'sampling'
    Reservoir,    \* events that reservoir_selected picks
    KeepRecent,   \* raw objects kept per issue and release
    Schedulers,   \* the schedulers in use, by FAULTLANE_RETENTION_V2_ENABLED
    Modes,        \* values of FAULTLANE_USAGE_ENFORCEMENT_ENABLED in use
    Runs,         \* concurrent runs of delete_raw jobs
    None

Events == 1..NumEvents

ASSUME RetentionAssumption ==
    /\ NumEvents \in Nat
    /\ Sampled \subseteq Events
    /\ Reservoir \subseteq Events
    /\ KeepRecent \in Nat \ {0}
    /\ Schedulers \subseteq {"legacy", "v2"}
    /\ Modes \subseteq BOOLEAN
    /\ None \notin Runs
    /\ None \notin Events

VARIABLES
    raw,        \* [Events -> Raw]: lifecycle_state and raw_retention_class
    due,        \* events whose raw_delete_after has passed
    present,    \* events whose raw object is in the object store
    counter,    \* project_storage_counters, in objects
    ledger,     \* events with a raw_deleted row in usage_ledger
    job,        \* [Events -> Job]: the event's delete_raw job
    run         \* [Runs -> Run]

vars == <<raw, due, present, counter, ledger, job, run>>

(* kept: novel, representative, variant and reservoir *)
Classes == {"pending", "standard", "kept", "recent", "deleting", "expired", "discarded"}
Raw == [state : {"absent", "stored", "deleting", "discarded"}, class : Classes]
Job == [state : {"absent", "pending", "leased", "completed", "dead"}, holder : Runs \cup {None}]
Run == [event : Events \cup {None},
        step : {"idle", "read", "restore", "delete", "record", "error"},
        enforce : BOOLEAN]
Idle == [event |-> None, step |-> "idle", enforce |-> FALSE]

Init ==
    /\ raw = [e \in Events |-> [state |-> "absent", class |-> "pending"]]
    /\ due = {}
    /\ present = {}
    /\ counter = [retained |-> 0, reconciled |-> FALSE]
    /\ ledger = {}
    /\ job = [e \in Events |-> [state |-> "absent", holder |-> None]]
    /\ run = [r \in Runs |-> Idle]

-----------------------------------------------------------------------------
(* The storage counter.                                                     *)

Retained(objects) == {e \in Events : objects[e].state \in {"stored", "deleting"}}

(* apply_storage_delta: nothing until the first reconciliation, and no      *)
(* result below zero.                                                       *)
CanApply(delta) == counter.reconciled => counter.retained + delta >= 0

ApplyDelta(delta) ==
    /\ CanApply(delta)
    /\ counter' = IF counter.reconciled
                  THEN [counter EXCEPT !.retained = @ + delta] ELSE counter

(* Mutant of Reconciled: objects that are being deleted are left out. *)
ReconciledStored == Cardinality({e \in Events : raw[e].state = "stored"})

(* The sum reconcile_storage stores, under the lock of the counter row. *)
Reconciled == Cardinality(Retained(raw))

Reconcile ==
    /\ counter' = [retained |-> Reconciled, reconciled |-> TRUE]
    /\ UNCHANGED <<raw, due, present, ledger, job, run>>

(* record_acceptance, in the transaction that accepts the event: its object *)
(* is stored.                                                               *)
Accept(e) ==
    /\ raw[e].state = "absent"
    /\ raw' = [raw EXCEPT ![e] =
                 [state |-> "stored", class |-> IF e \in Sampled THEN "pending" ELSE "standard"]]
    /\ present' = present \cup {e}
    /\ ApplyDelta(1)
    /\ UNCHANGED <<due, ledger, job, run>>

-----------------------------------------------------------------------------
(* schedule_raw_retention, in the transaction that publishes a result.      *)
(* Publications lock the project, so there is one at a time.                *)

Recent == {f \in Events : raw[f] = [state |-> "stored", class |-> "recent"]}

(* The LIMIT keeps the newest; the last of them is the oldest kept. *)
Newest == {f \in Recent : Cardinality({g \in Recent : g > f}) < KeepRecent}

Oldest == Min(Newest)

Full == Cardinality(Newest) >= KeepRecent

SetClass(objects, e, class) == [objects EXCEPT ![e].class = class]

(* enqueue_raw_deletion: an existing job is left as it is. *)
Enqueued(e, class) == [raw EXCEPT ![e] = [state |-> "deleting", class |-> class]]

Insert(e) ==
    job' = IF job[e].state = "absent" THEN [job EXCEPT ![e].state = "pending"] ELSE job

(* standard: enforcement is off, or retain_all within the storage limit.    *)
(* kept: no issue, the first event of its issue or of its variant, or the   *)
(* issue's representative.                                                  *)
PublishKept(e, class) ==
    /\ raw[e] = [state |-> "stored", class |-> "pending"]
    /\ class = "kept" => TRUE \in Modes
    /\ raw' = SetClass(raw, e, class)
    /\ UNCHANGED <<due, present, counter, ledger, job, run>>

PublishRecent(e) ==
    /\ TRUE \in Modes
    /\ raw[e] = [state |-> "stored", class |-> "pending"]
    /\ ~Full
    /\ raw' = SetClass(raw, e, "recent")
    /\ UNCHANGED <<due, present, counter, ledger, job, run>>

(* Mutant of Aged: the comparison is turned round. *)
AgedNewer(e) == IF e < Oldest THEN Oldest ELSE e

(* One object too many: the older of the new one and the oldest kept goes,  *)
(* into the reservoir or out.                                               *)
Aged(e) == IF e > Oldest THEN Oldest ELSE e

PublishSampled(e) ==
    /\ TRUE \in Modes
    /\ raw[e] = [state |-> "stored", class |-> "pending"]
    /\ Full
    /\ LET aged == Aged(e)
           moved == IF aged \in Reservoir THEN SetClass(raw, aged, "kept")
                    ELSE Enqueued(aged, "deleting")
       IN  /\ raw' = IF aged = e THEN moved ELSE SetClass(moved, e, "recent")
           /\ IF aged \in Reservoir THEN UNCHANGED job ELSE Insert(aged)
    /\ UNCHANGED <<due, present, counter, ledger, run>>

-----------------------------------------------------------------------------
(* The scheduler.                                                           *)

BecomeDue(e) ==
    /\ raw[e].state # "absent"
    /\ e \notin due
    /\ due' = due \cup {e}
    /\ UNCHANGED <<raw, present, counter, ledger, job, run>>

(* schedule_expired_raw_legacy *)
ExpireLegacy(e) ==
    /\ "legacy" \in Schedulers
    /\ e \in due
    /\ raw[e].state = "stored"
    /\ raw' = Enqueued(e, "expired")
    /\ Insert(e)
    /\ UNCHANGED <<due, present, counter, ledger, run>>

(* ON CONFLICT DO UPDATE ... WHERE state IN ('completed', 'failed', 'dead') *)
Revived(j) ==
    IF j.state \in {"absent", "completed", "dead"}
    THEN [state |-> "pending", holder |-> None] ELSE j

(* schedule_expired_raw_v2_batch, once the counters are reconciled. *)
Expire(e) ==
    /\ "v2" \in Schedulers
    /\ counter.reconciled
    /\ e \in due
    /\ raw[e].state = "stored"
    /\ raw' = Enqueued(e, "expired")
    /\ job' = [job EXCEPT ![e] = Revived(@)]
    /\ UNCHANGED <<due, present, counter, ledger, run>>

-----------------------------------------------------------------------------
(* delete_raw.                                                              *)

(* Mutant of Claim: an expired lease is not taken over. *)
ClaimPending(r, e) ==
    /\ run[r] = Idle
    /\ job[e].state = "pending"
    /\ job' = [job EXCEPT ![e] = [state |-> "leased", holder |-> r]]
    /\ \E m \in Modes : run' = [run EXCEPT ![r] = [event |-> e, step |-> "read", enforce |-> m]]
    /\ UNCHANGED <<raw, due, present, counter, ledger>>

(* A job is claimed, or its expired lease taken over. *)
Claim(r, e) ==
    /\ run[r] = Idle
    /\ job[e].state \in {"pending", "leased"}
    /\ job' = [job EXCEPT ![e] = [state |-> "leased", holder |-> r]]
    /\ \E m \in Modes : run' = [run EXCEPT ![r] = [event |-> e, step |-> "read", enforce |-> m]]
    /\ UNCHANGED <<raw, due, present, counter, ledger>>

(* lock_lease *)
Holds(r) == job[run[r].event] = [state |-> "leased", holder |-> r]

(* The first read, outside any transaction, decides what is tried. *)
Read(r) ==
    /\ run[r].step = "read"
    /\ LET o == raw[run[r].event]
       IN  run' = [run EXCEPT ![r].step =
                     IF o.state # "deleting" THEN "record"
                     ELSE IF o.class # "expired" /\ ~run[r].enforce THEN "restore"
                     ELSE "delete"]
    /\ UNCHANGED <<raw, due, present, counter, ledger, job>>

(* Sampling was switched off: the object is taken back, unless it has       *)
(* expired in the meantime.                                                 *)
Restore(r) ==
    /\ run[r].step = "restore"
    /\ Holds(r)
    /\ LET e == run[r].event
       IN  IF raw[e] = [state |-> "deleting", class |-> "deleting"]
           THEN /\ raw' = [raw EXCEPT ![e] = [state |-> "stored", class |-> "standard"]]
                /\ job' = [job EXCEPT ![e] = [state |-> "completed", holder |-> None]]
                /\ run' = [run EXCEPT ![r] = Idle]
           ELSE /\ run' = [run EXCEPT ![r].step = "delete"]
                /\ UNCHANGED <<raw, job>>
    /\ UNCHANGED <<due, present, counter, ledger>>

(* Mutant of DeleteObject: an error of the store is taken for success. *)
DeleteObjectBlind(r) ==
    /\ run[r].step = "delete"
    /\ present' \in {present, present \ {run[r].event}}
    /\ run' = [run EXCEPT ![r].step = "record"]
    /\ UNCHANGED <<raw, due, counter, ledger, job>>

(* An error may be reported after the object is gone. *)
DeleteObject(r) ==
    /\ run[r].step = "delete"
    /\ \/ /\ present' = present \ {run[r].event}
          /\ run' = [run EXCEPT ![r].step = "record"]
       \/ /\ present' \in {present, present \ {run[r].event}}
          /\ run' = [run EXCEPT ![r].step = "error"]
    /\ UNCHANGED <<raw, due, counter, ledger, job>>

(* record_raw_deleted, if the object is still being deleted, and            *)
(* complete_job.                                                            *)
Record(r) ==
    /\ run[r].step = "record"
    /\ Holds(r)
    /\ LET e == run[r].event
       IN  /\ IF raw[e].state = "deleting"
              THEN /\ IF e \in ledger THEN UNCHANGED counter ELSE ApplyDelta(-1)
                   /\ ledger' = ledger \cup {e}
                   /\ raw' = [raw EXCEPT ![e] =
                                [state |-> "discarded",
                                 class |-> IF @.class = "expired" THEN "expired"
                                           ELSE "discarded"]]
              ELSE UNCHANGED <<counter, ledger, raw>>
           /\ job' = [job EXCEPT ![e] = [state |-> "completed", holder |-> None]]
    /\ run' = [run EXCEPT ![r] = Idle]
    /\ UNCHANGED <<due, present>>

(* A transient error: release_job, or finish_failure after the last         *)
(* attempt.                                                                 *)
Fail(r) ==
    /\ run[r].step \in {"read", "restore", "record", "error"}
    /\ Holds(r)
    /\ \E state \in {"pending", "dead"} :
          job' = [job EXCEPT ![run[r].event] = [state |-> state, holder |-> None]]
    /\ run' = [run EXCEPT ![r] = Idle]
    /\ UNCHANGED <<raw, due, present, counter, ledger>>

(* The process dies, or lock_lease finds the lease lost. *)
Stop(r) ==
    /\ run[r] # Idle
    /\ run' = [run EXCEPT ![r] = Idle]
    /\ UNCHANGED <<raw, due, present, counter, ledger, job>>

-----------------------------------------------------------------------------

Publish(e) ==
    \/ \E class \in {"standard", "kept"} : PublishKept(e, class)
    \/ PublishRecent(e)
    \/ PublishSampled(e)

RunStep(r) ==
    \/ \E e \in Events : Claim(r, e)
    \/ Read(r) \/ Restore(r) \/ DeleteObject(r) \/ Record(r)
    \/ Fail(r) \/ Stop(r)

Next ==
    \/ \E e \in Events : Accept(e) \/ Publish(e) \/ BecomeDue(e) \/ ExpireLegacy(e) \/ Expire(e)
    \/ Reconcile
    \/ \E r \in Runs : RunStep(r)

Spec == Init /\ [][Next]_vars

-----------------------------------------------------------------------------
(* Fairness.  The scheduler ticks every minute, workers keep claiming, and  *)
(* an operator reconciles before v2 is enabled.  A lost lease, an error of  *)
(* the store or a stopped process is not repeated for ever.                 *)

Fault(r) ==
    \/ Fail(r) /\ run[r].step # "error"
    \/ Stop(r) /\ Holds(r)
    \/ \E e \in Events : Claim(r, e) /\ \E q \in Runs : run[q].event = e /\ Holds(q)
    \/ DeleteObject(r) /\ run'[r].step = "error"

Progress ==
    \/ ~counter.reconciled /\ Reconcile
    \/ \E e \in Events : Expire(e)
    \/ \E r \in Runs : RunStep(r) /\ ~Fault(r)

Fairness == WF_vars(Progress) /\ <>[][~\E r \in Runs : Fault(r)]_vars

FairSpec == Spec /\ Fairness

-----------------------------------------------------------------------------
(* Properties.                                                              *)

(* Every variable has its type. *)
TypeOK ==
    /\ raw \in [Events -> Raw]
    /\ due \in SUBSET Events
    /\ present \in SUBSET Events
    /\ counter \in [retained : Nat, reconciled : BOOLEAN]
    /\ ledger \in SUBSET Events
    /\ job \in [Events -> Job]
    /\ run \in [Runs -> Run]

(* "Concurrent deletion ... and reconciliation finished with exact full-sum *)
(* totals and zero drift": once reconciled, the maintained counter is the   *)
(* sum over the objects, through restores, repeated runs and stale runs.    *)
CounterExact ==
    counter.reconciled => counter.retained = Cardinality(Retained(raw))

(* "A raw byte leaves the maintained total only after the object store      *)
(* confirms deletion": an object recorded as discarded is gone.             *)
ConfirmedDeletion ==
    \A e \in Events : raw[e].state = "discarded" => e \notin present

(* Every scheduler in use revives the job of an earlier deletion. *)
V2 == "legacy" \notin Schedulers

(* An object that is being deleted has a job that will delete it, or a dead *)
(* one to look at; also after it was restored and expired again.            *)
DeletionHasJob ==
    \A e \in Events : raw[e].state = "deleting" => job[e].state \in {"pending", "leased", "dead"}

(* Sampling keeps the newest: an event whose object it gives up is older    *)
(* than KeepRecent others of the issue whose objects are kept.              *)
NewestKept ==
    [][\A e \in Events :
          raw[e].class # "deleting" /\ raw'[e].class = "deleting" =>
              Cardinality({f \in Recent' : f > e}) >= KeepRecent]_vars

(* Sampling never holds more than KeepRecent recent objects. *)
RecentBounded == Cardinality(Recent) <= KeepRecent

(* The legacy scheduler expired an object that had been taken back from     *)
(* deletion: its job is completed and stays so.                             *)
Stranded(e) ==
    /\ "legacy" \in Schedulers
    /\ raw[e] = [state |-> "deleting", class |-> "expired"]
    /\ job[e].state = "completed"

(* An object past its deadline is deleted in the end, unless its job dies   *)
(* or the legacy scheduler stranded it: also when sampling had begun to     *)
(* delete it, the switch is turned, and runs stop and take each other over. *)
DueIsDeleted ==
    \A e \in Events :
        e \in due ~> raw[e].state = "discarded" \/ job[e].state = "dead" \/ Stranded(e)

-----------------------------------------------------------------------------
(* The inductive invariant.                                                 *)

(* Only finished deletions are in the ledger. *)
LedgerFinal == \A e \in ledger : raw[e].state = "discarded"

(* A job that can run or is running has an object to delete. *)
ActiveDeletes ==
    \A e \in Events : job[e].state \in {"pending", "leased"} => raw[e].state = "deleting"

(* What is not accepted, what sampling has still to decide and what it      *)
(* keeps as recent has no job.                                              *)
FreshHasNoJob ==
    \A e \in Events :
        raw[e].state = "absent" \/ raw[e].class \in {"pending", "recent"} => job[e].state = "absent"

(* A run has an event, and one that may record has deleted the object. *)
RecordIsConfirmed ==
    \A r \in Runs :
        /\ run[r].step # "idle" => run[r].event # None
        /\ run[r].step = "record" /\ Holds(r) => run[r].event \notin present

IInv ==
    /\ TypeOK
    /\ LedgerFinal
    /\ ActiveDeletes
    /\ FreshHasNoJob
    /\ RecordIsConfirmed
    /\ CounterExact
    /\ ConfirmedDeletion
    /\ V2 => DeletionHasJob
    /\ RecentBounded
=============================================================================
