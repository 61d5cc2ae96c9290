--------------------------- MODULE Reprocessing ---------------------------
(***************************************************************************)
(* Reprocessing requests and event generations (apps/server/src/worker.rs, *)
(* apps/server/src/reprocessing.rs), for the events of one project.        *)
(*                                                                         *)
(* A request selects events page by page under a lease of its own.  Each   *)
(* selected event gets a row in crash_reprocessing_request_events with the *)
(* generation it needs, and the event's one process_crash job is sent      *)
(* round again.  Whatever a job does to those rows ends in                 *)
(* refresh_reprocessing_request, which recomputes the request's state from *)
(* them.                                                                   *)
(*                                                                         *)
(* PostgreSQL runs these transactions at READ COMMITTED.  The refresh      *)
(* computes from the snapshot its statement starts with and may then wait  *)
(* for the request row; when it goes on it writes what it computed.  So a  *)
(* transaction that refreshes is two steps here: Begin takes the snapshot, *)
(* Commit makes everything visible.  In between it holds its job row, the  *)
(* request-event rows it changed and, if it claims or publishes, the       *)
(* project row.                                                            *)
(*                                                                         *)
(* Fencing is JobQueue's subject (ImplementsLeaseQueue): a run that lost   *)
(* its lease writes nothing, so only the holder's transactions appear      *)
(* here, and taking over an expired lease is a claim of a leased job.      *)
(***************************************************************************)
EXTENDS Integers, FiniteSets

CONSTANTS
    NumEvents,      \* events are numbered in selection order
    Requests,       \* request rows
    Automatic,      \* requests with source = 'automatic'
    Scope,          \* [Requests -> SUBSET Events]: what a request's query matches
    Limit,          \* AUTOMATIC_REPROCESSING_BATCH and request_limit
    MaxActive,      \* MAX_ACTIVE_MANUAL_REQUESTS
    Settings,       \* max_attempt of the requests, and events with a raw object to delete
    Workers,        \* worker processes, also their request leases
    None

Events == 1..NumEvents
Kinds == {"process_crash", "delete_raw"}
Manual == Requests \ Automatic

ASSUME ConstantsAssumption ==
    /\ NumEvents \in Nat
    /\ Automatic \subseteq Requests
    /\ Scope \in [Requests -> SUBSET Events]
    /\ Limit \in Nat \ {0}
    /\ MaxActive \in Nat \ {0}
    /\ Settings \subseteq [attempts : Nat \ {0}, raw : SUBSET Events]

VARIABLES
    request,   \* [Requests -> Request]: crash_reprocessing_requests
    event,     \* [Events -> Event]: generations of crash_events
    item,      \* [Requests -> [Events -> Item]]: crash_reprocessing_request_events
    job,       \* [Kinds -> [Events -> Job]]: the event's jobs
    tx,        \* [Kinds -> [Events -> Tx]]: the transaction open on each job
    sched      \* [Workers -> Sched]: the request a worker is scheduling

vars == <<request, event, item, job, tx, sched>>

Finished == {"completed", "partial", "failed"}
States == {"absent", "pending", "scheduling", "running"} \cup Finished
Unfinished == {"queued", "running"}

Row == [state : States,
        lease : Workers \cup {None},       \* lease_token
        expired : BOOLEAN,                 \* lease_expires_at <= now()
        attempt : Nat,
        maxAttempt : Nat \ {0},            \* max_attempt
        cursor : 0..NumEvents,             \* selection_cursor_event_id, 0 for NULL
        complete : BOOLEAN,                \* selection_complete
        failure : BOOLEAN]                 \* failure_code IS NOT NULL

Request == {q \in Row : q.attempt <= q.maxAttempt}

Event == [requested : Nat, completed : Nat,
          raw : BOOLEAN]                     \* raw_delete_after is set

Item == [state : {"absent", "completed", "failed"} \cup Unfinished,
         generation : Nat]

Job == [state : {"absent", "pending", "leased", "done"}, target : Nat]

Ops == {"claim", "release", "publish", "fail"}

ASSUME NoneAssumption == None \notin Workers \cup States \cup Ops

Tx == [op : Ops \cup {None},
       view : [Requests -> States \cup {None}]]  \* the states the refreshes will write

Idle == [request |-> None, cursor |-> 0, attempt |-> 0, exhausted |-> FALSE]

NoTx == [op |-> None, view |-> [r \in Requests |-> None]]

NoItem == [state |-> "absent", generation |-> 0]

NoRequest(max) == [state |-> "absent", lease |-> None, expired |-> FALSE, attempt |-> 0,
                   maxAttempt |-> max, cursor |-> 0, complete |-> FALSE, failure |-> FALSE]

(* Every event has been accepted: complete_event inserted its process_crash *)
(* job in the same transaction.  A behaviour keeps the setting it starts    *)
(* with.                                                                    *)
Init ==
    /\ \E s \in Settings :
          /\ request = [r \in Requests |-> NoRequest(s.attempts)]
          /\ event = [e \in Events |-> [requested |-> 0, completed |-> 0, raw |-> e \in s.raw]]
    /\ item = [r \in Requests |-> [e \in Events |-> NoItem]]
    /\ job = [k \in Kinds |-> [e \in Events |->
                [state |-> IF k = "process_crash" THEN "pending" ELSE "absent",
                 target |-> 0]]]
    /\ tx = [k \in Kinds |-> [e \in Events |-> NoTx]]
    /\ sched = [w \in Workers |-> Idle]

-----------------------------------------------------------------------------
(* refresh_reprocessing_request *)

Number(rows, state) == Cardinality({e \in Events : rows[e].state = state})

(* Mutant of RefreshedState: a request is over once nothing is queued. *)
RefreshedEarly(q, rows) ==
    IF ~q.complete THEN q.state
    ELSE IF ~q.failure /\ Number(rows, "queued") > 0 THEN "running"
    ELSE IF q.failure \/ Number(rows, "failed") > 0
         THEN IF Number(rows, "completed") > 0 THEN "partial" ELSE "failed"
    ELSE "completed"

RefreshedState(q, rows) ==
    IF ~q.complete THEN q.state
    ELSE IF ~q.failure /\ Number(rows, "queued") + Number(rows, "running") > 0
         THEN "running"
    ELSE IF q.failure \/ Number(rows, "failed") > 0
         THEN IF Number(rows, "completed") > 0 THEN "partial" ELSE "failed"
    ELSE "completed"

Refresh(q, rows) == [q EXCEPT !.state = RefreshedState(q, rows)]

(* The table's CHECK on the lease columns. *)
LeaseCheck(q) == q.state = "scheduling" <=> q.lease # None

(* Claims, publications and create_request lock the project row.            *)
ProjectLocked ==
    \E k \in Kinds, e \in Events : tx[k][e].op \in {"claim", "publish"}

-----------------------------------------------------------------------------
(* Requests.                                                                *)

ActiveManual == {r \in Manual : request[r].state \in {"pending", "scheduling", "running"}}

(* create_request under its idempotency key, and the automatic requests of  *)
(* artifact publication and data rules: a second insert changes nothing.    *)
Create(r) ==
    /\ request[r].state = "absent"
    /\ r \in Manual => ~ProjectLocked /\ Cardinality(ActiveManual) < MaxActive
    /\ request' = [request EXCEPT ![r].state = "pending"]
    /\ UNCHANGED <<event, item, job, tx, sched>>

(* Mutant of Claimable: an expired lease is not taken over. *)
ClaimablePending(q) == q.state = "pending" /\ q.attempt < q.maxAttempt

Claimable(q) ==
    \/ q.state = "pending" /\ q.attempt < q.maxAttempt
    \/ q.state = "scheduling" /\ q.expired

Exhausted(q) == q.state = "scheduling" /\ q.attempt >= q.maxAttempt

(* claim_reprocessing_request: SKIP LOCKED on the project row and the       *)
(* request row.                                                             *)
ClaimRequest(w, r) ==
    /\ sched[w] = Idle
    /\ ~ProjectLocked
    /\ Claimable(request[r])
    /\ LET exhausted == Exhausted(request[r])
           attempt == request[r].attempt + (IF exhausted THEN 0 ELSE 1)
       IN  /\ request' = [request EXCEPT ![r] =
                            [@ EXCEPT !.state = "scheduling", !.attempt = attempt,
                                      !.lease = w, !.expired = FALSE]]
           /\ sched' = [sched EXCEPT ![w] =
                          [request |-> r, cursor |-> request[r].cursor,
                           attempt |-> attempt, exhausted |-> exhausted]]
    /\ UNCHANGED <<event, item, job, tx>>

(* lock_reprocessing_request *)
HoldsRequest(w) ==
    /\ sched[w] # Idle
    /\ request[sched[w].request].lease = w
    /\ ~request[sched[w].request].expired

(* The events the request's query returns after the cursor, and those kept  *)
(* after truncation to the limit.                                           *)
Candidates(r, cursor) == {e \in Scope[r] : e > cursor}

Page(r, cursor) ==
    {e \in Candidates(r, cursor) :
        Cardinality({f \in Candidates(r, cursor) : f < e}) < Limit}

RunningGenerations(e) ==
    {item[r][e].generation : r \in {q \in Requests : item[q][e].state = "running"}}

(* schedule_reprocessing_events: the generation a newly selected event      *)
(* needs.  Under a lease, the running rows tell the generation in flight.   *)
NextGeneration(e) ==
    LET behind == IF job["process_crash"][e].state = "leased"
                  THEN \E g \in RunningGenerations(e) \cup {0} : event[e].requested <= g
                  ELSE event[e].requested <= event[e].completed
    IN  event[e].requested + (IF behind THEN 1 ELSE 0)

(* Mutant of Scheduled: an automatic request stops after its first page. *)
ScheduledOnce(q, truncated, cursor) ==
    [q EXCEPT !.state = "running", !.complete = TRUE, !.lease = None, !.failure = FALSE]

(* release_reprocessing_request_page and complete_reprocessing_selection *)
Scheduled(q, truncated, cursor) ==
    IF truncated
    THEN [q EXCEPT !.state = "pending", !.cursor = cursor, !.attempt = 0,
                   !.lease = None, !.failure = FALSE]
    ELSE [q EXCEPT !.state = "running", !.complete = TRUE,
                   !.lease = None, !.failure = FALSE]

(* expand_reprocessing_request.  It holds the request row from the start    *)
(* and waits for the job rows of its page.                                  *)
Expand(w) ==
    /\ HoldsRequest(w)
    /\ ~sched[w].exhausted
    /\ LET r == sched[w].request
           page == Page(r, sched[w].cursor)
           new == {e \in page : item[r][e].state = "absent"}
           truncated == r \in Automatic /\ page # Candidates(r, sched[w].cursor)
           last == CHOOSE e \in page \cup {0} : \A f \in page : f <= e
           rows == [e \in Events |->
                      IF e \in new
                      THEN [state |-> "queued", generation |-> NextGeneration(e)]
                      ELSE item[r][e]]
       IN  /\ \A e \in page : tx["process_crash"][e].op = None
           /\ item' = [item EXCEPT ![r] = rows]
           /\ event' = [e \in Events |->
                          IF e \in new
                          THEN [event[e] EXCEPT !.requested = NextGeneration(e)]
                          ELSE event[e]]
           /\ job' = [job EXCEPT !["process_crash"] =
                        [e \in Events |->
                           IF e \in new /\ @[e].state # "leased"
                           THEN [state |-> "pending", target |-> 0] ELSE @[e]]]
           /\ request' = [request EXCEPT ![r] =
                            Refresh(Scheduled(@, truncated, last), rows)]
    /\ sched' = [sched EXCEPT ![w] = Idle]
    /\ UNCHANGED tx

(* finish_reprocessing_schedule_failure, after an error or for an exhausted *)
(* request; it too needs the lease.                                         *)
ScheduleFailure(w) ==
    /\ sched[w] # Idle
    /\ LET r == sched[w].request
       IN  request' =
             IF ~HoldsRequest(w) THEN request
             ELSE IF sched[w].attempt < request[r].maxAttempt
             THEN [request EXCEPT ![r] = [@ EXCEPT !.state = "pending", !.lease = None,
                                                   !.failure = TRUE]]
             ELSE [request EXCEPT ![r] =
                     Refresh([@ EXCEPT !.state = "failed", !.complete = TRUE,
                                       !.lease = None, !.failure = TRUE], item[r])]
    /\ sched' = [sched EXCEPT ![w] = Idle]
    /\ UNCHANGED <<event, item, job, tx>>

(* The worker dies, or loses the database, while it schedules. *)
CrashScheduler(w) ==
    /\ sched[w] # Idle
    /\ sched' = [sched EXCEPT ![w] = Idle]
    /\ UNCHANGED <<request, event, item, job, tx>>

ExpireRequest(r) ==
    /\ request[r].lease # None
    /\ ~request[r].expired
    /\ request' = [request EXCEPT ![r].expired = TRUE]
    /\ UNCHANGED <<event, item, job, tx, sched>>

-----------------------------------------------------------------------------
(* Jobs.  The request-event rows each operation changes, and to what.       *)

From(op) == CASE op = "claim" -> {"queued"}
              [] op = "release" -> {"running"}
              [] OTHER -> Unfinished

To(op) == CASE op = "claim" -> "running"
            [] op = "release" -> "queued"
            [] op = "publish" -> "completed"
            [] op = "fail" -> "failed"

(* A claim snapshots the requested generation; the others use the lease's.  *)
Generation(k, e, op) == IF op = "claim" THEN event[e].requested ELSE job[k][e].target

(* mark_reprocessing_events_running and release_job reach the rows from     *)
(* either kind of job, publication and failure only from process_crash.     *)
Touched(k, e, op) ==
    {r \in Requests :
        /\ k = "process_crash" \/ op \in {"claim", "release"}
        /\ item[r][e].state \in From(op)
        /\ item[r][e].generation <= Generation(k, e, op)}

(* The row locks the transaction needs before it can refresh. *)
Allowed(k, e, op) ==
    /\ tx[k][e].op = None
    /\ job[k][e].state \in (IF op = "claim" THEN {"pending", "leased"} ELSE {"leased"})
    /\ op = "claim" \/ (op = "publish" /\ k = "process_crash") => ~ProjectLocked
    /\ \A r \in Touched(k, e, op), other \in Kinds : tx[other][e].view[r] = None

(* Mutant of Closes: a newer generation does not send the job round again. *)
ClosesAlways(k, e) == "done"

Closes(k, e) ==
    IF k = "process_crash" /\ event[e].requested > job[k][e].target THEN "pending" ELSE "done"

(* What the transaction makes visible: the job, the event's completed       *)
(* generation, the request-event rows and the refreshed requests.           *)
Apply(k, e, op, view) ==
    LET touched == {r \in Requests : view[r] # None}
        target == Generation(k, e, op)
    IN  /\ job' = [job EXCEPT ![k][e] =
                     CASE op = "claim" -> [state |-> "leased", target |-> target]
                       [] op = "release" -> [state |-> "pending", target |-> 0]
                       [] OTHER -> [state |-> Closes(k, e), target |-> 0]]
        /\ event' = IF k = "process_crash" /\ op \in {"publish", "fail"}
                           /\ target > event[e].completed
                    THEN [event EXCEPT ![e].completed = target] ELSE event
        /\ item' = [r \in Requests |->
                      [item[r] EXCEPT ![e].state = IF r \in touched THEN To(op) ELSE @]]
        /\ request' = [r \in Requests |->
                         IF r \in touched THEN [request[r] EXCEPT !.state = view[r]]
                         ELSE request[r]]

(* A transaction that refreshes no request. *)
Plain(k, e, op) ==
    /\ Allowed(k, e, op)
    /\ Touched(k, e, op) = {}
    /\ Apply(k, e, op, NoTx.view)
    /\ UNCHANGED <<tx, sched>>

Begin(k, e, op) ==
    /\ Allowed(k, e, op)
    /\ Touched(k, e, op) # {}
    /\ tx' = [tx EXCEPT ![k][e] =
                [op |-> op,
                 view |-> [r \in Requests |->
                             IF r \in Touched(k, e, op)
                             THEN RefreshedState(request[r], [item[r] EXCEPT ![e].state = To(op)])
                             ELSE None]]]
    /\ UNCHANGED <<request, event, item, job, sched>>

Checked(k, e) ==
    \A r \in Requests :
        tx[k][e].view[r] # None => LeaseCheck([request[r] EXCEPT !.state = tx[k][e].view[r]])

Commit(k, e) ==
    /\ tx[k][e].op # None
    /\ Checked(k, e)
    /\ Apply(k, e, tx[k][e].op, tx[k][e].view)
    /\ tx' = [tx EXCEPT ![k][e] = NoTx]
    /\ UNCHANGED sched

(* The CHECK refuses the refresh, or the database fails: nothing happened.  *)
Rollback(k, e) ==
    /\ tx[k][e].op # None
    /\ tx' = [tx EXCEPT ![k][e] = NoTx]
    /\ UNCHANGED <<request, event, item, job, sched>>

(* Retention inserts the delete_raw job of an event. *)
EnqueueDeletion(e) ==
    /\ event[e].raw
    /\ job["delete_raw"][e].state = "absent"
    /\ job' = [job EXCEPT !["delete_raw"][e].state = "pending"]
    /\ UNCHANGED <<request, event, item, tx, sched>>

-----------------------------------------------------------------------------

RequestStep(r) == Create(r) \/ ExpireRequest(r)

WorkerStep(w) ==
    \/ \E r \in Requests : ClaimRequest(w, r)
    \/ Expand(w)
    \/ ScheduleFailure(w)
    \/ CrashScheduler(w)

JobStep(k, e) ==
    \/ \E op \in Ops : Plain(k, e, op) \/ Begin(k, e, op)
    \/ Commit(k, e)
    \/ Rollback(k, e)

Next ==
    \/ \E r \in Requests : RequestStep(r)
    \/ \E w \in Workers : WorkerStep(w)
    \/ \E k \in Kinds, e \in Events : JobStep(k, e)
    \/ \E e \in Events : EnqueueDeletion(e)

Spec == Init /\ [][Next]_vars

-----------------------------------------------------------------------------
(* Fairness.  The worker loop keeps claiming requests and jobs and finishes *)
(* what it claimed, and an abandoned lease runs out.  Crashes, errors,      *)
(* leases lost at work and runs that are released for a retry or a missing  *)
(* dependency do not go on for ever.                                        *)

(* A worker's lease that the worker is still using. *)
InUse(r) == \E w \in Workers : sched[w].request = r /\ HoldsRequest(w)

Ends(k, e) == \E op \in {"publish", "fail"} : Plain(k, e, op) \/ Begin(k, e, op)

(* The run of a job is over for a reason other than its own end. *)
Interrupted(k, e) ==
    \/ /\ job[k][e].state = "leased" /\ ~Ends(k, e)
       /\ \E op \in {"claim", "release"} : Plain(k, e, op) \/ Begin(k, e, op)
    \/ Checked(k, e) /\ Rollback(k, e)

Fault ==
    \/ \E w \in Workers : HoldsRequest(w) /\ ~sched[w].exhausted /\ ScheduleFailure(w)
    \/ \E w \in Workers : HoldsRequest(w) /\ CrashScheduler(w)
    \/ \E r \in Requests : InUse(r) /\ ExpireRequest(r)
    \/ \E k \in Kinds, e \in Events : Interrupted(k, e)

(* The scheduling of requests, which row locks of the jobs' transactions can *)
(* hold up again and again; the runs of jobs; the end of a transaction.     *)
Schedules ==
    \/ \E r \in Requests : ~InUse(r) /\ ExpireRequest(r)
    \/ \E w \in Workers :
          \/ \E r \in Requests : ClaimRequest(w, r)
          \/ Expand(w)
          \/ (sched[w].exhausted \/ ~HoldsRequest(w)) /\ ScheduleFailure(w)

Works ==
    \E k \in Kinds, e \in Events :
        \/ job[k][e].state = "pending" /\ (Plain(k, e, "claim") \/ Begin(k, e, "claim"))
        \/ Ends(k, e)

Decides(k, e) == IF Checked(k, e) THEN Commit(k, e) ELSE Rollback(k, e)

Fairness ==
    /\ SF_vars(Schedules)
    /\ WF_vars(Works)
    /\ \A k \in Kinds, e \in Events : WF_vars(Decides(k, e))
    /\ <>[][~Fault]_vars

FairSpec == Spec /\ Fairness

-----------------------------------------------------------------------------
(* Properties.                                                              *)

(* Every variable has its type; no request has been claimed more often than *)
(* its max_attempt allows.                                                  *)
TypeOK ==
    /\ request \in [Requests -> Request]
    /\ event \in [Events -> Event]
    /\ item \in [Requests -> [Events -> Item]]
    /\ job \in [Kinds -> [Events -> Job]]
    /\ tx \in [Kinds -> [Events -> Tx]]
    /\ sched \in [Workers -> [request : Requests \cup {None}, cursor : 0..NumEvents,
                              attempt : Nat, exhausted : BOOLEAN]]

(* No generation is lost: a request-event row that is not finished needs a  *)
(* generation that was requested and is not completed, and the event's job  *)
(* is pending or leased, so it will be processed.  The repair query of      *)
(* reconcile_reprocessing_event_jobs therefore never finds a row.           *)
NoLostGeneration ==
    \A r \in Requests, e \in Events :
        item[r][e].state \in Unfinished =>
            /\ event[e].completed < item[r][e].generation
            /\ item[r][e].generation <= event[e].requested
            /\ job["process_crash"][e].state \in {"pending", "leased"}

(* A finished selection is the right one: an automatic request that did not *)
(* fail has a row for every event of its scope, a manual one for the first  *)
(* `limit` of them and no other, through lost leases, retries and pages.    *)
SelectionExact ==
    \A r \in Requests :
        /\ {e \in Events : item[r][e].state # "absent"} \subseteq Scope[r]
        /\ request[r].complete /\ ~request[r].failure =>
              {e \in Events : item[r][e].state # "absent"} =
                  IF r \in Automatic THEN Scope[r] ELSE Page(r, 0)

(* A request that is reported completed is: its selection is complete and   *)
(* every row is, although refreshes overwrite each other.                   *)
CompletedIsTrue ==
    \A r \in Requests :
        request[r].state = "completed" =>
            /\ request[r].complete
            /\ \A e \in Events : item[r][e].state \in {"absent", "completed"}

(* Every request comes to its end: its selection is complete and each event *)
(* it selected is processed or failed for it, through lost request leases,  *)
(* retries, rollbacks, newer generations and refreshes that write the state *)
(* back while pages are still to come.                                      *)
RequestsFinish ==
    \A r \in Requests :
        request[r].state = "pending" ~>
            request[r].complete /\ \A e \in Events : item[r][e].state \notin Unfinished
=============================================================================
