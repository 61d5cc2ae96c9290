------------------------------ MODULE Pipeline ------------------------------
(***************************************************************************)
(* From a stored crash to the result its reader sees.  The worker          *)
(* processes an event, and does so again whenever an artifact it waits for *)
(* arrives or the project's data rules change (worker.rs, reprocessing.rs, *)
(* data_rules.rs, crates/processing, crates/symbols).                      *)
(*                                                                         *)
(* This module composes what JobQueue, Reprocessing and SymbolUpload look  *)
(* at one by one.  A job is pending, leased or done; a run whose lease     *)
(* lapses is dropped, because JobQueue shows that it can publish nothing.  *)
(* A request selects its events in one step.                               *)
(*                                                                         *)
(* All events have the same modules, frames in each of them and the same   *)
(* release; each module has one exact executable and one exact PDB, files  *)
(* of the first matching release.  A result is what the processor reports  *)
(* of every module, the history of such reports, and the version of the    *)
(* data rules it was redacted with.  Rules later than version 0 match the  *)
(* source paths of resolved frames, and symbols that match resolve some.   *)
(***************************************************************************)
EXTENDS Naturals, Sequences

CONSTANTS
    Events,
    Modules,
    MaxHistory,     \* MAX_PROCESSING_HISTORY
    Budgets         \* bounds: what arrives, and how often something fails

Artifacts == Modules \X {"pe", "pdb"}

Budget == [events : SUBSET Events, artifacts : SUBSET Artifacts,
           rules : Nat, releases : Nat, faults : Nat]

ASSUME PipelineAssumption ==
    /\ MaxHistory \in Nat \ {0}
    /\ Budgets \subseteq Budget

VARIABLES
    rules,      \* project_data_rules.version
    releases,   \* how many releases match the crash's build
    available,  \* release_manifest_artifacts with state available
    cache,      \* [Modules -> state] of derived_symbol_caches
    cachejob,   \* [Modules -> state] of its generate_symcache job
    event,      \* rows of crash_events, with their result and waiters
    job,        \* [Events -> [state, newer]]: process_crash jobs
    run,        \* [Events -> Run]: process_crash in progress
    requests,   \* automatic requests that have not selected their events
    digests,    \* idempotency digests of all requests
    budget

vars == <<rules, releases, available, cache, cachejob, event, job, run,
          requests, digests, budget>>

files == <<releases, available>>
caches == <<cache, cachejob>>
queue == <<requests, digests>>

Statuses == {"missing_pe", "missing_pdb", "matched"}
Report == [status : [Modules -> Statuses], masked : BOOLEAN]
Result == [rules : Nat, report : Report, history : Seq(Report)]

(* result: <<>> or one <<result>>.  seen and failed are history: what the   *)
(* last run found in the manifest, and whether it failed.                   *)
Event == [state : {"received", "awaiting_symbols", "processed", "failed"},
          result : Seq(Result),
          mapping : {"none", "missing", "ambiguous", "matched"},
          waiters : SUBSET Artifacts, seen : SUBSET Artifacts, failed : BOOLEAN]

Run == [phase : {"idle", "resolve", "select", "cache", "enqueue", "analyze", "publish"},
        mapping : {"none", "missing", "ambiguous", "matched"},
        files : SUBSET Artifacts, todo : SUBSET Modules, ready : SUBSET Modules,
        status : [Modules -> Statuses]]

(* What the processor reports when it is given no symbols. *)
NothingFound == [m \in Modules |-> "missing_pe"]

IdleRun == [phase |-> "idle", mapping |-> "none", files |-> {}, todo |-> {}, ready |-> {},
            status |-> NothingFound]

NewEvent == [state |-> "received", result |-> <<>>, mapping |-> "none", waiters |-> {},
             seen |-> {}, failed |-> FALSE]

Init ==
    /\ rules = 0
    /\ releases = 0
    /\ available = {}
    /\ cache = [m \in Modules |-> "absent"]
    /\ cachejob = [m \in Modules |-> "none"]
    /\ event = <<>>
    /\ job = [e \in Events |-> [state |-> "none", newer |-> FALSE]]
    /\ run = [e \in Events |-> IdleRun]
    /\ requests = {}
    /\ digests = {}
    /\ budget \in Budgets

Spend(kind) ==
    /\ budget[kind] > 0
    /\ budget' = [budget EXCEPT ![kind] = @ - 1]

NewRequest(scope, rows) ==
    [scope |-> scope, events |-> DOMAIN rows,
     waits |-> {e \in DOMAIN rows : rows[e].waiters # {}}]

(* Mutant of Enqueue: every insert makes a request. *)
EnqueueAgain(digest, scope, rows, others) ==
    /\ digests' = digests \cup {digest}
    /\ requests' = others \cup {NewRequest(scope, rows)}

(* An automatic request.  selection_before fixes the events and the waiters *)
(* that are old enough to be selected; ON CONFLICT DO NOTHING.              *)
Enqueue(digest, scope, rows, others) ==
    /\ digests' = digests \cup {digest}
    /\ requests' = others \cup (IF digest \in digests THEN {} ELSE {NewRequest(scope, rows)})

-----------------------------------------------------------------------------
(* What arrives from outside.                                               *)

(* Ingest stores a crash and its job. *)
Receive(e) ==
    /\ e \in budget.events
    /\ e \notin DOMAIN event
    /\ event' = [x \in DOMAIN event \cup {e} |-> IF x = e THEN NewEvent ELSE event[x]]
    /\ job' = [job EXCEPT ![e].state = "pending"]
    /\ UNCHANGED <<rules, files, caches, run, queue, budget>>

CreateRelease ==
    /\ Spend("releases")
    /\ releases' = releases + 1
    /\ UNCHANGED <<rules, available, caches, event, job, run, queue>>

(* The indexing job publishes an artifact and enqueue_artifact_request. *)
PublishArtifact(a) ==
    /\ releases > 0
    /\ a \in budget.artifacts \ available
    /\ available' = available \cup {a}
    /\ Enqueue(<<"artifact", a>>, [kind |-> "artifact", art |-> a], event, requests)
    /\ UNCHANGED <<rules, releases, caches, event, job, run, budget>>

(* Mutant of UpdateDataRules: one digest for all versions. *)
UpdateDataRulesOnce ==
    /\ Spend("rules")
    /\ rules' = rules + 1
    /\ Enqueue(<<"rules">>, [kind |-> "rules", version |-> rules + 1], event, requests)
    /\ UNCHANGED <<files, caches, event, job, run>>

(* update_data_rules, with rules that differ from the current ones. *)
UpdateDataRules ==
    /\ Spend("rules")
    /\ rules' = rules + 1
    /\ Enqueue(<<"rules", rules + 1>>, [kind |-> "rules", version |-> rules + 1], event, requests)
    /\ UNCHANGED <<files, caches, event, job, run>>

-----------------------------------------------------------------------------
(* Requests.                                                                *)

(* automatic_reprocessing_candidates.  Only the first release's files are   *)
(* ever published.  A project whose rules mask the build version would lose *)
(* the second case; these rules do not.                                     *)
Candidates(q) ==
    IF q.scope.kind = "artifact"
    THEN {e \in q.waits : /\ event[e].state = "awaiting_symbols"
                          /\ q.scope.art \in event[e].waiters}
         \cup {e \in q.events : /\ event[e].mapping \in {"missing", "ambiguous"}
                                /\ event[e].result # <<>>}
    ELSE {e \in q.events : /\ event[e].result # <<>>
                           /\ event[e].result[1].rules < q.scope.version}

(* A new generation: a leased job will be sent round again. *)
Reactivated(j) ==
    IF j.state = "leased" THEN [j EXCEPT !.newer = TRUE]
    ELSE [state |-> "pending", newer |-> FALSE]

Materialize(q) ==
    /\ q \in requests
    /\ requests' = requests \ {q}
    /\ job' = [e \in Events |-> IF e \in Candidates(q) THEN Reactivated(job[e]) ELSE job[e]]
    /\ UNCHANGED <<rules, files, caches, event, run, digests, budget>>

-----------------------------------------------------------------------------
(* process_crash.                                                           *)

At(e, phase) == run[e].phase = phase

Unfinished == UNCHANGED <<rules, files, event, queue, budget>>

(* ReleaseResolution::state *)
Mapping == CASE releases = 0 -> "missing"
             [] releases = 1 -> "matched"
             [] OTHER -> "ambiguous"

(* SelectedArtifact::matches_module, of a matched release's manifest.       *)
Matching(mapping) == IF mapping = "matched" THEN available ELSE {}

(* Lease, download, and the first run of the processor: with no symbols it  *)
(* reports every module as missing_pe.                                      *)
Claim(e) ==
    /\ job[e].state = "pending"
    /\ job' = [job EXCEPT ![e] = [state |-> "leased", newer |-> FALSE]]
    /\ run' = [run EXCEPT ![e].phase = "resolve"]
    /\ UNCHANGED caches
    /\ Unfinished

ResolveRelease(e) ==
    /\ At(e, "resolve")
    /\ run' = [run EXCEPT ![e].phase = "select", ![e].mapping = Mapping]
    /\ UNCHANGED <<job, caches>>
    /\ Unfinished

(* materialize_symbols: the manifest is read once, PE files are downloaded. *)
Select(e) ==
    /\ At(e, "select")
    /\ LET found == Matching(run[e].mapping)
           pdbs == {m \in Modules : <<m, "pdb">> \in found}
       IN  run' = [run EXCEPT ![e].files = found, ![e].todo = pdbs,
                              ![e].phase = IF pdbs = {} THEN "publish" ELSE "cache"]
    /\ UNCHANGED <<job, caches>>
    /\ Unfinished

(* The first statement of ensure_cache, and what its state decides.  When   *)
(* no cache is ready the first inspection is what gets published.           *)
EnsureCache(e, m) ==
    /\ At(e, "cache")
    /\ m \in run[e].todo
    /\ LET left == run[e].todo \ {m}
           ready == run[e].ready \cup (IF cache[m] = "available" THEN {m} ELSE {})
       IN  \/ /\ cache[m] \in {"available", "failed"}
              /\ run' = [run EXCEPT ![e].todo = left, ![e].ready = ready,
                                    ![e].phase = IF left # {} THEN "cache"
                                                 ELSE IF ready # {} THEN "analyze"
                                                 ELSE "publish"]
              /\ UNCHANGED cache
           \/ /\ cache[m] \in {"absent", "pending", "processing"}
              /\ cache' = [cache EXCEPT ![m] = IF @ = "absent" THEN "pending" ELSE @]
              /\ run' = [run EXCEPT ![e].todo = {m}, ![e].phase = "enqueue"]
    /\ UNCHANGED <<job, cachejob>>
    /\ Unfinished

Released(j) == [state |-> "pending", newer |-> FALSE]

(* The second statement of ensure_cache: ON CONFLICT (idempotency_key).     *)
CacheJobFor(m) == IF cachejob[m] = "none" THEN "pending" ELSE cachejob[m]

(* ... and wait_for_dependency: the job is released, its attempt refunded.  *)
WaitForDependency(e) ==
    /\ At(e, "enqueue")
    /\ \E m \in run[e].todo : cachejob' = [cachejob EXCEPT ![m] = CacheJobFor(m)]
    /\ job' = [job EXCEPT ![e] = Released(@)]
    /\ run' = [run EXCEPT ![e] = IdleRun]
    /\ UNCHANGED cache
    /\ Unfinished

(* Mutant of Chosen: one symcache that is missing spoils the others. *)
ChosenTogether(m, pes, ready) ==
    CASE <<m, "pe">> \notin pes -> "missing_pe"
      [] <<m, "pe">> \in pes /\ (\E n \in Modules : <<n, "pdb">> \in pes /\ n \notin ready) -> "missing_pdb"
      [] OTHER -> "matched"

(* choose_artifacts: an executable first, then the symbols that match it.   *)
Chosen(m, pes, ready) ==
    CASE <<m, "pe">> \notin pes -> "missing_pe"
      [] <<m, "pe">> \in pes /\ m \notin ready -> "missing_pdb"
      [] OTHER -> "matched"

(* The second run of the processor, with executables and symcaches. *)
Analyze(e) ==
    /\ At(e, "analyze")
    /\ run' = [run EXCEPT ![e].phase = "publish",
                          ![e].status = [m \in Modules |-> Chosen(m, run[e].files, run[e].ready)]]
    /\ UNCHANGED <<job, caches>>
    /\ Unfinished

(* has_resolved_frame: the symbols of a matched module resolve some frame. *)
Readable(status) == \E m \in Modules : status[m] = "matched"

(* build_processing_result: the previous report moves to the history when   *)
(* it differs from the new one.  It was redacted when it was published, the *)
(* new one is not redacted yet.                                             *)
History(previous, report) ==
    IF previous = <<>> THEN <<>>
    ELSE LET old == previous[1].history
         IN  IF previous[1].report = report THEN old
             ELSE Append(IF Len(old) = MaxHistory THEN Tail(old) ELSE old,
                         previous[1].report)

(* symbol_waiters *)
Waiters(state, mapping, status) ==
    IF state = "awaiting_symbols" /\ mapping = "matched"
    THEN {<<m, "pe">> : m \in {n \in Modules : status[n] = "missing_pe"}}
         \cup {<<m, "pdb">> : m \in {n \in Modules : status[n] = "missing_pdb"}}
    ELSE {}

(* redact_and_index *)
Redacted(status, version) ==
    [status |-> status, masked |-> version > 0 /\ Readable(status)]

(* The row that the event becomes under the rules of that version. *)
Published(e, version) ==
    LET status == run[e].status
        state == IF Readable(status) THEN "processed" ELSE "awaiting_symbols"
    IN  [state |-> state,
         result |-> <<[rules |-> version, report |-> Redacted(status, version),
                       history |-> History(event[e].result, Redacted(status, 0))]>>,
         mapping |-> run[e].mapping,
         waiters |-> Waiters(state, run[e].mapping, status),
         seen |-> run[e].files, failed |-> FALSE]

(* complete_job, terminal_job, or requeue_job_for_new_generation *)
Closed(j) == [state |-> IF j.newer THEN "pending" ELSE "done", newer |-> FALSE]

(* Waiters that are written again are younger than every older request. *)
Renewed(e) == {[q EXCEPT !.waits = @ \ {e}] : q \in requests}

(* Mutant of CatchUp: none. *)
CatchUpNever(e, row) == requests' = Renewed(e) /\ UNCHANGED digests

(* enqueue_waiter_catchup_requests looks at the first of the artifacts that *)
(* the new waiters name and that are available already.                     *)
CatchUp(e, row) ==
    LET there == row.waiters \cap available
        first == CHOOSE a \in there : TRUE
    IN  IF there = {} THEN requests' = Renewed(e) /\ UNCHANGED digests
        ELSE Enqueue(<<"waiter", first, e, row.result>>, [kind |-> "artifact", art |-> first],
                     [event EXCEPT ![e] = row], Renewed(e))

(* publish_crash_result.  The project row is locked first, so the rules are *)
(* those of the moment of publication.                                      *)
Publish(e) ==
    /\ At(e, "publish")
    /\ LET row == Published(e, rules)
       IN  event' = [event EXCEPT ![e] = row] /\ CatchUp(e, row)
    /\ job' = [job EXCEPT ![e] = Closed(@)]
    /\ run' = [run EXCEPT ![e] = IdleRun]
    /\ UNCHANGED <<rules, files, caches, budget>>

(* finish_failure.  An event that has a result keeps it, and its waiters.   *)
Fail(e) ==
    /\ ~At(e, "idle")
    /\ Spend("faults")
    /\ event' = [event EXCEPT ![e].failed = TRUE,
                             ![e].state = IF event[e].result = <<>> THEN "failed" ELSE @]
    /\ job' = [job EXCEPT ![e] = Closed(@)]
    /\ run' = [run EXCEPT ![e] = IdleRun]
    /\ UNCHANGED <<rules, files, caches, queue>>

(* A retry, a cancelled run, or a lease that lapsed: another run starts. *)
Lapse(e) ==
    /\ ~At(e, "idle")
    /\ Spend("faults")
    /\ job' = [job EXCEPT ![e] = Released(@)]
    /\ run' = [run EXCEPT ![e] = IdleRun]
    /\ UNCHANGED <<rules, files, caches, event, queue>>

-----------------------------------------------------------------------------
(* generate_symcache.                                                       *)

ClaimCache(m) ==
    /\ cachejob[m] = "pending"
    /\ cachejob' = [cachejob EXCEPT ![m] = "leased"]
    /\ UNCHANGED <<rules, files, cache, event, job, run, queue, budget>>

(* generate_symcache reads the cache row, which must be pending or           *)
(* processing, downloads the source and compares it, and marks the cache.   *)
(* While the job is leased nobody else writes the row, so the state that it *)
(* read is still there; a cache that is processing already stays so.        *)
MarkCacheProcessing(m) ==
    /\ cachejob[m] = "leased"
    /\ cache[m] = "pending"
    /\ cache' = [cache EXCEPT ![m] = "processing"]
    /\ UNCHANGED <<rules, files, cachejob, event, job, run, queue, budget>>

PublishCache(m) ==
    /\ cachejob[m] = "leased"
    /\ cache[m] = "processing"
    /\ cache' = [cache EXCEPT ![m] = "available"]
    /\ cachejob' = [cachejob EXCEPT ![m] = "done"]
    /\ UNCHANGED <<rules, files, event, job, run, queue, budget>>

FailCache(m) ==
    /\ cachejob[m] = "leased"
    /\ cache[m] \in {"pending", "processing"}
    /\ Spend("faults")
    /\ cache' = [cache EXCEPT ![m] = "failed"]
    /\ cachejob' = [cachejob EXCEPT ![m] = "done"]
    /\ UNCHANGED <<rules, files, event, job, run, queue>>

LapseCache(m) ==
    /\ cachejob[m] = "leased"
    /\ Spend("faults")
    /\ cachejob' = [cachejob EXCEPT ![m] = "pending"]
    /\ UNCHANGED <<rules, files, cache, event, job, run, queue>>

-----------------------------------------------------------------------------

Arrive ==
    \/ \E e \in Events : Receive(e)
    \/ CreateRelease
    \/ \E a \in Artifacts : PublishArtifact(a)
    \/ UpdateDataRules

Process(e) ==
    \/ Claim(e) \/ ResolveRelease(e) \/ Select(e)
    \/ \E m \in Modules : EnsureCache(e, m)
    \/ WaitForDependency(e) \/ Analyze(e) \/ Publish(e)

Generate(m) == ClaimCache(m) \/ MarkCacheProcessing(m) \/ PublishCache(m)

Fault ==
    \/ \E e \in Events : Fail(e) \/ Lapse(e)
    \/ \E m \in Modules : FailCache(m) \/ LapseCache(m)

MaterializeAny == \E q \in requests : Materialize(q)

Next ==
    \/ Arrive
    \/ MaterializeAny
    \/ \E e \in Events : Process(e)
    \/ \E m \in Modules : Generate(m)
    \/ Fault

Spec == Init /\ [][Next]_vars

(* Workers poll for jobs and requests for as long as they run; nothing      *)
(* makes anything arrive.                                                   *)
Fairness ==
    /\ \A e \in Events : WF_vars(Process(e))
    /\ \A m \in Modules : WF_vars(Generate(m))
    /\ WF_vars(MaterializeAny)

FairSpec == Spec /\ Fairness

-----------------------------------------------------------------------------
(* Properties.                                                              *)

(* Nothing is queued and nothing is being worked on. *)
Quiet ==
    /\ requests = {}
    /\ \A e \in Events : job[e].state \in {"none", "done"}
    /\ \A m \in Modules : cachejob[m] \in {"none", "done"}

(* Once the queues are empty every event is up to date, unless its last     *)
(* reprocessing failed.  Whatever the order in which an artifact, its       *)
(* request and the publication of the waiters commit, the event waits for   *)
(* an artifact that is there and that its last run did not look at only if  *)
(* that run looked at another one that it still waits for: the catch-up     *)
(* request asks for one artifact.  And its result was redacted with the     *)
(* newest rules.                                                            *)
QuietIsCurrent ==
    Quiet => \A e \in DOMAIN event :
        ~event[e].failed =>
            /\ \/ event[e].waiters \cap available \subseteq event[e].seen
               \/ event[e].waiters \cap event[e].seen # {}
            /\ event[e].result # <<>> => event[e].result[1].rules = rules

(* A readable stack is replaced by an unreadable one only when the build    *)
(* has come to match several releases.                                      *)
ReadableKept ==
    [][\A e \in DOMAIN event :
         event[e].state = "processed" /\ event'[e].state # "processed"
            => event'[e].mapping = "ambiguous"]_vars

(* Events waiting for caches, caches waiting for workers, and requests that *)
(* publications make again come to rest once nothing arrives.               *)
Settles == <>[]Quiet

-----------------------------------------------------------------------------
(* The inductive invariant behind QuietIsCurrent and ReadableKept.          *)

Request ==
    [scope : [kind : {"artifact"}, art : Artifacts] \cup [kind : {"rules"}, version : Nat],
     events : SUBSET Events, waits : SUBSET Events]

(* Types, for any events, modules and budgets. *)
TypeOK ==
    /\ rules \in Nat /\ releases \in Nat
    /\ available \subseteq Artifacts
    /\ cache \in [Modules -> {"absent", "pending", "processing", "available", "failed"}]
    /\ cachejob \in [Modules -> {"none", "pending", "leased", "done"}]
    /\ DOMAIN event \subseteq Events
    /\ event \in [DOMAIN event -> Event]
    /\ job \in [Events -> [state : {"none", "pending", "leased", "done"}, newer : BOOLEAN]]
    /\ run \in [Events -> Run]
    /\ requests \subseteq Request
    /\ budget \in Budget

(* A run belongs to a leased job, and a job or a request to stored events.  *)
RunsAreLeased ==
    /\ \A e \in Events : job[e].state = "leased" <=> run[e].phase # "idle"
    /\ \A e \in Events : run[e].phase = "idle" => run[e] = IdleRun
    /\ \A e \in Events : e \notin DOMAIN event => job[e].state = "none"
    /\ \A q \in requests : q.events \subseteq DOMAIN event /\ q.waits \subseteq q.events

(* An available cache is never generated again. *)
CachesStay == \A m \in Modules : cache[m] = "available" => cachejob[m] = "done"

(* What a run has found is there, and stays there. *)
RunsFind ==
    \A e \in Events :
        /\ run[e].files \subseteq available
        /\ run[e].phase \in {"resolve", "select"} => run[e].files = {} /\ run[e].ready = {}
        /\ run[e].files # {} => run[e].mapping = "matched"
        /\ run[e].mapping \in {"matched", "ambiguous"} => releases > 0
        /\ run[e].phase = "cache" => \A m \in run[e].todo : <<m, "pdb">> \in run[e].files
        /\ \A m \in run[e].ready : cache[m] = "available" /\ <<m, "pdb">> \in run[e].files
        /\ \A m \in Modules :
             run[e].status[m] = "matched" => <<m, "pe">> \in run[e].files /\ m \in run[e].ready

(* What a row may hold together. *)
RowsAgree ==
    \A e \in DOMAIN event :
        /\ event[e].waiters # {} => event[e].state = "awaiting_symbols"
        /\ event[e].result = <<>> => event[e].waiters = {} /\ event[e].state # "processed"

(* The digests of requests speak of what has happened: an artifact is       *)
(* there, a version of the rules is reached, and a run that follows the     *)
(* catch-up for an artifact finds it in a matched release.                  *)
DigestsAreFacts ==
    \A d \in digests :
        /\ d[1] = "artifact" => d[2] \in available
        /\ d[1] = "rules" => d[2] \in 0..rules
        /\ d[1] = "waiter" =>
            /\ d[2] \in available /\ d[3] \in Events
            /\ run[d[3]].mapping = "matched" /\ run[d[3]].phase \notin {"resolve", "select"}
               => d[2] \in run[d[3]].files

Busy(e) == job[e].state \in {"pending", "leased"}

(* An event that waits for available artifacts and saw none of them is      *)
(* being processed, or a request for one of them will select it.            *)
ArrivalsPending ==
    \A e \in DOMAIN event :
        /\ ~event[e].failed
        /\ event[e].waiters \cap available # {}
        /\ event[e].waiters \cap event[e].seen = {}
        => \/ Busy(e)
           \/ \E q \in requests : /\ q.scope.kind = "artifact"
                                  /\ q.scope.art \in event[e].waiters
                                  /\ e \in q.waits

(* A result under older rules is being replaced, or a request will select   *)
(* its event.                                                               *)
RulesPending ==
    \A e \in DOMAIN event :
        event[e].result # <<>> =>
            /\ event[e].result[1].rules <= rules
            /\ ~event[e].failed /\ event[e].result[1].rules < rules
               => \/ Busy(e)
                  \/ \E q \in requests : /\ q.scope.kind = "rules"
                                         /\ q.scope.version > event[e].result[1].rules
                                         /\ e \in q.events

Symbolicated(m) ==
    /\ {<<m, "pe">>, <<m, "pdb">>} \subseteq available
    /\ cache[m] = "available"

(* A run on the way to a readable stack through module m, unless the build  *)
(* is ambiguous.                                                            *)
Finds(r, m) ==
    /\ r.phase \notin {"idle", "resolve"} => r.mapping \in {"matched", "ambiguous"}
    /\ r.mapping = "matched" =>
        /\ r.phase \in {"cache", "analyze"} => <<m, "pe">> \in r.files
        /\ r.phase = "cache" => m \in r.todo \cup r.ready
        /\ r.phase = "analyze" => m \in r.ready
        /\ r.phase = "publish" => Readable(r.status)

(* A readable stack rests on files and a cache that every later run finds.  *)
ReadableFound ==
    \A e \in DOMAIN event :
        event[e].state = "processed" =>
            /\ releases > 0
            /\ \E m \in Modules : Symbolicated(m) /\ Finds(run[e], m)

IInv ==
    /\ TypeOK
    /\ RunsAreLeased
    /\ CachesStay
    /\ RunsFind
    /\ RowsAgree
    /\ DigestsAreFacts
    /\ ArrivalsPending
    /\ RulesPending
    /\ ReadableFound
=============================================================================
