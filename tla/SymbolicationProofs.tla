------------------------ MODULE SymbolicationProofs ------------------------
(* Proofs about what symbols are for, in two parts that share nothing but   *)
(* this module.  Pipeline, for any number of events, modules and arrivals:  *)
(* no arrival is forgotten, every result ends under the newest rules, and a *)
(* readable stack is lost only when the build becomes ambiguous.            *)
(* UploadClient, for any number of CI jobs, trees and faults: what a run    *)
(* that ends with success declared is verified and available.               *)
EXTENDS Pipeline, UploadClient, FiniteSetTheorems, WellFoundedInduction, TLAPS


-----------------------------------------------------------------------------
(* Types.                                                                   *)

LEMMA IdleRunType == IdleRun \in Run
    BY DEF IdleRun, Run, NothingFound, Statuses

LEMMA NewEventType == NewEvent \in Event
    BY DEF NewEvent, Event

(* A bounded history of reports. *)
LEMMA HistoryType ==
    ASSUME NEW previous \in Seq(Result), NEW report \in Report
    PROVE  History(previous, report) \in Seq(Report)
<1>1. CASE previous = <<>>
    BY <1>1 DEF History
<1>2. CASE previous # <<>>
  <2>1. previous[1] \in Result
      BY <1>2
  <2>2. previous[1].history \in Seq(Report) /\ previous[1].report \in Report
      BY <2>1 DEF Result
  <2>3. Tail(previous[1].history) \in Seq(Report) \/ previous[1].history = <<>>
      BY <2>2
  <2>4. Len(previous[1].history) = MaxHistory => previous[1].history # <<>>
      BY PipelineAssumption
  <2> QED BY <1>2, <2>2, <2>3, <2>4 DEF History
<1> QED BY <1>1, <1>2

(* What a publication writes is a row. *)
LEMMA PublishedType ==
    ASSUME TypeOK, NEW e \in DOMAIN event
    PROVE  Published(e, rules) \in Event
<1>1. e \in Events /\ event[e] \in Event /\ run[e] \in Run /\ rules \in Nat
    BY DEF TypeOK
<1>2. run[e].status \in [Modules -> Statuses] /\ run[e].files \subseteq Artifacts
    BY <1>1 DEF Run
<1>3. Redacted(run[e].status, rules) \in Report /\ Redacted(run[e].status, 0) \in Report
    BY <1>1, <1>2 DEF Redacted, Report
<1>4. event[e].result \in Seq(Result)
    BY <1>1 DEF Event
<1>5. History(event[e].result, Redacted(run[e].status, 0)) \in Seq(Report)
    BY <1>3, <1>4, HistoryType
<1> DEFINE new == [rules |-> rules, report |-> Redacted(run[e].status, rules),
                   history |-> History(event[e].result, Redacted(run[e].status, 0))]
<1>6. new \in Result
    BY <1>1, <1>3, <1>5 DEF Result
<1>7. <<new>> \in Seq(Result)
    BY <1>6
<1>8. ASSUME NEW state PROVE Waiters(state, run[e].mapping, run[e].status) \subseteq Artifacts
    BY DEF Waiters, Artifacts
<1>9. run[e].mapping \in {"none", "missing", "ambiguous", "matched"}
    BY <1>1 DEF Run
<1> HIDE DEF new
<1> QED BY <1>2, <1>7, <1>8, <1>9 DEF Published, Event, new

(* A request made from stored events. *)
LEMMA NewRequestType ==
    ASSUME NEW rows, DOMAIN rows \subseteq Events,
           NEW scope \in [kind : {"artifact"}, art : Artifacts]
                         \cup [kind : {"rules"}, version : Nat]
    PROVE  NewRequest(scope, rows) \in Request
    BY DEF NewRequest, Request

(* Waiters written again leave requests requests. *)
LEMMA RenewedType ==
    ASSUME TypeOK, NEW e
    PROVE  Renewed(e) \subseteq Request
    BY DEF TypeOK, Renewed, Request

LEMMA EnqueueType ==
    ASSUME NEW digest, NEW rows, NEW others, DOMAIN rows \subseteq Events, others \subseteq Request,
           NEW scope \in [kind : {"artifact"}, art : Artifacts]
                         \cup [kind : {"rules"}, version : Nat],
           Enqueue(digest, scope, rows, others)
    PROVE  requests' \subseteq Request
    BY NewRequestType DEF Enqueue

LEMMA SpendType ==
    ASSUME budget \in Budget, NEW kind \in {"rules", "releases", "faults"}, Spend(kind)
    PROVE  budget' \in Budget
    BY DEF Spend, Budget

(* The artifact that a publication asks for is one it waits for. *)
LEMMA FirstThere ==
    ASSUME NEW S, S # {}
    PROVE  (CHOOSE a \in S : TRUE) \in S
    OBVIOUS

LEMMA ArriveType ==
    ASSUME TypeOK, Arrive
    PROVE  TypeOK'
<1>1. ASSUME NEW e \in Events, Receive(e) PROVE TypeOK'
    BY <1>1, NewEventType DEF Receive, TypeOK, files, caches, queue
<1>2. CASE CreateRelease
    BY <1>2, SpendType DEF CreateRelease, TypeOK, caches, queue
<1>3. ASSUME NEW a \in Artifacts, PublishArtifact(a) PROVE TypeOK'
  <2>1. [kind |-> "artifact", art |-> a] \in [kind : {"artifact"}, art : Artifacts]
      OBVIOUS
  <2>2. requests' \subseteq Request
      BY <1>3, <2>1, EnqueueType DEF PublishArtifact, TypeOK
  <2> QED BY <1>3, <2>2 DEF PublishArtifact, TypeOK, caches
<1>4. CASE UpdateDataRules
  <2>1. [kind |-> "rules", version |-> rules + 1] \in [kind : {"rules"}, version : Nat]
      BY DEF TypeOK
  <2>2. requests' \subseteq Request
      BY <1>4, <2>1, EnqueueType DEF UpdateDataRules, TypeOK
  <2> QED BY <1>4, <2>2, SpendType DEF UpdateDataRules, TypeOK, files, caches
<1> QED BY <1>1, <1>2, <1>3, <1>4 DEF Arrive

LEMMA MaterializeType ==
    ASSUME TypeOK, NEW q \in requests, Materialize(q)
    PROVE  TypeOK'
<1>1. ASSUME NEW e \in Events
      PROVE  Reactivated(job[e]) \in [state : {"none", "pending", "leased", "done"}, newer : BOOLEAN]
    BY <1>1 DEF Reactivated, TypeOK
<1> QED BY <1>1 DEF Materialize, TypeOK, files, caches

(* A step of one run. *)
LEMMA RunStepType ==
    ASSUME TypeOK, NEW e \in Events, NEW r \in Run, run' = [run EXCEPT ![e] = r]
    PROVE  run' \in [Events -> Run]
    BY DEF TypeOK

LEMMA JobStepType ==
    ASSUME TypeOK, NEW e \in Events,
           NEW j \in [state : {"none", "pending", "leased", "done"}, newer : BOOLEAN],
           job' = [job EXCEPT ![e] = j]
    PROVE  job' \in [Events -> [state : {"none", "pending", "leased", "done"}, newer : BOOLEAN]]
    BY DEF TypeOK

LEMMA ProcessType ==
    ASSUME TypeOK, RunsAreLeased, NEW e \in Events, Process(e)
    PROVE  TypeOK'
<1> USE DEF Unfinished, files, caches, queue
<1>0. run[e] \in Run
    BY DEF TypeOK
<1>1. CASE Claim(e)
  <2>1. [run[e] EXCEPT !.phase = "resolve"] \in Run
      BY <1>0 DEF Run
  <2>2. run' \in [Events -> Run]
      BY <1>1, <2>1, RunStepType DEF Claim
  <2> QED BY <1>1, <2>2 DEF Claim, TypeOK
<1>2. CASE ResolveRelease(e)
  <2>1. [run[e] EXCEPT !.phase = "select", !.mapping = Mapping] \in Run
      BY <1>0 DEF Run, Mapping
  <2>2. run' \in [Events -> Run]
      BY <1>2, <2>1, RunStepType DEF ResolveRelease
  <2> QED BY <1>2, <2>2 DEF ResolveRelease, TypeOK
<1>3. CASE Select(e)
  <2> DEFINE found == Matching(run[e].mapping)
             pdbs == {m \in Modules : <<m, "pdb">> \in found}
  <2>1. found \subseteq Artifacts
      BY DEF Matching, TypeOK
  <2>2. [run[e] EXCEPT !.files = found, !.todo = pdbs,
                       !.phase = IF pdbs = {} THEN "publish" ELSE "cache"] \in Run
      BY <1>0, <2>1 DEF Run
  <2>3. run' = [run EXCEPT ![e] = [run[e] EXCEPT !.files = found, !.todo = pdbs,
                                     !.phase = IF pdbs = {} THEN "publish" ELSE "cache"]]
      BY <1>3 DEF Select
  <2> HIDE DEF found, pdbs
  <2>4. run' \in [Events -> Run]
      BY <2>2, <2>3, RunStepType
  <2> QED BY <1>3, <2>4 DEF Select, TypeOK
<1>4. ASSUME NEW m \in Modules, EnsureCache(e, m) PROVE TypeOK'
  <2> DEFINE remains == run[e].todo \ {m}
             ready == run[e].ready \cup (IF cache[m] = "available" THEN {m} ELSE {})
             next == IF remains # {} THEN "cache" ELSE IF ready # {} THEN "analyze" ELSE "publish"
  <2>1. remains \subseteq Modules /\ ready \subseteq Modules
      BY <1>0 DEF Run
  <2>2. [run[e] EXCEPT !.todo = remains, !.ready = ready, !.phase = next] \in Run
      BY <1>0, <2>1 DEF Run
  <2>3. [run[e] EXCEPT !.todo = {m}, !.phase = "enqueue"] \in Run
      BY <1>0 DEF Run
  <2>4. \/ run' = [run EXCEPT ![e] = [run[e] EXCEPT !.todo = remains, !.ready = ready,
                                                   !.phase = next]]
        \/ run' = [run EXCEPT ![e] = [run[e] EXCEPT !.todo = {m}, !.phase = "enqueue"]]
      BY <1>4 DEF EnsureCache
  <2> HIDE DEF remains, ready, next
  <2>5. run' \in [Events -> Run]
      BY <2>2, <2>3, <2>4, RunStepType
  <2> QED BY <1>4, <2>5 DEF EnsureCache, TypeOK
<1>5. CASE WaitForDependency(e)
  <2>1. Released(job[e]) \in [state : {"none", "pending", "leased", "done"}, newer : BOOLEAN]
      BY DEF Released
  <2> QED BY <1>5, <2>1, IdleRunType DEF WaitForDependency, TypeOK, CacheJobFor
<1>6. CASE Analyze(e)
  <2>1. [run[e] EXCEPT !.phase = "publish",
                       !.status = [m \in Modules |-> Chosen(m, run[e].files, run[e].ready)]] \in Run
      BY <1>0 DEF Run, Chosen, Statuses
  <2>2. run' \in [Events -> Run]
      BY <1>6, <2>1, RunStepType DEF Analyze
  <2> QED BY <1>6, <2>2 DEF Analyze, TypeOK
<1>7. CASE Publish(e)
  <2> DEFINE entry == Published(e, rules)
  <2>1. e \in DOMAIN event /\ entry \in Event
      BY <1>7, PublishedType DEF Publish, At, RunsAreLeased
  <2>2. event' \in [DOMAIN event -> Event] /\ DOMAIN event' = DOMAIN event
      BY <1>7, <2>1 DEF Publish, TypeOK
  <2>3. Closed(job[e]) \in [state : {"none", "pending", "leased", "done"}, newer : BOOLEAN]
      BY DEF Closed
  <2>4. requests' \subseteq Request
    <3>1. CASE entry.waiters \cap available = {}
        BY <1>7, <3>1, RenewedType DEF Publish, CatchUp
    <3>2. CASE entry.waiters \cap available # {}
      <4> DEFINE first == CHOOSE a \in entry.waiters \cap available : TRUE
      <4>1. first \in Artifacts
          BY <3>2, FirstThere DEF TypeOK
      <4>2. [kind |-> "artifact", art |-> first] \in [kind : {"artifact"}, art : Artifacts]
          BY <4>1
      <4>3. DOMAIN [event EXCEPT ![e] = entry] \subseteq Events
          BY DEF TypeOK
      <4>4. Enqueue(<<"waiter", first, e, entry.result>>, [kind |-> "artifact", art |-> first],
                    [event EXCEPT ![e] = entry], Renewed(e))
          BY <1>7, <3>2 DEF Publish, CatchUp
      <4> QED BY <4>2, <4>3, <4>4, EnqueueType, RenewedType
    <3> QED BY <3>1, <3>2
  <2> QED BY <1>7, <2>2, <2>3, <2>4, IdleRunType DEF Publish, TypeOK
<1> QED BY <1>1, <1>2, <1>3, <1>4, <1>5, <1>6, <1>7 DEF Process

LEMMA OtherType ==
    ASSUME TypeOK, RunsAreLeased
    PROVE  /\ \A m \in Modules : Generate(m) => TypeOK'
           /\ Fault => TypeOK'
<1> USE DEF files, caches, queue
<1>1. ASSUME NEW m \in Modules, Generate(m) PROVE TypeOK'
    BY <1>1 DEF Generate, ClaimCache, MarkCacheProcessing, PublishCache, TypeOK
<1>2. ASSUME NEW m \in Modules, FailCache(m) \/ LapseCache(m) PROVE TypeOK'
    BY <1>2, SpendType DEF FailCache, LapseCache, TypeOK
<1>3. ASSUME NEW e \in Events, Fail(e) \/ Lapse(e) PROVE TypeOK'
  <2>1. /\ Released(job[e]) \in [state : {"none", "pending", "leased", "done"}, newer : BOOLEAN]
        /\ Closed(job[e]) \in [state : {"none", "pending", "leased", "done"}, newer : BOOLEAN]
      BY DEF Released, Closed
  <2>2. run' = [run EXCEPT ![e] = IdleRun] /\ budget' \in Budget
      BY <1>3, SpendType DEF Fail, Lapse, TypeOK
  <2>3. e \in DOMAIN event
      BY <1>3 DEF Fail, Lapse, At, RunsAreLeased
  <2>4. CASE Fail(e)
    <3>1. event[e] \in Event
        BY <2>3 DEF TypeOK
    <3> DEFINE entry == [event[e] EXCEPT !.failed = TRUE,
                         !.state = IF event[e].result = <<>> THEN "failed" ELSE @]
    <3>2. entry \in Event
        BY <3>1 DEF Event
    <3>3. event' = [event EXCEPT ![e] = entry]
        BY <2>4 DEF Fail
    <3> HIDE DEF entry
    <3>4. event' \in [DOMAIN event -> Event] /\ DOMAIN event' = DOMAIN event
        BY <3>2, <3>3 DEF TypeOK
    <3> QED BY <2>1, <2>2, <2>4, <3>4, IdleRunType DEF Fail, TypeOK
  <2>5. CASE Lapse(e)
      BY <2>1, <2>2, <2>5, IdleRunType DEF Lapse, TypeOK
  <2> QED BY <1>3, <2>4, <2>5
<1> QED BY <1>1, <1>2, <1>3 DEF Fault

-----------------------------------------------------------------------------
(* Runs, jobs and requests belong together.                                 *)

LEMMA NewRequestFields ==
    ASSUME NEW scope, NEW rows
    PROVE  /\ NewRequest(scope, rows).scope = scope
           /\ NewRequest(scope, rows).events = DOMAIN rows
           /\ NewRequest(scope, rows).waits = {e \in DOMAIN rows : rows[e].waiters # {}}
    BY DEF NewRequest

(* A renewed request keeps its scope and its events, and loses the event    *)
(* whose waiters were written again.                                        *)
LEMMA RenewedFields ==
    ASSUME TypeOK, NEW e
    PROVE  /\ \A q \in requests : \E p \in Renewed(e) :
                p.scope = q.scope /\ p.events = q.events /\ p.waits = q.waits \ {e}
           /\ \A p \in Renewed(e) : \E q \in requests :
                p.scope = q.scope /\ p.events = q.events /\ p.waits = q.waits \ {e}
<1>1. ASSUME NEW q \in requests
      PROVE  /\ [q EXCEPT !.waits = @ \ {e}].scope = q.scope
             /\ [q EXCEPT !.waits = @ \ {e}].events = q.events
             /\ [q EXCEPT !.waits = @ \ {e}].waits = q.waits \ {e}
    BY DEF TypeOK, Request
<1> QED BY <1>1 DEF Renewed

(* What the requests of a publication can be. *)
LEMMA CatchUpRequests ==
    ASSUME NEW e, NEW entry, CatchUp(e, entry)
    PROVE  /\ Renewed(e) \subseteq requests'
           /\ \A q \in requests' : \/ q \in Renewed(e)
                                   \/ \E scope : q = NewRequest(scope, [event EXCEPT ![e] = entry])
    BY DEF CatchUp, Enqueue

LEMMA KnownStep ==
    ASSUME TypeOK, TypeOK', RunsAreLeased, Next
    PROVE  \A q \in requests' : q.events \subseteq DOMAIN event' /\ q.waits \subseteq q.events
<1>1. CASE requests' \subseteq requests /\ DOMAIN event \subseteq DOMAIN event'
    BY <1>1 DEF RunsAreLeased
<1>2. ASSUME NEW digest, NEW scope, Enqueue(digest, scope, event, requests), event' = event
      PROVE  \A q \in requests' : q.events \subseteq DOMAIN event' /\ q.waits \subseteq q.events
  <2>1. \A q \in requests' : q \in requests \/ q = NewRequest(scope, event)
      BY <1>2 DEF Enqueue
  <2> QED BY <1>2, <2>1, NewRequestFields DEF RunsAreLeased
<1>3. ASSUME NEW e \in Events, Publish(e)
      PROVE  \A q \in requests' : q.events \subseteq DOMAIN event' /\ q.waits \subseteq q.events
  <2> DEFINE entry == Published(e, rules)
  <2>1. event' = [event EXCEPT ![e] = entry] /\ CatchUp(e, entry)
      BY <1>3 DEF Publish
  <2> HIDE DEF entry
  <2>2. DOMAIN event' = DOMAIN event
      BY <2>1
  <2>3. TAKE q \in requests'
  <2>4. CASE q \in Renewed(e)
      BY <2>2, <2>4, RenewedFields DEF RunsAreLeased
  <2>5. CASE \E scope : q = NewRequest(scope, event')
      BY <2>2, <2>5, NewRequestFields
  <2> QED BY <2>1, <2>4, <2>5, CatchUpRequests
<1>4. CASE Arrive
    BY <1>1, <1>2, <1>4 DEF Arrive, Receive, CreateRelease, PublishArtifact, UpdateDataRules, queue
<1>5. CASE MaterializeAny
    BY <1>1, <1>5 DEF MaterializeAny, Materialize
<1>6. ASSUME NEW e \in Events, Process(e), ~Publish(e)
      PROVE  \A q \in requests' : q.events \subseteq DOMAIN event' /\ q.waits \subseteq q.events
    BY <1>1, <1>6 DEF Process, Claim, ResolveRelease, Select, EnsureCache, WaitForDependency,
                      Analyze, Unfinished, queue
<1>7. ASSUME NEW m \in Modules, Generate(m)
      PROVE  \A q \in requests' : q.events \subseteq DOMAIN event' /\ q.waits \subseteq q.events
    BY <1>1, <1>7 DEF Generate, ClaimCache, MarkCacheProcessing, PublishCache, queue
<1>8. CASE Fault
    BY <1>1, <1>8 DEF Fault, Fail, Lapse, FailCache, LapseCache, queue
<1> QED BY <1>3, <1>4, <1>5, <1>6, <1>7, <1>8 DEF Next

(* The steps of a run, field by field. *)
LEMMA EarlySteps ==
    ASSUME TypeOK, NEW e \in Events, Claim(e) \/ ResolveRelease(e)
    PROVE  /\ Claim(e) => run'[e].phase = "resolve" /\ run'[e].mapping = run[e].mapping
           /\ ResolveRelease(e) => /\ run[e].phase = "resolve"
                                   /\ run'[e].phase = "select"
                                   /\ run'[e].mapping = Mapping
           /\ run'[e].files = run[e].files /\ run'[e].ready = run[e].ready
           /\ run'[e].status = run[e].status
    BY DEF TypeOK, Run, Claim, ResolveRelease, At

LEMMA SelectStep ==
    ASSUME TypeOK, NEW e \in Events, Select(e)
    PROVE  LET found == Matching(run[e].mapping)
           IN  /\ run[e].phase = "select"
               /\ run'[e].files = found
               /\ run'[e].todo = {m \in Modules : <<m, "pdb">> \in found}
               /\ run'[e].phase \in {"publish", "cache"}
               /\ run'[e].phase = "publish" <=> \A m \in Modules : <<m, "pdb">> \notin found
               /\ run'[e].mapping = run[e].mapping
               /\ run'[e].ready = run[e].ready
               /\ run'[e].status = run[e].status
<1> DEFINE found == Matching(run[e].mapping)
           pdbs == {m \in Modules : <<m, "pdb">> \in found}
           next == IF pdbs = {} THEN "publish" ELSE "cache"
<1>1. run[e] \in Run
    BY DEF TypeOK
<1>2. run' = [run EXCEPT ![e] = [run[e] EXCEPT !.files = found, !.todo = pdbs, !.phase = next]]
    BY DEF Select
<1>3. next \in {"publish", "cache"} /\ (next = "publish" <=> pdbs = {})
    OBVIOUS
<1>4. pdbs = {} <=> \A m \in Modules : <<m, "pdb">> \notin found
    OBVIOUS
<1> HIDE DEF next, pdbs
<1>5. run'[e] = [run[e] EXCEPT !.files = found, !.todo = pdbs, !.phase = next]
    BY <1>2 DEF TypeOK
<1>6. /\ run'[e].files = found /\ run'[e].todo = pdbs /\ run'[e].phase = next
      /\ run'[e].mapping = run[e].mapping /\ run'[e].ready = run[e].ready
      /\ run'[e].status = run[e].status
    BY <1>1, <1>5 DEF Run
<1> QED BY <1>3, <1>4, <1>6 DEF Select, At, pdbs

LEMMA EnsureStep ==
    ASSUME TypeOK, NEW e \in Events, NEW m \in Modules, EnsureCache(e, m)
    PROVE  /\ run[e].phase = "cache" /\ m \in run[e].todo
           /\ run'[e].mapping = run[e].mapping
           /\ run'[e].files = run[e].files
           /\ run'[e].status = run[e].status
           /\ \/ /\ run'[e].ready = run[e].ready
                 /\ run'[e].phase = "enqueue"
                 /\ cache[m] # "available"
              \/ /\ run'[e].todo = run[e].todo \ {m}
                 /\ run'[e].ready = run[e].ready \cup (IF cache[m] = "available" THEN {m} ELSE {})
                 /\ run'[e].phase \in {"cache", "analyze", "publish"}
                 /\ run'[e].phase = "cache" <=> run'[e].todo # {}
                 /\ run'[e].phase = "publish" => run'[e].ready = {}
                 /\ cache' = cache
<1> DEFINE remains == run[e].todo \ {m}
           ready == run[e].ready \cup (IF cache[m] = "available" THEN {m} ELSE {})
           next == IF remains # {} THEN "cache" ELSE IF ready # {} THEN "analyze" ELSE "publish"
<1>1. run[e] \in Run
    BY DEF TypeOK
<1>2. \/ /\ run' = [run EXCEPT ![e] = [run[e] EXCEPT !.todo = remains, !.ready = ready,
                                                  !.phase = next]]
         /\ cache' = cache
      \/ /\ run' = [run EXCEPT ![e] = [run[e] EXCEPT !.todo = {m}, !.phase = "enqueue"]]
         /\ cache[m] # "available"
    BY DEF EnsureCache
<1>3. /\ next \in {"cache", "analyze", "publish"}
      /\ next = "cache" <=> remains # {}
      /\ next = "publish" => ready = {}
    OBVIOUS
<1> HIDE DEF next, remains, ready
<1>4. \/ /\ run'[e] = [run[e] EXCEPT !.todo = remains, !.ready = ready, !.phase = next]
         /\ cache' = cache
      \/ /\ run'[e] = [run[e] EXCEPT !.todo = {m}, !.phase = "enqueue"]
         /\ cache[m] # "available"
    BY <1>2 DEF TypeOK
<1>5. /\ run'[e].mapping = run[e].mapping /\ run'[e].files = run[e].files
      /\ run'[e].status = run[e].status
    BY <1>1, <1>4 DEF Run
<1>6. \/ /\ run'[e].todo = remains /\ run'[e].ready = ready /\ run'[e].phase = next
         /\ cache' = cache
      \/ /\ run'[e].ready = run[e].ready /\ run'[e].phase = "enqueue"
         /\ cache[m] # "available"
    BY <1>1, <1>4 DEF Run
<1> QED BY <1>3, <1>5, <1>6 DEF EnsureCache, At, remains, ready

LEMMA AnalyzeStep ==
    ASSUME TypeOK, NEW e \in Events, Analyze(e)
    PROVE  /\ run[e].phase = "analyze" /\ run'[e].phase = "publish"
           /\ run'[e].mapping = run[e].mapping
           /\ run'[e].files = run[e].files
           /\ run'[e].ready = run[e].ready
           /\ \A m \in Modules : run'[e].status[m] = Chosen(m, run[e].files, run[e].ready)
    BY DEF TypeOK, Run, Analyze, At

(* A step of one event's run leaves the runs and jobs of the others alone.  *)
LEMMA RunFrame ==
    ASSUME TypeOK, NEW e \in Events, Process(e) \/ Fail(e) \/ Lapse(e), NEW f \in Events, f # e
    PROVE  run'[f] = run[f] /\ job'[f] = job[f]
    BY DEF TypeOK, Process, Claim, ResolveRelease, Select, EnsureCache, WaitForDependency,
           Analyze, Publish, Fail, Lapse

LEMMA LeasedStep ==
    ASSUME TypeOK, TypeOK', RunsAreLeased, Next
    PROVE  RunsAreLeased'
<1> DEFINE Leased(e) == /\ job[e].state = "leased" <=> run[e].phase # "idle"
                        /\ run[e].phase = "idle" => run[e] = IdleRun
                        /\ e \notin DOMAIN event => job[e].state = "none"
<1>1. \A e \in Events : Leased(e)
    BY DEF RunsAreLeased
<1>2. SUFFICES \A e \in Events : Leased(e)'
    BY KnownStep, <1>2 DEF RunsAreLeased
<1>3. CASE run' = run /\ job' = job /\ event' = event
    BY <1>1, <1>3
<1>4. ASSUME NEW e \in Events, Receive(e) PROVE \A f \in Events : Leased(f)'
    BY <1>1, <1>4 DEF Receive, TypeOK
<1>5. CASE MaterializeAny
  <2>1. PICK q \in requests : Materialize(q)
      BY <1>5 DEF MaterializeAny
  <2>2. Candidates(q) \subseteq DOMAIN event
      BY <2>1 DEF Candidates, RunsAreLeased
  <2>3. TAKE f \in Events
  <2>4. CASE f \in Candidates(q)
    <3>1. job'[f] = Reactivated(job[f]) /\ run' = run /\ event' = event
        BY <2>1, <2>4 DEF Materialize
    <3>2. job[f] \in [state : {"none", "pending", "leased", "done"}, newer : BOOLEAN]
        BY DEF TypeOK
    <3>3. job'[f].state = IF job[f].state = "leased" THEN "leased" ELSE "pending"
        BY <3>1, <3>2 DEF Reactivated
    <3> QED BY <1>1, <2>2, <2>4, <3>1, <3>3
  <2>5. CASE f \notin Candidates(q)
      BY <1>1, <2>1, <2>5 DEF Materialize
  <2> QED BY <2>4, <2>5
<1>6. ASSUME NEW e \in Events, Process(e) \/ Fail(e) \/ Lapse(e)
      PROVE  \A f \in Events : Leased(f)'
  <2>1. DOMAIN event' = DOMAIN event
      BY <1>6 DEF Process, Claim, ResolveRelease, Select, EnsureCache, WaitForDependency,
           Analyze, Publish, Fail, Lapse, Unfinished
  <2>2. ASSUME NEW f \in Events, f # e PROVE Leased(f)'
      BY <1>1, <1>6, <2>1, <2>2, RunFrame
  <2>3. Leased(e)'
    <3>1. CASE run'[e] = IdleRun /\ run[e].phase # "idle" /\ job'[e].state # "leased"
        BY <1>1, <2>1, <3>1 DEF IdleRun
    <3>2. CASE run'[e].phase # "idle" /\ job' = job /\ run[e].phase # "idle"
        BY <1>1, <2>1, <3>2
    <3>3. CASE Claim(e)
        BY <1>1, <2>1, <3>3 DEF Claim, TypeOK, Run
    <3>4. CASE WaitForDependency(e) \/ Publish(e) \/ Fail(e) \/ Lapse(e)
        BY <3>1, <3>4 DEF WaitForDependency, Publish, Fail, Lapse, At, Released, Closed, TypeOK
    <3>5. CASE ResolveRelease(e) \/ Analyze(e) \/ Select(e)
        BY <3>2, <3>5, EarlySteps, SelectStep, AnalyzeStep
           DEF ResolveRelease, Analyze, Select
    <3>6. ASSUME NEW m \in Modules, EnsureCache(e, m) PROVE Leased(e)'
        BY <3>2, <3>6, EnsureStep DEF EnsureCache
    <3> QED BY <1>6, <3>3, <3>4, <3>5, <3>6 DEF Process
  <2> QED BY <2>2, <2>3
<1>7. CASE Arrive
    BY <1>3, <1>4, <1>7 DEF Arrive, CreateRelease, PublishArtifact, UpdateDataRules
<1>8. CASE (\E m \in Modules : Generate(m)) \/ Fault
    BY <1>3, <1>6, <1>8 DEF Generate, ClaimCache, MarkCacheProcessing, PublishCache, Fault,
       FailCache, LapseCache
<1> QED BY <1>5, <1>6, <1>7, <1>8 DEF Next

-----------------------------------------------------------------------------
(* What is there stays there.                                               *)

(* Releases and artifacts are only added, and an available cache stays so.  *)
LEMMA Growth ==
    ASSUME TypeOK, CachesStay, Next
    PROVE  /\ available \subseteq available'
           /\ releases <= releases'
           /\ \A m \in Modules : cache[m] = "available" => cache'[m] = "available"
           /\ CachesStay'
<1> USE DEF files, caches
<1>1. CASE UNCHANGED <<files, caches>>
    BY <1>1 DEF CachesStay, TypeOK
<1>2. CASE Arrive
  <2>1. CASE CreateRelease
      BY <2>1 DEF CreateRelease, CachesStay, TypeOK
  <2>2. ASSUME NEW a \in Artifacts, PublishArtifact(a)
        PROVE  available \subseteq available' /\ UNCHANGED <<releases, caches>>
      BY <2>2 DEF PublishArtifact
  <2>3. CASE \E a \in Artifacts : PublishArtifact(a)
      BY <2>2, <2>3 DEF CachesStay, TypeOK
  <2> QED BY <1>1, <1>2, <2>1, <2>3 DEF Arrive, Receive, UpdateDataRules
<1>3. CASE MaterializeAny
    BY <1>1, <1>3 DEF MaterializeAny, Materialize
<1>4. ASSUME NEW e \in Events, Process(e), UNCHANGED caches
      PROVE  UNCHANGED <<files, caches>>
    BY <1>4 DEF Process, Claim, ResolveRelease, Select, EnsureCache, WaitForDependency,
                Analyze, Publish, Unfinished
<1>5. ASSUME NEW e \in Events, NEW m \in Modules, EnsureCache(e, m)
      PROVE  /\ UNCHANGED <<files, cachejob>>
             /\ \A n \in Modules : cache'[n] = "available" <=> cache[n] = "available"
    BY <1>5 DEF EnsureCache, Unfinished, TypeOK
<1>6. ASSUME NEW e \in Events, WaitForDependency(e)
      PROVE  /\ UNCHANGED <<files, cache>>
             /\ \A n \in Modules : cachejob[n] = "done" => cachejob'[n] = "done"
    BY <1>6 DEF WaitForDependency, CacheJobFor, Unfinished, TypeOK
<1>7. ASSUME NEW e \in Events, Process(e)
      PROVE  \/ UNCHANGED caches
             \/ \E m \in Modules : EnsureCache(e, m)
             \/ WaitForDependency(e)
    BY <1>7 DEF Process, Claim, ResolveRelease, Select, Analyze, Publish
<1>8. CASE \E m \in Modules : Generate(m) \/ FailCache(m) \/ LapseCache(m)
    BY <1>8 DEF Generate, ClaimCache, MarkCacheProcessing, PublishCache, FailCache, LapseCache,
                CachesStay, TypeOK
<1>9. CASE \E e \in Events : Fail(e) \/ Lapse(e)
    BY <1>1, <1>9 DEF Fail, Lapse
<1>10. CASE \E e \in Events : Process(e)
    BY <1>1, <1>4, <1>5, <1>6, <1>7, <1>10 DEF CachesStay, TypeOK
<1> QED BY <1>2, <1>3, <1>8, <1>9, <1>10 DEF Next, Fault

(* What a run r has found among these artifacts, releases and caches. *)
Found(r, there, number, built) ==
    /\ r.files \subseteq there
    /\ r.phase \in {"resolve", "select"} => r.files = {} /\ r.ready = {}
    /\ r.files # {} => r.mapping = "matched"
    /\ r.mapping \in {"matched", "ambiguous"} => number > 0
    /\ r.phase = "cache" => \A m \in r.todo : <<m, "pdb">> \in r.files
    /\ \A m \in r.ready : built[m] = "available" /\ <<m, "pdb">> \in r.files
    /\ \A m \in Modules : r.status[m] = "matched" => <<m, "pe">> \in r.files /\ m \in r.ready

LEMMA IdleFinds == ASSUME NEW there, NEW number, NEW built
                   PROVE  Found(IdleRun, there, number, built)
    BY DEF IdleRun, Found, NothingFound

(* A run that does not move keeps what it found. *)
LEMMA FoundStays ==
    ASSUME TypeOK, TypeOK', CachesStay, Next, NEW e \in Events,
           Found(run[e], available, releases, cache)
    PROVE  Found(run[e], available', releases', cache')
<1>1. run[e].ready \subseteq Modules
    BY DEF TypeOK, Run
<1> QED BY <1>1, Growth DEF Found, TypeOK

(* What happens to the run of an event. *)
LEMMA RunMoves ==
    ASSUME TypeOK, Next, NEW e \in Events
    PROVE  \/ run'[e] = run[e]
           \/ run'[e] = IdleRun
           \/ Claim(e) \/ ResolveRelease(e) \/ Select(e) \/ Analyze(e)
           \/ \E m \in Modules : EnsureCache(e, m)
<1>1. ASSUME NEW f \in Events, Process(f) \/ Fail(f) \/ Lapse(f), f # e
      PROVE  run'[e] = run[e]
    BY <1>1, RunFrame
<1>2. ASSUME WaitForDependency(e) \/ Publish(e) \/ Fail(e) \/ Lapse(e)
      PROVE  run'[e] = IdleRun
    BY <1>2 DEF WaitForDependency, Publish, Fail, Lapse, TypeOK
<1>3. CASE Arrive \/ MaterializeAny \/ \E m \in Modules : Generate(m) \/ FailCache(m) \/ LapseCache(m)
    BY <1>3 DEF Arrive, Receive, CreateRelease, PublishArtifact, UpdateDataRules, MaterializeAny,
       Materialize, Generate, ClaimCache, MarkCacheProcessing, PublishCache, FailCache, LapseCache
<1> QED BY <1>1, <1>2, <1>3 DEF Next, Process, Fault

LEMMA FindStep ==
    ASSUME TypeOK, TypeOK', RunsAreLeased, CachesStay, RunsFind, Next
    PROVE  RunsFind'
<1>1. \A e \in Events : run[e] \in Run /\ Found(run[e], available, releases, cache)
    BY DEF RunsFind, Found, TypeOK
<1>2. SUFFICES ASSUME NEW e \in Events PROVE Found(run'[e], available', releases', cache')
    BY DEF RunsFind, Found
<1>3. CASE run'[e] = run[e]
    BY <1>1, <1>3, FoundStays
<1>4. CASE run'[e] = IdleRun
    BY <1>4, IdleFinds
<1>5. Found(run[e], available', releases', cache')
    BY <1>1, FoundStays
<1>6. CASE Claim(e)
  <2>1. run[e] = IdleRun
      BY <1>6 DEF Claim, RunsAreLeased, TypeOK
  <2>2. run[e].files = {} /\ run[e].ready = {} /\ run[e].mapping = "none"
      BY <2>1 DEF IdleRun
  <2> QED BY <1>5, <1>6, <2>2, EarlySteps DEF Found
<1>7. CASE ResolveRelease(e)
  <2>1. releases' = releases /\ (Mapping \in {"matched", "ambiguous"} => releases > 0)
      BY <1>7 DEF ResolveRelease, Unfinished, files, Mapping, TypeOK
  <2> QED BY <1>1, <1>5, <1>7, <2>1, EarlySteps DEF Found
<1>8. CASE Select(e)
  <2>1. available' = available /\ run[e].phase = "select"
      BY <1>8, SelectStep DEF Select, Unfinished, files
  <2>2. Matching(run[e].mapping) \subseteq available
      BY DEF Matching
  <2>3. Matching(run[e].mapping) # {} => run[e].mapping = "matched"
      BY DEF Matching
  <2>4. run[e].files = {} /\ run[e].ready = {}
      BY <1>1, <2>1 DEF Found
  <2> QED BY <1>5, <1>8, <2>1, <2>2, <2>3, <2>4, SelectStep DEF Found
<1>9. ASSUME NEW m \in Modules, EnsureCache(e, m)
      PROVE  Found(run'[e], available', releases', cache')
  <2>1. <<m, "pdb">> \in run[e].files
      BY <1>1, <1>9, EnsureStep DEF Found
  <2>2. cache[m] = "available" => cache'[m] = "available"
      BY Growth
  <2> QED BY <1>1, <1>5, <1>9, <2>1, <2>2, EnsureStep DEF Found
<1>10. CASE Analyze(e)
  <2>1. \A m \in Modules : run'[e].status[m] = "matched"
                            => <<m, "pe">> \in run[e].files /\ m \in run[e].ready
      BY <1>10, AnalyzeStep DEF Chosen
  <2> QED BY <1>5, <1>10, <2>1, AnalyzeStep DEF Found
<1> QED BY <1>3, <1>4, <1>6, <1>7, <1>8, <1>9, <1>10, RunMoves

-----------------------------------------------------------------------------
(* Rows.                                                                    *)

(* What happens to the row of an event. *)
LEMMA RowMoves ==
    ASSUME TypeOK, RunsAreLeased, Next
    PROVE  /\ DOMAIN event \subseteq DOMAIN event'
           /\ \A e \in DOMAIN event' \ DOMAIN event : Receive(e) /\ event'[e] = NewEvent
           /\ \A e \in DOMAIN event :
                \/ event'[e] = event[e]
                \/ /\ Fail(e)
                   /\ event'[e] = [event[e] EXCEPT !.failed = TRUE,
                                      !.state = IF event[e].result = <<>> THEN "failed" ELSE @]
                \/ Publish(e) /\ event'[e] = Published(e, rules)
<1>1. CASE event' = event
    BY <1>1
<1>2. ASSUME NEW e \in Events, Receive(e)
      PROVE  /\ DOMAIN event' = DOMAIN event \cup {e} /\ event'[e] = NewEvent
             /\ \A f \in DOMAIN event : event'[f] = event[f]
    BY <1>2 DEF Receive
<1>3. ASSUME NEW e \in Events, Publish(e)
      PROVE  /\ DOMAIN event' = DOMAIN event /\ event'[e] = Published(e, rules)
             /\ \A f \in DOMAIN event : f # e => event'[f] = event[f]
  <2>1. e \in DOMAIN event
      BY <1>3 DEF Publish, At, RunsAreLeased
  <2> QED BY <1>3, <2>1 DEF Publish
<1>4. ASSUME NEW e \in Events, Fail(e)
      PROVE  /\ DOMAIN event' = DOMAIN event
             /\ event'[e] = [event[e] EXCEPT !.failed = TRUE,
                                !.state = IF event[e].result = <<>> THEN "failed" ELSE @]
             /\ \A f \in DOMAIN event : f # e => event'[f] = event[f]
  <2>1. e \in DOMAIN event
      BY <1>4 DEF Fail, At, RunsAreLeased
  <2> QED BY <1>4, <2>1 DEF Fail
<1>5. \/ event' = event
      \/ \E e \in Events : Receive(e) \/ Publish(e) \/ Fail(e)
    BY DEF Next, Arrive, CreateRelease, PublishArtifact, UpdateDataRules, MaterializeAny,
       Materialize, Process, Claim, ResolveRelease, Select, EnsureCache, WaitForDependency,
       Analyze, Unfinished, Generate, ClaimCache, MarkCacheProcessing, PublishCache, Fault, Lapse,
       FailCache, LapseCache
<1> QED BY <1>1, <1>2, <1>3, <1>4, <1>5

(* The fields of a published row. *)
LEMMA PublishedFields ==
    ASSUME TypeOK, NEW e \in Events
    PROVE  LET entry == Published(e, rules)
           IN  /\ entry.state \in {"processed", "awaiting_symbols"}
               /\ entry.state = "processed" <=> Readable(run[e].status)
               /\ entry.result # <<>> /\ entry.result[1].rules = rules
               /\ entry.mapping = run[e].mapping
               /\ entry.waiters # {} => entry.state = "awaiting_symbols" /\ entry.mapping = "matched"
               /\ entry.seen = run[e].files
               /\ entry.failed = FALSE
    BY DEF Published, Waiters

(* The fields of a row after a failure. *)
LEMMA FailedFields ==
    ASSUME NEW old \in Event
    PROVE  LET entry == [old EXCEPT !.failed = TRUE,
                         !.state = IF old.result = <<>> THEN "failed" ELSE @]
           IN  /\ entry.failed
               /\ entry.state = IF old.result = <<>> THEN "failed" ELSE old.state
               /\ entry.result = old.result
               /\ entry.waiters = old.waiters
               /\ entry.seen = old.seen
    BY DEF Event

LEMMA RowStep ==
    ASSUME TypeOK, TypeOK', RunsAreLeased, RowsAgree, Next
    PROVE  RowsAgree'
<1>1. SUFFICES ASSUME NEW e \in DOMAIN event'
               PROVE  /\ event'[e].waiters # {} => event'[e].state = "awaiting_symbols"
                      /\ event'[e].result = <<>>
                         => event'[e].waiters = {} /\ event'[e].state # "processed"
    BY DEF RowsAgree
<1>2. CASE e \notin DOMAIN event
  <2>1. event'[e] = NewEvent
      BY <1>2, RowMoves
  <2> QED BY <2>1 DEF NewEvent
<1>3. CASE e \in DOMAIN event /\ event'[e] = event[e]
    BY <1>3 DEF RowsAgree
<1>4. CASE e \in DOMAIN event /\ Publish(e) /\ event'[e] = Published(e, rules)
  <2>1. e \in Events
      BY <1>4 DEF TypeOK
  <2>2. Published(e, rules).waiters # {} => Published(e, rules).state = "awaiting_symbols"
      BY <2>1, PublishedFields
  <2>3. Published(e, rules).result # <<>>
      BY <2>1, PublishedFields
  <2> QED BY <1>4, <2>2, <2>3
<1>5. CASE /\ e \in DOMAIN event
           /\ event'[e] = [event[e] EXCEPT !.failed = TRUE,
                              !.state = IF event[e].result = <<>> THEN "failed" ELSE @]
  <2>1. event[e] \in Event
      BY <1>5 DEF TypeOK
  <2> QED BY <1>5, <2>1, FailedFields DEF RowsAgree
<1> QED BY <1>2, <1>3, <1>4, <1>5, RowMoves

-----------------------------------------------------------------------------
(* Digests.                                                                 *)

(* How digests and requests grow. *)
LEMMA QueueMoves ==
    ASSUME TypeOK, RunsAreLeased, Next
    PROVE  \/ UNCHANGED digests /\ requests' \subseteq requests
           \/ \E a \in Artifacts : PublishArtifact(a)
           \/ UpdateDataRules
           \/ \E e \in Events : Publish(e)
    BY DEF Next, Arrive, Receive, CreateRelease, MaterializeAny,
       Materialize, Process, Claim, ResolveRelease, Select, EnsureCache, WaitForDependency,
       Analyze, Unfinished, Generate, ClaimCache, MarkCacheProcessing, PublishCache, Fault, Fail,
       Lapse, FailCache, LapseCache, queue

(* A publication adds at most the digest of an artifact that is there. *)
LEMMA CatchUpDigest ==
    ASSUME NEW e \in Events, Publish(e), NEW d \in digests' \ digests
    PROVE  d[1] = "waiter" /\ d[2] \in available /\ d[3] = e
<1> DEFINE entry == Published(e, rules)
           first == CHOOSE a \in entry.waiters \cap available : TRUE
<1>1. entry.waiters \cap available # {} /\ d = <<"waiter", first, e, entry.result>>
    BY DEF Publish, CatchUp, Enqueue
<1>2. first \in available
    BY <1>1, FirstThere
<1> HIDE DEF first, entry
<1> QED BY <1>1, <1>2

(* A run that follows a catch-up finds the artifact. *)
LEMMA FollowStep ==
    ASSUME TypeOK, TypeOK', RunsAreLeased, Next, NEW e \in Events, NEW a \in available,
           run[e].mapping = "matched" /\ run[e].phase \notin {"resolve", "select"}
               => a \in run[e].files
    PROVE  run'[e].mapping = "matched" /\ run'[e].phase \notin {"resolve", "select"}
               => a \in run'[e].files
<1>1. CASE run'[e] = run[e]
    BY <1>1
<1>2. CASE run'[e] = IdleRun
    BY <1>2 DEF IdleRun
<1>3. CASE Claim(e) \/ ResolveRelease(e)
    BY <1>3, EarlySteps
<1>4. CASE Select(e)
    BY <1>4, SelectStep DEF Matching
<1>5. CASE Analyze(e)
    BY <1>5, AnalyzeStep
<1>6. ASSUME NEW m \in Modules, EnsureCache(e, m)
      PROVE  run'[e].mapping = "matched" => a \in run'[e].files
    BY <1>6, EnsureStep
<1> QED BY <1>1, <1>2, <1>3, <1>4, <1>5, <1>6, RunMoves

LEMMA AvailableMoves == ASSUME Next PROVE UNCHANGED available \/ \E a \in Artifacts : PublishArtifact(a)
    BY DEF Next, Arrive, Receive, CreateRelease, UpdateDataRules, MaterializeAny, Materialize,
       Process, Claim, ResolveRelease, Select, EnsureCache, WaitForDependency, Analyze, Publish,
       Unfinished, Generate, ClaimCache, MarkCacheProcessing, PublishCache, Fault, Fail, Lapse,
       FailCache, LapseCache, files

LEMMA RulesMove == ASSUME Next PROVE UNCHANGED rules \/ UpdateDataRules
    BY DEF Next, Arrive, Receive, CreateRelease, PublishArtifact, MaterializeAny, Materialize,
       Process, Claim, ResolveRelease, Select, EnsureCache, WaitForDependency, Analyze, Publish,
       Unfinished, Generate, ClaimCache, MarkCacheProcessing, PublishCache, Fault, Fail, Lapse,
       FailCache, LapseCache

LEMMA DigestStep ==
    ASSUME TypeOK, TypeOK', RunsAreLeased, CachesStay, DigestsAreFacts, Next
    PROVE  DigestsAreFacts'
<1>1. available \subseteq available'
    BY Growth
<1>2. rules <= rules'
    BY RulesMove DEF TypeOK, UpdateDataRules
<1>3. ASSUME NEW d \in digests, d[1] = "artifact" PROVE d[2] \in available'
    BY <1>1, <1>3 DEF DigestsAreFacts
<1>4. ASSUME NEW d \in digests, d[1] = "rules" PROVE d[2] \in 0..rules'
    BY <1>2, <1>4 DEF DigestsAreFacts, TypeOK
<1>5. ASSUME NEW d \in digests, d[1] = "waiter"
      PROVE  /\ d[2] \in available' /\ d[3] \in Events
             /\ run'[d[3]].mapping = "matched" /\ run'[d[3]].phase \notin {"resolve", "select"}
                => d[2] \in run'[d[3]].files
    BY <1>1, <1>5, FollowStep DEF DigestsAreFacts
<1>6. \A d \in digests :
         /\ d[1] = "artifact" => d[2] \in available'
         /\ d[1] = "rules" => d[2] \in 0..rules'
         /\ d[1] = "waiter" =>
            /\ d[2] \in available' /\ d[3] \in Events
            /\ run'[d[3]].mapping = "matched" /\ run'[d[3]].phase \notin {"resolve", "select"}
               => d[2] \in run'[d[3]].files
    BY <1>3, <1>4, <1>5
<1>7. CASE UNCHANGED digests
    BY <1>6, <1>7 DEF DigestsAreFacts
<1>8. ASSUME NEW a \in Artifacts, PublishArtifact(a) PROVE DigestsAreFacts'
  <2>1. /\ \A d \in digests' : d \in digests \/ d = <<"artifact", a>>
        /\ a \in available'
      BY <1>8 DEF PublishArtifact, Enqueue
  <2> QED BY <1>6, <2>1 DEF DigestsAreFacts
<1>9. CASE UpdateDataRules
  <2>1. /\ \A d \in digests' : d \in digests \/ d = <<"rules", rules + 1>>
        /\ rules + 1 \in 0..rules'
      BY <1>9 DEF UpdateDataRules, Enqueue, TypeOK
  <2> QED BY <1>6, <2>1 DEF DigestsAreFacts
<1>10. ASSUME NEW e \in Events, Publish(e) PROVE DigestsAreFacts'
  <2>1. run'[e].mapping = "none"
      BY <1>10 DEF Publish, TypeOK, IdleRun
  <2>2. \A d \in digests' \ digests : d[1] = "waiter" /\ d[2] \in available /\ d[3] = e
      BY <1>10, CatchUpDigest
  <2> QED BY <1>1, <1>6, <2>1, <2>2 DEF DigestsAreFacts
<1> QED BY <1>7, <1>8, <1>9, <1>10, QueueMoves

-----------------------------------------------------------------------------
(* Nothing that has to be done is forgotten.                                *)

(* A busy event stays busy until its run publishes or fails. *)
LEMMA BusyStep ==
    ASSUME TypeOK, RunsAreLeased, Next, NEW e \in DOMAIN event, Busy(e)
    PROVE  Busy(e)' \/ Publish(e) \/ Fail(e)
<1>0. e \in Events
    BY DEF TypeOK
<1>1. CASE job'[e] = job[e]
    BY <1>1 DEF Busy
<1>2. ASSUME NEW f \in Events, Process(f) \/ Fail(f) \/ Lapse(f), f # e PROVE job'[e] = job[e]
    BY <1>0, <1>2, RunFrame
<1>3. CASE Claim(e) \/ WaitForDependency(e) \/ Lapse(e)
    BY <1>0, <1>3 DEF Claim, WaitForDependency, Lapse, Released, Busy, TypeOK
<1>4. ASSUME NEW q \in requests, Materialize(q) PROVE Busy(e)'
  <2>1. job'[e] = Reactivated(job[e]) \/ job'[e] = job[e]
      BY <1>0, <1>4 DEF Materialize
  <2>2. job[e] \in [state : {"none", "pending", "leased", "done"}, newer : BOOLEAN]
      BY <1>0 DEF TypeOK
  <2>3. Reactivated(job[e]).state \in {"leased", "pending"}
      BY <2>2 DEF Reactivated
  <2> QED BY <2>1, <2>3 DEF Busy
<1>5. ASSUME NEW f \in Events, Receive(f) PROVE job'[e] = job[e]
    BY <1>0, <1>5 DEF Receive, TypeOK
<1>6. CASE UNCHANGED job
    BY <1>1, <1>6
<1>7. CASE ResolveRelease(e) \/ Select(e) \/ Analyze(e) \/ \E m \in Modules : EnsureCache(e, m)
    BY <1>6, <1>7 DEF ResolveRelease, Select, Analyze, EnsureCache
<1>8. CASE Arrive
    BY <1>1, <1>5, <1>6, <1>8 DEF Arrive, CreateRelease, PublishArtifact, UpdateDataRules
<1>9. CASE \E m \in Modules : Generate(m) \/ FailCache(m) \/ LapseCache(m)
    BY <1>6, <1>9 DEF Generate, ClaimCache, MarkCacheProcessing, PublishCache, FailCache, LapseCache
<1> QED BY <1>1, <1>2, <1>3, <1>4, <1>7, <1>8, <1>9 DEF Next, Fault, MaterializeAny, Process

(* A request stays until it is materialised, and keeps the events whose     *)
(* waiters are not written again.                                           *)
LEMMA RequestStays ==
    ASSUME TypeOK, RunsAreLeased, Next, NEW q \in requests, ~Materialize(q)
    PROVE  \E p \in requests' :
              /\ p.scope = q.scope /\ p.events = q.events
              /\ \A e \in q.waits : Publish(e) \/ e \in p.waits
<1>1. CASE q \in requests'
    BY <1>1
<1>2. ASSUME NEW f \in Events, Publish(f)
      PROVE  \E p \in requests' :
                /\ p.scope = q.scope /\ p.events = q.events
                /\ \A e \in q.waits : Publish(e) \/ e \in p.waits
  <2>1. Renewed(f) \subseteq requests'
      BY <1>2, CatchUpRequests DEF Publish
  <2>2. PICK p \in Renewed(f) :
               p.scope = q.scope /\ p.events = q.events /\ p.waits = q.waits \ {f}
      BY RenewedFields
  <2> QED BY <1>2, <2>1, <2>2
<1>3. CASE MaterializeAny
    BY <1>1, <1>3 DEF MaterializeAny, Materialize
<1>4. CASE (\E a \in Artifacts : PublishArtifact(a)) \/ UpdateDataRules
    BY <1>1, <1>4 DEF PublishArtifact, UpdateDataRules, Enqueue
<1>5. CASE UNCHANGED requests
    BY <1>1, <1>5
<1>6. \/ UNCHANGED requests \/ MaterializeAny \/ (\E a \in Artifacts : PublishArtifact(a))
      \/ UpdateDataRules \/ \E f \in Events : Publish(f)
    BY DEF Next, Arrive, Receive, CreateRelease, Process, Claim, ResolveRelease, Select,
       EnsureCache, WaitForDependency, Analyze, Unfinished, Generate, ClaimCache,
       MarkCacheProcessing, PublishCache, Fault, Fail, Lapse, FailCache, LapseCache, queue
<1> QED BY <1>2, <1>3, <1>4, <1>5, <1>6

(* A selected event is busy. *)
LEMMA SelectedBusy ==
    ASSUME TypeOK, NEW q \in requests, Materialize(q), NEW e \in Events, e \in Candidates(q)
    PROVE  Busy(e)'
<1>1. job'[e] = Reactivated(job[e])
    BY DEF Materialize
<1>2. job[e] \in [state : {"none", "pending", "leased", "done"}, newer : BOOLEAN]
    BY DEF TypeOK
<1> QED BY <1>1, <1>2 DEF Reactivated, Busy

(* A request for one of the artifacts an event waits for. *)
Asked(e, rows, queued) ==
    \E q \in queued : /\ q.scope.kind = "artifact"
                      /\ q.scope.art \in rows[e].waiters
                      /\ e \in q.waits

(* A publication whose waiters are there and were not seen makes a request: *)
(* had it made one before with the same result, its run would have seen the *)
(* artifact.                                                                *)
LEMMA PublishedAsks ==
    ASSUME TypeOK, RunsAreLeased, DigestsAreFacts, NEW e \in DOMAIN event, Publish(e),
           event'[e].waiters \cap available # {},
           event'[e].waiters \cap event'[e].seen = {}
    PROVE  Asked(e, event', requests')
<1> DEFINE entry == Published(e, rules)
           first == CHOOSE a \in entry.waiters \cap available : TRUE
           digest == <<"waiter", first, e, entry.result>>
           scope == [kind |-> "artifact", art |-> first]
           new == NewRequest(scope, event')
<1>1. e \in Events /\ event' = [event EXCEPT ![e] = entry] /\ event'[e] = entry
      /\ run[e].phase = "publish"
    BY DEF Publish, TypeOK, At
<1>2. entry.waiters \cap available # {} /\ entry.waiters \cap entry.seen = {}
    BY <1>1
<1>3. first \in entry.waiters /\ first \in available
    BY <1>2, FirstThere
<1>4. entry.seen = run[e].files /\ run[e].mapping = "matched"
    BY <1>1, <1>3, PublishedFields
<1>5. digest \notin digests
  <2>1. digest[1] = "waiter" /\ digest[2] = first /\ digest[3] = e
      OBVIOUS
  <2> HIDE DEF digest
  <2>2. digest \in digests => first \in run[e].files
      BY <1>1, <1>4, <2>1 DEF DigestsAreFacts
  <2> QED BY <1>2, <1>3, <1>4, <2>2
<1>6. Enqueue(digest, scope, event', Renewed(e))
    BY <1>1, <1>2 DEF Publish, CatchUp
<1>7. new \in requests'
    BY <1>5, <1>6 DEF Enqueue
<1>8. new.scope.kind = "artifact" /\ new.scope.art = first
      /\ new.waits = {f \in DOMAIN event' : event'[f].waiters # {}}
    BY NewRequestFields
<1>9. e \in DOMAIN event'
    BY <1>1
<1> HIDE DEF entry, first, digest, scope, new
<1>10. e \in new.waits /\ new.scope.art \in event'[e].waiters
    BY <1>1, <1>2, <1>3, <1>8, <1>9
<1> QED BY <1>7, <1>8, <1>10 DEF Asked

(* An artifact that arrives asks for the events that wait for it. *)
LEMMA ArrivalAsks ==
    ASSUME TypeOK, DigestsAreFacts, NEW a \in Artifacts, PublishArtifact(a),
           NEW e \in DOMAIN event, a \in event[e].waiters
    PROVE  Asked(e, event, requests')
<1> DEFINE scope == [kind |-> "artifact", art |-> a]
           new == NewRequest(scope, event)
<1>1. <<"artifact", a>> \notin digests
  <2> DEFINE digest == <<"artifact", a>>
  <2>1. digest[1] = "artifact" /\ digest[2] = a
      OBVIOUS
  <2> HIDE DEF digest
  <2>2. digest \notin digests
      BY <2>1 DEF DigestsAreFacts, PublishArtifact
  <2> QED BY <2>2 DEF digest
<1>2. new \in requests'
    BY <1>1 DEF PublishArtifact, Enqueue
<1>3. new.scope.kind = "artifact" /\ new.scope.art = a
      /\ new.waits = {f \in DOMAIN event : event[f].waiters # {}}
    BY NewRequestFields
<1> HIDE DEF new, scope
<1> QED BY <1>2, <1>3 DEF Asked

LEMMA ArrivalsStep ==
    ASSUME TypeOK, TypeOK', RunsAreLeased, CachesStay, RowsAgree, DigestsAreFacts, ArrivalsPending,
           Next
    PROVE  ArrivalsPending'
<1>1. SUFFICES ASSUME NEW e \in DOMAIN event',
                      ~event'[e].failed,
                      event'[e].waiters \cap available' # {},
                      event'[e].waiters \cap event'[e].seen = {}
               PROVE  Busy(e)' \/ Asked(e, event', requests')
    BY DEF ArrivalsPending, Asked
<1>2. e \in DOMAIN event /\ ~Fail(e)
  <2>1. e \in DOMAIN event
    <3>1. NewEvent.waiters = {}
        BY DEF NewEvent
    <3> QED BY <1>1, <3>1, RowMoves
  <2>2. event[e] \in Event
      BY <2>1 DEF TypeOK
  <2>3. Fail(e) => event'[e] = [event[e] EXCEPT !.failed = TRUE,
                                  !.state = IF event[e].result = <<>> THEN "failed" ELSE @]
      BY <2>1 DEF Fail
  <2> QED BY <1>1, <2>1, <2>2, <2>3, FailedFields
<1>3. CASE Publish(e)
  <2>1. available' = available
      BY <1>3 DEF Publish, files
  <2> QED BY <1>1, <1>2, <1>3, <2>1, PublishedAsks
<1>4. CASE ~Publish(e)
  <2>1. event'[e] = event[e]
      BY <1>2, <1>4, RowMoves
  <2>2. CASE event[e].waiters \cap available # {}
    <3>1. CASE Busy(e)
        BY <1>2, <1>4, <3>1, BusyStep
    <3>2. CASE ~Busy(e)
      <4>1. PICK q \in requests : /\ q.scope.kind = "artifact"
                                  /\ q.scope.art \in event[e].waiters
                                  /\ e \in q.waits
          BY <1>1, <1>2, <2>1, <2>2, <3>2 DEF ArrivalsPending
      <4>2. CASE Materialize(q)
        <5>1. e \in Candidates(q)
            BY <1>2, <4>1 DEF Candidates, RowsAgree
        <5>2. e \in Events
            BY <1>2 DEF TypeOK
        <5> QED BY <4>2, <5>1, <5>2, SelectedBusy
      <4>3. CASE ~Materialize(q)
        <5>1. PICK p \in requests' : p.scope = q.scope /\ e \in p.waits
            BY <1>4, <4>1, <4>3, RequestStays
        <5> QED BY <2>1, <4>1, <5>1 DEF Asked
      <4> QED BY <4>2, <4>3
    <3> QED BY <3>1, <3>2
  <2>3. CASE event[e].waiters \cap available = {}
    <3>1. available' # available
        BY <1>1, <2>1, <2>3
    <3>2. PICK a \in Artifacts : PublishArtifact(a)
        BY <3>1, AvailableMoves
    <3>3. a \in event[e].waiters /\ event' = event
        BY <1>1, <2>1, <2>3, <3>2 DEF PublishArtifact
    <3> QED BY <1>2, <3>2, <3>3, ArrivalAsks
  <2> QED BY <2>2, <2>3
<1> QED BY <1>3, <1>4

(* A result names a version of the rules. *)
LEMMA ResultRules ==
    ASSUME NEW entry \in Event, entry.result # <<>>
    PROVE  entry.result[1].rules \in Nat
<1>1. entry.result \in Seq(Result)
    BY DEF Event
<1>2. entry.result[1] \in Result
    BY <1>1
<1> QED BY <1>2 DEF Result

(* A request that redoes the results older than a version of the rules. *)
Redone(e, rows, queued) ==
    \E q \in queued : /\ q.scope.kind = "rules"
                      /\ q.scope.version > rows[e].result[1].rules
                      /\ e \in q.events

(* A change of the rules asks for every stored event. *)
LEMMA RulesAsk ==
    ASSUME TypeOK, DigestsAreFacts, UpdateDataRules, NEW e \in DOMAIN event,
           event[e].result # <<>>, event[e].result[1].rules <= rules
    PROVE  Redone(e, event, requests')
<1> DEFINE scope == [kind |-> "rules", version |-> rules + 1]
           new == NewRequest(scope, event)
<1>1. <<"rules", rules + 1>> \notin digests
  <2> DEFINE digest == <<"rules", rules + 1>>
  <2>1. digest[1] = "rules" /\ digest[2] = rules + 1
      OBVIOUS
  <2> HIDE DEF digest
  <2>2. digest \notin digests
      BY <2>1 DEF DigestsAreFacts, TypeOK
  <2> QED BY <2>2 DEF digest
<1>2. new \in requests'
    BY <1>1 DEF UpdateDataRules, Enqueue
<1>3. new.scope.kind = "rules" /\ new.scope.version = rules + 1 /\ new.events = DOMAIN event
    BY NewRequestFields
<1>4. event[e].result[1].rules \in Nat /\ rules \in Nat
    BY ResultRules DEF TypeOK
<1>5. rules + 1 > event[e].result[1].rules
    BY <1>4
<1> HIDE DEF new, scope
<1> QED BY <1>2, <1>3, <1>5 DEF Redone

LEMMA RulesStep ==
    ASSUME TypeOK, TypeOK', RunsAreLeased, RowsAgree, DigestsAreFacts, RulesPending, Next
    PROVE  RulesPending'
<1>1. SUFFICES ASSUME NEW e \in DOMAIN event', event'[e].result # <<>>
               PROVE  /\ event'[e].result[1].rules <= rules'
                      /\ ~event'[e].failed /\ event'[e].result[1].rules < rules'
                         => Busy(e)' \/ Redone(e, event', requests')
    BY DEF RulesPending, Redone
<1>2. e \in DOMAIN event
  <2>1. NewEvent.result = <<>>
      BY DEF NewEvent
  <2> QED BY <1>1, <2>1, RowMoves
<1>3. e \in Events /\ event[e] \in Event /\ rules \in Nat
    BY <1>2 DEF TypeOK
<1>4. event[e].result # <<>> => event[e].result[1].rules \in Nat
    BY <1>3, ResultRules
<1>5. rules' = rules \/ rules' = rules + 1
    BY RulesMove DEF UpdateDataRules
<1>6. CASE Publish(e)
  <2>1. event'[e] = Published(e, rules) /\ rules' = rules
      BY <1>2, <1>6 DEF Publish
  <2>2. Published(e, rules).result[1].rules = rules
      BY <1>3, PublishedFields
  <2> QED BY <1>3, <2>1, <2>2
<1>7. CASE Fail(e)
  <2>1. event'[e] = [event[e] EXCEPT !.failed = TRUE,
                       !.state = IF event[e].result = <<>> THEN "failed" ELSE @]
      BY <1>2, <1>7 DEF Fail
  <2>2. event'[e].failed /\ event'[e].result = event[e].result
      BY <1>3, <2>1, FailedFields
  <2>3. event[e].result[1].rules <= rules
      BY <1>1, <1>2, <2>2 DEF RulesPending
  <2> QED BY <1>1, <1>3, <1>4, <1>5, <2>2, <2>3
<1>8. CASE ~Publish(e) /\ ~Fail(e)
  <2>1. event'[e] = event[e]
      BY <1>2, <1>8, RowMoves
  <2>2. event[e].result # <<>> /\ event[e].result[1].rules <= rules
      BY <1>1, <1>2, <2>1 DEF RulesPending
  <2>3. event'[e].result[1].rules <= rules'
      BY <1>3, <1>4, <1>5, <2>1, <2>2
  <2>4. CASE rules' = rules
    <3>1. SUFFICES ASSUME ~event[e].failed, event[e].result[1].rules < rules
                   PROVE  Busy(e)' \/ Redone(e, event', requests')
        BY <2>1, <2>3, <2>4
    <3>2. CASE Busy(e)
        BY <1>2, <1>8, <3>2, BusyStep
    <3>3. CASE ~Busy(e)
      <4>1. PICK q \in requests : /\ q.scope.kind = "rules"
                                  /\ q.scope.version > event[e].result[1].rules
                                  /\ e \in q.events
          BY <1>2, <2>2, <3>1, <3>3 DEF RulesPending
      <4>2. CASE Materialize(q)
        <5>1. q.scope.version \in Nat
            BY <4>1 DEF TypeOK, Request
        <5>2. e \in Candidates(q)
            BY <1>4, <2>2, <4>1, <5>1 DEF Candidates
        <5> QED BY <1>3, <4>2, <5>2, SelectedBusy
      <4>3. CASE ~Materialize(q)
        <5>1. PICK p \in requests' : p.scope = q.scope /\ p.events = q.events
            BY <4>3, RequestStays
        <5> QED BY <2>1, <4>1, <5>1 DEF Redone
      <4> QED BY <4>2, <4>3
    <3> QED BY <3>2, <3>3
  <2>5. CASE rules' # rules
    <3>1. UpdateDataRules /\ event' = event
        BY <2>5, RulesMove DEF UpdateDataRules
    <3> QED BY <1>2, <2>2, <2>3, <3>1, RulesAsk
  <2> QED BY <2>4, <2>5
<1> QED BY <1>6, <1>7, <1>8

-----------------------------------------------------------------------------
(* A readable stack stays readable.                                         *)

(* A run that publishes a readable stack has found a module's files. *)
LEMMA PublishFinds ==
    ASSUME TypeOK, RunsFind, NEW e \in Events, Readable(run[e].status)
    PROVE  /\ releases > 0
           /\ \E m \in Modules : Symbolicated(m)
<1>1. PICK m \in Modules : run[e].status[m] = "matched"
    BY DEF Readable
<1>2. <<m, "pe">> \in run[e].files /\ <<m, "pdb">> \in run[e].files /\ cache[m] = "available"
    BY <1>1 DEF RunsFind
<1>3. run[e].mapping = "matched" /\ run[e].files \subseteq available /\ releases > 0
    BY <1>2 DEF RunsFind
<1> QED BY <1>2, <1>3 DEF Symbolicated

(* A run keeps finding a module whose files and cache are there. *)
LEMMA FindsStep ==
    ASSUME TypeOK, TypeOK', RunsAreLeased, RunsFind, Next, NEW e \in Events, releases > 0,
           NEW m \in Modules, Symbolicated(m), Finds(run[e], m)
    PROVE  Finds(run'[e], m)
<1> USE DEF Finds
<1>1. CASE run'[e] = run[e]
    BY <1>1
<1>2. CASE run'[e] = IdleRun
    BY <1>2 DEF IdleRun
<1>3. CASE Claim(e)
  <2>1. run[e].mapping = "none"
      BY <1>3 DEF Claim, RunsAreLeased, IdleRun
  <2> QED BY <1>3, <2>1, EarlySteps
<1>4. CASE ResolveRelease(e)
  <2>1. Mapping \in {"matched", "ambiguous"}
      BY DEF Mapping, TypeOK
  <2> QED BY <1>4, <2>1, EarlySteps
<1>5. CASE Select(e)
  <2>1. run[e].mapping = "matched" =>
          <<m, "pe">> \in Matching(run[e].mapping) /\ <<m, "pdb">> \in Matching(run[e].mapping)
      BY DEF Matching, Symbolicated
  <2> QED BY <1>5, <2>1, SelectStep
<1>6. ASSUME NEW n \in Modules, EnsureCache(e, n) PROVE Finds(run'[e], m)
  <2>1. cache[m] = "available"
      BY DEF Symbolicated
  <2> QED BY <1>6, <2>1, EnsureStep
<1>7. CASE Analyze(e)
  <2>1. run[e].mapping = "matched" => Chosen(m, run[e].files, run[e].ready) = "matched"
      BY <1>7, AnalyzeStep DEF Chosen
  <2> QED BY <1>7, <2>1, AnalyzeStep DEF Readable
<1> QED BY <1>1, <1>2, <1>3, <1>4, <1>5, <1>6, <1>7, RunMoves

LEMMA ReadableStep ==
    ASSUME TypeOK, TypeOK', RunsAreLeased, CachesStay, RunsFind, RowsAgree, ReadableFound, Next
    PROVE  ReadableFound'
<1>1. SUFFICES ASSUME NEW e \in DOMAIN event', event'[e].state = "processed"
               PROVE  /\ releases' > 0
                      /\ \E m \in Modules : Symbolicated(m)' /\ Finds(run'[e], m)
    BY DEF ReadableFound, Finds, Readable
<1>2. e \in DOMAIN event
  <2>1. NewEvent.state = "received"
      BY DEF NewEvent
  <2> QED BY <1>1, <2>1, RowMoves
<1>3. e \in Events /\ event[e] \in Event
    BY <1>2 DEF TypeOK
<1>4. releases > 0 => releases' > 0
    BY Growth DEF TypeOK
<1>5. ASSUME NEW m \in Modules, Symbolicated(m) PROVE Symbolicated(m)'
    BY <1>5, Growth DEF Symbolicated
<1>6. CASE Publish(e)
  <2>1. event'[e] = Published(e, rules) /\ run'[e] = IdleRun
      BY <1>2, <1>3, <1>6 DEF Publish, TypeOK
  <2>2. Readable(run[e].status)
      BY <1>1, <1>3, <2>1, PublishedFields
  <2>3. PICK m \in Modules : Symbolicated(m)
      BY <1>3, <2>2, PublishFinds
  <2>4. Finds(IdleRun, m)
      BY DEF Finds, IdleRun
  <2>5. releases > 0
      BY <1>3, <2>2, PublishFinds
  <2> QED BY <1>4, <1>5, <2>1, <2>3, <2>4, <2>5
<1>7. CASE ~Publish(e)
  <2>1. event[e].state = "processed"
    <3>1. CASE event'[e] = event[e]
        BY <1>1, <3>1
    <3>2. CASE event'[e] = [event[e] EXCEPT !.failed = TRUE,
                              !.state = IF event[e].result = <<>> THEN "failed" ELSE @]
        BY <1>1, <1>3, <3>2, FailedFields
    <3> QED BY <1>2, <1>7, <3>1, <3>2, RowMoves
  <2>2. releases > 0
      BY <1>2, <2>1 DEF ReadableFound
  <2>3. PICK m \in Modules : Symbolicated(m) /\ Finds(run[e], m)
      BY <1>2, <2>1 DEF ReadableFound
  <2>4. Finds(run'[e], m)
      BY <1>3, <2>2, <2>3, FindsStep
  <2> QED BY <1>4, <1>5, <2>2, <2>3, <2>4
<1> QED BY <1>6, <1>7

-----------------------------------------------------------------------------
(* The inductive invariant.                                                 *)

LEMMA InitIInv == Init => IInv
<1> SUFFICES ASSUME Init PROVE IInv
    OBVIOUS
<1>1. DOMAIN event = {}
    BY DEF Init
<1>2. TypeOK
    BY <1>1, IdleRunType, PipelineAssumption DEF Init, TypeOK
<1>3. \A e \in Events : run[e] = IdleRun
    BY DEF Init
<1>4. RunsAreLeased
  <2>1. IdleRun.phase = "idle"
      BY DEF IdleRun
  <2> QED BY <1>3, <2>1 DEF Init, RunsAreLeased
<1>5. CachesStay
    BY DEF Init, CachesStay
<1>6. RunsFind
  <2>1. \A e \in Events : Found(run[e], available, releases, cache)
      BY <1>3, IdleFinds
  <2> QED BY <2>1 DEF Found, RunsFind
<1>7. RowsAgree /\ ArrivalsPending /\ RulesPending /\ ReadableFound
    BY <1>1 DEF RowsAgree, ArrivalsPending, RulesPending, ReadableFound
<1>8. DigestsAreFacts
    BY DEF Init, DigestsAreFacts
<1> QED BY <1>2, <1>4, <1>5, <1>6, <1>7, <1>8 DEF IInv

LEMMA TypeStep ==
    ASSUME TypeOK, RunsAreLeased, Next
    PROVE  TypeOK'
    BY ArriveType, MaterializeType, ProcessType, OtherType DEF Next, MaterializeAny

LEMMA NextIInv == IInv /\ Next => IInv'
<1> SUFFICES ASSUME IInv, Next PROVE IInv'
    OBVIOUS
<1> USE DEF IInv
<1>1. TypeOK'
    BY TypeStep
<1>2. RunsAreLeased' /\ CachesStay'
    BY <1>1, LeasedStep, Growth
<1>3. RunsFind' /\ RowsAgree' /\ DigestsAreFacts'
    BY <1>1, FindStep, RowStep, DigestStep
<1>4. ArrivalsPending' /\ RulesPending' /\ ReadableFound'
    BY <1>1, ArrivalsStep, RulesStep, ReadableStep
<1> QED BY <1>1, <1>2, <1>3, <1>4

LEMMA StutterIInv == IInv /\ UNCHANGED vars => IInv'
<1> SUFFICES ASSUME IInv, UNCHANGED vars PROVE IInv'
    OBVIOUS
<1> USE DEF vars
<1>1. TypeOK' /\ RunsAreLeased' /\ CachesStay'
    BY DEF IInv, TypeOK, RunsAreLeased, CachesStay
<1>2. RunsFind' /\ RowsAgree' /\ DigestsAreFacts'
    BY DEF IInv, RunsFind, RowsAgree, DigestsAreFacts
<1>3. ArrivalsPending' /\ RulesPending'
    BY DEF IInv, ArrivalsPending, RulesPending, Busy
<1>4. ReadableFound'
    BY DEF IInv, ReadableFound, Symbolicated, Finds, Readable
<1> QED BY <1>1, <1>2, <1>3, <1>4 DEF IInv

(* The invariant holds in every reachable state: nothing that is queued, in *)
(* progress or published loses track of what has arrived.                   *)
THEOREM InductiveInvariant == Spec => []IInv
<1>1. IInv /\ [Next]_vars => IInv'
    BY NextIInv, StutterIInv
<1> QED BY InitIInv, <1>1, PTL DEF Spec

(* Every row, run, request and cache has its type, for any events, modules  *)
(* and budgets; in particular a result's history is a sequence of reports.  *)
THEOREM TypeCorrect == Spec => []TypeOK
<1>1. IInv => TypeOK
    BY DEF IInv
<1> QED BY InductiveInvariant, <1>1, PTL

(* When the queues are empty, an event whose last run did not fail waits    *)
(* for an artifact that is there and was not looked at only if its run      *)
(* looked at another one it waits for, and its result is redacted with the  *)
(* newest rules.                                                            *)
THEOREM UpToDate == Spec => []QuietIsCurrent
<1>1. IInv => QuietIsCurrent
  <2> SUFFICES ASSUME IInv, Quiet, NEW e \in DOMAIN event, ~event[e].failed
               PROVE  /\ \/ event[e].waiters \cap available \subseteq event[e].seen
                         \/ event[e].waiters \cap event[e].seen # {}
                      /\ event[e].result # <<>> => event[e].result[1].rules = rules
      BY DEF QuietIsCurrent
  <2>1. ~Busy(e) /\ requests = {}
      BY DEF Busy, Quiet, IInv, TypeOK
  <2>2. event[e].waiters \cap available = {} \/ event[e].waiters \cap event[e].seen # {}
      BY <2>1 DEF IInv, ArrivalsPending
  <2>3. ASSUME event[e].result # <<>> PROVE event[e].result[1].rules = rules
    <3>1. /\ event[e].result[1].rules <= rules
          /\ ~(event[e].result[1].rules < rules)
        BY <2>1, <2>3 DEF IInv, RulesPending
    <3>2. event[e].result[1].rules \in Nat /\ rules \in Nat
        BY <2>3, ResultRules DEF IInv, TypeOK
    <3> QED BY <3>1, <3>2
  <2> QED BY <2>2, <2>3
<1> QED BY InductiveInvariant, <1>1, PTL

(* No publication replaces a readable stack by an unreadable one, unless    *)
(* the build matches several releases.                                      *)
THEOREM StacksStayReadable == Spec => ReadableKept
<1> DEFINE Kept == \A e \in DOMAIN event :
                      event[e].state = "processed" /\ event'[e].state # "processed"
                         => event'[e].mapping = "ambiguous"
<1>1. IInv /\ [Next]_vars => [Kept]_vars
  <2> SUFFICES ASSUME IInv, Next, NEW e \in DOMAIN event, event[e].state = "processed",
                      event'[e].state # "processed"
               PROVE  event'[e].mapping = "ambiguous"
      OBVIOUS
  <2>1. e \in Events /\ event[e] \in Event
      BY DEF IInv, TypeOK
  <2>2. event[e].result # <<>>
      BY DEF IInv, RowsAgree
  <2>3. Publish(e) /\ event'[e] = Published(e, rules)
    <3>1. event'[e] # [event[e] EXCEPT !.failed = TRUE,
                         !.state = IF event[e].result = <<>> THEN "failed" ELSE @]
        BY <2>1, <2>2, FailedFields
    <3> QED BY <3>1, RowMoves DEF IInv
  <2>4. run[e].phase = "publish" /\ ~Readable(run[e].status)
      BY <2>1, <2>3, PublishedFields DEF Publish, At, IInv
  <2>5. PICK m \in Modules : Finds(run[e], m)
      BY DEF IInv, ReadableFound
  <2>6. run[e].mapping = "ambiguous"
      BY <2>4, <2>5 DEF Finds
  <2> QED BY <2>1, <2>3, <2>6, PublishedFields DEF IInv
<1> QED BY InductiveInvariant, <1>1, PTL DEF Spec, ReadableKept

-----------------------------------------------------------------------------
(***************************************************************************)
(* UploadClient.                                                           *)
(***************************************************************************)

(* Sequences of anything. *)
LEMMA SeqIsSeq ==
    ASSUME NEW S, NEW t \in Seq(S)
    PROVE  IsSeq(t)
<1>1. Len(t) \in Nat /\ t = [i \in 1..Len(t) |-> t[i]]
    OBVIOUS
<1>2. \A i \in 1..Len(t) : t[i] \in {t[j] : j \in 1..Len(t)}
    OBVIOUS
<1>3. t \in Seq({t[i] : i \in 1..Len(t)})
    BY <1>1, <1>2
<1> QED BY <1>3 DEF IsSeq

LEMMA IsSeqFacts ==
    ASSUME NEW s, IsSeq(s)
    PROVE  /\ Len(s) \in Nat /\ DOMAIN s = 1..Len(s)
           /\ s # <<>> => 1 \in DOMAIN s /\ Head(s) = s[1]
    BY DEF IsSeq

LEMMA IsSeqEmpty == IsSeq(<<>>) /\ DOMAIN <<>> = {}
<1>1. <<>> \in Seq({})
    OBVIOUS
<1>2. IsSeq(<<>>)
    BY <1>1, SeqIsSeq
<1> QED BY <1>2

LEMMA IsSeqAppend ==
    ASSUME NEW s, IsSeq(s), NEW x
    PROVE  /\ IsSeq(Append(s, x)) /\ DOMAIN Append(s, x) = DOMAIN s \cup {Len(s) + 1}
           /\ Append(s, x)[Len(s) + 1] = x /\ Append(s, x) # <<>>
           /\ \A i \in DOMAIN s : Append(s, x)[i] = s[i] /\ i # Len(s) + 1
<1> DEFINE S == {s[i] : i \in 1..Len(s)} \cup {x}
<1>1. s \in Seq(S) /\ Len(s) \in Nat /\ x \in S
    BY DEF IsSeq
<1> HIDE DEF S
<1>2. Append(s, x) \in Seq(S)
    BY <1>1
<1>3. IsSeq(Append(s, x))
    BY <1>2, SeqIsSeq
<1> QED BY <1>1, <1>3

LEMMA IsSeqTail ==
    ASSUME NEW s, IsSeq(s), s # <<>>
    PROVE  /\ IsSeq(Tail(s))
           /\ \A i \in DOMAIN Tail(s) : i + 1 \in DOMAIN s /\ Tail(s)[i] = s[i + 1]
           /\ \A i \in DOMAIN s : i # 1 => i - 1 \in DOMAIN Tail(s) /\ Tail(s)[i - 1] = s[i]
<1> DEFINE S == {s[i] : i \in 1..Len(s)}
<1>1. s \in Seq(S) /\ Len(s) \in Nat
    BY DEF IsSeq
<1> HIDE DEF S
<1>2. Tail(s) \in Seq(S)
    BY <1>1
<1>3. IsSeq(Tail(s))
    BY <1>2, SeqIsSeq
<1> QED BY <1>1, <1>3

LEMMA IsSeqMap ==
    ASSUME NEW s, IsSeq(s), NEW t, t = [i \in DOMAIN s |-> t[i]]
    PROVE  IsSeq(t) /\ DOMAIN t = DOMAIN s
<1>1. DOMAIN s = 1..Len(s) /\ Len(s) \in Nat
    BY DEF IsSeq
<1>2. t = [i \in 1..Len(s) |-> t[i]]
    BY <1>1
<1>3. \A i \in 1..Len(s) : t[i] \in {t[j] : j \in 1..Len(s)}
    OBVIOUS
<1>4. t \in Seq({t[i] : i \in 1..Len(s)}) /\ Len(t) = Len(s)
    BY <1>1, <1>2, <1>3
<1> QED BY <1>1, <1>2, <1>4 DEF IsSeq

LEMMA IsSeqExcept ==
    ASSUME NEW s, IsSeq(s), NEW i, NEW v
    PROVE  IsSeq([s EXCEPT ![i] = v]) /\ DOMAIN [s EXCEPT ![i] = v] = DOMAIN s
<1> DEFINE t == [s EXCEPT ![i] = v]
<1>1. t = [j \in DOMAIN s |-> t[j]]
    OBVIOUS
<1> HIDE DEF t
<1>2. IsSeq(t) /\ DOMAIN t = DOMAIN s
    BY <1>1, IsSeqMap
<1> QED BY <1>2 DEF t

(* The next path of a declaration is the least one that is left. *)
LessNat == OpToRel(<, Nat)

LEMMA LeastPath ==
    ASSUME NEW T, T \subseteq Nat, T # {}
    PROVE  Min(T) \in T /\ \A y \in T : Min(T) <= y
<1>1. IsWellFoundedOn(LessNat, Nat)
    BY NatLessThanWellFounded DEF LessNat
<1>2. \A x, y \in Nat : x < y => <<x, y>> \in LessNat
    BY DEF OpToRel, LessNat
<1>3. PICK x \in T : \A y \in T : ~(<<y, x>> \in LessNat)
    BY <1>1, WFMin
<1>4. ASSUME NEW y \in T PROVE x <= y
    <2>1. ~(y < x)
        BY <1>2, <1>3
    <2> QED BY <2>1
<1> QED BY <1>4 DEF Min

LEMMA NextPathFacts ==
    ASSUME NEW arts, DOMAIN arts \subseteq Nat \ {0}, NEW p \in Nat
    PROVE  LET next == NextPath(arts, p)
           IN  /\ next = None => \A q \in DOMAIN arts : q <= p
               /\ next # None => /\ next \in DOMAIN arts /\ next > p
                                 /\ \A q \in DOMAIN arts : q < next => q <= p
<1> DEFINE rest == {q \in DOMAIN arts : q > p}
<1>1. rest \subseteq Nat /\ None \notin Nat
    BY ClientAssumption
<1>2. CASE rest = {}
    <2>1. NextPath(arts, p) = None
        BY <1>2 DEF NextPath
    <2> QED BY <1>2, <2>1
<1>3. CASE rest # {}
    <2>1. NextPath(arts, p) = Min(rest)
        BY <1>3 DEF NextPath
    <2>2. Min(rest) \in rest /\ \A y \in rest : Min(rest) <= y
        BY <1>1, <1>3, LeastPath
    <2>3. \A q \in DOMAIN arts : q < Min(rest) => q <= p
        <3> SUFFICES ASSUME NEW q \in DOMAIN arts, q < Min(rest), ~(q <= p) PROVE FALSE
            OBVIOUS
        <3>1. q \in rest
            OBVIOUS
        <3> QED BY <2>2, <3>1, <1>1
    <2> QED BY <1>1, <2>1, <2>2, <2>3
<1> QED BY <1>2, <1>3

(* A step of one run leaves the others where they are. *)
LEMMA GotoRun ==
    ASSUME ClientTypeOK, NEW c \in Clients, NEW r, Goto(c, r)
    PROVE  /\ client'[c] = r /\ DOMAIN client' = Clients
           /\ \A d \in Clients \ {c} : client'[d] = client[d]
    BY DEF Goto, ClientTypeOK

RunFields == {"pc", "found", "arts", "at", "todo", "part", "sent", "cov", "exit"}

LEMMA ExitRun ==
    ASSUME ClientTypeOK, NEW c \in Clients, NEW code, Exit(c, code)
    PROVE  /\ DOMAIN client' = Clients /\ \A d \in Clients \ {c} : client'[d] = client[d]
           /\ DOMAIN client'[c] = RunFields
           /\ client'[c].pc = "idle" /\ client'[c].exit = code /\ client'[c].todo = <<>>
           /\ client'[c].arts = client[c].arts
<1> DEFINE r == [Idle EXCEPT !.exit = code, !.arts = RunOf(c).arts]
<1>1. client'[c] = r /\ DOMAIN client' = Clients /\ \A d \in Clients \ {c} : client'[d] = client[d]
    BY GotoRun DEF Exit
<1>2. /\ DOMAIN r = RunFields /\ r.pc = "idle" /\ r.exit = code /\ r.todo = <<>>
      /\ r.arts = client[c].arts
    BY DEF Idle, Fresh, RunFields, RunOf
<1> QED BY <1>1, <1>2

(* What a step leaves of sessions and trees, for the runs that refer to them. *)
SessionsKept ==
    \A i \in DOMAIN session : i \in DOMAIN session' /\ session'[i].path = session[i].path

DiskKept ==
    DOMAIN disk' = DOMAIN disk /\ \A c \in DOMAIN disk : DOMAIN disk'[c].files = DOMAIN disk[c].files

LEMMA RunKept ==
    ASSUME NEW d \in Clients, RunOK(d), client'[d] = client[d], SessionsKept, DiskKept
    PROVE  RunOK(d)'
    BY DEF RunOK, RunOf, SessionsKept, DiskKept

(* A run that has ended, with a code for which nothing is claimed. *)
LEMMA ExitOK ==
    ASSUME ClientTypeOK, NEW c \in Clients, client[c].pc # "idle", DiskKept,
           NEW code \in {2, 3, 4}, Exit(c, code)
    PROVE  RunOK(c)' /\ Declared(c)' = {} /\ Loud(c)' = FALSE
<1>1. /\ DOMAIN client'[c] = RunFields
      /\ client'[c].pc = "idle" /\ client'[c].exit = code /\ client'[c].todo = <<>>
      /\ client'[c].arts = client[c].arts
    BY ExitRun
<1>2. RunOK(c)
    BY DEF ClientTypeOK
<1>3. RunOK(c)'
    BY <1>1, <1>2, IsSeqEmpty DEF RunOK, RunOf, RunFields, DiskKept, Early, Transfer, Answered
<1>4. Declared(c)' = {}
    BY <1>1 DEF Declared, RunOf, Answered, Transfer, Exits
<1>5. ~Loud(c)'
    BY <1>1 DEF Loud, RunOf
<1> QED BY <1>3, <1>4, <1>5

LEMMA RefusedExit ==
    ASSUME NEW c, NEW e \in {"Invalid", "Unauthorized", "Conflict", "Mismatch", "Unavailable"},
           Refused(c, e)
    PROVE  \E code \in {2, 3, 4} : Exit(c, code)
<1>1. MapApiError(Response[e]) \in {2, 3, 4}
    BY DEF MapApiError, Response, Exits
<1> QED BY <1>1 DEF Refused

(* The initial states. *)
LEMMA ClientInitInv == ClientInit => ClientIInv
<1> SUFFICES ASSUME ClientInit PROVE ClientIInv
    OBVIOUS
<1>1. PICK s \in Scenarios :
        /\ client = [c \in Clients |-> IF c \in DOMAIN s.trees THEN Fresh ELSE Idle]
        /\ disk = s.trees
    BY DEF ClientInit
<1>2. row = <<>> /\ session = <<>> /\ canonical = {} /\ owner = <<>> /\ crossed = {} /\ mixed = {}
    BY DEF ClientInit
<1>3. DOMAIN disk \subseteq Clients /\ \A c \in DOMAIN disk : IsTree(disk[c])
    BY <1>1, ClientAssumption
<1>4. ASSUME NEW c \in Clients
      PROVE  /\ DOMAIN client[c] = RunFields
             /\ client[c].pc = "idle" \/ (client[c].pc = "scan" /\ c \in DOMAIN disk)
             /\ client[c].exit = None /\ client[c].todo = <<>> /\ client[c].arts = <<>>
    <2>1. /\ DOMAIN Fresh = RunFields /\ DOMAIN Idle = RunFields
          /\ Fresh.pc = "scan" /\ Idle.pc = "idle"
          /\ Fresh.exit = None /\ Fresh.todo = <<>> /\ Fresh.arts = <<>>
          /\ Idle.exit = None /\ Idle.todo = <<>> /\ Idle.arts = <<>>
        BY DEF Fresh, Idle, RunFields
    <2> QED BY <1>1, <2>1
<1>5. ASSUME NEW c \in Clients PROVE RunOK(c)
    BY <1>4, IsSeqEmpty DEF RunOK, RunOf, RunFields, Early, Transfer, Answered
<1>6. ClientTypeOK
    <2>1. IsFiniteSet({}) /\ DOMAIN client = Clients
        BY <1>1, FS_EmptySet
    <2> QED BY <1>2, <1>3, <1>5, <2>1, IsSeqEmpty DEF ClientTypeOK
<1>7. SessionsStand /\ AvailableIsVerified
    BY <1>2, IsSeqEmpty DEF SessionsStand, AvailableIsVerified
<1>8. DeclarationsStand
    <2>1. ASSUME NEW c \in Clients PROVE Declared(c) = {}
        BY <1>4, IsSeqEmpty DEF Declared, RunOf
    <2> QED BY <2>1 DEF DeclarationsStand
<1>9. AloneIsUndisturbed
    <2>1. ASSUME NEW c \in Clients PROVE ~Loud(c)
        BY <1>4 DEF Loud, RunOf, Early
    <2>2. ASSUME NEW c \in Clients PROVE Undisturbed(c)
        <3>1. client[c].exit # Exits.internal /\ client[c].pc \notin Answered
            BY <1>4, ClientAssumption DEF Exits, Answered, Transfer
        <3> QED BY <2>1, <3>1 DEF Undisturbed, RunOf, Others
    <2> QED BY <2>2 DEF AloneIsUndisturbed
<1> QED BY <1>6, <1>7, <1>8, <1>9 DEF ClientIInv

-----------------------------------------------------------------------------
(* Steps that write no row: sessions are used, retired or held up.          *)

SessionFields == {"path", "art", "state", "expired", "put", "rec", "object"}

Tame ==
    /\ IsSeq(session') /\ DOMAIN session' = DOMAIN session
    /\ \A i \in DOMAIN session :
          /\ DOMAIN session'[i] = SessionFields
          /\ session'[i].path = session[i].path /\ session'[i].art = session[i].art
          /\ \/ session'[i].state = session[i].state
             \/ session'[i].state = "aborted"
             \/ session'[i].state = "completing" /\ session[i].state \in {"active", "completing"}

LEMMA SameSessions ==
    ASSUME ClientTypeOK, session' = session
    PROVE  Tame
<1>1. IsSeq(session')
    BY DEF ClientTypeOK
<1> QED BY <1>1 DEF Tame, SessionFields, ClientTypeOK

LEMMA TameKept ==
    ASSUME ClientIInv, Tame, row' = row, owner' = owner, canonical' = canonical, crossed' = crossed
    PROVE  SessionsKept /\ SessionsStand' /\ AvailableIsVerified'
<1>1. SessionsKept
    BY DEF Tame, SessionsKept
<1>2. ASSUME NEW i \in DOMAIN session, Live(i)' PROVE Live(i)
    BY <1>2 DEF Tame, Live, LiveStates
<1>3. SessionsStand'
    <2>1. SessionsStand
        BY DEF ClientIInv
    <2>2. ASSUME NEW i \in DOMAIN session', NEW j \in DOMAIN session', Live(i)', Live(j)', i # j
          PROVE  session'[i].path # session'[j].path
        BY <1>2, <2>1, <2>2 DEF Tame, SessionsStand
    <2>3. ASSUME NEW i \in DOMAIN session', Live(i)'
          PROVE  /\ row'[session'[i].path].art = session'[i].art
                 /\ session'[i].state = "processing" /\ session'[i].path \notin crossed' =>
                       \/ row'[session'[i].path].state = "processing"
                       \/ KnownBytes(session[i].art)'
        <3>1. i \in DOMAIN session /\ Live(i)
            BY <1>2, <2>3 DEF Tame
        <3>2. session'[i].path = session[i].path /\ session'[i].art = session[i].art
            BY <3>1 DEF Tame
        <3>3. session'[i].state = "processing" => session[i].state = "processing"
            BY <3>1 DEF Tame
        <3> QED BY <2>1, <3>1, <3>2, <3>3 DEF SessionsStand, KnownBytes
    <2> QED BY <2>2, <2>3 DEF SessionsStand
<1>4. AvailableIsVerified'
    BY DEF ClientIInv, AvailableIsVerified
<1> QED BY <1>1, <1>3, <1>4

LEMMA StandsKept ==
    ASSUME ClientTypeOK, Tame, row' = row, owner' = owner, crossed' = crossed,
           NEW d \in Clients, client'[d] = client[d], NEW p, Stands(d, p)
    PROVE  Stands(d, p)'
<1>1. RunOK(d)
    BY DEF ClientTypeOK
<1>2. Awaited(d, p) => Awaited(d, p)'
    <2>1. CASE RunOf(d).pc = "settle" /\ p = RunOf(d).at
        BY <2>1 DEF Awaited, RunOf
    <2>2. ASSUME NEW k \in DOMAIN RunOf(d).todo, RunOf(d).todo[k].path = p,
                 RunOf(d).todo[k].status = "upload_required",
                 session[RunOf(d).todo[k].ses].state \notin {"processing", "completed"}
          PROVE  Awaited(d, p)'
        <3>1. RunOf(d).todo[k].ses \in DOMAIN session
            BY <1>1, <2>2 DEF RunOK
        <3>2. session'[RunOf(d).todo[k].ses].state \notin {"processing", "completed"}
            BY <2>2, <3>1 DEF Tame
        <3> QED BY <2>2, <3>2 DEF Awaited, RunOf
    <2> QED BY <2>1, <2>2 DEF Awaited
<1> QED BY <1>2 DEF Stands, RunOf

LEMMA DeclaredKept ==
    ASSUME NEW d \in Clients, client'[d] = client[d]
    PROVE  Declared(d)' = Declared(d) /\ (Loud(d)' <=> Loud(d))
    BY DEF Declared, Loud, RunOf

LEMMA TypeKept ==
    ASSUME ClientTypeOK, Tame, row' = row, owner' = owner, canonical' = canonical, disk' = disk,
           DOMAIN client' = Clients, \A c \in Clients : RunOK(c)'
    PROVE  ClientTypeOK'
    BY DEF ClientTypeOK, Tame, SessionFields

(* The runs that had the release to themselves, when c takes a step that    *)
(* leaves the rows alone.                                                   *)
LEMMA OthersUndisturbed ==
    ASSUME ClientIInv, NEW c \in Clients, NEW d \in Clients \ mixed, d # c, row' = row,
           \A e \in Clients \ {c} : client'[e] = client[e], Loud(c)' => Loud(c)
    PROVE  Undisturbed(d)'
<1>1. Undisturbed(d)
    BY DEF ClientIInv, AloneIsUndisturbed
<1>2. client'[d] = client[d] /\ Coverage' = Coverage
    BY DEF Coverage
<1>3. ASSUME NEW e \in Others(d)', client[d].pc # "idle" PROVE ~Loud(e)'
    <2>1. e \in Clients /\ e # d
        BY DEF Others
    <2>2. CASE e = c
        <3>1. Loud(c) => c \in Others(d)
            BY <2>1, <2>2 DEF Others, Loud
        <3> QED BY <1>1, <1>3, <2>2, <3>1 DEF Undisturbed, RunOf
    <2>3. CASE e # c
        <3>1. client'[e] = client[e]
            BY <2>1, <2>3
        <3>2. e \in Others(d)
            BY <2>1, <3>1 DEF Others, RunOf
        <3> QED BY <1>1, <1>3, <2>1, <3>1, <3>2, DeclaredKept DEF Undisturbed, RunOf
    <2> QED BY <2>2, <2>3
<1> QED BY <1>1, <1>2, <1>3 DEF Undisturbed, RunOf

LEMMA StaysUndisturbed ==
    ASSUME ClientIInv, NEW c \in Clients \ mixed, row' = row,
           \A e \in Clients \ {c} : client'[e] = client[e],
           client[c].pc # "idle", client'[c].exit = None,
           client'[c].pc \in Answered =>
               \/ client'[c].cov = Coverage
               \/ client[c].pc \in Answered /\ client'[c].cov = client[c].cov
    PROVE  Undisturbed(c)'
<1>1. Undisturbed(c)
    BY DEF ClientIInv, AloneIsUndisturbed
<1>2. Coverage' = Coverage
    BY DEF Coverage
<1>3. ASSUME NEW e \in Others(c)' PROVE ~Loud(e)'
    <2>1. e \in Clients \ {c} /\ client'[e] = client[e]
        BY DEF Others
    <2>2. e \in Others(c)
        BY <2>1 DEF Others, RunOf
    <2> QED BY <1>1, <2>1, <2>2, DeclaredKept DEF Undisturbed, RunOf
<1>4. client'[c].exit # Exits.internal
    BY ClientAssumption DEF Exits
<1> QED BY <1>1, <1>2, <1>3, <1>4 DEF Undisturbed, RunOf

LEMMA FrameStep ==
    ASSUME ClientIInv, Tame, row' = row, owner' = owner, canonical' = canonical,
           crossed' = crossed, mixed' = mixed, disk' = disk, NEW c \in Clients,
           DOMAIN client' = Clients, \A d \in Clients \ {c} : client'[d] = client[d],
           RunOK(c)', \A p \in Declared(c)' : Stands(c, p)', Loud(c)' => Loud(c),
           c \notin mixed => Undisturbed(c)'
    PROVE  ClientIInv'
<1>1. SessionsKept /\ SessionsStand' /\ AvailableIsVerified'
    BY TameKept
<1>2. ClientTypeOK /\ DeclarationsStand
    BY DEF ClientIInv
<1>3. ASSUME NEW d \in Clients PROVE RunOK(d)'
    <2>1. RunOK(d) /\ DiskKept
        BY <1>2 DEF ClientTypeOK, DiskKept
    <2> QED BY <1>1, <2>1, RunKept
<1>4. ClientTypeOK'
    BY <1>2, <1>3, TypeKept
<1>5. ASSUME NEW d \in Clients, NEW p \in Declared(d)' PROVE Stands(d, p)'
    <2>1. CASE d = c
        BY <1>5, <2>1
    <2>2. CASE d # c
        <3>1. client'[d] = client[d]
            BY <2>2
        <3>2. Stands(d, p)
            BY <1>2, <1>5, <3>1, DeclaredKept DEF DeclarationsStand
        <3> QED BY <1>2, <3>1, <3>2, StandsKept
    <2> QED BY <2>1, <2>2
<1>6. ASSUME NEW d \in Clients \ mixed PROVE Undisturbed(d)'
    BY OthersUndisturbed
<1> QED BY <1>1, <1>4, <1>5, <1>6 DEF ClientIInv, DeclarationsStand, AloneIsUndisturbed

(* A run that ends without a claim. *)
LEMMA FrameExit ==
    ASSUME ClientIInv, Tame, row' = row, owner' = owner, canonical' = canonical,
           crossed' = crossed, mixed' = mixed, disk' = disk, NEW c \in Clients,
           client[c].pc # "idle", NEW code \in {2, 3, 4}, Exit(c, code)
    PROVE  ClientIInv'
<1>1. ClientTypeOK /\ DiskKept
    BY DEF ClientIInv, DiskKept
<1>2. RunOK(c)' /\ Declared(c)' = {} /\ ~Loud(c)'
    BY <1>1, ExitOK
<1>3. /\ DOMAIN client' = Clients /\ \A d \in Clients \ {c} : client'[d] = client[d]
      /\ client'[c].pc = "idle" /\ client'[c].exit = code
    BY <1>1, ExitRun
<1>4. Undisturbed(c)'
    BY <1>3 DEF Undisturbed, RunOf, Answered, Transfer, Exits
<1> QED BY <1>2, <1>3, <1>4, FrameStep

LEMMA FrameRefused ==
    ASSUME ClientIInv, Tame, row' = row, owner' = owner, canonical' = canonical,
           crossed' = crossed, mixed' = mixed, disk' = disk, NEW c \in Clients,
           client[c].pc # "idle",
           NEW e \in {"Invalid", "Unauthorized", "Conflict", "Mismatch", "Unavailable"},
           Refused(c, e)
    PROVE  ClientIInv'
    BY RefusedExit, FrameExit

(* A run that goes on, with the same declarations and uploads left. *)
LEMMA StandsOn ==
    ASSUME ClientTypeOK, Tame, row' = row, owner' = owner, crossed' = crossed,
           NEW c \in Clients, NEW p, Stands(c, p), client[c].pc # "settle",
           client'[c].arts = client[c].arts, client'[c].exit = None,
           \A k \in DOMAIN client[c].todo :
               \/ \E n \in DOMAIN client'[c].todo : client'[c].todo[n] = client[c].todo[k]
               \/ client[c].todo[k].status # "upload_required"
               \/ session[client[c].todo[k].ses].state \in {"processing", "completed"}
    PROVE  Stands(c, p)'
<1>1. RunOK(c)
    BY DEF ClientTypeOK
<1>2. Awaited(c, p) => Awaited(c, p)'
    <2> SUFFICES ASSUME NEW k \in DOMAIN client[c].todo, client[c].todo[k].path = p,
                        client[c].todo[k].status = "upload_required",
                        session[client[c].todo[k].ses].state \notin {"processing", "completed"}
                 PROVE  Awaited(c, p)'
        BY DEF Awaited, RunOf
    <2>1. PICK n \in DOMAIN client'[c].todo : client'[c].todo[n] = client[c].todo[k]
        OBVIOUS
    <2>2. client[c].todo[k].ses \in DOMAIN session
        BY <1>1 DEF RunOK, RunOf
    <2>3. session'[client[c].todo[k].ses].state \notin {"processing", "completed"}
        BY <2>2 DEF Tame
    <2> QED BY <2>1, <2>3 DEF Awaited, RunOf
<1>3. client'[c].exit # Exits.success
    BY ClientAssumption DEF Exits
<1> QED BY <1>2, <1>3 DEF Stands, RunOf

-----------------------------------------------------------------------------
(* The steps of a run that only it sees.                                    *)

LEMMA EarlyRun ==
    ASSUME NEW c, client'[c].pc \in Early, client'[c].exit = None
    PROVE  Declared(c)' = {} /\ ~Loud(c)'
<1>1. client'[c].exit # Exits.success
    BY ClientAssumption DEF Exits
<1> QED BY <1>1 DEF Declared, Loud, RunOf, Early, Answered, Transfer

(* What a run looks like at a step of it. *)
LEMMA RunAt ==
    ASSUME ClientIInv, NEW c \in Clients, NEW pc, AtStep(c, pc), pc # "idle"
    PROVE  /\ ClientTypeOK /\ RunOK(c) /\ client[c].pc = pc /\ client[c].exit = None
           /\ DOMAIN client[c] = RunFields /\ c \in DOMAIN disk /\ IsTree(disk[c])
           /\ pc \in Early \cup {"upsert", "settle", "respond"} \cup Answered
<1>1. ClientTypeOK /\ RunOK(c) /\ client[c].pc = pc
    BY DEF ClientIInv, ClientTypeOK, AtStep, RunOf
<1>2. client[c].exit = None /\ DOMAIN client[c] = RunFields /\ c \in DOMAIN disk
    BY <1>1 DEF RunOK, RunOf, RunFields
<1>3. pc \in Early \cup {"upsert", "settle", "respond"} \cup Answered
    BY <1>1 DEF RunOK, RunOf
<1> QED BY <1>1, <1>2, <1>3 DEF ClientTypeOK

LEMMA ScanInv ==
    ASSUME ClientIInv, NEW c \in Clients, Scan(c)
    PROVE  ClientIInv'
<1>1. AtStep(c, "scan") /\ UNCHANGED <<server, outside>>
    BY DEF Scan
<1>2. /\ ClientTypeOK /\ RunOK(c) /\ client[c].pc = "scan" /\ client[c].exit = None
      /\ DOMAIN client[c] = RunFields /\ c \in DOMAIN disk /\ IsTree(disk[c])
    BY <1>1, RunAt
<1>3. /\ row' = row /\ owner' = owner /\ canonical' = canonical /\ crossed' = crossed
      /\ mixed' = mixed /\ disk' = disk /\ Tame
    BY <1>1, <1>2, SameSessions DEF server, outside
<1>4. CASE Exit(c, Exits.validation)
    <2>1. Exits.validation \in {2, 3, 4}
        BY DEF Exits
    <2> QED BY <1>2, <1>3, <1>4, <2>1, FrameExit
<1>5. ASSUME NEW r, Goto(c, r),
             r = [RunOf(c) EXCEPT !.pc = "hash",
                                  !.found = [p \in Discovered(disk[c]) |-> disk[c].files[p]]]
      PROVE  ClientIInv'
    <2>1. client'[c] = r /\ DOMAIN client' = Clients /\ \A d \in Clients \ {c} : client'[d] = client[d]
        BY <1>2, <1>5, GotoRun
    <2>2. /\ DOMAIN r = RunFields /\ r.pc = "hash" /\ r.exit = None
          /\ r.arts = client[c].arts /\ r.todo = client[c].todo
          /\ r.found = [p \in Discovered(disk[c]) |-> disk[c].files[p]]
        BY <1>2, <1>5 DEF RunOf, RunFields
    <2>3. /\ DOMAIN r.found \subseteq DOMAIN disk[c].files
          /\ \A p \in DOMAIN r.found : r.found[p] \in Library
        BY <1>2, <2>2 DEF Discovered, IsTree
    <2>4. RunOK(c)'
        BY <1>2, <1>3, <2>1, <2>2, <2>3, <1>1
           DEF RunOK, RunOf, RunFields, Early, Transfer, Answered, server
    <2>5. Declared(c)' = {} /\ ~Loud(c)'
        BY <2>1, <2>2, EarlyRun DEF Early
    <2>6. c \notin mixed => Undisturbed(c)'
        BY <1>2, <1>3, <2>1, <2>2, StaysUndisturbed DEF Answered, Transfer
    <2> QED BY <1>3, <2>1, <2>4, <2>5, <2>6, FrameStep
<1> QED BY <1>4, <1>5 DEF Scan

(* What was hashed is what the index can find out. *)
LEMMA HashedFile ==
    ASSUME NEW f \in Library, NEW g \in Library
    PROVE  [bytes |-> f.bytes, id |-> Identity(g)] \in Art
    BY DEF Art

LEMMA HashInv ==
    ASSUME ClientIInv, NEW c \in Clients, Hash(c)
    PROVE  ClientIInv'
<1>1. AtStep(c, "hash") /\ UNCHANGED <<server, outside>>
    BY DEF Hash
<1>2. /\ ClientTypeOK /\ RunOK(c) /\ client[c].pc = "hash" /\ client[c].exit = None
      /\ DOMAIN client[c] = RunFields /\ c \in DOMAIN disk /\ IsTree(disk[c])
    BY <1>1, RunAt
<1>3. /\ row' = row /\ owner' = owner /\ canonical' = canonical /\ crossed' = crossed
      /\ mixed' = mixed /\ disk' = disk /\ Tame
    BY <1>1, <1>2, SameSessions DEF server, outside
<1>4. CASE Exit(c, Exits.validation)
    <2>1. Exits.validation \in {2, 3, 4}
        BY DEF Exits
    <2> QED BY <1>2, <1>3, <1>4, <2>1, FrameExit
<1>5. ASSUME NEW r, Goto(c, r),
             r = [RunOf(c) EXCEPT !.pc = "negotiate", !.found = <<>>,
                     !.arts = [p \in DOMAIN RunOf(c).found |->
                                  [bytes |-> disk[c].files[p].bytes,
                                   id |-> Identity(RunOf(c).found[p])]]]
      PROVE  ClientIInv'
    <2>1. client'[c] = r /\ DOMAIN client' = Clients /\ \A d \in Clients \ {c} : client'[d] = client[d]
        BY <1>2, <1>5, GotoRun
    <2>2. /\ DOMAIN r = RunFields /\ r.pc = "negotiate" /\ r.exit = None /\ r.todo = client[c].todo
          /\ r.arts = [p \in DOMAIN client[c].found |->
                          [bytes |-> disk[c].files[p].bytes, id |-> Identity(client[c].found[p])]]
        BY <1>2, <1>5 DEF RunOf, RunFields
    <2>3. /\ DOMAIN client[c].found \subseteq DOMAIN disk[c].files
          /\ \A p \in DOMAIN client[c].found : client[c].found[p] \in Library
        BY <1>2 DEF RunOK, RunOf
    <2>4. DOMAIN r.arts \subseteq Nat \ {0} /\ \A p \in DOMAIN r.arts : r.arts[p] \in Art
        BY <1>2, <2>2, <2>3, HashedFile DEF IsTree
    <2>5. RunOK(c)'
        BY <1>2, <1>3, <2>1, <2>2, <2>4, <1>1
           DEF RunOK, RunOf, RunFields, Early, Transfer, Answered, server
    <2>6. Declared(c)' = {} /\ ~Loud(c)'
        BY <2>1, <2>2, EarlyRun DEF Early
    <2>7. c \notin mixed => Undisturbed(c)'
        BY <1>2, <1>3, <2>1, <2>2, StaysUndisturbed DEF Answered, Transfer
    <2> QED BY <1>3, <2>1, <2>5, <2>6, <2>7, FrameStep
<1> QED BY <1>4, <1>5 DEF Hash

LEMMA NegotiateInv ==
    ASSUME ClientIInv, NEW c \in Clients, Negotiate(c)
    PROVE  ClientIInv'
<1>1. AtStep(c, "negotiate") /\ UNCHANGED <<server, outside>>
    BY DEF Negotiate
<1>2. /\ ClientTypeOK /\ RunOK(c) /\ client[c].pc = "negotiate" /\ client[c].exit = None
      /\ DOMAIN client[c] = RunFields
    BY <1>1, RunAt
<1>3. /\ row' = row /\ owner' = owner /\ canonical' = canonical /\ crossed' = crossed
      /\ mixed' = mixed /\ disk' = disk /\ Tame
    BY <1>1, <1>2, SameSessions DEF server, outside
<1>4. CASE \E e \in {"Invalid", "Unauthorized"} : Refused(c, e)
    BY <1>2, <1>3, <1>4, FrameRefused
<1>5. ASSUME ValidRequest(client[c].arts), NEW r, Goto(c, r),
             r = [RunOf(c) EXCEPT !.pc = "upsert", !.at = NextPath(client[c].arts, 0)]
      PROVE  ClientIInv'
    <2>1. client'[c] = r /\ DOMAIN client' = Clients /\ \A d \in Clients \ {c} : client'[d] = client[d]
        BY <1>2, <1>5, GotoRun
    <2>2. /\ DOMAIN r = RunFields /\ r.pc = "upsert" /\ r.exit = None /\ r.todo = <<>>
          /\ r.arts = client[c].arts /\ r.at = NextPath(client[c].arts, 0)
        BY <1>2, <1>5 DEF RunOf, RunFields, RunOK, Early
    <2>3. DOMAIN r.arts \subseteq Nat \ {0}
        BY <1>2, <2>2 DEF RunOK, RunOf
    <2>4. DOMAIN r.arts # {}
        <3>1. Cardinality(DOMAIN r.arts) \in 1..MaxFiles /\ MaxFiles \in Nat
            BY <1>5, <2>2, ClientAssumption DEF ValidRequest
        <3> QED BY <3>1, FS_EmptySet
    <2>5. r.at \in DOMAIN r.arts /\ \A q \in DOMAIN r.arts : ~(q < r.at)
        <3>1. PICK q \in DOMAIN r.arts : ~(q <= 0)
            BY <2>3, <2>4
        <3>2. /\ r.at = None => \A x \in DOMAIN r.arts : x <= 0
              /\ r.at # None => r.at \in DOMAIN r.arts
                                /\ \A x \in DOMAIN r.arts : x < r.at => x <= 0
            BY <2>2, <2>3, NextPathFacts
        <3>3. \A x \in DOMAIN r.arts : ~(x <= 0)
            BY <2>3
        <3> QED BY <3>1, <3>2, <3>3
    <2>6. RunOK(c)'
        BY <1>2, <1>3, <2>1, <2>2, <2>5, <1>1
           DEF RunOK, RunOf, RunFields, Early, Transfer, Answered, server
    <2>7. Declared(c)' = {} /\ ~Loud(c)'
        <3>1. r.exit # Exits.success
            BY <2>2, ClientAssumption DEF Exits
        <3> QED BY <2>1, <2>2, <2>5, <3>1 DEF Declared, Loud, RunOf, Answered, Transfer
    <2>8. c \notin mixed => Undisturbed(c)'
        BY <1>2, <1>3, <2>1, <2>2, StaysUndisturbed DEF Answered, Transfer
    <2> QED BY <1>3, <2>1, <2>6, <2>7, <2>8, FrameStep
<1> QED BY <1>4, <1>5 DEF Negotiate, RunOf

(* A run that goes on from one step after its negotiation to another: the   *)
(* same declarations, and no upload dropped.                                *)
LEMMA GoesOn ==
    ASSUME ClientIInv, Tame, row' = row, owner' = owner, canonical' = canonical,
           crossed' = crossed, mixed' = mixed, disk' = disk, NEW c \in Clients, NEW r, Goto(c, r),
           client[c].pc \in {"respond"} \cup Answered, r.pc \in Answered,
           RunOK(c)', r.exit = None, r.arts = client[c].arts,
           r.cov = Coverage \/ (client[c].pc \in Answered /\ r.cov = client[c].cov),
           \A k \in DOMAIN client[c].todo :
               \/ \E n \in DOMAIN r.todo : r.todo[n] = client[c].todo[k]
               \/ client[c].todo[k].status # "upload_required"
               \/ session[client[c].todo[k].ses].state \in {"processing", "completed"}
    PROVE  ClientIInv'
<1>1. ClientTypeOK /\ DeclarationsStand
    BY DEF ClientIInv
<1>2. client'[c] = r /\ DOMAIN client' = Clients /\ \A d \in Clients \ {c} : client'[d] = client[d]
    BY <1>1, GotoRun
<1>3. client[c].pc # "settle" /\ client[c].pc # "idle"
    BY DEF Answered, Transfer
<1>4. ASSUME NEW p \in Declared(c)' PROVE Stands(c, p)'
    <2>1. p \in Declared(c)
        BY <1>2, <1>4 DEF Declared, RunOf
    <2>2. Stands(c, p)
        BY <1>1, <2>1 DEF DeclarationsStand
    <2> QED BY <1>1, <1>2, <1>3, <2>2, StandsOn
<1>5. Loud(c)
    BY DEF Loud, RunOf, Early, Answered, Transfer
<1>6. c \notin mixed => Undisturbed(c)'
    BY <1>2, <1>3, StaysUndisturbed
<1> QED BY <1>2, <1>4, <1>5, <1>6, FrameStep

-----------------------------------------------------------------------------
(* The steps of an upload.                                                  *)

LEMMA GoesOnOK ==
    ASSUME NEW c \in Clients, RunOK(c), NEW r, client'[c] = r, SessionsKept, DiskKept,
           client[c].pc # "idle",
           DOMAIN r = RunFields, r.pc \in Answered, r.exit = None, r.arts = client[c].arts,
           IsSeq(r.todo), r.pc = "poll" => r.todo = <<>>,
           r.pc \in Transfer => r.todo # <<>> /\ r.todo[1].status = "upload_required",
           \A n \in DOMAIN r.todo : \E k \in DOMAIN client[c].todo : r.todo[n] = client[c].todo[k]
    PROVE  RunOK(c)'
<1>1. ASSUME NEW n \in DOMAIN r.todo
      PROVE  /\ r.todo[n].status \in {"already_present", "identity_mismatch", "upload_required"}
             /\ r.todo[n].status = "upload_required" =>
                   /\ r.todo[n].ses \in DOMAIN session'
                   /\ session'[r.todo[n].ses].path = r.todo[n].path
    <2>1. PICK k \in DOMAIN client[c].todo : r.todo[n] = client[c].todo[k]
        OBVIOUS
    <2> QED BY <2>1 DEF RunOK, RunOf, SessionsKept
<1>2. c \in DOMAIN disk' /\ DOMAIN r.arts \subseteq Nat \ {0} /\ \A p \in DOMAIN r.arts : r.arts[p] \in Art
    BY DEF RunOK, RunOf, DiskKept
<1> QED BY <1>1, <1>2 DEF RunOK, RunOf, RunFields, Early, Answered, Transfer

LEMMA FinishedFacts ==
    ASSUME NEW r, DOMAIN r = RunFields
    PROVE  /\ DOMAIN Finished(r) = RunFields /\ Finished(r).pc = "artifact"
           /\ Finished(r).todo = Tail(r.todo) /\ Finished(r).arts = r.arts
           /\ Finished(r).exit = r.exit /\ Finished(r).cov = r.cov
    BY DEF Finished, RunFields

LEMMA AtPartFacts ==
    ASSUME NEW r, DOMAIN r = RunFields, NEW n
    PROVE  LET q == AtPart(r, n)
           IN  /\ DOMAIN q = RunFields /\ q.pc \in {"complete", "sign"} /\ q.todo = r.todo
               /\ q.arts = r.arts /\ q.exit = r.exit /\ q.cov = r.cov
    BY DEF AtPart, RunFields

(* The upload at hand. *)
LEMMA TaskFacts ==
    ASSUME ClientIInv, NEW c \in Clients, client[c].pc \in Transfer
    PROVE  /\ client[c].todo # <<>> /\ 1 \in DOMAIN client[c].todo
           /\ Task(c) = client[c].todo[1] /\ Task(c).status = "upload_required"
           /\ Task(c).ses \in DOMAIN session /\ session[Task(c).ses].path = Task(c).path
<1>1. RunOK(c)
    BY DEF ClientIInv, ClientTypeOK
<1>2. client[c].todo # <<>> /\ client[c].todo[1].status = "upload_required"
    BY <1>1 DEF RunOK, RunOf
<1>3. 1 \in DOMAIN client[c].todo /\ Head(client[c].todo) = client[c].todo[1]
    BY <1>1, <1>2, IsSeqFacts DEF RunOK, RunOf
<1> QED BY <1>1, <1>2, <1>3 DEF RunOK, RunOf, Task

LEMMA SessionStep ==
    ASSUME ClientTypeOK, NEW i \in DOMAIN session, NEW s,
           session' = [session EXCEPT ![i] = s],
           DOMAIN s = SessionFields, s.path = session[i].path, s.art = session[i].art,
           \/ s.state = session[i].state
           \/ s.state = "completing" /\ session[i].state \in {"active", "completing"}
    PROVE  Tame
<1>1. IsSeq(session') /\ DOMAIN session' = DOMAIN session
    BY IsSeqExcept DEF ClientTypeOK
<1> QED BY <1>1 DEF Tame, SessionFields, ClientTypeOK

LEMMA RespondInv ==
    ASSUME ClientIInv, NEW c \in Clients, Respond(c)
    PROVE  ClientIInv'
<1> DEFINE r == [RunOf(c) EXCEPT !.pc = "artifact", !.cov = Coverage]
<1>1. AtStep(c, "respond") /\ UNCHANGED <<server, outside>> /\ Goto(c, r)
    BY DEF Respond
<1>2. /\ ClientTypeOK /\ RunOK(c) /\ client[c].pc = "respond" /\ client[c].exit = None
      /\ DOMAIN client[c] = RunFields
    BY <1>1, RunAt
<1>3. /\ row' = row /\ owner' = owner /\ canonical' = canonical /\ crossed' = crossed
      /\ mixed' = mixed /\ disk' = disk /\ Tame /\ SessionsKept /\ DiskKept
    BY <1>1, <1>2, SameSessions, TameKept DEF server, outside, DiskKept
<1>4. /\ DOMAIN r = RunFields /\ r.pc = "artifact" /\ r.exit = None /\ r.cov = Coverage
      /\ r.arts = client[c].arts /\ r.todo = client[c].todo
    BY <1>2 DEF RunOf, RunFields
<1> HIDE DEF r
<1>5. client'[c] = r
    BY <1>1, <1>2, GotoRun
<1>6. RunOK(c)'
    BY <1>2, <1>3, <1>4, <1>5, GoesOnOK DEF RunOK, RunOf, Answered, Transfer
<1> QED BY <1>1, <1>2, <1>3, <1>4, <1>6, GoesOn DEF Answered

LEMMA ArtifactInv ==
    ASSUME ClientIInv, NEW c \in Clients, Artifact(c)
    PROVE  ClientIInv'
<1> DEFINE r == client[c]
<1>1. AtStep(c, "artifact") /\ UNCHANGED <<server, outside>>
    BY DEF Artifact
<1>2. /\ ClientTypeOK /\ RunOK(c) /\ r.pc = "artifact" /\ r.exit = None /\ DOMAIN r = RunFields
    BY <1>1, RunAt
<1>3. /\ row' = row /\ owner' = owner /\ canonical' = canonical /\ crossed' = crossed
      /\ mixed' = mixed /\ disk' = disk /\ Tame /\ SessionsKept /\ DiskKept
    BY <1>1, <1>2, SameSessions, TameKept DEF server, outside, DiskKept
<1>4. IsSeq(r.todo)
    BY <1>2 DEF RunOK, RunOf
<1>5. ASSUME NEW q, Goto(c, q), DOMAIN q = RunFields, q.pc \in Answered, q.exit = None,
             q.arts = r.arts, q.cov = r.cov, IsSeq(q.todo), q.pc = "poll" => q.todo = <<>>,
             q.pc \in Transfer => q.todo # <<>> /\ q.todo[1].status = "upload_required",
             \A n \in DOMAIN q.todo : \E k \in DOMAIN r.todo : q.todo[n] = r.todo[k],
             \A k \in DOMAIN r.todo :
                (\E n \in DOMAIN q.todo : q.todo[n] = r.todo[k]) \/ r.todo[k].status # "upload_required"
      PROVE  ClientIInv'
    <2>1. client'[c] = q
        BY <1>2, <1>5, GotoRun
    <2>2. RunOK(c)'
        BY <1>2, <1>3, <1>5, <2>1, GoesOnOK
    <2> QED BY <1>2, <1>3, <1>5, <2>2, GoesOn DEF Answered
<1>6. CASE r.todo = <<>>
    <2> DEFINE q == [r EXCEPT !.pc = "poll"]
    <2>1. Goto(c, q)
        BY <1>6 DEF Artifact, RunOf
    <2>2. /\ DOMAIN q = RunFields /\ q.pc = "poll" /\ q.exit = None /\ q.todo = r.todo
          /\ q.arts = r.arts /\ q.cov = r.cov
        BY <1>2 DEF RunFields
    <2> HIDE DEF q
    <2> QED BY <1>4, <1>5, <1>6, <2>1, <2>2 DEF Answered, Transfer
<1>7. CASE r.todo # <<>>
    <2>1. 1 \in DOMAIN r.todo /\ Head(r.todo) = r.todo[1]
        BY <1>4, <1>7, IsSeqFacts
    <2>2. r.todo[1].status \in {"already_present", "identity_mismatch", "upload_required"}
        BY <1>2, <2>1 DEF RunOK, RunOf
    <2>3. CASE r.todo[1].status = "identity_mismatch"
        <3>1. Exit(c, Exits.validation)
            BY <1>7, <2>1, <2>3 DEF Artifact, RunOf
        <3>2. Exits.validation \in {2, 3, 4}
            BY DEF Exits
        <3> QED BY <1>2, <1>3, <3>1, <3>2, FrameExit
    <2>4. CASE r.todo[1].status = "already_present"
        <3>1. Goto(c, Finished(r))
            BY <1>7, <2>1, <2>4 DEF Artifact, RunOf
        <3>2. /\ DOMAIN Finished(r) = RunFields /\ Finished(r).pc = "artifact"
              /\ Finished(r).todo = Tail(r.todo) /\ Finished(r).arts = r.arts
              /\ Finished(r).exit = None /\ Finished(r).cov = r.cov
            BY <1>2, FinishedFacts
        <3>3. /\ IsSeq(Tail(r.todo))
              /\ \A n \in DOMAIN Tail(r.todo) : \E k \in DOMAIN r.todo : Tail(r.todo)[n] = r.todo[k]
              /\ \A k \in DOMAIN r.todo : \/ \E n \in DOMAIN Tail(r.todo) : Tail(r.todo)[n] = r.todo[k]
                                          \/ r.todo[k].status # "upload_required"
            BY <1>4, <1>7, <2>4, IsSeqTail
        <3> QED BY <1>5, <3>1, <3>2, <3>3 DEF Answered, Transfer
    <2>5. CASE r.todo[1].status = "upload_required"
        <3>1. Goto(c, AtPart(r, 1))
            BY <1>7, <2>1, <2>5 DEF Artifact, RunOf
        <3> DEFINE q == AtPart(r, 1)
        <3>2. /\ DOMAIN q = RunFields /\ q.pc \in {"complete", "sign"} /\ q.todo = r.todo
              /\ q.arts = r.arts /\ q.exit = None /\ q.cov = r.cov
            BY <1>2, AtPartFacts
        <3> HIDE DEF q
        <3> QED BY <1>4, <1>5, <1>7, <2>5, <3>1, <3>2 DEF Answered, Transfer, q
    <2> QED BY <2>2, <2>3, <2>4, <2>5
<1> QED BY <1>6, <1>7

(* A run that goes on with the upload at hand. *)
LEMMA UploadsOn ==
    ASSUME ClientIInv, Tame, row' = row, owner' = owner, canonical' = canonical,
           crossed' = crossed, mixed' = mixed, disk' = disk, NEW c \in Clients, NEW q, Goto(c, q),
           client[c].pc \in Transfer, q.pc \in Transfer, DOMAIN q = RunFields, q.exit = None,
           q.arts = client[c].arts, q.cov = client[c].cov, q.todo = client[c].todo
    PROVE  ClientIInv'
<1>1. ClientTypeOK /\ RunOK(c) /\ SessionsKept /\ DiskKept
    BY TameKept DEF ClientIInv, ClientTypeOK, DiskKept
<1>2. client'[c] = q
    BY <1>1, GotoRun
<1>3. IsSeq(q.todo) /\ q.todo # <<>> /\ q.todo[1].status = "upload_required"
    BY <1>1 DEF RunOK, RunOf
<1>4. RunOK(c)'
    BY <1>1, <1>2, <1>3, GoesOnOK DEF Answered, Transfer
<1> QED BY <1>4, GoesOn DEF Answered

LEMMA SignInv ==
    ASSUME ClientIInv, NEW c \in Clients, Sign(c)
    PROVE  ClientIInv'
<1>1. AtStep(c, "sign") /\ UNCHANGED <<server, outside>>
    BY DEF Sign
<1>2. ClientTypeOK /\ client[c].pc = "sign" /\ client[c].exit = None /\ DOMAIN client[c] = RunFields
    BY <1>1, RunAt
<1>3. /\ row' = row /\ owner' = owner /\ canonical' = canonical /\ crossed' = crossed
      /\ mixed' = mixed /\ disk' = disk /\ Tame
    BY <1>1, <1>2, SameSessions DEF server, outside
<1>4. \/ Exit(c, Exits.validation)
      \/ \E e \in {"Unauthorized", "Conflict"} : Refused(c, e)
      \/ \E part : Goto(c, [RunOf(c) EXCEPT !.pc = "put", !.sent = part])
    BY DEF Sign
<1>5. CASE Exit(c, Exits.validation)
    <2>1. Exits.validation \in {2, 3, 4}
        BY DEF Exits
    <2> QED BY <1>2, <1>3, <1>5, <2>1, FrameExit
<1>6. CASE \E e \in {"Unauthorized", "Conflict"} : Refused(c, e)
    BY <1>2, <1>3, <1>6, FrameRefused
<1>7. ASSUME NEW part, Goto(c, [RunOf(c) EXCEPT !.pc = "put", !.sent = part])
      PROVE  ClientIInv'
    <2> DEFINE q == [RunOf(c) EXCEPT !.pc = "put", !.sent = part]
    <2>1. /\ DOMAIN q = RunFields /\ q.pc = "put" /\ q.exit = None /\ q.arts = client[c].arts
          /\ q.cov = client[c].cov /\ q.todo = client[c].todo
        BY <1>2 DEF RunOf, RunFields
    <2>2. Goto(c, q)
        BY <1>7
    <2> HIDE DEF q
    <2> QED BY <1>2, <1>3, <2>1, <2>2, UploadsOn DEF Transfer
<1> QED BY <1>4, <1>5, <1>6, <1>7

LEMMA PutInv ==
    ASSUME ClientIInv, NEW c \in Clients, Put(c)
    PROVE  ClientIInv'
<1> DEFINE i == Task(c).ses
<1>1. /\ AtStep(c, "put")
      /\ row' = row /\ owner' = owner /\ canonical' = canonical /\ crossed' = crossed
      /\ mixed' = mixed /\ disk' = disk
    BY DEF Put, outside
<1>2. ClientTypeOK /\ client[c].pc = "put" /\ client[c].exit = None /\ DOMAIN client[c] = RunFields
    BY <1>1, RunAt
<1>3. i \in DOMAIN session
    BY <1>2, TaskFacts DEF Transfer
<1>4. CASE Exit(c, Exits.retryable) /\ UNCHANGED session
    <2>1. Exits.retryable \in {2, 3, 4} /\ Tame
        BY <1>2, <1>4, SameSessions DEF Exits
    <2> QED BY <1>1, <1>2, <1>4, <2>1, FrameExit
<1>5. CASE /\ session' = [session EXCEPT ![i].put = Set(@, RunOf(c).part, RunOf(c).sent)]
           /\ Goto(c, [RunOf(c) EXCEPT !.pc = "record"])
    <2> DEFINE s == [session[i] EXCEPT !.put = Set(@, RunOf(c).part, RunOf(c).sent)]
               q == [RunOf(c) EXCEPT !.pc = "record"]
    <2>1. session' = [session EXCEPT ![i] = s]
        BY <1>5
    <2>2. /\ DOMAIN s = SessionFields /\ s.path = session[i].path /\ s.art = session[i].art
          /\ s.state = session[i].state
        BY <1>2, <1>3 DEF ClientTypeOK, SessionFields
    <2> HIDE DEF s
    <2>3. Tame
        BY <1>2, <1>3, <2>1, <2>2, SessionStep
    <2>4. /\ DOMAIN q = RunFields /\ q.pc = "record" /\ q.exit = None /\ q.arts = client[c].arts
          /\ q.cov = client[c].cov /\ q.todo = client[c].todo
        BY <1>2 DEF RunOf, RunFields
    <2>5. Goto(c, q)
        BY <1>5
    <2> HIDE DEF q
    <2> QED BY <1>1, <1>2, <2>3, <2>4, <2>5, UploadsOn DEF Transfer
<1> QED BY <1>4, <1>5 DEF Put

LEMMA RecordInv ==
    ASSUME ClientIInv, NEW c \in Clients, Record(c)
    PROVE  ClientIInv'
<1> DEFINE i == Task(c).ses
           n == RunOf(c).part
<1>1. /\ AtStep(c, "record")
      /\ row' = row /\ owner' = owner /\ canonical' = canonical /\ crossed' = crossed
      /\ mixed' = mixed /\ disk' = disk
    BY DEF Record, outside
<1>2. ClientTypeOK /\ client[c].pc = "record" /\ client[c].exit = None /\ DOMAIN client[c] = RunFields
    BY <1>1, RunAt
<1>3. i \in DOMAIN session
    BY <1>2, TaskFacts DEF Transfer
<1>4. \/ \E e \in {"Unauthorized", "Conflict"} : Refused(c, e) /\ UNCHANGED session
      \/ /\ session' = [session EXCEPT ![i].rec = Set(@, n, RunOf(c).sent)]
         /\ Goto(c, AtPart(RunOf(c), n + 1))
    BY DEF Record
<1>5. CASE \E e \in {"Unauthorized", "Conflict"} : Refused(c, e) /\ UNCHANGED session
    <2>1. Tame
        BY <1>2, <1>5, SameSessions
    <2> QED BY <1>1, <1>2, <1>5, <2>1, FrameRefused
<1>6. CASE /\ session' = [session EXCEPT ![i].rec = Set(@, n, RunOf(c).sent)]
           /\ Goto(c, AtPart(RunOf(c), n + 1))
    <2> DEFINE s == [session[i] EXCEPT !.rec = Set(@, n, RunOf(c).sent)]
               q == AtPart(RunOf(c), n + 1)
    <2>1. session' = [session EXCEPT ![i] = s]
        BY <1>6
    <2>2. /\ DOMAIN s = SessionFields /\ s.path = session[i].path /\ s.art = session[i].art
          /\ s.state = session[i].state
        BY <1>2, <1>3 DEF ClientTypeOK, SessionFields
    <2> HIDE DEF s
    <2>3. Tame
        BY <1>2, <1>3, <2>1, <2>2, SessionStep
    <2>4. /\ DOMAIN q = RunFields /\ q.pc \in {"complete", "sign"} /\ q.todo = client[c].todo
          /\ q.arts = client[c].arts /\ q.exit = None /\ q.cov = client[c].cov
        BY <1>2, AtPartFacts DEF RunOf
    <2>5. Goto(c, q)
        BY <1>6
    <2> HIDE DEF q
    <2> QED BY <1>1, <1>2, <2>3, <2>4, <2>5, UploadsOn DEF Transfer
<1> QED BY <1>4, <1>5, <1>6

-----------------------------------------------------------------------------
(* The end of a run, and what may go wrong.                                 *)

(* A coverage says that no row has a state only if none has it. *)
LEMMA NoneCovered ==
    ASSUME ClientTypeOK, NEW s \in RowStates
    PROVE  /\ Coverage[s] \in Nat
           /\ Coverage[s] = 0 => \A p \in DOMAIN row : row[p].state # s
<1> DEFINE S == {p \in DOMAIN row : row[p].state = s}
<1>1. Coverage[s] = Cardinality(S)
    BY DEF Coverage, RowStates
<1>2. IsFiniteSet(S)
    BY FS_Subset DEF ClientTypeOK
<1>3. Cardinality(S) \in Nat /\ (Cardinality(S) = 0 <=> S = {})
    BY <1>2, FS_CardinalityType, FS_EmptySet
<1> QED BY <1>1, <1>3

LEMMA PollInv ==
    ASSUME ClientIInv, NEW c \in Clients, Poll(c)
    PROVE  ClientIInv'
<1> DEFINE v == Verdict(RunOf(c))
<1>1. AtStep(c, "poll") /\ UNCHANGED <<server, outside>>
    BY DEF Poll
<1>2. /\ ClientTypeOK /\ RunOK(c) /\ client[c].pc = "poll" /\ client[c].exit = None
      /\ c \in DOMAIN disk
    BY <1>1, RunAt
<1>3. /\ row' = row /\ owner' = owner /\ canonical' = canonical /\ crossed' = crossed
      /\ mixed' = mixed /\ disk' = disk /\ Tame /\ DiskKept
    BY <1>1, <1>2, SameSessions DEF server, outside, DiskKept
<1>4. CASE Refused(c, "Unauthorized")
    BY <1>2, <1>3, <1>4, FrameRefused
<1>5. CASE v # None /\ Exit(c, v)
    <2>1. \A s \in RowStates : Coverage[s] \in Nat
        BY <1>2, NoneCovered
    <2>2. \/ v = Exits.validation
          \/ /\ v = Exits.internal /\ RunOf(c).cov # Coverage /\ RunOf(c).cov["processing"] = 0
          \/ /\ v = Exits.success /\ Coverage["quarantined"] = 0 /\ Coverage["mismatch"] = 0
             /\ Coverage["processing"] = 0
        BY <1>5, <2>1 DEF Verdict, RowStates
    <2>3. /\ DOMAIN client' = Clients /\ \A d \in Clients \ {c} : client'[d] = client[d]
          /\ DOMAIN client'[c] = RunFields
          /\ client'[c].pc = "idle" /\ client'[c].exit = v /\ client'[c].todo = <<>>
          /\ client'[c].arts = client[c].arts
        BY <1>2, <1>5, ExitRun
    <2>4. RunOK(c)'
        BY <1>2, <1>3, <2>3, IsSeqEmpty
           DEF RunOK, RunOf, RunFields, DiskKept, Early, Transfer, Answered
    <2>5. ~Loud(c)'
        BY <2>3 DEF Loud, RunOf
    <2>6. CASE v = Exits.validation
        <3>1. v \in {2, 3, 4}
            BY <2>6 DEF Exits
        <3> QED BY <1>2, <1>3, <1>5, <3>1, FrameExit
    <2>7. CASE /\ v = Exits.internal /\ RunOf(c).cov # Coverage /\ RunOf(c).cov["processing"] = 0
        <3>1. c \in mixed
            BY <1>2, <2>7 DEF ClientIInv, AloneIsUndisturbed, Undisturbed, RunOf, Answered
        <3>2. Declared(c)' = {}
            BY <2>3, <2>7 DEF Declared, RunOf, Answered, Transfer, Exits
        <3> QED BY <1>3, <2>3, <2>4, <2>5, <3>1, <3>2, FrameStep
    <2>8. CASE /\ v = Exits.success /\ Coverage["quarantined"] = 0 /\ Coverage["mismatch"] = 0
               /\ Coverage["processing"] = 0
        <3>1. \A p \in DOMAIN row : row[p].state \in {"available", "missing"}
            <4>1. \A p \in DOMAIN row : row[p].state \in RowStates
                BY <1>2 DEF ClientTypeOK
            <4>2. \A p \in DOMAIN row : row[p].state \notin {"quarantined", "mismatch", "processing"}
                BY <1>2, <2>8, NoneCovered DEF RowStates
            <4> QED BY <4>1, <4>2 DEF RowStates
        <3>2. ASSUME NEW p \in Declared(c)' PROVE Stands(c, p)'
            <4>1. p \in Declared(c)
                BY <1>2, <2>3, <3>2 DEF Declared, RunOf, Answered
            <4>2. Stands(c, p)
                BY <4>1 DEF ClientIInv, DeclarationsStand
            <4>3. ~Awaited(c, p)
                <5>1. client[c].todo = <<>>
                    BY <1>2 DEF RunOK, RunOf
                <5> QED BY <1>2, <5>1, IsSeqEmpty DEF Awaited, RunOf
            <4>4. owner[p] = c /\ p \notin crossed => row[p].state = "available"
                BY <3>1, <4>2, <4>3 DEF Stands
            <4>5. p \in DOMAIN row /\ (owner[p] = c => row[p].art = client[c].arts[p])
                BY <4>2 DEF Stands, RunOf
            <4> QED BY <1>3, <2>3, <4>4, <4>5 DEF Stands, RunOf
        <3>3. Undisturbed(c)'
            BY <2>3, <2>8 DEF Undisturbed, RunOf, Answered, Transfer, Exits
        <3> QED BY <1>3, <2>3, <2>4, <2>5, <3>2, <3>3, FrameStep
    <2> QED BY <2>2, <2>6, <2>7, <2>8
<1> QED BY <1>4, <1>5 DEF Poll

LEMMA LoseInv ==
    ASSUME ClientIInv, NEW c \in Clients, Lose(c)
    PROVE  ClientIInv'
<1>1. /\ client[c].pc # "idle" /\ Exit(c, Exits.retryable)
      /\ UNCHANGED <<server, disk>>
    BY DEF Lose, Waiting, RunOf
<1>2. Tame /\ Exits.retryable \in {2, 3, 4}
    BY <1>1, SameSessions DEF server, ClientIInv, Exits
<1> QED BY <1>1, <1>2, FrameExit DEF server

LEMMA CompletedFacts ==
    ASSUME NEW s, DOMAIN s = SessionFields, NEW state
    PROVE  /\ DOMAIN Completed(s, state) = SessionFields /\ Completed(s, state).path = s.path
           /\ Completed(s, state).art = s.art /\ Completed(s, state).state = state
    BY DEF Completed, SessionFields

LEMMA CompleteStopsInv ==
    ASSUME ClientIInv, NEW c \in Clients, CompleteStops(c)
    PROVE  ClientIInv'
<1> DEFINE i == Task(c).ses
<1>1. /\ AtStep(c, "complete") /\ Exit(c, Exits.retryable) /\ session[i].state = "active"
      /\ row' = row /\ owner' = owner /\ canonical' = canonical /\ crossed' = crossed
      /\ mixed' = mixed /\ disk' = disk
    BY DEF CompleteStops, Writable
<1>2. ClientTypeOK /\ client[c].pc = "complete"
    BY <1>1, RunAt
<1>3. i \in DOMAIN session /\ DOMAIN session[i] = SessionFields
    BY <1>2, TaskFacts DEF Transfer, ClientTypeOK, SessionFields
<1>4. \/ session' = [session EXCEPT ![i] = [session[i] EXCEPT !.state = "completing"]]
      \/ session' = [session EXCEPT ![i] = Completed(session[i], "completing")]
    BY DEF CompleteStops
<1>5. CASE session' = [session EXCEPT ![i] = [session[i] EXCEPT !.state = "completing"]]
    <2> DEFINE s == [session[i] EXCEPT !.state = "completing"]
    <2>1. /\ DOMAIN s = SessionFields /\ s.path = session[i].path /\ s.art = session[i].art
          /\ s.state = "completing"
        BY <1>3 DEF SessionFields
    <2>2. session' = [session EXCEPT ![i] = s]
        BY <1>5
    <2> HIDE DEF s
    <2>3. Tame
        BY <1>1, <1>2, <1>3, <2>1, <2>2, SessionStep
    <2>4. Exits.retryable \in {2, 3, 4} /\ client[c].pc # "idle"
        BY <1>2 DEF Exits
    <2> QED BY <1>1, <2>3, <2>4, FrameExit
<1>6. CASE session' = [session EXCEPT ![i] = Completed(session[i], "completing")]
    <2> DEFINE s == Completed(session[i], "completing")
    <2>0. /\ DOMAIN s = SessionFields /\ s.path = session[i].path /\ s.art = session[i].art
          /\ s.state = "completing"
        BY <1>3, CompletedFacts
    <2>1. Tame
        BY <1>1, <1>2, <1>3, <1>6, <2>0, SessionStep
    <2>2. Exits.retryable \in {2, 3, 4} /\ client[c].pc # "idle"
        BY <1>2 DEF Exits
    <2> QED BY <1>1, <2>1, <2>2, FrameExit
<1> QED BY <1>4, <1>5, <1>6

(* A step of no run that leaves the rows alone. *)
LEMMA NoRunStep ==
    ASSUME ClientIInv, Tame, DiskKept, client' = client,
           UNCHANGED <<row, owner, canonical, crossed, mixed>>,
           \A c \in DOMAIN disk' : IsTree(disk'[c])
    PROVE  ClientIInv'
<1>1. ClientTypeOK /\ SessionsKept /\ SessionsStand' /\ AvailableIsVerified'
    BY TameKept DEF ClientIInv
<1>2. ASSUME NEW d \in Clients PROVE RunOK(d)'
    <2>1. RunOK(d)
        BY <1>1 DEF ClientTypeOK
    <2> QED BY <1>1, <2>1, RunKept
<1>3. ClientTypeOK'
    BY <1>1, <1>2 DEF ClientTypeOK, Tame, SessionFields, DiskKept
<1>4. ASSUME NEW d \in Clients, NEW p \in Declared(d)' PROVE Stands(d, p)'
    <2>1. Stands(d, p)
        BY <1>4, DeclaredKept DEF ClientIInv, DeclarationsStand
    <2> QED BY <1>1, <2>1, StandsKept
<1>5. ASSUME NEW d \in Clients \ mixed PROVE Undisturbed(d)'
    <2>1. Undisturbed(d)
        BY DEF ClientIInv, AloneIsUndisturbed
    <2>2. Coverage' = Coverage
        BY DEF Coverage
    <2>3. Others(d)' = Others(d) /\ \A e \in Clients : Loud(e)' <=> Loud(e)
        BY DEF Others, RunOf, Loud
    <2>4. Others(d) \subseteq Clients
        BY DEF Others
    <2> QED BY <2>1, <2>2, <2>3, <2>4 DEF Undisturbed, RunOf
<1> QED BY <1>1, <1>3, <1>4, <1>5 DEF ClientIInv, DeclarationsStand, AloneIsUndisturbed

LEMMA ExpireInv ==
    ASSUME ClientIInv, NEW i \in DOMAIN session, Expire(i)
    PROVE  ClientIInv'
<1> DEFINE s == [session[i] EXCEPT !.expired = TRUE]
<1>1. ClientTypeOK /\ DiskKept /\ client' = client /\ UNCHANGED <<row, owner, canonical, crossed, mixed>>
    BY DEF ClientIInv, DiskKept, Expire
<1>2. session' = [session EXCEPT ![i] = s]
    BY DEF Expire
<1>3. /\ DOMAIN s = SessionFields /\ s.path = session[i].path /\ s.art = session[i].art
      /\ s.state = session[i].state
    BY <1>1 DEF ClientTypeOK, SessionFields
<1> HIDE DEF s
<1>4. Tame
    BY <1>1, <1>2, <1>3, SessionStep
<1>5. \A c \in DOMAIN disk' : IsTree(disk'[c])
    BY <1>1 DEF Expire, ClientTypeOK
<1> QED BY <1>1, <1>4, <1>5, NoRunStep

LEMMA ChangeInv ==
    ASSUME ClientIInv, NEW c \in DOMAIN disk, NEW p \in DOMAIN disk[c].files, NEW f \in Library,
           Change(c, p, f)
    PROVE  ClientIInv'
<1>1. /\ client' = client /\ session' = session /\ UNCHANGED <<row, owner, canonical, crossed, mixed>>
      /\ disk' = [disk EXCEPT ![c].files[p] = f]
    BY DEF Change, server
<1>2. ClientTypeOK /\ Tame
    BY <1>1, SameSessions DEF ClientIInv
<1>3. ASSUME NEW d \in DOMAIN disk
      PROVE  DOMAIN disk'[d].files = DOMAIN disk[d].files /\ IsTree(disk'[d])
    <2>1. IsTree(disk[d])
        BY <1>2 DEF ClientTypeOK
    <2>2. CASE d # c
        BY <1>1, <2>1, <2>2
    <2>3. CASE d = c
        <3>1. /\ DOMAIN disk'[d] = {"files", "dirs", "depth"}
              /\ disk'[d].files = [disk[d].files EXCEPT ![p] = f]
            BY <1>1, <2>1, <2>3 DEF IsTree
        <3> QED BY <2>1, <3>1 DEF IsTree
    <2> QED BY <2>2, <2>3
<1>4. DiskKept /\ \A d \in DOMAIN disk' : IsTree(disk'[d])
    BY <1>1, <1>3 DEF DiskKept
<1> QED BY <1>1, <1>2, <1>4, NoRunStep

LEMMA RevokeInv ==
    ASSUME ClientIInv, Revoke
    PROVE  ClientIInv'
<1>1. /\ client' = client /\ session' = session /\ UNCHANGED <<row, owner, canonical, crossed, mixed>>
      /\ disk' = disk
    BY DEF Revoke, server
<1>2. ClientTypeOK /\ Tame
    BY <1>1, SameSessions DEF ClientIInv
<1>3. DiskKept /\ \A d \in DOMAIN disk' : IsTree(disk'[d])
    BY <1>1, <1>2 DEF DiskKept, ClientTypeOK
<1> QED BY <1>1, <1>2, <1>3, NoRunStep

LEMMA StutterInv ==
    ASSUME ClientIInv, UNCHANGED clientVars
    PROVE  ClientIInv'
<1>1. /\ client' = client /\ session' = session /\ UNCHANGED <<row, owner, canonical, crossed, mixed>>
      /\ disk' = disk
    BY DEF clientVars
<1>2. ClientTypeOK /\ Tame
    BY <1>1, SameSessions DEF ClientIInv
<1>3. DiskKept /\ \A d \in DOMAIN disk' : IsTree(disk'[d])
    BY <1>1, <1>2 DEF DiskKept, ClientTypeOK
<1> QED BY <1>1, <1>2, <1>3, NoRunStep

(* A rerun: alone if nobody else is there when it starts. *)
LEMMA RerunInv ==
    ASSUME ClientIInv, NEW c \in Clients, Rerun(c)
    PROVE  ClientIInv'
<1>1. /\ client[c].exit = Exits.retryable /\ Goto(c, Fresh)
      /\ mixed' = (mixed \ {c}) \cup (IF Others(c) # {} THEN {c} ELSE {})
      /\ row' = row /\ session' = session /\ canonical' = canonical /\ owner' = owner
      /\ crossed' = crossed /\ disk' = disk
    BY DEF Rerun, RunOf
<1>2. ClientTypeOK /\ Tame /\ DiskKept
    BY <1>1, SameSessions DEF ClientIInv, DiskKept
<1>3. SessionsKept /\ SessionsStand' /\ AvailableIsVerified'
    BY <1>1, <1>2, TameKept
<1>4. client'[c] = Fresh /\ DOMAIN client' = Clients /\ \A d \in Clients \ {c} : client'[d] = client[d]
    BY <1>1, <1>2, GotoRun
<1>5. /\ DOMAIN Fresh = RunFields /\ Fresh.pc = "scan" /\ Fresh.exit = None /\ Fresh.todo = <<>>
      /\ Fresh.arts = <<>>
    BY DEF Fresh, RunFields
<1>6. RunOK(c)'
    <2>1. c \in DOMAIN disk'
        BY <1>1, <1>2, ClientAssumption DEF ClientTypeOK, RunOK, RunOf, Exits
    <2> QED BY <1>4, <1>5, <2>1, IsSeqEmpty DEF RunOK, RunOf, RunFields, Early, Transfer, Answered
<1>7. Declared(c)' = {} /\ ~Loud(c)'
    BY <1>4, <1>5, EarlyRun DEF Early
<1>8. ASSUME NEW d \in Clients PROVE RunOK(d)'
    <2>1. RunOK(d)
        BY <1>2 DEF ClientTypeOK
    <2> QED BY <1>2, <1>3, <1>4, <1>6, <2>1, RunKept
<1>9. ClientTypeOK'
    BY <1>1, <1>2, <1>4, <1>8, TypeKept
<1>10. ASSUME NEW d \in Clients, NEW p \in Declared(d)' PROVE Stands(d, p)'
    <2>1. d # c /\ client'[d] = client[d]
        BY <1>4, <1>7, <1>10
    <2>2. Stands(d, p)
        BY <1>10, <2>1, DeclaredKept DEF ClientIInv, DeclarationsStand
    <2> QED BY <1>1, <1>2, <2>1, <2>2, StandsKept
<1>11. ASSUME NEW d \in Clients \ mixed' PROVE Undisturbed(d)'
    <2>1. CASE d # c
        BY <1>1, <1>4, <1>7, <1>11, <2>1, OthersUndisturbed
    <2>2. CASE d = c
        <3>1. Others(c)' = {}
            BY <1>1, <1>4, <1>11, <2>2 DEF Others, RunOf
        <3>2. client'[c].exit # Exits.internal /\ client'[c].pc \notin Answered
            BY <1>4, <1>5, ClientAssumption DEF Exits, Answered, Transfer
        <3> QED BY <2>2, <3>1, <3>2 DEF Undisturbed, RunOf
    <2> QED BY <2>1, <2>2
<1> QED BY <1>3, <1>9, <1>10, <1>11 DEF ClientIInv, DeclarationsStand, AloneIsUndisturbed

-----------------------------------------------------------------------------
(* The steps that write a row.                                              *)

Ahead == {"processing", "completed"}

LEMMA StandsAt ==
    ASSUME NEW d \in Clients, RunOK(d), client'[d] = client[d], NEW q, Stands(d, q),
           DOMAIN row \subseteq DOMAIN row', row'[q] = row[q], owner'[q] = owner[q],
           crossed \subseteq crossed',
           \A i \in DOMAIN session : session[i].path = q /\ session[i].state \notin Ahead
               => session'[i].state \notin Ahead
    PROVE  Stands(d, q)'
<1>1. Awaited(d, q) => Awaited(d, q)'
    <2>1. CASE RunOf(d).pc = "settle" /\ q = RunOf(d).at
        BY <2>1 DEF Awaited, RunOf
    <2>2. ASSUME NEW k \in DOMAIN RunOf(d).todo, RunOf(d).todo[k].path = q,
                 RunOf(d).todo[k].status = "upload_required",
                 session[RunOf(d).todo[k].ses].state \notin Ahead
          PROVE  Awaited(d, q)'
        <3>1. RunOf(d).todo[k].ses \in DOMAIN session /\ session[RunOf(d).todo[k].ses].path = q
            BY <2>2 DEF RunOK
        <3>2. session'[RunOf(d).todo[k].ses].state \notin Ahead
            BY <2>2, <3>1
        <3> QED BY <2>2, <3>2 DEF Awaited, RunOf, Ahead
    <2> QED BY <2>1, <2>2 DEF Awaited, Ahead
<1> QED BY <1>1 DEF Stands, RunOf

(* An idle run is no concern of others. *)
LEMMA IdleUndisturbed ==
    ASSUME NEW d \in Clients, Undisturbed(d), client[d].pc = "idle", client'[d] = client[d]
    PROVE  Undisturbed(d)'
    BY DEF Undisturbed, RunOf, Answered, Transfer

LEMMA LoudMixes ==
    ASSUME ClientIInv, NEW c \in Clients, Loud(c), NEW d \in Clients \ mixed, d # c
    PROVE  Undisturbed(d) /\ client[d].pc = "idle"
<1>1. Undisturbed(d)
    BY DEF ClientIInv, AloneIsUndisturbed
<1>2. c \in Others(d)
    BY DEF Others, Loud
<1> QED BY <1>1, <1>2 DEF Undisturbed, RunOf

LEMMA UndisturbedOn ==
    ASSUME ClientIInv, NEW c \in Clients \ mixed,
           \A e \in Clients \ {c} : client'[e] = client[e],
           client[c].pc # "idle", client'[c].exit = None,
           client'[c].pc \in Answered => client'[c].cov = Coverage'
    PROVE  Undisturbed(c)'
<1>1. Undisturbed(c)
    BY DEF ClientIInv, AloneIsUndisturbed
<1>2. ASSUME NEW e \in Others(c)' PROVE ~Loud(e)'
    <2>1. e \in Clients \ {c} /\ client'[e] = client[e]
        BY DEF Others
    <2>2. e \in Others(c)
        BY <2>1 DEF Others, RunOf
    <2> QED BY <1>1, <2>1, <2>2, DeclaredKept DEF Undisturbed, RunOf
<1>3. client'[c].exit # Exits.internal
    BY ClientAssumption DEF Exits
<1> QED BY <1>2, <1>3 DEF Undisturbed, RunOf

(* Retired sessions. *)
LEMMA AbortedFacts ==
    ASSUME ClientTypeOK, NEW S, NEW t, t = Aborted(S)
    PROVE  /\ IsSeq(t) /\ DOMAIN t = DOMAIN session
           /\ \A i \in DOMAIN session :
                 /\ DOMAIN t[i] = SessionFields
                 /\ t[i].path = session[i].path /\ t[i].art = session[i].art
                 /\ i \in S => t[i].state = "aborted"
                 /\ i \notin S => t[i] = session[i]
<1> DEFINE E(i) == IF i \in S THEN [session[i] EXCEPT !.state = "aborted"] ELSE session[i]
<1>1. t = [i \in DOMAIN session |-> E(i)]
    BY DEF Aborted
<1>2. ASSUME NEW i \in DOMAIN session
      PROVE  /\ DOMAIN E(i) = SessionFields /\ E(i).path = session[i].path
             /\ E(i).art = session[i].art
             /\ i \in S => E(i).state = "aborted"
             /\ i \notin S => E(i) = session[i]
    <2>1. DOMAIN session[i] = SessionFields
        BY DEF ClientTypeOK, SessionFields
    <2> QED BY <2>1 DEF SessionFields
<1> HIDE DEF E
<1>3. t = [i \in DOMAIN session |-> t[i]]
    BY <1>1
<1>4. IsSeq(session)
    BY DEF ClientTypeOK
<1>5. IsSeq(t) /\ DOMAIN t = DOMAIN session
    BY <1>3, <1>4, IsSeqMap
<1>6. \A i \in DOMAIN session : t[i] = E(i)
    BY <1>1
<1> QED BY <1>2, <1>5, <1>6

LEMMA AbortedTame ==
    ASSUME ClientTypeOK, NEW S, session' = Aborted(S)
    PROVE  /\ Tame
           /\ \A i \in DOMAIN session : i \in S => session'[i].state = "aborted"
           /\ \A i \in DOMAIN session : i \notin S => session'[i] = session[i]
<1>1. /\ IsSeq(session') /\ DOMAIN session' = DOMAIN session
      /\ \A i \in DOMAIN session :
            /\ DOMAIN session'[i] = SessionFields
            /\ session'[i].path = session[i].path /\ session'[i].art = session[i].art
            /\ i \in S => session'[i].state = "aborted"
            /\ i \notin S => session'[i] = session[i]
    BY AbortedFacts
<1> QED BY <1>1 DEF Tame

(* A row that run c writes. *)
RowWritten(p, st) ==
    /\ DOMAIN row' = DOMAIN row /\ row'[p] = [state |-> st, art |-> row[p].art]
    /\ \A q \in DOMAIN row : q # p => row'[q] = row[q]

LEMMA WrittenRow ==
    ASSUME ClientTypeOK, NEW p \in DOMAIN row, NEW st,
           row' = [row EXCEPT ![p].state = st] \/ (row' = row /\ row[p].state = st)
    PROVE  RowWritten(p, st)
<1>1. row[p] \in [state : RowStates, art : Art]
    BY DEF ClientTypeOK
<1>2. row[p] = [state |-> row[p].state, art |-> row[p].art]
    BY <1>1
<1>3. [row[p] EXCEPT !.state = st] = [state |-> st, art |-> row[p].art]
    BY <1>1
<1> QED BY <1>2, <1>3 DEF RowWritten

LEMMA RowFrame ==
    ASSUME ClientIInv, NEW c \in Clients, Loud(c), NEW p \in DOMAIN row, NEW st \in RowStates,
           RowWritten(p, st), owner' = Written(p, c),
           canonical' = canonical, mixed' = mixed, disk' = disk, crossed \subseteq crossed',
           SessionsKept, IsSeq(session'),
           \A i \in DOMAIN session' :
              /\ DOMAIN session'[i] = SessionFields
              /\ session'[i].path \in DOMAIN row /\ session'[i].art \in Art,
           \A i \in DOMAIN session : session[i].path # p /\ session[i].state \notin Ahead
               => session'[i].state \notin Ahead,
           SessionsStand', AvailableIsVerified',
           DOMAIN client' = Clients, \A d \in Clients \ {c} : client'[d] = client[d],
           RunOK(c)', \A q \in Declared(c)' : Stands(c, q)', c \notin mixed => Undisturbed(c)'
    PROVE  ClientIInv'
<1>1. ClientTypeOK /\ DeclarationsStand /\ DiskKept
    BY DEF ClientIInv, DiskKept
<1>2. /\ DOMAIN row' = DOMAIN row /\ DOMAIN owner' = DOMAIN row /\ row'[p].art = row[p].art
      /\ \A q \in DOMAIN row : q # p => row'[q] = row[q] /\ owner'[q] = owner[q]
      /\ \A q \in DOMAIN row : row'[q] \in [state : RowStates, art : Art]
      /\ owner'[p] \in {c, None}
    BY <1>1 DEF ClientTypeOK, Written, RowWritten
<1>3. ASSUME NEW d \in Clients PROVE RunOK(d)'
    <2>1. RunOK(d)
        BY <1>1 DEF ClientTypeOK
    <2> QED BY <1>1, <2>1, RunKept
<1>4. ClientTypeOK'
    BY <1>1, <1>2, <1>3 DEF ClientTypeOK, SessionFields
<1>5. ASSUME NEW d \in Clients, NEW q \in Declared(d)' PROVE Stands(d, q)'
    <2>1. CASE d = c
        BY <1>5, <2>1
    <2>2. CASE d # c
        <3>1. client'[d] = client[d] /\ RunOK(d)
            BY <1>1, <2>2 DEF ClientTypeOK
        <3>2. Stands(d, q) /\ q \in DOMAIN row
            BY <1>1, <1>5, <3>1, DeclaredKept DEF DeclarationsStand, Stands
        <3>3. CASE q = p
            <4>1. owner'[q] # d
                BY <1>2, <2>2, <3>3, ClientAssumption
            <4> QED BY <1>2, <3>2, <4>1 DEF Stands
        <3>4. CASE q # p
            BY <1>2, <3>1, <3>2, <3>4, StandsAt
        <3> QED BY <3>3, <3>4
    <2> QED BY <2>1, <2>2
<1>6. ASSUME NEW d \in Clients \ mixed PROVE Undisturbed(d)'
    <2>1. CASE d = c
        BY <2>1
    <2>2. CASE d # c
        BY <2>2, LoudMixes, IdleUndisturbed
    <2> QED BY <2>1, <2>2
<1> QED BY <1>4, <1>5, <1>6 DEF ClientIInv, DeclarationsStand, AloneIsUndisturbed

LEMMA UpsertInv ==
    ASSUME ClientIInv, NEW c \in Clients, Upsert(c)
    PROVE  ClientIInv'
<1> DEFINE r == client[c]
           p == r.at
           art == r.arts[p]
           other == {i \in LiveOf(p) : session[i].art # art}
           stays == {i \in other : session[i].state # "active"}
           known == p \in DOMAIN row
           st == IF known /\ row[p].state = "processing" /\ row[p].art = art
                 THEN "processing" ELSE "missing"
<1>1. /\ AtStep(c, "upsert") /\ session' = Aborted(other \ stays)
      /\ canonical' = canonical /\ crossed' = crossed /\ disk' = disk
    BY DEF Upsert, RunOf, outside
<1>2. /\ ClientTypeOK /\ RunOK(c) /\ r.pc = "upsert" /\ r.exit = None /\ DOMAIN r = RunFields
    BY <1>1, RunAt
<1>3. /\ Tame
      /\ \A i \in DOMAIN session : i \in other \ stays => session'[i].state = "aborted"
      /\ \A i \in DOMAIN session : i \notin other \ stays => session'[i] = session[i]
    BY <1>1, <1>2, AbortedTame
<1>4. CASE (\E e \in {"Conflict", "Unavailable"} : Refused(c, e)) /\ UNCHANGED <<row, owner, mixed>>
    BY <1>1, <1>2, <1>3, <1>4, FrameRefused
<1>5. CASE /\ stays = {}
           /\ row' = Set(row, p, [state |-> st, art |-> art])
           /\ owner' = Set(owner, p, c) /\ mixed' = mixed \cup Others(c)
           /\ Goto(c, [r EXCEPT !.pc = "settle"])
    <2> DEFINE q0 == [r EXCEPT !.pc = "settle"]
    <2>1. p \in DOMAIN r.arts /\ p \in Nat /\ DOMAIN r.arts \subseteq Nat /\ art \in Art
        BY <1>2 DEF RunOK, RunOf
    <2>2. st \in {"processing", "missing"}
        OBVIOUS
    <2>3. /\ DOMAIN row' = DOMAIN row \cup {p} /\ DOMAIN owner' = DOMAIN row \cup {p}
          /\ row'[p] = [state |-> st, art |-> art] /\ owner'[p] = c
          /\ \A q \in DOMAIN row : q # p => row'[q] = row[q] /\ owner'[q] = owner[q]
        BY <1>2, <1>5 DEF Set, ClientTypeOK
    <2>4. /\ DOMAIN q0 = RunFields /\ q0.pc = "settle" /\ q0.at = p /\ q0.arts = r.arts
          /\ q0.exit = None /\ q0.todo = r.todo
        BY <1>2 DEF RunFields
    <2>5. client'[c] = q0 /\ DOMAIN client' = Clients /\ \A d \in Clients \ {c} : client'[d] = client[d]
        BY <1>2, <1>5, GotoRun
    <2> HIDE DEF q0
    <2>6. SessionsKept /\ DiskKept
        BY <1>1, <1>3 DEF Tame, SessionsKept, DiskKept
    <2>7. RunOK(c)'
        BY <1>2, <2>1, <2>4, <2>5, <2>6
           DEF RunOK, RunOf, RunFields, Early, Transfer, Answered, DiskKept, SessionsKept
    <2>8. ASSUME NEW d \in Clients PROVE RunOK(d)'
        <3>1. RunOK(d)
            BY <1>2 DEF ClientTypeOK
        <3> QED BY <2>5, <2>6, <2>7, <3>1, RunKept
    <2>9. ClientTypeOK'
        <3>1. \A q \in DOMAIN row' : row'[q] \in [state : RowStates, art : Art]
            BY <1>2, <2>1, <2>2, <2>3 DEF ClientTypeOK, RowStates
        <3>2. IsFiniteSet(DOMAIN row')
            BY <1>2, <2>3, FS_AddElement DEF ClientTypeOK
        <3> QED BY <1>1, <1>2, <1>3, <2>3, <2>5, <2>8, <3>1, <3>2
                DEF ClientTypeOK, Tame, SessionFields
    <2>10. ASSUME NEW i \in DOMAIN session, Live(i)'
           PROVE  /\ Live(i) /\ session'[i] = session[i]
                  /\ session[i].path = p => session[i].art = art
        <3>1. i \notin other \ stays /\ session'[i] = session[i]
            BY <1>3, <2>10 DEF Live, LiveStates
        <3> QED BY <1>5, <2>10, <3>1 DEF Live, LiveStates, LiveOf
    <2>11. SessionsStand'
        <3>1. SessionsStand /\ DOMAIN session' = DOMAIN session
            BY <1>3 DEF ClientIInv, Tame
        <3>2. ASSUME NEW i \in DOMAIN session', NEW j \in DOMAIN session', Live(i)', Live(j)', i # j
              PROVE  session'[i].path # session'[j].path
            BY <2>10, <3>1, <3>2 DEF SessionsStand
        <3>3. ASSUME NEW i \in DOMAIN session', Live(i)'
              PROVE  /\ row'[session'[i].path].art = session'[i].art
                     /\ session'[i].state = "processing" /\ session'[i].path \notin crossed' =>
                           \/ row'[session'[i].path].state = "processing"
                           \/ KnownBytes(session[i].art)'
            <4>1. i \in DOMAIN session /\ Live(i) /\ session'[i] = session[i]
                BY <2>10, <3>1, <3>3
            <4>2. session[i].path \in DOMAIN row
                BY <1>2, <4>1 DEF ClientTypeOK
            <4>3. /\ row[session[i].path].art = session[i].art
                  /\ session[i].state = "processing" /\ session[i].path \notin crossed =>
                        row[session[i].path].state = "processing" \/ KnownBytes(session[i].art)
                BY <3>1, <4>1 DEF SessionsStand
            <4>4. KnownBytes(session[i].art) => KnownBytes(session[i].art)'
                BY <1>1, <4>1 DEF KnownBytes
            <4>5. CASE session[i].path # p
                BY <1>1, <2>3, <4>1, <4>2, <4>3, <4>4, <4>5
            <4>6. CASE session[i].path = p
                <5>1. session[i].art = art
                    BY <2>10, <3>3, <4>1, <4>6
                <5>2. row[p].state = "processing" => st = "processing"
                    BY <4>2, <4>3, <4>6, <5>1
                <5>3. row'[session'[i].path].art = art /\ row'[session'[i].path].state = st
                    BY <2>3, <4>1, <4>6
                <5>4. session'[i].art = art
                    BY <4>1, <5>1
                <5>5. CASE session'[i].state = "processing" /\ session'[i].path \notin crossed'
                    <6>1. session[i].state = "processing" /\ session[i].path \notin crossed
                        BY <1>1, <4>1, <5>5
                    <6> QED BY <4>3, <4>4, <4>6, <5>2, <5>3, <5>4, <6>1
                <5> QED BY <5>3, <5>4, <5>5
            <4> QED BY <4>5, <4>6
        <3>4. \A i \in DOMAIN session' : Live(i)' => session'[i].art = session[i].art
            BY <2>10, <3>1
        <3> QED BY <3>2, <3>3, <3>4 DEF SessionsStand, KnownBytes
    <2>12. AvailableIsVerified'
        BY <1>1, <2>2, <2>3 DEF ClientIInv, AvailableIsVerified
    <2>13. \A i \in DOMAIN session : session[i].state \notin Ahead => session'[i].state \notin Ahead
        BY <1>3 DEF Tame, Ahead
    <2>14. ASSUME NEW d \in Clients, NEW q \in Declared(d)' PROVE Stands(d, q)'
        <3>1. CASE d # c
            <4>1. client'[d] = client[d] /\ RunOK(d)
                BY <1>2, <2>5, <3>1 DEF ClientTypeOK
            <4>2. Stands(d, q) /\ q \in DOMAIN row
                BY <2>14, <4>1, DeclaredKept DEF ClientIInv, DeclarationsStand, Stands
            <4>3. CASE q = p
                BY <2>3, <3>1, <4>3 DEF Stands
            <4>4. CASE q # p
                BY <1>1, <2>3, <2>13, <4>1, <4>2, <4>4, StandsAt
            <4> QED BY <4>3, <4>4
        <3>2. CASE d = c
            <4>1. q0.exit # Exits.success
                BY <2>4, ClientAssumption DEF Exits
            <4>2. q \in DOMAIN r.arts /\ q <= p
                BY <2>4, <2>5, <2>14, <3>2, <4>1 DEF Declared, RunOf, Answered, Transfer
            <4>3. CASE q = p
                <5>1. Awaited(c, q)'
                    BY <2>4, <2>5, <4>3 DEF Awaited, RunOf
                <5> QED BY <2>3, <2>4, <2>5, <3>2, <4>1, <4>3, <5>1 DEF Stands, RunOf
            <4>4. CASE q # p
                <5>1. q < p
                    BY <2>1, <4>2, <4>4
                <5>2. Stands(c, q) /\ q \in DOMAIN row
                    BY <1>2, <4>2, <5>1 DEF ClientIInv, DeclarationsStand, Declared, RunOf, Stands
                <5>3. Awaited(c, q) => Awaited(c, q)'
                    BY <1>2, <2>4, <2>5, <2>13 DEF Awaited, RunOf, RunOK, Ahead
                <5> QED BY <1>1, <2>3, <2>4, <2>5, <3>2, <4>1, <4>4, <5>2, <5>3 DEF Stands, RunOf
            <4> QED BY <4>3, <4>4
        <3> QED BY <3>1, <3>2
    <2>15. ASSUME NEW d \in Clients \ mixed' PROVE Undisturbed(d)'
        <3>1. d \in Clients \ mixed /\ d \notin Others(c)
            BY <1>5, <2>15
        <3>2. CASE d = c
            <4>1. client'[c].pc \notin Answered
                BY <2>4, <2>5 DEF Answered, Transfer
            <4> QED BY <1>2, <2>4, <2>5, <3>1, <3>2, <4>1, UndisturbedOn
        <3>3. CASE d # c
            <4>1. client[d].pc = "idle" /\ Undisturbed(d) /\ client'[d] = client[d]
                BY <2>5, <3>1, <3>3 DEF Others, RunOf, ClientIInv, AloneIsUndisturbed
            <4> QED BY <4>1, IdleUndisturbed
        <3> QED BY <3>2, <3>3
    <2> QED BY <2>9, <2>11, <2>12, <2>14, <2>15 DEF ClientIInv, DeclarationsStand, AloneIsUndisturbed
<1>6. \/ (\E e \in {"Conflict", "Unavailable"} : Refused(c, e)) /\ UNCHANGED <<row, owner, mixed>>
      \/ /\ stays = {}
         /\ row' = Set(row, p, [state |-> st, art |-> art])
         /\ owner' = Set(owner, p, c) /\ mixed' = mixed \cup Others(c)
         /\ Goto(c, [r EXCEPT !.pc = "settle"])
    BY DEF Upsert, RunOf
<1> QED BY <1>4, <1>5, <1>6

-----------------------------------------------------------------------------
(* Settle: the state that it gives the row, and the answer or the refusal.  *)

Settling(c, st) ==
    LET r == client[c]
    IN  /\ AtStep(c, "settle") /\ st \in RowStates
        /\ RowWritten(r.at, st) /\ owner' = Written(r.at, c)
        /\ crossed' = crossed \cup {q \in {r.at} : row[q].art # r.arts[r.at]}
        /\ canonical' = canonical /\ mixed' = mixed /\ disk' = disk

LEMMA SettlingFacts ==
    ASSUME ClientIInv, NEW c \in Clients, NEW st, Settling(c, st)
    PROVE  LET r == client[c]
               p == r.at
           IN  /\ ClientTypeOK /\ RunOK(c) /\ r.pc = "settle" /\ r.exit = None
               /\ DOMAIN r = RunFields /\ Loud(c) /\ DiskKept
               /\ p \in DOMAIN r.arts /\ DOMAIN r.arts \subseteq Nat \ {0} /\ r.arts[p] \in Art
               /\ p \in DOMAIN row /\ DOMAIN row' = DOMAIN row
               /\ row'[p].state = st /\ row'[p].art = row[p].art
               /\ owner'[p] # None => owner[p] = c /\ row[p].art = r.arts[p]
               /\ owner'[p] = c => owner[p] = c
               /\ p \notin crossed' => row[p].art = r.arts[p]
               /\ crossed \subseteq crossed'
               /\ \A q \in DOMAIN row : q # p => row'[q] = row[q] /\ owner'[q] = owner[q]
               /\ \A q \in DOMAIN r.arts : q <= p => Stands(c, q)
<1> DEFINE r == client[c]
           p == r.at
<1>1. /\ ClientTypeOK /\ RunOK(c) /\ r.pc = "settle" /\ r.exit = None /\ DOMAIN r = RunFields
    BY RunAt DEF Settling
<1>2. p \in DOMAIN r.arts /\ DOMAIN r.arts \subseteq Nat \ {0} /\ r.arts[p] \in Art
    BY <1>1 DEF RunOK, RunOf
<1>3. \A q \in DOMAIN r.arts : q <= p => Stands(c, q)
    BY <1>1 DEF ClientIInv, DeclarationsStand, Declared, RunOf
<1>4. p <= p
    BY <1>2
<1>5. p \in DOMAIN row /\ (owner[p] = c => row[p].art = r.arts[p])
    BY <1>2, <1>3, <1>4 DEF Stands, RunOf
<1>6. Loud(c)
    BY <1>1 DEF Loud, RunOf, Early
<1>7. /\ RowWritten(p, st) /\ owner' = [owner EXCEPT ![p] = IF @ = c THEN c ELSE None]
      /\ crossed' = crossed \cup {q \in {p} : row[q].art # r.arts[p]} /\ DiskKept
    BY DEF Settling, Written, DiskKept
<1>8. DOMAIN owner = DOMAIN row /\ row[p] \in [state : RowStates, art : Art]
    BY <1>1, <1>5 DEF ClientTypeOK
<1>9. /\ DOMAIN row' = DOMAIN row /\ row'[p].state = st /\ row'[p].art = row[p].art
      /\ \A q \in DOMAIN row : q # p => row'[q] = row[q] /\ owner'[q] = owner[q]
    BY <1>5, <1>7, <1>8 DEF RowWritten
<1>10. (owner'[p] # None => owner[p] = c) /\ (owner'[p] = c => owner[p] = c)
    BY <1>5, <1>7, <1>8, ClientAssumption
<1>11. (p \notin crossed' => row[p].art = r.arts[p]) /\ crossed \subseteq crossed'
    BY <1>7
<1> QED BY <1>1, <1>2, <1>3, <1>5, <1>6, <1>7, <1>9, <1>10, <1>11

(* A session that was live before, or the one that is new. *)
LEMMA SettleStands ==
    ASSUME ClientIInv, NEW c \in Clients, NEW st, Settling(c, st),
           st = "available" => client[c].arts[client[c].at] \in canonical,
           row[client[c].at].state = "processing" =>
               st = "processing" \/ KnownBytes(client[c].arts[client[c].at]),
           \A i \in DOMAIN session' : Live(i)' =>
              \/ i \in DOMAIN session /\ Live(i) /\ session'[i] = session[i]
              \/ /\ session'[i].path = client[c].at /\ session'[i].art = row[client[c].at].art
                 /\ session'[i].state = "active"
                 /\ \A j \in DOMAIN session' : Live(j)' /\ j # i => session'[j].path # client[c].at
    PROVE  SessionsStand' /\ AvailableIsVerified'
<1> DEFINE p == client[c].at
<1>1. /\ ClientTypeOK /\ p \in DOMAIN row /\ DOMAIN row' = DOMAIN row
      /\ row'[p].state = st /\ row'[p].art = row[p].art
      /\ owner'[p] # None => row[p].art = client[c].arts[p]
      /\ p \notin crossed' => row[p].art = client[c].arts[p]
      /\ crossed \subseteq crossed'
      /\ \A q \in DOMAIN row : q # p => row'[q] = row[q] /\ owner'[q] = owner[q]
    BY SettlingFacts
<1>2. SessionsStand /\ AvailableIsVerified /\ canonical' = canonical
    BY DEF ClientIInv, Settling
<1>3. ASSUME NEW i \in DOMAIN session', NEW j \in DOMAIN session', Live(i)', Live(j)', i # j
      PROVE  session'[i].path # session'[j].path
    BY <1>2, <1>3 DEF SessionsStand
<1>4. ASSUME NEW i \in DOMAIN session', Live(i)'
      PROVE  /\ row'[session'[i].path].art = session'[i].art
             /\ session'[i].state = "processing" /\ session'[i].path \notin crossed' =>
                   \/ row'[session'[i].path].state = "processing"
                   \/ KnownBytes(session'[i].art)
    <2>1. CASE i \in DOMAIN session /\ Live(i) /\ session'[i] = session[i]
        <3>1. session[i].path \in DOMAIN row
            BY <1>1, <2>1 DEF ClientTypeOK
        <3>2. /\ row[session[i].path].art = session[i].art
              /\ session[i].state = "processing" /\ session[i].path \notin crossed =>
                    row[session[i].path].state = "processing" \/ KnownBytes(session[i].art)
            BY <1>2, <2>1 DEF SessionsStand
        <3>3. row'[session[i].path].art = session[i].art
            BY <1>1, <3>1, <3>2
        <3>4. ASSUME session[i].state = "processing", session[i].path \notin crossed'
              PROVE  row'[session[i].path].state = "processing" \/ KnownBytes(session[i].art)
            <4>1. row[session[i].path].state = "processing" \/ KnownBytes(session[i].art)
                BY <1>1, <3>2, <3>4
            <4>2. CASE session[i].path # p
                BY <1>1, <3>1, <4>1, <4>2
            <4>3. CASE session[i].path = p
                <5>1. session[i].art = client[c].arts[p]
                    BY <1>1, <3>2, <3>4, <4>3
                <5> QED BY <1>1, <4>1, <4>3, <5>1
            <4> QED BY <4>2, <4>3
        <3> QED BY <2>1, <3>3, <3>4
    <2>2. CASE session'[i].path = p /\ session'[i].art = row[p].art /\ session'[i].state = "active"
        BY <1>1, <2>2
    <2> QED BY <1>4, <2>1, <2>2
<1>5. SessionsStand'
    BY <1>2, <1>3, <1>4 DEF SessionsStand, KnownBytes
<1>6. AvailableIsVerified'
    <2>1. ASSUME NEW q \in DOMAIN row', row'[q].state = "available", owner'[q] # None
          PROVE  row'[q].art \in canonical'
        BY <1>1, <1>2, <2>1 DEF AvailableIsVerified
    <2> QED BY <2>1 DEF AvailableIsVerified
<1> QED BY <1>5, <1>6

LEMMA SettleRefused ==
    ASSUME ClientIInv, NEW c \in Clients, NEW st, Settling(c, st), Tame,
           SessionsStand', AvailableIsVerified',
           NEW e \in {"Unavailable", "Conflict"}, Refused(c, e)
    PROVE  ClientIInv'
<1> DEFINE p == client[c].at
<1>1. /\ ClientTypeOK /\ Loud(c) /\ DiskKept /\ p \in DOMAIN row /\ crossed \subseteq crossed'
      /\ client[c].pc = "settle"
    BY SettlingFacts
<1>2. /\ st \in RowStates /\ RowWritten(p, st) /\ owner' = Written(p, c)
      /\ canonical' = canonical /\ mixed' = mixed /\ disk' = disk
    BY DEF Settling
<1>3. PICK code \in {2, 3, 4} : Exit(c, code)
    BY RefusedExit
<1>4. RunOK(c)' /\ Declared(c)' = {}
    BY <1>1, <1>3, ExitOK
<1>5. /\ DOMAIN client' = Clients /\ \A d \in Clients \ {c} : client'[d] = client[d]
      /\ client'[c].pc = "idle" /\ client'[c].exit = code
    BY <1>1, <1>3, ExitRun
<1>6. Undisturbed(c)'
    BY <1>5 DEF Undisturbed, RunOf, Answered, Transfer, Exits
<1>7. /\ SessionsKept /\ IsSeq(session')
      /\ \A i \in DOMAIN session' :
            /\ DOMAIN session'[i] = SessionFields
            /\ session'[i].path \in DOMAIN row /\ session'[i].art \in Art
      /\ \A i \in DOMAIN session : session[i].path # p /\ session[i].state \notin Ahead
               => session'[i].state \notin Ahead
    BY <1>1 DEF Tame, SessionsKept, ClientTypeOK, Ahead
<1> QED BY <1>1, <1>2, <1>4, <1>5, <1>6, <1>7, RowFrame

LEMMA SettleAnswer ==
    ASSUME ClientIInv, NEW c \in Clients, NEW st, Settling(c, st),
           SessionsStand', AvailableIsVerified', SessionsKept, IsSeq(session'),
           \A i \in DOMAIN session' :
              /\ DOMAIN session'[i] = SessionFields
              /\ session'[i].path \in DOMAIN row /\ session'[i].art \in Art,
           \A i \in DOMAIN session : session[i].state \notin Ahead => session'[i].state \notin Ahead,
           NEW status \in {"already_present", "identity_mismatch", "upload_required"}, NEW i, NEW have,
           Answer(c, status, i, have),
           status = "upload_required" =>
              i \in DOMAIN session' /\ session'[i].path = client[c].at,
           st = "missing" => status = "upload_required",
           st = "missing" /\ client[c].at \notin crossed' => session'[i].state \notin Ahead
    PROVE  ClientIInv'
<1> DEFINE r == client[c]
           p == r.at
           next == NextPath(r.arts, p)
           task == [path |-> p, status |-> status, ses |-> i, have |-> have]
           q == [r EXCEPT !.pc = IF next = None THEN "respond" ELSE "upsert", !.at = next,
                          !.todo = Append(r.todo, task)]
<1>1. /\ ClientTypeOK /\ RunOK(c) /\ r.pc = "settle" /\ r.exit = None
      /\ DOMAIN r = RunFields /\ Loud(c) /\ DiskKept
      /\ p \in DOMAIN r.arts /\ DOMAIN r.arts \subseteq Nat \ {0} /\ r.arts[p] \in Art
      /\ p \in DOMAIN row /\ DOMAIN row' = DOMAIN row
      /\ row'[p].state = st /\ row'[p].art = row[p].art
      /\ owner'[p] # None => row[p].art = r.arts[p]
      /\ p \notin crossed' => row[p].art = r.arts[p]
      /\ crossed \subseteq crossed'
      /\ \A x \in DOMAIN row : x # p => row'[x] = row[x] /\ owner'[x] = owner[x]
      /\ \A x \in DOMAIN r.arts : x <= p => Stands(c, x)
    BY SettlingFacts
<1>2. /\ st \in RowStates /\ RowWritten(p, st) /\ owner' = Written(p, c)
      /\ canonical' = canonical /\ mixed' = mixed /\ disk' = disk
    BY DEF Settling
<1>3. /\ next = None => \A x \in DOMAIN r.arts : x <= p
      /\ next # None => /\ next \in DOMAIN r.arts /\ next > p
                        /\ \A x \in DOMAIN r.arts : x < next => x <= p
    BY <1>1, NextPathFacts
<1>4. Goto(c, q)
    BY DEF Answer, RunOf
<1>5. IsSeq(r.todo)
    BY <1>1 DEF RunOK, RunOf
<1> HIDE DEF next, task
<1>6. /\ IsSeq(q.todo) /\ q.todo # <<>> /\ DOMAIN q.todo = DOMAIN r.todo \cup {Len(r.todo) + 1}
      /\ q.todo[Len(r.todo) + 1] = task
      /\ \A k \in DOMAIN r.todo : q.todo[k] = r.todo[k]
    BY <1>1, <1>5, IsSeqAppend DEF RunFields
<1>7. /\ DOMAIN q = RunFields /\ q.pc = (IF next = None THEN "respond" ELSE "upsert")
      /\ q.at = next /\ q.arts = r.arts /\ q.exit = None
    BY <1>1 DEF RunFields
<1> HIDE DEF q
<1>8. client'[c] = q /\ DOMAIN client' = Clients /\ \A d \in Clients \ {c} : client'[d] = client[d]
    BY <1>1, <1>4, GotoRun
<1>9. task.path = p /\ task.status = status /\ task.ses = i
    BY DEF task
<1>10. RunOK(c)'
    <2>1. ASSUME NEW k \in DOMAIN q.todo
          PROVE  /\ q.todo[k].status \in {"already_present", "identity_mismatch", "upload_required"}
                 /\ q.todo[k].status = "upload_required" =>
                       /\ q.todo[k].ses \in DOMAIN session'
                       /\ session'[q.todo[k].ses].path = q.todo[k].path
        <3>1. CASE k \in DOMAIN r.todo
            BY <1>1, <1>6, <3>1 DEF RunOK, RunOf, SessionsKept
        <3>2. CASE k = Len(r.todo) + 1
            BY <1>6, <1>9, <3>2
        <3> QED BY <1>6, <3>1, <3>2
    <2>2. /\ q.pc \in {"respond", "upsert"} /\ (q.pc = "upsert" => q.at \in DOMAIN q.arts)
        BY <1>3, <1>7
    <2>3. c \in DOMAIN disk' /\ \A x \in DOMAIN q.arts : q.arts[x] \in Art
        BY <1>1, <1>7 DEF RunOK, RunOf, DiskKept
    <2> QED BY <1>1, <1>6, <1>7, <1>8, <2>1, <2>2, <2>3
            DEF RunOK, RunOf, RunFields, Early, Transfer, Answered
<1>11. ASSUME NEW x \in Declared(c)' PROVE Stands(c, x)'
    <2>1. q.exit # Exits.success
        BY <1>7, ClientAssumption DEF Exits
    <2>2. x \in DOMAIN r.arts /\ x <= p
        BY <1>3, <1>7, <1>8, <1>11, <2>1 DEF Declared, RunOf, Answered, Transfer
    <2>3. Stands(c, x)
        BY <1>1, <2>2
    <2>4. CASE x = p
        <3>1. ASSUME row'[p].state = "missing", p \notin crossed' PROVE Awaited(c, x)'
            <4>1. status = "upload_required" /\ session'[i].state \notin Ahead
                BY <1>1, <3>1
            <4>2. Len(r.todo) + 1 \in DOMAIN client'[c].todo
                BY <1>6, <1>8
            <4>3. LET t == client'[c].todo[Len(r.todo) + 1]
                  IN  t.path = p /\ t.status = "upload_required" /\ t.ses = i
                BY <1>6, <1>8, <1>9, <4>1
            <4> QED BY <2>4, <4>1, <4>2, <4>3 DEF Awaited, RunOf, Ahead
        <3>2. owner'[p] = c => row'[p].art = q.arts[p]
            BY <1>1, <1>7, ClientAssumption
        <3>3. p \in DOMAIN row' /\ client'[c].exit # Exits.success /\ client'[c].arts = q.arts
            BY <1>1, <1>8, <2>1
        <3> QED BY <2>4, <3>1, <3>2, <3>3 DEF Stands, RunOf
    <2>5. CASE x # p
        <3>1. x \in DOMAIN row
            BY <2>3 DEF Stands
        <3>2. Awaited(c, x) => Awaited(c, x)'
            <4> SUFFICES ASSUME NEW k \in DOMAIN r.todo, r.todo[k].path = x,
                                r.todo[k].status = "upload_required",
                                session[r.todo[k].ses].state \notin Ahead
                         PROVE  Awaited(c, x)'
                BY <2>5 DEF Awaited, RunOf, Ahead
            <4>1. r.todo[k].ses \in DOMAIN session
                BY <1>1 DEF RunOK, RunOf
            <4>2. k \in DOMAIN q.todo /\ q.todo[k] = r.todo[k]
                BY <1>6
            <4>3. session'[r.todo[k].ses].state \notin Ahead
                BY <4>1
            <4> QED BY <1>8, <4>2, <4>3 DEF Awaited, RunOf, Ahead
        <3> QED BY <1>1, <1>7, <1>8, <2>1, <2>3, <2>5, <3>1, <3>2 DEF Stands, RunOf
    <2> QED BY <2>4, <2>5
<1>12. c \notin mixed => Undisturbed(c)'
    <2>1. client'[c].pc \notin Answered /\ client'[c].exit = None
        BY <1>7, <1>8 DEF Answered, Transfer
    <2> QED BY <1>1, <1>8, <2>1, UndisturbedOn
<1> QED BY <1>1, <1>2, <1>8, <1>10, <1>11, <1>12, RowFrame

LEMMA SettleInv ==
    ASSUME ClientIInv, NEW c \in Clients, Settle(c)
    PROVE  ClientIInv'
<1> DEFINE r == client[c]
           p == r.at
           art == r.arts[p]
           now == IF row[p].state = "processing" THEN "processing" ELSE "missing"
           old == Stale(p, art)
           open == LiveOf(p) \ old
<1>1. /\ AtStep(c, "settle") /\ owner' = Written(p, c)
      /\ crossed' = crossed \cup {q \in {p} : row[q].art # art}
      /\ canonical' = canonical /\ mixed' = mixed /\ disk' = disk
    BY DEF Settle, RunOf, outside
<1>2. \A st \in RowStates : RowWritten(p, st) => Settling(c, st)
    BY <1>1 DEF Settling
<1>3. ClientTypeOK /\ SessionsStand /\ p \in DOMAIN row /\ row[p].state \in RowStates
    <2>1. RunOK(c) /\ r.pc = "settle" /\ ClientTypeOK /\ SessionsStand
        BY <1>1, RunAt DEF ClientIInv
    <2>2. p \in DOMAIN r.arts /\ p \in Nat
        BY <2>1 DEF RunOK, RunOf
    <2>3. p \in Declared(c)
        BY <2>1, <2>2 DEF Declared, RunOf
    <2>4. p \in DOMAIN row
        BY <2>3 DEF ClientIInv, DeclarationsStand, Stands
    <2> QED BY <2>1, <2>4 DEF ClientTypeOK
<1>4. \A st \in RowStates :
          row' = [row EXCEPT ![p].state = st] \/ (row' = row /\ row[p].state = st) => Settling(c, st)
    BY <1>2, <1>3, WrittenRow
<1>5. ASSUME Tame
      PROVE  /\ SessionsKept /\ IsSeq(session')
             /\ \A i \in DOMAIN session' :
                   /\ DOMAIN session'[i] = SessionFields
                   /\ session'[i].path \in DOMAIN row /\ session'[i].art \in Art
             /\ \A i \in DOMAIN session : session[i].state \notin Ahead => session'[i].state \notin Ahead
    BY <1>3, <1>5 DEF Tame, SessionsKept, ClientTypeOK, Ahead
<1>6. ASSUME session' = session, ~(row' = [row EXCEPT ![p].state = now] /\ OpenSession(c) /\ ~KnownBytes(art))
      PROVE  ClientIInv'
    <2>1. Tame
        BY <1>3, <1>6, SameSessions
    <2>2. \A i \in DOMAIN session' : Live(i)' =>
              i \in DOMAIN session /\ Live(i) /\ session'[i] = session[i]
        BY <1>6 DEF Live
    <2>3. ASSUME row' = [row EXCEPT ![p].state = "available"], art \in canonical,
                 Answer(c, "already_present", None, {})
          PROVE  ClientIInv'
        <3>1. Settling(c, "available") /\ KnownBytes(art)
            BY <1>4, <2>3 DEF RowStates, KnownBytes
        <3>2. SessionsStand' /\ AvailableIsVerified'
            BY <2>2, <2>3, <3>1, SettleStands
        <3> QED BY <1>5, <2>1, <2>3, <3>1, <3>2, SettleAnswer
    <2>4. ASSUME row' = row, row[p].state = "quarantined", Refused(c, "Unavailable")
          PROVE  ClientIInv'
        <3>2. Settling(c, "quarantined")
            BY <1>4, <2>4 DEF RowStates
        <3>3. SessionsStand' /\ AvailableIsVerified'
            BY <2>2, <2>4, <3>2, SettleStands
        <3> QED BY <2>1, <2>4, <3>2, <3>3, SettleRefused
    <2>5. ASSUME row' = [row EXCEPT ![p].state = "mismatch"], \E x \in canonical : x.bytes = art.bytes,
                 Answer(c, "identity_mismatch", None, {})
          PROVE  ClientIInv'
        <3>1. Settling(c, "mismatch") /\ KnownBytes(art)
            BY <1>4, <2>5 DEF RowStates, KnownBytes
        <3>2. SessionsStand' /\ AvailableIsVerified'
            BY <2>2, <3>1, SettleStands
        <3> QED BY <1>5, <2>1, <2>5, <3>1, <3>2, SettleAnswer
    <2>6. \/ /\ row' = [row EXCEPT ![p].state = "available"] /\ art \in canonical
             /\ Answer(c, "already_present", None, {})
          \/ row' = row /\ row[p].state = "quarantined" /\ Refused(c, "Unavailable")
          \/ /\ row' = [row EXCEPT ![p].state = "mismatch"] /\ \E x \in canonical : x.bytes = art.bytes
             /\ Answer(c, "identity_mismatch", None, {})
        BY <1>6 DEF Settle, RunOf, KnownBytes
    <2> QED BY <2>3, <2>4, <2>5, <2>6
<1>7. ASSUME row' = [row EXCEPT ![p].state = now], OpenSession(c), ~KnownBytes(art)
      PROVE  ClientIInv'
    <2>1. Settling(c, now) /\ now # "available"
        BY <1>4, <1>7 DEF RowStates
    <2>2. ASSUME session' = Aborted(old)
          PROVE  /\ Tame
                 /\ \A i \in DOMAIN session : i \notin old => session'[i] = session[i]
                 /\ \A i \in DOMAIN session' : Live(i)' =>
                        i \in DOMAIN session /\ Live(i) /\ session'[i] = session[i]
        <3>1. /\ Tame
              /\ \A i \in DOMAIN session : i \in old => session'[i].state = "aborted"
              /\ \A i \in DOMAIN session : i \notin old => session'[i] = session[i]
            BY <1>3, <2>2, AbortedTame
        <3>2. DOMAIN session' = DOMAIN session
            BY <3>1 DEF Tame
        <3> QED BY <3>1, <3>2 DEF Live, LiveStates
    <2>3. ASSUME session' = Aborted(old), Refused(c, "Conflict")
          PROVE  ClientIInv'
        <3>1. SessionsStand' /\ AvailableIsVerified'
            BY <2>1, <2>2, <2>3, SettleStands
        <3> QED BY <2>1, <2>2, <2>3, <3>1, SettleRefused
    <2>4. ASSUME session' = Aborted(old), NEW i \in open, session[i].art = art,
                 Answer(c, "upload_required", i, DOMAIN session[i].rec)
          PROVE  ClientIInv'
        <3>1. SessionsStand' /\ AvailableIsVerified'
            BY <2>1, <2>2, <2>4, SettleStands
        <3>2. /\ i \in DOMAIN session /\ session'[i] = session[i] /\ session[i].path = p
              /\ Live(i) /\ session[i].state # "completed"
            BY <2>2, <2>4 DEF LiveOf, Live, LiveStates
        <3>3. i \in DOMAIN session'
            BY <2>2, <2>4, <3>2 DEF Tame
        <3>4. now = "missing" /\ p \notin crossed' => session'[i].state \notin Ahead
            <4>1. SUFFICES ASSUME session[i].state = "processing", p \notin crossed' PROVE now = "processing"
                BY <3>2 DEF Ahead
            <4> QED BY <1>1, <1>3, <1>7, <2>4, <3>2, <4>1 DEF SessionsStand
        <3> QED BY <1>5, <2>1, <2>2, <2>4, <3>1, <3>2, <3>3, <3>4, SettleAnswer
    <2>5. ASSUME open = {}, row[p].art = art,
                 session' = Append(Aborted(old), NewSession(p, art)),
                 Answer(c, "upload_required", Len(session) + 1, {})
          PROVE  ClientIInv'
        <3> DEFINE t == Aborted(old)
                   new == NewSession(p, art)
                   n == Len(session) + 1
        <3>1. /\ IsSeq(t) /\ DOMAIN t = DOMAIN session
              /\ \A i \in DOMAIN session :
                    /\ DOMAIN t[i] = SessionFields
                    /\ t[i].path = session[i].path /\ t[i].art = session[i].art
                    /\ i \in old => t[i].state = "aborted"
                    /\ i \notin old => t[i] = session[i]
            BY <1>3, AbortedFacts
        <3>2. /\ DOMAIN new = SessionFields /\ new.path = p /\ new.art = art
              /\ new.state = "active"
            BY DEF NewSession, SessionFields
        <3>3. session' = Append(t, new)
            BY <2>5
        <3> HIDE DEF t, new
        <3>4. Len(t) + 1 = n
            <4>1. IsSeq(session)
                BY <1>3 DEF ClientTypeOK
            <4>2. DOMAIN t = 1..Len(t) /\ DOMAIN session = 1..Len(session)
                BY <3>1, <4>1, IsSeqFacts
            <4>3. Len(t) \in Nat /\ Len(session) \in Nat
                BY <3>1, <4>1, IsSeqFacts
            <4>4. ASSUME NEW x \in Nat, NEW y \in Nat, 1..x = 1..y PROVE x <= y
                <5>1. x = 0 \/ x \in 1..x
                    OBVIOUS
                <5>2. x \in 1..y => x <= y
                    OBVIOUS
                <5> QED BY <4>4, <5>1, <5>2
            <4>5. 1..Len(t) = 1..Len(session)
                BY <3>1, <4>2
            <4>6. Len(t) <= Len(session) /\ Len(session) <= Len(t)
                BY <4>3, <4>4, <4>5
            <4> QED BY <4>3, <4>6
        <3>5. /\ IsSeq(session') /\ DOMAIN session' = DOMAIN session \cup {n} /\ session'[n] = new
              /\ \A i \in DOMAIN session : session'[i] = t[i] /\ i # n
            BY <3>1, <3>3, <3>4, IsSeqAppend
        <3>6. /\ SessionsKept
              /\ \A i \in DOMAIN session : session[i].state \notin Ahead => session'[i].state \notin Ahead
            BY <3>1, <3>5 DEF SessionsKept, Ahead
        <3>7. ASSUME NEW i \in DOMAIN session, Live(i)'
              PROVE  Live(i) /\ session'[i] = session[i] /\ session'[i].path # p
            <4>1. i \notin old /\ session'[i] = session[i] /\ Live(i)
                BY <3>1, <3>5, <3>7 DEF Live, LiveStates
            <4>2. session[i].path = p => i \in open
                BY <4>1 DEF LiveOf, Live, LiveStates
            <4> QED BY <2>5, <4>1, <4>2
        <3>8. ASSUME NEW i \in DOMAIN session', Live(i)'
              PROVE  \/ i \in DOMAIN session /\ Live(i) /\ session'[i] = session[i]
                     \/ /\ session'[i].path = p /\ session'[i].art = row[p].art
                        /\ session'[i].state = "active"
                        /\ \A j \in DOMAIN session' : Live(j)' /\ j # i => session'[j].path # p
            BY <2>5, <3>2, <3>5, <3>7, <3>8
        <3>9. SessionsStand' /\ AvailableIsVerified'
            BY <2>1, <3>8, SettleStands
        <3>10. art \in Art
            BY <2>1, SettlingFacts
        <3>11. \A i \in DOMAIN session' :
                   /\ DOMAIN session'[i] = SessionFields
                   /\ session'[i].path \in DOMAIN row /\ session'[i].art \in Art
            BY <1>3, <3>1, <3>2, <3>5, <3>10 DEF ClientTypeOK
        <3>12. n \in DOMAIN session' /\ session'[n].path = p /\ session'[n].state \notin Ahead
            BY <3>2, <3>5 DEF Ahead
        <3> QED BY <2>1, <2>5, <3>5, <3>6, <3>9, <3>11, <3>12, SettleAnswer
    <2> QED BY <1>7, <2>3, <2>4, <2>5 DEF OpenSession, RunOf
<1> QED BY <1>6, <1>7 DEF Settle, RunOf, KnownBytes

-----------------------------------------------------------------------------
(* Complete.                                                                *)

LEMMA CompleteFits ==
    ASSUME ClientIInv, NEW c \in Clients, AtStep(c, "complete"),
           NEW i, i = Task(c).ses, session[i].state \in {"active", "completing"},
           row[session[i].path].art = session[i].art,
           NEW s, s = Completed(session[i], "processing"), session' = [session EXCEPT ![i] = s],
           row' = [row EXCEPT ![session[i].path].state = "processing"],
           owner' = Written(session[i].path, c),
           Goto(c, [Finished(client[c]) EXCEPT !.cov = Coverage']),
           canonical' = canonical, crossed' = crossed, mixed' = mixed, disk' = disk
    PROVE  ClientIInv'
<1> DEFINE r == client[c]
           q == [Finished(r) EXCEPT !.cov = Coverage']
<1>1. /\ ClientTypeOK /\ RunOK(c) /\ r.pc = "complete" /\ r.exit = None /\ DOMAIN r = RunFields
      /\ DiskKept
    BY RunAt DEF DiskKept
<1>2. /\ r.todo # <<>> /\ 1 \in DOMAIN r.todo /\ i \in DOMAIN session
      /\ r.todo[1].path = session[i].path /\ IsSeq(r.todo)
    BY <1>1, TaskFacts DEF Transfer, RunOK, RunOf
<1>3. PICK p : p = session[i].path
    OBVIOUS
<1>4. p \in DOMAIN row /\ DOMAIN session[i] = SessionFields /\ IsSeq(session)
    BY <1>1, <1>2, <1>3 DEF ClientTypeOK, SessionFields
<1>5. RowWritten(p, "processing") /\ owner' = Written(p, c) /\ "processing" \in RowStates
    BY <1>1, <1>3, <1>4, WrittenRow DEF RowStates
<1>6. /\ DOMAIN row' = DOMAIN row /\ row'[p].state = "processing" /\ row'[p].art = row[p].art
      /\ \A x \in DOMAIN row : x # p => row'[x] = row[x]
    BY <1>5 DEF RowWritten
<1>7. /\ \A x \in DOMAIN row : x # p => owner'[x] = owner[x]
      /\ owner'[p] = c => owner[p] = c
    BY <1>1, <1>4, <1>5, ClientAssumption DEF Written, ClientTypeOK
<1>8. DOMAIN s = SessionFields /\ s.path = p /\ s.art = session[i].art /\ s.state = "processing"
    BY <1>3, <1>4, CompletedFacts
<1>9. /\ IsSeq(session') /\ DOMAIN session' = DOMAIN session /\ session'[i] = s
      /\ \A j \in DOMAIN session : j # i => session'[j] = session[j]
    BY <1>2, <1>4, IsSeqExcept
<1>10. /\ \A j \in DOMAIN session' :
             /\ DOMAIN session'[j] = SessionFields
             /\ session'[j].path \in DOMAIN row /\ session'[j].art \in Art
       /\ SessionsKept
       /\ \A j \in DOMAIN session : session[j].path # p => session'[j] = session[j]
    BY <1>1, <1>2, <1>3, <1>4, <1>8, <1>9 DEF ClientTypeOK, SessionFields, SessionsKept
<1>11. SessionsStand'
    <2>1. SessionsStand /\ Live(i)
        BY DEF ClientIInv, Live, LiveStates
    <2>2. ASSUME NEW j \in DOMAIN session', Live(j)'
          PROVE  /\ j \in DOMAIN session /\ Live(j)
                 /\ session'[j].path = session[j].path /\ session'[j].art = session[j].art
                 /\ j # i => session'[j] = session[j]
        BY <1>3, <1>8, <1>9, <2>1, <2>2 DEF Live
    <2>3. ASSUME NEW j \in DOMAIN session', NEW k \in DOMAIN session', Live(j)', Live(k)', j # k
          PROVE  session'[j].path # session'[k].path
        BY <2>1, <2>2, <2>3 DEF SessionsStand
    <2>4. ASSUME NEW j \in DOMAIN session', Live(j)'
          PROVE  /\ row'[session'[j].path].art = session'[j].art
                 /\ session'[j].state = "processing" /\ session'[j].path \notin crossed' =>
                       \/ row'[session'[j].path].state = "processing"
                       \/ KnownBytes(session[j].art)
        <3>1. /\ j \in DOMAIN session /\ Live(j) /\ session[j].path \in DOMAIN row
              /\ session'[j].path = session[j].path /\ session'[j].art = session[j].art
            BY <1>1, <2>2, <2>4 DEF ClientTypeOK
        <3>2. /\ row[session[j].path].art = session[j].art
              /\ session[j].state = "processing" /\ session[j].path \notin crossed =>
                    row[session[j].path].state = "processing" \/ KnownBytes(session[j].art)
            BY <2>1, <3>1 DEF SessionsStand
        <3>3. CASE session[j].path = p
            BY <1>6, <3>1, <3>2, <3>3
        <3>4. CASE session[j].path # p
            BY <1>6, <1>10, <3>1, <3>2, <3>4
        <3> QED BY <3>3, <3>4
    <2>5. \A j \in DOMAIN session' : Live(j)' => session'[j].art = session[j].art
        BY <2>2
    <2> QED BY <2>3, <2>4, <2>5 DEF SessionsStand, KnownBytes
<1>12. AvailableIsVerified'
    <2>1. \A x \in DOMAIN row' : row'[x].state = "available" => x # p
        BY <1>6
    <2> QED BY <1>6, <1>7, <2>1 DEF ClientIInv, AvailableIsVerified
<1>13. /\ DOMAIN q = RunFields /\ q.pc = "artifact" /\ q.todo = Tail(r.todo)
       /\ q.arts = r.arts /\ q.exit = None /\ q.cov = Coverage'
    BY <1>1, FinishedFacts DEF RunFields
<1>14. Goto(c, q)
    OBVIOUS
<1> HIDE DEF q
<1>15. client'[c] = q /\ DOMAIN client' = Clients /\ \A d \in Clients \ {c} : client'[d] = client[d]
    BY <1>1, <1>14, GotoRun
<1>16. /\ IsSeq(q.todo)
       /\ \A n \in DOMAIN q.todo : \E k \in DOMAIN r.todo : q.todo[n] = r.todo[k]
       /\ \A k \in DOMAIN r.todo : k # 1 => \E n \in DOMAIN q.todo : q.todo[n] = r.todo[k]
    <2>1. /\ IsSeq(Tail(r.todo))
          /\ \A n \in DOMAIN Tail(r.todo) : \E k \in DOMAIN r.todo : Tail(r.todo)[n] = r.todo[k]
          /\ \A k \in DOMAIN r.todo : k # 1 => \E n \in DOMAIN Tail(r.todo) : Tail(r.todo)[n] = r.todo[k]
        BY <1>2, IsSeqTail
    <2> QED BY <1>13, <2>1
<1>17. RunOK(c)'
    <2>1. q.pc \in Answered /\ q.pc # "poll" /\ q.pc \notin Transfer
        BY <1>13 DEF Answered, Transfer
    <2>2. SessionsKept /\ r.pc # "idle"
        BY <1>1, <1>10
    <2> QED BY <1>1, <1>13, <1>15, <1>16, <2>1, <2>2, GoesOnOK
<1>18. ASSUME NEW x \in Declared(c)' PROVE Stands(c, x)'
    <2>1. Stands(c, x)
        <3>1. x \in Declared(c)
            BY <1>1, <1>13, <1>15, <1>18 DEF Declared, RunOf, Answered, Transfer
        <3> QED BY <3>1 DEF ClientIInv, DeclarationsStand
    <2>2. q.exit # Exits.success
        BY <1>13, ClientAssumption DEF Exits
    <2>3. CASE x = p
        BY <1>6, <1>7, <1>13, <1>15, <2>1, <2>2, <2>3 DEF Stands, RunOf
    <2>4. CASE x # p
        <3>1. x \in DOMAIN row
            BY <2>1 DEF Stands
        <3>2. Awaited(c, x) => Awaited(c, x)'
            <4> SUFFICES ASSUME NEW k \in DOMAIN r.todo, r.todo[k].path = x,
                                r.todo[k].status = "upload_required",
                                session[r.todo[k].ses].state \notin Ahead
                         PROVE  Awaited(c, x)'
                BY <1>1 DEF Awaited, RunOf, Ahead
            <4>1. PICK n \in DOMAIN q.todo : q.todo[n] = r.todo[k]
                BY <1>2, <1>3, <1>16, <2>4
            <4>2. r.todo[k].ses \in DOMAIN session /\ session[r.todo[k].ses].path = x
                BY <1>1 DEF RunOK, RunOf
            <4>3. session'[r.todo[k].ses].state \notin Ahead
                BY <1>10, <2>4, <4>2
            <4> QED BY <1>15, <4>1, <4>3 DEF Awaited, RunOf, Ahead
        <3> QED BY <1>6, <1>7, <1>13, <1>15, <2>1, <2>2, <2>4, <3>1, <3>2 DEF Stands, RunOf
    <2> QED BY <2>3, <2>4
<1>19. c \notin mixed => Undisturbed(c)'
    BY <1>1, <1>13, <1>15, UndisturbedOn
<1>20. Loud(c)
    BY <1>1 DEF Loud, RunOf, Early
<1>21. /\ crossed \subseteq crossed'
       /\ \A j \in DOMAIN session : session[j].path # p /\ session[j].state \notin Ahead
               => session'[j].state \notin Ahead
    BY <1>10
<1> QED BY <1>4, <1>5, <1>9, <1>10, <1>11, <1>12, <1>15, <1>17, <1>18, <1>19, <1>20, <1>21, RowFrame

LEMMA CompleteInv ==
    ASSUME ClientIInv, NEW c \in Clients, Complete(c)
    PROVE  ClientIInv'
<1> DEFINE i == Task(c).ses
           s == session[i]
           r == client[c]
           Unwritten == row' = row /\ owner' = owner
<1>1. /\ AtStep(c, "complete")
      /\ canonical' = canonical /\ crossed' = crossed /\ mixed' = mixed /\ disk' = disk
    BY DEF Complete, outside
<1>2. /\ ClientTypeOK /\ RunOK(c) /\ r.pc = "complete" /\ r.exit = None /\ DOMAIN r = RunFields
    BY <1>1, RunAt
<1>3. /\ r.todo # <<>> /\ r.todo[1] = Task(c) /\ i \in DOMAIN session /\ IsSeq(r.todo)
      /\ DOMAIN s = SessionFields
    BY <1>2, TaskFacts DEF Transfer, RunOK, RunOf, ClientTypeOK, SessionFields
<1>4. \/ /\ \E e \in {"Unauthorized", "Mismatch", "Conflict"} : Refused(c, e)
         /\ session' = session /\ Unwritten
      \/ /\ s.state \in {"completed", "processing"} /\ session' = session /\ Unwritten
         /\ Goto(c, [Finished(r) EXCEPT !.cov = Coverage])
      \/ /\ s.state \in {"active", "completing"} /\ row[s.path].art = s.art
         /\ session' = [session EXCEPT ![i] = Completed(s, "processing")]
         /\ row' = [row EXCEPT ![s.path].state = "processing"] /\ owner' = Written(s.path, c)
         /\ Goto(c, [Finished(r) EXCEPT !.cov = Coverage'])
      \/ /\ s.state \in {"active", "completing"} /\ Unwritten /\ Refused(c, "Conflict")
         /\ session' = [session EXCEPT ![i] = Completed(s, "completing")]
      \/ /\ s.state \in {"active", "completing"} /\ Unwritten /\ Refused(c, "Unavailable")
         /\ session' = [session EXCEPT ![i].state = "completing"]
    BY DEF Complete, RunOf, Writable
<1>5. CASE /\ \E e \in {"Unauthorized", "Mismatch", "Conflict"} : Refused(c, e)
           /\ session' = session /\ Unwritten
    <2>1. Tame
        BY <1>2, <1>5, SameSessions
    <2> QED BY <1>1, <1>2, <1>5, <2>1, FrameRefused
<1>6. CASE /\ s.state \in {"completed", "processing"} /\ session' = session /\ Unwritten
           /\ Goto(c, [Finished(r) EXCEPT !.cov = Coverage])
    <2> DEFINE q == [Finished(r) EXCEPT !.cov = Coverage]
    <2>1. Tame /\ SessionsKept /\ DiskKept
        BY <1>1, <1>2, <1>6, SameSessions, TameKept DEF DiskKept
    <2>2. /\ DOMAIN q = RunFields /\ q.pc = "artifact" /\ q.todo = Tail(r.todo)
          /\ q.arts = r.arts /\ q.exit = None /\ q.cov = Coverage
        BY <1>2, FinishedFacts DEF RunFields
    <2>3. Goto(c, q)
        BY <1>6
    <2> HIDE DEF q
    <2>4. client'[c] = q
        BY <1>2, <2>3, GotoRun
    <2>5. /\ IsSeq(q.todo)
          /\ \A n \in DOMAIN q.todo : \E k \in DOMAIN r.todo : q.todo[n] = r.todo[k]
          /\ \A k \in DOMAIN r.todo :
                \/ \E n \in DOMAIN q.todo : q.todo[n] = r.todo[k]
                \/ r.todo[k] = Task(c)
        <3>1. /\ IsSeq(Tail(r.todo))
              /\ \A n \in DOMAIN Tail(r.todo) : \E k \in DOMAIN r.todo : Tail(r.todo)[n] = r.todo[k]
              /\ \A k \in DOMAIN r.todo :
                    k # 1 => \E n \in DOMAIN Tail(r.todo) : Tail(r.todo)[n] = r.todo[k]
            BY <1>3, IsSeqTail
        <3> QED BY <1>3, <2>2, <3>1
    <2>6. RunOK(c)'
        BY <1>2, <2>1, <2>2, <2>4, <2>5, GoesOnOK DEF Answered, Transfer
    <2> QED BY <1>1, <1>2, <1>6, <2>1, <2>2, <2>3, <2>5, <2>6, GoesOn DEF Answered, Transfer
<1>7. CASE /\ s.state \in {"active", "completing"} /\ row[s.path].art = s.art
           /\ session' = [session EXCEPT ![i] = Completed(s, "processing")]
           /\ row' = [row EXCEPT ![s.path].state = "processing"] /\ owner' = Written(s.path, c)
           /\ Goto(c, [Finished(r) EXCEPT !.cov = Coverage'])
    BY <1>1, <1>7, CompleteFits
<1>8. CASE /\ s.state \in {"active", "completing"} /\ Unwritten /\ Refused(c, "Conflict")
           /\ session' = [session EXCEPT ![i] = Completed(s, "completing")]
    <2> DEFINE t == Completed(s, "completing")
    <2>1. DOMAIN t = SessionFields /\ t.path = s.path /\ t.art = s.art /\ t.state = "completing"
        BY <1>3, CompletedFacts
    <2>2. Tame
        BY <1>2, <1>3, <1>8, <2>1, SessionStep
    <2> QED BY <1>1, <1>2, <1>8, <2>2, FrameRefused
<1>9. CASE /\ s.state \in {"active", "completing"} /\ Unwritten /\ Refused(c, "Unavailable")
           /\ session' = [session EXCEPT ![i].state = "completing"]
    <2> DEFINE t == [s EXCEPT !.state = "completing"]
    <2>1. DOMAIN t = SessionFields /\ t.path = s.path /\ t.art = s.art /\ t.state = "completing"
        BY <1>3 DEF SessionFields
    <2>2. session' = [session EXCEPT ![i] = t]
        BY <1>9
    <2> HIDE DEF t
    <2>3. Tame
        BY <1>2, <1>3, <1>9, <2>1, <2>2, SessionStep
    <2> QED BY <1>1, <1>2, <1>9, <2>3, FrameRefused
<1> QED BY <1>4, <1>5, <1>6, <1>7, <1>8, <1>9

-----------------------------------------------------------------------------
(* The job's result.                                                        *)

LEMMA IndexedFacts ==
    ASSUME ClientTypeOK, NEW i \in DOMAIN session
    PROVE  /\ Indexed(i) \in {"available", "mismatch", "quarantined"}
           /\ Indexed(i) = "available" => session[i].art \in Verified
<1> DEFINE s == session[i]
<1>1. Indexed(i) \in {"available", "mismatch", "quarantined"}
    BY DEF Indexed
<1>2. ASSUME Indexed(i) = "available" PROVE s.art \in Verified
    <2>1. /\ Downloaded(s) = [size |-> Len(s.art.bytes), digest |-> s.art.bytes]
          /\ \E f \in {f \in Library : f.bytes = s.object} : Parses(f) /\ Identity(f) = s.art.id
        BY <1>2 DEF Indexed
    <2>2. s.object = s.art.bytes
        <3>1. Downloaded(s).digest = s.art.bytes
            BY <2>1
        <3> QED BY <3>1 DEF Downloaded
    <2>3. PICK f \in Library : f.bytes = s.art.bytes /\ Identity(f) = s.art.id
        BY <2>1, <2>2
    <2>4. s.art \in Art
        BY DEF ClientTypeOK
    <2>5. s.art = [bytes |-> f.bytes, id |-> Identity(f)]
        BY <2>3, <2>4 DEF Art
    <2> QED BY <2>5 DEF Verified
<1> QED BY <1>1, <1>2

LEMMA PublishInv ==
    ASSUME ClientIInv, NEW i \in DOMAIN session, NEW v \in {"available", "mismatch", "quarantined"},
           v = "available" => session[i].art \in Verified, PublishIndexed(i, v)
    PROVE  ClientIInv'
<1> DEFINE t == [session[i] EXCEPT !.state = IF v = "available" THEN "completed" ELSE "failed"]
<1>1. PICK p : p = session[i].path
    OBVIOUS
<1>2. /\ ClientTypeOK /\ SessionsStand /\ DiskKept /\ p \in DOMAIN row /\ IsSeq(session)
      /\ DOMAIN session[i] = SessionFields /\ session[i].art \in Art
    BY <1>1 DEF ClientIInv, ClientTypeOK, SessionFields, PublishIndexed, DiskKept
<1>3. /\ session[i].state = "processing" /\ row[p].state = "processing" /\ row[p].art = session[i].art
      /\ row' = [row EXCEPT ![p].state = v] /\ session' = [session EXCEPT ![i] = t]
      /\ canonical' = IF v = "available" THEN canonical \cup {session[i].art} ELSE canonical
      /\ client' = client /\ owner' = owner /\ crossed' = crossed /\ mixed' = mixed /\ disk' = disk
    BY <1>1 DEF PublishIndexed
<1>4. /\ DOMAIN row' = DOMAIN row /\ row'[p] = [state |-> v, art |-> row[p].art]
      /\ \A q \in DOMAIN row : q # p => row'[q] = row[q]
    BY <1>2, <1>3, WrittenRow DEF RowWritten
<1>5. /\ DOMAIN t = SessionFields /\ t.path = p /\ t.art = session[i].art
      /\ t.state \in {"completed", "failed"}
    BY <1>1, <1>2 DEF SessionFields
<1> HIDE DEF t
<1>6. /\ IsSeq(session') /\ DOMAIN session' = DOMAIN session /\ session'[i] = t
      /\ \A j \in DOMAIN session : j # i => session'[j] = session[j]
    BY <1>2, <1>3, IsSeqExcept
<1>7. SessionsKept /\ \A j \in DOMAIN session : session[j].path # p => session'[j] = session[j]
    BY <1>1, <1>5, <1>6 DEF SessionsKept
<1>8. canonical \subseteq canonical' /\ canonical' \subseteq Verified
    BY <1>2, <1>3 DEF ClientTypeOK
<1>9. ASSUME NEW d \in Clients PROVE RunOK(d) /\ RunOK(d)'
    <2>1. RunOK(d)
        BY <1>2 DEF ClientTypeOK
    <2> QED BY <1>2, <1>3, <1>7, <2>1, RunKept
<1>10. ClientTypeOK'
    <2>1. \A q \in DOMAIN row' : row'[q] \in [state : RowStates, art : Art]
        BY <1>2, <1>3, <1>4 DEF ClientTypeOK, RowStates
    <2>2. \A j \in DOMAIN session' :
             /\ DOMAIN session'[j] = SessionFields
             /\ session'[j].path \in DOMAIN row' /\ session'[j].art \in Art
        BY <1>2, <1>4, <1>5, <1>6 DEF ClientTypeOK, SessionFields
    <2> QED BY <1>2, <1>3, <1>4, <1>6, <1>8, <1>9, <2>1, <2>2 DEF ClientTypeOK, SessionFields
<1>11. SessionsStand'
    <2>1. Live(i)
        BY <1>3 DEF Live, LiveStates
    <2>2. ASSUME NEW j \in DOMAIN session', Live(j)'
          PROVE  /\ j \in DOMAIN session /\ Live(j) /\ session'[j] = session[j]
                 /\ session[j].path # p /\ session[j].path \in DOMAIN row
        <3>1. j # i /\ session'[j] = session[j] /\ Live(j)
            BY <1>5, <1>6, <2>2 DEF Live, LiveStates
        <3> QED BY <1>1, <1>2, <1>6, <2>1, <3>1 DEF SessionsStand, ClientTypeOK
    <2>3. ASSUME NEW j \in DOMAIN session', NEW k \in DOMAIN session', Live(j)', Live(k)', j # k
          PROVE  session'[j].path # session'[k].path
        BY <1>2, <2>2, <2>3 DEF SessionsStand
    <2>4. ASSUME NEW j \in DOMAIN session', Live(j)'
          PROVE  /\ row'[session'[j].path].art = session'[j].art
                 /\ session'[j].state = "processing" /\ session'[j].path \notin crossed' =>
                       \/ row'[session'[j].path].state = "processing"
                       \/ KnownBytes(session'[j].art)
        BY <1>2, <1>3, <1>4, <2>2, <2>4 DEF SessionsStand
    <2> QED BY <1>8, <2>3, <2>4 DEF SessionsStand, KnownBytes
<1>12. AvailableIsVerified'
    <2>1. ASSUME NEW q \in DOMAIN row', row'[q].state = "available", owner'[q] # None
          PROVE  row'[q].art \in canonical'
        <3>1. CASE q = p
            BY <1>3, <1>4, <2>1, <3>1
        <3>2. CASE q # p
            BY <1>3, <1>4, <1>8, <2>1, <3>2 DEF ClientIInv, AvailableIsVerified
        <3> QED BY <3>1, <3>2
    <2> QED BY <2>1 DEF AvailableIsVerified
<1>13. ASSUME NEW d \in Clients, NEW q \in Declared(d)' PROVE Stands(d, q)'
    <2>1. client'[d] = client[d]
        BY <1>3
    <2>2. Stands(d, q) /\ q \in DOMAIN row
        BY <1>13, <2>1, DeclaredKept DEF ClientIInv, DeclarationsStand, Stands
    <2>3. CASE q = p
        BY <1>3, <1>4, <2>2, <2>3 DEF Stands, RunOf
    <2>4. CASE q # p
        BY <1>3, <1>4, <1>7, <1>9, <2>1, <2>2, <2>4, StandsAt
    <2> QED BY <2>3, <2>4
<1>14. ASSUME NEW d \in Clients \ mixed PROVE Undisturbed(d)'
    <2>1. Undisturbed(d)
        BY DEF ClientIInv, AloneIsUndisturbed
    <2>2. Coverage["processing"] # 0
        <3>1. "processing" \in RowStates
            BY DEF RowStates
        <3> QED BY <1>2, <1>3, <3>1, NoneCovered
    <2>3. ~(RunOf(d).pc \in Answered /\ RunOf(d).cov["processing"] = 0)
        BY <2>1, <2>2 DEF Undisturbed
    <2>4. Others(d)' = Others(d) /\ \A e \in Clients : Loud(e)' <=> Loud(e)
        BY <1>3 DEF Others, RunOf, Loud
    <2>5. Others(d) \subseteq Clients
        BY DEF Others
    <2> QED BY <1>3, <2>1, <2>3, <2>4, <2>5 DEF Undisturbed, RunOf
<1> QED BY <1>3, <1>10, <1>11, <1>12, <1>13, <1>14 DEF ClientIInv, DeclarationsStand, AloneIsUndisturbed

-----------------------------------------------------------------------------
(* The theorems.                                                            *)

LEMMA CommandInv ==
    ASSUME ClientIInv, NEW c \in Clients, Command(c)
    PROVE  ClientIInv'
    BY ScanInv, HashInv, NegotiateInv, UpsertInv, SettleInv, RespondInv, ArtifactInv, SignInv,
       PutInv, RecordInv, CompleteInv, PollInv DEF Command

LEMMA ClientNextInv == ClientIInv /\ [ClientNext]_clientVars => ClientIInv'
<1> SUFFICES ASSUME ClientIInv, [ClientNext]_clientVars PROVE ClientIInv'
    OBVIOUS
<1>1. ASSUME NEW c \in Clients, Command(c) \/ Rerun(c) \/ Lose(c) \/ CompleteStops(c)
      PROVE  ClientIInv'
    BY <1>1, CommandInv, RerunInv, LoseInv, CompleteStopsInv
<1>2. ASSUME NEW i \in DOMAIN session, Index(i) \/ IndexFails(i) \/ Expire(i)
      PROVE  ClientIInv'
    <2>1. CASE Index(i)
        <3>1. ClientTypeOK
            BY DEF ClientIInv
        <3> QED BY <2>1, <3>1, IndexedFacts, PublishInv DEF Index
    <2>2. CASE IndexFails(i)
        BY <2>2, PublishInv DEF IndexFails
    <2>3. CASE Expire(i)
        BY <2>3, ExpireInv
    <2> QED BY <1>2, <2>1, <2>2, <2>3
<1>3. ASSUME NEW c \in DOMAIN disk, NEW p \in DOMAIN disk[c].files, NEW f \in Library, Change(c, p, f)
      PROVE  ClientIInv'
    BY <1>3, ChangeInv
<1>4. CASE Revoke
    BY <1>4, RevokeInv
<1>5. CASE UNCHANGED clientVars
    BY <1>5, StutterInv
<1> QED BY <1>1, <1>2, <1>3, <1>4, <1>5 DEF ClientNext

(* Runs, tasks, rows, sessions and canonical artifacts keep to what they    *)
(* are, and a path has one live session, for what its row declares.         *)
THEOREM ClientInvariant == ClientSpec => []ClientIInv
<1> QED BY ClientInitInv, ClientNextInv, PTL DEF ClientSpec

(* A run's fields are what its step needs: its tasks name sessions of their *)
(* paths, rows and artifacts are typed, and the canonical ones are verified *)
(* files.                                                                   *)
THEOREM ClientTypes == ClientSpec => []ClientTypeOK
<1>1. ClientIInv => ClientTypeOK
    BY DEF ClientIInv
<1> QED BY <1>1, ClientInvariant, PTL

LEMMA ExitFollows == ClientIInv => ExitIsTrue
<1> SUFFICES ASSUME ClientIInv, NEW c \in Clients
             PROVE  /\ RunOf(c).exit = Exits.success =>
                          \A p \in DOMAIN RunOf(c).arts \ crossed : owner[p] = c =>
                              /\ row[p].state = "available" /\ row[p].art = RunOf(c).arts[p]
                              /\ \E f \in Library :
                                    RunOf(c).arts[p] = [bytes |-> f.bytes, id |-> Identity(f)]
                    /\ RunOf(c).exit = Exits.internal => c \in mixed
    BY DEF ExitIsTrue
<1>1. ASSUME RunOf(c).exit = Exits.success, NEW p \in DOMAIN RunOf(c).arts \ crossed, owner[p] = c
      PROVE  /\ row[p].state = "available" /\ row[p].art = RunOf(c).arts[p]
             /\ \E f \in Library : RunOf(c).arts[p] = [bytes |-> f.bytes, id |-> Identity(f)]
    <2>1. p \in Declared(c)
        BY <1>1 DEF Declared
    <2>2. p \in DOMAIN row /\ row[p].state = "available" /\ row[p].art = RunOf(c).arts[p]
        BY <1>1, <2>1 DEF ClientIInv, DeclarationsStand, Stands
    <2>3. row[p].art \in Verified
        BY <1>1, <2>2, ClientAssumption DEF ClientIInv, AvailableIsVerified, ClientTypeOK
    <2> QED BY <2>2, <2>3 DEF Verified
<1>2. RunOf(c).exit = Exits.internal => c \in mixed
    BY DEF ClientIInv, AloneIsUndisturbed, Undisturbed
<1> QED BY <1>1, <1>2

(* An upload that reports success is usable, and a run that finds a         *)
(* coverage it cannot explain was not alone (ExitIsTrue).                   *)
THEOREM ExitsTellTheTruth == ClientSpec => []ExitIsTrue
<1> QED BY ClientInvariant, ExitFollows, PTL
=============================================================================
