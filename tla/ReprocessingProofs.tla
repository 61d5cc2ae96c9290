------------------------ MODULE ReprocessingProofs ------------------------
(* Proofs about Reprocessing: no generation is lost, selections are exact   *)
(* and a completed request is complete, for any number of requests, events  *)
(* and workers and any page size.                                           *)
EXTENDS Reprocessing, FiniteSetTheorems, WellFoundedInduction, TLAPS

(* Generations of an event, and what its job may still have to do. *)
EventsHold ==
    \A e \in Events :
        /\ event[e].completed <= event[e].requested
        /\ job["process_crash"][e].state # "absent"
        /\ job["process_crash"][e].target <= event[e].requested
        /\ job["process_crash"][e].state \in {"pending", "leased"} =>
              event[e].completed < event[e].requested \/ event[e].requested = 0

(* What an open transaction relies on until it commits: the rows it locked, *)
(* its job, that a run which ends takes every row that it finishes, and, if *)
(* the refresh is to say that the request is completed, the rest of it.     *)
TxHolds(k, e) ==
    LET t == tx[k][e]
    IN  /\ t.op = None => \A r \in Requests : t.view[r] = None
        /\ t.op # None /\ k = "process_crash" => job[k][e].state \in {"pending", "leased"}
        /\ \A r \in Requests : t.view[r] # None => item[r][e].state \in From(t.op)
        /\ k = "process_crash" /\ t.op \in {"publish", "fail"} =>
              \A r \in Requests :
                 item[r][e].state \in Unfinished /\ item[r][e].generation <= job[k][e].target =>
                    t.view[r] # None
        /\ \A r \in Requests : t.view[r] = "completed" =>
              /\ t.op = "publish"
              /\ request[r].complete
              /\ \A f \in Events : f # e => item[r][f].state \in {"absent", "completed"}

(* Two transactions on jobs of one event never refresh the same request. *)
TxDisjoint ==
    \A j, k \in Kinds : \A e \in Events, r \in Requests :
        j # k => tx[j][e].view[r] = None \/ tx[k][e].view[r] = None

TxsHold == TxDisjoint /\ \A k \in Kinds, e \in Events : TxHolds(k, e)

Selected(r) == {e \in Events : item[r][e].state # "absent"}

(* The selection is over: every event that the query matches is selected,   *)
(* and asking for another page would select nothing.                        *)
SelectionOver(r) ==
    /\ Selected(r) = IF r \in Automatic THEN Scope[r] ELSE Page(r, 0)
    /\ r \in Automatic => Page(r, request[r].cursor) = Candidates(r, request[r].cursor)

(* The selection was given up and is not taken up again. *)
GivenUp(r) ==
    /\ request[r].failure
    /\ request[r].attempt = request[r].maxAttempt
    /\ request[r].lease = None

RequestHolds(r) ==
    /\ LeaseCheck(request[r])
    /\ IF r \in Automatic
       THEN Selected(r) \subseteq Scope[r] /\ {e \in Scope[r] : e <= request[r].cursor} \subseteq Selected(r)
       ELSE Selected(r) \subseteq Page(r, 0) /\ request[r].cursor = 0
    /\ request[r].complete => SelectionOver(r) \/ GivenUp(r)

(* A worker that holds the lease knows the request as it is. *)
SchedHolds(w) ==
    sched[w] # Idle =>
        /\ sched[w].request \in Requests
        /\ request[sched[w].request].lease = w =>
              /\ sched[w].cursor = request[sched[w].request].cursor
              /\ sched[w].attempt = request[sched[w].request].attempt

RequestsHold ==
    /\ \A r \in Requests : RequestHolds(r)
    /\ \A w \in Workers : SchedHolds(w)

IInv == TypeOK /\ EventsHold /\ NoLostGeneration /\ TxsHold /\ RequestsHold /\ CompletedIsTrue

-----------------------------------------------------------------------------
(* Counting.                                                                *)

LEMMA EventsFinite == IsFiniteSet(Events) /\ \A S \in SUBSET Events : IsFiniteSet(S) /\ Cardinality(S) \in Nat
<1>1. IsFiniteSet(Events)
    BY FS_Interval, ConstantsAssumption DEF Events
<1>2. ASSUME NEW S \in SUBSET Events PROVE IsFiniteSet(S) /\ Cardinality(S) \in Nat
    BY <1>1, FS_Subset, FS_CardinalityType
<1> QED BY <1>1, <1>2

LEMMA NumberCounts ==
    ASSUME NEW rows, NEW state
    PROVE  /\ Number(rows, state) \in Nat
           /\ Number(rows, state) = 0 => \A e \in Events : rows[e].state # state
<1> DEFINE S == {e \in Events : rows[e].state = state}
<1>1. S \in SUBSET Events
    OBVIOUS
<1>2. IsFiniteSet(S) /\ Cardinality(S) \in Nat
    BY <1>1, EventsFinite
<1>3. Cardinality(S) = 0 => S = {}
    BY <1>2, FS_EmptySet
<1> QED BY <1>2, <1>3 DEF Number

(* refresh_reprocessing_request computes a state; while the selection goes  *)
(* on it is the present one, and "completed" only when every row is.        *)
LEMMA RefreshedIs ==
    ASSUME NEW q \in Request, NEW rows \in [Events -> Item]
    PROVE  /\ RefreshedState(q, rows) \in States
           /\ ~q.complete => RefreshedState(q, rows) = q.state
           /\ q.complete => RefreshedState(q, rows) \in Finished \cup {"running"}
           /\ q.complete /\ RefreshedState(q, rows) = "completed" =>
                 \A e \in Events : rows[e].state \in {"absent", "completed"}
           /\ Refresh(q, rows) = [q EXCEPT !.state = RefreshedState(q, rows)]
<1> DEFINE queued == Number(rows, "queued")
           running == Number(rows, "running")
           failed == Number(rows, "failed")
<1>1. /\ queued \in Nat /\ running \in Nat /\ failed \in Nat
      /\ queued = 0 => \A e \in Events : rows[e].state # "queued"
      /\ running = 0 => \A e \in Events : rows[e].state # "running"
      /\ failed = 0 => \A e \in Events : rows[e].state # "failed"
    BY NumberCounts
<1>2. \A e \in Events : rows[e].state \in {"absent", "completed", "failed", "queued", "running"}
    BY DEF Item, Unfinished
<1>3. q.state \in States /\ q.complete \in BOOLEAN
    BY DEF Request, Row
<1>4. /\ ~q.complete => RefreshedState(q, rows) = q.state
      /\ q.complete => RefreshedState(q, rows) \in Finished \cup {"running"}
      /\ q.complete /\ RefreshedState(q, rows) = "completed" => ~(queued + running > 0) /\ ~(failed > 0)
    BY DEF RefreshedState, Finished
<1> HIDE DEF queued, running, failed
<1>5. ~(queued + running > 0) /\ ~(failed > 0) => queued = 0 /\ running = 0 /\ failed = 0
    BY <1>1
<1>6. RefreshedState(q, rows) \in States
    BY <1>3, <1>4 DEF States
<1>7. Refresh(q, rows) = [q EXCEPT !.state = RefreshedState(q, rows)]
    BY DEF Refresh
<1> HIDE DEF RefreshedState
<1> QED BY <1>1, <1>2, <1>4, <1>5, <1>6, <1>7

(* The first page holds every candidate up to its last one. *)
LEMMA PageIs ==
    ASSUME NEW r \in Requests, NEW cursor \in Nat
    PROVE  /\ Page(r, cursor) \subseteq Candidates(r, cursor)
           /\ Candidates(r, cursor) \subseteq Scope[r] /\ Scope[r] \subseteq Events
           /\ \A e \in Candidates(r, cursor), f \in Page(r, cursor) : e <= f => e \in Page(r, cursor)
<1>1. Candidates(r, cursor) \subseteq Scope[r] /\ Scope[r] \subseteq Events
    BY ConstantsAssumption DEF Candidates
<1>2. ASSUME NEW e \in Candidates(r, cursor), NEW f \in Page(r, cursor), e <= f
      PROVE  e \in Page(r, cursor)
  <2> DEFINE Before(x) == {y \in Candidates(r, cursor) : y < x}
  <2>1. f \in Candidates(r, cursor) /\ Cardinality(Before(f)) < Limit
      BY DEF Page
  <2>2. e \in Nat /\ f \in Nat /\ \A y \in Candidates(r, cursor) : y \in Nat
      BY <1>1, <2>1 DEF Events
  <2>3. ASSUME NEW y \in Before(e) PROVE y \in Before(f)
    <3>1. y \in Nat /\ y < e /\ y \in Candidates(r, cursor)
        BY <2>2
    <3>2. y < f
        BY <1>2, <2>2, <3>1
    <3> QED BY <3>1, <3>2
  <2>4. Before(f) \in SUBSET Events /\ Before(e) \in SUBSET Events
      BY <1>1
  <2>5. Cardinality(Before(e)) <= Cardinality(Before(f))
    <3>1. Before(e) \subseteq Before(f) /\ IsFiniteSet(Before(f))
        BY <2>3, <2>4, EventsFinite
    <3> QED BY <3>1, FS_Subset
  <2>6. Cardinality(Before(e)) \in Nat /\ Cardinality(Before(f)) \in Nat
      BY <2>4, EventsFinite
  <2>7. Cardinality(Before(e)) < Limit
      BY <2>1, <2>5, <2>6, ConstantsAssumption
  <2> QED BY <2>7 DEF Page
<1>3. Page(r, cursor) \subseteq Candidates(r, cursor)
    BY DEF Page
<1> QED BY <1>1, <1>2, <1>3

LEMMA LastIs ==
    ASSUME NEW page \in SUBSET Events
    PROVE  LET last == CHOOSE e \in page \cup {0} : \A f \in page : f <= e
           IN  last \in page \cup {0} /\ last \in 0..NumEvents /\ \A f \in page : f <= last
<1>1. \A x \in page \cup {0} : x \in Nat /\ x <= NumEvents
    BY ConstantsAssumption DEF Events
<1>2. \E e \in page \cup {0} : \A f \in page : f <= e
  <2> DEFINE Less == {pair \in Nat \X Nat : pair[1] < pair[2]}
             T == {NumEvents - x : x \in page \cup {0}}
  <2>1. IsWellFoundedOn(Less, Nat)
      BY NatLessThanWellFounded DEF OpToRel
  <2>2. T \subseteq Nat /\ T # {}
      BY <1>1, ConstantsAssumption
  <2> HIDE DEF Less
  <2>3. PICK t \in T : \A u \in T : ~(<<u, t>> \in Less)
      BY <2>1, <2>2, WFMin
  <2>4. PICK e \in page \cup {0} : t = NumEvents - e
      OBVIOUS
  <2>5. ASSUME NEW f \in page PROVE f <= e
    <3> DEFINE u == NumEvents - f
    <3>1. u \in T /\ u \in Nat /\ t \in Nat
        BY <2>2
    <3>2. ~(u < t)
        BY <2>3, <3>1 DEF Less
    <3> QED BY <1>1, <2>4, <3>1, <3>2, ConstantsAssumption
  <2> QED BY <2>5
<1> DEFINE last == CHOOSE e \in page \cup {0} : \A f \in page : f <= e
<1>3. last \in page \cup {0} /\ \A f \in page : f <= last
    BY <1>2
<1> HIDE DEF last
<1>4. last \in 0..NumEvents
    BY <1>1, <1>3
<1> QED BY <1>3, <1>4 DEF last

-----------------------------------------------------------------------------
(* Steps on one request that leave the events and jobs alone.               *)

Scheds == [request : Requests \cup {None}, cursor : 0..NumEvents,
           attempt : Nat, exhausted : BOOLEAN]

LEMMA OneRequest ==
    ASSUME IInv, NEW r \in Requests, NEW new \in Request, request' = [request EXCEPT ![r] = new],
           UNCHANGED <<event, item, job, tx>>,
           request[r].complete => new.complete,
           LeaseCheck(new), new.cursor = request[r].cursor,
           new.complete => SelectionOver(r)
                           \/ (new.failure /\ new.attempt = new.maxAttempt /\ new.lease = None),
           new.state = "completed" =>
              new.complete /\ \A e \in Events : item[r][e].state \in {"absent", "completed"},
           sched' \in [Workers -> Scheds], \A w \in Workers : SchedHolds(w)'
    PROVE  IInv'
<1>1. /\ request' \in [Requests -> Request] /\ request'[r] = new
      /\ \A x \in Requests : x # r => request'[x] = request[x]
    BY DEF IInv, TypeOK
<1>2. TypeOK'
    BY <1>1 DEF IInv, TypeOK, Scheds
<1>3. EventsHold' /\ NoLostGeneration'
    BY DEF IInv, EventsHold, NoLostGeneration
<1>4. TxsHold'
  <2>1. TxDisjoint'
      BY DEF IInv, TxsHold, TxDisjoint
  <2>2. ASSUME NEW k \in Kinds, NEW e \in Events PROVE TxHolds(k, e)'
    <3>1. TxHolds(k, e)
        BY DEF IInv, TxsHold
    <3>2. \A x \in Requests : request[x].complete => request'[x].complete
        BY <1>1
    <3> QED BY <3>1, <3>2 DEF TxHolds
  <2> QED BY <2>1, <2>2 DEF TxsHold
<1>5. ASSUME NEW x \in Requests PROVE RequestHolds(x)'
  <2>1. RequestHolds(x)
      BY DEF IInv, RequestsHold
  <2>2. CASE x # r
      BY <1>1, <2>1, <2>2 DEF RequestHolds, Selected, SelectionOver, GivenUp, LeaseCheck
  <2>3. CASE x = r
    <3>1. LeaseCheck(request[x])'
        BY <1>1, <2>3 DEF LeaseCheck
    <3>2. new.complete => SelectionOver(x)' \/ GivenUp(x)'
        BY <1>1, <2>3 DEF SelectionOver, Selected, GivenUp
    <3> QED BY <1>1, <2>1, <2>3, <3>1, <3>2 DEF RequestHolds, Selected
  <2> QED BY <2>2, <2>3
<1>6. CompletedIsTrue'
    BY <1>1 DEF IInv, CompletedIsTrue
<1> QED BY <1>2, <1>3, <1>4, <1>5, <1>6 DEF IInv, RequestsHold

LEMMA CreateIInv ==
    ASSUME IInv, NEW r \in Requests, Create(r)
    PROVE  IInv'
<1> DEFINE new == [request[r] EXCEPT !.state = "pending"]
<1>1. request[r] \in Request /\ request[r].state = "absent" /\ request \in [Requests -> Request]
    BY DEF Create, IInv, TypeOK
<1>2. request' = [request EXCEPT ![r] = new] /\ UNCHANGED <<event, item, job, tx, sched>>
    BY <1>1 DEF Create
<1>3. /\ new \in Request /\ new.state = "pending" /\ new.lease = request[r].lease
      /\ new.cursor = request[r].cursor /\ new.complete = request[r].complete
      /\ new.failure = request[r].failure /\ new.attempt = request[r].attempt
      /\ new.maxAttempt = request[r].maxAttempt
    BY <1>1 DEF Request, Row, States
<1>4. RequestHolds(r)
    BY DEF IInv, RequestsHold
<1>5. LeaseCheck(new)
    BY <1>1, <1>3, <1>4 DEF RequestHolds, LeaseCheck
<1>6. new.complete => SelectionOver(r) \/ (new.failure /\ new.attempt = new.maxAttempt /\ new.lease = None)
    BY <1>3, <1>4 DEF RequestHolds, GivenUp
<1> HIDE DEF new
<1>7. request'[r] = new /\ \A x \in Requests : x # r => request'[x] = request[x]
    BY <1>1, <1>2
<1>8. \A w \in Workers : SchedHolds(w)'
    BY <1>2, <1>3, <1>7 DEF IInv, RequestsHold, SchedHolds
<1>9. sched' \in [Workers -> Scheds]
    BY <1>2 DEF IInv, TypeOK, Scheds
<1> QED BY <1>2, <1>3, <1>5, <1>6, <1>8, <1>9, OneRequest

LEMMA ExpireIInv ==
    ASSUME IInv, NEW r \in Requests, ExpireRequest(r)
    PROVE  IInv'
<1> DEFINE new == [request[r] EXCEPT !.expired = TRUE]
<1>1. request[r] \in Request /\ request \in [Requests -> Request]
    BY DEF ExpireRequest, IInv, TypeOK
<1>2. request' = [request EXCEPT ![r] = new] /\ UNCHANGED <<event, item, job, tx, sched>>
    BY <1>1 DEF ExpireRequest
<1>3. /\ new \in Request /\ new.state = request[r].state /\ new.lease = request[r].lease
      /\ new.cursor = request[r].cursor /\ new.complete = request[r].complete
      /\ new.failure = request[r].failure /\ new.attempt = request[r].attempt
      /\ new.maxAttempt = request[r].maxAttempt
    BY <1>1 DEF Request, Row
<1>4. RequestHolds(r)
    BY DEF IInv, RequestsHold
<1>5. LeaseCheck(new)
    BY <1>3, <1>4 DEF RequestHolds, LeaseCheck
<1>6. new.complete => SelectionOver(r) \/ (new.failure /\ new.attempt = new.maxAttempt /\ new.lease = None)
    BY <1>3, <1>4 DEF RequestHolds, GivenUp
<1> HIDE DEF new
<1>7. request'[r] = new /\ \A x \in Requests : x # r => request'[x] = request[x]
    BY <1>1, <1>2
<1>8. \A w \in Workers : SchedHolds(w)'
    BY <1>2, <1>3, <1>7 DEF IInv, RequestsHold, SchedHolds
<1>9. sched' \in [Workers -> Scheds]
    BY <1>2 DEF IInv, TypeOK, Scheds
<1>10. new.state = "completed" =>
          new.complete /\ \A e \in Events : item[r][e].state \in {"absent", "completed"}
    BY <1>3 DEF IInv, CompletedIsTrue
<1> QED BY <1>2, <1>3, <1>5, <1>6, <1>8, <1>9, <1>10, OneRequest

LEMMA IdleType == Idle \in Scheds
BY ConstantsAssumption DEF Idle, Scheds

(* A request that was given up cannot be claimed. *)
LEMMA ClaimRequestIInv ==
    ASSUME IInv, NEW w \in Workers, NEW r \in Requests, ClaimRequest(w, r)
    PROVE  IInv'
<1> DEFINE q == request[r]
           attempt == q.attempt + (IF Exhausted(q) THEN 0 ELSE 1)
           new == [q EXCEPT !.state = "scheduling", !.attempt = attempt, !.lease = w, !.expired = FALSE]
           plan == [request |-> r, cursor |-> q.cursor, attempt |-> attempt, exhausted |-> Exhausted(q)]
<1>1. /\ q \in Request /\ request \in [Requests -> Request] /\ sched \in [Workers -> Scheds]
      /\ Claimable(q) /\ sched[w] = Idle
    BY DEF ClaimRequest, IInv, TypeOK, Scheds
<1>2. /\ request' = [request EXCEPT ![r] = new] /\ sched' = [sched EXCEPT ![w] = plan]
      /\ UNCHANGED <<event, item, job, tx>>
    BY DEF ClaimRequest
<1>3. attempt \in Nat /\ attempt <= q.maxAttempt
    BY <1>1, ConstantsAssumption DEF Request, Row, Claimable, Exhausted
<1>4. RequestHolds(r)
    BY DEF IInv, RequestsHold
<1>5. ~GivenUp(r)
  <2>1. ASSUME GivenUp(r) PROVE FALSE
    <3>1. q.attempt = q.maxAttempt /\ q.lease = None
        BY <2>1 DEF GivenUp
    <3>2. q.state = "scheduling"
      <4>1. q.attempt \in Nat
          BY <1>1 DEF Request, Row
      <4>2. ~(q.attempt < q.maxAttempt)
          BY <3>1, <4>1
      <4> QED BY <1>1, <4>2 DEF Claimable
    <3> QED BY <1>4, <3>1, <3>2 DEF RequestHolds, LeaseCheck
  <2> QED BY <2>1
<1>6. q.complete => SelectionOver(r)
    BY <1>4, <1>5 DEF RequestHolds
<1>7. Exhausted(q) \in BOOLEAN
    BY DEF Exhausted
<1> HIDE DEF attempt
<1>8. /\ new \in Request /\ new.state = "scheduling" /\ new.lease = w /\ new.attempt = attempt
      /\ new.cursor = q.cursor /\ new.complete = q.complete
    BY <1>1, <1>3 DEF Request, Row, States
<1>9. /\ plan \in Scheds /\ plan.request = r /\ plan.cursor = q.cursor /\ plan.attempt = attempt
    BY <1>1, <1>3, <1>7 DEF Scheds, Request, Row
<1>10. LeaseCheck(new)
    BY <1>8, NoneAssumption DEF LeaseCheck
<1> HIDE DEF new, plan
<1>11. /\ request'[r] = new /\ \A x \in Requests : x # r => request'[x] = request[x]
       /\ sched'[w] = plan /\ \A v \in Workers : v # w => sched'[v] = sched[v]
       /\ sched' \in [Workers -> Scheds]
    BY <1>1, <1>2, <1>9
<1>12. ASSUME NEW v \in Workers PROVE SchedHolds(v)'
  <2>1. CASE v = w
      BY <1>8, <1>9, <1>11, <2>1 DEF SchedHolds
  <2>2. CASE v # w
    <3>1. SchedHolds(v) /\ sched'[v] = sched[v]
        BY <1>11, <2>2 DEF IInv, RequestsHold
    <3>2. sched[v].request = r => request'[sched[v].request].lease # v
        BY <1>8, <1>11, <2>2
    <3> QED BY <1>11, <3>1, <3>2 DEF SchedHolds
  <2> QED BY <2>1, <2>2
<1> QED BY <1>2, <1>6, <1>8, <1>10, <1>11, <1>12, OneRequest

LEMMA ScheduleFailureIInv ==
    ASSUME IInv, NEW w \in Workers, ScheduleFailure(w) \/ CrashScheduler(w)
    PROVE  IInv'
<1> DEFINE r == sched[w].request
           q == request[r]
<1>1. /\ sched[w] # Idle /\ sched' = [sched EXCEPT ![w] = Idle]
      /\ UNCHANGED <<event, item, job, tx>>
    BY DEF ScheduleFailure, CrashScheduler
<1>2. SchedHolds(w) /\ r \in Requests
    BY <1>1 DEF IInv, RequestsHold, SchedHolds
<1>3. /\ q \in Request /\ request \in [Requests -> Request] /\ sched \in [Workers -> Scheds]
      /\ item[r] \in [Events -> Item]
    BY <1>2 DEF IInv, TypeOK, Scheds
<1>4. /\ sched' \in [Workers -> Scheds] /\ sched'[w] = Idle
      /\ \A v \in Workers : v # w => sched'[v] = sched[v]
    BY <1>1, <1>3, IdleType
<1>5. RequestHolds(r)
    BY <1>2 DEF IInv, RequestsHold
<1>6. ASSUME NEW new \in Request, request' = [request EXCEPT ![r] = new],
             new = q \/ new.lease = None
      PROVE  \A v \in Workers : SchedHolds(v)'
  <2>1. request'[r] = new /\ \A x \in Requests : x # r => request'[x] = request[x]
      BY <1>2, <1>3, <1>6
  <2> SUFFICES ASSUME NEW v \in Workers PROVE SchedHolds(v)'
      OBVIOUS
  <2>2. CASE v = w
      BY <1>4, <2>2 DEF SchedHolds
  <2>3. CASE v # w
    <3>1. SchedHolds(v) /\ sched'[v] = sched[v] /\ v # None
        BY <1>4, <2>3, NoneAssumption DEF IInv, RequestsHold
    <3>2. CASE sched[v].request = r /\ new # q
        BY <1>6, <2>1, <3>1, <3>2 DEF SchedHolds
    <3>3. CASE ~(sched[v].request = r /\ new # q)
        BY <2>1, <3>1, <3>3 DEF SchedHolds
    <3> QED BY <3>2, <3>3
  <2> QED BY <2>2, <2>3
<1>7. CASE UNCHANGED request
  <2>1. request' = [request EXCEPT ![r] = q]
      BY <1>2, <1>3, <1>7
  <2>2. \A v \in Workers : SchedHolds(v)'
      BY <1>3, <1>6, <2>1
  <2>3. q.state = "completed" => q.complete /\ \A e \in Events : item[r][e].state \in {"absent", "completed"}
      BY <1>2 DEF IInv, CompletedIsTrue
  <2>4. q.complete => SelectionOver(r) \/ (q.failure /\ q.attempt = q.maxAttempt /\ q.lease = None)
      BY <1>5 DEF RequestHolds, GivenUp
  <2>5. LeaseCheck(q)
      BY <1>5 DEF RequestHolds
  <2> HIDE DEF r, q
  <2> QED BY <1>1, <1>2, <1>3, <1>4, <2>1, <2>2, <2>3, <2>4, <2>5, OneRequest DEF q
<1>8. CASE ScheduleFailure(w) /\ HoldsRequest(w)
  <2>1. q.lease = w /\ sched[w].attempt = q.attempt /\ q.lease # None
      BY <1>1, <1>2, <1>8, NoneAssumption DEF HoldsRequest, SchedHolds
  <2>2. q.complete => SelectionOver(r)
      BY <1>5, <2>1 DEF RequestHolds, GivenUp
  <2>3. CASE sched[w].attempt < q.maxAttempt
    <3> DEFINE new == [q EXCEPT !.state = "pending", !.lease = None, !.failure = TRUE]
    <3>1. request' = [request EXCEPT ![r] = new]
        BY <1>8, <2>3 DEF ScheduleFailure
    <3>2. /\ new \in Request /\ new.state = "pending" /\ new.lease = None
          /\ new.cursor = q.cursor /\ new.complete = q.complete
        BY <1>3 DEF Request, Row, States
    <3>3. LeaseCheck(new)
        BY <3>2 DEF LeaseCheck
    <3> HIDE DEF new
    <3>4. \A v \in Workers : SchedHolds(v)'
        BY <1>6, <3>1, <3>2
    <3> HIDE DEF r
    <3> QED BY <1>1, <1>2, <1>4, <2>2, <3>1, <3>2, <3>3, <3>4, OneRequest
  <2>4. CASE ~(sched[w].attempt < q.maxAttempt)
    <3> DEFINE gone == [q EXCEPT !.state = "failed", !.complete = TRUE, !.lease = None, !.failure = TRUE]
               state == RefreshedState(gone, item[r])
               new == [gone EXCEPT !.state = state]
    <3>1. request' = [request EXCEPT ![r] = Refresh(gone, item[r])]
        BY <1>8, <2>4 DEF ScheduleFailure
    <3>2. /\ gone \in Request /\ gone.complete /\ gone.lease = None /\ gone.failure
          /\ gone.cursor = q.cursor /\ gone.attempt = q.attempt /\ gone.maxAttempt = q.maxAttempt
        BY <1>3 DEF Request, Row, States, Finished
    <3> HIDE DEF gone
    <3>3. /\ state \in Finished \cup {"running"} /\ state \in States
          /\ state = "completed" => \A e \in Events : item[r][e].state \in {"absent", "completed"}
      <4>1. item[r] \in [Events -> Item]
          BY <1>3
      <4> HIDE DEF r, q
      <4> QED BY <3>2, <4>1, RefreshedIs
    <3>a. request' = [request EXCEPT ![r] = new]
        BY <3>1 DEF Refresh
    <3> HIDE DEF state
    <3>4. /\ new \in Request /\ new.state = state /\ new.complete /\ new.lease = None /\ new.failure
          /\ new.cursor = q.cursor /\ new.attempt = q.attempt /\ new.maxAttempt = q.maxAttempt
        BY <3>2, <3>3 DEF Request, Row
    <3>5. q.attempt = q.maxAttempt
      <4>1. q.attempt \in Nat /\ q.maxAttempt \in Nat /\ q.attempt <= q.maxAttempt
          BY <1>3 DEF Request, Row
      <4>2. ~(q.attempt < q.maxAttempt)
          BY <2>1, <2>4
      <4> HIDE DEF q
      <4> QED BY <4>1, <4>2
    <3>6. LeaseCheck(new)
        BY <3>3, <3>4 DEF LeaseCheck, Finished
    <3> HIDE DEF new
    <3>7. \A v \in Workers : SchedHolds(v)'
        BY <1>6, <3>a, <3>4
    <3> HIDE DEF r
    <3> QED BY <1>1, <1>2, <1>4, <3>3, <3>a, <3>4, <3>5, <3>6, <3>7, OneRequest
  <2> QED BY <2>3, <2>4
<1> QED BY <1>7, <1>8 DEF ScheduleFailure, CrashScheduler

-----------------------------------------------------------------------------
(* What the transaction of a job makes visible.                             *)

Views == [Requests -> States \cup {None}]

LEMMA Rows ==
    ASSUME NEW op \in Ops
    PROVE  From(op) \subseteq Unfinished /\ To(op) \in {"queued", "running", "completed", "failed"}
           /\ (To(op) \in Unfinished <=> op \in {"claim", "release"})
           /\ (To(op) = "completed" <=> op = "publish")
BY DEF Ops, From, To, Unfinished

LEMMA AppliedItems ==
    ASSUME TypeOK, NEW k \in Kinds, NEW e \in Events, NEW op \in Ops, NEW view \in Views,
           Apply(k, e, op, view)
    PROVE  /\ item' \in [Requests -> [Events -> Item]]
           /\ \A r \in Requests :
                 /\ \A f \in Events : f # e => item'[r][f] = item[r][f]
                 /\ view[r] = None => item'[r][e] = item[r][e]
                 /\ view[r] # None => item'[r][e].state = To(op)
                 /\ item'[r][e].generation = item[r][e].generation
<1> DEFINE touched == {r \in Requests : view[r] # None}
<1>1. item' = [r \in Requests |->
                 [item[r] EXCEPT ![e].state = IF r \in touched THEN To(op) ELSE @]]
    BY DEF Apply
<1>2. ASSUME NEW r \in Requests
      PROVE  /\ item'[r] \in [Events -> Item]
             /\ \A f \in Events : f # e => item'[r][f] = item[r][f]
             /\ view[r] = None => item'[r][e] = item[r][e]
             /\ view[r] # None => item'[r][e].state = To(op)
             /\ item'[r][e].generation = item[r][e].generation
  <2>1. item[r] \in [Events -> Item] /\ item[r][e] \in Item
      BY DEF TypeOK
  <2> DEFINE state == IF r \in touched THEN To(op) ELSE item[r][e].state
             new == [item[r][e] EXCEPT !.state = state]
  <2>2. item'[r] = [item[r] EXCEPT ![e] = new]
      BY <1>1, <2>1
  <2>3. /\ state \in {"absent", "completed", "failed"} \cup Unfinished
        /\ view[r] # None => state = To(op)
        /\ view[r] = None => state = item[r][e].state
      BY <2>1, Rows DEF Item, Unfinished
  <2> HIDE DEF state
  <2>4. /\ new \in Item /\ new.state = state /\ new.generation = item[r][e].generation
        /\ state = item[r][e].state => new = item[r][e]
      BY <2>1, <2>3 DEF Item
  <2> HIDE DEF new
  <2> QED BY <2>1, <2>2, <2>3, <2>4
<1> HIDE DEF touched
<1>3. item' \in [Requests -> [Events -> Item]]
    BY <1>1, <1>2
<1> QED BY <1>2, <1>3

LEMMA AppliedRequests ==
    ASSUME TypeOK, NEW k \in Kinds, NEW e \in Events, NEW op \in Ops, NEW view \in Views,
           Apply(k, e, op, view)
    PROVE  /\ request' \in [Requests -> Request]
           /\ \A r \in Requests :
                 /\ view[r] = None => request'[r] = request[r]
                 /\ view[r] # None => /\ request'[r] = [request[r] EXCEPT !.state = view[r]]
                                      /\ request'[r].state = view[r]
                 /\ request'[r].lease = request[r].lease
                 /\ request'[r].cursor = request[r].cursor
                 /\ request'[r].complete = request[r].complete
                 /\ request'[r].failure = request[r].failure
                 /\ request'[r].attempt = request[r].attempt
                 /\ request'[r].maxAttempt = request[r].maxAttempt
<1>1. request' = [r \in Requests |-> IF view[r] # None THEN [request[r] EXCEPT !.state = view[r]]
                                     ELSE request[r]]
    BY DEF Apply
<1>2. ASSUME NEW r \in Requests
      PROVE  /\ request'[r] \in Request
             /\ view[r] = None => request'[r] = request[r]
             /\ view[r] # None => /\ request'[r] = [request[r] EXCEPT !.state = view[r]]
                                  /\ request'[r].state = view[r]
             /\ request'[r].lease = request[r].lease
             /\ request'[r].cursor = request[r].cursor
             /\ request'[r].complete = request[r].complete
             /\ request'[r].failure = request[r].failure
             /\ request'[r].attempt = request[r].attempt
             /\ request'[r].maxAttempt = request[r].maxAttempt
  <2>1. request[r] \in Request /\ view[r] \in States \cup {None}
      BY DEF TypeOK, Views
  <2>2. CASE view[r] = None
      BY <1>1, <2>1, <2>2
  <2>3. CASE view[r] # None
    <3> DEFINE new == [request[r] EXCEPT !.state = view[r]]
    <3>1. request'[r] = new
        BY <1>1, <2>3
    <3>2. /\ new \in Request /\ new.state = view[r] /\ new.lease = request[r].lease
          /\ new.cursor = request[r].cursor /\ new.complete = request[r].complete
          /\ new.failure = request[r].failure /\ new.attempt = request[r].attempt
      /\ new.maxAttempt = request[r].maxAttempt
        BY <2>1, <2>3 DEF Request, Row
    <3> QED BY <2>3, <3>1, <3>2
  <2> QED BY <2>2, <2>3
<1>3. request' \in [Requests -> Request]
    BY <1>1, <1>2
<1> QED BY <1>2, <1>3

LEMMA AppliedJobs ==
    ASSUME TypeOK, NEW k \in Kinds, NEW e \in Events, NEW op \in Ops, NEW view \in Views,
           Apply(k, e, op, view)
    PROVE  /\ job' \in [Kinds -> [Events -> Job]]
           /\ \A j \in Kinds, f \in Events : j # k \/ f # e => job'[j][f] = job[j][f]
           /\ op = "claim" => job'[k][e] = [state |-> "leased", target |-> event[e].requested]
           /\ op = "release" => job'[k][e] = [state |-> "pending", target |-> 0]
           /\ op \in {"publish", "fail"} => job'[k][e] = [state |-> Closes(k, e), target |-> 0]
           /\ Closes(k, e) \in {"pending", "done"}
           /\ Closes(k, e) = "pending" => k = "process_crash" /\ event[e].requested > job[k][e].target
           /\ k = "process_crash" /\ event[e].requested > job[k][e].target => Closes(k, e) = "pending"
<1> DEFINE target == Generation(k, e, op)
           new == CASE op = "claim" -> [state |-> "leased", target |-> target]
                    [] op = "release" -> [state |-> "pending", target |-> 0]
                    [] OTHER -> [state |-> Closes(k, e), target |-> 0]
<1>1. job' = [job EXCEPT ![k][e] = new]
    BY DEF Apply
<1>2. event[e] \in Event /\ job[k][e] \in Job
    BY DEF TypeOK
<1>3. /\ Closes(k, e) \in {"pending", "done"}
      /\ Closes(k, e) = "pending" => k = "process_crash" /\ event[e].requested > job[k][e].target
      /\ k = "process_crash" /\ event[e].requested > job[k][e].target => Closes(k, e) = "pending"
    BY DEF Closes
<1>4. /\ op = "claim" => new = [state |-> "leased", target |-> event[e].requested]
      /\ op = "release" => new = [state |-> "pending", target |-> 0]
      /\ op \in {"publish", "fail"} => new = [state |-> Closes(k, e), target |-> 0]
    BY DEF Generation, Ops
<1> HIDE DEF new
<1>5. new \in Job
    BY <1>2, <1>3, <1>4 DEF Job, Event, Ops
<1> QED BY <1>1, <1>3, <1>4, <1>5 DEF TypeOK

LEMMA AppliedEvents ==
    ASSUME TypeOK, NEW k \in Kinds, NEW e \in Events, NEW op \in Ops, NEW view \in Views,
           Apply(k, e, op, view)
    PROVE  /\ event' \in [Events -> Event]
           /\ \A f \in Events : /\ event'[f].requested = event[f].requested
                                /\ f # e => event'[f] = event[f]
           /\ event'[e].completed = IF k = "process_crash" /\ op \in {"publish", "fail"}
                                       /\ job[k][e].target > event[e].completed
                                    THEN job[k][e].target ELSE event[e].completed
<1> DEFINE counts == k = "process_crash" /\ op \in {"publish", "fail"}
                     /\ job[k][e].target > event[e].completed
<1>1. event \in [Events -> Event] /\ event[e] \in Event /\ job[k][e] \in Job
    BY DEF TypeOK
<1>2. event' = IF counts THEN [event EXCEPT ![e].completed = job[k][e].target] ELSE event
    BY DEF Apply, Generation
<1>3. CASE counts
  <2> DEFINE new == [event[e] EXCEPT !.completed = job[k][e].target]
  <2>1. event' = [event EXCEPT ![e] = new]
      BY <1>1, <1>2, <1>3
  <2>2. new \in Event /\ new.requested = event[e].requested /\ new.completed = job[k][e].target
      BY <1>1 DEF Event, Job
  <2> HIDE DEF new
  <2> QED BY <1>1, <1>3, <2>1, <2>2
<1>4. CASE ~counts
    BY <1>1, <1>2, <1>4
<1> QED BY <1>3, <1>4

(* What a transaction may rely on when it makes its changes visible. *)
Ready(k, e, op, view) ==
    /\ k = "process_crash" => job[k][e].state \in {"pending", "leased"}
    /\ \A r \in Requests : view[r] # None =>
          /\ item[r][e].state \in From(op)
          /\ LeaseCheck([request[r] EXCEPT !.state = view[r]])
          /\ \A j \in Kinds : j # k => tx[j][e].view[r] = None
    /\ k = "process_crash" /\ op \in {"publish", "fail"} =>
          \A r \in Requests :
             item[r][e].state \in Unfinished /\ item[r][e].generation <= job[k][e].target => view[r] # None
    /\ \A r \in Requests : view[r] = "completed" =>
          /\ op = "publish"
          /\ request[r].complete
          /\ \A f \in Events : f # e => item[r][f].state \in {"absent", "completed"}

LEMMA ApplyKeeps ==
    ASSUME IInv, NEW k \in Kinds, NEW e \in Events, NEW op \in Ops, NEW view \in Views,
           Apply(k, e, op, view), Ready(k, e, op, view), UNCHANGED sched,
           tx' \in [Kinds -> [Events -> Tx]],
           \A j \in Kinds, f \in Events : j # k \/ f # e => tx'[j][f] = tx[j][f],
           tx'[k][e].op = None /\ \A r \in Requests : tx'[k][e].view[r] = None
    PROVE  IInv'
<1>t. TypeOK
    BY DEF IInv
<1>1. /\ item' \in [Requests -> [Events -> Item]]
      /\ \A r \in Requests :
            /\ \A f \in Events : f # e => item'[r][f] = item[r][f]
            /\ view[r] = None => item'[r][e] = item[r][e]
            /\ view[r] # None => item'[r][e].state = To(op)
            /\ item'[r][e].generation = item[r][e].generation
    BY <1>t, AppliedItems
<1>2. /\ request' \in [Requests -> Request]
      /\ \A r \in Requests :
            /\ view[r] = None => request'[r] = request[r]
            /\ view[r] # None => /\ request'[r] = [request[r] EXCEPT !.state = view[r]]
                                 /\ request'[r].state = view[r]
            /\ request'[r].lease = request[r].lease
            /\ request'[r].cursor = request[r].cursor
            /\ request'[r].complete = request[r].complete
            /\ request'[r].failure = request[r].failure
            /\ request'[r].attempt = request[r].attempt
            /\ request'[r].maxAttempt = request[r].maxAttempt
    BY <1>t, AppliedRequests
<1>3. /\ job' \in [Kinds -> [Events -> Job]]
      /\ \A j \in Kinds, f \in Events : j # k \/ f # e => job'[j][f] = job[j][f]
      /\ op = "claim" => job'[k][e] = [state |-> "leased", target |-> event[e].requested]
      /\ op = "release" => job'[k][e] = [state |-> "pending", target |-> 0]
      /\ op \in {"publish", "fail"} => job'[k][e] = [state |-> Closes(k, e), target |-> 0]
      /\ Closes(k, e) \in {"pending", "done"}
      /\ Closes(k, e) = "pending" => k = "process_crash" /\ event[e].requested > job[k][e].target
      /\ k = "process_crash" /\ event[e].requested > job[k][e].target => Closes(k, e) = "pending"
    BY <1>t, AppliedJobs
<1>4. /\ event' \in [Events -> Event]
      /\ \A f \in Events : /\ event'[f].requested = event[f].requested
                           /\ f # e => event'[f] = event[f]
      /\ event'[e].completed = IF k = "process_crash" /\ op \in {"publish", "fail"}
                                  /\ job[k][e].target > event[e].completed
                               THEN job[k][e].target ELSE event[e].completed
    BY <1>t, AppliedEvents
<1>5. TypeOK'
    BY <1>t, <1>1, <1>2, <1>3, <1>4 DEF TypeOK
<1>r. From(op) \subseteq Unfinished /\ (To(op) \in Unfinished <=> op \in {"claim", "release"})
      /\ (To(op) = "completed" <=> op = "publish")
    BY Rows
<1>k. "process_crash" \in Kinds
    BY DEF Kinds
<1>v. \A r \in Requests : view[r] # None => item[r][e].state \in Unfinished
    BY <1>r DEF Ready
<1>u. ASSUME NEW r \in Requests, NEW f \in Events
      PROVE  /\ f # e \/ view[r] = None => item'[r][f] = item[r][f]
             /\ item'[r][f].generation = item[r][f].generation
             /\ item'[r][f].state \in Unfinished => item[r][f].state \in Unfinished
  <2>1. CASE f # e
      BY <1>1, <2>1
  <2>2. CASE f = e
      BY <1>1, <1>v, <2>2
  <2> QED BY <2>1, <2>2
<1>6. EventsHold'
  <2> SUFFICES ASSUME NEW f \in Events
               PROVE  /\ event'[f].completed <= event'[f].requested
                      /\ job'["process_crash"][f].state # "absent"
                      /\ job'["process_crash"][f].target <= event'[f].requested
                      /\ job'["process_crash"][f].state \in {"pending", "leased"} =>
                            event'[f].completed < event'[f].requested \/ event'[f].requested = 0
      BY DEF EventsHold
  <2>1. /\ event[f].completed <= event[f].requested
        /\ job["process_crash"][f].state # "absent"
        /\ job["process_crash"][f].target <= event[f].requested
        /\ job["process_crash"][f].state \in {"pending", "leased"} =>
              event[f].completed < event[f].requested \/ event[f].requested = 0
        /\ event[f].completed \in Nat /\ event[f].requested \in Nat /\ job["process_crash"][f].target \in Nat
      BY <1>t, <1>k DEF IInv, EventsHold, TypeOK, Event, Job
  <2>2. CASE f # e
      BY <1>3, <1>4, <1>k, <2>1, <2>2
  <2>3. CASE f = e /\ k # "process_crash"
      BY <1>3, <1>4, <1>k, <2>1, <2>3
  <2>4. CASE f = e /\ k = "process_crash"
    <3>1. job[k][e].state \in {"pending", "leased"}
        BY <2>4 DEF Ready
    <3>2. CASE op = "claim"
        BY <1>3, <1>4, <2>1, <2>4, <3>1, <3>2
    <3>3. CASE op = "release"
        BY <1>3, <1>4, <2>1, <2>4, <3>1, <3>3
    <3>4. CASE op \in {"publish", "fail"}
        BY <1>3, <1>4, <2>1, <2>4, <3>1, <3>4
    <3> QED BY <3>2, <3>3, <3>4 DEF Ops
  <2> QED BY <2>2, <2>3, <2>4
<1>7. NoLostGeneration'
  <2> SUFFICES ASSUME NEW r \in Requests, NEW f \in Events, item'[r][f].state \in Unfinished
               PROVE  /\ event'[f].completed < item'[r][f].generation
                      /\ item'[r][f].generation <= event'[f].requested
                      /\ job'["process_crash"][f].state \in {"pending", "leased"}
      BY DEF NoLostGeneration
  <2>1. item[r][f].state \in Unfinished /\ item'[r][f].generation = item[r][f].generation
      BY <1>u
  <2>2. /\ event[f].completed < item[r][f].generation
        /\ item[r][f].generation <= event[f].requested
        /\ job["process_crash"][f].state \in {"pending", "leased"}
        /\ item'[r][f].generation = item[r][f].generation
        /\ item[r][f].generation \in Nat /\ event[f].completed \in Nat
        /\ event[f].requested \in Nat /\ job["process_crash"][f].target \in Nat
    <3>1. item[r][f] \in Item /\ event[f] \in Event /\ job["process_crash"][f] \in Job
        BY <1>t, <1>k DEF TypeOK
    <3>2. /\ event[f].completed < item[r][f].generation
          /\ item[r][f].generation <= event[f].requested
          /\ job["process_crash"][f].state \in {"pending", "leased"}
        BY <2>1 DEF IInv, NoLostGeneration
    <3> QED BY <2>1, <3>1, <3>2 DEF Item, Event, Job
  <2>3. CASE f # e \/ k # "process_crash"
      BY <1>3, <1>4, <1>k, <2>2, <2>3
  <2>4. CASE f = e /\ k = "process_crash" /\ op \in {"claim", "release"}
      BY <1>3, <1>4, <2>2, <2>4
  <2>5. CASE f = e /\ k = "process_crash" /\ op \in {"publish", "fail"}
    <3>1. view[r] = None
        BY <1>1, <1>r, <2>5
    <3>2. ~(item[r][e].generation <= job[k][e].target)
        BY <2>1, <2>5, <3>1 DEF Ready
    <3> QED BY <1>3, <1>4, <2>2, <2>5, <3>2
  <2> QED BY <2>3, <2>4, <2>5 DEF Ops
<1>8. TxsHold'
  <2>1. TxDisjoint'
    <3> SUFFICES ASSUME NEW i \in Kinds, NEW j \in Kinds, NEW f \in Events, NEW r \in Requests, i # j
                 PROVE  tx'[i][f].view[r] = None \/ tx'[j][f].view[r] = None
        BY DEF TxDisjoint
    <3>1. tx[i][f].view[r] = None \/ tx[j][f].view[r] = None
        BY DEF IInv, TxsHold, TxDisjoint
    <3> QED BY <3>1
  <2>2. ASSUME NEW j \in Kinds, NEW f \in Events PROVE TxHolds(j, f)'
    <3>1. CASE j = k /\ f = e
        BY <3>1, NoneAssumption DEF TxHolds, Ops, States, Finished
    <3>2. CASE j # k \/ f # e
      <4> DEFINE t == tx[j][f]
      <4>1. TxHolds(j, f) /\ tx'[j][f] = t /\ job'[j][f] = job[j][f]
          BY <1>3, <3>2 DEF IInv, TxsHold
      <4>2. ASSUME NEW r \in Requests, t.view[r] # None PROVE item'[r][f].state \in From(t.op)
        <5>1. item[r][f].state \in From(t.op)
            BY <4>1, <4>2 DEF TxHolds
        <5>2. f = e => view[r] = None
          <6> SUFFICES ASSUME f = e, view[r] # None PROVE FALSE
              OBVIOUS
          <6>1. tx[j][e].view[r] = None
              BY <3>2 DEF Ready
          <6> QED BY <4>2, <6>1
        <5> QED BY <1>u, <5>1, <5>2
      <4>3. ASSUME NEW r \in Requests, j = "process_crash", t.op \in {"publish", "fail"},
                   item'[r][f].state \in Unfinished, item'[r][f].generation <= job'[j][f].target
            PROVE  t.view[r] # None
        <5>1. item[r][f].state \in Unfinished /\ item[r][f].generation <= job[j][f].target
            BY <1>u, <4>1, <4>3
        <5> QED BY <4>1, <4>3, <5>1 DEF TxHolds
      <4>4. ASSUME NEW r \in Requests, t.view[r] = "completed"
            PROVE  /\ t.op = "publish" /\ request'[r].complete
                   /\ \A g \in Events : g # f => item'[r][g].state \in {"absent", "completed"}
        <5>1. /\ t.op = "publish" /\ request[r].complete
              /\ \A g \in Events : g # f => item[r][g].state \in {"absent", "completed"}
            BY <4>1, <4>4 DEF TxHolds
        <5>2. ASSUME NEW g \in Events, g # f PROVE item'[r][g] = item[r][g]
          <6>1. g = e => view[r] = None
              BY <1>v, <5>1, <5>2 DEF Unfinished
          <6> QED BY <1>u, <6>1
        <5> QED BY <1>2, <5>1, <5>2
      <4>5. /\ t.op = None => \A r \in Requests : t.view[r] = None
            /\ t.op # None /\ j = "process_crash" => job'[j][f].state \in {"pending", "leased"}
          BY <4>1 DEF TxHolds
      <4> HIDE DEF t
      <4> QED BY <4>1, <4>2, <4>3, <4>4, <4>5 DEF TxHolds
    <3> QED BY <3>1, <3>2
  <2> QED BY <2>1, <2>2 DEF TxsHold
<1>9. RequestsHold'
  <2>1. ASSUME NEW r \in Requests PROVE RequestHolds(r)'
    <3>1. RequestHolds(r)
        BY DEF IInv, RequestsHold
    <3>2. Selected(r)' = Selected(r)
      <4>1. ASSUME NEW f \in Events PROVE item'[r][f].state = "absent" <=> item[r][f].state = "absent"
        <5>1. CASE f # e \/ view[r] = None
            BY <1>1, <5>1
        <5>2. CASE f = e /\ view[r] # None
          <6>1. item[r][e].state \in Unfinished /\ To(op) # "absent" /\ item'[r][e].state = To(op)
              BY <1>1, <1>r, <5>2, Rows DEF Ready
          <6> QED BY <5>2, <6>1 DEF Unfinished
        <5> QED BY <5>1, <5>2
      <4> QED BY <4>1 DEF Selected
    <3>3. LeaseCheck(request[r])'
      <4>1. CASE view[r] = None
          BY <1>2, <3>1, <4>1 DEF RequestHolds, LeaseCheck
      <4>2. CASE view[r] # None
          BY <1>2, <4>2 DEF Ready, LeaseCheck
      <4> QED BY <4>1, <4>2
    <3>4. (SelectionOver(r) => SelectionOver(r)') /\ (GivenUp(r) => GivenUp(r)')
        BY <1>2, <3>2 DEF SelectionOver, GivenUp
    <3> QED BY <1>2, <3>1, <3>2, <3>3, <3>4 DEF RequestHolds
  <2>2. ASSUME NEW w \in Workers PROVE SchedHolds(w)'
      BY <1>2 DEF IInv, RequestsHold, SchedHolds
  <2> QED BY <2>1, <2>2 DEF RequestsHold
<1>10. CompletedIsTrue'
  <2> SUFFICES ASSUME NEW r \in Requests, request'[r].state = "completed"
               PROVE  /\ request'[r].complete
                      /\ \A f \in Events : item'[r][f].state \in {"absent", "completed"}
      BY DEF CompletedIsTrue
  <2>1. CASE view[r] = None
    <3>1. request'[r] = request[r] /\ \A f \in Events : item'[r][f] = item[r][f]
        BY <1>2, <1>u, <2>1
    <3>2. request[r].complete /\ \A f \in Events : item[r][f].state \in {"absent", "completed"}
        BY <3>1 DEF IInv, CompletedIsTrue
    <3> QED BY <3>1, <3>2
  <2>2. CASE view[r] # None
    <3>1. /\ view[r] = "completed" /\ op = "publish" /\ request[r].complete
          /\ \A f \in Events : f # e => item[r][f].state \in {"absent", "completed"}
        BY <1>2, <2>2 DEF Ready
    <3>2. item'[r][e].state = "completed" /\ request'[r].complete
        BY <1>1, <1>2, <1>r, <2>2, <3>1
    <3>3. \A f \in Events : f # e => item'[r][f] = item[r][f]
        BY <1>u
    <3> QED BY <3>1, <3>2, <3>3
  <2> QED BY <2>1, <2>2
<1> QED BY <1>5, <1>6, <1>7, <1>8, <1>9, <1>10 DEF IInv

(* A transaction that refreshes nothing. *)
LEMMA PlainIInv ==
    ASSUME IInv, NEW k \in Kinds, NEW e \in Events, NEW op \in Ops, Plain(k, e, op)
    PROVE  IInv'
<1> DEFINE view == NoTx.view
<1>1. /\ Allowed(k, e, op) /\ Touched(k, e, op) = {} /\ Apply(k, e, op, view)
      /\ UNCHANGED <<tx, sched>>
    BY DEF Plain
<1>2. view \in Views /\ \A r \in Requests : view[r] = None
    BY DEF NoTx, Views
<1>3. tx[k][e].op = None /\ \A r \in Requests : tx[k][e].view[r] = None
    BY <1>1 DEF Allowed, IInv, TxsHold, TxHolds
<1>4. Ready(k, e, op, view)
  <2>1. k = "process_crash" => job[k][e].state \in {"pending", "leased"}
      BY <1>1 DEF Allowed
  <2>2. ASSUME k = "process_crash", op \in {"publish", "fail"}, NEW r \in Requests,
               item[r][e].state \in Unfinished, item[r][e].generation <= job[k][e].target
        PROVE  FALSE
      BY <1>1, <2>2 DEF Touched, From, Generation
  <2>3. None # "completed"
      BY NoneAssumption DEF States, Finished
  <2> HIDE DEF view
  <2> QED BY <1>2, <2>1, <2>2, <2>3 DEF Ready
<1>5. tx' \in [Kinds -> [Events -> Tx]]
    BY <1>1 DEF IInv, TypeOK
<1> HIDE DEF view
<1> QED BY <1>1, <1>2, <1>3, <1>4, <1>5, ApplyKeeps

LEMMA NoTxType == NoTx \in Tx
BY DEF NoTx, Tx

LEMMA CommitIInv ==
    ASSUME IInv, NEW k \in Kinds, NEW e \in Events, Commit(k, e)
    PROVE  IInv'
<1> DEFINE op == tx[k][e].op
           view == tx[k][e].view
<1>1. /\ op # None /\ Checked(k, e) /\ Apply(k, e, op, view) /\ UNCHANGED sched
      /\ tx' = [tx EXCEPT ![k][e] = NoTx]
    BY DEF Commit
<1>2. tx \in [Kinds -> [Events -> Tx]] /\ tx[k][e] \in Tx
    BY DEF IInv, TypeOK
<1>3. op \in Ops /\ view \in Views
    BY <1>1, <1>2 DEF Tx, Views
<1>4. TxHolds(k, e) /\ TxDisjoint
    BY DEF IInv, TxsHold
<1>5. Ready(k, e, op, view)
  <2>1. ASSUME NEW r \in Requests, view[r] # None
        PROVE  /\ item[r][e].state \in From(op)
               /\ LeaseCheck([request[r] EXCEPT !.state = view[r]])
               /\ \A j \in Kinds : j # k => tx[j][e].view[r] = None
    <3>1. item[r][e].state \in From(op)
        BY <1>4, <2>1 DEF TxHolds
    <3>2. LeaseCheck([request[r] EXCEPT !.state = view[r]])
        BY <1>1, <2>1 DEF Checked
    <3>3. \A j \in Kinds : j # k => tx[j][e].view[r] = None
        BY <1>4, <2>1 DEF TxDisjoint
    <3> QED BY <3>1, <3>2, <3>3
  <2>2. /\ k = "process_crash" => job[k][e].state \in {"pending", "leased"}
        /\ k = "process_crash" /\ op \in {"publish", "fail"} =>
              \A r \in Requests :
                 item[r][e].state \in Unfinished /\ item[r][e].generation <= job[k][e].target => view[r] # None
        /\ \A r \in Requests : view[r] = "completed" =>
              /\ op = "publish"
              /\ request[r].complete
              /\ \A f \in Events : f # e => item[r][f].state \in {"absent", "completed"}
      BY <1>1, <1>4 DEF TxHolds
  <2> HIDE DEF op, view
  <2> QED BY <2>1, <2>2 DEF Ready
<1>6. /\ tx' \in [Kinds -> [Events -> Tx]] /\ tx'[k][e] = NoTx
      /\ \A j \in Kinds, f \in Events : j # k \/ f # e => tx'[j][f] = tx[j][f]
    BY <1>1, <1>2, NoTxType
<1>7. tx'[k][e].op = None /\ \A r \in Requests : tx'[k][e].view[r] = None
    BY <1>6 DEF NoTx
<1> HIDE DEF op, view
<1> QED BY <1>1, <1>3, <1>5, <1>6, <1>7, ApplyKeeps

(* Steps that only open or close a transaction. *)
LEMMA OneTx ==
    ASSUME IInv, NEW k \in Kinds, NEW e \in Events, NEW new \in Tx,
           tx' = [tx EXCEPT ![k][e] = new], UNCHANGED <<request, event, item, job, sched>>,
           TxHolds(k, e)',
           \A r \in Requests, j \in Kinds : j # k => new.view[r] = None \/ tx[j][e].view[r] = None
    PROVE  IInv'
<1>1. /\ tx' \in [Kinds -> [Events -> Tx]] /\ tx'[k][e] = new
      /\ \A j \in Kinds, f \in Events : j # k \/ f # e => tx'[j][f] = tx[j][f]
    BY DEF IInv, TypeOK
<1>2. TypeOK'
    BY <1>1 DEF IInv, TypeOK
<1>3. EventsHold' /\ NoLostGeneration' /\ CompletedIsTrue'
    BY DEF IInv, EventsHold, NoLostGeneration, CompletedIsTrue
<1>4. RequestsHold'
  <2>1. ASSUME NEW r \in Requests PROVE RequestHolds(r)'
      BY DEF IInv, RequestsHold, RequestHolds, Selected, SelectionOver, GivenUp, LeaseCheck
  <2>2. ASSUME NEW w \in Workers PROVE SchedHolds(w)'
      BY DEF IInv, RequestsHold, SchedHolds
  <2> QED BY <2>1, <2>2 DEF RequestsHold
<1>5. TxsHold'
  <2>1. TxDisjoint'
    <3> SUFFICES ASSUME NEW i \in Kinds, NEW j \in Kinds, NEW f \in Events, NEW r \in Requests, i # j
                 PROVE  tx'[i][f].view[r] = None \/ tx'[j][f].view[r] = None
        BY DEF TxDisjoint
    <3>1. tx[i][f].view[r] = None \/ tx[j][f].view[r] = None
        BY DEF IInv, TxsHold, TxDisjoint
    <3>2. CASE f # e
        BY <1>1, <3>1, <3>2
    <3>3. CASE f = e /\ i = k
        BY <1>1, <3>3
    <3>4. CASE f = e /\ j = k
        BY <1>1, <3>4
    <3>5. CASE i # k /\ j # k
        BY <1>1, <3>1, <3>5
    <3> QED BY <3>2, <3>3, <3>4, <3>5
  <2>2. ASSUME NEW j \in Kinds, NEW f \in Events PROVE TxHolds(j, f)'
    <3>1. CASE j = k /\ f = e
        BY <3>1
    <3>2. CASE j # k \/ f # e
      <4>1. TxHolds(j, f) /\ tx'[j][f] = tx[j][f]
          BY <1>1, <3>2 DEF IInv, TxsHold
      <4> QED BY <4>1 DEF TxHolds
    <3> QED BY <3>1, <3>2
  <2> QED BY <2>1, <2>2 DEF TxsHold
<1> QED BY <1>2, <1>3, <1>4, <1>5 DEF IInv

LEMMA RollbackIInv ==
    ASSUME IInv, NEW k \in Kinds, NEW e \in Events, Rollback(k, e)
    PROVE  IInv'
<1>1. tx' = [tx EXCEPT ![k][e] = NoTx] /\ UNCHANGED <<request, event, item, job, sched>>
    BY DEF Rollback
<1>2. NoTx.op = None /\ \A r \in Requests : NoTx.view[r] = None
    BY DEF NoTx
<1>3. tx'[k][e] = NoTx
    BY <1>1 DEF IInv, TypeOK
<1>4. TxHolds(k, e)'
    BY <1>2, <1>3, NoneAssumption DEF TxHolds, Ops, States, Finished
<1> QED BY <1>1, <1>2, <1>4, NoTxType, OneTx

(* The snapshot of a refresh. *)
LEMMA BeginIInv ==
    ASSUME IInv, NEW k \in Kinds, NEW e \in Events, NEW op \in Ops, Begin(k, e, op)
    PROVE  IInv'
<1> DEFINE Changed(r) == [item[r] EXCEPT ![e].state = To(op)]
           view == [r \in Requests |-> IF r \in Touched(k, e, op)
                                       THEN RefreshedState(request[r], Changed(r)) ELSE None]
           new == [op |-> op, view |-> view]
<1>1. /\ Allowed(k, e, op) /\ tx' = [tx EXCEPT ![k][e] = new]
      /\ UNCHANGED <<request, event, item, job, sched>>
    BY DEF Begin
<1>2. ASSUME NEW r \in Requests
      PROVE  /\ Changed(r) \in [Events -> Item] /\ Changed(r)[e].state = To(op)
             /\ \A f \in Events : f # e => Changed(r)[f] = item[r][f]
  <2>1. item[r] \in [Events -> Item] /\ item[r][e] \in Item
      BY DEF IInv, TypeOK
  <2> DEFINE row == [item[r][e] EXCEPT !.state = To(op)]
  <2>2. row \in Item /\ row.state = To(op)
      BY <2>1, Rows DEF Item, Unfinished
  <2>3. Changed(r) = [item[r] EXCEPT ![e] = row]
      BY <2>1
  <2> HIDE DEF row
  <2> QED BY <2>1, <2>2, <2>3
<1> HIDE DEF Changed
<1>3. ASSUME NEW r \in Requests
      PROVE  /\ view[r] \in States \cup {None}
             /\ view[r] # None <=> r \in Touched(k, e, op)
             /\ view[r] = "completed" =>
                   /\ op = "publish" /\ request[r].complete
                   /\ \A f \in Events : f # e => item[r][f].state \in {"absent", "completed"}
  <2> DEFINE state == RefreshedState(request[r], Changed(r))
  <2>1. request[r] \in Request /\ Changed(r) \in [Events -> Item]
      BY <1>2 DEF IInv, TypeOK
  <2>2. /\ state \in States
        /\ ~request[r].complete => state = request[r].state
        /\ request[r].complete /\ state = "completed" =>
              \A f \in Events : Changed(r)[f].state \in {"absent", "completed"}
      BY <2>1, RefreshedIs
  <2>3. state # None /\ None # "completed"
      BY <2>2, NoneAssumption DEF States, Finished
  <2>4. view[r] = IF r \in Touched(k, e, op) THEN state ELSE None
      OBVIOUS
  <2> HIDE DEF state, view
  <2>5. ASSUME view[r] = "completed"
        PROVE  /\ op = "publish" /\ request[r].complete
               /\ \A f \in Events : f # e => item[r][f].state \in {"absent", "completed"}
    <3>1. state = "completed"
        BY <2>3, <2>4, <2>5
    <3>2. request[r].complete
        BY <2>2, <3>1 DEF IInv, CompletedIsTrue
    <3>3. \A f \in Events : Changed(r)[f].state \in {"absent", "completed"}
        BY <2>2, <3>1, <3>2
    <3>4. To(op) \in {"absent", "completed"}
        BY <1>2, <3>3
    <3>5. op = "publish"
        BY <3>4, Rows
    <3> QED BY <1>2, <3>2, <3>3, <3>5
  <2> QED BY <2>2, <2>3, <2>4, <2>5
<1>4. view \in Views
    BY <1>3 DEF Views
<1> HIDE DEF view
<1>5. new \in Tx /\ new.op = op /\ new.view = view
    BY <1>4 DEF Tx, Views
<1> HIDE DEF new
<1>6. tx'[k][e] = new
    BY <1>1 DEF IInv, TypeOK
<1>7. TxHolds(k, e)'
  <2>1. op # None
      BY NoneAssumption
  <2>2. k = "process_crash" => job[k][e].state \in {"pending", "leased"}
      BY <1>1 DEF Allowed
  <2>3. \A r \in Requests : view[r] # None => item[r][e].state \in From(op)
      BY <1>3 DEF Touched
  <2>4. ASSUME k = "process_crash", op \in {"publish", "fail"}, NEW r \in Requests,
               item[r][e].state \in Unfinished, item[r][e].generation <= job[k][e].target
        PROVE  view[r] # None
      BY <1>3, <2>4 DEF Touched, From, Generation
  <2> QED BY <1>1, <1>3, <1>5, <1>6, <2>1, <2>2, <2>3, <2>4 DEF TxHolds
<1>8. \A r \in Requests, j \in Kinds : j # k => new.view[r] = None \/ tx[j][e].view[r] = None
    BY <1>1, <1>3, <1>5 DEF Allowed
<1> QED BY <1>1, <1>5, <1>7, <1>8, OneTx

LEMMA EnqueueDeletionIInv ==
    ASSUME IInv, NEW e \in Events, EnqueueDeletion(e)
    PROVE  IInv'
<1> DEFINE new == [job["delete_raw"][e] EXCEPT !.state = "pending"]
<1>1. /\ job["delete_raw"][e] \in Job /\ job \in [Kinds -> [Events -> Job]]
      /\ "delete_raw" \in Kinds /\ "process_crash" \in Kinds
    BY DEF IInv, TypeOK, Kinds
<1>2. job' = [job EXCEPT !["delete_raw"][e] = new] /\ UNCHANGED <<request, event, item, tx, sched>>
    BY <1>1 DEF EnqueueDeletion
<1>3. new \in Job
    BY <1>1 DEF Job
<1> HIDE DEF new
<1>4. job' \in [Kinds -> [Events -> Job]] /\ \A f \in Events : job'["process_crash"][f] = job["process_crash"][f]
    BY <1>1, <1>2, <1>3
<1>5. TypeOK'
    BY <1>2, <1>4 DEF IInv, TypeOK
<1>6. EventsHold' /\ NoLostGeneration' /\ CompletedIsTrue'
    BY <1>2, <1>4 DEF IInv, EventsHold, NoLostGeneration, CompletedIsTrue
<1>7. RequestsHold'
  <2>1. ASSUME NEW r \in Requests PROVE RequestHolds(r)'
      BY <1>2 DEF IInv, RequestsHold, RequestHolds, Selected, SelectionOver, GivenUp, LeaseCheck
  <2>2. ASSUME NEW w \in Workers PROVE SchedHolds(w)'
      BY <1>2 DEF IInv, RequestsHold, SchedHolds
  <2> QED BY <2>1, <2>2 DEF RequestsHold
<1>8. TxsHold'
  <2>1. TxDisjoint'
      BY <1>2 DEF IInv, TxsHold, TxDisjoint
  <2>2. ASSUME NEW j \in Kinds, NEW f \in Events PROVE TxHolds(j, f)'
    <3>1. TxHolds(j, f)
        BY DEF IInv, TxsHold
    <3> QED BY <1>2, <1>4, <3>1 DEF TxHolds
  <2> QED BY <2>1, <2>2 DEF TxsHold
<1> QED BY <1>5, <1>6, <1>7, <1>8 DEF IInv

-----------------------------------------------------------------------------
(* Selecting a page.                                                        *)

(* schedule_reprocessing_events asks for a generation that is not completed, *)
(* whatever the job is doing.                                               *)
LEMMA NextGenerationIs ==
    ASSUME IInv, NEW e \in Events
    PROVE  /\ NextGeneration(e) \in Nat
           /\ event[e].requested <= NextGeneration(e)
           /\ event[e].completed < NextGeneration(e)
<1> DEFINE leased == job["process_crash"][e].state = "leased"
           running == \E g \in RunningGenerations(e) \cup {0} : event[e].requested <= g
           behind == IF leased THEN running ELSE event[e].requested <= event[e].completed
<1>1. event[e] \in Event
    BY DEF IInv, TypeOK
<1>2. /\ event[e].requested \in Nat /\ event[e].completed \in Nat
      /\ event[e].completed <= event[e].requested
      /\ leased => event[e].completed < event[e].requested \/ event[e].requested = 0
    BY <1>1 DEF IInv, EventsHold, Event
<1>3. event[e].requested = 0 => running
    BY <1>2
<1>4. NextGeneration(e) = event[e].requested + (IF behind THEN 1 ELSE 0)
    BY DEF NextGeneration
<1> HIDE DEF leased, running
<1> QED BY <1>2, <1>3, <1>4

(* What expand_reprocessing_request leaves behind: the new rows, and a      *)
(* request whose selection goes on from the end of the page or is over.     *)
ExpandedTo(r, w, new, to) ==
    /\ request' = [request EXCEPT ![r] = to]
    /\ sched' = [sched EXCEPT ![w] = Idle]
    /\ UNCHANGED tx
    /\ item' = [item EXCEPT ![r] =
                  [e \in Events |-> IF e \in new
                                    THEN [state |-> "queued", generation |-> NextGeneration(e)]
                                    ELSE item[r][e]]]
    /\ event' = [e \in Events |-> IF e \in new THEN [event[e] EXCEPT !.requested = NextGeneration(e)]
                                  ELSE event[e]]
    /\ job' = [job EXCEPT !["process_crash"] =
                 [e \in Events |-> IF e \in new /\ @[e].state # "leased"
                                   THEN [state |-> "pending", target |-> 0] ELSE @[e]]]
    /\ \A e \in new : item[r][e].state = "absent" /\ tx["process_crash"][e].op = None
    /\ to.lease = None /\ to.state # "scheduling"
    /\ request[r].complete => new = {} /\ to.complete
    /\ to.state = "completed" =>
          /\ to.complete
          /\ \A e \in Events : e \notin new /\ item[r][e].state \in {"absent", "completed"}
    /\ LET selected == Selected(r) \cup new
       IN  /\ IF r \in Automatic
              THEN selected \subseteq Scope[r] /\ {e \in Scope[r] : e <= to.cursor} \subseteq selected
              ELSE selected \subseteq Page(r, 0) /\ to.cursor = 0
           /\ to.complete =>
                 /\ selected = IF r \in Automatic THEN Scope[r] ELSE Page(r, 0)
                 /\ r \in Automatic => Page(r, to.cursor) = Candidates(r, to.cursor)

LEMMA ExpandIs ==
    ASSUME IInv, NEW w \in Workers, Expand(w)
    PROVE  \E r \in Requests, new \in SUBSET Events, to \in Request : ExpandedTo(r, w, new, to)
<1> DEFINE r == sched[w].request
           q == request[r]
           page == Page(r, sched[w].cursor)
           new == {e \in page : item[r][e].state = "absent"}
           truncated == r \in Automatic /\ page # Candidates(r, sched[w].cursor)
           last == CHOOSE e \in page \cup {0} : \A f \in page : f <= e
           rows == [e \in Events |-> IF e \in new
                                     THEN [state |-> "queued", generation |-> NextGeneration(e)]
                                     ELSE item[r][e]]
           plan == Scheduled(q, truncated, last)
           to == [plan EXCEPT !.state = RefreshedState(plan, rows)]
<1>1. /\ HoldsRequest(w)
      /\ \A e \in page : tx["process_crash"][e].op = None
      /\ item' = [item EXCEPT ![r] = rows]
      /\ event' = [e \in Events |-> IF e \in new THEN [event[e] EXCEPT !.requested = NextGeneration(e)]
                                    ELSE event[e]]
      /\ job' = [job EXCEPT !["process_crash"] =
                   [e \in Events |-> IF e \in new /\ @[e].state # "leased"
                                     THEN [state |-> "pending", target |-> 0] ELSE @[e]]]
      /\ request' = [request EXCEPT ![r] = to]
      /\ sched' = [sched EXCEPT ![w] = Idle]
      /\ UNCHANGED tx
    BY DEF Expand, Refresh
<1>2. SchedHolds(w) /\ r \in Requests
    BY <1>1 DEF IInv, RequestsHold, SchedHolds, HoldsRequest
<1>3. /\ q.lease = w /\ w # None /\ sched[w].cursor = q.cursor /\ RequestHolds(r)
    BY <1>1, <1>2, NoneAssumption DEF HoldsRequest, SchedHolds, IInv, RequestsHold
<1>4. q \in Request /\ item[r] \in [Events -> Item] /\ q.cursor \in Nat /\ q.cursor \in 0..NumEvents
    BY <1>2, ConstantsAssumption DEF IInv, TypeOK, Request, Row
<1>5. /\ page \subseteq Candidates(r, q.cursor) /\ page = Page(r, q.cursor)
      /\ Candidates(r, q.cursor) \subseteq Scope[r] /\ Scope[r] \subseteq Events
      /\ \A e \in Candidates(r, q.cursor), f \in page : e <= f => e \in page
    BY <1>2, <1>3, <1>4, PageIs
<1>6. new \in SUBSET Events /\ new \subseteq page /\ Selected(r) \cup new = Selected(r) \cup page
    BY <1>5 DEF Selected
<1>7. last \in page \cup {0} /\ last \in 0..NumEvents /\ \A f \in page : f <= last
  <2>1. page \in SUBSET Events
      BY <1>5
  <2> HIDE DEF page
  <2> QED BY <2>1, LastIs
<1>8. q.complete => new = {} /\ ~truncated
  <2> SUFFICES ASSUME q.complete PROVE new = {} /\ ~truncated
      OBVIOUS
  <2>1. SelectionOver(r)
      BY <1>3 DEF RequestHolds, GivenUp
  <2>2. ~truncated
      BY <1>3, <2>1 DEF SelectionOver
  <2>3. page \subseteq Selected(r)
    <3>1. CASE r \in Automatic
        BY <1>5, <2>1, <3>1 DEF SelectionOver
    <3>2. CASE r \notin Automatic
        BY <1>3, <2>1, <3>2 DEF SelectionOver, RequestHolds
    <3> QED BY <3>1, <3>2
  <2> QED BY <2>2, <2>3 DEF Selected
<1>9. rows \in [Events -> Item]
  <2>1. ASSUME NEW e \in Events PROVE rows[e] \in Item
      BY <1>4, NextGenerationIs DEF Item, Unfinished
  <2> QED BY <2>1
<1>10. /\ \A e \in Events : e \in new => rows[e].state = "queued"
       /\ \A e \in Events : e \notin new => rows[e] = item[r][e]
    OBVIOUS
<1>11. truncated \in BOOLEAN
    OBVIOUS
<1>12. /\ plan \in Request /\ plan.lease = None /\ ~plan.failure
       /\ truncated => plan.state = "pending" /\ plan.cursor = last /\ plan.complete = q.complete
       /\ ~truncated => plan.state = "running" /\ plan.cursor = q.cursor /\ plan.complete
  <2> HIDE DEF truncated, last, q
  <2>1. CASE truncated
    <3>1. plan = [q EXCEPT !.state = "pending", !.cursor = last, !.attempt = 0,
                           !.lease = None, !.failure = FALSE]
        BY <2>1 DEF Scheduled
    <3>2. last \in 0..NumEvents /\ q \in Row /\ q.maxAttempt \in Nat
        BY <1>4, <1>7 DEF Request, Row
    <3>3. 0 <= q.maxAttempt
        BY <3>2
    <3> HIDE DEF plan
    <3>4. /\ plan \in Row /\ plan.attempt = 0 /\ plan.maxAttempt = q.maxAttempt
          /\ plan.state = "pending" /\ plan.lease = None /\ plan.cursor = last
          /\ plan.complete = q.complete /\ ~plan.failure
        BY <3>1, <3>2 DEF Row, States
    <3> QED BY <2>1, <3>3, <3>4 DEF Request
  <2>2. CASE ~truncated
    <3>1. plan = [q EXCEPT !.state = "running", !.complete = TRUE, !.lease = None, !.failure = FALSE]
        BY <2>2 DEF Scheduled
    <3> HIDE DEF plan
    <3> QED BY <1>4, <2>2, <3>1 DEF Request, Row, States
  <2> QED BY <2>1, <2>2
<1> HIDE DEF plan, rows
<1> DEFINE state == RefreshedState(plan, rows)
<1>13. /\ state \in States
       /\ ~plan.complete => state = plan.state
       /\ plan.complete => state \in Finished \cup {"running"}
       /\ plan.complete /\ state = "completed" =>
             \A e \in Events : rows[e].state \in {"absent", "completed"}
    BY <1>9, <1>12, RefreshedIs
<1> HIDE DEF state
<1>14. /\ to \in Request /\ to.state = state /\ to.lease = None
       /\ to.cursor = plan.cursor /\ to.complete = plan.complete
    BY <1>12, <1>13 DEF Request, Row, state
<1>15. to.state # "scheduling"
  <2>1. CASE plan.complete
      BY <1>13, <1>14, <2>1 DEF Finished
  <2>2. CASE ~plan.complete
      BY <1>12, <1>13, <1>14, <2>2
  <2> QED BY <2>1, <2>2
<1>16. q.complete => new = {} /\ to.complete
    BY <1>8, <1>12, <1>14
<1>17. to.state = "completed" =>
          /\ to.complete
          /\ \A e \in Events : e \notin new /\ item[r][e].state \in {"absent", "completed"}
  <2> SUFFICES ASSUME to.state = "completed"
               PROVE  /\ to.complete
                      /\ \A e \in Events : e \notin new /\ item[r][e].state \in {"absent", "completed"}
      OBVIOUS
  <2>1. plan.complete
      BY <1>12, <1>13, <1>14
  <2>2. \A e \in Events : rows[e].state \in {"absent", "completed"}
      BY <1>13, <1>14, <2>1
  <2>3. \A e \in Events : e \notin new
      BY <1>10, <2>2
  <2>4. to.complete
      BY <1>14, <2>1
  <2> QED BY <1>10, <2>2, <2>3, <2>4
<1> DEFINE selected == Selected(r) \cup new
<1>18. \A e \in Scope[r] : e \in Nat /\ e # 0 /\ (e \in Candidates(r, q.cursor) \/ e <= q.cursor)
    BY <1>4, <1>5 DEF Candidates, Events
<1> HIDE DEF to
<1>19. IF r \in Automatic
       THEN selected \subseteq Scope[r] /\ {e \in Scope[r] : e <= to.cursor} \subseteq selected
       ELSE selected \subseteq Page(r, 0) /\ to.cursor = 0
  <2>1. CASE r \notin Automatic
    <3>1. Selected(r) \subseteq Page(r, 0) /\ q.cursor = 0
        BY <1>3, <2>1 DEF RequestHolds
    <3>2. to.cursor = q.cursor
        BY <1>12, <1>14, <2>1
    <3> QED BY <1>5, <1>6, <2>1, <3>1, <3>2
  <2>2. CASE r \in Automatic
    <3>1. Selected(r) \subseteq Scope[r] /\ {e \in Scope[r] : e <= q.cursor} \subseteq Selected(r)
        BY <1>3, <2>2 DEF RequestHolds
    <3>2. selected \subseteq Scope[r]
        BY <1>5, <1>6, <3>1
    <3>3. ASSUME NEW e \in Scope[r], e <= to.cursor PROVE e \in selected
      <4>1. CASE e <= q.cursor
          BY <3>1, <4>1
      <4>2. CASE ~(e <= q.cursor)
        <5>1. e \in Candidates(r, q.cursor) /\ to.cursor = last /\ e \in Nat /\ e # 0
            BY <1>12, <1>14, <1>18, <3>3, <4>2
        <5>2. last \in page
          <6> HIDE DEF last
          <6> QED BY <1>7, <3>3, <5>1
        <5>3. e \in page
            BY <1>5, <3>3, <5>1, <5>2
        <5> QED BY <1>6, <5>3
      <4> QED BY <4>1, <4>2
    <3> QED BY <2>2, <3>2, <3>3
  <2> QED BY <2>1, <2>2
<1>20. to.complete =>
          /\ selected = IF r \in Automatic THEN Scope[r] ELSE Page(r, 0)
          /\ r \in Automatic => Page(r, to.cursor) = Candidates(r, to.cursor)
  <2> SUFFICES ASSUME to.complete
               PROVE  /\ selected = IF r \in Automatic THEN Scope[r] ELSE Page(r, 0)
                      /\ r \in Automatic => Page(r, to.cursor) = Candidates(r, to.cursor)
      OBVIOUS
  <2>1. ~truncated /\ to.cursor = q.cursor
      BY <1>8, <1>12, <1>14
  <2>2. CASE r \notin Automatic
    <3>1. q.cursor = 0
        BY <1>3, <2>2 DEF RequestHolds
    <3>2. page \subseteq selected
        BY <1>6
    <3> QED BY <1>5, <1>19, <2>2, <3>1, <3>2
  <2>3. CASE r \in Automatic
    <3>1. page = Candidates(r, q.cursor)
        BY <1>3, <2>1, <2>3
    <3>2. {e \in Scope[r] : e <= q.cursor} \subseteq Selected(r)
        BY <1>3, <2>3 DEF RequestHolds
    <3>3. Scope[r] \subseteq selected
        BY <1>6, <1>18, <3>1, <3>2
    <3> QED BY <1>5, <1>19, <2>1, <2>3, <3>1, <3>3
  <2> QED BY <2>2, <2>3
<1>21. \A e \in new : item[r][e].state = "absent" /\ tx["process_crash"][e].op = None
    BY <1>1
<1>22. item' = [item EXCEPT ![r] =
                  [e \in Events |-> IF e \in new
                                    THEN [state |-> "queued", generation |-> NextGeneration(e)]
                                    ELSE item[r][e]]]
    BY <1>1 DEF rows
<1>23. request' = [request EXCEPT ![r] = to]
    BY <1>1 DEF to
<1> HIDE DEF r, new, page, truncated, last
<1>24. ExpandedTo(r, w, new, to)
    BY <1>1, <1>14, <1>15, <1>16, <1>17, <1>19, <1>20, <1>21, <1>22, <1>23 DEF ExpandedTo
<1> QED BY <1>2, <1>6, <1>14, <1>24

LEMMA ExpandIInv ==
    ASSUME IInv, NEW w \in Workers, Expand(w)
    PROVE  IInv'
<1>1. PICK r \in Requests, new \in SUBSET Events, to \in Request : ExpandedTo(r, w, new, to)
    BY ExpandIs
<1>k. "process_crash" \in Kinds
    BY DEF Kinds
<1>2. /\ request' \in [Requests -> Request] /\ request'[r] = to
      /\ \A x \in Requests : x # r => request'[x] = request[x]
    BY <1>1 DEF ExpandedTo, IInv, TypeOK
<1>3. /\ sched' \in [Workers -> Scheds] /\ sched'[w] = Idle
      /\ \A v \in Workers : v # w => sched'[v] = sched[v]
    BY <1>1, IdleType DEF ExpandedTo, IInv, TypeOK, Scheds
<1>4. /\ item' \in [Requests -> [Events -> Item]]
      /\ \A x \in Requests : x # r => item'[x] = item[x]
      /\ \A e \in Events : e \notin new => item'[r][e] = item[r][e]
      /\ \A e \in new : item'[r][e].state = "queued" /\ item'[r][e].generation = NextGeneration(e)
  <2> DEFINE rows == [e \in Events |-> IF e \in new
                                       THEN [state |-> "queued", generation |-> NextGeneration(e)]
                                       ELSE item[r][e]]
  <2>1. item' = [item EXCEPT ![r] = rows] /\ item \in [Requests -> [Events -> Item]]
      BY <1>1 DEF ExpandedTo, IInv, TypeOK
  <2>2. ASSUME NEW e \in Events PROVE rows[e] \in Item
      BY <2>1, NextGenerationIs DEF Item, Unfinished
  <2>3. /\ rows \in [Events -> Item]
        /\ \A e \in Events : e \notin new => rows[e] = item[r][e]
        /\ \A e \in new : rows[e].state = "queued" /\ rows[e].generation = NextGeneration(e)
      BY <2>2
  <2> HIDE DEF rows
  <2> QED BY <2>1, <2>3
<1>5. /\ event' \in [Events -> Event]
      /\ \A e \in Events : e \notin new => event'[e] = event[e]
      /\ \A e \in new : event'[e].requested = NextGeneration(e) /\ event'[e].completed = event[e].completed
  <2>1. event' = [e \in Events |-> IF e \in new THEN [event[e] EXCEPT !.requested = NextGeneration(e)]
                                   ELSE event[e]]
      BY <1>1 DEF ExpandedTo
  <2>2. ASSUME NEW e \in Events
        PROVE  /\ event'[e] \in Event
               /\ e \notin new => event'[e] = event[e]
               /\ e \in new => event'[e].requested = NextGeneration(e) /\ event'[e].completed = event[e].completed
    <3>1. event[e] \in Event /\ NextGeneration(e) \in Nat
        BY NextGenerationIs DEF IInv, TypeOK
    <3> QED BY <2>1, <3>1 DEF Event
  <2> QED BY <2>1, <2>2
<1>6. /\ job' \in [Kinds -> [Events -> Job]]
      /\ \A j \in Kinds, e \in Events : j # "process_crash" \/ e \notin new => job'[j][e] = job[j][e]
      /\ \A e \in new : job'["process_crash"][e] = IF job["process_crash"][e].state = "leased"
                                                   THEN job["process_crash"][e]
                                                   ELSE [state |-> "pending", target |-> 0]
  <2> DEFINE jobs == [e \in Events |-> IF e \in new /\ job["process_crash"][e].state # "leased"
                                       THEN [state |-> "pending", target |-> 0]
                                       ELSE job["process_crash"][e]]
  <2>1. job' = [job EXCEPT !["process_crash"] = jobs] /\ job \in [Kinds -> [Events -> Job]]
      BY <1>1 DEF ExpandedTo, IInv, TypeOK
  <2>2. [state |-> "pending", target |-> 0] \in Job
      BY DEF Job
  <2>3. /\ jobs \in [Events -> Job]
        /\ \A e \in Events : e \notin new => jobs[e] = job["process_crash"][e]
        /\ \A e \in new : jobs[e] = IF job["process_crash"][e].state = "leased"
                                    THEN job["process_crash"][e]
                                    ELSE [state |-> "pending", target |-> 0]
      BY <1>k, <2>1, <2>2
  <2> HIDE DEF jobs
  <2> QED BY <1>k, <2>1, <2>3
<1>7. TypeOK'
    BY <1>1, <1>2, <1>3, <1>4, <1>5, <1>6 DEF ExpandedTo, IInv, TypeOK, Scheds
<1>8. ASSUME NEW e \in Events
      PROVE  /\ event[e].completed \in Nat /\ event[e].requested \in Nat
             /\ job["process_crash"][e].target \in Nat
             /\ event[e].completed <= event[e].requested
             /\ job["process_crash"][e].state # "absent"
             /\ job["process_crash"][e].target <= event[e].requested
             /\ job["process_crash"][e].state \in {"pending", "leased"} =>
                   event[e].completed < event[e].requested \/ event[e].requested = 0
  <2>1. event[e] \in Event /\ job["process_crash"][e] \in Job
      BY <1>k DEF IInv, TypeOK
  <2> QED BY <2>1 DEF IInv, EventsHold, Event, Job
<1>9. EventsHold'
  <2> SUFFICES ASSUME NEW e \in Events
               PROVE  /\ event'[e].completed <= event'[e].requested
                      /\ job'["process_crash"][e].state # "absent"
                      /\ job'["process_crash"][e].target <= event'[e].requested
                      /\ job'["process_crash"][e].state \in {"pending", "leased"} =>
                            event'[e].completed < event'[e].requested \/ event'[e].requested = 0
      BY DEF EventsHold
  <2>1. CASE e \notin new
      BY <1>k, <1>5, <1>6, <1>8, <2>1
  <2>2. CASE e \in new
      BY <1>k, <1>5, <1>6, <1>8, <2>2, NextGenerationIs
  <2> QED BY <2>1, <2>2
<1>10. NoLostGeneration'
  <2> SUFFICES ASSUME NEW x \in Requests, NEW e \in Events, item'[x][e].state \in Unfinished
               PROVE  /\ event'[e].completed < item'[x][e].generation
                      /\ item'[x][e].generation <= event'[e].requested
                      /\ job'["process_crash"][e].state \in {"pending", "leased"}
      BY DEF NoLostGeneration
  <2>1. CASE x = r /\ e \in new
    <3>1. item'[x][e].generation = NextGeneration(e)
        BY <1>4, <2>1
    <3>2. /\ event'[e].requested = NextGeneration(e) /\ event'[e].completed = event[e].completed
          /\ event[e].completed < NextGeneration(e) /\ NextGeneration(e) \in Nat
        BY <1>5, <2>1, NextGenerationIs
    <3>3. job'["process_crash"][e].state \in {"pending", "leased"}
        BY <1>6, <2>1
    <3> QED BY <3>1, <3>2, <3>3
  <2>2. CASE ~(x = r /\ e \in new)
    <3>1. item'[x][e] = item[x][e] /\ item[x][e] \in Item
        BY <1>4, <2>2 DEF IInv, TypeOK
    <3>2. /\ event[e].completed < item[x][e].generation
          /\ item[x][e].generation <= event[e].requested
          /\ job["process_crash"][e].state \in {"pending", "leased"}
          /\ item[x][e].generation \in Nat
        BY <3>1 DEF IInv, NoLostGeneration, Item
    <3>3. CASE e \notin new
        BY <1>k, <1>5, <1>6, <3>1, <3>2, <3>3
    <3>4. CASE e \in new
        BY <1>5, <1>6, <1>8, <3>1, <3>2, <3>4, NextGenerationIs
    <3> QED BY <3>3, <3>4
  <2> QED BY <2>1, <2>2
<1>11. TxsHold'
  <2>1. TxDisjoint'
      BY <1>1 DEF ExpandedTo, IInv, TxsHold, TxDisjoint
  <2>2. ASSUME NEW j \in Kinds, NEW f \in Events PROVE TxHolds(j, f)'
    <3> DEFINE t == tx[j][f]
    <3>1. TxHolds(j, f) /\ tx'[j][f] = t /\ t \in Tx
        BY <1>1 DEF ExpandedTo, IInv, TxsHold, TypeOK
    <3>2. CASE t.op = None
      <4>1. \A x \in Requests : t.view[x] = None
          BY <3>1, <3>2 DEF TxHolds
      <4> HIDE DEF t
      <4> QED BY <3>1, <3>2, <4>1, NoneAssumption DEF TxHolds, Ops, States, Finished
    <3>3. CASE t.op # None
      <4>1. job'[j][f] = job[j][f] /\ (j = "process_crash" => f \notin new)
          BY <1>1, <1>6, <3>3 DEF ExpandedTo
      <4>2. From(t.op) \subseteq Unfinished
        <5>1. t.op \in Ops
            BY <3>1, <3>3 DEF Tx
        <5> HIDE DEF t
        <5> QED BY <5>1, Rows
      <4>3. ASSUME NEW x \in Requests, t.view[x] # None PROVE item'[x][f].state \in From(t.op)
        <5>1. item[x][f].state \in From(t.op)
            BY <3>1, <4>3 DEF TxHolds
        <5>2. ~(x = r /\ f \in new)
            BY <1>1, <4>2, <5>1 DEF ExpandedTo, Unfinished
        <5> QED BY <1>4, <5>1, <5>2
      <4>4. ASSUME NEW x \in Requests, j = "process_crash", t.op \in {"publish", "fail"},
                   item'[x][f].state \in Unfinished, item'[x][f].generation <= job'[j][f].target
            PROVE  t.view[x] # None
        <5>1. item'[x][f] = item[x][f]
            BY <1>4, <4>1, <4>4
        <5> QED BY <3>1, <4>1, <4>4, <5>1 DEF TxHolds
      <4>5. ASSUME NEW x \in Requests, t.view[x] = "completed"
            PROVE  /\ t.op = "publish" /\ request'[x].complete
                   /\ \A g \in Events : g # f => item'[x][g].state \in {"absent", "completed"}
        <5>1. /\ t.op = "publish" /\ request[x].complete
              /\ \A g \in Events : g # f => item[x][g].state \in {"absent", "completed"}
            BY <3>1, <4>5 DEF TxHolds
        <5>2. x = r => new = {} /\ to.complete
            BY <1>1, <5>1 DEF ExpandedTo
        <5>3. request'[x].complete /\ \A g \in Events : item'[x][g] = item[x][g]
            BY <1>2, <1>4, <5>1, <5>2
        <5> QED BY <5>1, <5>3
      <4>6. j = "process_crash" => job'[j][f].state \in {"pending", "leased"}
          BY <3>1, <3>3, <4>1 DEF TxHolds
      <4> HIDE DEF t
      <4> QED BY <3>1, <3>3, <4>3, <4>4, <4>5, <4>6 DEF TxHolds
    <3> QED BY <3>2, <3>3
  <2> QED BY <2>1, <2>2 DEF TxsHold
<1>12. RequestsHold'
  <2>1. ASSUME NEW x \in Requests PROVE RequestHolds(x)'
    <3>1. CASE x # r
      <4>1. RequestHolds(x) /\ request'[x] = request[x] /\ item'[x] = item[x]
          BY <1>2, <1>4, <3>1 DEF IInv, RequestsHold
      <4> QED BY <4>1 DEF RequestHolds, Selected, SelectionOver, GivenUp, LeaseCheck
    <3>2. CASE x = r
      <4>1. Selected(r)' = Selected(r) \cup new
        <5>1. ASSUME NEW e \in Events
              PROVE  item'[r][e].state # "absent" <=> item[r][e].state # "absent" \/ e \in new
          <6>1. CASE e \in new
            <7>1. item'[r][e].state = "queued"
                BY <1>4, <6>1
            <7> QED BY <6>1, <7>1
          <6>2. CASE e \notin new
            <7>1. item'[r][e] = item[r][e]
                BY <1>4, <6>2
            <7> QED BY <6>2, <7>1
          <6> QED BY <6>1, <6>2
        <5> QED BY <5>1 DEF Selected
      <4>2. LeaseCheck(request[r])'
          BY <1>1, <1>2 DEF ExpandedTo, LeaseCheck
      <4>3. /\ IF r \in Automatic
               THEN Selected(r)' \subseteq Scope[r] /\ {e \in Scope[r] : e <= to.cursor} \subseteq Selected(r)'
               ELSE Selected(r)' \subseteq Page(r, 0) /\ to.cursor = 0
            /\ to.complete =>
                  /\ Selected(r)' = IF r \in Automatic THEN Scope[r] ELSE Page(r, 0)
                  /\ r \in Automatic => Page(r, to.cursor) = Candidates(r, to.cursor)
          BY <1>1, <4>1 DEF ExpandedTo
      <4>4. Page(r, 0)' = Page(r, 0) /\ Page(r, request[r].cursor)' = Page(r, to.cursor)
            /\ Candidates(r, request[r].cursor)' = Candidates(r, to.cursor)
          BY <1>2 DEF Page, Candidates
      <4> QED BY <1>2, <3>2, <4>2, <4>3, <4>4 DEF RequestHolds, SelectionOver
    <3> QED BY <3>1, <3>2
  <2>2. ASSUME NEW v \in Workers PROVE SchedHolds(v)'
    <3>1. CASE v = w
        BY <1>3, <3>1 DEF SchedHolds
    <3>2. CASE v # w
      <4>1. SchedHolds(v) /\ sched'[v] = sched[v] /\ v # None
          BY <1>3, <3>2, NoneAssumption DEF IInv, RequestsHold
      <4>2. to.lease = None
          BY <1>1 DEF ExpandedTo
      <4> QED BY <1>2, <4>1, <4>2 DEF SchedHolds
    <3> QED BY <3>1, <3>2
  <2> QED BY <2>1, <2>2 DEF RequestsHold
<1>13. CompletedIsTrue'
  <2> SUFFICES ASSUME NEW x \in Requests, request'[x].state = "completed"
               PROVE  /\ request'[x].complete
                      /\ \A e \in Events : item'[x][e].state \in {"absent", "completed"}
      BY DEF CompletedIsTrue
  <2>1. CASE x # r
      BY <1>2, <1>4, <2>1 DEF IInv, CompletedIsTrue
  <2>2. CASE x = r
    <3>1. to.complete /\ \A e \in Events : e \notin new /\ item[r][e].state \in {"absent", "completed"}
        BY <1>1, <1>2, <2>2 DEF ExpandedTo
    <3> QED BY <1>2, <1>4, <2>2, <3>1
  <2> QED BY <2>1, <2>2
<1> QED BY <1>7, <1>9, <1>10, <1>11, <1>12, <1>13 DEF IInv

-----------------------------------------------------------------------------

LEMMA InitIInv == Init => IInv
<1> SUFFICES ASSUME Init PROVE IInv
    OBVIOUS
<1>0. PICK s \in Settings :
         /\ request = [r \in Requests |-> NoRequest(s.attempts)]
         /\ event = [e \in Events |-> [requested |-> 0, completed |-> 0, raw |-> e \in s.raw]]
    BY DEF Init
<1>1. NoRequest(s.attempts) \in Request
  <2>1. s.attempts \in Nat \ {0}
      BY ConstantsAssumption
  <2> QED BY <2>1, ConstantsAssumption DEF NoRequest, Request, Row, States
<1>2. \A e \in Events : [requested |-> 0, completed |-> 0, raw |-> e \in s.raw] \in Event
    BY DEF Event
<1>2a. NoItem \in Item
    BY DEF NoItem, Item
<1>3. \A k \in Kinds : [state |-> IF k = "process_crash" THEN "pending" ELSE "absent", target |-> 0] \in Job
    BY DEF Job
<1>4. TypeOK
  <2>1. request \in [Requests -> Request] /\ event \in [Events -> Event] /\ item \in [Requests -> [Events -> Item]]
      BY <1>0, <1>1, <1>2, <1>2a DEF Init
  <2>2. job \in [Kinds -> [Events -> Job]] /\ tx \in [Kinds -> [Events -> Tx]]
      BY <1>3, NoTxType DEF Init
  <2>3. sched \in [Workers -> Scheds]
      BY IdleType DEF Init
  <2> QED BY <2>1, <2>2, <2>3 DEF TypeOK, Scheds
<1>5. /\ \A k \in Kinds, e \in Events : tx[k][e] = NoTx
      /\ \A r \in Requests : request[r] = NoRequest(s.attempts)
      /\ \A r \in Requests, e \in Events : item[r][e] = NoItem
      /\ \A w \in Workers : sched[w] = Idle
      /\ \A e \in Events : event[e].requested = 0 /\ event[e].completed = 0
      /\ \A e \in Events : job["process_crash"][e] = [state |-> "pending", target |-> 0]
    BY <1>0 DEF Init, Kinds
<1>6. EventsHold
    BY <1>5 DEF EventsHold
<1>7. NoLostGeneration /\ CompletedIsTrue
    BY <1>5 DEF NoLostGeneration, CompletedIsTrue, NoItem, NoRequest, Unfinished
<1>8. TxsHold
  <2>1. NoTx.op = None /\ \A r \in Requests : NoTx.view[r] = None
      BY DEF NoTx
  <2>2. TxDisjoint
      BY <1>5, <2>1 DEF TxDisjoint
  <2>3. ASSUME NEW k \in Kinds, NEW e \in Events PROVE TxHolds(k, e)
      BY <1>5, <2>1, NoneAssumption DEF TxHolds, Ops, States, Finished
  <2> QED BY <2>2, <2>3 DEF TxsHold
<1>9. RequestsHold
  <2>1. ASSUME NEW r \in Requests PROVE RequestHolds(r)
    <3>1. request[r].state = "absent" /\ request[r].lease = None /\ request[r].cursor = 0 /\ ~request[r].complete
        BY <1>5 DEF NoRequest
    <3>2. Selected(r) = {}
        BY <1>5 DEF Selected, NoItem
    <3>3. {e \in Scope[r] : e <= request[r].cursor} = {}
        BY <3>1, ConstantsAssumption DEF Events
    <3> QED BY <3>1, <3>2, <3>3 DEF RequestHolds, LeaseCheck
  <2>2. ASSUME NEW w \in Workers PROVE SchedHolds(w)
      BY <1>5 DEF SchedHolds
  <2> QED BY <2>1, <2>2 DEF RequestsHold
<1> QED BY <1>4, <1>6, <1>7, <1>8, <1>9 DEF IInv

LEMMA NextIInv == IInv /\ [Next]_vars => IInv'
<1> SUFFICES ASSUME IInv, [Next]_vars PROVE IInv'
    OBVIOUS
<1>1. CASE \E r \in Requests : RequestStep(r)
    BY <1>1, CreateIInv, ExpireIInv DEF RequestStep
<1>2. CASE \E w \in Workers : WorkerStep(w)
    BY <1>2, ClaimRequestIInv, ExpandIInv, ScheduleFailureIInv DEF WorkerStep
<1>3. CASE \E k \in Kinds, e \in Events : JobStep(k, e)
    BY <1>3, PlainIInv, BeginIInv, CommitIInv, RollbackIInv DEF JobStep
<1>4. CASE \E e \in Events : EnqueueDeletion(e)
    BY <1>4, EnqueueDeletionIInv
<1>5. CASE UNCHANGED vars
  <2>1. \A r \in Requests : RequestHolds(r) => RequestHolds(r)'
      BY <1>5 DEF vars, RequestHolds, Selected, SelectionOver, GivenUp, LeaseCheck
  <2>2. \A w \in Workers : SchedHolds(w) => SchedHolds(w)'
      BY <1>5 DEF vars, SchedHolds
  <2>3. TxsHold'
      BY <1>5 DEF vars, IInv, TxsHold, TxDisjoint, TxHolds
  <2>4. TypeOK' /\ EventsHold' /\ NoLostGeneration' /\ CompletedIsTrue'
      BY <1>5 DEF vars, IInv, TypeOK, EventsHold, NoLostGeneration, CompletedIsTrue
  <2>5. RequestsHold'
      BY <2>1, <2>2 DEF IInv, RequestsHold
  <2> QED BY <2>3, <2>4, <2>5 DEF IInv
<1> QED BY <1>1, <1>2, <1>3, <1>4, <1>5 DEF Next

(* The inductive invariant of Spec: the types, the generations of every     *)
(* event, what each open transaction relies on, how far each selection is,  *)
(* and the properties themselves.                                           *)
THEOREM InductiveInvariant == Spec => []IInv
<1> QED BY InitIInv, NextIInv, PTL DEF Spec

(* Type correctness. *)
THEOREM TypeCorrect == Spec => []TypeOK
<1>1. IInv => TypeOK
    BY DEF IInv
<1> QED BY <1>1, InductiveInvariant, PTL

(* A request-event row that is not finished needs a generation that was     *)
(* requested and is not completed, and the event's process_crash job is     *)
(* pending or leased: expand_reprocessing_request, claims, releases,        *)
(* publications and failures lose none, whoever interleaves.                *)
THEOREM NoLostGenerationHolds == Spec => []NoLostGeneration
<1>1. IInv => NoLostGeneration
    BY DEF IInv
<1> QED BY <1>1, InductiveInvariant, PTL

(* A request whose state refresh_reprocessing_request set to completed has  *)
(* a complete selection and only completed rows, although the refresh       *)
(* writes what it computed from an older snapshot.                          *)
THEOREM CompletedIsTrueHolds == Spec => []CompletedIsTrue
<1>1. IInv => CompletedIsTrue
    BY DEF IInv
<1> QED BY <1>1, InductiveInvariant, PTL

(* A selection that ended without a failure is exactly the request's scope, *)
(* or its first page for a manual request, however often its lease was      *)
(* lost and its pages retried.                                              *)
THEOREM SelectionExactHolds == Spec => []SelectionExact
<1>1. IInv => SelectionExact
  <2> SUFFICES ASSUME IInv, NEW r \in Requests
               PROVE  /\ Selected(r) \subseteq Scope[r]
                      /\ request[r].complete /\ ~request[r].failure =>
                            Selected(r) = IF r \in Automatic THEN Scope[r] ELSE Page(r, 0)
      BY DEF SelectionExact, Selected
  <2>1. RequestHolds(r)
      BY DEF IInv, RequestsHold
  <2>2. Page(r, 0) \subseteq Scope[r]
      BY PageIs
  <2>3. Selected(r) \subseteq Scope[r]
      BY <2>1, <2>2 DEF RequestHolds
  <2>4. request[r].complete /\ ~request[r].failure => SelectionOver(r)
      BY <2>1 DEF RequestHolds, GivenUp
  <2> QED BY <2>3, <2>4 DEF SelectionOver
<1> QED BY <1>1, InductiveInvariant, PTL
=============================================================================
