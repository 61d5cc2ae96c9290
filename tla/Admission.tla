----------------------------- MODULE Admission -----------------------------
(***************************************************************************)
(* What a crash request passes before its event is stored and what it is   *)
(* told (apply_rate_limits and persist_event in                            *)
(* apps/server/src/crash_ingest.rs; record_acceptance, admission_for_event *)
(* and update_usage in apps/server/src/usage.rs), for one project.         *)
(*                                                                         *)
(* A request is counted in two rate counters of its minute, its event in   *)
(* the counter of its month under the policy of that moment.  The rate     *)
(* transaction reads its minute when it begins and counts later, so time   *)
(* may pass between; the accepting transaction holds the project's policy  *)
(* row from before it inserts the event until it commits and is one        *)
(* action.  Objects and orphan rows are the subject of Ingest.             *)
(*                                                                         *)
(* The public demo (apps/server/src/public_demo.rs) reads a project        *)
(* without a login and counts its visitors in the same table, from which   *)
(* crash requests clear the expired counters of everybody.                 *)
(***************************************************************************)
EXTENDS Integers, FiniteSetsExt, Sequences

CONSTANTS
    Requests,
    Demo,          \* those that are reads of the public demo
    Arrivals,      \* bound: the sets of requests that come together
    Ip,            \* [Requests -> addresses]: where a request comes from
    Chain,         \* [Requests -> sequences of addresses]: x-forwarded-for
    MaxHops,       \* the longest x-forwarded-for that is read: 16
    Peer,          \* [Requests -> addresses]: the other end of the connection
    Trusted,       \* addresses of trusted proxies
    Allowed,       \* addresses in the key's allowed_cidrs, {}: all
    Malformed,     \* bound: the requests that have a bad query, header or issue key
    Guid,          \* [Requests -> GUIDs \cup {None}]
    ProjectLimit, IpLimit, DemoLimit,
    EventLimit, CourtesyPercent,
    BlockCents, BlockEvents,
    Settings,      \* the spend cap and the other settings of update_usage
    MonthMinutes,  \* minutes in a month
    LastMinute,    \* bound on the clock
    MaxUpdates,    \* bound on policy versions
    Failing,       \* bound: the requests whose transactions fail
    None

ASSUME AdmissionAssumption ==
    /\ {ProjectLimit, IpLimit, DemoLimit, EventLimit, BlockCents, BlockEvents, MonthMinutes}
          \subseteq Nat \ {0}
    /\ {CourtesyPercent, LastMinute, MaxUpdates, MaxHops} \subseteq Nat
    /\ Demo \subseteq Requests /\ Failing \subseteq Requests
    /\ Arrivals \subseteq SUBSET Requests
    /\ Settings \subseteq [cap : Nat \cup {None}, days : Nat]
    /\ IsFiniteSet(Requests) /\ None \notin Nat

(* The addresses a request came through, the nearest last. *)
Hops(r) == Append(Chain[r], Peer[r])

(* A trusted proxy appends the address it was called from: after the        *)
(* client's come those of trusted proxies only, whatever the client sent.   *)
ASSUME ForwardingAssumption ==
    \A r \in Requests :
        /\ Chain[r] \in Seq(Range(Chain[r]))
        /\ (\E i \in DOMAIN Hops(r) : Hops(r)[i] \notin Trusted) =>
               /\ Ip[r] \notin Trusted
               /\ \E i \in DOMAIN Hops(r) :
                     /\ Hops(r)[i] = Ip[r]
                     /\ \A j \in DOMAIN Hops(r) : j > i => Hops(r)[j] \in Trusted

Outcomes == {"standard", "overage", "courtesy", "sampling"}

VARIABLES
    minute,     \* the database's clock
    pc,         \* [Requests -> Steps]
    bucket,     \* [Requests -> Nat \cup {None}]: the minute its rate transaction read
    rate,       \* ingest_rate_limits: <<scope, subject, minute>> -> requests
    policy,     \* project_usage_policy_versions: a sequence of Settings
    counter,    \* usage_cycle_counters: month -> accepted_events
    event,      \* crash_events: request -> its usage columns
    answer,     \* [Requests -> what the client was told]
    enforced    \* FAULTLANE_USAGE_ENFORCEMENT_ENABLED

usage == <<policy, counter, event>>
vars == <<minute, pc, bucket, rate, usage, answer, enforced>>

Init ==
    /\ minute = 0
    /\ \E S \in Arrivals : pc = [r \in Requests |-> IF r \in S THEN "new" ELSE "absent"]
    /\ bucket = [r \in Requests |-> None]
    /\ rate = << >>
    /\ policy \in {<<s>> : s \in Settings}
    /\ counter = << >>
    /\ event = << >>
    /\ answer = [r \in Requests |-> None]
    /\ enforced \in BOOLEAN

-----------------------------------------------------------------------------
(* The address that is limited, and the rate limits.                        *)

(* The last hop that is not a trusted proxy; None: InvalidRequest. *)
SourceIp(r) ==
    LET outside == {i \in DOMAIN Hops(r) : Hops(r)[i] \notin Trusted}
    IN  IF Peer[r] \notin Trusted THEN Peer[r]
        ELSE IF Len(Chain[r]) \notin 1 .. MaxHops \/ outside = {} THEN None
        ELSE Hops(r)[Max(outside)]

(* A row of a table; an upsert. *)
Get(table, k) == IF k \in DOMAIN table THEN table[k] ELSE 0
Put(table, k, v) == [x \in DOMAIN table \cup {k} |-> IF x = k THEN v ELSE table[x]]

(* The counters of a request, and their limits: the subject of the demo is  *)
(* hashed with a prefix of its own.                                         *)
Keys(r, b) ==
    IF r \in Demo THEN {<<"demo", SourceIp(r), b>>}
    ELSE {<<"project", None, b>>, <<"ip", SourceIp(r), b>>}

Limit(k) == CASE k[1] = "demo" -> DemoLimit
              [] k[1] = "project" -> ProjectLimit
              [] OTHER -> IpLimit

(* Mutant of Expired: a bucket goes as soon as its minute is over. *)
ExpiredAtEnd(now) == {k \in DOMAIN rate : k[3] + 1 <= now}

(* expires_at is two minutes after the bucket's start. *)
Expired(now) == {k \in DOMAIN rate : k[3] + 2 <= now}

(* submit_crash: no address or one outside the key's networks ends before   *)
(* anything is counted, a malformed request after it; a malformed issue key *)
(* of the demo before it.                                                   *)
Permitted(r) ==
    /\ SourceIp(r) # None
    /\ IF r \in Demo THEN r \notin Malformed
       ELSE Allowed = {} \/ SourceIp(r) \in Allowed

Reject(r) ==
    /\ \/ pc[r] = "new" /\ ~Permitted(r)
       \/ pc[r] = "rated" /\ r \in Malformed \ Demo
    /\ pc' = [pc EXCEPT ![r] = "rejected"]
    /\ UNCHANGED <<minute, bucket, rate, usage, answer, enforced>>

RateBegin(r) ==
    /\ pc[r] = "new"
    /\ Permitted(r)
    /\ pc' = [pc EXCEPT ![r] = "counting"]
    /\ bucket' = [bucket EXCEPT ![r] = minute]
    /\ UNCHANGED <<minute, rate, usage, answer, enforced>>

(* ROLLBACK *)
Refused(counted) == rate

(* The project's counter is incremented first: requests of a minute wait    *)
(* for each other there.  Expired rows of other transactions go with it,    *)
(* though not with a read of the demo.                                      *)
RateCount(r) ==
    /\ pc[r] = "counting"
    /\ LET begun == bucket[r]
           gone == IF r \in Demo THEN {} ELSE Expired(begun)
           kept == [k \in DOMAIN rate \ gone |-> rate[k]]
           counted == [k \in DOMAIN kept \cup Keys(r, begun) |->
                         Get(kept, k) + (IF k \in Keys(r, begun) THEN 1 ELSE 0)]
       IN  IF \E k \in Keys(r, begun) : counted[k] > Limit(k)
           THEN /\ pc' = [pc EXCEPT ![r] = "limited"]
                /\ rate' = Refused(counted)
           ELSE /\ pc' = [pc EXCEPT ![r] = "rated"]
                /\ rate' = counted
    /\ UNCHANGED <<minute, bucket, usage, answer, enforced>>

(* list_issues and get_issue of the demo, in a read-only snapshot; the      *)
(* project must still be the one that is configured.                        *)
Serve(r) ==
    /\ r \in Demo /\ pc[r] = "rated"
    /\ pc' = [pc EXCEPT ![r] = "done"]
    /\ UNCHANGED <<minute, bucket, rate, usage, answer, enforced>>

-----------------------------------------------------------------------------
(* The policy's verdict on the n-th event of a month.                       *)

CourtesyLimit == EventLimit + (EventLimit * CourtesyPercent) \div 100

PaidLimit(cap) ==
    IF cap = None THEN EventLimit ELSE EventLimit + (cap \div BlockCents) * BlockEvents

PolicyOutcome(n, cap) ==
    CASE n <= EventLimit     -> "standard"
      [] n > EventLimit /\ n <= PaidLimit(cap) -> "overage"
      [] n > PaidLimit(cap) /\ n <= CourtesyLimit -> "courtesy"
      [] OTHER               -> "sampling"

AdmissionOutcome(n, cap) == IF enforced THEN PolicyOutcome(n, cap) ELSE "standard"

Threshold(n, outcome) ==
    LET percent == (n * 100) \div EventLimit
    IN  CASE outcome = "sampling" -> "courtesy_exhausted"
          [] outcome # "sampling" /\ percent >= 100 -> "100"
          [] outcome # "sampling" /\ percent \in 90 .. 99 -> "90"
          [] outcome # "sampling" /\ percent \in 70 .. 89 -> "70"
          [] OTHER -> None

-----------------------------------------------------------------------------
(* Acceptance.                                                              *)

Month == minute \div MonthMinutes
Stored(r) == {s \in DOMAIN event : s = r \/ (Guid[r] # None /\ Guid[s] = Guid[r])}

(* Mutant of Admission: the duplicate is answered with today's policy. *)
AdmissionToday(s, ev) ==
    [row |-> [ev[s] EXCEPT !.version = Len(policy)],
     threshold |-> Threshold(ev[s].number, ev[s].outcome)]

(* admission_for_event, and the value record_acceptance returns. *)
Admission(s, ev) ==
    [row |-> ev[s], threshold |-> Threshold(ev[s].number, ev[s].outcome)]

Answer(r, s, ev) ==
    /\ answer' = [answer EXCEPT ![r] = [event |-> s, usage |-> Admission(s, ev)]]
    /\ pc' = [pc EXCEPT ![r] = "done"]

(* The SELECT by GUID that opens persist_event. *)
Check(r) ==
    /\ r \notin Demo /\ pc[r] = "rated"
    /\ \/ /\ Stored(r) = {}
          /\ pc' = [pc EXCEPT ![r] = "checked"]
          /\ UNCHANGED answer
       \/ \E s \in Stored(r) : Answer(r, s, event)
    /\ UNCHANGED <<minute, bucket, rate, usage, enforced>>

(* Mutant of Recorded: the month of the request's rate bucket. *)
RecordedAtBucket(r) ==
    LET m == bucket[r] \div MonthMinutes
        n == Get(counter, Month) + 1
    IN  [cycle |-> m, version |-> Len(policy), number |-> n,
         outcome |-> AdmissionOutcome(n, policy[Len(policy)].cap)]

(* record_acceptance: the month is that of the clock, not of the request. *)
Recorded(r) ==
    LET n == Get(counter, Month) + 1
    IN  [cycle |-> Month, version |-> Len(policy), number |-> n,
         outcome |-> AdmissionOutcome(n, policy[Len(policy)].cap)]

(* ensure_policy_snapshot, the INSERT of the event and record_acceptance.   *)
(* The commit may be done although its answer is lost.                      *)
Accept(r) ==
    /\ pc[r] = "checked"
    /\ Stored(r) = {}
    /\ event' = Put(event, r, Recorded(r))
    /\ counter' = Put(counter, Month, Get(counter, Month) + 1)
    /\ \/ Answer(r, r, event')
       \/ /\ r \in Failing
          /\ pc' = [pc EXCEPT ![r] = "error"]
          /\ UNCHANGED answer
    /\ UNCHANGED <<minute, bucket, rate, policy, enforced>>

(* The INSERT meets the event of a concurrent request: ROLLBACK, and the    *)
(* answer is read in a transaction of its own.                              *)
Conflict(r) ==
    /\ pc[r] = "checked"
    /\ \E s \in Stored(r) : Answer(r, s, event)
    /\ UNCHANGED <<minute, bucket, rate, usage, enforced>>

Fail(r) ==
    /\ r \in Failing
    /\ pc[r] \in {"counting", "rated", "checked"}
    /\ pc' = [pc EXCEPT ![r] = "error"]
    /\ UNCHANGED <<minute, bucket, rate, usage, answer, enforced>>

(* update_usage: unchanged settings make no version. *)
UpdateUsage ==
    \E s \in Settings :
        /\ Len(policy) <= MaxUpdates
        /\ s # policy[Len(policy)]
        /\ policy' = Append(policy, s)
        /\ UNCHANGED <<minute, pc, bucket, rate, counter, event, answer, enforced>>

(* Bound on delay: no rate transaction outlives the minute after its own. *)
Tick ==
    /\ minute < LastMinute
    /\ \A r \in Requests : pc[r] = "counting" => bucket[r] = minute
    /\ minute' = minute + 1
    /\ UNCHANGED <<pc, bucket, rate, usage, answer, enforced>>

Next ==
    \/ \E r \in Requests :
           \/ Reject(r) \/ RateBegin(r) \/ RateCount(r) \/ Serve(r)
           \/ Check(r) \/ Accept(r) \/ Conflict(r) \/ Fail(r)
    \/ UpdateUsage
    \/ Tick

Spec == Init /\ [][Next]_vars

-----------------------------------------------------------------------------

Steps == {"absent", "new", "counting", "limited", "rejected", "rated", "checked", "done", "error"}

(* The usage columns of crash_events, and what a client is told of them. *)
Row == [cycle : Nat, version : Nat, number : Nat, outcome : Outcomes]
Usage == [row : Row, threshold : {"70", "90", "100", "courtesy_exhausted", None}]

(* Rows and requests have their shapes. *)
TypeOK ==
    /\ minute \in 0 .. LastMinute
    /\ pc \in [Requests -> Steps]
    /\ bucket \in [Requests -> (0 .. LastMinute) \cup {None}]
    /\ rate \in [DOMAIN rate -> Nat]
    /\ policy \in Seq(Settings) /\ policy # << >>
    /\ counter \in [DOMAIN counter -> Nat]
    /\ DOMAIN event \subseteq Requests
    /\ event \in [DOMAIN event -> Row]
    /\ answer \in [Requests -> [event : Requests, usage : Usage] \cup {None}]
    /\ enforced \in BOOLEAN

Admitted(b) == {r \in Requests : bucket[r] = b /\ pc[r] \in {"rated", "checked", "done"}}

(* Those that count against the same limit as r: of the project, of the     *)
(* address.                                                                 *)
Alike(r) == {s \in Requests : s \in Demo <=> r \in Demo}
Neighbours(r) == {s \in Alike(r) : Ip[s] = Ip[r]}

(* Between requests that began in one minute, the limits of the project, of *)
(* an address and of a visitor of the demo hold, however late each is       *)
(* counted, whoever clears the table meanwhile and whatever the client      *)
(* wrote into the forwarding header, and a request is only refused when     *)
(* others have used the limit up: refused requests cost nothing             *)
(* (apply_rate_limits, apply_rate_limit, source_ip).  Requests that failed  *)
(* or were malformed may have been counted.                                 *)
RateHeld ==
    \A r \in Requests :
        LET most == IF r \in Demo THEN DemoLimit ELSE IpLimit
            admitted == Admitted(bucket[r])
            used == {s \in Requests : bucket[s] = bucket[r] /\ pc[s] \notin {"counting", "limited"}}
        IN  /\ r \in admitted =>
                   /\ Cardinality(admitted \ Demo) <= ProjectLimit
                   /\ Cardinality(admitted \cap Neighbours(r)) <= most
            /\ pc[r] = "limited" =>
                   \/ r \notin Demo /\ Cardinality(used \ Demo) >= ProjectLimit
                   \/ Cardinality(used \cap Neighbours(r)) >= most

(* Whoever asks about an event is told the same: first answer, duplicate    *)
(* and duplicate that lost a race, before and after the policy changed, and *)
(* the version named is one whose cap gives this outcome.                   *)
AnswersAgree ==
    \A r \in Requests : answer[r] # None =>
        /\ \A s \in Requests : answer[s] # None /\ answer[s].event = answer[r].event =>
               answer[s] = answer[r]
        /\ LET u == answer[r].usage.row
               cap == policy[u.version].cap
           IN  (u.outcome = "overage") =>
                   (cap # None /\ cap * BlockEvents >= (u.number - EventLimit) * BlockCents)

(* The events of a month carry the numbers 1 to the month's counter, each   *)
(* once, though the month ends between a request and its acceptance; an     *)
(* event is only sampled when the plan's events were used up before it.     *)
MonthsNumbered ==
    \A m \in 0 .. (LastMinute \div MonthMinutes) :
        LET of == {r \in DOMAIN event : event[r].cycle = m}
        IN  /\ {event[r].number : r \in of} = 1 .. Cardinality(of)
            /\ Get(counter, m) = Cardinality(of)
            /\ \A r \in of : event[r].outcome = "sampling" =>
                   Cardinality({s \in of : event[s].outcome = "standard"}) >= EventLimit
=============================================================================
