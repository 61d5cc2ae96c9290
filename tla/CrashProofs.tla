---------------------------- MODULE CrashProofs ----------------------------
(* Proofs about a crash on its way into the system, and about its run.      *)
(*                                                                          *)
(* Admission: the rate limits hold, everybody is told the same of an event  *)
(* and a month's events are numbered without a gap, for any number of       *)
(* requests and any limits, plans and policies.                             *)
EXTENDS Admission, Processor, FiniteSetTheorems, WellFoundedInduction, TLAPS

(* A request has a bucket once its rate transaction began, and is counted   *)
(* at the latest in the minute after.                                       *)
RequestHolds(r) ==
    /\ pc[r] \in {"absent", "new"} => bucket[r] = None
    /\ pc[r] \in {"counting", "limited", "rated", "checked", "done"} => bucket[r] # None
    /\ bucket[r] # None => bucket[r] \in Nat /\ bucket[r] <= minute /\ Permitted(r)
    /\ pc[r] = "counting" => minute <= bucket[r] + 1

RequestsHold == \A r \in Requests : RequestHolds(r)

(* The requests that a counter lets through, and those it may have counted. *)
AdmittedTo(k) ==
    {s \in Requests : /\ bucket[s] = k[3] /\ k \in Keys(s, k[3])
                      /\ pc[s] \in {"rated", "checked", "done"}}

CountedIn(k) ==
    {s \in Requests : /\ bucket[s] = k[3] /\ k \in Keys(s, k[3])
                      /\ pc[s] \notin {"counting", "limited"}}

(* No counter lets more through than its limit.  While its requests are     *)
(* still being counted it has a row, between what it let through and what   *)
(* it may have counted: nobody clears it in that time.                      *)
CounterHolds(k) ==
    /\ Cardinality(AdmittedTo(k)) <= Limit(k)
    /\ minute <= k[3] + 1 =>
          /\ Cardinality(AdmittedTo(k)) <= Get(rate, k)
          /\ Get(rate, k) <= Cardinality(CountedIn(k))

CountersHold ==
    \A r \in Requests, at \in Nat : \A k \in Keys(r, at) : CounterHolds(k)

RefusalsHold ==
    \A r \in Requests : pc[r] = "limited" =>
        \E k \in Keys(r, bucket[r]) : Limit(k) <= Cardinality(CountedIn(k))

(* The events of a month: as many as it counts, with different numbers and  *)
(* every number taken.                                                      *)
EventsOf(m) == {r \in DOMAIN event : event[r].cycle = m}

MonthHolds(m) ==
    /\ Get(counter, m) = Cardinality(EventsOf(m))
    /\ \A r \in EventsOf(m) : event[r].number \in 1 .. Cardinality(EventsOf(m))
    /\ \A r, s \in EventsOf(m) : event[r].number = event[s].number => r = s
    /\ \A n \in 1 .. Cardinality(EventsOf(m)) : \E r \in EventsOf(m) : event[r].number = n

MonthsHold == \A m \in Nat : MonthHolds(m)

(* The outcome of an event is the verdict of the policy version it names.   *)
OutcomeHolds(r) ==
    LET u == event[r]
    IN  /\ u.version \in 1 .. Len(policy)
        /\ u.outcome = AdmissionOutcome(u.number, policy[u.version].cap)

OutcomesHold == \A r \in DOMAIN event : OutcomeHolds(r)

(* An answer repeats what is stored with the event. *)
AnswersHold ==
    \A r \in Requests : answer[r] # None =>
        \E s \in DOMAIN event : answer[r] = [event |-> s, usage |-> Admission(s, event)]

IInv ==
    /\ TypeOK
    /\ RequestsHold /\ CountersHold /\ RefusalsHold
    /\ MonthsHold /\ OutcomesHold /\ AnswersHold

-----------------------------------------------------------------------------
(* Addresses, counters and their limits.                                    *)

(* source_ip finds the client's address, whatever the header says. *)
LEMMA SourceIpIs ==
    ASSUME NEW r \in Requests, SourceIp(r) # None
    PROVE  SourceIp(r) = Ip[r]
<1> DEFINE n == Len(Chain[r])
           outside == {i \in DOMAIN Hops(r) : Hops(r)[i] \notin Trusted}
<1>1. Chain[r] \in Seq(Range(Chain[r])) /\ n \in Nat
    BY ForwardingAssumption
<1>2. DOMAIN Hops(r) = 1 .. (n + 1) /\ Hops(r)[n + 1] = Peer[r]
  <2> DEFINE S == Range(Chain[r]) \cup {Peer[r]}
  <2>1. Chain[r] \in Seq(S) /\ Peer[r] \in S
      BY <1>1
  <2> HIDE DEF S
  <2> QED BY <2>1 DEF Hops
<1>3. \E i \in DOMAIN Hops(r) : Hops(r)[i] \notin Trusted
  <2>1. CASE Peer[r] \notin Trusted
      BY <1>1, <1>2, <2>1
  <2>2. CASE Peer[r] \in Trusted
      BY <2>2 DEF SourceIp
  <2> QED BY <2>1, <2>2
<1>4. PICK i \in DOMAIN Hops(r) :
          /\ Hops(r)[i] = Ip[r] /\ Ip[r] \notin Trusted
          /\ \A j \in DOMAIN Hops(r) : j > i => Hops(r)[j] \in Trusted
    BY <1>3, ForwardingAssumption
<1>5. i \in Int /\ i <= n + 1 /\ i \in outside /\ outside \subseteq Int
    BY <1>1, <1>2, <1>4
<1>6. CASE Peer[r] \notin Trusted
  <2>1. i = n + 1
      BY <1>1, <1>2, <1>4, <1>5, <1>6
  <2> QED BY <1>2, <1>4, <1>6, <2>1 DEF SourceIp
<1>7. CASE Peer[r] \in Trusted
  <2>1. SourceIp(r) = Hops(r)[Max(outside)]
      BY <1>7 DEF SourceIp
  <2>2. \A y \in outside : i >= y
      BY <1>1, <1>2, <1>4, <1>5
  <2> HIDE DEF outside
  <2>3. Max(outside) \in outside /\ \A y \in outside : Max(outside) >= y
    <3>1. \E x \in outside : \A y \in outside : x >= y
        BY <1>5, <2>2
    <3> QED BY <3>1 DEF Max
  <2>4. Max(outside) = i
    <3> DEFINE m == Max(outside)
    <3>1. m \in outside /\ \A y \in outside : m >= y
        BY <2>3
    <3> HIDE DEF m
    <3>2. m \in Int /\ i \in Int /\ i >= m /\ m >= i
        BY <1>5, <2>2, <3>1
    <3>3. m = i
        BY <3>2
    <3> QED BY <3>3 DEF m
  <2> QED BY <1>4, <2>1, <2>4
<1> QED BY <1>6, <1>7

LEMMA KeysAre ==
    ASSUME NEW r \in Requests, NEW at
    PROVE  /\ \A k \in Keys(r, at) : k[3] = at /\ Limit(k) \in Nat /\ Limit(k) # 0
           /\ r \in Demo => Keys(r, at) = {<<"demo", SourceIp(r), at>>}
           /\ r \notin Demo => Keys(r, at) = {<<"project", None, at>>, <<"ip", SourceIp(r), at>>}
BY AdmissionAssumption DEF Keys, Limit

LEMMA Counting ==
    /\ \A S \in SUBSET Requests : IsFiniteSet(S) /\ Cardinality(S) \in Nat
    /\ \A S, T \in SUBSET Requests : S \subseteq T => Cardinality(S) <= Cardinality(T)
    /\ \A S \in SUBSET Requests, r \in Requests : r \notin S => Cardinality(S \cup {r}) = Cardinality(S) + 1
<1>1. \A S \in SUBSET Requests : IsFiniteSet(S) /\ Cardinality(S) \in Nat
    BY AdmissionAssumption, FS_Subset, FS_CardinalityType
<1>2. \A S, T \in SUBSET Requests : S \subseteq T => Cardinality(S) <= Cardinality(T)
    BY <1>1, FS_Subset
<1>3. \A S \in SUBSET Requests, r \in Requests : r \notin S => Cardinality(S \cup {r}) = Cardinality(S) + 1
    BY <1>1, FS_AddElement
<1> QED BY <1>1, <1>2, <1>3

-----------------------------------------------------------------------------
(* Steps that count nothing.                                                *)

Moved == {"rated", "checked", "done"}

LEMMA CountersKept ==
    ASSUME TypeOK, TypeOK', CountersHold, UNCHANGED rate, minute <= minute',
           \A s \in Requests :
              /\ pc'[s] \in Moved => pc[s] \in Moved /\ bucket'[s] = bucket[s]
              /\ pc[s] \notin {"counting", "limited"} /\ bucket[s] # None =>
                    pc'[s] \notin {"counting", "limited"} /\ bucket'[s] = bucket[s]
    PROVE  /\ CountersHold'
           /\ \A k : k[3] \in Nat =>
                 /\ Cardinality(CountedIn(k)) <= Cardinality(CountedIn(k)')
                 /\ Cardinality(CountedIn(k)) \in Nat /\ Cardinality(CountedIn(k)') \in Nat
<1>1. minute \in Nat /\ minute' \in Nat /\ None \notin Nat
    BY AdmissionAssumption DEF TypeOK
<1>2. ASSUME NEW k, k[3] \in Nat
      PROVE  /\ Cardinality(AdmittedTo(k)') <= Cardinality(AdmittedTo(k))
             /\ Cardinality(CountedIn(k)) <= Cardinality(CountedIn(k)')
             /\ Cardinality(AdmittedTo(k)') \in Nat /\ Cardinality(AdmittedTo(k)) \in Nat
             /\ Cardinality(CountedIn(k)') \in Nat /\ Cardinality(CountedIn(k)) \in Nat
  <2>1. AdmittedTo(k)' \subseteq AdmittedTo(k)
      BY DEF AdmittedTo, Moved
  <2>2. CountedIn(k) \subseteq CountedIn(k)'
      BY <1>1, <1>2 DEF CountedIn
  <2>3. /\ AdmittedTo(k)' \in SUBSET Requests /\ AdmittedTo(k) \in SUBSET Requests
        /\ CountedIn(k)' \in SUBSET Requests /\ CountedIn(k) \in SUBSET Requests
      BY DEF AdmittedTo, CountedIn
  <2> QED BY <2>1, <2>2, <2>3, Counting
<1>3. ASSUME NEW r \in Requests, NEW at \in Nat, NEW k \in Keys(r, at) PROVE CounterHolds(k)'
  <2>1. k[3] = at /\ Limit(k) \in Nat
      BY KeysAre
  <2>2. CounterHolds(k)
      BY DEF CountersHold
  <2>3. Get(rate, k) \in Nat
      BY DEF TypeOK, Get
  <2>4. Get(rate, k)' = Get(rate, k) /\ (minute' <= k[3] + 1 => minute <= k[3] + 1)
      BY <1>1, <2>1 DEF Get
  <2>5. Cardinality(AdmittedTo(k)') <= Limit(k)
      BY <1>2, <2>1, <2>2 DEF CounterHolds
  <2>6. minute' <= k[3] + 1 => Cardinality(AdmittedTo(k)') <= Get(rate, k) /\ Get(rate, k) <= Cardinality(CountedIn(k)')
      BY <1>2, <2>1, <2>2, <2>3, <2>4 DEF CounterHolds
  <2> QED BY <2>4, <2>5, <2>6 DEF CounterHolds
<1> QED BY <1>2, <1>3 DEF CountersHold

LEMMA RateKept ==
    ASSUME TypeOK, TypeOK', RequestsHold, CountersHold, RefusalsHold, UNCHANGED rate, minute <= minute',
           \A s \in Requests :
              /\ pc'[s] \in Moved => pc[s] \in Moved /\ bucket'[s] = bucket[s]
              /\ pc[s] \notin {"counting", "limited"} /\ bucket[s] # None =>
                    pc'[s] \notin {"counting", "limited"} /\ bucket'[s] = bucket[s]
              /\ pc'[s] = "limited" => pc[s] = "limited" /\ bucket'[s] = bucket[s]
    PROVE  CountersHold' /\ RefusalsHold'
<1>1. /\ CountersHold'
      /\ \A k : k[3] \in Nat =>
            /\ Cardinality(CountedIn(k)) <= Cardinality(CountedIn(k)')
            /\ Cardinality(CountedIn(k)) \in Nat /\ Cardinality(CountedIn(k)') \in Nat
    BY CountersKept
<1>2. ASSUME NEW r \in Requests, pc'[r] = "limited"
      PROVE  \E k \in Keys(r, bucket'[r]) : Limit(k) <= Cardinality(CountedIn(k)')
  <2>1. pc[r] = "limited" /\ bucket'[r] = bucket[r] /\ bucket[r] \in Nat
      BY <1>2 DEF RequestsHold, RequestHolds
  <2>2. PICK k \in Keys(r, bucket[r]) : Limit(k) <= Cardinality(CountedIn(k))
      BY <2>1 DEF RefusalsHold
  <2>3. k[3] \in Nat /\ Limit(k) \in Nat
      BY <2>1, KeysAre
  <2> QED BY <1>1, <2>1, <2>2, <2>3
<1> QED BY <1>1, <1>2 DEF RefusalsHold

(* The other half of a step: the events and what was said of them. *)
LEMMA MonthsKept ==
    ASSUME MonthsHold, UNCHANGED <<counter, event>>
    PROVE  MonthsHold'
<1>1. ASSUME NEW m \in Nat PROVE MonthHolds(m)'
  <2>1. MonthHolds(m)
      BY DEF MonthsHold
  <2>2. EventsOf(m)' = EventsOf(m) /\ Get(counter, m)' = Get(counter, m)
      BY DEF EventsOf, Get
  <2> QED BY <2>1, <2>2 DEF MonthHolds
<1> QED BY <1>1 DEF MonthsHold

LEMMA UsageKept ==
    ASSUME MonthsHold, OutcomesHold, UNCHANGED <<usage, enforced>>
    PROVE  MonthsHold' /\ OutcomesHold'
<1>1. MonthsHold'
    BY MonthsKept DEF usage
<1>2. OutcomesHold'
    BY DEF usage, OutcomesHold, OutcomeHolds, AdmissionOutcome, PolicyOutcome
<1> QED BY <1>1, <1>2

LEMMA AnswersKept ==
    ASSUME AnswersHold, UNCHANGED <<answer, event>>
    PROVE  AnswersHold'
BY DEF AnswersHold, Admission, Threshold

LEMMA ThresholdType ==
    ASSUME NEW n, NEW outcome
    PROVE  Threshold(n, outcome) \in {"70", "90", "100", "courtesy_exhausted", None}
<1> DEFINE percent == (n * 100) \div EventLimit
           p == percent >= 100
           q == percent \in 90 .. 99
           s == percent \in 70 .. 89
<1>1. Threshold(n, outcome) =
        CASE outcome = "sampling" -> "courtesy_exhausted"
          [] outcome # "sampling" /\ p -> "100"
          [] outcome # "sampling" /\ q -> "90"
          [] outcome # "sampling" /\ s -> "70"
          [] OTHER -> None
    BY DEF Threshold
<1> HIDE DEF percent, p, q, s
<1> QED BY <1>1

(* A request's own step after its rate transaction, or a refusal before it. *)
LEMMA MoveKeeps ==
    ASSUME IInv, NEW r \in Requests, NEW to \in {"rejected", "checked", "done", "error"},
           pc' = [pc EXCEPT ![r] = to], UNCHANGED <<minute, bucket, rate, enforced>>,
           to \in {"checked", "done"} => pc[r] \in Moved,
           pc[r] # "limited"
    PROVE  /\ pc' \in [Requests -> Steps]
           /\ RequestsHold'
           /\ TypeOK' => CountersHold' /\ RefusalsHold'
<1>1. pc \in [Requests -> Steps] /\ minute \in Nat
    BY AdmissionAssumption DEF IInv, TypeOK
<1>2. pc' \in [Requests -> Steps] /\ pc'[r] = to /\ \A s \in Requests : s # r => pc'[s] = pc[s]
    BY <1>1 DEF Steps
<1>3. ASSUME NEW s \in Requests PROVE RequestHolds(s)'
  <2>1. RequestHolds(s)
      BY DEF IInv, RequestsHold
  <2>2. Permitted(s)' = Permitted(s)
      BY DEF Permitted, SourceIp
  <2>3. CASE s # r
      BY <1>2, <2>1, <2>2, <2>3 DEF RequestHolds
  <2>4. CASE s = r
    <3>1. to \in {"checked", "done"} => bucket[r] # None
        BY <2>1, <2>4 DEF RequestHolds, Moved
    <3> QED BY <1>2, <2>1, <2>2, <2>4, <3>1 DEF RequestHolds
  <2> QED BY <2>3, <2>4
<1>4. ASSUME TypeOK' PROVE CountersHold' /\ RefusalsHold'
  <2>1. ASSUME NEW s \in Requests
        PROVE  /\ pc'[s] \in Moved => pc[s] \in Moved /\ bucket'[s] = bucket[s]
               /\ pc[s] \notin {"counting", "limited"} /\ bucket[s] # None =>
                     pc'[s] \notin {"counting", "limited"} /\ bucket'[s] = bucket[s]
               /\ pc'[s] = "limited" => pc[s] = "limited" /\ bucket'[s] = bucket[s]
    <3>1. CASE s # r
        BY <1>2, <3>1
    <3>2. CASE s = r
        BY <1>2, <3>2 DEF Moved
    <3> QED BY <3>1, <3>2
  <2>2. minute <= minute'
      BY <1>1
  <2> QED BY <1>4, <2>1, <2>2, RateKept DEF IInv
<1> QED BY <1>2, <1>3, <1>4 DEF RequestsHold

LEMMA QuietIInv ==
    ASSUME IInv, NEW r \in Requests, Reject(r) \/ Serve(r) \/ Fail(r)
    PROVE  IInv'
<1>1. PICK to \in {"rejected", "done", "error"} :
          /\ pc' = [pc EXCEPT ![r] = to]
          /\ to = "done" => pc[r] \in Moved
          /\ pc[r] # "limited"
          /\ UNCHANGED <<minute, bucket, rate, usage, answer, enforced>>
    BY DEF Reject, Serve, Fail, Moved
<1>2. pc' \in [Requests -> Steps] /\ RequestsHold' /\ (TypeOK' => CountersHold' /\ RefusalsHold')
    BY <1>1, MoveKeeps DEF Moved
<1>3. TypeOK'
    BY <1>1, <1>2 DEF IInv, TypeOK, usage
<1>4. MonthsHold' /\ OutcomesHold'
    BY <1>1, UsageKept DEF IInv
<1>5. AnswersHold'
    BY <1>1, AnswersKept DEF IInv, usage
<1> QED BY <1>2, <1>3, <1>4, <1>5 DEF IInv

LEMMA RateBeginIInv ==
    ASSUME IInv, NEW r \in Requests, RateBegin(r)
    PROVE  IInv'
<1>1. /\ pc[r] = "new" /\ Permitted(r) /\ pc' = [pc EXCEPT ![r] = "counting"]
      /\ bucket' = [bucket EXCEPT ![r] = minute]
      /\ UNCHANGED <<minute, rate, usage, answer, enforced>>
    BY DEF RateBegin
<1>2. /\ pc \in [Requests -> Steps] /\ bucket \in [Requests -> (0 .. LastMinute) \cup {None}]
      /\ minute \in 0 .. LastMinute /\ minute \in Nat /\ minute # None /\ bucket[r] = None
    BY <1>1, AdmissionAssumption DEF IInv, TypeOK, RequestsHold, RequestHolds
<1>3. /\ pc' \in [Requests -> Steps] /\ bucket' \in [Requests -> (0 .. LastMinute) \cup {None}]
      /\ pc'[r] = "counting" /\ bucket'[r] = minute
      /\ \A s \in Requests : s # r => pc'[s] = pc[s] /\ bucket'[s] = bucket[s]
    BY <1>1, <1>2 DEF Steps
<1>4. TypeOK'
    BY <1>1, <1>3 DEF IInv, TypeOK, usage
<1>5. ASSUME NEW s \in Requests PROVE RequestHolds(s)'
  <2>1. RequestHolds(s)
      BY DEF IInv, RequestsHold
  <2>2. Permitted(s)' = Permitted(s)
      BY DEF Permitted, SourceIp
  <2>3. CASE s # r
      BY <1>1, <1>3, <2>1, <2>2, <2>3 DEF RequestHolds
  <2>4. CASE s = r
      BY <1>1, <1>2, <1>3, <2>2, <2>4 DEF RequestHolds
  <2> QED BY <2>3, <2>4
<1>6. CountersHold' /\ RefusalsHold'
  <2>1. ASSUME NEW s \in Requests
        PROVE  /\ pc'[s] \in Moved => pc[s] \in Moved /\ bucket'[s] = bucket[s]
               /\ pc[s] \notin {"counting", "limited"} /\ bucket[s] # None =>
                     pc'[s] \notin {"counting", "limited"} /\ bucket'[s] = bucket[s]
               /\ pc'[s] = "limited" => pc[s] = "limited" /\ bucket'[s] = bucket[s]
    <3>1. CASE s # r
        BY <1>3, <3>1
    <3>2. CASE s = r
        BY <1>2, <1>3, <3>2 DEF Moved
    <3> QED BY <3>1, <3>2
  <2>2. minute <= minute' /\ UNCHANGED rate
      BY <1>1, <1>2
  <2> QED BY <1>4, <2>1, <2>2, RateKept DEF IInv
<1>7. MonthsHold' /\ OutcomesHold'
    BY <1>1, UsageKept DEF IInv
<1>8. AnswersHold'
    BY <1>1, AnswersKept DEF IInv, usage
<1> QED BY <1>4, <1>5, <1>6, <1>7, <1>8 DEF IInv, RequestsHold

LEMMA TickIInv ==
    ASSUME IInv, Tick
    PROVE  IInv'
<1>1. /\ minute < LastMinute /\ minute' = minute + 1
      /\ \A r \in Requests : pc[r] = "counting" => bucket[r] = minute
      /\ UNCHANGED <<pc, bucket, rate, usage, answer, enforced>>
    BY DEF Tick
<1>2. minute \in Nat /\ minute' \in 0 .. LastMinute /\ minute <= minute' /\ None \notin Nat
    BY <1>1, AdmissionAssumption DEF IInv, TypeOK
<1>3. TypeOK'
    <2>1. /\ UNCHANGED <<pc, bucket, rate, answer, enforced>>
          /\ UNCHANGED <<policy, counter, event>>
        BY <1>1 DEF usage
    <2>2. TypeOK
        BY DEF IInv
    <2> QED
        BY <1>2, <2>1, <2>2 DEF TypeOK
<1>4. ASSUME NEW s \in Requests PROVE RequestHolds(s)'
  <2>1. RequestHolds(s)
      BY DEF IInv, RequestsHold
  <2>2. Permitted(s)' = Permitted(s)
      BY DEF Permitted, SourceIp
  <2>3. bucket[s] # None => bucket[s] \in Nat /\ bucket[s] <= minute + 1
      BY <1>2, <2>1 DEF RequestHolds
  <2>4. pc[s] = "counting" => minute + 1 <= bucket[s] + 1
      BY <1>1, <1>2
  <2> QED BY <1>1, <2>1, <2>2, <2>3, <2>4 DEF RequestHolds
<1>5. CountersHold' /\ RefusalsHold'
    BY <1>1, <1>2, <1>3, RateKept DEF IInv
<1>6. MonthsHold' /\ OutcomesHold'
    BY <1>1, UsageKept DEF IInv
<1>7. AnswersHold'
    BY <1>1, AnswersKept DEF IInv, usage
<1> QED BY <1>3, <1>4, <1>5, <1>6, <1>7 DEF IInv, RequestsHold

-----------------------------------------------------------------------------
(* Counting a request.                                                      *)

(* The table after the counters of a request were incremented. *)
Counted(r) ==
    LET gone == IF r \in Demo THEN {} ELSE Expired(bucket[r])
        kept == [k \in DOMAIN rate \ gone |-> rate[k]]
    IN  [k \in DOMAIN kept \cup Keys(r, bucket[r]) |->
           Get(kept, k) + (IF k \in Keys(r, bucket[r]) THEN 1 ELSE 0)]

(* No counter that is still needed is cleared. *)
LEMMA CountedIs ==
    ASSUME IInv, NEW r \in Requests, pc[r] = "counting"
    PROVE  /\ Counted(r) \in [DOMAIN Counted(r) -> Nat]
           /\ bucket[r] \in Nat /\ minute <= bucket[r] + 1
           /\ Keys(r, bucket[r]) \subseteq DOMAIN Counted(r)
           /\ \A k : k[3] \in Nat /\ minute <= k[3] + 1 =>
                 Get(Counted(r), k) = Get(rate, k) + (IF k \in Keys(r, bucket[r]) THEN 1 ELSE 0)
<1> DEFINE gone == IF r \in Demo THEN {} ELSE Expired(bucket[r])
           kept == [k \in DOMAIN rate \ gone |-> rate[k]]
           keys == Keys(r, bucket[r])
<1>1. /\ bucket[r] \in Nat /\ bucket[r] <= minute /\ minute <= bucket[r] + 1 /\ minute \in Nat
      /\ rate \in [DOMAIN rate -> Nat]
    BY AdmissionAssumption DEF IInv, TypeOK, RequestsHold, RequestHolds
<1>2. kept \in [DOMAIN kept -> Nat] /\ DOMAIN kept = DOMAIN rate \ gone
    BY <1>1
<1>3. ASSUME NEW k, k[3] \in Nat, minute <= k[3] + 1 PROVE k \notin gone
    BY <1>1, <1>3 DEF Expired
<1>4. ASSUME NEW k, k[3] \in Nat, minute <= k[3] + 1 PROVE Get(kept, k) = Get(rate, k)
    BY <1>3, <1>4 DEF Get
<1>5. \A k : Get(kept, k) \in Nat
    BY <1>2 DEF Get
<1>6. Counted(r) = [k \in DOMAIN kept \cup keys |-> Get(kept, k) + (IF k \in keys THEN 1 ELSE 0)]
    BY DEF Counted
<1>7. \A k : k \notin DOMAIN kept => Get(kept, k) = 0
    BY DEF Get
<1> HIDE DEF kept, keys, gone
<1>8. \A k : Get(Counted(r), k) = Get(kept, k) + (IF k \in keys THEN 1 ELSE 0)
    BY <1>5, <1>6, <1>7 DEF Get
<1>9. Counted(r) \in [DOMAIN Counted(r) -> Nat] /\ keys \subseteq DOMAIN Counted(r)
    BY <1>5, <1>6
<1> QED BY <1>1, <1>4, <1>8, <1>9 DEF keys

LEMMA RateCountIInv ==
    ASSUME IInv, NEW r \in Requests, RateCount(r)
    PROVE  IInv'
<1> DEFINE begun == bucket[r]
<1>1. /\ pc[r] = "counting" /\ UNCHANGED <<minute, bucket, usage, answer, enforced>>
      /\ IF \E k \in Keys(r, begun) : Counted(r)[k] > Limit(k)
         THEN pc' = [pc EXCEPT ![r] = "limited"] /\ rate' = rate
         ELSE pc' = [pc EXCEPT ![r] = "rated"] /\ rate' = Counted(r)
    BY DEF RateCount, Counted, Refused
<1>2. /\ Counted(r) \in [DOMAIN Counted(r) -> Nat]
      /\ begun \in Nat /\ minute <= begun + 1
      /\ Keys(r, begun) \subseteq DOMAIN Counted(r)
      /\ \A k : k[3] \in Nat /\ minute <= k[3] + 1 =>
            Get(Counted(r), k) = Get(rate, k) + (IF k \in Keys(r, begun) THEN 1 ELSE 0)
    BY <1>1, CountedIs
<1>3. ASSUME NEW k \in Keys(r, begun)
      PROVE  /\ k[3] = begun /\ Limit(k) \in Nat /\ CounterHolds(k) /\ Get(rate, k) \in Nat
             /\ Counted(r)[k] = Get(rate, k) + 1
             /\ Cardinality(AdmittedTo(k)) <= Get(rate, k) /\ Get(rate, k) <= Cardinality(CountedIn(k))
  <2>1. k[3] = begun /\ Limit(k) \in Nat /\ CounterHolds(k)
      BY <1>2, KeysAre DEF IInv, CountersHold
  <2>2. Counted(r)[k] = Get(Counted(r), k)
      BY <1>2 DEF Get
  <2>3. Get(rate, k) \in Nat
      BY DEF IInv, TypeOK, Get
  <2>4. Counted(r)[k] = Get(rate, k) + 1
      BY <1>2, <2>1, <2>2
  <2> QED BY <1>2, <2>1, <2>3, <2>4 DEF CounterHolds
<1>4. pc \in [Requests -> Steps] /\ minute \in Nat /\ None \notin Nat
    BY AdmissionAssumption DEF IInv, TypeOK
<1>5. /\ pc' \in [Requests -> Steps] /\ pc'[r] \in {"limited", "rated"}
      /\ \A s \in Requests : s # r => pc'[s] = pc[s]
    BY <1>1, <1>4 DEF Steps
<1>6. TypeOK'
  <2>1. rate' \in [DOMAIN rate' -> Nat]
      BY <1>1, <1>2 DEF IInv, TypeOK
  <2> QED BY <1>1, <1>5, <2>1 DEF IInv, TypeOK, usage
<1>7. ASSUME NEW s \in Requests PROVE RequestHolds(s)'
  <2>1. RequestHolds(s) /\ Permitted(s)' = Permitted(s)
      BY DEF IInv, RequestsHold, Permitted, SourceIp
  <2>2. CASE s # r
      BY <1>1, <1>5, <2>1, <2>2 DEF RequestHolds
  <2>3. CASE s = r
      BY <1>1, <1>2, <1>4, <1>5, <2>1, <2>3 DEF RequestHolds
  <2> QED BY <2>2, <2>3
<1>8. MonthsHold' /\ OutcomesHold'
    BY <1>1, UsageKept DEF IInv
<1>9. AnswersHold'
    BY <1>1, AnswersKept DEF IInv, usage
<1>10. CASE \E k \in Keys(r, begun) : Counted(r)[k] > Limit(k)
  <2>1. pc'[r] = "limited" /\ UNCHANGED <<rate, bucket, minute>>
      BY <1>1, <1>4, <1>10
  <2>2. \A s \in Requests :
           /\ pc'[s] \in Moved => pc[s] \in Moved /\ bucket'[s] = bucket[s]
           /\ pc[s] \notin {"counting", "limited"} /\ bucket[s] # None =>
                 pc'[s] \notin {"counting", "limited"} /\ bucket'[s] = bucket[s]
      BY <1>1, <1>5, <2>1 DEF Moved
  <2>3. /\ CountersHold'
        /\ \A k : k[3] \in Nat =>
              /\ Cardinality(CountedIn(k)) <= Cardinality(CountedIn(k)')
              /\ Cardinality(CountedIn(k)) \in Nat /\ Cardinality(CountedIn(k)') \in Nat
      BY <1>4, <1>6, <2>1, <2>2, CountersKept DEF IInv
  <2>4. ASSUME NEW s \in Requests, pc'[s] = "limited"
        PROVE  \E k \in Keys(s, bucket'[s]) : Limit(k) <= Cardinality(CountedIn(k)')
    <3>1. bucket[s] \in Nat /\ bucket'[s] = bucket[s]
        BY <1>7, <2>1, <2>4 DEF RequestHolds
    <3>2. \E k \in Keys(s, bucket[s]) : Limit(k) <= Cardinality(CountedIn(k))
      <4>1. CASE s # r
          BY <1>5, <2>4, <4>1 DEF IInv, RefusalsHold
      <4>2. CASE s = r
        <5>1. PICK k \in Keys(r, begun) : Counted(r)[k] > Limit(k)
            BY <1>10
        <5>2. Cardinality(CountedIn(k)) \in Nat
            BY <1>2, <1>3, <2>3
        <5>3. Limit(k) <= Cardinality(CountedIn(k))
            BY <1>3, <5>1, <5>2
        <5> QED BY <4>2, <5>3
      <4> QED BY <4>1, <4>2
    <3>3. PICK k \in Keys(s, bucket[s]) : Limit(k) <= Cardinality(CountedIn(k))
        BY <3>2
    <3>4. k[3] \in Nat /\ Limit(k) \in Nat
        BY <3>1, KeysAre
    <3> QED BY <2>3, <3>1, <3>3, <3>4
  <2> QED BY <1>6, <1>7, <1>8, <1>9, <2>3, <2>4 DEF IInv, RequestsHold, RefusalsHold
<1>11. CASE ~\E k \in Keys(r, begun) : Counted(r)[k] > Limit(k)
  <2>1. pc'[r] = "rated" /\ rate' = Counted(r) /\ UNCHANGED <<bucket, minute>>
      BY <1>1, <1>4, <1>11
  <2>2. ASSUME NEW k
        PROVE  /\ AdmittedTo(k) \in SUBSET Requests /\ CountedIn(k) \in SUBSET Requests
               /\ r \notin AdmittedTo(k) /\ r \notin CountedIn(k)
               /\ AdmittedTo(k)' = AdmittedTo(k) \cup (IF begun = k[3] /\ k \in Keys(r, begun) THEN {r} ELSE {})
               /\ CountedIn(k)' = CountedIn(k) \cup (IF begun = k[3] /\ k \in Keys(r, begun) THEN {r} ELSE {})
    <3>1. /\ AdmittedTo(k) \in SUBSET Requests /\ CountedIn(k) \in SUBSET Requests
          /\ r \notin AdmittedTo(k) /\ r \notin CountedIn(k)
        BY <1>1 DEF AdmittedTo, CountedIn
    <3>2. AdmittedTo(k)' = AdmittedTo(k) \cup (IF begun = k[3] /\ k \in Keys(r, begun) THEN {r} ELSE {})
        BY <1>1, <1>5, <2>1 DEF AdmittedTo
    <3>3. CountedIn(k)' = CountedIn(k) \cup (IF begun = k[3] /\ k \in Keys(r, begun) THEN {r} ELSE {})
        BY <1>1, <1>5, <2>1 DEF CountedIn
    <3> QED BY <3>1, <3>2, <3>3
  <2>3. ASSUME NEW s \in Requests, NEW at \in Nat, NEW k \in Keys(s, at) PROVE CounterHolds(k)'
    <3>1. k[3] = at /\ Limit(k) \in Nat /\ CounterHolds(k)
        BY KeysAre DEF IInv, CountersHold
    <3>2. CASE begun = k[3] /\ k \in Keys(r, begun)
      <4>1. /\ Cardinality(AdmittedTo(k)') = Cardinality(AdmittedTo(k)) + 1
            /\ Cardinality(CountedIn(k)') = Cardinality(CountedIn(k)) + 1
            /\ Cardinality(AdmittedTo(k)) \in Nat /\ Cardinality(CountedIn(k)) \in Nat
          BY <2>2, <3>2, Counting
      <4>2. Get(rate, k)' = Get(rate, k) + 1
          BY <1>2, <2>1, <3>1, <3>2 DEF Get
      <4>3. Get(rate, k) + 1 <= Limit(k)
          BY <1>3, <1>11, <3>2
      <4>4. /\ Cardinality(AdmittedTo(k)) <= Get(rate, k) /\ Get(rate, k) <= Cardinality(CountedIn(k))
            /\ Get(rate, k) \in Nat
          BY <1>3, <3>2
      <4> QED BY <3>1, <4>1, <4>2, <4>3, <4>4 DEF CounterHolds
    <3>3. CASE ~(begun = k[3] /\ k \in Keys(r, begun))
      <4>1. AdmittedTo(k)' = AdmittedTo(k) /\ CountedIn(k)' = CountedIn(k)
          BY <2>2, <3>3
      <4>2. k \notin Keys(r, begun)
          BY <1>3, <3>3
      <4>3. minute <= k[3] + 1 => Get(rate, k)' = Get(rate, k)
        <5>1. Get(rate, k) \in Nat
            BY DEF IInv, TypeOK, Get
        <5>2. minute <= k[3] + 1 => Get(Counted(r), k) = Get(rate, k)
            BY <1>2, <3>1, <4>2, <5>1
        <5> QED BY <2>1, <5>2 DEF Get
      <4> QED BY <2>1, <3>1, <4>1, <4>3 DEF CounterHolds
    <3> QED BY <3>2, <3>3
  <2>4. ASSUME NEW s \in Requests, pc'[s] = "limited"
        PROVE  \E k \in Keys(s, bucket'[s]) : Limit(k) <= Cardinality(CountedIn(k)')
    <3>1. s # r /\ pc[s] = "limited" /\ bucket'[s] = bucket[s] /\ bucket[s] \in Nat
        BY <1>5, <1>7, <2>1, <2>4 DEF RequestHolds
    <3>2. PICK k \in Keys(s, bucket[s]) : Limit(k) <= Cardinality(CountedIn(k))
        BY <3>1 DEF IInv, RefusalsHold
    <3>3. Limit(k) \in Nat
        BY KeysAre
    <3>4. /\ CountedIn(k) \in SUBSET Requests /\ CountedIn(k)' \in SUBSET Requests
          /\ CountedIn(k) \subseteq CountedIn(k)'
        BY <2>2
    <3>5. /\ Cardinality(CountedIn(k)) <= Cardinality(CountedIn(k)')
          /\ Cardinality(CountedIn(k)) \in Nat /\ Cardinality(CountedIn(k)') \in Nat
        BY <3>4, Counting
    <3> QED BY <3>1, <3>2, <3>3, <3>5
  <2> QED BY <1>6, <1>7, <1>8, <1>9, <2>3, <2>4 DEF IInv, RequestsHold, RefusalsHold, CountersHold
<1> QED BY <1>10, <1>11

-----------------------------------------------------------------------------
(* Events and answers.                                                      *)

(* What a client is told of an event. *)
Told(u) == [row |-> u, threshold |-> Threshold(u.number, u.outcome)]

LEMMA AnswerKeeps ==
    ASSUME TypeOK, AnswersHold, NEW r \in Requests, NEW s,
           s \in DOMAIN event', DOMAIN event' \subseteq Requests, event'[s] \in Row,
           DOMAIN event \subseteq DOMAIN event', \A x \in DOMAIN event : event'[x] = event[x],
           answer' = [answer EXCEPT ![r] = [event |-> s, usage |-> Told(event'[s])]]
    PROVE  /\ AnswersHold'
           /\ answer' \in [Requests -> [event : Requests, usage : Usage] \cup {None}]
<1> DEFINE new == [event |-> s, usage |-> Told(event'[s])]
<1>1. new \in [event : Requests, usage : Usage]
  <2>1. Threshold(event'[s].number, event'[s].outcome) \in {"70", "90", "100", "courtesy_exhausted", None}
      BY ThresholdType
  <2>2. Told(event'[s]) \in Usage
      BY <2>1 DEF Told, Usage
  <2> QED BY <2>2
<1>2. answer \in [Requests -> [event : Requests, usage : Usage] \cup {None}]
    BY DEF TypeOK
<1>3. \A x : Admission(x, event)' = Told(event'[x]) /\ Admission(x, event) = Told(event[x])
    BY DEF Admission, Told, Threshold
<1>4. /\ answer' \in [Requests -> [event : Requests, usage : Usage] \cup {None}]
      /\ answer'[r] = new /\ \A q \in Requests : q # r => answer'[q] = answer[q]
  <2> HIDE DEF new
  <2>1. answer' = [answer EXCEPT ![r] = new]
      BY DEF new
  <2> QED BY <1>1, <1>2, <2>1
<1>5. ASSUME NEW q \in Requests, answer'[q] # None
      PROVE  \E x \in DOMAIN event' : answer'[q] = [event |-> x, usage |-> Told(event'[x])]
  <2>1. CASE q = r
      BY <1>4, <2>1
  <2>2. CASE q # r
    <3>1. PICK x \in DOMAIN event : answer[q] = [event |-> x, usage |-> Told(event[x])]
        BY <1>3, <1>4, <1>5, <2>2 DEF AnswersHold
    <3>2. x \in DOMAIN event' /\ event'[x] = event[x]
        BY <3>1
    <3> QED BY <1>4, <2>2, <3>1, <3>2
  <2> QED BY <2>1, <2>2
<1> QED BY <1>3, <1>4, <1>5 DEF AnswersHold

(* A duplicate, seen at once or only by the INSERT. *)
LEMMA DuplicateIInv ==
    ASSUME IInv, NEW r \in Requests, pc[r] \in Moved, NEW s \in Stored(r), Answer(r, s, event),
           UNCHANGED <<minute, bucket, rate, usage, enforced>>
    PROVE  IInv'
<1>1. /\ pc' = [pc EXCEPT ![r] = "done"] /\ UNCHANGED event
      /\ answer' = [answer EXCEPT ![r] = [event |-> s, usage |-> Told(event'[s])]]
    BY DEF Answer, Admission, Told, usage
<1>2. s \in DOMAIN event /\ DOMAIN event \subseteq Requests /\ event[s] \in Row /\ TypeOK /\ AnswersHold
    BY DEF IInv, TypeOK, Stored
<1>3. /\ AnswersHold'
      /\ answer' \in [Requests -> [event : Requests, usage : Usage] \cup {None}]
  <2>1. /\ s \in DOMAIN event' /\ DOMAIN event' \subseteq Requests /\ event'[s] \in Row
        /\ DOMAIN event \subseteq DOMAIN event' /\ \A x \in DOMAIN event : event'[x] = event[x]
      BY <1>1, <1>2
  <2> QED BY <1>1, <1>2, <2>1, AnswerKeeps
<1>4. pc' \in [Requests -> Steps] /\ RequestsHold' /\ (TypeOK' => CountersHold' /\ RefusalsHold')
    BY <1>1, MoveKeeps DEF Moved
<1>5. TypeOK'
    BY <1>3, <1>4 DEF IInv, TypeOK, usage
<1>6. MonthsHold' /\ OutcomesHold'
    BY UsageKept DEF IInv
<1> QED BY <1>3, <1>4, <1>5, <1>6 DEF IInv

LEMMA CheckIInv ==
    ASSUME IInv, NEW r \in Requests, Check(r) \/ Conflict(r)
    PROVE  IInv'
<1>1. pc[r] \in Moved /\ UNCHANGED <<minute, bucket, rate, usage, enforced>>
    BY DEF Check, Conflict, Moved
<1>2. CASE \E s \in Stored(r) : Answer(r, s, event)
    BY <1>1, <1>2, DuplicateIInv
<1>3. CASE pc' = [pc EXCEPT ![r] = "checked"] /\ UNCHANGED answer
  <2>1. pc' \in [Requests -> Steps] /\ RequestsHold' /\ (TypeOK' => CountersHold' /\ RefusalsHold')
      BY <1>1, <1>3, MoveKeeps DEF Moved
  <2>2. TypeOK'
      BY <1>1, <1>3, <2>1 DEF IInv, TypeOK, usage
  <2>3. MonthsHold' /\ OutcomesHold'
      BY <1>1, UsageKept DEF IInv
  <2>4. AnswersHold'
      BY <1>1, <1>3, AnswersKept DEF IInv, usage
  <2> QED BY <2>1, <2>2, <2>3, <2>4 DEF IInv
<1> QED BY <1>2, <1>3 DEF Check, Conflict

LEMMA UpdateUsageIInv ==
    ASSUME IInv, UpdateUsage
    PROVE  IInv'
<1>1. PICK s \in Settings : policy' = Append(policy, s)
    BY DEF UpdateUsage
<1>2. UNCHANGED <<minute, pc, bucket, rate, counter, event, answer, enforced>>
    BY DEF UpdateUsage
<1>3. policy \in Seq(Settings) /\ Len(policy) \in Nat
    BY DEF IInv, TypeOK
<1>4. /\ policy' \in Seq(Settings) /\ policy' # << >> /\ Len(policy') = Len(policy) + 1
      /\ \A i \in 1 .. Len(policy) : policy'[i] = policy[i]
    BY <1>1, <1>3
<1>5. TypeOK'
    BY <1>2, <1>4 DEF IInv, TypeOK
<1>6. RequestsHold'
    BY <1>2 DEF IInv, RequestsHold, RequestHolds, Permitted, SourceIp
<1>7. CountersHold' /\ RefusalsHold'
  <2>1. minute <= minute'
      BY <1>2, AdmissionAssumption DEF IInv, TypeOK
  <2> QED BY <1>2, <1>5, <2>1, RateKept DEF IInv
<1>8. MonthsHold'
    BY <1>2, MonthsKept DEF IInv
<1>9. OutcomesHold'
  <2> SUFFICES ASSUME NEW r \in DOMAIN event PROVE OutcomeHolds(r)'
      BY <1>2 DEF OutcomesHold
  <2>1. OutcomeHolds(r) /\ event'[r] = event[r]
      BY <1>2 DEF IInv, OutcomesHold
  <2>2. event[r].version \in 1 .. Len(policy) /\ event[r].version \in 1 .. Len(policy')
      BY <1>3, <1>4, <2>1 DEF OutcomeHolds
  <2>3. policy'[event[r].version] = policy[event[r].version]
      BY <1>4, <2>2
  <2>4. \A n, cap : AdmissionOutcome(n, cap)' = AdmissionOutcome(n, cap)
      BY <1>2 DEF AdmissionOutcome, PolicyOutcome
  <2> QED BY <2>1, <2>2, <2>3, <2>4 DEF OutcomeHolds
<1>10. AnswersHold'
    BY <1>2, AnswersKept DEF IInv
<1> QED BY <1>5, <1>6, <1>7, <1>8, <1>9, <1>10 DEF IInv

-----------------------------------------------------------------------------
(* Acceptance.                                                              *)

LEMMA VerdictType ==
    ASSUME NEW n, NEW cap
    PROVE  AdmissionOutcome(n, cap) \in Outcomes
<1> DEFINE a == n <= EventLimit
           b == n > EventLimit /\ n <= PaidLimit(cap)
           c == n > PaidLimit(cap) /\ n <= CourtesyLimit
<1>1. PolicyOutcome(n, cap) = CASE a -> "standard" [] b -> "overage" [] c -> "courtesy" [] OTHER -> "sampling"
    BY DEF PolicyOutcome
<1> HIDE DEF a, b, c
<1>2. PolicyOutcome(n, cap) \in Outcomes
    BY <1>1 DEF Outcomes
<1> QED BY <1>2 DEF AdmissionOutcome, Outcomes

LEMMA MonthType ==
    ASSUME TypeOK
    PROVE  Month \in Nat
<1>1. minute \in Nat /\ MonthMinutes \in Nat \ {0}
    BY AdmissionAssumption DEF TypeOK
<1> QED BY <1>1 DEF Month

(* One more event in the present month, with the next number. *)
LEMMA AcceptedMonths ==
    ASSUME IInv, NEW r \in Requests, r \notin DOMAIN event,
           event' = Put(event, r, Recorded(r)),
           counter' = Put(counter, Month, Get(counter, Month) + 1)
    PROVE  MonthsHold'
<1>1. Recorded(r).cycle = Month /\ Recorded(r).number = Get(counter, Month) + 1
    BY DEF Recorded
<1>2. /\ DOMAIN event' = DOMAIN event \cup {r} /\ event'[r] = Recorded(r)
      /\ \A x \in DOMAIN event : event'[x] = event[x]
      /\ \A m : Get(counter, m)' = IF m = Month THEN Get(counter, Month) + 1 ELSE Get(counter, m)
  <2>1. /\ DOMAIN event' = DOMAIN event \cup {r} /\ event'[r] = Recorded(r)
        /\ \A x \in DOMAIN event : x # r => event'[x] = event[x]
      BY DEF Put
  <2>2. \A m : Get(counter, m)' = Get(counter', m)
      BY DEF Get
  <2> DEFINE next == Get(counter, Month) + 1
  <2>3. counter' = Put(counter, Month, next)
      OBVIOUS
  <2> HIDE DEF next
  <2>4. \A m : Get(counter', m) = IF m = Month THEN next ELSE Get(counter, m)
      BY <2>3 DEF Put, Get
  <2> QED BY <2>1, <2>2, <2>4 DEF next
<1>3. Month \in Nat /\ DOMAIN event \subseteq Requests
    BY MonthType DEF IInv, TypeOK
<1> SUFFICES ASSUME NEW m \in Nat PROVE MonthHolds(m)'
    BY DEF MonthsHold
<1> DEFINE n == Cardinality(EventsOf(m))
<1>4. MonthHolds(m) /\ EventsOf(m) \in SUBSET Requests /\ n \in Nat /\ r \notin EventsOf(m)
  <2>1. MonthHolds(m) /\ EventsOf(m) \in SUBSET Requests /\ r \notin EventsOf(m)
      BY <1>3 DEF IInv, MonthsHold, EventsOf
  <2> QED BY <2>1, Counting
<1>5. CASE m # Month
  <2>1. EventsOf(m)' = EventsOf(m)
      BY <1>1, <1>2, <1>5 DEF EventsOf
  <2>2. \A x \in EventsOf(m) : event'[x] = event[x]
      BY <1>2 DEF EventsOf
  <2>3. Get(counter, m)' = Get(counter, m)
      BY <1>2, <1>5
  <2> QED BY <1>4, <2>1, <2>2, <2>3 DEF MonthHolds
<1>6. CASE m = Month
  <2>1. EventsOf(m)' = EventsOf(m) \cup {r}
      BY <1>1, <1>2, <1>6 DEF EventsOf
  <2>2. Cardinality(EventsOf(m)') = n + 1
      BY <1>4, <2>1, Counting
  <2>3. Get(counter, m) = n /\ event'[r].number = n + 1 /\ Get(counter, m)' = n + 1
      BY <1>1, <1>2, <1>4, <1>6 DEF MonthHolds
  <2>4. \A x \in EventsOf(m) : event'[x] = event[x] /\ event'[x].number \in 1 .. n
      BY <1>2, <1>4 DEF EventsOf, MonthHolds
  <2>5. \A x \in EventsOf(m)' : event'[x].number \in 1 .. (n + 1)
      BY <1>4, <2>1, <2>3, <2>4
  <2>6. ASSUME NEW x \in EventsOf(m)', NEW y \in EventsOf(m)', event'[x].number = event'[y].number
        PROVE  x = y
    <3>1. CASE x = r \/ y = r
        BY <1>4, <2>1, <2>3, <2>4, <2>6, <3>1
    <3>2. CASE x # r /\ y # r
        BY <1>4, <2>1, <2>4, <2>6, <3>2 DEF MonthHolds
    <3> QED BY <3>1, <3>2
  <2>7. ASSUME NEW i \in 1 .. (n + 1) PROVE \E x \in EventsOf(m)' : event'[x].number = i
    <3>1. CASE i = n + 1
        BY <2>1, <2>3, <3>1
    <3>2. CASE i # n + 1
      <4>1. i \in 1 .. n
          BY <1>4, <3>2
      <4>2. PICK x \in EventsOf(m) : event[x].number = i
          BY <1>4, <4>1 DEF MonthHolds
      <4> QED BY <2>1, <2>4, <4>2
    <3> QED BY <3>1, <3>2
  <2> QED BY <2>2, <2>3, <2>5, <2>6, <2>7 DEF MonthHolds
<1> QED BY <1>5, <1>6

LEMMA AcceptIInv ==
    ASSUME IInv, NEW r \in Requests, Accept(r)
    PROVE  IInv'
<1>1. /\ pc[r] = "checked" /\ r \notin DOMAIN event
      /\ event' = Put(event, r, Recorded(r))
      /\ counter' = Put(counter, Month, Get(counter, Month) + 1)
      /\ UNCHANGED <<minute, bucket, rate, policy, enforced>>
    BY DEF Accept, Stored
<1>2. TypeOK
    BY DEF IInv
<1>3. /\ policy \in Seq(Settings) /\ Len(policy) \in Nat /\ Len(policy) \in 1 .. Len(policy)
      /\ Get(counter, Month) \in Nat /\ Month \in Nat
    BY <1>2, MonthType DEF TypeOK, Get
<1>4. /\ Recorded(r) \in Row /\ Recorded(r).version = Len(policy)
      /\ Recorded(r).outcome = AdmissionOutcome(Recorded(r).number, policy[Len(policy)].cap)
    BY <1>3, VerdictType DEF Recorded, Row
<1>5. /\ DOMAIN event' = DOMAIN event \cup {r} /\ event'[r] = Recorded(r)
      /\ \A x \in DOMAIN event : event'[x] = event[x]
      /\ event' = [x \in DOMAIN event' |-> event'[x]]
  <2>1. \A x \in DOMAIN event : x # r => event'[x] = event[x]
      BY <1>1 DEF Put
  <2> QED BY <1>1, <2>1 DEF Put
<1>6. event' \in [DOMAIN event' -> Row] /\ DOMAIN event' \subseteq Requests
  <2>1. \A x \in DOMAIN event : event[x] \in Row
      BY <1>2 DEF TypeOK
  <2>2. \A x \in DOMAIN event' : event'[x] \in Row
      BY <1>4, <1>5, <2>1
  <2> QED BY <1>2, <1>5, <2>2 DEF TypeOK
<1>7. counter' \in [DOMAIN counter' -> Nat]
  <2>1. /\ DOMAIN counter' = DOMAIN counter \cup {Month} /\ counter'[Month] = Get(counter, Month) + 1
        /\ \A x \in DOMAIN counter : x # Month => counter'[x] = counter[x]
        /\ counter' = [x \in DOMAIN counter' |-> counter'[x]]
      BY <1>1 DEF Put
  <2>2. \A x \in DOMAIN counter : counter[x] \in Nat
      BY <1>2 DEF TypeOK
  <2>3. \A x \in DOMAIN counter' : counter'[x] \in Nat
      BY <1>3, <2>1, <2>2
  <2> QED BY <2>1, <2>3
<1>8. MonthsHold'
    BY <1>1, AcceptedMonths
<1>9. OutcomesHold'
  <2> SUFFICES ASSUME NEW x \in DOMAIN event' PROVE OutcomeHolds(x)'
      BY DEF OutcomesHold
  <2>1. \A n, cap : AdmissionOutcome(n, cap)' = AdmissionOutcome(n, cap)
      BY <1>1 DEF AdmissionOutcome, PolicyOutcome
  <2>2. CASE x = r
      BY <1>1, <1>3, <1>4, <1>5, <2>1, <2>2 DEF OutcomeHolds
  <2>3. CASE x # r
    <3>1. x \in DOMAIN event /\ event'[x] = event[x] /\ OutcomeHolds(x)
        BY <1>5, <2>3 DEF IInv, OutcomesHold
    <3> QED BY <1>1, <2>1, <3>1 DEF OutcomeHolds
  <2> QED BY <2>2, <2>3
<1>10. /\ AnswersHold'
       /\ answer' \in [Requests -> [event : Requests, usage : Usage] \cup {None}]
       /\ \E to \in {"done", "error"} : pc' = [pc EXCEPT ![r] = to]
  <2>1. CASE Answer(r, r, event')
    <3>1. /\ answer' = [answer EXCEPT ![r] = [event |-> r, usage |-> Told(event'[r])]]
          /\ pc' = [pc EXCEPT ![r] = "done"]
        BY <2>1 DEF Answer, Admission, Told
    <3>2. /\ AnswersHold /\ r \in DOMAIN event' /\ event'[r] \in Row
          /\ DOMAIN event \subseteq DOMAIN event' /\ \A x \in DOMAIN event : event'[x] = event[x]
        BY <1>4, <1>5 DEF IInv
    <3> QED BY <1>2, <1>6, <3>1, <3>2, AnswerKeeps
  <2>2. CASE pc' = [pc EXCEPT ![r] = "error"] /\ UNCHANGED answer
    <3>1. \A x : Admission(x, event)' = Told(event'[x]) /\ Admission(x, event) = Told(event[x])
        BY DEF Admission, Told, Threshold
    <3>2. ASSUME NEW q \in Requests, answer'[q] # None
          PROVE  \E x \in DOMAIN event' : answer'[q] = [event |-> x, usage |-> Told(event'[x])]
      <4>1. PICK x \in DOMAIN event : answer[q] = [event |-> x, usage |-> Told(event[x])]
          BY <2>2, <3>1, <3>2 DEF IInv, AnswersHold
      <4>2. x \in DOMAIN event' /\ event'[x] = event[x]
          BY <1>5, <4>1
      <4> QED BY <2>2, <4>1, <4>2
    <3> QED BY <1>2, <2>2, <3>1, <3>2 DEF AnswersHold, TypeOK
  <2> QED BY <2>1, <2>2 DEF Accept
<1>11. PICK to \in {"done", "error"} : pc' = [pc EXCEPT ![r] = to]
    BY <1>10
<1>12. pc' \in [Requests -> Steps] /\ RequestsHold' /\ (TypeOK' => CountersHold' /\ RefusalsHold')
    BY <1>1, <1>11, MoveKeeps DEF Moved
<1>13. TypeOK'
    BY <1>1, <1>2, <1>6, <1>7, <1>10, <1>12 DEF TypeOK
<1> QED BY <1>8, <1>9, <1>10, <1>12, <1>13 DEF IInv

-----------------------------------------------------------------------------

LEMMA InitIInv == Init => IInv
<1> SUFFICES ASSUME Init PROVE IInv
    OBVIOUS
<1>1. PICK S \in Arrivals : pc = [r \in Requests |-> IF r \in S THEN "new" ELSE "absent"]
    BY DEF Init
<1>2. PICK s \in Settings : policy = <<s>>
    BY DEF Init
<1>3. /\ minute = 0 /\ bucket = [r \in Requests |-> None] /\ rate = << >> /\ counter = << >>
      /\ event = << >> /\ answer = [r \in Requests |-> None] /\ enforced \in BOOLEAN
    BY DEF Init
<1>4. DOMAIN rate = {} /\ DOMAIN event = {} /\ DOMAIN counter = {}
    BY <1>3
<1>5. TypeOK
  <2>1. /\ minute \in 0 .. LastMinute
        /\ pc \in [Requests -> Steps]
        /\ bucket \in [Requests -> (0 .. LastMinute) \cup {None}]
      BY <1>1, <1>3, AdmissionAssumption DEF Steps
  <2>2. policy \in Seq(Settings) /\ policy # << >>
      BY <1>2
  <2>3. /\ rate \in [DOMAIN rate -> Nat] /\ counter \in [DOMAIN counter -> Nat]
        /\ DOMAIN event \subseteq Requests /\ event \in [DOMAIN event -> Row]
      BY <1>3, <1>4
  <2> QED BY <1>3, <2>1, <2>2, <2>3 DEF TypeOK
<1>6. RequestsHold
    BY <1>1, <1>3 DEF RequestsHold, RequestHolds
<1>7. CountersHold
  <2> SUFFICES ASSUME NEW r \in Requests, NEW at \in Nat, NEW k \in Keys(r, at) PROVE CounterHolds(k)
      BY DEF CountersHold
  <2>1. k[3] \in Nat /\ Limit(k) \in Nat
      BY KeysAre
  <2>2. AdmittedTo(k) = {} /\ CountedIn(k) = {}
      BY <1>3, <2>1, AdmissionAssumption DEF AdmittedTo, CountedIn
  <2>3. Cardinality({}) = 0
      BY FS_EmptySet
  <2>4. Get(rate, k) = 0
      BY <1>4 DEF Get
  <2> QED BY <2>1, <2>2, <2>3, <2>4 DEF CounterHolds
<1>8. RefusalsHold
    BY <1>1 DEF RefusalsHold
<1>9. MonthsHold
  <2> SUFFICES ASSUME NEW m \in Nat PROVE MonthHolds(m)
      BY DEF MonthsHold
  <2>1. EventsOf(m) = {} /\ Get(counter, m) = 0
      BY <1>4 DEF EventsOf, Get
  <2>2. Cardinality({}) = 0
      BY FS_EmptySet
  <2> QED BY <2>1, <2>2 DEF MonthHolds
<1>10. OutcomesHold
    BY <1>4 DEF OutcomesHold
<1>11. AnswersHold
    BY <1>3 DEF AnswersHold
<1> QED BY <1>5, <1>6, <1>7, <1>8, <1>9, <1>10, <1>11 DEF IInv

LEMMA NextIInv == IInv /\ [Next]_vars => IInv'
<1> SUFFICES ASSUME IInv, [Next]_vars PROVE IInv'
    OBVIOUS
<1>1. ASSUME NEW r \in Requests, Reject(r) \/ Serve(r) \/ Fail(r) PROVE IInv'
    BY <1>1, QuietIInv
<1>2. ASSUME NEW r \in Requests, RateBegin(r) PROVE IInv'
    BY <1>2, RateBeginIInv
<1>3. ASSUME NEW r \in Requests, RateCount(r) PROVE IInv'
    BY <1>3, RateCountIInv
<1>4. ASSUME NEW r \in Requests, Check(r) \/ Conflict(r) PROVE IInv'
    BY <1>4, CheckIInv
<1>5. ASSUME NEW r \in Requests, Accept(r) PROVE IInv'
    BY <1>5, AcceptIInv
<1>6. CASE UpdateUsage
    BY <1>6, UpdateUsageIInv
<1>7. CASE Tick
    BY <1>7, TickIInv
<1>8. CASE UNCHANGED vars
  <2>1. UNCHANGED <<minute, pc, bucket, rate, answer, enforced, policy, counter, event>>
      BY <1>8 DEF vars, usage
  <2>2. TypeOK'
      BY <2>1 DEF IInv, TypeOK
  <2>3. RequestsHold'
      BY <2>1 DEF IInv, RequestsHold, RequestHolds, Permitted, SourceIp
  <2>4. CountersHold' /\ RefusalsHold'
    <3>1. minute <= minute'
        BY <2>1, AdmissionAssumption DEF IInv, TypeOK
    <3> QED BY <2>1, <2>2, <3>1, RateKept DEF IInv
  <2>5. MonthsHold' /\ OutcomesHold'
      BY <2>1, UsageKept DEF IInv, usage
  <2>6. AnswersHold'
      BY <2>1, AnswersKept DEF IInv
  <2> QED BY <2>2, <2>3, <2>4, <2>5, <2>6 DEF IInv
<1> QED BY <1>1, <1>2, <1>3, <1>4, <1>5, <1>6, <1>7, <1>8 DEF Next

(* The inductive invariant of Spec. *)
THEOREM InductiveInvariant == Spec => []IInv
<1> QED BY InitIInv, NextIInv, PTL DEF Spec

(* Type correctness. *)
THEOREM TypeCorrect == Spec => []TypeOK
<1>1. IInv => TypeOK
    BY DEF IInv
<1> QED BY <1>1, InductiveInvariant, PTL

-----------------------------------------------------------------------------
(* The properties.                                                          *)

(* apply_rate_limits lets no more requests of a minute through than the     *)
(* project's and the address's limits allow, nor the demo's visitors, and   *)
(* refuses none before the limit is used up, for any limits, addresses and  *)
(* forwarding headers, as long as a rate transaction ends in the minute     *)
(* after the one it began in (Tick).                                        *)
THEOREM RateHeldHolds == Spec => []RateHeld
<1>1. IInv => RateHeld
  <2> SUFFICES ASSUME IInv, NEW r \in Requests
               PROVE  LET most == IF r \in Demo THEN DemoLimit ELSE IpLimit
                          admitted == Admitted(bucket[r])
                          used == {s \in Requests : bucket[s] = bucket[r] /\ pc[s] \notin {"counting", "limited"}}
                      IN  /\ r \in admitted =>
                                 /\ Cardinality(admitted \ Demo) <= ProjectLimit
                                 /\ Cardinality(admitted \cap Neighbours(r)) <= most
                          /\ pc[r] = "limited" =>
                                 \/ r \notin Demo /\ Cardinality(used \ Demo) >= ProjectLimit
                                 \/ Cardinality(used \cap Neighbours(r)) >= most
      BY DEF RateHeld
  <2> DEFINE at == bucket[r]
             most == IF r \in Demo THEN DemoLimit ELSE IpLimit
             admitted == Admitted(at)
             used == {s \in Requests : bucket[s] = at /\ pc[s] \notin {"counting", "limited"}}
             project == <<"project", None, at>>
             own == IF r \in Demo THEN <<"demo", SourceIp(r), at>> ELSE <<"ip", SourceIp(r), at>>
  <2>1. ASSUME NEW s \in Requests, bucket[s] # None PROVE bucket[s] \in Nat /\ SourceIp(s) = Ip[s]
    <3>1. bucket[s] \in Nat /\ SourceIp(s) # None
        BY <2>1 DEF IInv, RequestsHold, RequestHolds, Permitted
    <3> QED BY <3>1, SourceIpIs
  <2>2. /\ Limit(project) = ProjectLimit /\ Limit(own) = most
        /\ project[3] = at /\ own[3] = at
        /\ \A s \in Requests : project \in Keys(s, at) <=> s \notin Demo
        /\ \A s \in Requests : own \in Keys(s, at) <=> (s \in Demo <=> r \in Demo) /\ SourceIp(s) = SourceIp(r)
    <3>1. Limit(project) = ProjectLimit /\ Limit(own) = most /\ project[3] = at /\ own[3] = at
        BY DEF Limit
    <3>2. ASSUME NEW s \in Requests
          PROVE  /\ project \in Keys(s, at) <=> s \notin Demo
                 /\ own \in Keys(s, at) <=> (s \in Demo <=> r \in Demo) /\ SourceIp(s) = SourceIp(r)
      <4>1. CASE s \in Demo
          BY <4>1, KeysAre
      <4>2. CASE s \notin Demo
          BY <4>2, KeysAre
      <4> QED BY <4>1, <4>2
    <3> QED BY <3>1, <3>2
  <2>3. ASSUME at # None
        PROVE  /\ AdmittedTo(project) = admitted \ Demo /\ CountedIn(project) = used \ Demo
               /\ AdmittedTo(own) = admitted \cap Neighbours(r) /\ CountedIn(own) = used \cap Neighbours(r)
    <3>1. \A s \in Requests : bucket[s] = at => (own \in Keys(s, at) <=> s \in Neighbours(r))
        BY <2>1, <2>2, <2>3 DEF Neighbours, Alike
    <3> HIDE DEF own, project
    <3>2. AdmittedTo(project) = admitted \ Demo /\ CountedIn(project) = used \ Demo
        BY <2>2 DEF AdmittedTo, CountedIn, Admitted
    <3>3. AdmittedTo(own) = admitted \cap Neighbours(r) /\ CountedIn(own) = used \cap Neighbours(r)
        BY <2>2, <3>1 DEF AdmittedTo, CountedIn, Admitted
    <3> QED BY <3>2, <3>3
  <2>4. ASSUME r \in admitted
        PROVE  /\ Cardinality(admitted \ Demo) <= ProjectLimit
               /\ Cardinality(admitted \cap Neighbours(r)) <= most
    <3>1. at # None /\ at \in Nat
        BY <2>1, <2>4 DEF Admitted, IInv, RequestsHold, RequestHolds
    <3>2. Cardinality(admitted \cap Neighbours(r)) <= most
      <4>1. own \in Keys(r, at)
          BY <2>2
      <4>2. CounterHolds(own)
          BY <3>1, <4>1 DEF IInv, CountersHold
      <4> HIDE DEF own, admitted
      <4> QED BY <2>2, <2>3, <3>1, <4>2 DEF CounterHolds
    <3>3. Cardinality(admitted \ Demo) <= ProjectLimit
      <4>1. CASE admitted \ Demo = {}
        <5>1. Cardinality({}) = 0 /\ ProjectLimit \in Nat
            BY FS_EmptySet, AdmissionAssumption
        <5> HIDE DEF admitted
        <5> QED BY <4>1, <5>1
      <4>2. CASE admitted \ Demo # {}
        <5>1. PICK s \in Requests : s \notin Demo
            BY <4>2 DEF Admitted
        <5>2. project \in Keys(s, at)
            BY <2>2, <5>1
        <5>3. CounterHolds(project)
            BY <3>1, <5>2 DEF IInv, CountersHold
        <5> HIDE DEF project, admitted
        <5> QED BY <2>2, <2>3, <3>1, <5>3 DEF CounterHolds
      <4> QED BY <4>1, <4>2
    <3> QED BY <3>2, <3>3
  <2>5. ASSUME pc[r] = "limited"
        PROVE  \/ r \notin Demo /\ Cardinality(used \ Demo) >= ProjectLimit
               \/ Cardinality(used \cap Neighbours(r)) >= most
    <3>1. at # None
        BY <2>5 DEF IInv, RequestsHold, RequestHolds
    <3>2. PICK k \in Keys(r, at) : Limit(k) <= Cardinality(CountedIn(k))
        BY <2>5 DEF IInv, RefusalsHold
    <3>3. (k = project /\ r \notin Demo) \/ k = own
        BY KeysAre
    <3>4. used \in SUBSET Requests
        OBVIOUS
    <3>5. Cardinality(used \ Demo) \in Nat /\ Cardinality(used \cap Neighbours(r)) \in Nat
        BY <3>4, Counting
    <3>6. ProjectLimit \in Nat /\ most \in Nat
        BY AdmissionAssumption
    <3> HIDE DEF project, own, used, most
    <3> QED BY <2>2, <2>3, <3>1, <3>2, <3>3, <3>5, <3>6
  <2> QED BY <2>4, <2>5
<1> QED BY <1>1, InductiveInvariant, PTL

(* What the cap buys. *)
LEMMA OverageIsPaid ==
    ASSUME NEW n \in Nat, NEW cap \in Nat \cup {None}, n > EventLimit, n <= PaidLimit(cap)
    PROVE  cap # None /\ cap * BlockEvents >= (n - EventLimit) * BlockCents
<1>1. EventLimit \in Nat /\ BlockCents \in Nat \ {0} /\ BlockEvents \in Nat
    BY AdmissionAssumption
<1>2. cap # None /\ cap \in Nat
    BY <1>1 DEF PaidLimit
<1> DEFINE blocks == cap \div BlockCents
           over == n - EventLimit
<1>3. blocks \in Nat /\ blocks * BlockCents <= cap
    BY <1>1, <1>2
<1>4. over \in Nat /\ over <= blocks * BlockEvents
    BY <1>1, <1>2 DEF PaidLimit
<1> HIDE DEF blocks, over
<1>5. over * BlockCents <= (blocks * BlockEvents) * BlockCents
  <2> DEFINE paid == blocks * BlockEvents
  <2>1. paid \in Nat /\ over <= paid
      BY <1>1, <1>3, <1>4
  <2> HIDE DEF paid
  <2>2. over * BlockCents <= paid * BlockCents
      BY <1>1, <1>4, <2>1
  <2> QED BY <2>2 DEF paid
<1>6. (blocks * BlockEvents) * BlockCents = (blocks * BlockCents) * BlockEvents
    BY <1>1, <1>3
<1>7. (blocks * BlockCents) * BlockEvents <= cap * BlockEvents
  <2> DEFINE cents == blocks * BlockCents
  <2>1. cents \in Nat /\ cents <= cap
      BY <1>1, <1>3
  <2> HIDE DEF cents
  <2>2. cents * BlockEvents <= cap * BlockEvents
      BY <1>1, <1>2, <2>1
  <2> QED BY <2>2 DEF cents
<1>8. over * BlockCents \in Nat /\ cap * BlockEvents \in Nat /\ (blocks * BlockCents) * BlockEvents \in Nat
    BY <1>1, <1>2, <1>3, <1>4
<1>9. over * BlockCents <= cap * BlockEvents
    BY <1>5, <1>6, <1>7, <1>8
<1> QED BY <1>2, <1>8, <1>9 DEF over

(* record_acceptance, admission_for_event and the rereading after a lost    *)
(* race tell everybody the same of an event, whatever update_usage does in  *)
(* between, and an event is called overage only under a version whose cap   *)
(* pays for it.                                                             *)
THEOREM AnswersAgreeHolds == Spec => []AnswersAgree
<1>1. IInv => AnswersAgree
  <2> SUFFICES ASSUME IInv, NEW r \in Requests, answer[r] # None
               PROVE  /\ \A s \in Requests : answer[s] # None /\ answer[s].event = answer[r].event =>
                             answer[s] = answer[r]
                      /\ LET u == answer[r].usage.row
                             cap == policy[u.version].cap
                         IN  (u.outcome = "overage") =>
                                 (cap # None /\ cap * BlockEvents >= (u.number - EventLimit) * BlockCents)
      BY DEF AnswersAgree
  <2>1. PICK e \in DOMAIN event : answer[r] = [event |-> e, usage |-> Told(event[e])]
      BY DEF IInv, AnswersHold, Admission, Told
  <2>2. ASSUME NEW s \in Requests, answer[s] # None, answer[s].event = answer[r].event
        PROVE  answer[s] = answer[r]
    <3>1. PICK f \in DOMAIN event : answer[s] = [event |-> f, usage |-> Told(event[f])]
        BY <2>2 DEF IInv, AnswersHold, Admission, Told
    <3>2. e = f
        BY <2>1, <2>2, <3>1
    <3> QED BY <2>1, <3>1, <3>2
  <2> DEFINE u == event[e]
             cap == policy[u.version].cap
  <2>3. answer[r].usage.row = u
      BY <2>1 DEF Told
  <2>4. ASSUME u.outcome = "overage"
        PROVE  cap # None /\ cap * BlockEvents >= (u.number - EventLimit) * BlockCents
    <3>1. u \in Row /\ u.number \in Nat
        BY DEF IInv, TypeOK, Row
    <3>2. u.version \in 1 .. Len(policy) /\ u.outcome = AdmissionOutcome(u.number, cap)
        BY DEF IInv, OutcomesHold, OutcomeHolds
    <3>3. cap \in Nat \cup {None}
      <4>1. policy[u.version] \in Settings
          BY <3>2 DEF IInv, TypeOK
      <4> QED BY <4>1, AdmissionAssumption
    <3> HIDE DEF u, cap
    <3>4. PolicyOutcome(u.number, cap) = "overage"
        BY <2>4, <3>2 DEF AdmissionOutcome
    <3>5. u.number > EventLimit /\ u.number <= PaidLimit(cap)
        BY <3>4 DEF PolicyOutcome
    <3> QED BY <3>1, <3>3, <3>5, OverageIsPaid
  <2> QED BY <2>2, <2>3, <2>4
<1> QED BY <1>1, InductiveInvariant, PTL

LEMMA WithinPlan ==
    ASSUME NEW n \in Nat, NEW cap \in Nat \cup {None}, n <= EventLimit
    PROVE  PolicyOutcome(n, cap) = "standard"
<1>1. EventLimit \in Nat /\ BlockCents \in Nat \ {0} /\ BlockEvents \in Nat
    BY AdmissionAssumption
<1>2. PaidLimit(cap) \in Int /\ PaidLimit(cap) >= EventLimit
  <2>1. CASE cap = None
      BY <1>1, <2>1 DEF PaidLimit
  <2>2. CASE cap # None
    <3> DEFINE blocks == cap \div BlockCents
    <3>1. blocks \in Nat
        BY <1>1, <2>2
    <3> HIDE DEF blocks
    <3>2. blocks * BlockEvents \in Nat
        BY <1>1, <3>1
    <3> QED BY <1>1, <2>2, <3>2 DEF PaidLimit, blocks
  <2> QED BY <2>1, <2>2
<1>3. ~(n > EventLimit) /\ ~(n > PaidLimit(cap))
    BY <1>1, <1>2
<1> QED BY <1>3 DEF PolicyOutcome

(* record_acceptance numbers the events of a month without a gap and none   *)
(* twice, whoever races whom across the end of the month, and none is       *)
(* sampled before the plan's events are used up.                            *)
THEOREM MonthsNumberedHolds == Spec => []MonthsNumbered
<1>1. IInv => MonthsNumbered
  <2> SUFFICES ASSUME IInv, NEW m \in 0 .. (LastMinute \div MonthMinutes)
               PROVE  LET of == {r \in DOMAIN event : event[r].cycle = m}
                      IN  /\ {event[r].number : r \in of} = 1 .. Cardinality(of)
                          /\ Get(counter, m) = Cardinality(of)
                          /\ \A r \in of : event[r].outcome = "sampling" =>
                                 Cardinality({s \in of : event[s].outcome = "standard"}) >= EventLimit
      BY DEF MonthsNumbered
  <2> DEFINE of == EventsOf(m)
             standard == {s \in of : event[s].outcome = "standard"}
  <2>1. m \in Nat
      BY AdmissionAssumption
  <2>2. MonthHolds(m) /\ of \in SUBSET Requests /\ EventLimit \in Nat
      BY <2>1, AdmissionAssumption DEF IInv, MonthsHold, TypeOK, EventsOf
  <2>3. Cardinality(of) \in Nat /\ IsFiniteSet(standard) /\ Cardinality(standard) \in Nat
    <3>1. standard \in SUBSET Requests
        BY <2>2
    <3> QED BY <2>2, <3>1, Counting
  <2>4. {event[r].number : r \in of} = 1 .. Cardinality(of) /\ Get(counter, m) = Cardinality(of)
    <3> HIDE DEF of
    <3> QED BY <2>2 DEF MonthHolds, of
  <2>5. ASSUME NEW r \in of, event[r].outcome = "sampling"
        PROVE  Cardinality(standard) >= EventLimit
    <3>1. \A x \in of : event[x].number \in Nat /\ x \in DOMAIN event
      <4>1. \A x \in of : x \in DOMAIN event
          BY DEF EventsOf
      <4>2. \A x \in DOMAIN event : event[x] \in Row
          BY DEF IInv, TypeOK
      <4>3. \A u \in Row : u.number \in Nat
          BY DEF Row
      <4> QED BY <4>1, <4>2, <4>3
    <3>2. \A x \in of : event[x].outcome = AdmissionOutcome(event[x].number, policy[event[x].version].cap)
      <4>1. \A x \in DOMAIN event : OutcomeHolds(x)
          BY DEF IInv, OutcomesHold
      <4> HIDE DEF of
      <4> QED BY <3>1, <4>1 DEF OutcomeHolds
    <3>3. enforced /\ ~(event[r].number <= EventLimit)
        BY <2>5, <3>2 DEF AdmissionOutcome, PolicyOutcome
    <3>4. \A x \in of : event[x].number <= EventLimit => event[x].outcome = "standard"
      <4> SUFFICES ASSUME NEW x \in of, event[x].number <= EventLimit
                   PROVE  event[x].outcome = "standard"
          OBVIOUS
      <4> DEFINE n == event[x].number
                 cap == policy[event[x].version].cap
      <4>1. n \in Nat /\ n <= EventLimit /\ event[x].outcome = AdmissionOutcome(n, cap)
          BY <3>1, <3>2
      <4>2. cap \in Nat \cup {None}
        <5>1. event[x].version \in 1 .. Len(policy)
            BY <3>1 DEF IInv, OutcomesHold, OutcomeHolds
        <5>2. policy[event[x].version] \in Settings
            BY <5>1 DEF IInv, TypeOK
        <5> QED BY <5>2, AdmissionAssumption
      <4> HIDE DEF n, cap
      <4>3. PolicyOutcome(n, cap) = "standard"
          BY <4>1, <4>2, WithinPlan
      <4> QED BY <3>3, <4>1, <4>3 DEF AdmissionOutcome
    <3>5. \A i \in 1 .. EventLimit : i \in 1 .. Cardinality(of)
        BY <2>2, <2>3, <3>1, <3>3 DEF MonthHolds
    <3>6. \A i \in 1 .. EventLimit : \E x \in standard : event[x].number = i
      <4> TAKE i \in 1 .. EventLimit
      <4>1. PICK x \in of : event[x].number = i
          BY <2>2, <3>5 DEF MonthHolds
      <4> QED BY <2>2, <3>4, <4>1
    <3> DEFINE f == [i \in 1 .. EventLimit |-> CHOOSE x \in standard : event[x].number = i]
    <3>7. \A i \in 1 .. EventLimit : f[i] \in standard /\ event[f[i]].number = i
        BY <3>6
    <3>8. f \in [1 .. EventLimit -> standard]
        BY <3>7
    <3> HIDE DEF f, standard
    <3>9. f \in Injection(1 .. EventLimit, standard)
        BY <3>7, <3>8 DEF Injection, IsInjective
    <3>10. Cardinality(1 .. EventLimit) <= Cardinality(standard)
        BY <2>3, <3>9, FS_Injection
    <3>11. Cardinality(1 .. EventLimit) = EventLimit
        BY <2>2, FS_Interval
    <3> QED BY <2>2, <2>3, <3>10, <3>11
  <2> QED BY <2>4, <2>5 DEF EventsOf
<1> QED BY <1>1, InductiveInvariant, PTL

-----------------------------------------------------------------------------
(* Processor: whatever other workers, sweeps and faults do, a run that was  *)
(* left alone has what it works with, quarantines only what is refused and  *)
(* groups every report of a crash alike.                                    *)

(* A sequence, of whatever it lists.                                        *)
IsSequence(s) == s \in Seq(Range(s))

(* Other numbers in a text leave its template alone (normalize_template).   *)
LEMMA NormalizeRenamed ==
    ASSUME NEW text, IsSequence(text)
    PROVE  /\ NormalizeTemplate(Renamed(text)) = NormalizeTemplate(text)
           /\ Len(Renamed(text)) = Len(text)
           /\ Renamed(text) = <<>> <=> text = <<>>
<1> DEFINE r == Renamed(text)
<1>1. Len(text) \in Nat /\ DOMAIN text = 1 .. Len(text)
    BY DEF IsSequence
<1>2. r \in Seq({r[i] : i \in 1 .. Len(text)}) /\ Len(r) = Len(text)
    BY <1>1 DEF Renamed
<1>3. ASSUME NEW i \in 1 .. Len(text)
      PROVE  /\ r[i] \in DOMAIN VariableWords <=> text[i] \in DOMAIN VariableWords
             /\ text[i] \in DOMAIN VariableWords =>
                    VariableWords[r[i]] = VariableWords[text[i]]
             /\ text[i] \notin DOMAIN VariableWords => r[i] = text[i]
    <2>1. CASE text[i] \in DOMAIN VariableWords
        <3> DEFINE w == CHOOSE w \in DOMAIN VariableWords :
                            VariableWords[w] = VariableWords[text[i]]
        <3>1. w \in DOMAIN VariableWords /\ VariableWords[w] = VariableWords[text[i]]
            BY <2>1
        <3>2. r[i] = w
            BY <1>3, <2>1 DEF Renamed
        <3> QED
            BY <2>1, <3>1, <3>2
    <2>2. CASE text[i] \notin DOMAIN VariableWords
        BY <2>2 DEF Renamed
    <2> QED
        BY <2>1, <2>2
<1>4. NormalizeTemplate(r) = NormalizeTemplate(text)
    <2> HIDE DEF r
    <2>1. ASSUME NEW i \in 1 .. Len(text)
          PROVE  (IF r[i] \in DOMAIN VariableWords THEN VariableWords[r[i]] ELSE r[i])
                 = (IF text[i] \in DOMAIN VariableWords THEN VariableWords[text[i]] ELSE text[i])
        BY <1>3
    <2> QED
        BY <1>2, <2>1 DEF NormalizeTemplate
<1>5. r = <<>> <=> text = <<>>
    BY <1>1, <1>2 DEF IsSequence
<1> QED
    BY <1>2, <1>4, <1>5

(* module_identities looks only at which modules are listed, not where.      *)
LEMMA IdentitiesOfListed ==
    ASSUME NEW modules, NEW other, NEW name,
           \A j \in 1 .. Len(other) : \E k \in 1 .. Len(modules) : other[j] = modules[k],
           \A k \in 1 .. Len(modules) : \E j \in 1 .. Len(other) : modules[k] = other[j]
    PROVE  ModuleIdentity(other, name) = ModuleIdentity(modules, name)
<1>1. \A id \in ModuleIdentity(other, name) : id \in ModuleIdentity(modules, name)
    BY DEF ModuleIdentity
<1>2. \A id \in ModuleIdentity(modules, name) : id \in ModuleIdentity(other, name)
    BY DEF ModuleIdentity
<1> QED
    BY <1>1, <1>2

(* The order and the repetition of modules leave their identities alone.    *)
LEMMA IdentitiesReversed ==
    ASSUME NEW S, NEW modules \in Seq(S), NEW name
    PROVE  /\ ModuleIdentity(Reverse(modules), name) = ModuleIdentity(modules, name)
           /\ ModuleIdentity(modules \o modules, name) = ModuleIdentity(modules, name)
<1> DEFINE n == Len(modules)
           reversed == Reverse(modules)
           double == modules \o modules
<1>1. n \in Nat
    OBVIOUS
<1>2. Len(reversed) = n /\ \A i \in 1 .. n : reversed[i] = modules[(n - i) + 1]
    BY DEF Reverse
<1>3. \A i \in 1 .. n : (n - i) + 1 \in 1 .. n /\ (n - ((n - i) + 1)) + 1 = i
    BY <1>1
<1>4. /\ Len(double) = n + n
      /\ \A i \in 1 .. n + n : double[i] = IF i <= n THEN modules[i] ELSE modules[i - n]
    OBVIOUS
<1>5. /\ \A i \in 1 .. n + n : i <= n => i \in 1 .. n
      /\ \A i \in 1 .. n + n : ~(i <= n) => i - n \in 1 .. n
      /\ \A i \in 1 .. n : i \in 1 .. n + n /\ i <= n
    BY <1>1
<1> HIDE DEF n, reversed, double
<1>6. ModuleIdentity(reversed, name) = ModuleIdentity(modules, name)
    <2>1. \A j \in 1 .. Len(reversed) : \E k \in 1 .. n : reversed[j] = modules[k]
        BY <1>2, <1>3
    <2>2. \A k \in 1 .. n : \E j \in 1 .. Len(reversed) : modules[k] = reversed[j]
        <3>1. ASSUME NEW k \in 1 .. n
              PROVE  reversed[(n - k) + 1] = modules[k] /\ (n - k) + 1 \in 1 .. Len(reversed)
            BY <1>2, <1>3
        <3> QED
            BY <3>1
    <2> QED
        BY <2>1, <2>2, IdentitiesOfListed DEF n
<1>7. ModuleIdentity(double, name) = ModuleIdentity(modules, name)
    BY <1>4, <1>5, IdentitiesOfListed DEF n
<1> QED
    BY <1>6, <1>7 DEF reversed, double

(* frame_evidence depends on modules only through their identities.         *)
LEMMA EvidenceOfModules ==
    ASSUME NEW crash, NEW other,
           other.frames = crash.frames,
           \A name : ModuleIdentity(other.modules, name) = ModuleIdentity(crash.modules, name)
    PROVE  Evidence(other) = Evidence(crash)
<1>1. \A frame : FrameEvidence(frame, other.modules) = FrameEvidence(frame, crash.modules)
    BY DEF FrameEvidence
<1>2. [i \in 1 .. Len(crash.frames) |-> FrameEvidence(crash.frames[i], other.modules)]
      = [i \in 1 .. Len(crash.frames) |-> FrameEvidence(crash.frames[i], crash.modules)]
    BY <1>1
<1> QED
    BY <1>2 DEF Evidence

(* fingerprint depends on a crash only through what is hashed of it.        *)
LEMMA FingerprintOfSame ==
    ASSUME NEW crash, NEW other,
           other.type = crash.type, other.classification = crash.classification,
           other.platform = crash.platform,
           Evidence(other) = Evidence(crash),
           NormalizeTemplate(other.assertion) = NormalizeTemplate(crash.assertion),
           NormalizeTemplate(other.message) = NormalizeTemplate(crash.message),
           NormalizeTemplate(other.reason) = NormalizeTemplate(crash.reason)
    PROVE  Fingerprint(other) = Fingerprint(crash)
BY DEF Fingerprint, Normalized

-----------------------------------------------------------------------------
(* The values of the variables.                                             *)
PCs == {"none", "begin", "create", "start", "exec", "copy", "remove", "select", "publish",
        "drop", "settle", "ended", "dead"}
Verdicts == {"none", "ok", "transient", "resource", "deterministic", "dependency", "cancelled",
             "done"}
Runs == [pc : PCs, round : 1 .. 2, verdict : Verdicts, calm : BOOLEAN]
Boxes == {"none", "coming", "created", "running"}

ProcessorTypeOK ==
    /\ faults \in Nat
    /\ job \in [state : {"pending", "leased", "published", "failed", "quarantined"},
               holder : 0 .. MaxClaims, expired : BOOLEAN, resource : BOOLEAN]
    /\ run \in [Claims -> Runs]
    /\ box \in [Claims -> Boxes]
    /\ dir \in [Claims -> BOOLEAN]
    /\ sweep \in [pc : {"idle", "containers", "directories"}, todo : SUBSET Claims]

(* The input is one that ingest accepted, the outputs what is made of it.   *)
InputHolds ==
    /\ \E s \in Scenarios : input = s.input
    /\ Accepted(input)
    /\ output = [round \in 1 .. 2 |-> RunProcessor(input, round)]

(* What makes a run quarantine its job: no output, or one that is refused.  *)
RefusedOutput(round) ==
    \/ ~output[round].ok
    \/ /\ input.kind = "process_crash"
       /\ ~(output[round].expected /\ output[round].publishable)

RefusedInput == \E round \in 1 .. 2 : RefusedOutput(round)

(* Claims come in order, and a run publishes only an output that is there.  *)
RunHolds(c) ==
    /\ run[c].pc = "none" <=> job.holder < c
    /\ run[c].pc = "none" => run[c] = NoRun /\ box[c] = "none" /\ ~dir[c]
    /\ run[c].verdict = "ok" => output[run[c].round].ok
    /\ run[c].pc \in {"copy", "select", "publish"} => run[c].verdict = "ok"
    /\ run[c].pc = "select" => input.kind = "process_crash"

(* A calm run has its lease until its job needs nothing more, its           *)
(* directory from when it was made, its container while it is used; and if  *)
(* it is about to quarantine, its input was refused.                        *)
CalmHolds(c) ==
    /\ Active(c) \/ (run[c].pc = "drop" /\ run[c].verdict = "done")
    /\ run[c].pc \in {"create", "start", "exec", "copy", "remove", "select", "publish"} => dir[c]
    /\ run[c].pc \in {"begin", "create", "select", "publish"} => box[c] = "none"
    /\ run[c].pc = "start" => box[c] = "created"
    /\ run[c].pc \in {"exec", "copy", "remove"} => box[c] = "running"
    /\ run[c].verdict = "deterministic" => RefusedInput
    /\ run[c].verdict # "resource"

RunsHold == \A c \in Claims : RunHolds(c)

CalmRunsHold == \A c \in Claims : run[c].calm /\ Alive(c) => CalmHolds(c)

(* The run that quarantined, if it was calm, saw a refused output.          *)
QuarantineHolds ==
    job.state = "quarantined" => job.holder \in Claims /\ (run[job.holder].calm => RefusedInput)

(* The result is an output that was not refused, and the job is closed.     *)
ResultHolds ==
    result # <<>> =>
        /\ job.state = "published" /\ input.kind = "process_crash"
        /\ \E round \in 1 .. 2 :
              /\ output[round].ok /\ ~RefusedOutput(round)
              /\ result = <<[log |-> output[round].log, crash |-> output[round].crash]>>

ProcessorIInv ==
    /\ ProcessorTypeOK /\ InputHolds /\ RunsHold /\ CalmRunsHold
    /\ QuarantineHolds /\ ResultHolds

(* What Goto and Disturbed make of a run. *)
LEMMA GotoRun ==
    ASSUME run \in [Claims -> Runs], NEW c \in Claims, NEW next \in PCs, NEW verdict \in Verdicts,
           Goto(c, next, verdict)
    PROVE  /\ run' \in [Claims -> Runs]
           /\ run' = [run EXCEPT ![c] = [pc |-> next, round |-> run[c].round, verdict |-> verdict,
                                        calm |-> run[c].calm]]
<1> DEFINE r == [pc |-> next, round |-> run[c].round, verdict |-> verdict, calm |-> run[c].calm]
<1>1. run[c] \in Runs
    OBVIOUS
<1>2. r \in Runs
    BY <1>1 DEF Runs
<1>3. [run[c] EXCEPT !.pc = next, !.verdict = verdict] = r
    <2> DEFINE one == [run[c] EXCEPT !.pc = next]
    <2>1. one = [pc |-> next, round |-> run[c].round, verdict |-> run[c].verdict,
                 calm |-> run[c].calm]
        BY <1>1 DEF Runs
    <2> HIDE DEF one
    <2>2. [one EXCEPT !.verdict = verdict] = r
        BY <2>1
    <2> QED
        BY <2>2 DEF one
<1>4. run' = [run EXCEPT ![c] = [run[c] EXCEPT !.pc = next, !.verdict = verdict]]
    <2>1. [run EXCEPT ![c].pc = next][c] = [run[c] EXCEPT !.pc = next]
        OBVIOUS
    <2> QED
        BY <2>1 DEF Goto
<1> QED
    BY <1>2, <1>3, <1>4

LEMMA DisturbedRun ==
    ASSUME run \in [Claims -> Runs], NEW c \in Claims, NEW next \in PCs, NEW verdict \in Verdicts,
           Disturbed(c, next, verdict)
    PROVE  run' \in [Claims -> Runs]
<1> DEFINE one == [run EXCEPT ![c].pc = next]
           two == [one EXCEPT ![c].verdict = verdict]
<1>1. one \in [Claims -> Runs]
    BY DEF Runs
<1> HIDE DEF one
<1>2. two \in [Claims -> Runs]
    BY <1>1 DEF Runs
<1> HIDE DEF two
<1>3. [two EXCEPT ![c].calm = FALSE] \in [Claims -> Runs]
    BY <1>2 DEF Runs
<1> QED
    BY <1>3 DEF Disturbed, one, two

(* A step of one claim leaves the others alone. *)
OnlyOf(c) ==
    /\ \A d \in Claims \ {c} : run'[d] = run[d] /\ box'[d] = box[d] /\ dir'[d] = dir[d]
    /\ input' = input /\ output' = output

(* Another claim keeps its facts, if its lease is not taken from it.        *)
LEMMA OthersKeep ==
    ASSUME ProcessorIInv, NEW c \in Claims, OnlyOf(c), job'.holder = job.holder,
           NEW d \in Claims \ {c}, Active(d) => Active(d)'
    PROVE  RunHolds(d)' /\ (run'[d].calm /\ Alive(d)' => CalmHolds(d)')
<1>1. RunHolds(d) /\ (run[d].calm /\ Alive(d) => CalmHolds(d))
    BY DEF ProcessorIInv, RunsHold, CalmRunsHold
<1>2. run'[d] = run[d] /\ box'[d] = box[d] /\ dir'[d] = dir[d] /\ input' = input /\ output' = output
    BY DEF OnlyOf
<1>3. RunHolds(d)'
    BY <1>1, <1>2 DEF RunHolds, NoRun
<1>4. ASSUME run'[d].calm, Alive(d)'
      PROVE  CalmHolds(d)'
    <2>1. CalmHolds(d) /\ (Active(d) => Active(d)')
        BY <1>1, <1>2, <1>4 DEF Alive
    <2> QED
        BY <1>2, <2>1 DEF CalmHolds, RefusedInput, RefusedOutput
<1> QED
    BY <1>3, <1>4

(* A step of one claim that does not touch the job.                         *)
LEMMA StepOfOne ==
    ASSUME ProcessorIInv, NEW c \in Claims, OnlyOf(c), job' = job, result' = result,
           ProcessorTypeOK', RunHolds(c)', run'[c].calm /\ Alive(c)' => CalmHolds(c)',
           run'[c].calm => run[c].calm
    PROVE  ProcessorIInv'
<1>1. \A d \in Claims \ {c} : RunHolds(d)' /\ (run'[d].calm /\ Alive(d)' => CalmHolds(d)')
    BY OthersKeep DEF Active, Holds
<1>2. RunsHold' /\ CalmRunsHold'
    BY <1>1 DEF RunsHold, CalmRunsHold
<1>3. input' = input /\ output' = output
    BY DEF OnlyOf
<1>4. InputHolds' /\ ResultHolds'
    BY <1>3 DEF ProcessorIInv, InputHolds, ResultHolds, RefusedOutput
<1>5. QuarantineHolds'
    BY <1>3 DEF ProcessorIInv, QuarantineHolds, OnlyOf, RefusedInput, RefusedOutput
<1> QED
    BY <1>2, <1>4, <1>5 DEF ProcessorIInv

(* The attempt directory is made; a download may fail.                      *)
LEMMA BeginKeeps ==
    ASSUME ProcessorIInv, NEW c \in Claims, Begin(c)
    PROVE  ProcessorIInv'
<1>1. ProcessorTypeOK /\ RunHolds(c) /\ (run[c].calm /\ Alive(c) => CalmHolds(c))
    BY DEF ProcessorIInv, RunsHold, CalmRunsHold
<1>2. ProcessorTypeOK'
    <2>1. faults' \in Nat
        BY <1>1 DEF ProcessorTypeOK, Runs, Begin, Made, Goto, Disturbed, Fault
    <2>2. run' \in [Claims -> Runs]
        BY <1>1 DEF ProcessorTypeOK, Runs, PCs, Verdicts, Begin, Made, Goto, Disturbed, Fault
    <2>3. box' \in [Claims -> Boxes] /\ dir' \in [Claims -> BOOLEAN]
        BY <1>1 DEF ProcessorTypeOK, Runs, Boxes, Begin, Made, Goto, Disturbed, Fault
    <2>4. job' = job /\ sweep' = sweep
        BY DEF Begin
    <2> QED
        BY <1>1, <2>1, <2>2, <2>3, <2>4 DEF ProcessorTypeOK
<1>3. OnlyOf(c) /\ job' = job /\ result' = result
    BY <1>1 DEF ProcessorTypeOK, Runs, OnlyOf, Begin, Made, Goto, Disturbed, Fault
<1>4. RunHolds(c)' /\ (run'[c].calm => run[c].calm)
    BY <1>1, <1>3 DEF ProcessorTypeOK, Runs, OnlyOf, RunHolds, NoRun, Begin, Made, Goto, Disturbed, Fault
<1>5. ASSUME run'[c].calm, Alive(c)'
      PROVE  CalmHolds(c)'
    BY <1>1, <1>3, <1>5 DEF ProcessorTypeOK, Runs, OnlyOf, RunHolds, Alive, CalmHolds, Active, Holds,
           RefusedInput, RefusedOutput, Begin, Made, Goto, Disturbed, Fault
<1> QED
    BY <1>2, <1>3, <1>4, <1>5, StepOfOne

(* A calm run finds its directory and no container of its name.             *)
LEMMA CreateKeeps ==
    ASSUME ProcessorIInv, NEW c \in Claims, Create(c)
    PROVE  ProcessorIInv'
<1>1. ProcessorTypeOK /\ RunHolds(c) /\ (run[c].calm /\ Alive(c) => CalmHolds(c))
    BY DEF ProcessorIInv, RunsHold, CalmRunsHold
<1>2. ProcessorTypeOK'
    <2>1. faults' \in Nat
        BY <1>1 DEF ProcessorTypeOK, Runs, Create, Goto, Disturbed, Fault
    <2>2. run' \in [Claims -> Runs]
        <3>1. \/ \E next \in PCs, verdict \in Verdicts : Goto(c, next, verdict)
              \/ Disturbed(c, "remove", "transient")
            BY DEF Create, PCs, Verdicts
        <3>2. run \in [Claims -> Runs] /\ "remove" \in PCs /\ "transient" \in Verdicts
            BY <1>1 DEF ProcessorTypeOK, Runs, PCs, Verdicts
        <3> QED
            BY <3>1, <3>2, GotoRun, DisturbedRun
    <2>3. box' \in [Claims -> Boxes] /\ dir' \in [Claims -> BOOLEAN]
        BY <1>1 DEF ProcessorTypeOK, Runs, Boxes, Create, Goto, Disturbed, Fault
    <2>4. job' = job /\ sweep' = sweep
        BY DEF Create
    <2> QED
        BY <1>1, <2>1, <2>2, <2>3, <2>4 DEF ProcessorTypeOK
<1>3. OnlyOf(c) /\ job' = job /\ result' = result
    BY <1>1 DEF ProcessorTypeOK, Runs, OnlyOf, Create, Goto, Disturbed, Fault
<1>4. RunHolds(c)' /\ (run'[c].calm => run[c].calm)
    BY <1>1, <1>3 DEF ProcessorTypeOK, Runs, OnlyOf, RunHolds, NoRun, Create, Goto, Disturbed, Fault
<1>5. ASSUME run'[c].calm, Alive(c)'
      PROVE  CalmHolds(c)'
    BY <1>1, <1>3, <1>5 DEF ProcessorTypeOK, Runs, OnlyOf, RunHolds, Alive, CalmHolds, Active, Holds,
           RefusedInput, RefusedOutput, Create, Goto, Disturbed, Fault
<1> QED
    BY <1>2, <1>3, <1>4, <1>5, StepOfOne

(* Only a disturbed run has a creation that nobody waits for.               *)
LEMMA CreateLateKeeps ==
    ASSUME ProcessorIInv, NEW c \in Claims, CreateLate(c)
    PROVE  ProcessorIInv'
<1>1. ProcessorTypeOK /\ RunHolds(c) /\ (run[c].calm /\ Alive(c) => CalmHolds(c))
    BY DEF ProcessorIInv, RunsHold, CalmRunsHold
<1>2. ProcessorTypeOK'
    BY <1>1 DEF ProcessorTypeOK, Runs, PCs, Verdicts, Boxes, CreateLate
<1>3. OnlyOf(c) /\ job' = job /\ result' = result
    BY <1>1 DEF ProcessorTypeOK, Runs, OnlyOf, CreateLate
<1>4. RunHolds(c)' /\ (run'[c].calm => run[c].calm)
    BY <1>1, <1>3 DEF ProcessorTypeOK, Runs, OnlyOf, RunHolds, NoRun, CreateLate
<1>5. ASSUME run'[c].calm, Alive(c)'
      PROVE  CalmHolds(c)'
    BY <1>1, <1>3, <1>5 DEF ProcessorTypeOK, Runs, OnlyOf, RunHolds, Alive, CalmHolds, Active, Holds,
           RefusedInput, RefusedOutput, CreateLate
<1> QED
    BY <1>2, <1>3, <1>4, <1>5, StepOfOne

(* A calm run starts the container it created.                              *)
LEMMA StartKeeps ==
    ASSUME ProcessorIInv, NEW c \in Claims, Start(c)
    PROVE  ProcessorIInv'
<1>1. ProcessorTypeOK /\ RunHolds(c) /\ (run[c].calm /\ Alive(c) => CalmHolds(c))
    BY DEF ProcessorIInv, RunsHold, CalmRunsHold
<1>2. ProcessorTypeOK'
    <2>1. faults' \in Nat
        BY <1>1 DEF ProcessorTypeOK, Runs, Start, Goto, Disturbed, Fault
    <2>2. run' \in [Claims -> Runs]
        BY <1>1 DEF ProcessorTypeOK, Runs, PCs, Verdicts, Start, Goto, Disturbed, Fault
    <2>3. box' \in [Claims -> Boxes] /\ dir' \in [Claims -> BOOLEAN]
        BY <1>1 DEF ProcessorTypeOK, Runs, Boxes, Start, Goto, Disturbed, Fault
    <2>4. job' = job /\ sweep' = sweep
        BY DEF Start
    <2> QED
        BY <1>1, <2>1, <2>2, <2>3, <2>4 DEF ProcessorTypeOK
<1>3. OnlyOf(c) /\ job' = job /\ result' = result
    BY <1>1 DEF ProcessorTypeOK, Runs, OnlyOf, Start, Goto, Disturbed, Fault
<1>4. RunHolds(c)' /\ (run'[c].calm => run[c].calm)
    BY <1>1, <1>3 DEF ProcessorTypeOK, Runs, OnlyOf, RunHolds, NoRun, Start, Goto, Disturbed, Fault
<1>5. ASSUME run'[c].calm, Alive(c)'
      PROVE  CalmHolds(c)'
    BY <1>1, <1>3, <1>5 DEF ProcessorTypeOK, Runs, OnlyOf, RunHolds, Alive, CalmHolds, Active, Holds,
           RefusedInput, RefusedOutput, Start, Goto, Disturbed, Fault
<1> QED
    BY <1>2, <1>3, <1>4, <1>5, StepOfOne

(* A calm run has container and directory: only the program refuses.        *)
LEMMA ExecKeeps ==
    ASSUME ProcessorIInv, NEW c \in Claims, Exec(c)
    PROVE  ProcessorIInv'
<1>1. ProcessorTypeOK /\ RunHolds(c) /\ (run[c].calm /\ Alive(c) => CalmHolds(c))
    BY DEF ProcessorIInv, RunsHold, CalmRunsHold
<1>2. ProcessorTypeOK'
    BY <1>1 DEF ProcessorTypeOK, Runs, PCs, Verdicts, Boxes, Exec, Goto, Disturbed, Fault, Gone
<1>3. OnlyOf(c) /\ job' = job /\ result' = result
    BY <1>1 DEF ProcessorTypeOK, Runs, OnlyOf, Exec, Goto, Disturbed, Fault, Gone
<1>4. RunHolds(c)' /\ (run'[c].calm => run[c].calm)
    BY <1>1, <1>3 DEF ProcessorTypeOK, Runs, OnlyOf, RunHolds, NoRun, Exec, Goto, Disturbed, Fault, Gone
<1>5. ASSUME run'[c].calm, Alive(c)'
      PROVE  CalmHolds(c)'
    BY <1>1, <1>3, <1>5 DEF ProcessorTypeOK, Runs, OnlyOf, RunHolds, Alive, CalmHolds, Active, Holds,
           RefusedInput, RefusedOutput, Exec, Goto, Disturbed, Fault, Gone
<1> QED
    BY <1>2, <1>3, <1>4, <1>5, StepOfOne

(* A calm run copies from its own container into its own directory.         *)
LEMMA CopyOutputKeeps ==
    ASSUME ProcessorIInv, NEW c \in Claims, CopyOutput(c)
    PROVE  ProcessorIInv'
<1>1. ProcessorTypeOK /\ RunHolds(c) /\ (run[c].calm /\ Alive(c) => CalmHolds(c))
    BY DEF ProcessorIInv, RunsHold, CalmRunsHold
<1>2. ProcessorTypeOK'
    <2>1. faults' \in Nat
        <3>1. faults' = faults \/ Fault
            BY DEF CopyOutput, Disturbed
        <3> QED
            BY <1>1, <3>1 DEF ProcessorTypeOK, Fault
    <2>2. run' \in [Claims -> Runs]
        BY <1>1 DEF ProcessorTypeOK, Runs, PCs, Verdicts, CopyOutput, Goto, Disturbed, Fault, Gone
    <2>3. job' = job /\ box' = box /\ dir' = dir /\ sweep' = sweep
        BY DEF CopyOutput
    <2> QED
        BY <1>1, <2>1, <2>2, <2>3 DEF ProcessorTypeOK
<1>3. OnlyOf(c) /\ job' = job /\ result' = result
    BY <1>1 DEF ProcessorTypeOK, Runs, OnlyOf, CopyOutput, Goto, Disturbed, Fault, Gone
<1>4. RunHolds(c)' /\ (run'[c].calm => run[c].calm)
    BY <1>1, <1>3 DEF ProcessorTypeOK, Runs, OnlyOf, RunHolds, NoRun, CopyOutput, Goto, Disturbed, Fault, Gone
<1>5. ASSUME run'[c].calm, Alive(c)'
      PROVE  CalmHolds(c)'
    BY <1>1, <1>3, <1>5 DEF ProcessorTypeOK, Runs, OnlyOf, RunHolds, Alive, CalmHolds, Active, Holds,
           RefusedInput, RefusedOutput, CopyOutput, Goto, Disturbed, Fault, Gone
<1> QED
    BY <1>2, <1>3, <1>4, <1>5, StepOfOne

(* The container of a calm run is gone before it selects or publishes.      *)
LEMMA RemoveContainerKeeps ==
    ASSUME ProcessorIInv, NEW c \in Claims, RemoveContainer(c)
    PROVE  ProcessorIInv'
<1>1. ProcessorTypeOK /\ RunHolds(c) /\ (run[c].calm /\ Alive(c) => CalmHolds(c))
    BY DEF ProcessorIInv, RunsHold, CalmRunsHold
<1>2. ProcessorTypeOK'
    <2>1. \E next \in {"select", "publish", "drop"} :
            Goto(c, next, run[c].verdict) \/ Disturbed(c, next, run[c].verdict)
        BY DEF RemoveContainer
    <2>2. /\ run \in [Claims -> Runs] /\ run[c].verdict \in Verdicts
          /\ {"select", "publish", "drop"} \subseteq PCs
        BY <1>1 DEF ProcessorTypeOK, Runs, PCs
    <2>3. run' \in [Claims -> Runs]
        BY <2>1, <2>2, GotoRun, DisturbedRun
    <2>4. faults' \in Nat /\ job' = job /\ dir' = dir /\ sweep' = sweep
        BY <1>1 DEF ProcessorTypeOK, RemoveContainer, Disturbed, Fault
    <2>5. box' \in [Claims -> Boxes]
        BY <1>1 DEF ProcessorTypeOK, Boxes, RemoveContainer, Removed
    <2> QED
        BY <1>1, <2>3, <2>4, <2>5 DEF ProcessorTypeOK
<1>3. OnlyOf(c) /\ job' = job /\ result' = result
    BY <1>1 DEF ProcessorTypeOK, Runs, OnlyOf, RemoveContainer, Removed, Goto, Disturbed, Fault
<1>4. RunHolds(c)' /\ (run'[c].calm => run[c].calm)
    BY <1>1, <1>3 DEF ProcessorTypeOK, Runs, OnlyOf, RunHolds, NoRun, RemoveContainer, Removed, Goto, Disturbed, Fault
<1>5. ASSUME run'[c].calm, Alive(c)'
      PROVE  CalmHolds(c)'
    BY <1>1, <1>3, <1>5 DEF ProcessorTypeOK, Runs, OnlyOf, RunHolds, Alive, CalmHolds, Active, Holds,
           RefusedInput, RefusedOutput, RemoveContainer, Removed, Goto, Disturbed, Fault
<1> QED
    BY <1>2, <1>3, <1>4, <1>5, StepOfOne

(* Without a container, a calm run may start its second round.              *)
LEMMA SelectKeeps ==
    ASSUME ProcessorIInv, NEW c \in Claims, Select(c)
    PROVE  ProcessorIInv'
<1>1. ProcessorTypeOK /\ RunHolds(c) /\ (run[c].calm /\ Alive(c) => CalmHolds(c))
    BY DEF ProcessorIInv, RunsHold, CalmRunsHold
<1>2. ProcessorTypeOK'
    <2>1. faults' \in Nat
        BY <1>1 DEF ProcessorTypeOK, Select, Fault
    <2>2. run' \in [Claims -> Runs]
        BY <1>1 DEF ProcessorTypeOK, Runs, PCs, Verdicts, Select, Goto, Fault
    <2>3. job' = job /\ box' = box /\ dir' = dir /\ sweep' = sweep
        BY DEF Select
    <2> QED
        BY <1>1, <2>1, <2>2, <2>3 DEF ProcessorTypeOK
<1>3. OnlyOf(c) /\ job' = job /\ result' = result
    BY <1>1 DEF ProcessorTypeOK, Runs, OnlyOf, Select, Goto, Fault
<1>4. RunHolds(c)' /\ (run'[c].calm => run[c].calm)
    BY <1>1, <1>3 DEF ProcessorTypeOK, Runs, OnlyOf, RunHolds, NoRun, Select, Goto, Fault
<1>5. ASSUME run'[c].calm, Alive(c)'
      PROVE  CalmHolds(c)'
    BY <1>1, <1>3, <1>5 DEF ProcessorTypeOK, Runs, OnlyOf, RunHolds, Alive, CalmHolds, Active, Holds,
           RefusedInput, RefusedOutput, Select, Goto, Fault
<1> QED
    BY <1>2, <1>3, <1>4, <1>5, StepOfOne

(* The run is settled or, if its job needs nothing more, ended.             *)
LEMMA DropKeeps ==
    ASSUME ProcessorIInv, NEW c \in Claims, Drop(c)
    PROVE  ProcessorIInv'
<1> DEFINE ended == [pc |-> "ended", round |-> 1, verdict |-> "none", calm |-> run[c].calm]
           settled == [pc |-> "settle", round |-> run[c].round, verdict |-> run[c].verdict,
                       calm |-> run[c].calm]
<1>1. ProcessorTypeOK /\ RunHolds(c) /\ (run[c].calm /\ Alive(c) => CalmHolds(c))
    BY DEF ProcessorIInv, RunsHold, CalmRunsHold
<1>2. run[c] \in Runs
    BY <1>1 DEF ProcessorTypeOK
<1>3. PICK r \in {ended, settled} :
        /\ run' = [run EXCEPT ![c] = r]
        /\ r = settled => run[c].verdict # "done"
    <2>1. CASE run[c].verdict = "done"
        BY <2>1 DEF Drop, End, NoRun
    <2>2. CASE run[c].verdict # "done"
        <3>1. Goto(c, "settle", run[c].verdict) /\ "settle" \in PCs /\ run[c].verdict \in Verdicts
            BY <1>2, <2>2 DEF Drop, PCs, Runs
        <3>2. run' = [run EXCEPT ![c] = settled]
            BY <3>1, <1>1, GotoRun DEF ProcessorTypeOK
        <3> QED
            BY <2>2, <3>2
    <2> QED
        BY <2>1, <2>2
<1>4. r \in Runs
    BY <1>2 DEF Runs, PCs, Verdicts
<1>5. run' \in [Claims -> Runs]
      /\ run'[c] = r /\ \A d \in Claims \ {c} : run'[d] = run[d]
    BY <1>1, <1>3, <1>4 DEF ProcessorTypeOK
<1>6. dir' \in [Claims -> BOOLEAN] /\ \A d \in Claims \ {c} : dir'[d] = dir[d]
    BY <1>1 DEF ProcessorTypeOK, Runs, Drop, Deleted
<1>7. input' = input /\ output' = output /\ faults' = faults /\ job' = job /\ result' = result
      /\ box' = box /\ sweep' = sweep /\ run[c].pc = "drop"
    BY DEF Drop
<1>8. ProcessorTypeOK'
    BY <1>1, <1>5, <1>6, <1>7 DEF ProcessorTypeOK
<1>9. OnlyOf(c)
    BY <1>5, <1>6, <1>7 DEF OnlyOf
<1>10. RunHolds(c)' /\ run'[c].calm = run[c].calm
    BY <1>1, <1>2, <1>3, <1>5, <1>7 DEF RunHolds
<1>11. ASSUME run'[c].calm, Alive(c)'
       PROVE  CalmHolds(c)'
    <2>1. r = settled
        BY <1>3, <1>5, <1>11 DEF Alive
    <2>2. CalmHolds(c) /\ run[c].verdict # "done"
        BY <1>1, <1>3, <1>5, <1>7, <1>11, <2>1 DEF Alive
    <2> QED
        BY <1>5, <1>7, <2>1, <2>2 DEF CalmHolds, Active, Holds, RefusedInput, RefusedOutput
<1> QED
    BY <1>7, <1>8, <1>9, <1>10, <1>11, StepOfOne

(* A run whose process died is not calm.                                    *)
LEMMA CrashKeeps ==
    ASSUME ProcessorIInv, NEW c \in Claims, Crash(c)
    PROVE  ProcessorIInv'
<1> DEFINE r == [NoRun EXCEPT !.pc = "dead", !.calm = FALSE]
<1>1. ProcessorTypeOK /\ RunHolds(c)
    BY DEF ProcessorIInv, RunsHold
<1>2. NoRun \in Runs /\ NoRun.verdict = "none"
    BY DEF NoRun, Runs, PCs, Verdicts
<1>3. r \in Runs /\ r.pc = "dead" /\ r.verdict = "none" /\ ~r.calm
    BY <1>2 DEF Runs, PCs, Verdicts
<1>4. run' \in [Claims -> Runs] /\ run'[c] = r /\ \A d \in Claims \ {c} : run'[d] = run[d]
    <2>1. run' = [run EXCEPT ![c] = r]
        BY DEF Crash
    <2> HIDE DEF r
    <2> QED
        BY <1>1, <1>3, <2>1 DEF ProcessorTypeOK
<1> HIDE DEF r
<1>5. box' \in [Claims -> Boxes] /\ \A d \in Claims \ {c} : box'[d] = box[d]
    BY <1>1 DEF ProcessorTypeOK, Runs, Crash, Interrupted, Boxes
<1>6. dir' \in [Claims -> BOOLEAN] /\ \A d \in Claims \ {c} : dir'[d] = dir[d]
    BY <1>1 DEF ProcessorTypeOK, Runs, Crash, Deleted
<1>7. input' = input /\ output' = output /\ faults' \in Nat /\ job' = job /\ result' = result
      /\ sweep' = sweep /\ Alive(c)
    BY <1>1 DEF Crash, Fault, ProcessorTypeOK
<1>8. ProcessorTypeOK'
    BY <1>1, <1>4, <1>5, <1>6, <1>7 DEF ProcessorTypeOK
<1>9. OnlyOf(c)
    BY <1>4, <1>5, <1>6, <1>7 DEF OnlyOf
<1>10. RunHolds(c)' /\ ~run'[c].calm
    BY <1>1, <1>3, <1>4, <1>7 DEF RunHolds, Alive
<1> QED
    BY <1>7, <1>8, <1>9, <1>10, StepOfOne

(* Neither is one that was shut down.                                       *)
LEMMA ShutdownKeeps ==
    ASSUME ProcessorIInv, NEW c \in Claims, Shutdown(c)
    PROVE  ProcessorIInv'
<1> DEFINE r == [NoRun EXCEPT !.pc = "remove", !.verdict = "cancelled", !.calm = FALSE]
<1>1. ProcessorTypeOK /\ RunHolds(c)
    BY DEF ProcessorIInv, RunsHold
<1>2. NoRun \in Runs
    BY DEF NoRun, Runs, PCs, Verdicts
<1>3. r \in Runs /\ r.pc = "remove" /\ r.verdict = "cancelled" /\ ~r.calm
    BY <1>2 DEF Runs, PCs, Verdicts
<1>4. run' \in [Claims -> Runs] /\ run'[c] = r /\ \A d \in Claims \ {c} : run'[d] = run[d]
    <2>1. run' = [run EXCEPT ![c] = r]
        BY DEF Shutdown
    <2> HIDE DEF r
    <2> QED
        BY <1>1, <1>3, <2>1 DEF ProcessorTypeOK
<1> HIDE DEF r
<1>5. box' \in [Claims -> Boxes] /\ \A d \in Claims \ {c} : box'[d] = box[d]
    BY <1>1 DEF ProcessorTypeOK, Runs, Shutdown, Interrupted, Boxes
<1>6. dir' \in [Claims -> BOOLEAN] /\ \A d \in Claims \ {c} : dir'[d] = dir[d]
    BY <1>1 DEF ProcessorTypeOK, Runs, Shutdown, Deleted
<1>7. input' = input /\ output' = output /\ faults' \in Nat /\ job' = job /\ result' = result
      /\ sweep' = sweep /\ Alive(c)
    BY <1>1 DEF Shutdown, Fault, ProcessorTypeOK
<1>8. ProcessorTypeOK'
    BY <1>1, <1>4, <1>5, <1>6, <1>7 DEF ProcessorTypeOK
<1>9. OnlyOf(c)
    BY <1>4, <1>5, <1>6, <1>7 DEF OnlyOf
<1>10. RunHolds(c)' /\ ~run'[c].calm
    BY <1>1, <1>3, <1>4, <1>7 DEF RunHolds, Alive
<1> QED
    BY <1>7, <1>8, <1>9, <1>10, StepOfOne

(* A sweep takes the container of no active lease, so of no calm run.       *)
LEMMA SweepContainerKeeps ==
    ASSUME ProcessorIInv, NEW c \in Claims, SweepContainer(c)
    PROVE  ProcessorIInv'
<1>1. ProcessorTypeOK /\ RunHolds(c) /\ (run[c].calm /\ Alive(c) => CalmHolds(c))
    BY DEF ProcessorIInv, RunsHold, CalmRunsHold
<1>2. ProcessorTypeOK'
    BY <1>1 DEF ProcessorTypeOK, Runs, PCs, Verdicts, Boxes, SweepContainer, Removed, Deleted, Stale
<1>3. OnlyOf(c) /\ job' = job /\ result' = result
    BY <1>1 DEF ProcessorTypeOK, Runs, OnlyOf, SweepContainer, Removed, Deleted, Stale
<1>4. RunHolds(c)' /\ (run'[c].calm => run[c].calm)
    BY <1>1, <1>3 DEF ProcessorTypeOK, Runs, OnlyOf, RunHolds, NoRun, SweepContainer, Removed, Deleted, Stale
<1>5. ASSUME run'[c].calm, Alive(c)'
      PROVE  CalmHolds(c)'
    BY <1>1, <1>3, <1>5 DEF ProcessorTypeOK, Runs, OnlyOf, RunHolds, Alive, CalmHolds, Active, Holds,
           RefusedInput, RefusedOutput, SweepContainer, Removed, Deleted, Stale
<1> QED
    BY <1>2, <1>3, <1>4, <1>5, StepOfOne

(* Nor its directory.                                                       *)
LEMMA SweepDirectoryKeeps ==
    ASSUME ProcessorIInv, NEW c \in Claims, SweepDirectory(c)
    PROVE  ProcessorIInv'
<1>1. ProcessorTypeOK /\ RunHolds(c) /\ (run[c].calm /\ Alive(c) => CalmHolds(c))
    BY DEF ProcessorIInv, RunsHold, CalmRunsHold
<1>2. ProcessorTypeOK'
    BY <1>1 DEF ProcessorTypeOK, Runs, PCs, Verdicts, Boxes, SweepDirectory, Deleted, Stale
<1>3. OnlyOf(c) /\ job' = job /\ result' = result
    BY <1>1 DEF ProcessorTypeOK, Runs, OnlyOf, SweepDirectory, Deleted, Stale
<1>4. RunHolds(c)' /\ (run'[c].calm => run[c].calm)
    BY <1>1, <1>3 DEF ProcessorTypeOK, Runs, OnlyOf, RunHolds, NoRun, SweepDirectory, Deleted, Stale
<1>5. ASSUME run'[c].calm, Alive(c)'
      PROVE  CalmHolds(c)'
    BY <1>1, <1>3, <1>5 DEF ProcessorTypeOK, Runs, OnlyOf, RunHolds, Alive, CalmHolds, Active, Holds,
           RefusedInput, RefusedOutput, SweepDirectory, Deleted, Stale
<1> QED
    BY <1>2, <1>3, <1>4, <1>5, StepOfOne

(* A step of one claim that may change the state of the job.                *)
LEMMA JobStep ==
    ASSUME ProcessorIInv, NEW c \in Claims, OnlyOf(c), job'.holder = job.holder,
           \A d \in Claims \ {c} : Active(d) => Active(d)',
           ProcessorTypeOK', RunHolds(c)', run'[c].calm /\ Alive(c)' => CalmHolds(c)',
           QuarantineHolds', ResultHolds'
    PROVE  ProcessorIInv'
<1>1. \A d \in Claims \ {c} : RunHolds(d)' /\ (run'[d].calm /\ Alive(d)' => CalmHolds(d)')
    BY OthersKeep
<1>2. RunsHold' /\ CalmRunsHold'
    BY <1>1 DEF RunsHold, CalmRunsHold
<1>3. InputHolds'
    BY DEF ProcessorIInv, InputHolds, OnlyOf
<1> QED
    BY <1>2, <1>3 DEF ProcessorIInv

(* Under a live run the lease lapses only if it is disturbed.               *)
LEMMA LapseKeeps ==
    ASSUME ProcessorIInv, NEW c \in Claims, Lapse(c)
    PROVE  ProcessorIInv'
<1>1. ProcessorTypeOK /\ RunHolds(c) /\ (run[c].calm /\ Alive(c) => CalmHolds(c))
    BY DEF ProcessorIInv, RunsHold, CalmRunsHold
<1>2. /\ job' = [state |-> "leased", holder |-> c, expired |-> TRUE, resource |-> job.resource]
      /\ job.holder = c /\ job.state = "leased" /\ job.resource \in BOOLEAN
    BY <1>1 DEF Lapse, Active, Holds, ProcessorTypeOK
<1>3. \/ Alive(c) /\ Disturbed(c, run[c].pc, run[c].verdict)
      \/ ~Alive(c) /\ faults' = faults /\ run' = run
    BY DEF Lapse
<1>4. run' \in [Claims -> Runs] /\ faults' \in Nat
    <2>1. run[c].pc \in PCs /\ run[c].verdict \in Verdicts
        BY <1>1 DEF ProcessorTypeOK, Runs
    <2>2. run \in [Claims -> Runs] /\ faults \in Nat
        BY <1>1 DEF ProcessorTypeOK
    <2>3. ASSUME Disturbed(c, run[c].pc, run[c].verdict)
          PROVE  run' \in [Claims -> Runs]
        BY <2>1, <2>2, <2>3, DisturbedRun
    <2>4. ASSUME Disturbed(c, run[c].pc, run[c].verdict)
          PROVE  faults' \in Nat
        BY <2>2, <2>4 DEF Disturbed, Fault
    <2> QED
        BY <1>3, <2>2, <2>3, <2>4
<1>5. /\ run'[c].pc = run[c].pc /\ run'[c].verdict = run[c].verdict /\ run'[c].round = run[c].round
      /\ Alive(c) => ~run'[c].calm
      /\ ~Alive(c) => run'[c] = run[c]
      /\ \A d \in Claims \ {c} : run'[d] = run[d]
    BY <1>1, <1>3 DEF ProcessorTypeOK, Runs, Disturbed
<1>6. OnlyOf(c) /\ box' = box /\ dir' = dir /\ result' = result
    BY <1>5 DEF OnlyOf, Lapse
<1>7. ProcessorTypeOK'
    <2>1. job' \in [state : {"pending", "leased", "published", "failed", "quarantined"},
                    holder : 0 .. MaxClaims, expired : BOOLEAN, resource : BOOLEAN]
        BY <1>2 DEF Claims
    <2> QED
        BY <1>1, <1>4, <1>6, <2>1 DEF ProcessorTypeOK, Lapse
<1>8. RunHolds(c)'
    <2>1. run'[c].pc # "none"
        BY <1>1, <1>2, <1>5 DEF RunHolds, Claims
    <2> QED
        BY <1>1, <1>2, <1>5, <1>6, <2>1 DEF RunHolds, OnlyOf, Claims
<1>9. ~(run'[c].calm /\ Alive(c)')
    BY <1>5 DEF Alive
<1>10. \A d \in Claims \ {c} : ~Active(d)
    BY <1>2 DEF Active, Holds
<1>11. QuarantineHolds' /\ ResultHolds'
    BY <1>2, <1>6 DEF QuarantineHolds, ResultHolds, ProcessorIInv
<1> QED
    BY <1>2, <1>6, <1>7, <1>8, <1>9, <1>10, <1>11, JobStep

(* The holder keeps what it has.                                            *)
LEMMA HeartbeatKeeps ==
    ASSUME ProcessorIInv, NEW c \in Claims, Heartbeat(c)
    PROVE  ProcessorIInv'
<1>1. ProcessorTypeOK /\ RunHolds(c) /\ (run[c].calm /\ Alive(c) => CalmHolds(c))
    BY DEF ProcessorIInv, RunsHold, CalmRunsHold
<1>2. /\ job' = [state |-> "leased", holder |-> c, expired |-> FALSE, resource |-> job.resource]
      /\ job.holder = c /\ job.state = "leased" /\ job.resource \in BOOLEAN
    BY <1>1 DEF Heartbeat, Holds, ProcessorTypeOK
<1>3. OnlyOf(c) /\ run' = run /\ box' = box /\ dir' = dir /\ result' = result
    BY DEF OnlyOf, Heartbeat
<1>4. ProcessorTypeOK'
    <2>1. job' \in [state : {"pending", "leased", "published", "failed", "quarantined"},
                    holder : 0 .. MaxClaims, expired : BOOLEAN, resource : BOOLEAN]
        BY <1>2 DEF Claims
    <2> QED
        BY <1>1, <2>1 DEF ProcessorTypeOK, Heartbeat
<1>5. RunHolds(c)'
    BY <1>1, <1>2, <1>3 DEF RunHolds, OnlyOf, NoRun
<1>6. run'[c].calm /\ Alive(c)' => CalmHolds(c)'
    BY <1>1, <1>2, <1>3 DEF Alive, CalmHolds, Active, Holds, RefusedInput, RefusedOutput, OnlyOf
<1>7. \A d \in Claims \ {c} : ~Active(d)
    BY <1>2 DEF Active, Holds
<1>8. QuarantineHolds' /\ ResultHolds'
    BY <1>2, <1>3 DEF QuarantineHolds, ResultHolds, ProcessorIInv
<1> QED
    BY <1>2, <1>3, <1>4, <1>5, <1>6, <1>7, <1>8, JobStep

(* A calm run that quarantines its job has seen its input refused.          *)
LEMMA FinishResultKeeps ==
    ASSUME ProcessorIInv, NEW c \in Claims, FinishResult(c)
    PROVE  ProcessorIInv'
<1> DEFINE r == [NoRun EXCEPT !.pc = "ended", !.calm = run[c].calm]
<1>1. ProcessorTypeOK /\ RunHolds(c) /\ (run[c].calm /\ Alive(c) => CalmHolds(c))
    BY DEF ProcessorIInv, RunsHold, CalmRunsHold
<1>2. NoRun \in Runs /\ NoRun.verdict = "none" /\ run[c].calm \in BOOLEAN
    BY <1>1 DEF NoRun, ProcessorTypeOK, Runs, PCs, Verdicts
<1>3. r \in Runs /\ r.pc = "ended" /\ r.verdict = "none" /\ r.calm = run[c].calm
    BY <1>2 DEF Runs, PCs, Verdicts
<1>4. run' \in [Claims -> Runs] /\ run'[c] = r /\ \A d \in Claims \ {c} : run'[d] = run[d]
    <2>1. run' = [run EXCEPT ![c] = r]
        BY DEF FinishResult, End
    <2> HIDE DEF r
    <2> QED
        BY <1>1, <1>3, <2>1 DEF ProcessorTypeOK
<1> HIDE DEF r
<1>5. OnlyOf(c) /\ box' = box /\ dir' = dir /\ result' = result /\ faults' = faults /\ sweep' = sweep
    BY <1>4 DEF OnlyOf, FinishResult
<1>6. \/ job' = job
      \/ /\ Holds(c)
         /\ \/ /\ run[c].verdict \in {"deterministic", "resource"} /\ Active(c)
               /\ job' = [job EXCEPT !.state = "quarantined"]
            \/ job' = [job EXCEPT !.state = "pending",
                                  !.resource = job.resource \/ run[c].verdict = "resource"]
            \/ job' = [job EXCEPT !.state = "failed"]
    BY DEF FinishResult, Hopeless, Active
<1>7. job' \in [state : {"pending", "leased", "published", "failed", "quarantined"},
                holder : 0 .. MaxClaims, expired : BOOLEAN, resource : BOOLEAN]
      /\ job'.holder = job.holder
    BY <1>1, <1>6 DEF ProcessorTypeOK
<1>8. ProcessorTypeOK'
    BY <1>1, <1>4, <1>5, <1>7 DEF ProcessorTypeOK
<1>9. RunHolds(c)'
    <2>1. run[c].pc = "settle"
        BY DEF FinishResult
    <2> QED
        BY <1>1, <1>3, <1>4, <1>7, <2>1 DEF RunHolds
<1>10. ~Alive(c)'
    BY <1>3, <1>4 DEF Alive
<1>11. \A d \in Claims \ {c} : Active(d) => Active(d)'
    BY <1>6 DEF Active, Holds
<1>12. QuarantineHolds'
    <2>1. CASE job' = job
        <3>1. job.holder \in Claims => (run'[job.holder].calm => run[job.holder].calm)
            BY <1>3, <1>4
        <3> QED
            BY <2>1, <3>1, <1>5 DEF ProcessorIInv, QuarantineHolds, OnlyOf, RefusedInput, RefusedOutput
    <2>2. CASE /\ run[c].verdict \in {"deterministic", "resource"} /\ Active(c)
               /\ job' = [job EXCEPT !.state = "quarantined"]
        <3>1. job'.holder = c
            BY <1>7, <2>2 DEF Active, Holds
        <3>2. run[c].calm => RefusedInput
            BY <1>1, <2>2 DEF FinishResult, Alive, CalmHolds
        <3> QED
            BY <1>3, <1>4, <1>5, <3>1, <3>2 DEF QuarantineHolds, OnlyOf, RefusedInput, RefusedOutput
    <2>3. CASE \/ job' = [job EXCEPT !.state = "pending",
                                     !.resource = job.resource \/ run[c].verdict = "resource"]
               \/ job' = [job EXCEPT !.state = "failed"]
        <3>1. job'.state # "quarantined"
            BY <1>1, <2>3 DEF ProcessorTypeOK
        <3> QED
            BY <3>1 DEF QuarantineHolds
    <2> QED
        BY <1>6, <2>1, <2>2, <2>3
<1>13. ResultHolds'
    <2>1. Holds(c) => result = <<>>
        BY DEF ProcessorIInv, ResultHolds, Holds
    <2> QED
        BY <1>5, <1>6, <2>1 DEF ProcessorIInv, ResultHolds, OnlyOf, RefusedOutput
<1> QED
    BY <1>5, <1>7, <1>8, <1>9, <1>10, <1>11, <1>12, <1>13, JobStep

(* What is published is an output that both checks let through.             *)
LEMMA PublishKeeps ==
    ASSUME ProcessorIInv, NEW c \in Claims, Publish(c)
    PROVE  ProcessorIInv'
<1> DEFINE out == output[run[c].round]
           refused == input.kind = "process_crash" /\ ~(out.expected /\ out.publishable)
           verdict == IF Active(c) /\ refused THEN "deterministic" ELSE "done"
<1>1. ProcessorTypeOK /\ RunHolds(c) /\ (run[c].calm /\ Alive(c) => CalmHolds(c))
    BY DEF ProcessorIInv, RunsHold, CalmRunsHold
<1>2. run[c] \in Runs /\ run[c].pc = "publish" /\ verdict \in Verdicts /\ "drop" \in PCs
    BY <1>1 DEF ProcessorTypeOK, Publish, Verdicts, PCs
<1>3. Goto(c, "drop", verdict)
    BY DEF Publish, Goto
<1>4. /\ job' = IF Active(c) /\ ~refused THEN [job EXCEPT !.state = "published"] ELSE job
      /\ result' = IF Active(c) /\ ~refused /\ input.kind = "process_crash"
                   THEN <<[log |-> out.log, crash |-> out.crash]>> ELSE result
    BY DEF Publish
<1>5. out.ok /\ (refused => RefusedInput) /\ (refused <=> RefusedOutput(run[c].round))
    <2>1. out.ok /\ run[c].round \in 1 .. 2
        BY <1>1, <1>2 DEF RunHolds, Runs
    <2> QED
        BY <2>1 DEF RefusedInput, RefusedOutput
<1> HIDE DEF out, refused, verdict
<1>6. /\ run' \in [Claims -> Runs]
      /\ run'[c].pc = "drop" /\ run'[c].round = run[c].round /\ run'[c].verdict = verdict
      /\ run'[c].calm = run[c].calm
      /\ \A d \in Claims \ {c} : run'[d] = run[d]
    <2>1. run \in [Claims -> Runs]
        BY <1>1 DEF ProcessorTypeOK
    <2>2. run' \in [Claims -> Runs] /\ \A d \in Claims \ {c} : run'[d] = run[d]
        BY <1>2, <1>3, <2>1, GotoRun
    <2>3. run'[c].pc = "drop" /\ run'[c].round = run[c].round /\ run'[c].verdict = verdict
          /\ run'[c].calm = run[c].calm
        BY <1>3, <2>1 DEF Goto, Runs
    <2> QED
        BY <2>2, <2>3
<1>7. OnlyOf(c) /\ box' = box /\ dir' = dir /\ faults' = faults /\ sweep' = sweep
    BY <1>6 DEF OnlyOf, Publish
<1>8. job' \in [state : {"pending", "leased", "published", "failed", "quarantined"},
                holder : 0 .. MaxClaims, expired : BOOLEAN, resource : BOOLEAN]
      /\ job'.holder = job.holder
    BY <1>1, <1>4 DEF ProcessorTypeOK
<1>9. ProcessorTypeOK'
    BY <1>1, <1>6, <1>7, <1>8 DEF ProcessorTypeOK
<1>10. RunHolds(c)'
    BY <1>1, <1>2, <1>6, <1>8 DEF RunHolds, verdict
<1>11. ASSUME run'[c].calm, Alive(c)'
       PROVE  CalmHolds(c)'
    <2>1. run[c].calm /\ Active(c)
        BY <1>1, <1>2, <1>6, <1>11 DEF Alive, CalmHolds
    <2>2. CASE refused
        <3>1. job' = job /\ RefusedInput'
            BY <1>4, <1>5, <1>7, <2>2 DEF OnlyOf, RefusedInput, RefusedOutput
        <3> QED
            BY <1>6, <2>1, <3>1 DEF CalmHolds, Active, Holds, verdict
    <2>3. CASE ~refused
        BY <1>6, <2>1, <2>3 DEF CalmHolds, verdict
    <2> QED
        BY <2>2, <2>3
<1>12. \A d \in Claims \ {c} : Active(d) => Active(d)'
    BY <1>4 DEF Active, Holds
<1>13. QuarantineHolds'
    <2>1. CASE job' = job
        <3>1. job.holder \in Claims => (run'[job.holder].calm => run[job.holder].calm)
            BY <1>6
        <3> QED
            BY <2>1, <3>1, <1>7 DEF ProcessorIInv, QuarantineHolds, OnlyOf, RefusedInput, RefusedOutput
    <2>2. CASE job' = [job EXCEPT !.state = "published"]
        <3>1. job'.state = "published"
            BY <1>1, <2>2 DEF ProcessorTypeOK
        <3> QED
            BY <3>1 DEF QuarantineHolds
    <2> QED
        BY <1>4, <2>1, <2>2
<1>14. ResultHolds'
    <2>1. CASE Active(c) /\ ~refused /\ input.kind = "process_crash"
        <3>1. job'.state = "published" /\ input' = input /\ output' = output
            BY <1>1, <1>4, <1>7, <2>1 DEF ProcessorTypeOK, OnlyOf
        <3>2. out.ok /\ ~RefusedOutput(run[c].round) /\ run[c].round \in 1 .. 2
            BY <1>2, <1>5, <2>1 DEF Runs
        <3>3. result' = <<[log |-> output[run[c].round].log, crash |-> output[run[c].round].crash]>>
            BY <1>4, <2>1 DEF out
        <3> QED
            BY <2>1, <3>1, <3>2, <3>3 DEF ResultHolds, RefusedOutput, out
    <2>2. CASE ~(Active(c) /\ ~refused /\ input.kind = "process_crash")
        <3>1. result' = result /\ (result # <<>> => job' = job)
            BY <1>4, <2>2 DEF ProcessorIInv, ResultHolds, Active, Holds
        <3> QED
            BY <3>1, <1>7 DEF ProcessorIInv, ResultHolds, OnlyOf, RefusedOutput
    <2> QED
        BY <2>1, <2>2
<1> QED
    BY <1>7, <1>8, <1>9, <1>10, <1>11, <1>12, <1>13, <1>14, JobStep

(* A claim is fresh, and no calm run holds the job it takes.                *)
LEMMA ClaimKeeps ==
    ASSUME ProcessorIInv, NEW c \in Claims, Claim(c)
    PROVE  ProcessorIInv'
<1>1. ProcessorTypeOK /\ RunHolds(c)
    BY DEF ProcessorIInv, RunsHold
<1>2. run[c] = NoRun /\ box[c] = "none" /\ ~dir[c] /\ c = job.holder + 1 /\ job.holder \in 0 .. MaxClaims
    BY <1>1 DEF RunHolds, Claim, Claims, ProcessorTypeOK
<1>3. /\ job' = [state |-> "leased", holder |-> c, expired |-> FALSE, resource |-> job.resource]
      /\ job.resource \in BOOLEAN
    BY <1>1 DEF Claim, ProcessorTypeOK
<1>4. run' \in [Claims -> Runs] /\ \A d \in Claims \ {c} : run'[d] = run[d]
    BY <1>1 DEF ProcessorTypeOK, Runs, PCs, Claim
<1>5. run'[c].pc = "begin" /\ run'[c].verdict = "none" /\ run'[c].round = 1
    BY <1>1, <1>2 DEF ProcessorTypeOK, Claim, NoRun
<1>6. input' = input /\ output' = output /\ faults' = faults /\ result' = result /\ box' = box
      /\ dir' = dir /\ sweep' = sweep
    BY DEF Claim
<1>7. ProcessorTypeOK'
    <2>1. job' \in [state : {"pending", "leased", "published", "failed", "quarantined"},
                    holder : 0 .. MaxClaims, expired : BOOLEAN, resource : BOOLEAN]
        BY <1>3 DEF Claims
    <2> QED
        BY <1>1, <1>4, <1>6, <2>1 DEF ProcessorTypeOK
<1>8. RunHolds(c)' /\ CalmHolds(c)'
    BY <1>2, <1>3, <1>5, <1>6 DEF RunHolds, CalmHolds, Active, Holds, Claims
<1>9. ASSUME NEW d \in Claims \ {c}
      PROVE  RunHolds(d)' /\ (run'[d].calm /\ Alive(d)' => CalmHolds(d)')
    <2>1. RunHolds(d) /\ (run[d].calm /\ Alive(d) => CalmHolds(d)) /\ ~Active(d)
        BY DEF ProcessorIInv, RunsHold, CalmRunsHold, Claim, Active, Holds
    <2>2. job.holder < d <=> job'.holder < d
        BY <1>2, <1>3 DEF Claims
    <2>3. RunHolds(d)'
        BY <1>4, <1>6, <2>1, <2>2 DEF RunHolds, NoRun
    <2>4. run'[d].calm /\ Alive(d)' => CalmHolds(d)'
        BY <1>4, <1>6, <2>1 DEF Alive, CalmHolds, RefusedInput, RefusedOutput
    <2> QED
        BY <2>3, <2>4
<1>10. InputHolds' /\ QuarantineHolds' /\ ResultHolds'
    <2>1. result = <<>>
        BY DEF ProcessorIInv, ResultHolds, Claim
    <2> QED
        BY <1>3, <1>6, <2>1 DEF ProcessorIInv, InputHolds, QuarantineHolds, ResultHolds
<1> QED
    BY <1>7, <1>8, <1>9, <1>10 DEF ProcessorIInv, RunsHold, CalmRunsHold

(* The other steps of a sweep only list.                                    *)
LEMMA SweepOrStutterKeeps ==
    ASSUME ProcessorIInv,
           SweepList \/ SweepAborts \/ SweepDirectories \/ SweepEnds \/ UNCHANGED processorVars
    PROVE  ProcessorIInv'
<1>1. input' = input /\ output' = output /\ job' = job /\ result' = result /\ run' = run
      /\ box' = box /\ dir' = dir
    BY DEF SweepList, SweepAborts, SweepDirectories, SweepEnds, processorVars
<1>2. ProcessorTypeOK'
    <2>1. faults' \in Nat /\ sweep' \in [pc : {"idle", "containers", "directories"}, todo : SUBSET Claims]
        BY DEF ProcessorIInv, ProcessorTypeOK, SweepList, SweepAborts, SweepDirectories, SweepEnds,
               processorVars, Fault, OwnedContainers
    <2> QED
        BY <1>1, <2>1 DEF ProcessorIInv, ProcessorTypeOK
<1>3. RunsHold'
    BY <1>1 DEF ProcessorIInv, RunsHold, RunHolds, NoRun
<1>4. CalmRunsHold'
    BY <1>1 DEF ProcessorIInv, CalmRunsHold, CalmHolds, Alive, Active, Holds, RefusedInput, RefusedOutput
<1>5. InputHolds' /\ QuarantineHolds' /\ ResultHolds'
    BY <1>1 DEF ProcessorIInv, InputHolds, QuarantineHolds, ResultHolds, RefusedInput, RefusedOutput
<1> QED
    BY <1>2, <1>3, <1>4, <1>5 DEF ProcessorIInv

(* The initial states.                                                      *)
LEMMA ProcessorInitHolds ==
    ASSUME ProcessorInit
    PROVE  ProcessorIInv
<1>1. PICK s \in Scenarios :
        /\ Accepted(s.input) /\ input = s.input
        /\ output = [round \in 1 .. 2 |-> RunProcessor(s.input, round)]
        /\ faults = s.faults
    BY DEF ProcessorInit
<1>2. /\ job = [state |-> "pending", holder |-> 0, expired |-> FALSE, resource |-> FALSE] /\ result = <<>>
      /\ run = [c \in Claims |-> NoRun] /\ box = [c \in Claims |-> "none"]
      /\ dir = [c \in Claims |-> FALSE] /\ sweep = [pc |-> "idle", todo |-> {}]
    BY DEF ProcessorInit
<1>3. ProcessorTypeOK
    <2>1. job \in [state : {"pending", "leased", "published", "failed", "quarantined"},
                   holder : 0 .. MaxClaims, expired : BOOLEAN, resource : BOOLEAN]
        BY <1>2, ProcessorAssumption
    <2>2. faults \in Nat
        BY <1>1, ProcessorAssumption
    <2>3. NoRun \in Runs
        BY DEF NoRun, Runs, PCs, Verdicts
    <2> QED
        BY <1>2, <2>1, <2>2, <2>3 DEF ProcessorTypeOK, Boxes
<1>4. InputHolds
    BY <1>1 DEF InputHolds
<1>5. RunsHold
    BY <1>2 DEF RunsHold, RunHolds, NoRun, Claims
<1>6. CalmRunsHold
    BY <1>2 DEF CalmRunsHold, Alive, NoRun
<1>7. QuarantineHolds /\ ResultHolds
    BY <1>2 DEF QuarantineHolds, ResultHolds
<1> QED
    BY <1>3, <1>4, <1>5, <1>6, <1>7 DEF ProcessorIInv

(* Every step.                                                              *)
LEMMA ProcessorStep ==
    ASSUME ProcessorIInv, [ProcessorNext]_processorVars
    PROVE  ProcessorIInv'
<1>1. ASSUME NEW c \in Claims, RunStep(c)
      PROVE  ProcessorIInv'
    BY <1>1, ClaimKeeps, BeginKeeps, CreateKeeps, StartKeeps, ExecKeeps, CopyOutputKeeps,
       RemoveContainerKeeps, SelectKeeps, PublishKeeps, DropKeeps, FinishResultKeeps DEF RunStep
<1>2. ASSUME NEW c \in Claims, CreateLate(c) \/ Lapse(c) \/ Heartbeat(c) \/ Crash(c) \/ Shutdown(c)
      PROVE  ProcessorIInv'
    BY <1>2, CreateLateKeeps, LapseKeeps, HeartbeatKeeps, CrashKeeps, ShutdownKeeps
<1>3. ASSUME SweepStep
      PROVE  ProcessorIInv'
    BY <1>3, SweepOrStutterKeeps, SweepContainerKeeps, SweepDirectoryKeeps DEF SweepStep
<1> QED
    BY <1>1, <1>2, <1>3, SweepOrStutterKeeps DEF ProcessorNext

(* The invariant holds, for any number of claims, workers and faults and    *)
(* any inputs.                                                              *)
THEOREM ProcessorInvariant == ProcessorSpec => []ProcessorIInv
BY ProcessorInitHolds, ProcessorStep, PTL DEF ProcessorSpec

-----------------------------------------------------------------------------
(* What the invariant says. *)

(* What the processor found of a crash.                                     *)
IsCrash(crash) ==
    /\ crash = [type |-> crash.type, classification |-> crash.classification,
                message |-> crash.message, platform |-> crash.platform,
                reason |-> crash.reason, assertion |-> crash.assertion,
                frames |-> crash.frames, modules |-> crash.modules]
    /\ IsSequence(crash.message) /\ IsSequence(crash.reason)
    /\ IsSequence(crash.assertion) /\ IsSequence(crash.modules)

(* A function from 1 .. n is a sequence. *)
LEMMA FunctionIsSeq ==
    ASSUME NEW S, NEW n \in Nat, NEW f \in [1 .. n -> S]
    PROVE  f \in Seq(S)
OBVIOUS

(* A redacted text is a text (redact_text).                                 *)
LEMMA RedactedText ==
    ASSUME NEW text, IsSequence(text), NEW rules
    PROVE  IsSequence(Redacted(text, rules))
<1> DEFINE n == Len(text)
           redacted == Redacted(text, rules)
<1>1. n \in Nat
    BY DEF IsSequence
<1>2. redacted \in [1 .. n -> Range(redacted)]
    BY DEF Redacted, Range
<1> QED
    BY <1>1, <1>2, FunctionIsSeq DEF IsSequence

(* An output that is there describes a crash, redacted or not.              *)
LEMMA FoundIsCrash ==
    ASSUME InputHolds, input.kind = "process_crash", NEW round \in 1 .. 2, output[round].ok
    PROVE  IsCrash(output[round].crash)
<1> DEFINE contexts == Contents(input.bundle, "context")
           dumps == Contents(input.bundle, "minidump")
           context == contexts[1].body
           dump == dumps[1].body
           found == Found(context, dump, round)
           out == ProcessCrash(input, round, ProcessingVersion, StoredResult(input))
<1>1. output[round] = Judged(input, out)
    BY DEF InputHolds, RunProcessor
<1>2. out.ok
    BY <1>1 DEF Judged
<1>3. contexts # <<>> /\ dumps # <<>> /\ dump.good /\ out.crash = found
    BY <1>2 DEF ProcessCrash
<1>4. /\ IsSequence(context.message) /\ IsSequence(dump.reason)
      /\ IsSequence(dump.assertion) /\ IsSequence(dump.modules)
    BY <1>3, TextsAssumption DEF InputHolds, IsSequence
<1>5. output[round].crash = RedactCrash(found, input.rules)
    <2> HIDE DEF out, found
    <2> QED
        BY <1>1, <1>2, <1>3 DEF Judged
<1> HIDE DEF context, dump
<1>6. found = [type |-> found.type, classification |-> found.classification,
               message |-> context.message, platform |-> found.platform,
               reason |-> dump.reason, assertion |-> dump.assertion,
               frames |-> found.frames, modules |-> dump.modules]
    BY DEF Found
<1> HIDE DEF found
<1>7. IsCrash(RedactCrash(found, input.rules))
    <2> DEFINE crash == RedactCrash(found, input.rules)
               one == [found EXCEPT !.message = Redacted(@, input.rules)]
               two == [one EXCEPT !.platform = Redacted(<<@>>, input.rules)[1]]
    <2>1. crash = [type |-> found.type, classification |-> found.classification,
                      message |-> Redacted(context.message, input.rules),
                      platform |-> crash.platform, reason |-> dump.reason,
                      assertion |-> dump.assertion, frames |-> crash.frames,
                      modules |-> dump.modules]
        <3>1. one = [type |-> found.type, classification |-> found.classification,
                     message |-> Redacted(context.message, input.rules),
                     platform |-> found.platform, reason |-> dump.reason,
                     assertion |-> dump.assertion, frames |-> found.frames,
                     modules |-> dump.modules]
            BY <1>6
        <3> HIDE DEF one
        <3>2. two = [type |-> found.type, classification |-> found.classification,
                     message |-> Redacted(context.message, input.rules),
                     platform |-> two.platform, reason |-> dump.reason,
                     assertion |-> dump.assertion, frames |-> found.frames,
                     modules |-> dump.modules]
            BY <3>1
        <3>3. crash = [two EXCEPT !.frames =
                          [i \in DOMAIN @ |-> [@[i] EXCEPT !.source = Redacted(@, input.rules)]]]
            BY DEF RedactCrash, one
        <3> HIDE DEF two
        <3>4. \A frames : LET c == [two EXCEPT !.frames = frames]
                          IN  c = [type |-> found.type, classification |-> found.classification,
                                   message |-> Redacted(context.message, input.rules),
                                   platform |-> c.platform, reason |-> dump.reason,
                                   assertion |-> dump.assertion, frames |-> c.frames,
                                   modules |-> dump.modules]
            BY <3>2
        <3> HIDE DEF crash
        <3> QED
            BY <3>3, <3>4
    <2> HIDE DEF crash
    <2>2. IsSequence(Redacted(context.message, input.rules))
        BY <1>4, RedactedText
    <2>3. crash.message = Redacted(context.message, input.rules) /\ crash.reason = dump.reason
          /\ crash.assertion = dump.assertion /\ crash.modules = dump.modules
          /\ crash.type = found.type /\ crash.classification = found.classification
        BY <2>1
    <2>4. IsCrash(crash)
        BY <1>4, <2>1, <2>2, <2>3 DEF IsCrash
    <2> QED
        BY <2>4 DEF crash
<1> QED
    BY <1>5, <1>7

(* The same crash, reported with other numbers or modules in another        *)
(* order.                                                                   *)
LEMMA SameFingerprint ==
    ASSUME NEW crash, IsCrash(crash), NEW same \in SameCrash(crash)
    PROVE  Fingerprint(same) = Fingerprint(crash)
<1>1. \A name : /\ ModuleIdentity(Reverse(crash.modules), name) = ModuleIdentity(crash.modules, name)
                /\ ModuleIdentity(crash.modules \o crash.modules, name)
                     = ModuleIdentity(crash.modules, name)
    BY IdentitiesReversed DEF IsCrash, IsSequence
<1>2. ASSUME NEW modules, same = [crash EXCEPT !.modules = modules],
             \A name : ModuleIdentity(modules, name) = ModuleIdentity(crash.modules, name)
      PROVE  Fingerprint(same) = Fingerprint(crash)
    <2>1. /\ same.type = crash.type /\ same.classification = crash.classification
          /\ same.platform = crash.platform /\ same.assertion = crash.assertion
          /\ same.message = crash.message /\ same.reason = crash.reason
          /\ same.frames = crash.frames /\ same.modules = modules
        BY <1>2 DEF IsCrash
    <2>2. Evidence(same) = Evidence(crash)
        BY <1>2, <2>1, EvidenceOfModules
    <2> QED
        BY <2>1, <2>2, FingerprintOfSame
<1>3. CASE same = [crash EXCEPT !.message = Renamed(@), !.assertion = Renamed(@),
                                !.reason = Renamed(@)]
    <2>1. /\ same.type = crash.type /\ same.classification = crash.classification
          /\ same.platform = crash.platform /\ same.frames = crash.frames
          /\ same.modules = crash.modules
          /\ same.assertion = Renamed(crash.assertion) /\ same.message = Renamed(crash.message)
          /\ same.reason = Renamed(crash.reason)
        BY <1>3 DEF IsCrash
    <2>2. Evidence(same) = Evidence(crash)
        BY <2>1, EvidenceOfModules
    <2>3. /\ NormalizeTemplate(same.assertion) = NormalizeTemplate(crash.assertion)
          /\ NormalizeTemplate(same.message) = NormalizeTemplate(crash.message)
          /\ NormalizeTemplate(same.reason) = NormalizeTemplate(crash.reason)
        BY <2>1, NormalizeRenamed DEF IsCrash
    <2> QED
        BY <2>1, <2>2, <2>3, FingerprintOfSame
<1> QED
    BY <1>1, <1>2, <1>3 DEF SameCrash

(* Two reports of one crash go to one issue and variant: the fingerprint    *)
(* does not depend on the order or repetition of the modules of the         *)
(* minidump, nor on the numbers and addresses in the texts (fingerprint,    *)
(* module_identities, normalize_template), whatever the limits on frames    *)
(* and the lists of modules and words.                                      *)
THEOREM ReportsGroupAlike == ProcessorSpec => []GroupingStable
<1>1. ProcessorIInv => GroupingStable
    <2> SUFFICES ASSUME ProcessorIInv, result # <<>>, NEW same \in SameCrash(result[1].crash)
                 PROVE  Fingerprint(same) = Fingerprint(result[1].crash)
        BY DEF GroupingStable
    <2>1. PICK round \in 1 .. 2 :
            /\ input.kind = "process_crash" /\ output[round].ok
            /\ result = <<[log |-> output[round].log, crash |-> output[round].crash]>>
        BY DEF ProcessorIInv, ResultHolds
    <2>2. IsCrash(output[round].crash)
        BY <2>1, FoundIsCrash DEF ProcessorIInv
    <2>3. result[1].crash = output[round].crash
        BY <2>1
    <2> QED
        BY <2>2, <2>3, SameFingerprint
<1> QED
    BY <1>1, ProcessorInvariant, PTL

(* The job, runs, containers, directories and sweeps keep their types.      *)
THEOREM ProcessorTypes == ProcessorSpec => []ProcessorTypeOK
<1>1. ProcessorIInv => ProcessorTypeOK
    BY DEF ProcessorIInv
<1> QED
    BY <1>1, ProcessorInvariant, PTL

(* A calm run has the lease, the directory and the container it works       *)
(* with.                                                                    *)
LiveRunsUndisturbed ==
    \A c \in Claims : run[c].calm =>
        /\ run[c].pc \in {"begin", "create", "start", "exec", "copy", "remove", "select", "publish",
                           "settle"} => Active(c)
        /\ run[c].pc \in {"create", "start", "exec", "copy", "remove", "select", "publish"} => dir[c]
        /\ run[c].pc = "start" => box[c] = "created"
        /\ run[c].pc \in {"exec", "copy", "remove"} => box[c] = "running"

(* Nobody takes the lease, the container or the attempt directory from      *)
(* under a live run whose lease never lapsed and whose docker commands      *)
(* succeeded: not a reconciliation by any worker (reconcile_containers),    *)
(* nor another claim, nor its own earlier round.                            *)
THEOREM RunsUndisturbed == ProcessorSpec => []LiveRunsUndisturbed
<1>1. ProcessorIInv => LiveRunsUndisturbed
    BY DEF ProcessorIInv, CalmRunsHold, CalmHolds, Alive, LiveRunsUndisturbed
<1> QED
    BY <1>1, ProcessorInvariant, PTL

(* A job that a calm run quarantined had its input refused.                 *)
CalmQuarantine == job.state = "quarantined" /\ run[job.holder].calm => RefusedInput

(* A job is quarantined by such a run only when the program refuses its     *)
(* input or makes of it what worker or grouping refuse.  For the jobs of    *)
(* artifacts that is QuarantineJustified; for crashes it is, if what is     *)
(* refused is unprocessable, which is a fact about the program's functions  *)
(* alone.                                                                   *)
THEOREM QuarantineIsRefusal ==
    /\ ProcessorSpec => []CalmQuarantine
    /\ ProcessorSpec => [](input.kind # "process_crash" => QuarantineJustified)
    /\ ProcessorSpec /\ [](RefusedInput => Unprocessable) => []QuarantineJustified
<1>1. ProcessorIInv => CalmQuarantine
    BY DEF ProcessorIInv, QuarantineHolds, CalmQuarantine
<1>2. CalmQuarantine /\ (RefusedInput => Unprocessable) => QuarantineJustified
    BY DEF CalmQuarantine, QuarantineJustified
<1>3. ProcessorIInv /\ input.kind # "process_crash" => (RefusedInput => Unprocessable)
    <2> SUFFICES ASSUME ProcessorIInv, input.kind # "process_crash", RefusedInput
                 PROVE  Unprocessable
        OBVIOUS
    <2>1. \A round \in 1 .. 2 : output[round] = [ok |-> input.valid]
        BY DEF ProcessorIInv, InputHolds, RunProcessor
    <2>2. ~input.valid
        BY <2>1 DEF RefusedInput, RefusedOutput
    <2> QED
        BY <2>2 DEF Unprocessable
<1>4. ProcessorIInv => (input.kind # "process_crash" => QuarantineJustified)
    BY <1>1, <1>2, <1>3
<1> QED
    BY <1>1, <1>2, <1>4, ProcessorInvariant, PTL

(* What was published stays: no later claim, late container or retry        *)
(* replaces it (publish_crash_result under lock_lease).                     *)
THEOREM PublishedOnce == ProcessorSpec => [][result # <<>> => result' = result]_processorVars
<1>1. ASSUME ProcessorIInv, ProcessorNext, result # <<>>
      PROVE  result' = result
    <2>1. job.state = "published"
        BY <1>1 DEF ProcessorIInv, ResultHolds
    <2>2. \A c \in Claims : Publish(c) => result' = result
        BY <2>1 DEF Publish, Active, Holds
    <2>3. ASSUME NEW c \in Claims, RunStep(c)
          PROVE  result' = result
        BY <2>2, <2>3 DEF RunStep, Claim, Begin, Create, Start, Exec, CopyOutput, RemoveContainer,
           Select, Drop, FinishResult
    <2>4. ASSUME NEW c \in Claims,
                 CreateLate(c) \/ Lapse(c) \/ Heartbeat(c) \/ Crash(c) \/ Shutdown(c)
          PROVE  result' = result
        BY <2>4 DEF CreateLate, Lapse, Heartbeat, Crash, Shutdown
    <2>5. SweepStep \/ SweepAborts => result' = result
        BY DEF SweepStep, SweepList, SweepDirectories, SweepEnds, SweepContainer, SweepDirectory,
           SweepAborts
    <2> QED
        BY <1>1, <2>3, <2>4, <2>5 DEF ProcessorNext
<1>2. ProcessorIInv /\ [ProcessorNext]_processorVars
        => [result # <<>> => result' = result]_processorVars
    BY <1>1 DEF processorVars
<1> QED
    BY <1>2, ProcessorInvariant, PTL DEF ProcessorSpec
=============================================================================
