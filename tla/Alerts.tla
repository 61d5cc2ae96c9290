------------------------------ MODULE Alerts ------------------------------
(***************************************************************************)
(* Project alerts (apps/server/src/alerts.rs): rules and their             *)
(* integration, the scheduler that turns observations into condition       *)
(* transitions, and the outbox that delivers one notification for each.    *)
(*                                                                         *)
(* Schedulers tick concurrently.  A tick reads a page of rules, and for    *)
(* each of them observes which scopes meet the condition, opens those,     *)
(* and recovers the others.  Every statement reads the database as it is   *)
(* then: observations and the copies of the rules are stale when used.     *)
(* SELECT ... FOR UPDATE locks a condition row that exists; a condition    *)
(* that has no row yet is not locked, and its insert is a step of its own. *)
(*                                                                         *)
(* A claim takes a fresh lease token and a fresh attempt number; the       *)
(* attempt stands for the token.  Thresholds, windows, names, payloads and *)
(* the encrypted configuration are not told apart.                         *)
(***************************************************************************)
EXTENDS Naturals, FiniteSets, SequencesExt

CONSTANTS
    Rules,          \* alert_rules of one integration
    IssueRules,     \* those with condition first_seen or regression
    NumScopes,      \* scopes of a condition: the project, or its issues in page order
    Schedulers,
    Workers,
    RulePage,       \* rules read by a tick
    IssuePage,      \* ALERT_ISSUE_PAGE_SIZE
    MaxAttempt,     \* alert_deliveries.max_attempt
    MaxGeneration,  \* bound on the transitions of a condition
    Budgets,        \* bounds: which processes run, and how much may happen to them
    None

Scopes == 1..NumScopes

Transitions == {"triggered", "recovered"}

ASSUME AlertsAssumption ==
    /\ IssueRules \subseteq Rules
    /\ NumScopes \in Nat \ {0}
    /\ RulePage \in Nat \ {0}
    /\ IssuePage \in Nat \ {0}
    /\ MaxAttempt \in Nat \ {0}
    /\ Budgets \subseteq [rules : SUBSET Rules, schedulers : SUBSET Schedulers,
                         workers : SUBSET Workers, changes : Nat, edits : Nat, faults : Nat]
    /\ None \notin Rules \X Scopes \X Nat \X Transitions

VARIABLES
    integration,  \* alert_integrations: absent, enabled or disabled
    rule,         \* [Rules -> Rule]: alert_rules
    order,        \* rules with a last_evaluated_at, the oldest first; the others have NULL
    observed,     \* [Rules -> SUBSET Scopes]: scopes that meet the condition now
    condition,    \* [Rules -> [Scopes -> Condition]]: alert_condition_states
    delivery,     \* rows of alert_deliveries: their keys (the unique index) to Delivery
    tick,         \* [Schedulers -> Tick]: evaluate_rules_once in progress
    sender,       \* [Workers -> Sender]: deliver_next in progress
    budget        \* the rules and processes there are, what the environment may still do

rules == <<integration, rule, order>>
vars == <<integration, rule, order, observed, condition, delivery, tick, sender, budget>>

Rule == [state : {"absent", "enabled", "disabled"}, quiet : BOOLEAN, revision : Nat]
Condition == [state : {"absent", "active", "inactive"}, generation : 0..MaxGeneration]
Keys == Rules \X Scopes \X (1..MaxGeneration) \X Transitions
Settled == {"delivered", "dead", "suppressed", "unknown"}

(* held: available_at lies ahead.  taken: times the receiver accepted it,  *)
(* lapsed: a lease of it expired (both are history, no column).            *)
Delivery == [state : {"pending", "leased", "failed"} \cup Settled,
             attempt : 0..MaxAttempt, held : BOOLEAN, expired : BOOLEAN,
             taken : Nat, lapsed : BOOLEAN]

(* page: copies of the rules still to evaluate; todo: scopes to transition. *)
Tick == [phase : {"idle", "observe", "trigger", "insert", "recover", "clear", "finish"},
         page : Seq([id : Rules, quiet : BOOLEAN, revision : Nat]),
         cursor : 0..NumScopes, more : BOOLEAN,
         todo : SUBSET Scopes, seen : SUBSET Scopes]
Sender == [key : Keys \cup {None}, attempt : 0..MaxAttempt,
           result : {"none", "ok", "retryable", "permanent", "unknown"}]

IdleTick == [phase |-> "idle", page |-> <<>>, cursor |-> 0, more |-> FALSE,
             todo |-> {}, seen |-> {}]

IdleSender == [key |-> None, attempt |-> 0, result |-> "none"]

Notification(state, held) ==
    [state |-> state, attempt |-> 0, held |-> held, expired |-> FALSE, taken |-> 0, lapsed |-> FALSE]

Init ==
    /\ integration = "absent"
    /\ rule = [r \in Rules |-> [state |-> "absent", quiet |-> FALSE, revision |-> 0]]
    /\ order = <<>>
    /\ observed = [r \in Rules |-> {}]
    /\ condition = [r \in Rules |-> [s \in Scopes |-> [state |-> "absent", generation |-> 0]]]
    /\ delivery = <<>>
    /\ tick = [e \in Schedulers |-> IdleTick]
    /\ sender = [w \in Workers |-> IdleSender]
    /\ budget \in Budgets

Spend(kind) ==
    /\ budget[kind] > 0
    /\ budget' = [budget EXCEPT ![kind] = @ - 1]

-----------------------------------------------------------------------------
(* The control API, and the crashes, releases and quotas that rules watch.  *)

CreateIntegration ==
    /\ integration = "absent"
    /\ integration' = "enabled"
    /\ UNCHANGED <<rule, order, observed, condition, delivery, tick, sender, budget>>

UpdateIntegration ==
    /\ integration # "absent"
    /\ Spend("edits")
    /\ integration' \in {"enabled", "disabled"}
    /\ UNCHANGED <<rule, order, observed, condition, delivery, tick, sender>>

CreateRule(r) ==
    /\ r \in budget.rules
    /\ integration # "absent"
    /\ rule[r].state = "absent"
    /\ \E quiet \in BOOLEAN :
          rule' = [rule EXCEPT ![r] = [state |-> "enabled", quiet |-> quiet, revision |-> 1]]
    /\ UNCHANGED <<integration, order, observed, condition, delivery, tick, sender, budget>>

(* The fields are merged with a copy that may be stale: any value results.  *)
UpdateRule(r) ==
    /\ rule[r].state # "absent"
    /\ Spend("edits")
    /\ \E state \in {"enabled", "disabled"}, quiet \in BOOLEAN :
          rule' = [rule EXCEPT ![r] = [state |-> state, quiet |-> quiet,
                                       revision |-> @.revision + 1]]
    /\ order' = Remove(order, r)
    /\ UNCHANGED <<integration, observed, condition, delivery, tick, sender>>

(* The volume, processing, silence and quota conditions have one scope. *)
Observable(r) == IF r \in IssueRules THEN Scopes ELSE {1}

Change(r, s) ==
    /\ r \in budget.rules /\ s \in Observable(r)
    /\ Spend("changes")
    /\ observed' = [observed EXCEPT ![r] = IF s \in @ THEN @ \ {s} ELSE @ \cup {s}]
    /\ UNCHANGED <<integration, rule, order, condition, delivery, tick, sender>>

-----------------------------------------------------------------------------
(* The scheduler.                                                           *)

Evaluable(r) == integration = "enabled" /\ rule[r].state = "enabled"

PagesUpTo(n) == UNION {[1..k -> {r \in Rules : Evaluable(r)}] : k \in 1..n}

(* Mutant: a page of rules, whatever was evaluated last. *)
DueInAnyOrder(page) == IsInjective(page)

LastEvaluated(r) == IF Contains(order, r) THEN CHOOSE i \in DOMAIN order : order[i] = r ELSE 0

(* ORDER BY last_evaluated_at NULLS FIRST, id LIMIT; ids are not told apart. *)
Due(page) ==
    /\ IsInjective(page)
    /\ \A i, j \in DOMAIN page : i < j => LastEvaluated(page[i]) <= LastEvaluated(page[j])
    /\ \A r \in Rules \ Range(page) : Evaluable(r) =>
          Len(page) = RulePage /\ LastEvaluated(Last(page)) <= LastEvaluated(r)

Select(e) ==
    /\ e \in budget.schedulers
    /\ tick[e].phase = "idle"
    /\ \E page \in PagesUpTo(RulePage) :
          /\ Due(page)
          /\ tick' = [tick EXCEPT ![e] =
                [IdleTick EXCEPT !.phase = "observe",
                   !.page = [i \in DOMAIN page |->
                               [id |-> page[i], quiet |-> rule[page[i]].quiet,
                                revision |-> rule[page[i]].revision]]]]
    /\ UNCHANGED <<rules, observed, condition, delivery, sender, budget>>

Current(e) == Head(tick[e].page)

(* Issues after the cursor, a page of them; every other condition is read  *)
(* by one query.                                                           *)
Observed(r, cursor) ==
    IF r \in IssueRules
    THEN {s \in observed[r] :
             s > cursor /\ Cardinality({x \in observed[r] : cursor < x /\ x <= s}) <= IssuePage}
    ELSE observed[r]

Observe(e) ==
    LET r == Current(e).id
        t == tick[e]
        found == Observed(r, t.cursor)
        more == r \in IssueRules /\ Cardinality(found) = IssuePage
    IN  /\ t.phase = "observe"
        /\ tick' = [tick EXCEPT ![e] =
              [t EXCEPT !.phase = IF found = {} THEN "recover" ELSE "trigger",
                        !.todo = found, !.seen = t.seen \cup found, !.more = more,
                        !.cursor = IF more THEN Max(found) ELSE t.cursor]]
        /\ UNCHANGED <<rules, observed, condition, delivery, sender, budget>>

(* Mutant: the opening is suppressed, its recovery is sent all the same. *)
WriteRecoveryAnyway(r, s, c, quiet, paired) ==
    LET opened == <<r, s, c.generation - 1, "triggered">>
        key == <<r, s, c.generation, IF c.state = "active" THEN "triggered" ELSE "recovered">>
        rows == IF paired THEN [delivery EXCEPT ![opened].state = "suppressed"] ELSE delivery
    IN  /\ condition' = [condition EXCEPT ![r][s] = c]
        /\ delivery' = [k \in DOMAIN delivery \cup {key} |->
                          IF k \in DOMAIN delivery THEN rows[k] ELSE Notification("pending", quiet)]

(* transition_condition: the row, and a notification unless its key exists. *)
Write(r, s, c, quiet, paired) ==
    LET opened == <<r, s, c.generation - 1, "triggered">>
        key == <<r, s, c.generation, IF c.state = "active" THEN "triggered" ELSE "recovered">>
        rows == IF paired THEN [delivery EXCEPT ![opened].state = "suppressed"] ELSE delivery
    IN  /\ condition' = [condition EXCEPT ![r][s] = c]
        /\ \E held \in IF quiet THEN BOOLEAN ELSE {FALSE} :
              delivery' = [k \in DOMAIN delivery \cup {key} |->
                             IF k \in DOMAIN delivery THEN rows[k]
                             ELSE Notification(IF paired THEN "suppressed" ELSE "pending", held)]

(* Mutant: a recovery stays in the generation it ends. *)
SameGeneration(c) == IF c.generation = 0 THEN 1 ELSE c.generation

NextGeneration(c) == c.generation + 1

(* The notification of the opening is still held back by quiet hours. *)
StillHeld(k) == k \in DOMAIN delivery /\ delivery[k].state = "pending" /\ delivery[k].held

Transition(r, s, active, quiet) ==
    LET c == condition[r][s]
        state == IF active THEN "active" ELSE "inactive"
    IN  IF c.state = state
        THEN UNCHANGED <<condition, delivery>>
        ELSE Write(r, s, [state |-> state, generation |-> NextGeneration(c)], quiet,
                   ~active /\ StillHeld(<<r, s, c.generation, "triggered">>))

(* Where the tick goes when the scope is dealt with. *)
Done(t, s, issue) ==
    LET rest == t.todo \ {s}
    IN  [t EXCEPT !.todo = rest,
                  !.phase = CASE t.phase \in {"trigger", "insert"} /\ rest # {} -> "trigger"
                              [] t.phase \in {"trigger", "insert"} /\ t.more -> "observe"
                              [] t.phase = "clear" /\ rest # {} -> "clear"
                              [] t.phase = "clear" /\ ~issue -> "finish"
                              [] OTHER -> "recover"]

Trigger(e) ==
    LET r == Current(e).id
        s == Min(tick[e].todo)
    IN  /\ tick[e].phase = "trigger"
        /\ IF condition[r][s].state = "absent"
           THEN /\ tick' = [tick EXCEPT ![e].phase = "insert"]
                /\ UNCHANGED <<condition, delivery>>
           ELSE /\ tick' = [tick EXCEPT ![e] = Done(@, s, r \in IssueRules)]
                /\ Transition(r, s, TRUE, Current(e).quiet)
        /\ UNCHANGED <<rules, observed, sender, budget>>

(* No row was there to lock: INSERT ... ON CONFLICT DO UPDATE writes the    *)
(* first generation over whatever other ticks have written since.           *)
Insert(e) ==
    LET r == Current(e).id
        s == Min(tick[e].todo)
    IN  /\ tick[e].phase = "insert"
        /\ tick' = [tick EXCEPT ![e] = Done(@, s, r \in IssueRules)]
        /\ Write(r, s, [state |-> "active", generation |-> 1], Current(e).quiet, FALSE)
        /\ UNCHANGED <<rules, observed, sender, budget>>

(* recover_issue_conditions asks the issues again; recover_absent_conditions *)
(* goes by the observations of this tick.                                    *)
Absent(e, r, s) == IF r \in IssueRules THEN s \notin observed[r] ELSE s \notin tick[e].seen

Recover(e) ==
    LET r == Current(e).id
        gone == {s \in Scopes : condition[r][s].state = "active" /\ Absent(e, r, s)}
    IN  /\ tick[e].phase = "recover"
        /\ tick' = [tick EXCEPT ![e].todo = gone,
                                ![e].phase = IF gone = {} THEN "finish" ELSE "clear"]
        /\ UNCHANGED <<rules, observed, condition, delivery, sender, budget>>

Clear(e) ==
    LET r == Current(e).id
        s == Min(tick[e].todo)
    IN  /\ tick[e].phase = "clear"
        /\ tick' = [tick EXCEPT ![e] = Done(@, s, r \in IssueRules)]
        /\ Transition(r, s, FALSE, Current(e).quiet)
        /\ UNCHANGED <<rules, observed, sender, budget>>

(* last_evaluated_at moves only for the version of the rule that was read. *)
Finish(e) ==
    LET r == Current(e)
        rest == Tail(tick[e].page)
    IN  /\ tick[e].phase = "finish"
        /\ order' = IF Evaluable(r.id) /\ rule[r.id].revision = r.revision
                    THEN Append(Remove(order, r.id), r.id) ELSE order
        /\ tick' = [tick EXCEPT ![e] =
              IF rest = <<>> THEN IdleTick
              ELSE [IdleTick EXCEPT !.phase = "observe", !.page = rest]]
        /\ UNCHANGED <<integration, rule, observed, condition, delivery, sender, budget>>

(* A statement fails or the process stops: the rest of the tick is dropped. *)
Abort(e) ==
    /\ tick[e].phase # "idle"
    /\ Spend("faults")
    /\ tick' = [tick EXCEPT ![e] = IdleTick]
    /\ UNCHANGED <<rules, observed, condition, delivery, sender>>

TickStep(e) ==
    \/ Select(e)
    \/ Observe(e)
    \/ Trigger(e)
    \/ Insert(e)
    \/ Recover(e)
    \/ Clear(e)
    \/ Finish(e)

-----------------------------------------------------------------------------
(* The delivery worker.                                                     *)

BecomeAvailable(k) ==
    /\ delivery[k].held
    /\ delivery' = [delivery EXCEPT ![k].held = FALSE]
    /\ UNCHANGED <<rules, observed, condition, tick, sender, budget>>

(* The lease outlives a request (30 s against the client's timeouts): it    *)
(* expires when the worker is gone or stalled.                              *)
Working(k) == \E w \in Workers : sender[w].key = k /\ sender[w].attempt = delivery[k].attempt

Expire(k) ==
    /\ delivery[k].state = "leased"
    /\ ~delivery[k].expired
    /\ IF Working(k) THEN Spend("faults") ELSE UNCHANGED budget
    /\ delivery' = [delivery EXCEPT ![k].expired = TRUE, ![k].lapsed = TRUE]
    /\ UNCHANGED <<rules, observed, condition, tick, sender>>

(* Mutant: an expired lease is a candidate only while it has attempts. *)
CandidateWithAttempts(d) ==
    /\ d.attempt < MaxAttempt
    /\ \/ d.state \in {"pending", "failed"} /\ ~d.held
       \/ d.state = "leased" /\ d.expired

Candidate(d) ==
    \/ d.state \in {"pending", "failed"} /\ ~d.held /\ d.attempt < MaxAttempt
    \/ d.state = "leased" /\ d.expired

Final(d) == d.state = "leased" /\ d.attempt >= MaxAttempt

(* claim_delivery buries an expired lease without attempts and goes on. *)
Bury(k) ==
    /\ \E w \in budget.workers : sender[w].key = None
    /\ Candidate(delivery[k]) /\ Final(delivery[k])
    /\ delivery' = [delivery EXCEPT ![k].state = "dead", ![k].expired = FALSE]
    /\ UNCHANGED <<rules, observed, condition, tick, sender, budget>>

Claim(w, k) ==
    /\ w \in budget.workers
    /\ sender[w].key = None
    /\ Candidate(delivery[k]) /\ ~Final(delivery[k])
    /\ delivery' = [delivery EXCEPT ![k].state = "leased", ![k].expired = FALSE,
                                    ![k].attempt = @ + 1]
    /\ sender' = [sender EXCEPT ![w] = [key |-> k, attempt |-> delivery[k].attempt + 1,
                                        result |-> "none"]]
    /\ UNCHANGED <<rules, observed, condition, tick, budget>>

(* What a request can come to: an answer, a connection that was refused,   *)
(* or no answer, in which case the receiver may have taken it.             *)
Outcomes == {<<"ok", 1>>, <<"retryable", 0>>, <<"permanent", 0>>, <<"unknown", 0>>, <<"unknown", 1>>}

Send(w) ==
    LET k == sender[w].key
    IN  /\ k # None
        /\ sender[w].result = "none"
        /\ \E o \in IF integration = "enabled" THEN Outcomes ELSE {<<"permanent", 0>>} :
              /\ sender' = [sender EXCEPT ![w].result = o[1]]
              /\ delivery' = [delivery EXCEPT ![k].taken = @ + o[2]]
              /\ IF o[1] = "ok" \/ integration # "enabled" THEN UNCHANGED budget ELSE Spend("faults")
        /\ UNCHANGED <<rules, observed, condition, tick>>

(* Mutant: no answer counts as a retryable failure. *)
OutcomeRetriesUnknown(result, attempt) ==
    CASE result = "ok" -> "delivered"
      [] result \in {"retryable", "unknown"} /\ attempt < MaxAttempt -> "failed"
      [] OTHER -> "dead"

Outcome(result, attempt) ==
    CASE result = "ok" -> "delivered"
      [] result = "retryable" /\ attempt < MaxAttempt -> "failed"
      [] result = "unknown" -> "unknown"
      [] OTHER -> "dead"

(* Mutant: the state of the row is not tested. *)
FencedByAttempt(w) == delivery[sender[w].key].attempt = sender[w].attempt

Fenced(w) ==
    LET d == delivery[sender[w].key]
    IN  d.state = "leased" /\ d.attempt = sender[w].attempt

FinishDelivery(w) ==
    LET k == sender[w].key
        state == Outcome(sender[w].result, sender[w].attempt)
    IN  /\ k # None
        /\ sender[w].result # "none"
        /\ delivery' = IF ~Fenced(w) THEN delivery
                       ELSE [delivery EXCEPT ![k].state = state, ![k].expired = FALSE,
                                             ![k].held = (state = "failed")]
        /\ sender' = [sender EXCEPT ![w] = IdleSender]
        /\ UNCHANGED <<rules, observed, condition, tick, budget>>

(* The worker stops, or the statement of finish_delivery fails. *)
Drop(w) ==
    /\ sender[w].key # None
    /\ Spend("faults")
    /\ sender' = [sender EXCEPT ![w] = IdleSender]
    /\ UNCHANGED <<rules, observed, condition, delivery, tick>>

-----------------------------------------------------------------------------

AdminStep ==
    \/ CreateIntegration
    \/ UpdateIntegration
    \/ \E r \in Rules : CreateRule(r) \/ UpdateRule(r)
    \/ \E r \in Rules, s \in Scopes : Change(r, s)

DeliveryStep(k) ==
    \/ BecomeAvailable(k)
    \/ Expire(k)
    \/ Bury(k)
    \/ \E w \in Workers : Claim(w, k)

Next ==
    \/ AdminStep
    \/ \E e \in Schedulers : TickStep(e) \/ Abort(e)
    \/ \E k \in DOMAIN delivery : DeliveryStep(k)
    \/ \E w \in Workers : Send(w) \/ FinishDelivery(w) \/ Drop(w)

(* The interval ticks, workers poll, statements and requests end, and time  *)
(* passes.                                                                  *)
Fairness ==
    /\ \A e \in Schedulers : WF_vars(TickStep(e))
    /\ \A w \in Workers : WF_vars(Send(w) \/ FinishDelivery(w))
    /\ WF_vars(\E k \in DOMAIN delivery : BecomeAvailable(k) \/ Expire(k))
    /\ WF_vars(\E k \in DOMAIN delivery : Bury(k) \/ \E w \in Workers : Claim(w, k))

Spec == Init /\ [][Next]_vars

FairSpec == Spec /\ Fairness

-----------------------------------------------------------------------------
(* Properties.                                                              *)

(* Every variable has its type; the generations stay within the bound, so   *)
(* the bound cuts nothing off.                                              *)
TypeOK ==
    /\ integration \in {"absent", "enabled", "disabled"}
    /\ \A r \in Rules : rule[r] \in Rule
    /\ IsInjective(order) /\ ToSet(order) \subseteq Rules
    /\ observed \in [Rules -> SUBSET Scopes]
    /\ condition \in [Rules -> [Scopes -> Condition]]
    /\ DOMAIN delivery \subseteq Keys
    /\ \A k \in DOMAIN delivery : delivery[k] \in Delivery
    /\ \A e \in Schedulers :
          /\ tick[e].phase # "idle" <=> tick[e].page # <<>>
          /\ tick[e].phase \in {"trigger", "insert", "clear"} => tick[e].todo # {}
    /\ \A w \in Workers : sender[w] \in Sender

(* "A condition transition creates one durable logical notification": the   *)
(* present state of a condition has its notification, and a recovery also   *)
(* that of the opening it ends, whatever other ticks, edits and failures    *)
(* came between (transition_condition).                                     *)
StateIsNotified ==
    \A r \in Rules, s \in Scopes :
        LET c == condition[r][s]
            exists(g, t) == <<r, s, g, t>> \in DOMAIN delivery
        IN  /\ c.state = "active" => exists(c.generation, "triggered")
            /\ c.state = "inactive" => /\ exists(c.generation, "recovered")
                                       /\ exists(c.generation - 1, "triggered")

(* "If the same condition recovers before the quiet window ends, both       *)
(* queued transitions become suppressed": never one without the other, so   *)
(* nobody hears of the end of something nobody was told of.                 *)
SuppressedInPairs ==
    LET suppressed(k) == k \in DOMAIN delivery /\ delivery[k].state = "suppressed"
    IN  \A r \in Rules, s \in Scopes, g \in 1..MaxGeneration :
            suppressed(<<r, s, g, "triggered">>) <=> suppressed(<<r, s, g + 1, "recovered">>)

(* The receiver takes a notification twice only when a lease of it expired  *)
(* and another attempt had to be made: an ambiguous answer is never retried *)
(* (send_request, claim_delivery).  A settled delivery keeps its outcome: a *)
(* worker whose lease was taken over, and a recovery that suppresses, come  *)
(* too late (finish_delivery).                                              *)
DeliveryIsFinal ==
    [][\A k \in DOMAIN delivery :
          /\ delivery'[k].taken > 1 => delivery'[k].lapsed
          /\ delivery[k].state \in Settled => delivery'[k].state = delivery[k].state]_vars

(* Once the environment is quiet, the conditions of the enabled rules are   *)
(* open exactly where the observation holds, and stay so, through failed    *)
(* ticks, stale observations and concurrent schedulers; and where a worker  *)
(* runs, every notification is settled in the end: "Every expired lease is  *)
(* reconciled, including a final-attempt lease".                            *)
AlertsComeToRest ==
    /\ <>[](\A r \in Rules, s \in Scopes :
               Evaluable(r) => (condition[r][s].state = "active" <=> s \in observed[r]))
    /\ []<>(budget.workers # {} => \A k \in DOMAIN delivery : delivery[k].state \in Settled)
=============================================================================
