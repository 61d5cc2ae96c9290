------------------------------- MODULE Issues -------------------------------
(***************************************************************************)
(* Crash events, the issues they are grouped into and the counts kept of   *)
(* both (publish_crash_result and what it calls in                         *)
(* apps/server/src/worker.rs, apps/server/src/issues.rs,                   *)
(* apps/server/src/project_rollups.rs and the triggers of the dashboard    *)
(* migration).                                                             *)
(*                                                                         *)
(* Counts are kept by deltas: per issue, per variant and per release of an *)
(* issue, and per day.  Two repair commands recount from the events.  A    *)
(* publication holds the project row, so publications of a project do not  *)
(* overlap and each is one action; its triggers run in the order of its    *)
(* statements.  The repair of a day takes no lock: it reads, then          *)
(* replaces.  A list of issues is read page by page.                       *)
(***************************************************************************)
EXTENDS Integers, FiniteSetsExt

CONSTANTS
    Events,      \* crash events: numbers, the order of their identifiers
    Issues,      \* issues, one per fingerprint: numbers, likewise
    Variants,
    Releases,
    Stamps,      \* build timestamps
    Arrival,     \* [Events -> Nat]: received_at, a day each
    PageSize,    \* issues per page
    Budgets,     \* bounds: what may be published and how often
    NoValue

States == {"stored", "processed", "awaiting_symbols", "failed"}
Symbolications == {"readable", "partial", "missing", "processing", "failed"}
Types == {"crash", "hang"}
Result == [state : {"processed", "awaiting_symbols"}, symbolication : Symbolications,
           type : Types]
Event == [state : States, symbolication : Symbolications \cup {NoValue}, type : Types \cup {NoValue},
          group : {"none", "insufficient", "disabled", "grouped"}, issue : Issues \cup {NoValue},
          variant : Variants \cup {NoValue}, quality : Nat, release : Releases \cup {NoValue}]
Budget == [issues : SUBSET Issues, variants : SUBSET Variants, qualities : SUBSET Nat,
           releases : SUBSET (Releases \cup {NoValue}), results : SUBSET Result,
           events : SUBSET Events, publications : Nat, stamps : SUBSET (Stamps \cup {NoValue}),
           changes : Nat, repairs : Nat, days : SUBSET Nat, lists : Nat]

ASSUME IssuesAssumption ==
    /\ Events \subseteq Nat /\ Issues \subseteq Nat /\ Stamps \subseteq Nat
    /\ Arrival \in [Events -> Nat]
    /\ PageSize \in Nat \ {0}
    /\ Budgets \subseteq Budget
    /\ NoValue \notin Event \cup (Nat \X Nat) \cup Releases

Days == {Arrival[e] : e \in Events}
Keys ==
    Days \X (  ({"event", "issue", "regressed"} \X {"all"})
            \cup ({"release"} \X (Releases \cup {NoValue}))
            \cup ({"type"} \X (Types \cup {NoValue}))
            \cup ({"symbolication"} \X Symbolications)
            \cup ({"state"} \X States))

VARIABLES
    event,      \* [Events -> Event]
    issue,      \* issues by number: a Row and the state of resolution
    variants,   \* issue_variants: <<issue, variant>> -> Row
    releases,   \* issue_releases: <<issue, release>> -> Row
    stamp,      \* [Releases -> Stamps \cup {NoValue}]: releases.build_timestamp
    daily,      \* [Keys -> Nat]: project_daily_rollups
    enabled,    \* the worker's grouping_enabled
    repair,     \* the day repair_day recounted and has not replaced yet, or NoValue
    drift,      \* history: some day was replaced by counts older than its events
    list,       \* a client's reading of list_issues
    budget

rows == <<issue, variants, releases>>
counts == <<daily, repair, drift>>
issueVars == <<event, rows, stamp, counts, enabled, list, budget>>

Unprocessed == [state |-> "stored", symbolication |-> NoValue, type |-> NoValue, group |-> "none",
                issue |-> NoValue, variant |-> NoValue, quality |-> 0, release |-> NoValue]
NoList == [open |-> FALSE, cursor |-> NoValue, seen |-> [i \in Issues |-> 0], due |-> << >>]

IssuesInit ==
    /\ event = [e \in Events |-> NoValue]
    /\ issue = << >> /\ variants = << >> /\ releases = << >>
    /\ daily = [k \in Keys |-> 0]
    /\ enabled = TRUE
    /\ repair = NoValue
    /\ drift = FALSE
    /\ list = NoList
    /\ budget \in Budgets
    /\ stamp \in [Releases -> budget.stamps]

Stored == {e \in Events : event[e] # NoValue}

-----------------------------------------------------------------------------
(* Rows that count events.                                                  *)

(* ORDER BY grouping_quality DESC, received_at, id *)
Before(ev, a, b) ==
    \/ ev[a].quality > ev[b].quality
    \/ /\ ev[a].quality = ev[b].quality
       /\ Arrival[a] < Arrival[b] \/ (Arrival[a] = Arrival[b] /\ a < b)

Representative(ev, S) == CHOOSE a \in S : \A b \in S \ {a} : Before(ev, a, b)

Aggregate(ev, S) ==
    [count |-> Cardinality(S), first |-> Min({Arrival[e] : e \in S}),
     last |-> Max({Arrival[e] : e \in S}), representative |-> Representative(ev, S)]

(* INSERT ... ON CONFLICT DO UPDATE with LEAST, GREATEST and count + 1. *)
Joined(ev, row, e) ==
    [row EXCEPT !.count = @ + 1, !.first = Min({@, Arrival[e]}), !.last = Max({@, Arrival[e]}),
                !.representative = Representative(ev, {@, e})]

Put(table, k, row) == [x \in DOMAIN table \cup {k} |-> IF x = k THEN row ELSE table[x]]

Add(ev, table, k, e) ==
    Put(table, k, IF k \in DOMAIN table THEN Joined(ev, table[k], e) ELSE Aggregate(ev, {e}))

Grouped(ev) == {e \in Events : ev[e] # NoValue /\ ev[e].group = "grouped"}

Members(ev, k) == {e \in Grouped(ev) : <<ev[e].issue, ev[e].release>> = k}

Without(table, k) == [x \in DOMAIN table \ {k} |-> table[x]]

(* The event has left in the event table already. *)
RemoveKeepingBounds(ev, table, k, e) ==
    IF table[k].count = 1 THEN Without(table, k)
    ELSE [table EXCEPT ![k].count = @ - 1,
                       ![k].representative = IF @ = e THEN Representative(ev, Members(ev, k)) ELSE @]

Remove(ev, table, k, e) ==
    IF table[k].count = 1 THEN Without(table, k)
    ELSE LET edge == table[k].first = Arrival[e] \/ table[k].last = Arrival[e]
             left == Members(ev, k)
         IN  [table EXCEPT
                ![k].count = @ - 1,
                ![k].representative = IF @ = e THEN Representative(ev, left) ELSE @,
                ![k].first = IF edge THEN Min({Arrival[x] : x \in left}) ELSE @,
                ![k].last = IF edge THEN Max({Arrival[x] : x \in left}) ELSE @]

-----------------------------------------------------------------------------
(* Releases in the order of their builds, and what they say of an issue.    *)

Seen(table, i) == {r \in Releases : <<i, r>> \in DOMAIN table}

(* release_chronology: all releases stamped, no two alike. *)
Ordered(R) ==
    /\ R # {}
    /\ \A r \in R : stamp[r] # NoValue
    /\ \A r, s \in R : r # s => stamp[r] # stamp[s]

Latest(R) == Max({stamp[r] : r \in R})

LaterOrSame(resolved, R) ==
    resolved # NoValue /\ stamp[resolved] # NoValue /\ Ordered(R) /\ Latest(R) >= stamp[resolved]

Later(resolved, R) ==
    resolved # NoValue /\ stamp[resolved] # NoValue /\ Ordered(R) /\ Latest(R) > stamp[resolved]

(* The state an issue that is not resolved shows. *)
Retained(R) ==
    IF ~Ordered(R) THEN "unknown" ELSE IF Cardinality(R) = 1 THEN "new" ELSE "ongoing"

Ends(row, R) ==
    [row EXCEPT !.firstRelease = IF Ordered(R) THEN CHOOSE r \in R : stamp[r] = Min({stamp[s] : s \in R})
                                 ELSE NoValue,
                !.lastRelease = IF Ordered(R) THEN CHOOSE r \in R : stamp[r] = Latest(R) ELSE NoValue]

(* update_issue_transitions *)
Transition(row, R) ==
    LET s == CASE Later(row.resolved, R) -> <<"open", "regressed">>
               [] ~Later(row.resolved, R) /\ row.status = "resolved" -> <<"resolved", "resolved">>
               [] ~Later(row.resolved, R) /\ row.status = "open" /\ row.resolved # NoValue ->
                      <<"open", "unknown">>
               [] OTHER -> <<"open", Retained(R)>>
    IN  [Ends(row, R) EXCEPT !.status = s[1], !.regression = s[2]]

-----------------------------------------------------------------------------
(* Daily counts.                                                            *)

Symbolication(state, projected) ==
    CASE state = "failed" -> "failed"
      [] state # "failed" /\ projected # NoValue -> projected
      [] state = "awaiting_symbols" /\ projected = NoValue -> "missing"
      [] OTHER -> "processing"

EventKeys(e, ev) ==
    {Arrival[e]} \X {<<"event", "all">>, <<"release", ev.release>>, <<"type", ev.type>>,
                     <<"symbolication", Symbolication(ev.state, ev.symbolication)>>,
                     <<"state", ev.state>>}

IssueKeys(row) ==
    {<<row.first, <<"issue", "all">>>>}
        \cup (IF row.regression = "regressed" THEN {<<row.last, <<"regressed", "all">>>>} ELSE {})

(* What repair_day stores for the keys K. *)
Recount(K) ==
    LET events == [e \in Stored |-> EventKeys(e, event[e])]
        issues == [i \in DOMAIN issue |-> IssueKeys(issue[i])]
    IN  [k \in K |-> Cardinality({e \in Stored : k \in events[e]})
                        + Cardinality({i \in DOMAIN issue : k \in issues[i]})]

(* apply_project_daily_rollup_delta; a missing row is not decremented. *)
Delta(was, gone, come) ==
    [k \in DOMAIN was |->
        CASE k \in come \ gone -> was[k] + 1
          [] k \in gone \ come /\ was[k] > 0 -> was[k] - 1
          [] OTHER -> was[k]]

(* update_crash_search_rollups: the projection changes before the event. *)
SearchDelta(was, e, old, new) ==
    Delta(was,
          {Arrival[e]} \X {<<"type", old.type>>,
                           <<"symbolication", Symbolication(old.state, old.symbolication)>>},
          {Arrival[e]} \X {<<"type", new.type>>,
                           <<"symbolication", Symbolication(old.state, new.symbolication)>>})

EventDeltaStateOnly(was, e, old, new) ==
    Delta(was,
          {Arrival[e]} \X {<<"release", old.release>>, <<"state", old.state>>},
          {Arrival[e]} \X {<<"release", new.release>>, <<"state", new.state>>})

(* update_crash_event_rollups: both states with the new projection. *)
EventDelta(was, e, old, new) ==
    Delta(was,
          {Arrival[e]} \X {<<"release", old.release>>, <<"state", old.state>>,
                           <<"symbolication", Symbolication(old.state, new.symbolication)>>},
          {Arrival[e]} \X {<<"release", new.release>>, <<"state", new.state>>,
                           <<"symbolication", Symbolication(new.state, new.symbolication)>>})

(* update_issue_rollups *)
IssueDelta(was, i, after) ==
    Delta(was, IF i \in DOMAIN issue THEN IssueKeys(issue[i]) ELSE {}, IssueKeys(after))

-----------------------------------------------------------------------------
(* Operations.                                                              *)

Ingest(e) ==
    /\ e \in budget.events /\ event[e] = NoValue
    /\ event' = [event EXCEPT ![e] = Unprocessed]
    /\ daily' = Delta(daily, {}, EventKeys(e, Unprocessed))
    /\ UNCHANGED <<rows, stamp, enabled, repair, drift, list, budget>>

Groupings ==
    IF enabled
    THEN {[group |-> "insufficient", issue |-> NoValue, variant |-> NoValue, quality |-> 0]} \cup
         [group : {"grouped"}, issue : budget.issues, variant : budget.variants,
          quality : budget.qualities]
    ELSE {[group |-> "disabled", issue |-> NoValue, variant |-> NoValue, quality |-> 0]}

(* The event after its publication; a grouped event keeps its group. *)
Published(old, g, r, result) ==
    LET grouping == IF old.group = "grouped" THEN old ELSE g
    IN  [state |-> result.state, symbolication |-> result.symbolication, type |-> result.type,
         group |-> grouping.group, issue |-> grouping.issue, variant |-> grouping.variant,
         quality |-> grouping.quality, release |-> r]

NewIssue ==
    [count |-> 0, first |-> 0, last |-> 0, representative |-> NoValue, status |-> "open",
     regression |-> "unknown", resolved |-> NoValue, firstRelease |-> NoValue, lastRelease |-> NoValue]

Refreshed(row, new) ==
    [row EXCEPT !.count = new.count, !.first = new.first, !.last = new.last,
                !.representative = new.representative]

(* assign_issue: create the issue or count the event in it. *)
Assigned(ev, i, e) ==
    IF i \in DOMAIN issue THEN Joined(ev, issue[i], e) ELSE Refreshed(NewIssue, Aggregate(ev, {e}))

(* apply_release_delta *)
Moved(ev, old, e, r) ==
    LET left == IF old.group = "grouped" /\ old.release # NoValue
                THEN Remove(ev, releases, <<old.issue, old.release>>, e) ELSE releases
    IN  IF r = NoValue THEN left ELSE Add(ev, left, <<ev[e].issue, r>>, e)

PublishResult(e) ==
    /\ event[e] # NoValue
    /\ budget.publications > 0
    /\ \E g \in Groupings, r \in budget.releases, result \in budget.results :
          LET old == event[e]
              new == Published(old, g, r, result)
              ev == [event EXCEPT ![e] = new]
              i == new.issue
              first == old.group # "grouped" /\ new.group = "grouped"
              moves == first \/ (old.group = "grouped" /\ old.release # r)
              counted == IF first THEN Assigned(ev, i, e) ELSE issue[i]
              table == IF moves THEN Moved(ev, old, e, r) ELSE releases
              after == CASE ~moves -> counted
                         [] moves /\ enabled -> Transition(counted, Seen(table, i))
                         [] OTHER -> Ends(counted, Seen(table, i))
              projected == EventDelta(SearchDelta(daily, e, old, new), e, old, new)
          IN  /\ event' = ev
              /\ variants' = IF first THEN Add(ev, variants, <<i, new.variant>>, e) ELSE variants
              /\ releases' = table
              /\ IF new.group = "grouped"
                 THEN issue' = Put(issue, i, after) /\ daily' = IssueDelta(projected, i, after)
                 ELSE issue' = issue /\ daily' = projected
    /\ budget' = [budget EXCEPT !.publications = @ - 1]
    /\ UNCHANGED <<stamp, enabled, repair, drift, list>>

(* finish_failure: an event that has a result keeps its state. *)
Fail(e) ==
    /\ event[e] # NoValue
    /\ event[e].symbolication = NoValue /\ event[e].state = "stored"
    /\ event' = [event EXCEPT ![e].state = "failed"]
    /\ daily' = EventDelta(daily, e, event[e], event'[e])
    /\ UNCHANGED <<rows, stamp, enabled, repair, drift, list, budget>>

Change(i, after) ==
    /\ budget.changes > 0
    /\ budget' = [budget EXCEPT !.changes = @ - 1]
    /\ issue' = [issue EXCEPT ![i] = after]
    /\ daily' = IssueDelta(daily, i, after)
    /\ UNCHANGED <<event, variants, releases, stamp, enabled, repair, drift, list>>

ResolveIssue(i, r) ==
    /\ i \in DOMAIN issue
    /\ stamp[r] # NoValue
    /\ Change(i, IF Later(r, Seen(releases, i))
                 THEN [issue[i] EXCEPT !.status = "open", !.regression = "regressed", !.resolved = r]
                 ELSE [issue[i] EXCEPT !.status = "resolved", !.regression = "resolved",
                                       !.resolved = r])

ReopenIssue(i) ==
    /\ i \in DOMAIN issue
    /\ Change(i, [issue[i] EXCEPT !.status = "open", !.regression = Retained(Seen(releases, i)),
                                  !.resolved = NoValue])

(* A symbol upload names the build time of a release, once. *)
StampRelease(r, t) ==
    /\ budget.changes > 0
    /\ stamp[r] = NoValue
    /\ stamp' = [stamp EXCEPT ![r] = t]
    /\ budget' = [budget EXCEPT !.changes = @ - 1]
    /\ UNCHANGED <<event, rows, counts, enabled, list>>

(* The workers are restarted with grouping switched. *)
SwitchGrouping ==
    /\ budget.changes > 0
    /\ enabled' = ~enabled
    /\ budget' = [budget EXCEPT !.changes = @ - 1]
    /\ UNCHANGED <<event, rows, stamp, counts, list>>

Having(k) == {e \in Grouped(event) : event[e].issue = k}

(* repair_issue: refresh_issue_memberships and update_issue_transitions. *)
RepairIssue(i) ==
    LET own == Having(i)
        kept == {k \in DOMAIN releases : k[1] # i}
        found == {<<i, event[e].release>> : e \in {x \in own : event[x].release # NoValue}}
        table == [k \in found \cup kept |->
                     IF k \in found THEN Aggregate(event, Members(event, k)) ELSE releases[k]]
        builds == {<<i, event[e].variant>> : e \in own}
        after == Transition(Refreshed(issue[i], Aggregate(event, own)), Seen(table, i))
    IN  /\ budget.repairs > 0
        /\ i \in DOMAIN issue
        /\ releases' = table
        /\ variants' = [k \in builds \cup DOMAIN variants |->
                           IF k \in builds THEN Aggregate(event, {e \in own : event[e].variant = k[2]})
                           ELSE variants[k]]
        /\ issue' = [issue EXCEPT ![i] = after]
        /\ daily' = IssueDelta(daily, i, after)
        /\ budget' = [budget EXCEPT !.repairs = @ - 1]
        /\ UNCHANGED <<event, stamp, enabled, repair, drift, list>>

(* repair_day: recount into a temporary table, then delete and insert. *)
RepairDayRead(d) ==
    /\ d \in budget.days
    /\ repair = NoValue
    /\ repair' = Recount({k \in Keys : k[1] = d})
    /\ budget' = [budget EXCEPT !.days = @ \ {d}]
    /\ UNCHANGED <<event, rows, stamp, daily, drift, enabled, list>>

RepairDayWrite ==
    /\ repair # NoValue
    /\ daily' = [k \in Keys |-> IF k \in DOMAIN repair THEN repair[k] ELSE daily[k]]
    /\ repair' = NoValue
    /\ drift' = (drift \/ repair # Recount(DOMAIN repair))
    /\ UNCHANGED <<event, rows, stamp, enabled, list, budget>>

-----------------------------------------------------------------------------
(* list_issues, ordered by last_seen_at and id, both descending.            *)

Precedes(a, b) == a[1] > b[1] \/ (a[1] = b[1] /\ a[2] > b[2])

Position(i) == <<issue[i].last, i>>

(* The position of the last issue of the page is the cursor. *)
BehindByTime(cursor) == {i \in DOMAIN issue : cursor = NoValue \/ cursor[1] > issue[i].last}

Behind(cursor) == {i \in DOMAIN issue : cursor = NoValue \/ Precedes(cursor, Position(i))}

FirstOf(S, n) == {i \in S : Cardinality({j \in S : Precedes(Position(j), Position(i))}) < n}

ListStart ==
    /\ budget.lists > 0
    /\ ~list.open
    /\ list' = [NoList EXCEPT !.open = TRUE, !.due = [i \in DOMAIN issue |-> issue[i].last]]
    /\ budget' = [budget EXCEPT !.lists = @ - 1]
    /\ UNCHANGED <<event, rows, stamp, counts, enabled>>

ListPage ==
    LET rest == Behind(list.cursor)
        page == FirstOf(rest, PageSize)
        end == CHOOSE i \in page : \A j \in page \ {i} : Precedes(Position(j), Position(i))
    IN  /\ list.open
        /\ list' = [list EXCEPT
                      !.seen = [i \in Issues |-> IF i \in page THEN @[i] + 1 ELSE @[i]],
                      !.cursor = IF page # rest THEN Position(end) ELSE NoValue,
                      !.open = page # rest]
        /\ UNCHANGED <<event, rows, stamp, counts, enabled, budget>>

-----------------------------------------------------------------------------

IssuesNext ==
    \/ \E e \in Events : Ingest(e) \/ PublishResult(e) \/ Fail(e)
    \/ \E i \in Issues, r \in Releases : ResolveIssue(i, r)
    \/ \E i \in Issues : ReopenIssue(i) \/ RepairIssue(i)
    \/ \E r \in Releases, t \in Stamps : StampRelease(r, t)
    \/ SwitchGrouping
    \/ \E d \in Days : RepairDayRead(d)
    \/ RepairDayWrite
    \/ ListStart
    \/ ListPage

IssuesSpec == IssuesInit /\ [][IssuesNext]_issueVars

-----------------------------------------------------------------------------
(* Properties.                                                              *)

(* What refresh_issue_memberships would write. *)
CountedFrom(row, S) ==
    S # {} /\ \A f \in {"count", "first", "last", "representative"} : row[f] = Aggregate(event, S)[f]

(* The rows of issues, variants and releases, kept by assign_issue,         *)
(* add_release_membership and remove_release_membership.                    *)
RowsAreRecounts ==
    /\ \A i \in DOMAIN issue : CountedFrom(issue[i], Having(i))
    /\ \A k \in DOMAIN releases : CountedFrom(releases[k], Members(event, k))
    /\ \A k \in DOMAIN variants :
          CountedFrom(variants[k], {e \in Having(k[1]) : event[e].variant = k[2]})
    /\ \A e \in Grouped(event) :
          /\ event[e].issue \in DOMAIN issue
          /\ <<event[e].issue, event[e].variant>> \in DOMAIN variants
          /\ event[e].release # NoValue => <<event[e].issue, event[e].release>> \in DOMAIN releases

(* After any sequence of publications, moves between releases and failures  *)
(* the counts, dates and representatives that deltas keep are those of a    *)
(* recount: of every issue, of its variants, of its releases and, by the    *)
(* triggers, of every day.  Only the second half of a repair can leave a    *)
(* day wrong, when something was published since its first.                 *)
DeltasAreRecounts == RowsAreRecounts /\ (drift \/ daily = Recount(Keys))

(* Every release of the issue has a build time, no two the same. *)
Provable(R) == R # {} /\ Cardinality({stamp[r] : r \in R} \ {NoValue}) = Cardinality(R)

Current(i) ==
    LET R == Seen(releases, i)
        row == issue[i]
    IN  /\ row.regression = "regressed" <=>
               /\ row.resolved # NoValue
               /\ Provable(R)
               /\ \E r \in R : stamp[r] > stamp[row.resolved]
        /\ row.status = "resolved" <=> row.regression = "resolved"
        /\ row.regression \in {"new", "ongoing"} <=> row.resolved = NoValue /\ Provable(R)
        /\ Provable(R) => /\ {row.firstRelease, row.lastRelease} \subseteq R
                           /\ \A r \in R : stamp[row.firstRelease] <= stamp[r]
                                            /\ stamp[r] <= stamp[row.lastRelease]

(* An issue shows the state its releases call for: it is regressed exactly  *)
(* when it occurs in a build provably later than the one that resolved it.  *)
(* Only a build time that arrives late, or a publication while grouping is  *)
(* off, leaves it behind until the next change (update_issue_transitions,   *)
(* resolve_issue, reopen_issue).                                            *)
StateFollowsReleases ==
    [][(\A i \in DOMAIN issue : Current(i)) /\ stamp' = stamp /\ enabled
          => \A i \in DOMAIN issue' : Current(i)']_issueVars

(* A client that follows the cursors reads every issue that did not change  *)
(* meanwhile exactly once (list_issues).                                    *)
ListedOnce ==
    [][list.open /\ ~list'.open =>
          \A i \in DOMAIN list.due : issue[i].last = list.due[i] => list'.seen[i] = 1]_issueVars

-----------------------------------------------------------------------------
(* The inductive invariant behind the three.                                *)

CountRow == [count : Nat, first : Nat, last : Nat, representative : Events]
IssueRow ==
    [count : Nat, first : Nat, last : Nat, representative : Events,
     status : {"open", "resolved"},
     regression : {"unknown", "new", "ongoing", "resolved", "regressed"},
     resolved : Releases \cup {NoValue},
     firstRelease : Releases \cup {NoValue}, lastRelease : Releases \cup {NoValue}]

(* Types, for any events, issues and budgets.  The tables are finite. *)
IssuesTypeOK ==
    /\ event \in [Events -> Event \cup {NoValue}] /\ IsFiniteSet(Stored)
    /\ DOMAIN issue \subseteq Issues /\ IsFiniteSet(DOMAIN issue)
    /\ issue \in [DOMAIN issue -> IssueRow]
    /\ DOMAIN variants \subseteq Issues \X Variants /\ variants \in [DOMAIN variants -> CountRow]
    /\ DOMAIN releases \subseteq Issues \X Releases /\ IsFiniteSet(DOMAIN releases)
    /\ releases \in [DOMAIN releases -> CountRow]
    /\ stamp \in [Releases -> Stamps \cup {NoValue}]
    /\ daily \in [Keys -> Nat]
    /\ repair # NoValue => DOMAIN repair \subseteq Keys /\ repair \in [DOMAIN repair -> Nat]
    /\ enabled \in BOOLEAN /\ drift \in BOOLEAN
    /\ list \in [open : BOOLEAN, cursor : (Nat \X Nat) \cup {NoValue}, seen : [Issues -> Nat],
                  due : {list.due}]
    /\ \A i \in DOMAIN list.due : list.due[i] \in Nat
    /\ budget \in Budget

(* The CHECK constraints and foreign keys of the three tables admit every   *)
(* row that a publication, a resolution or a repair leaves: no row counts   *)
(* nothing or ends before it begins, what a regressed or resolved issue     *)
(* says of its resolution is there, and no variant or release is left of an *)
(* issue that is not.  A row they refuse would fail the job on every retry. *)
ChecksAdmitRows ==
    LET admitted(row) == row.count > 0 /\ row.first <= row.last
    IN  /\ \A i \in DOMAIN issue :
              /\ admitted(issue[i])
              /\ issue[i].status = "resolved" => issue[i].resolved # NoValue
              /\ issue[i].regression = "resolved" => issue[i].status = "resolved"
              /\ issue[i].regression = "regressed" =>
                    issue[i].status = "open" /\ issue[i].resolved # NoValue
        /\ \A k \in DOMAIN variants : admitted(variants[k]) /\ k[1] \in DOMAIN issue
        /\ \A k \in DOMAIN releases : admitted(releases[k]) /\ k[1] \in DOMAIN issue

(* A grouped event names its issue and variant. *)
GroupsAreNamed ==
    \A e \in Grouped(event) : event[e].issue \in Issues /\ event[e].variant \in Variants

(* An issue was resolved in a release whose build time is known. *)
ResolvedIsStamped ==
    \A i \in DOMAIN issue :
        issue[i].resolved # NoValue => stamp[issue[i].resolved] # NoValue

(* A list that is being read: an issue that has not moved was read once if  *)
(* it is not behind the cursor, and never if it is.                         *)
CursorHolds ==
    list.open =>
        \A i \in DOMAIN list.due :
            /\ i \in DOMAIN issue
            /\ list.due[i] <= issue[i].last
            /\ issue[i].last = list.due[i]
                  => list.seen[i] = (IF i \in Behind(list.cursor) THEN 0 ELSE 1)

IssuesIInv ==
    /\ IssuesTypeOK
    /\ DeltasAreRecounts
    /\ ChecksAdmitRows
    /\ GroupsAreNamed
    /\ ResolvedIsStamped
    /\ CursorHolds
=============================================================================
