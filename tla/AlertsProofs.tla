--------------------------- MODULE AlertsProofs ---------------------------
(* Proofs about Alerts: every transition has its notification, suppressed   *)
(* ones come in pairs and a delivery is final, for any number of rules,     *)
(* scopes, schedulers and workers, and without a bound on generations.      *)
EXTENDS Alerts, FiniteSetTheorems, WellFoundedInduction, TLAPS

Condition0 == [state : {"absent", "active", "inactive"}, generation : Nat]
Keys0 == Rules \X Scopes \X Nat \X Transitions
Copy == [id : Rules, quiet : BOOLEAN, revision : Nat]
Sender0 == [key : Keys0 \cup {None}, attempt : 0..MaxAttempt,
            result : {"none", "ok", "retryable", "permanent", "unknown"}]

(* The types, with generations that are not bounded. *)
TypeInv ==
    /\ rule \in [Rules -> Rule]
    /\ observed \in [Rules -> SUBSET Scopes]
    /\ condition \in [Rules -> [Scopes -> Condition0]]
    /\ DOMAIN delivery \subseteq Keys0
    /\ delivery \in [DOMAIN delivery -> Delivery]
    /\ tick \in [Schedulers -> Tick]
    /\ sender \in [Workers -> Sender0]

(* A tick in progress has a rule, a scope to deal with where it needs one,  *)
(* and clears only conditions that were open.                               *)
TicksHold ==
    \A e \in Schedulers :
        /\ tick[e].phase # "idle" => tick[e].page # <<>>
        /\ tick[e].phase \in {"trigger", "insert", "clear"} => tick[e].todo # {}
        /\ tick[e].phase = "clear" =>
              \A s \in tick[e].todo : condition[Current(e).id][s].state # "absent"

(* Where a recovery was notified, so was the opening it ends, and nothing   *)
(* holds that one back any more.                                            *)
OpeningsKnown ==
    \A r \in Rules, s \in Scopes, g \in Nat :
        <<r, s, g + 1, "recovered">> \in DOMAIN delivery =>
            <<r, s, g, "triggered">> \in DOMAIN delivery /\ ~StillHeld(<<r, s, g, "triggered">>)

IsSuppressed(k) == k \in DOMAIN delivery /\ delivery[k].state = "suppressed"

PairsHold ==
    \A r \in Rules, s \in Scopes, g \in Nat :
        IsSuppressed(<<r, s, g, "triggered">>) <=> IsSuppressed(<<r, s, g + 1, "recovered">>)

(* While no lease of a notification has expired, one worker at most has it, *)
(* with the lease, and nobody took it before that worker sends it.          *)
SendersHold ==
    /\ \A w \in Workers : sender[w].key # None => sender[w].key \in DOMAIN delivery
    /\ \A k \in DOMAIN delivery : ~delivery[k].lapsed =>
          /\ ~delivery[k].expired
          /\ delivery[k].taken <= 1
          /\ delivery[k].state \in {"pending", "failed"} => delivery[k].taken = 0
          /\ \A w \in Workers : sender[w].key = k =>
                /\ delivery[k].state = "leased"
                /\ delivery[k].attempt = sender[w].attempt
                /\ sender[w].result \in {"none", "retryable", "permanent"} => delivery[k].taken = 0
          /\ \A v, w \in Workers : sender[v].key = k /\ sender[w].key = k => v = w

IInv == TypeInv /\ TicksHold /\ OpeningsKnown /\ PairsHold /\ StateIsNotified /\ SendersHold

-----------------------------------------------------------------------------

(* A set of scopes that is not empty has a least and a greatest one.        *)
LEMMA Extremes ==
    ASSUME NEW S \in SUBSET Scopes, S # {}
    PROVE  Min(S) \in S /\ Max(S) \in S
<1>1. \A x \in S : x \in Nat /\ x <= NumScopes
    BY AlertsAssumption DEF Scopes
<1>2. ASSUME NEW T, T \subseteq Nat, T # {} PROVE \E x \in T : \A y \in T : x <= y
  <2> DEFINE Less == {pair \in Nat \X Nat : pair[1] < pair[2]}
  <2>1. IsWellFoundedOn(Less, Nat)
      BY NatLessThanWellFounded DEF OpToRel
  <2> HIDE DEF Less
  <2>2. PICK x \in T : \A y \in T : ~(<<y, x>> \in Less)
      BY <1>2, <2>1, WFMin
  <2>3. ASSUME NEW y \in T PROVE x <= y
    <3>1. x \in Nat /\ y \in Nat
        BY <1>2
    <3>2. y < x => <<y, x>> \in Less
        BY <3>1 DEF Less
    <3> QED BY <2>2, <3>1, <3>2
  <2> QED BY <2>3
<1>3. \E x \in S : \A y \in S : x <= y
    BY <1>1, <1>2
<1>4. \E x \in S : \A y \in S : x >= y
  <2> DEFINE T == {NumScopes - x : x \in S}
  <2>1. T \subseteq Nat /\ T # {}
      BY <1>1, AlertsAssumption
  <2>2. PICK t \in T : \A u \in T : t <= u
      BY <2>1, <1>2
  <2>3. PICK x \in S : t = NumScopes - x
      OBVIOUS
  <2>4. ASSUME NEW y \in S PROVE x >= y
    <3>1. NumScopes - x <= NumScopes - y
        BY <2>2, <2>3
    <3> QED BY <1>1, <3>1, AlertsAssumption
  <2> QED BY <2>4
<1> QED BY <1>3, <1>4 DEF Min, Max

(* What transition_condition writes. *)
Opened(r, s, c) == <<r, s, c.generation - 1, "triggered">>

KeyOf(r, s, c) == <<r, s, c.generation, IF c.state = "active" THEN "triggered" ELSE "recovered">>

LEMMA WriteShape ==
    ASSUME TypeInv, NEW r \in Rules, NEW s \in Scopes, NEW quiet \in BOOLEAN, NEW paired \in BOOLEAN,
           NEW c \in [state : {"active", "inactive"}, generation : Nat],
           Write(r, s, c, quiet, paired)
    PROVE  /\ KeyOf(r, s, c) \in Keys0
           /\ condition' = [condition EXCEPT ![r][s] = c]
           /\ DOMAIN delivery' = DOMAIN delivery \cup {KeyOf(r, s, c)}
           /\ \A k \in DOMAIN delivery :
                 delivery'[k] = IF paired /\ k = Opened(r, s, c)
                                THEN [delivery[k] EXCEPT !.state = "suppressed"]
                                ELSE delivery[k]
           /\ KeyOf(r, s, c) \notin DOMAIN delivery =>
                 \E held \in BOOLEAN :
                    delivery'[KeyOf(r, s, c)] =
                        Notification(IF paired THEN "suppressed" ELSE "pending", held)
           /\ delivery' = [k \in DOMAIN delivery' |-> delivery'[k]]
<1> DEFINE opened == <<r, s, c.generation - 1, "triggered">>
           key == <<r, s, c.generation, IF c.state = "active" THEN "triggered" ELSE "recovered">>
<1>1. key \in Keys0
    BY DEF Keys0, Transitions
<1> DEFINE rows == IF paired THEN [delivery EXCEPT ![opened].state = "suppressed"] ELSE delivery
<1>2. PICK held \in BOOLEAN :
         delivery' = [k \in DOMAIN delivery \cup {key} |->
                        IF k \in DOMAIN delivery THEN rows[k]
                        ELSE Notification(IF paired THEN "suppressed" ELSE "pending", held)]
    BY DEF Write
<1>3. /\ DOMAIN rows = DOMAIN delivery
      /\ \A k \in DOMAIN delivery :
            rows[k] = IF paired /\ k = opened THEN [delivery[k] EXCEPT !.state = "suppressed"]
                      ELSE delivery[k]
    BY DEF TypeInv
<1> HIDE DEF rows
<1> HIDE DEF opened, key
<1>4. condition' = [condition EXCEPT ![r][s] = c]
    BY DEF Write
<1>5. opened = Opened(r, s, c) /\ key = KeyOf(r, s, c)
    BY DEF opened, key, Opened, KeyOf
<1> QED BY <1>1, <1>2, <1>3, <1>4, <1>5

(* A transition: an opening, or the recovery of a condition that was open,  *)
(* paired with the opening when that is still held back.                    *)
LEMMA WriteKeeps ==
    ASSUME TypeInv, OpeningsKnown, PairsHold, StateIsNotified, SendersHold,
           NEW r \in Rules, NEW s \in Scopes, NEW quiet \in BOOLEAN, NEW paired \in BOOLEAN,
           NEW c \in [state : {"active", "inactive"}, generation : Nat],
           Write(r, s, c, quiet, paired), UNCHANGED sender,
           c.state = "active" => ~paired,
           c.state = "inactive" =>
              /\ condition[r][s].state = "active"
              /\ c.generation = condition[r][s].generation + 1
              /\ paired <=> StillHeld(<<r, s, condition[r][s].generation, "triggered">>)
    PROVE  /\ condition' \in [Rules -> [Scopes -> Condition0]]
           /\ DOMAIN delivery' \subseteq Keys0
           /\ delivery' \in [DOMAIN delivery' -> Delivery]
           /\ \A q \in Rules, x \in Scopes :
                 condition[q][x].state # "absent" => condition'[q][x].state # "absent"
           /\ OpeningsKnown' /\ PairsHold' /\ StateIsNotified' /\ SendersHold'
<1> DEFINE opened == Opened(r, s, c)
           key == KeyOf(r, s, c)
           D == DOMAIN delivery
<1>1. /\ key \in Keys0
      /\ condition' = [condition EXCEPT ![r][s] = c]
      /\ DOMAIN delivery' = D \cup {key}
      /\ \A k \in D : delivery'[k] = IF paired /\ k = opened
                                     THEN [delivery[k] EXCEPT !.state = "suppressed"]
                                     ELSE delivery[k]
      /\ key \notin D => \E held \in BOOLEAN :
                           delivery'[key] = Notification(IF paired THEN "suppressed" ELSE "pending", held)
      /\ delivery' = [k \in DOMAIN delivery' |-> delivery'[k]]
    BY WriteShape
<1>2. condition' \in [Rules -> [Scopes -> Condition0]]
    BY <1>1 DEF TypeInv, Condition0
<1>3. /\ condition'[r][s] = c
      /\ \A q \in Rules, x \in Scopes : q # r \/ x # s => condition'[q][x] = condition[q][x]
    BY <1>1 DEF TypeInv
<1>4. \A k \in D : /\ delivery[k] \in Delivery /\ delivery'[k] \in Delivery
                   /\ delivery'[k].attempt = delivery[k].attempt
                   /\ delivery'[k].held = delivery[k].held
                   /\ delivery'[k].taken = delivery[k].taken
                   /\ delivery'[k].expired = delivery[k].expired
                   /\ delivery'[k].lapsed = delivery[k].lapsed
                   /\ delivery'[k].state = IF paired /\ k = opened THEN "suppressed"
                                           ELSE delivery[k].state
    BY <1>1 DEF TypeInv, Delivery, Settled
<1>5. key \notin D =>
         /\ delivery'[key] \in Delivery
         /\ delivery'[key].state = IF paired THEN "suppressed" ELSE "pending"
         /\ delivery'[key].taken = 0 /\ delivery'[key].expired = FALSE
  <2> HAVE key \notin D
  <2>1. PICK held \in BOOLEAN :
           delivery'[key] = Notification(IF paired THEN "suppressed" ELSE "pending", held)
      BY <1>1
  <2> QED BY <2>1, AlertsAssumption DEF Notification, Delivery, Settled
<1>6. delivery' \in [DOMAIN delivery' -> Delivery]
    BY <1>1, <1>4, <1>5
<1>7. DOMAIN delivery' \subseteq Keys0
    BY <1>1 DEF TypeInv
<1>8. c.state = "inactive" => opened \in D /\ opened = <<r, s, condition[r][s].generation, "triggered">>
  <2> HAVE c.state = "inactive"
  <2>1. condition[r][s] \in Condition0
      BY DEF TypeInv
  <2>2. c.generation - 1 = condition[r][s].generation
      BY <2>1 DEF Condition0
  <2> QED BY <2>2 DEF StateIsNotified, Opened
<1> HIDE DEF opened, key
<1>9. StateIsNotified'
  <2> SUFFICES ASSUME NEW q \in Rules, NEW x \in Scopes
               PROVE  /\ condition'[q][x].state = "active" =>
                            <<q, x, condition'[q][x].generation, "triggered">> \in DOMAIN delivery'
                      /\ condition'[q][x].state = "inactive" =>
                            /\ <<q, x, condition'[q][x].generation, "recovered">> \in DOMAIN delivery'
                            /\ <<q, x, condition'[q][x].generation - 1, "triggered">> \in DOMAIN delivery'
      BY DEF StateIsNotified
  <2>1. CASE q = r /\ x = s
      BY <1>1, <1>3, <1>8, <2>1 DEF key, opened, KeyOf, Opened
  <2>2. CASE q # r \/ x # s
      BY <1>1, <1>3, <2>2 DEF StateIsNotified
  <2> QED BY <2>1, <2>2
<1>10. OpeningsKnown'
  <2> SUFFICES ASSUME NEW q \in Rules, NEW x \in Scopes, NEW g \in Nat,
                      <<q, x, g + 1, "recovered">> \in DOMAIN delivery'
               PROVE  /\ <<q, x, g, "triggered">> \in DOMAIN delivery'
                      /\ ~StillHeld(<<q, x, g, "triggered">>)'
      BY DEF OpeningsKnown
  <2> DEFINE t == <<q, x, g, "triggered">>
  <2>1. CASE <<q, x, g + 1, "recovered">> \in D
    <3>1. t \in D /\ ~StillHeld(t)
        BY <2>1 DEF OpeningsKnown
    <3> QED BY <1>1, <1>4, <3>1 DEF StillHeld
  <2>2. CASE <<q, x, g + 1, "recovered">> \notin D
    <3>1. <<q, x, g + 1, "recovered">> = key
        BY <1>1, <2>2
    <3>2. c.state = "inactive" /\ q = r /\ x = s /\ g + 1 = c.generation
        BY <3>1 DEF key, KeyOf
    <3>3. t = opened
        BY <3>2 DEF opened, Opened
    <3> QED BY <1>1, <1>4, <1>8, <3>2, <3>3 DEF StillHeld
  <2> QED BY <2>1, <2>2
<1>11. PairsHold'
  <2> SUFFICES ASSUME NEW q \in Rules, NEW x \in Scopes, NEW g \in Nat
               PROVE  IsSuppressed(<<q, x, g, "triggered">>)' <=>
                      IsSuppressed(<<q, x, g + 1, "recovered">>)'
      BY DEF PairsHold
  <2> DEFINE t == <<q, x, g, "triggered">>
             v == <<q, x, g + 1, "recovered">>
  <2>1. (IsSuppressed(t) <=> IsSuppressed(v)) /\ (v \in D => t \in D /\ ~StillHeld(t))
      BY DEF PairsHold, OpeningsKnown
  <2>2. CASE paired /\ t = opened
    <3>1. v = key
        BY <2>2 DEF opened, key, Opened, KeyOf
    <3>2. t \in D /\ StillHeld(t)
        BY <1>8, <2>2
    <3>3. v \notin D
        BY <2>1, <3>2
    <3> QED BY <1>1, <1>4, <1>5, <2>2, <3>1, <3>2, <3>3 DEF IsSuppressed
  <2>3. CASE ~(paired /\ t = opened)
    <3>1. paired => v # key
        BY <2>3 DEF opened, key, Opened, KeyOf
    <3>2. v # opened
        BY DEF opened, Opened
    <3>3. IsSuppressed(v)' <=> IsSuppressed(v)
        BY <1>1, <1>4, <1>5, <3>1, <3>2 DEF IsSuppressed
    <3>4. paired => t # key
        BY DEF key, KeyOf
    <3>5. IsSuppressed(t)' <=> IsSuppressed(t)
        BY <1>1, <1>4, <1>5, <2>3, <3>4 DEF IsSuppressed
    <3> QED BY <2>1, <3>3, <3>5
  <2> QED BY <2>2, <2>3
<1>12. SendersHold'
  <2>1. \A w \in Workers : sender[w].key # None => sender[w].key \in D
      BY DEF SendersHold
  <2>2. key # None
      BY <1>1, AlertsAssumption DEF Keys0
  <2>3. ASSUME NEW k \in DOMAIN delivery', ~delivery'[k].lapsed
        PROVE  /\ ~delivery'[k].expired
               /\ delivery'[k].taken <= 1
               /\ delivery'[k].state \in {"pending", "failed"} => delivery'[k].taken = 0
               /\ \A w \in Workers : sender[w].key = k =>
                     /\ delivery'[k].state = "leased"
                     /\ delivery'[k].attempt = sender[w].attempt
                     /\ sender[w].result \in {"none", "retryable", "permanent"} =>
                           delivery'[k].taken = 0
               /\ \A v, w \in Workers : sender[v].key = k /\ sender[w].key = k => v = w
    <3>1. CASE k \in D
      <4>1. paired /\ k = opened => delivery[k].state = "pending"
          BY <1>8 DEF StillHeld
      <4> QED BY <1>4, <2>3, <3>1, <4>1 DEF SendersHold
    <3>2. CASE k \notin D
      <4>1. k = key /\ \A w \in Workers : sender[w].key # k
          BY <1>1, <2>1, <2>2, <3>2
      <4> QED BY <1>5, <3>2, <4>1
    <3> QED BY <3>1, <3>2
  <2> QED BY <1>1, <2>1, <2>3 DEF SendersHold
<1> QED BY <1>2, <1>3, <1>6, <1>7, <1>9, <1>10, <1>11, <1>12

(* A step of the outbox that neither suppresses a notification nor holds    *)
(* one back that is still to be claimed.                                    *)
LEMMA RowsKeep ==
    ASSUME OpeningsKnown, PairsHold, StateIsNotified, UNCHANGED condition,
           DOMAIN delivery' = DOMAIN delivery,
           \A k \in DOMAIN delivery :
              /\ delivery'[k].state = "suppressed" <=> delivery[k].state = "suppressed"
              /\ delivery'[k].state = "pending" /\ delivery'[k].held =>
                    delivery[k].state = "pending" /\ delivery[k].held
    PROVE  OpeningsKnown' /\ PairsHold' /\ StateIsNotified'
<1>1. StateIsNotified'
    BY DEF StateIsNotified
<1>2. OpeningsKnown'
    BY DEF OpeningsKnown, StillHeld
<1>3. PairsHold'
    BY DEF PairsHold, IsSuppressed
<1> QED BY <1>1, <1>2, <1>3

-----------------------------------------------------------------------------
(* The scheduler.                                                           *)

(* What a tick must look like. *)
Sound(t) ==
    /\ t.phase # "idle" => t.page # <<>>
    /\ t.phase \in {"trigger", "insert", "clear"} => t.todo # {}

LEMMA CurrentType ==
    ASSUME TypeInv, TicksHold, NEW e \in Schedulers, tick[e].phase # "idle"
    PROVE  /\ tick[e] \in Tick
           /\ tick[e].page \in Seq(Copy) /\ tick[e].page # <<>>
           /\ Current(e) \in Copy
           /\ Current(e).id \in Rules /\ Current(e).quiet \in BOOLEAN
<1>1. tick[e] \in Tick
    BY DEF TypeInv
<1>2. tick[e].page \in Seq(Copy) /\ tick[e].page # <<>>
    BY <1>1 DEF TicksHold, Tick, Copy
<1>3. Current(e) \in Copy
    BY <1>2 DEF Current
<1> QED BY <1>1, <1>2, <1>3 DEF Copy

LEMMA TickKeeps ==
    ASSUME TypeInv, TicksHold, NEW e \in Schedulers, NEW new \in Tick, Sound(new),
           tick' = [tick EXCEPT ![e] = new],
           \A r \in Rules, s \in Scopes :
              condition[r][s].state # "absent" => condition'[r][s].state # "absent",
           new.phase = "clear" => \A s \in new.todo : condition'[Head(new.page).id][s].state # "absent"
    PROVE  tick' \in [Schedulers -> Tick] /\ TicksHold'
<1>1. tick' \in [Schedulers -> Tick]
    BY DEF TypeInv
<1>2. ASSUME NEW x \in Schedulers
      PROVE  /\ tick'[x].phase # "idle" => tick'[x].page # <<>>
             /\ tick'[x].phase \in {"trigger", "insert", "clear"} => tick'[x].todo # {}
             /\ tick'[x].phase = "clear" =>
                   \A s \in tick'[x].todo : condition'[Current(x)'.id][s].state # "absent"
  <2>1. CASE x = e
      BY <2>1 DEF TypeInv, Sound, Current
  <2>2. CASE x # e
    <3>1. tick'[x] = tick[x] /\ Current(x)' = Current(x)
        BY <2>2 DEF TypeInv, Current
    <3>2. ASSUME tick[x].phase = "clear", NEW s \in tick[x].todo
          PROVE  condition'[Current(x).id][s].state # "absent"
      <4>1. Current(x).id \in Rules /\ tick[x] \in Tick
          BY <3>2, CurrentType
      <4>2. s \in Scopes
          BY <3>2, <4>1 DEF Tick
      <4> QED BY <3>2, <4>1, <4>2 DEF TicksHold
    <3> QED BY <3>1, <3>2 DEF TicksHold
  <2> QED BY <2>1, <2>2
<1> QED BY <1>1, <1>2 DEF TicksHold

LEMMA DoneKeeps ==
    ASSUME NEW t \in Tick, NEW s, NEW issue \in BOOLEAN, t.page # <<>>
    PROVE  /\ Done(t, s, issue) \in Tick
           /\ Sound(Done(t, s, issue))
           /\ Done(t, s, issue).page = t.page
           /\ Done(t, s, issue).todo \subseteq t.todo
           /\ Done(t, s, issue).phase = "clear" => t.phase = "clear"
<1> DEFINE rest == t.todo \ {s}
           phase == CASE t.phase \in {"trigger", "insert"} /\ rest # {} -> "trigger"
                      [] t.phase \in {"trigger", "insert"} /\ t.more -> "observe"
                      [] t.phase = "clear" /\ rest # {} -> "clear"
                      [] t.phase = "clear" /\ ~issue -> "finish"
                      [] OTHER -> "recover"
<1>1. Done(t, s, issue) = [t EXCEPT !.todo = rest, !.phase = phase]
    BY DEF Done
<1>2. /\ phase \in {"trigger", "observe", "clear", "finish", "recover"}
      /\ phase \in {"trigger", "clear"} => rest # {}
      /\ phase = "clear" => t.phase = "clear"
    OBVIOUS
<1>3. rest \subseteq t.todo
    OBVIOUS
<1> HIDE DEF rest, phase
<1> QED BY <1>1, <1>2, <1>3 DEF Tick, Sound

(* Openings and recoveries of a tick. *)
LEMMA TransitionKeeps ==
    ASSUME TypeInv, OpeningsKnown, PairsHold, StateIsNotified, SendersHold,
           NEW r \in Rules, NEW s \in Scopes, NEW active \in BOOLEAN, NEW quiet \in BOOLEAN,
           condition[r][s].state # "absent", Transition(r, s, active, quiet), UNCHANGED sender
    PROVE  /\ condition' \in [Rules -> [Scopes -> Condition0]]
           /\ DOMAIN delivery' \subseteq Keys0
           /\ delivery' \in [DOMAIN delivery' -> Delivery]
           /\ \A q \in Rules, x \in Scopes :
                 condition[q][x].state # "absent" => condition'[q][x].state # "absent"
           /\ OpeningsKnown' /\ PairsHold' /\ StateIsNotified' /\ SendersHold'
<1> DEFINE state == IF active THEN "active" ELSE "inactive"
           c == [state |-> state, generation |-> condition[r][s].generation + 1]
           paired == ~active /\ StillHeld(<<r, s, condition[r][s].generation, "triggered">>)
<1>1. CASE condition[r][s].state = state
  <2>1. UNCHANGED <<condition, delivery>>
      BY <1>1 DEF Transition
  <2> QED BY <2>1 DEF TypeInv, OpeningsKnown, StillHeld, PairsHold, IsSuppressed, StateIsNotified,
                      SendersHold
<1>2. CASE condition[r][s].state # state
  <2>1. condition[r][s] \in Condition0
      BY DEF TypeInv
  <2>2. Write(r, s, c, quiet, paired)
      BY <1>2 DEF Transition, NextGeneration
  <2>3. c \in [state : {"active", "inactive"}, generation : Nat]
      BY <2>1 DEF Condition0
  <2>4. /\ c.state = "active" => ~paired
        /\ c.state = "inactive" =>
              /\ condition[r][s].state = "active"
              /\ c.generation = condition[r][s].generation + 1
              /\ paired <=> StillHeld(<<r, s, condition[r][s].generation, "triggered">>)
      BY <1>2, <2>1 DEF Condition0
  <2>5. paired \in BOOLEAN
      OBVIOUS
  <2> HIDE DEF c, paired
  <2> QED BY <2>2, <2>3, <2>4, <2>5, WriteKeeps
<1> QED BY <1>1, <1>2

LEMMA TickIInv ==
    ASSUME IInv, NEW e \in Schedulers, TickStep(e) \/ Abort(e)
    PROVE  IInv'
<1> USE DEF IInv
<1>0. ASSUME UNCHANGED <<rule, observed, condition, delivery, sender>>,
             NEW new \in Tick, Sound(new), new.phase # "clear", tick' = [tick EXCEPT ![e] = new]
      PROVE  IInv'
  <2>1. tick' \in [Schedulers -> Tick] /\ TicksHold'
      BY <1>0, TickKeeps
  <2>2. OpeningsKnown' /\ PairsHold' /\ StateIsNotified' /\ SendersHold'
      BY <1>0 DEF OpeningsKnown, StillHeld, PairsHold, IsSuppressed, StateIsNotified, SendersHold
  <2> QED BY <1>0, <2>1, <2>2 DEF TypeInv
<1>1. IdleTick \in Tick /\ Sound(IdleTick)
    BY AlertsAssumption DEF IdleTick, Tick, Sound
<1>2. CASE Abort(e)
    BY <1>0, <1>1, <1>2 DEF Abort, rules, IdleTick
<1>3. CASE Select(e)
  <2>1. PICK page \in PagesUpTo(RulePage) :
           tick' = [tick EXCEPT ![e] =
                [IdleTick EXCEPT !.phase = "observe",
                   !.page = [i \in DOMAIN page |->
                               [id |-> page[i], quiet |-> rule[page[i]].quiet,
                                revision |-> rule[page[i]].revision]]]]
      BY <1>3 DEF Select
  <2>2. PICK n \in 1..RulePage : page \in [1..n -> {r \in Rules : Evaluable(r)}]
      BY DEF PagesUpTo
  <2> DEFINE copies == [i \in DOMAIN page |->
                          [id |-> page[i], quiet |-> rule[page[i]].quiet,
                           revision |-> rule[page[i]].revision]]
             new == [IdleTick EXCEPT !.phase = "observe", !.page = copies]
  <2>3. n \in Nat \ {0}
      BY AlertsAssumption
  <2>4. \A i \in 1..n : page[i] \in Rules /\ rule[page[i]] \in Rule
      BY <2>2 DEF TypeInv
  <2>5. copies \in [1..n -> Copy]
      BY <2>2, <2>4 DEF Copy, Rule
  <2>6. copies \in Seq(Copy) /\ copies # <<>>
      BY <2>3, <2>5
  <2> HIDE DEF copies
  <2>7. new \in Tick /\ Sound(new) /\ new.phase = "observe"
    <3>1. new \in Tick
        BY <1>1, <2>6 DEF Tick, Copy
    <3>2. new.phase = "observe"
        BY DEF IdleTick
    <3>3. new.page = copies
        BY DEF IdleTick
    <3> QED BY <2>6, <3>1, <3>2, <3>3 DEF Sound
  <2>8. tick' = [tick EXCEPT ![e] = new]
      BY <2>1 DEF copies
  <2> HIDE DEF new
  <2> QED BY <1>0, <1>3, <2>7, <2>8 DEF Select, rules
<1>4. CASE Observe(e)
  <2> DEFINE r == Current(e).id
             found == Observed(r, tick[e].cursor)
             more == r \in IssueRules /\ Cardinality(found) = IssuePage
             new == [tick[e] EXCEPT !.phase = IF found = {} THEN "recover" ELSE "trigger",
                        !.todo = found, !.seen = tick[e].seen \cup found, !.more = more,
                        !.cursor = IF more THEN Max(found) ELSE tick[e].cursor]
  <2>1. tick[e] \in Tick /\ tick[e].page # <<>> /\ r \in Rules
      BY <1>4, CurrentType DEF Observe
  <2>2. found \subseteq Scopes
      BY <2>1 DEF Observed, TypeInv
  <2>3. more => Max(found) \in 0..NumScopes
    <3> HAVE more
    <3>1. found # {}
        BY FS_EmptySet, AlertsAssumption
    <3>2. Max(found) \in Scopes
        BY <2>2, <3>1, Extremes
    <3> QED BY <3>2, AlertsAssumption DEF Scopes
  <2>4. more \in BOOLEAN
      OBVIOUS
  <2>6. tick' = [tick EXCEPT ![e] = new]
      BY <1>4, Zenon DEF Observe
  <2> HIDE DEF found, more
  <2>5. new \in Tick /\ Sound(new) /\ new.phase # "clear"
      BY <2>1, <2>2, <2>3, <2>4 DEF Tick, Sound
  <2> HIDE DEF new
  <2> QED BY <1>0, <1>4, <2>5, <2>6 DEF Observe, rules
<1>5. ASSUME tick[e].phase \in {"trigger", "insert", "clear"}
      PROVE  Min(tick[e].todo) \in tick[e].todo /\ Min(tick[e].todo) \in Scopes
  <2>1. tick[e].todo \subseteq Scopes /\ tick[e].todo # {}
      BY <1>5 DEF TypeInv, Tick, TicksHold
  <2> QED BY <2>1, Extremes
<1>6. ASSUME UNCHANGED <<rule, observed, sender>>, tick[e].phase \in {"trigger", "insert", "clear"},
             NEW s, tick' = [tick EXCEPT ![e] = Done(@, s, Current(e).id \in IssueRules)],
             condition' \in [Rules -> [Scopes -> Condition0]],
             DOMAIN delivery' \subseteq Keys0,
             delivery' \in [DOMAIN delivery' -> Delivery],
             \A q \in Rules, x \in Scopes :
                condition[q][x].state # "absent" => condition'[q][x].state # "absent",
             OpeningsKnown' /\ PairsHold' /\ StateIsNotified' /\ SendersHold'
      PROVE  IInv'
  <2> DEFINE new == Done(tick[e], s, Current(e).id \in IssueRules)
  <2>1. tick[e] \in Tick /\ tick[e].page # <<>> /\ Current(e).id \in Rules
      BY <1>6, CurrentType
  <2>2. /\ new \in Tick /\ Sound(new) /\ new.page = tick[e].page
        /\ new.todo \subseteq tick[e].todo
        /\ new.phase = "clear" => tick[e].phase = "clear"
    <3>1. (Current(e).id \in IssueRules) \in BOOLEAN
        OBVIOUS
    <3> QED BY <2>1, <3>1, DoneKeeps, Zenon
  <2>3. tick' = [tick EXCEPT ![e] = new]
      BY <1>6
  <2> HIDE DEF new
  <2>4. new.phase = "clear" => \A x \in new.todo : condition'[Head(new.page).id][x].state # "absent"
      BY <1>6, <2>1, <2>2 DEF TicksHold, Current, Tick
  <2>5. tick' \in [Schedulers -> Tick] /\ TicksHold'
      BY <1>6, <2>2, <2>3, <2>4, TickKeeps
  <2> QED BY <1>6, <2>5 DEF TypeInv
<1>7. CASE Trigger(e)
  <2> DEFINE r == Current(e).id
             s == Min(tick[e].todo)
  <2>1. r \in Rules /\ s \in Scopes /\ Current(e).quiet \in BOOLEAN /\ tick[e] \in Tick
           /\ tick[e].phase = "trigger" /\ tick[e].page # <<>> /\ tick[e].todo # {}
      BY <1>5, <1>7, CurrentType DEF Trigger, TicksHold
  <2>2. CASE condition[r][s].state = "absent"
    <3> DEFINE new == [tick[e] EXCEPT !.phase = "insert"]
    <3>1. new \in Tick /\ Sound(new) /\ new.phase # "clear"
        BY <2>1 DEF Tick, Sound
    <3>2. tick' = [tick EXCEPT ![e] = new]
        BY <1>7, <2>2 DEF Trigger
    <3> HIDE DEF new
    <3> QED BY <1>0, <1>7, <2>2, <3>1, <3>2 DEF Trigger, rules
  <2>3. CASE condition[r][s].state # "absent"
    <3>1. /\ Transition(r, s, TRUE, Current(e).quiet)
          /\ UNCHANGED <<rule, observed, sender>>
          /\ tick' = [tick EXCEPT ![e] = Done(@, s, r \in IssueRules)]
        BY <1>7, <2>3 DEF Trigger, rules
    <3> HIDE DEF r, s
    <3>2. /\ condition' \in [Rules -> [Scopes -> Condition0]]
          /\ DOMAIN delivery' \subseteq Keys0
          /\ delivery' \in [DOMAIN delivery' -> Delivery]
          /\ \A q \in Rules, x \in Scopes :
                condition[q][x].state # "absent" => condition'[q][x].state # "absent"
          /\ OpeningsKnown' /\ PairsHold' /\ StateIsNotified' /\ SendersHold'
        BY <2>1, <2>3, <3>1, TransitionKeeps
    <3> QED BY <1>6, <2>1, <3>1, <3>2 DEF r
  <2> QED BY <2>2, <2>3
<1>8. CASE Clear(e)
  <2> DEFINE r == Current(e).id
             s == Min(tick[e].todo)
  <2>1. r \in Rules /\ s \in Scopes /\ Current(e).quiet \in BOOLEAN
           /\ tick[e].phase = "clear" /\ condition[r][s].state # "absent"
      BY <1>5, <1>8, CurrentType DEF Clear, TicksHold
  <2>2. /\ Transition(r, s, FALSE, Current(e).quiet)
        /\ UNCHANGED <<rule, observed, sender>>
        /\ tick' = [tick EXCEPT ![e] = Done(@, s, r \in IssueRules)]
      BY <1>8 DEF Clear, rules
  <2> HIDE DEF r, s
  <2>3. /\ condition' \in [Rules -> [Scopes -> Condition0]]
        /\ DOMAIN delivery' \subseteq Keys0
        /\ delivery' \in [DOMAIN delivery' -> Delivery]
        /\ \A q \in Rules, x \in Scopes :
              condition[q][x].state # "absent" => condition'[q][x].state # "absent"
        /\ OpeningsKnown' /\ PairsHold' /\ StateIsNotified' /\ SendersHold'
      BY <2>1, <2>2, TransitionKeeps
  <2> QED BY <1>6, <2>1, <2>2, <2>3 DEF r
<1>9. CASE Insert(e)
  <2> DEFINE r == Current(e).id
             s == Min(tick[e].todo)
             c == [state |-> "active", generation |-> 1]
  <2>1. r \in Rules /\ s \in Scopes /\ Current(e).quiet \in BOOLEAN /\ tick[e].phase = "insert"
      BY <1>5, <1>9, CurrentType DEF Insert
  <2>2. /\ Write(r, s, c, Current(e).quiet, FALSE)
        /\ UNCHANGED <<rule, observed, sender>>
        /\ tick' = [tick EXCEPT ![e] = Done(@, s, r \in IssueRules)]
      BY <1>9 DEF Insert, rules
  <2>3. c \in [state : {"active", "inactive"}, generation : Nat] /\ c.state = "active"
      OBVIOUS
  <2> HIDE DEF r, s, c
  <2>4. /\ condition' \in [Rules -> [Scopes -> Condition0]]
        /\ DOMAIN delivery' \subseteq Keys0
        /\ delivery' \in [DOMAIN delivery' -> Delivery]
        /\ \A q \in Rules, x \in Scopes :
              condition[q][x].state # "absent" => condition'[q][x].state # "absent"
        /\ OpeningsKnown' /\ PairsHold' /\ StateIsNotified' /\ SendersHold'
      BY <2>1, <2>2, <2>3, WriteKeeps
  <2> QED BY <1>6, <2>1, <2>2, <2>4 DEF r
<1>10. CASE Recover(e)
  <2> DEFINE r == Current(e).id
             gone == {s \in Scopes : condition[r][s].state = "active" /\ Absent(e, r, s)}
             new == [tick[e] EXCEPT !.todo = gone, !.phase = IF gone = {} THEN "finish" ELSE "clear"]
  <2>1. tick[e] \in Tick /\ tick[e].page # <<>> /\ r \in Rules
      BY <1>10, CurrentType DEF Recover
  <2>2. tick' = [tick EXCEPT ![e] = new]
      BY <1>10, <2>1 DEF Recover, TypeInv
  <2>3. gone \subseteq Scopes /\ \A s \in gone : condition[r][s].state = "active"
      OBVIOUS
  <2> HIDE DEF gone
  <2>4. new \in Tick /\ Sound(new) /\ new.page = tick[e].page /\ new.todo = gone
      BY <2>1, <2>3 DEF Tick, Sound
  <2> HIDE DEF new
  <2>5. UNCHANGED <<rule, observed, condition, delivery, sender>>
      BY <1>10 DEF Recover, rules
  <2>6. tick' \in [Schedulers -> Tick] /\ TicksHold'
      BY <2>2, <2>3, <2>4, <2>5, TickKeeps DEF Current
  <2>7. OpeningsKnown' /\ PairsHold' /\ StateIsNotified' /\ SendersHold'
      BY <2>5 DEF OpeningsKnown, StillHeld, PairsHold, IsSuppressed, StateIsNotified, SendersHold
  <2> QED BY <2>5, <2>6, <2>7 DEF TypeInv
<1>11. CASE Finish(e)
  <2> DEFINE rest == Tail(tick[e].page)
             new == IF rest = <<>> THEN IdleTick
                    ELSE [IdleTick EXCEPT !.phase = "observe", !.page = rest]
  <2>1. tick[e].page \in Seq(Copy) /\ tick[e].page # <<>>
      BY <1>11, CurrentType DEF Finish
  <2>2. rest \in Seq(Copy)
      BY <2>1
  <2> HIDE DEF rest
  <2>3. new \in Tick /\ Sound(new) /\ new.phase # "clear"
      BY <1>1, <2>2, AlertsAssumption DEF IdleTick, Tick, Sound, Copy
  <2>4. tick' = [tick EXCEPT ![e] = new]
      BY <1>11 DEF Finish, rest
  <2> HIDE DEF new
  <2> QED BY <1>0, <1>11, <2>3, <2>4 DEF Finish
<1> QED BY <1>2, <1>3, <1>4, <1>7, <1>8, <1>9, <1>10, <1>11 DEF TickStep

-----------------------------------------------------------------------------
(* The outbox.                                                              *)

(* A row that a step of the outbox changes. *)
LEMMA RowIInv ==
    ASSUME IInv, UNCHANGED <<rule, observed, condition, tick>>,
           NEW k \in DOMAIN delivery, NEW new \in Delivery, delivery' = [delivery EXCEPT ![k] = new],
           new.state = "suppressed" <=> delivery[k].state = "suppressed",
           new.state = "pending" /\ new.held => delivery[k].state = "pending" /\ delivery[k].held,
           sender' \in [Workers -> Sender0], SendersHold'
    PROVE  IInv'
<1>1. /\ DOMAIN delivery' = DOMAIN delivery
      /\ delivery'[k] = new
      /\ \A x \in DOMAIN delivery : x # k => delivery'[x] = delivery[x]
    BY DEF IInv, TypeInv
<1>2. OpeningsKnown' /\ PairsHold' /\ StateIsNotified'
  <2>1. \A x \in DOMAIN delivery :
           /\ delivery'[x].state = "suppressed" <=> delivery[x].state = "suppressed"
           /\ delivery'[x].state = "pending" /\ delivery'[x].held =>
                 delivery[x].state = "pending" /\ delivery[x].held
      BY <1>1
  <2> QED BY <1>1, <2>1, RowsKeep DEF IInv
<1>3. delivery' \in [DOMAIN delivery' -> Delivery] /\ DOMAIN delivery' \subseteq Keys0
    BY <1>1 DEF IInv, TypeInv
<1>4. TicksHold'
    BY DEF IInv, TicksHold, Current
<1> QED BY <1>2, <1>3, <1>4 DEF IInv, TypeInv

LEMMA NoneIsNoKey == \A k \in Keys0 : k # None
    BY AlertsAssumption DEF Keys0

LEMMA DeliveryIInv ==
    ASSUME IInv, NEW k \in DOMAIN delivery, DeliveryStep(k)
    PROVE  IInv'
<1>0. delivery[k] \in Delivery /\ k # None /\ sender \in [Workers -> Sender0]
    BY NoneIsNoKey DEF IInv, TypeInv
<1>1. CASE BecomeAvailable(k)
  <2> DEFINE new == [delivery[k] EXCEPT !.held = FALSE]
  <2>1. new \in Delivery /\ delivery' = [delivery EXCEPT ![k] = new]
      BY <1>0, <1>1 DEF Delivery, BecomeAvailable
  <2>2. SendersHold'
      BY <1>0, <1>1 DEF IInv, TypeInv, SendersHold, BecomeAvailable, Delivery
  <2>3. /\ new.state = "suppressed" <=> delivery[k].state = "suppressed"
        /\ ~new.held
      BY <1>0 DEF Delivery
  <2> HIDE DEF new
  <2> QED BY <1>0, <1>1, <2>1, <2>2, <2>3, RowIInv DEF BecomeAvailable, rules
<1>2. CASE Expire(k)
  <2> DEFINE new == [delivery[k] EXCEPT !.expired = TRUE, !.lapsed = TRUE]
  <2>1. new \in Delivery /\ delivery' = [delivery EXCEPT ![k] = new]
      BY <1>0, <1>2 DEF Delivery, Expire, IInv, TypeInv
  <2>2. SendersHold'
      BY <1>0, <1>2 DEF IInv, TypeInv, SendersHold, Expire, Delivery
  <2>3. new.state = delivery[k].state /\ new.held = delivery[k].held
      BY <1>0 DEF Delivery
  <2> HIDE DEF new
  <2> QED BY <1>0, <1>2, <2>1, <2>2, <2>3, RowIInv DEF Expire, rules
<1>3. CASE Bury(k)
  <2> DEFINE new == [delivery[k] EXCEPT !.state = "dead", !.expired = FALSE]
  <2>1. new \in Delivery /\ delivery' = [delivery EXCEPT ![k] = new]
      BY <1>0, <1>3 DEF Delivery, Settled, Bury, IInv, TypeInv
  <2>2. delivery[k].state = "leased" /\ delivery[k].expired
      BY <1>3 DEF Bury, Candidate, Final
  <2>3. SendersHold'
      BY <1>0, <1>3, <2>2 DEF IInv, TypeInv, SendersHold, Bury, Delivery
  <2>4. new.state = "dead"
      BY <1>0 DEF Delivery
  <2> HIDE DEF new
  <2> QED BY <1>0, <1>3, <2>1, <2>2, <2>3, <2>4, RowIInv DEF Bury, rules
<1>4. ASSUME NEW w \in Workers, Claim(w, k) PROVE IInv'
  <2> DEFINE new == [delivery[k] EXCEPT !.state = "leased", !.expired = FALSE,
                                        !.attempt = delivery[k].attempt + 1]
             held == [key |-> k, attempt |-> delivery[k].attempt + 1, result |-> "none"]
  <2>1. /\ delivery[k].attempt + 1 \in 0..MaxAttempt
        /\ delivery[k].state \in {"pending", "failed"} \/ delivery[k].expired
        /\ delivery[k].state \in {"pending", "failed", "leased"}
        /\ sender[w].key = None
      BY <1>0, <1>4, AlertsAssumption DEF Claim, Candidate, Final, Delivery
  <2>2. new \in Delivery /\ delivery' = [delivery EXCEPT ![k] = new]
      BY <1>0, <1>4, <2>1 DEF Delivery, Claim, IInv, TypeInv
  <2>3. held \in Sender0 /\ sender' = [sender EXCEPT ![w] = held]
      BY <1>0, <1>4, <2>1 DEF Sender0, Claim, IInv, TypeInv
  <2>4. sender' \in [Workers -> Sender0]
      BY <1>0, <2>3
  <2>5. /\ new.state = "leased" /\ new.attempt = delivery[k].attempt + 1
        /\ new.taken = delivery[k].taken /\ new.lapsed = delivery[k].lapsed /\ ~new.expired
      BY <1>0 DEF Delivery
  <2>6. /\ DOMAIN delivery' = DOMAIN delivery
        /\ delivery'[k] = new
        /\ \A x \in DOMAIN delivery : x # k => delivery'[x] = delivery[x]
        /\ sender'[w] = held
        /\ \A v \in Workers : v # w => sender'[v] = sender[v]
      BY <1>0, <2>2, <2>3 DEF IInv, TypeInv
  <2>7. held.key = k /\ held.attempt = delivery[k].attempt + 1 /\ held.result = "none"
      OBVIOUS
  <2> HIDE DEF new, held
  <2>8. ~delivery[k].lapsed => delivery[k].taken = 0 /\ \A v \in Workers : sender[v].key # k
      BY <2>1 DEF IInv, SendersHold
  <2>9. SendersHold'
    <3>1. ASSUME NEW v \in Workers, sender'[v].key # None PROVE sender'[v].key \in DOMAIN delivery'
        BY <2>6, <2>7, <3>1 DEF IInv, SendersHold
    <3>2. ASSUME NEW x \in DOMAIN delivery', ~delivery'[x].lapsed
          PROVE  /\ ~delivery'[x].expired
                 /\ delivery'[x].taken <= 1
                 /\ delivery'[x].state \in {"pending", "failed"} => delivery'[x].taken = 0
                 /\ \A v \in Workers : sender'[v].key = x =>
                       /\ delivery'[x].state = "leased"
                       /\ delivery'[x].attempt = sender'[v].attempt
                       /\ sender'[v].result \in {"none", "retryable", "permanent"} =>
                             delivery'[x].taken = 0
                 /\ \A u, v \in Workers : sender'[u].key = x /\ sender'[v].key = x => u = v
      <4>1. CASE x = k
          BY <2>5, <2>6, <2>7, <2>8, <3>2, <4>1
      <4>2. CASE x # k
          BY <2>6, <2>7, <3>2, <4>2 DEF IInv, SendersHold
      <4> QED BY <4>1, <4>2
    <3> QED BY <3>1, <3>2 DEF SendersHold
  <2> QED BY <1>4, <2>1, <2>2, <2>4, <2>5, <2>9, RowIInv DEF Claim, rules
<1> QED BY <1>1, <1>2, <1>3, <1>4 DEF DeliveryStep

LEMMA SenderIInv ==
    ASSUME IInv, NEW w \in Workers, Send(w) \/ FinishDelivery(w) \/ Drop(w)
    PROVE  IInv'
<1> DEFINE k == sender[w].key
<1>0. /\ k \in DOMAIN delivery /\ k # None /\ delivery[k] \in Delivery
      /\ sender \in [Workers -> Sender0] /\ sender[w] \in Sender0
    BY DEF IInv, TypeInv, SendersHold, Send, FinishDelivery, Drop
<1> HIDE DEF k
<1>a. IdleSender \in Sender0 /\ IdleSender.key = None
    BY AlertsAssumption DEF IdleSender, Sender0
<1>1. CASE Send(w)
  <2>1. PICK o \in Outcomes :
           /\ sender' = [sender EXCEPT ![w].result = o[1]]
           /\ delivery' = [delivery EXCEPT ![k].taken = @ + o[2]]
      BY <1>1 DEF Send, Outcomes, k
  <2>2. /\ o[1] \in {"ok", "retryable", "permanent", "unknown"} /\ o[2] \in {0, 1}
        /\ o[1] \in {"retryable", "permanent"} => o[2] = 0
      BY DEF Outcomes
  <2> DEFINE new == [delivery[k] EXCEPT !.taken = delivery[k].taken + o[2]]
             sent == [sender[w] EXCEPT !.result = o[1]]
  <2>3. new \in Delivery /\ sent \in Sender0
      BY <1>0, <2>2 DEF Delivery, Sender0
  <2>4. /\ delivery' = [delivery EXCEPT ![k] = new]
        /\ sender' = [sender EXCEPT ![w] = sent]
      BY <1>0, <2>1 DEF IInv, TypeInv
  <2>5. /\ new.state = delivery[k].state /\ new.held = delivery[k].held
        /\ new.attempt = delivery[k].attempt /\ new.taken = delivery[k].taken + o[2]
        /\ new.lapsed = delivery[k].lapsed /\ new.expired = delivery[k].expired
        /\ delivery[k].taken \in Nat
      BY <1>0 DEF Delivery
  <2>6. sent.key = k /\ sent.attempt = sender[w].attempt /\ sent.result = o[1]
      BY <1>0 DEF Sender0, k
  <2>7. /\ DOMAIN delivery' = DOMAIN delivery
        /\ delivery'[k] = new
        /\ \A x \in DOMAIN delivery : x # k => delivery'[x] = delivery[x]
        /\ sender'[w] = sent
        /\ \A v \in Workers : v # w => sender'[v] = sender[v]
      BY <1>0, <2>4 DEF IInv, TypeInv
  <2>8. sender[w].result = "none"
      BY <1>1 DEF Send
  <2> HIDE DEF new, sent
  <2>9. sender' \in [Workers -> Sender0]
      BY <1>0, <2>3, <2>4
  <2>10. ~delivery[k].lapsed => /\ delivery[k].taken = 0 /\ delivery[k].state = "leased"
                                /\ delivery[k].attempt = sender[w].attempt /\ ~delivery[k].expired
                                /\ \A v \in Workers : sender[v].key = k => v = w
      BY <1>0, <2>8 DEF IInv, SendersHold, k
  <2>11. SendersHold'
    <3>1. ASSUME NEW v \in Workers, sender'[v].key # None PROVE sender'[v].key \in DOMAIN delivery'
        BY <1>0, <2>6, <2>7, <3>1 DEF IInv, SendersHold
    <3>2. ASSUME NEW x \in DOMAIN delivery', ~delivery'[x].lapsed
          PROVE  /\ ~delivery'[x].expired
                 /\ delivery'[x].taken <= 1
                 /\ delivery'[x].state \in {"pending", "failed"} => delivery'[x].taken = 0
                 /\ \A v \in Workers : sender'[v].key = x =>
                       /\ delivery'[x].state = "leased"
                       /\ delivery'[x].attempt = sender'[v].attempt
                       /\ sender'[v].result \in {"none", "retryable", "permanent"} =>
                             delivery'[x].taken = 0
                 /\ \A u, v \in Workers : sender'[u].key = x /\ sender'[v].key = x => u = v
      <4>1. CASE x = k
          BY <2>2, <2>5, <2>6, <2>7, <2>10, <3>2, <4>1
      <4>2. CASE x # k
          BY <2>6, <2>7, <3>2, <4>2 DEF IInv, SendersHold
      <4> QED BY <4>1, <4>2
    <3> QED BY <3>1, <3>2 DEF SendersHold
  <2> QED BY <1>0, <1>1, <2>3, <2>4, <2>5, <2>9, <2>11, RowIInv DEF Send, rules
<1>2. CASE FinishDelivery(w)
  <2> DEFINE state == Outcome(sender[w].result, sender[w].attempt)
             new == IF Fenced(w)
                    THEN [delivery[k] EXCEPT !.state = state, !.expired = FALSE,
                                             !.held = (state = "failed")]
                    ELSE delivery[k]
  <2>1. /\ state \in {"delivered", "failed", "unknown", "dead"}
        /\ state = "failed" => sender[w].result = "retryable"
        /\ sender[w].result # "none"
      BY <1>2 DEF Outcome, FinishDelivery
  <2>2. Fenced(w) => delivery[k].state = "leased" /\ delivery[k].attempt = sender[w].attempt
      BY DEF Fenced, k
  <2>3. delivery' = [delivery EXCEPT ![k] = new] /\ sender' = [sender EXCEPT ![w] = IdleSender]
      BY <1>0, <1>2 DEF FinishDelivery, IInv, TypeInv, k
  <2> HIDE DEF state
  <2>4. /\ new \in Delivery
        /\ new.taken = delivery[k].taken /\ new.lapsed = delivery[k].lapsed
        /\ new.attempt = delivery[k].attempt
        /\ Fenced(w) => new.state = state /\ ~new.expired
        /\ ~Fenced(w) => new = delivery[k]
      BY <1>0, <2>1 DEF Delivery, Settled
  <2> HIDE DEF new
  <2>5. /\ DOMAIN delivery' = DOMAIN delivery
        /\ delivery'[k] = new
        /\ \A x \in DOMAIN delivery : x # k => delivery'[x] = delivery[x]
        /\ sender'[w].key = None
        /\ \A v \in Workers : v # w => sender'[v] = sender[v]
        /\ sender' \in [Workers -> Sender0]
      BY <1>0, <1>a, <2>3 DEF IInv, TypeInv
  <2>6. ~delivery[k].lapsed => /\ delivery[k].state = "leased" /\ ~delivery[k].expired
                               /\ delivery[k].taken <= 1
                               /\ sender[w].result = "retryable" => delivery[k].taken = 0
                               /\ \A v \in Workers : sender[v].key = k => v = w
      BY <1>0 DEF IInv, SendersHold, k
  <2>7. SendersHold'
    <3>1. ASSUME NEW v \in Workers, sender'[v].key # None PROVE sender'[v].key \in DOMAIN delivery'
        BY <1>0, <2>5, <3>1 DEF IInv, SendersHold
    <3>2. ASSUME NEW x \in DOMAIN delivery', ~delivery'[x].lapsed
          PROVE  /\ ~delivery'[x].expired
                 /\ delivery'[x].taken <= 1
                 /\ delivery'[x].state \in {"pending", "failed"} => delivery'[x].taken = 0
                 /\ \A v \in Workers : sender'[v].key = x =>
                       /\ delivery'[x].state = "leased"
                       /\ delivery'[x].attempt = sender'[v].attempt
                       /\ sender'[v].result \in {"none", "retryable", "permanent"} =>
                             delivery'[x].taken = 0
                 /\ \A u, v \in Workers : sender'[u].key = x /\ sender'[v].key = x => u = v
      <4>1. CASE x = k
          BY <1>0, <2>1, <2>4, <2>5, <2>6, <3>2, <4>1
      <4>2. CASE x # k
          BY <1>0, <2>5, <3>2, <4>2, NoneIsNoKey DEF IInv, SendersHold, TypeInv
      <4> QED BY <4>1, <4>2
    <3> QED BY <3>1, <3>2 DEF SendersHold
  <2>8. /\ new.state = "suppressed" <=> delivery[k].state = "suppressed"
        /\ new.state = "pending" /\ new.held => delivery[k].state = "pending" /\ delivery[k].held
      BY <2>1, <2>2, <2>4
  <2>9. UNCHANGED <<rule, observed, condition, tick>>
      BY <1>2 DEF FinishDelivery, rules
  <2> QED BY <1>0, <2>3, <2>4, <2>5, <2>7, <2>8, <2>9, RowIInv
<1>3. CASE Drop(w)
  <2>1. UNCHANGED <<rule, observed, condition, delivery, tick>>
      BY <1>3 DEF Drop, rules
  <2>2. /\ sender' \in [Workers -> Sender0] /\ sender'[w].key = None
        /\ \A v \in Workers : v # w => sender'[v] = sender[v]
      BY <1>0, <1>3, <1>a DEF Drop
  <2>3. SendersHold'
    <3>1. \A x \in DOMAIN delivery : x # None
        BY NoneIsNoKey DEF IInv, TypeInv
    <3> QED BY <2>1, <2>2, <3>1 DEF IInv, SendersHold
  <2>4. OpeningsKnown' /\ PairsHold' /\ StateIsNotified' /\ TicksHold'
      BY <2>1 DEF IInv, OpeningsKnown, StillHeld, PairsHold, IsSuppressed, StateIsNotified,
                  TicksHold, Current
  <2> QED BY <2>1, <2>2, <2>3, <2>4 DEF IInv, TypeInv
<1> QED BY <1>1, <1>2, <1>3

-----------------------------------------------------------------------------

(* The control API leaves conditions, notifications and ticks alone. *)
LEMMA AdminIInv ==
    ASSUME IInv, AdminStep
    PROVE  IInv'
<1>1. UNCHANGED <<condition, delivery, tick, sender>>
    BY DEF AdminStep, CreateIntegration, UpdateIntegration, CreateRule, UpdateRule, Change
<1>2. rule' \in [Rules -> Rule] /\ observed' \in [Rules -> SUBSET Scopes]
  <2>1. CASE CreateIntegration \/ UpdateIntegration
      BY <2>1 DEF CreateIntegration, UpdateIntegration, IInv, TypeInv
  <2>2. ASSUME NEW r \in Rules, CreateRule(r) PROVE rule' \in [Rules -> Rule] /\ observed' \in [Rules -> SUBSET Scopes]
      BY <2>2 DEF CreateRule, IInv, TypeInv, Rule
  <2>3. ASSUME NEW r \in Rules, UpdateRule(r) PROVE rule' \in [Rules -> Rule] /\ observed' \in [Rules -> SUBSET Scopes]
    <3>1. PICK state \in {"enabled", "disabled"}, quiet \in BOOLEAN :
             rule' = [rule EXCEPT ![r] = [state |-> state, quiet |-> quiet,
                                          revision |-> rule[r].revision + 1]]
        BY <2>3 DEF UpdateRule, IInv, TypeInv
    <3>2. rule[r] \in Rule
        BY DEF IInv, TypeInv
    <3>3. [state |-> state, quiet |-> quiet, revision |-> rule[r].revision + 1] \in Rule
        BY <3>2 DEF Rule
    <3> QED BY <2>3, <3>1, <3>3 DEF UpdateRule, IInv, TypeInv
  <2>4. ASSUME NEW r \in Rules, NEW s \in Scopes, Change(r, s) PROVE rule' \in [Rules -> Rule] /\ observed' \in [Rules -> SUBSET Scopes]
      BY <2>4 DEF Change, IInv, TypeInv
  <2> QED BY <2>1, <2>2, <2>3, <2>4 DEF AdminStep
<1>3. OpeningsKnown' /\ PairsHold' /\ StateIsNotified' /\ SendersHold' /\ TicksHold'
    BY <1>1 DEF IInv, OpeningsKnown, StillHeld, PairsHold, IsSuppressed, StateIsNotified,
                SendersHold, TicksHold, Current
<1> QED BY <1>1, <1>2, <1>3 DEF IInv, TypeInv

LEMMA InitIInv == Init => IInv
<1> HAVE Init
<1>1. DOMAIN delivery = {}
    BY DEF Init
<1>2. TypeInv
  <2>1. IdleTick \in Tick
      BY AlertsAssumption DEF IdleTick, Tick
  <2>2. IdleSender \in Sender0
      BY AlertsAssumption DEF IdleSender, Sender0
  <2>3. rule \in [Rules -> Rule] /\ observed \in [Rules -> SUBSET Scopes]
      BY DEF Init, Rule
  <2>4. condition \in [Rules -> [Scopes -> Condition0]]
      BY DEF Init, Condition0
  <2>5. delivery \in [DOMAIN delivery -> Delivery] /\ DOMAIN delivery \subseteq Keys0
      BY <1>1 DEF Init
  <2> QED BY <2>1, <2>2, <2>3, <2>4, <2>5 DEF Init, TypeInv
<1>3. TicksHold
    BY DEF Init, TicksHold, IdleTick
<1>4. StateIsNotified
    BY DEF Init, StateIsNotified
<1>5. OpeningsKnown /\ PairsHold
    BY <1>1 DEF OpeningsKnown, PairsHold, IsSuppressed
<1>6. SendersHold
    BY <1>1 DEF Init, SendersHold, IdleSender
<1> QED BY <1>2, <1>3, <1>4, <1>5, <1>6 DEF IInv

LEMMA NextIInv == IInv /\ [Next]_vars => IInv'
<1> SUFFICES ASSUME IInv, [Next]_vars PROVE IInv'
    OBVIOUS
<1>1. CASE UNCHANGED vars
    BY <1>1 DEF vars, IInv, TypeInv, OpeningsKnown, StillHeld, PairsHold, IsSuppressed,
                StateIsNotified, SendersHold, TicksHold, Current
<1>2. CASE AdminStep
    BY <1>2, AdminIInv
<1>3. ASSUME NEW e \in Schedulers, TickStep(e) \/ Abort(e) PROVE IInv'
    BY <1>3, TickIInv
<1>4. ASSUME NEW k \in DOMAIN delivery, DeliveryStep(k) PROVE IInv'
    BY <1>4, DeliveryIInv
<1>5. ASSUME NEW w \in Workers, Send(w) \/ FinishDelivery(w) \/ Drop(w) PROVE IInv'
    BY <1>5, SenderIInv
<1> QED BY <1>1, <1>2, <1>3, <1>4, <1>5 DEF Next

(* The inductive invariant, of every behaviour. *)
THEOREM InductiveInvariant == Spec => []IInv
<1> QED BY InitIInv, NextIInv, PTL DEF Spec

(* transition_condition: the present state of every condition has its       *)
(* notification, and a recovery that of the opening it ends.                *)
THEOREM StateIsNotifiedHolds == Spec => []StateIsNotified
<1>1. IInv => StateIsNotified
    BY DEF IInv
<1> QED BY <1>1, InductiveInvariant, PTL

(* Quiet hours suppress an opening and its recovery together or not at all. *)
THEOREM SuppressedInPairsHolds == Spec => []SuppressedInPairs
<1>1. ASSUME PairsHold PROVE SuppressedInPairs
  <2>1. ASSUME NEW r \in Rules, NEW s \in Scopes, NEW g \in 1..MaxGeneration
        PROVE  IsSuppressed(<<r, s, g, "triggered">>) <=> IsSuppressed(<<r, s, g + 1, "recovered">>)
    <3>1. g \in Nat
        OBVIOUS
    <3> QED BY <1>1, <3>1 DEF PairsHold
  <2> QED BY <2>1, Zenon DEF SuppressedInPairs, IsSuppressed
<1>2. IInv => SuppressedInPairs
    BY <1>1 DEF IInv
<1> QED BY <1>2, InductiveInvariant, PTL

-----------------------------------------------------------------------------

(* No row of alert_deliveries goes away, and a settled one stays settled. *)
SettledKept ==
    \A k \in DOMAIN delivery :
        /\ k \in DOMAIN delivery'
        /\ delivery[k].state \in Settled => delivery'[k].state = delivery[k].state

LEMMA WriteSettles ==
    ASSUME TypeInv, NEW r \in Rules, NEW s \in Scopes, NEW quiet \in BOOLEAN, NEW paired \in BOOLEAN,
           NEW c \in [state : {"active", "inactive"}, generation : Nat],
           Write(r, s, c, quiet, paired),
           paired => StillHeld(Opened(r, s, c))
    PROVE  SettledKept
<1>1. /\ DOMAIN delivery' = DOMAIN delivery \cup {KeyOf(r, s, c)}
      /\ \A k \in DOMAIN delivery :
            delivery'[k] = IF paired /\ k = Opened(r, s, c)
                           THEN [delivery[k] EXCEPT !.state = "suppressed"] ELSE delivery[k]
    BY WriteShape
<1> QED BY <1>1 DEF SettledKept, StillHeld, Settled

LEMMA TransitionSettles ==
    ASSUME TypeInv, NEW r \in Rules, NEW s \in Scopes, NEW active \in BOOLEAN, NEW quiet \in BOOLEAN,
           Transition(r, s, active, quiet)
    PROVE  SettledKept
<1> DEFINE state == IF active THEN "active" ELSE "inactive"
           c == [state |-> state, generation |-> condition[r][s].generation + 1]
           paired == ~active /\ StillHeld(<<r, s, condition[r][s].generation, "triggered">>)
<1>1. CASE condition[r][s].state = state
  <2>1. UNCHANGED delivery
      BY <1>1 DEF Transition
  <2> QED BY <2>1 DEF SettledKept
<1>2. CASE condition[r][s].state # state
  <2>1. condition[r][s] \in Condition0
      BY DEF TypeInv
  <2>2. Write(r, s, c, quiet, paired)
      BY <1>2 DEF Transition, NextGeneration
  <2>3. /\ c \in [state : {"active", "inactive"}, generation : Nat]
        /\ c.generation - 1 = condition[r][s].generation
      BY <2>1 DEF Condition0
  <2>4. (paired => StillHeld(Opened(r, s, c))) /\ paired \in BOOLEAN
      BY <2>3 DEF Opened
  <2> HIDE DEF c, paired
  <2> QED BY <2>2, <2>3, <2>4, WriteSettles
<1> QED BY <1>1, <1>2

LEMMA TickSettles ==
    ASSUME IInv, NEW e \in Schedulers, TickStep(e) \/ Abort(e)
    PROVE  SettledKept
<1> DEFINE r == Current(e).id
           s == Min(tick[e].todo)
<1>1. ASSUME tick[e].phase \in {"trigger", "insert", "clear"}
      PROVE  r \in Rules /\ s \in Scopes /\ Current(e).quiet \in BOOLEAN
  <2>1. tick[e].todo \subseteq Scopes /\ tick[e].todo # {}
      BY <1>1 DEF IInv, TypeInv, Tick, TicksHold
  <2> QED BY <1>1, <2>1, Extremes, CurrentType DEF IInv
<1>2. CASE UNCHANGED delivery
    BY <1>2 DEF SettledKept
<1>3. CASE Trigger(e) \/ Clear(e)
  <2>1. PICK active \in BOOLEAN : Transition(r, s, active, Current(e).quiet) \/ UNCHANGED delivery
      BY <1>3 DEF Trigger, Clear
  <2>2. tick[e].phase \in {"trigger", "insert", "clear"}
      BY <1>3 DEF Trigger, Clear
  <2> HIDE DEF r, s
  <2> QED BY <1>1, <1>2, <2>1, <2>2, TransitionSettles DEF IInv
<1>4. CASE Insert(e)
  <2> DEFINE c == [state |-> "active", generation |-> 1]
  <2>1. tick[e].phase = "insert" /\ Write(r, s, c, Current(e).quiet, FALSE)
      BY <1>4 DEF Insert
  <2>2. c \in [state : {"active", "inactive"}, generation : Nat]
      OBVIOUS
  <2> HIDE DEF r, s, c
  <2> QED BY <1>1, <2>1, <2>2, WriteSettles DEF IInv
<1> QED BY <1>2, <1>3, <1>4 DEF TickStep, Abort, Select, Observe, Recover, Finish

(* A worker of the outbox writes only a row that it may claim or has leased. *)
LEMMA OutboxSettles ==
    ASSUME IInv,
           \/ \E k \in DOMAIN delivery : DeliveryStep(k)
           \/ \E w \in Workers : Send(w) \/ FinishDelivery(w) \/ Drop(w)
    PROVE  SettledKept
<1>0. delivery \in [DOMAIN delivery -> Delivery]
    BY DEF IInv, TypeInv
<1>1. ASSUME NEW k \in DOMAIN delivery, NEW new,
             delivery' = [delivery EXCEPT ![k] = new],
             delivery[k].state \in Settled => new.state = delivery[k].state
      PROVE  SettledKept
    BY <1>0, <1>1 DEF SettledKept
<1>2. ASSUME NEW k \in DOMAIN delivery, DeliveryStep(k) PROVE SettledKept
  <2>0. delivery[k] \in Delivery
      BY <1>0
  <2>1. CASE BecomeAvailable(k)
      BY <1>0, <1>1, <2>0, <2>1 DEF BecomeAvailable, Delivery
  <2>2. CASE Expire(k)
      BY <1>0, <1>1, <2>0, <2>2 DEF Expire, Delivery
  <2>3. CASE Bury(k)
      BY <1>0, <1>1, <2>0, <2>3 DEF Bury, Candidate, Settled
  <2>4. ASSUME NEW w \in Workers, Claim(w, k) PROVE SettledKept
    <3>1. \E new : delivery' = [delivery EXCEPT ![k] = new]
        BY <1>0, <2>4 DEF Claim
    <3>2. delivery[k].state \notin Settled
        BY <2>4 DEF Claim, Candidate, Settled
    <3> QED BY <1>1, <3>1, <3>2
  <2> QED BY <1>2, <2>1, <2>2, <2>3, <2>4 DEF DeliveryStep
<1>3. ASSUME NEW w \in Workers, Send(w) \/ FinishDelivery(w) \/ Drop(w) PROVE SettledKept
  <2> DEFINE k == sender[w].key
  <2>0. k \in DOMAIN delivery /\ delivery[k] \in Delivery
      BY <1>3 DEF IInv, TypeInv, SendersHold, Send, FinishDelivery, Drop
  <2>1. CASE Send(w)
    <3>1. PICK n : delivery' = [delivery EXCEPT ![k] = [delivery[k] EXCEPT !.taken = n]]
        BY <1>0, <2>0, <2>1 DEF Send
    <3>2. [delivery[k] EXCEPT !.taken = n].state = delivery[k].state
        BY <2>0 DEF Delivery
    <3> HIDE DEF k
    <3> QED BY <1>1, <2>0, <3>1, <3>2
  <2>2. CASE FinishDelivery(w)
    <3>1. CASE Fenced(w)
      <4>1. \E new : delivery' = [delivery EXCEPT ![k] = new]
          BY <1>0, <2>0, <2>2, <3>1 DEF FinishDelivery
      <4>2. delivery[k].state \notin Settled
          BY <3>1 DEF Fenced, Settled
      <4> HIDE DEF k
      <4> QED BY <1>1, <2>0, <4>1, <4>2
    <3>2. CASE ~Fenced(w)
        BY <2>2, <3>2 DEF FinishDelivery, SettledKept
    <3> QED BY <3>1, <3>2
  <2>3. CASE Drop(w)
      BY <2>3 DEF Drop, SettledKept
  <2> QED BY <1>3, <2>1, <2>2, <2>3
<1> QED BY <1>2, <1>3

(* claim_delivery, finish_delivery: a notification is taken twice only after *)
(* a lease of it expired, and a settled one keeps its outcome.               *)
THEOREM DeliveryIsFinalHolds == Spec => DeliveryIsFinal
<1> DEFINE Step == \A k \in DOMAIN delivery :
                      /\ delivery'[k].taken > 1 => delivery'[k].lapsed
                      /\ delivery[k].state \in Settled => delivery'[k].state = delivery[k].state
<1>1. ASSUME IInv, IInv', Next PROVE Step
  <2>1. SettledKept
    <3>1. CASE AdminStep
        BY <3>1 DEF AdminStep, CreateIntegration, UpdateIntegration, CreateRule, UpdateRule, Change,
                    SettledKept
    <3> QED BY <1>1, <3>1, TickSettles, OutboxSettles DEF Next
  <2>2. ASSUME NEW k \in DOMAIN delivery PROVE delivery'[k].taken > 1 => delivery'[k].lapsed
    <3>1. k \in DOMAIN delivery' /\ delivery'[k] \in Delivery
        BY <1>1, <2>1 DEF SettledKept, IInv, TypeInv
    <3> QED BY <1>1, <3>1 DEF IInv, SendersHold, Delivery
  <2> QED BY <2>1, <2>2 DEF SettledKept
<1>2. IInv /\ IInv' /\ [Next]_vars => [Step]_vars
    BY <1>1
<1>3. Spec => [][Step]_vars
    BY <1>2, InductiveInvariant, PTL DEF Spec
<1> QED BY <1>3 DEF DeliveryIsFinal
=============================================================================
