--------------------------- MODULE RawObjectProofs ---------------------------
(* Proofs about raw objects, from the upload that stores one to the job that *)
(* deletes it: Retention, for any number of events and runs, any limit of    *)
(* recent objects and any mix of workers with sampling on and off; then      *)
(* Ingest, for any number of uploads, GUIDs and sweepers.                    *)
EXTENDS Ingest, Retention, FiniteSetTheorems, WellFoundedInduction, TLAPS

-----------------------------------------------------------------------------
(* Numbers and cardinalities.                                               *)

LessNat == OpToRel(<, Nat)

(* A set of naturals that is not empty has a least element, which Min       *)
(* chooses.                                                                 *)
LEMMA MinIsLeast ==
    ASSUME NEW T, T \subseteq Nat, T # {}
    PROVE  Min(T) \in T /\ \A y \in T : Min(T) <= y
<1>1. IsWellFoundedOn(LessNat, Nat)
    BY NatLessThanWellFounded DEF LessNat
<1>2. \A x, y \in Nat : x < y => <<x, y>> \in LessNat
    BY DEF OpToRel, LessNat
<1>3. PICK x \in T : \A y \in T : ~(<<y, x>> \in LessNat)
    BY <1>1, WFMin
<1>4. ASSUME NEW y \in T PROVE x <= y
    <2>1. ~(y < x)
        BY <1>2, <1>3
    <2> QED BY <2>1
<1> QED BY <1>4 DEF Min

(* Sets of events are finite. *)
LEMMA EventsFinite ==
    ASSUME NEW S, S \subseteq Events
    PROVE  IsFiniteSet(S) /\ Cardinality(S) \in Nat
<1>1. IsFiniteSet(Events)
    BY FS_Interval, RetentionAssumption DEF Events
<1> QED BY <1>1, FS_Subset, FS_CardinalityType

(* The count of one more and of one less. *)
LEMMA CountAdd ==
    ASSUME NEW S, S \subseteq Events, NEW e \in Events, e \notin S
    PROVE  Cardinality(S \cup {e}) = Cardinality(S) + 1
    BY EventsFinite, FS_AddElement

LEMMA CountRemove ==
    ASSUME NEW S, S \subseteq Events, NEW e \in S
    PROVE  Cardinality(S \ {e}) = Cardinality(S) - 1
    BY EventsFinite, FS_RemoveElement

LEMMA CountSubset ==
    ASSUME NEW S, S \subseteq Events, NEW T, T \subseteq S
    PROVE  Cardinality(T) <= Cardinality(S)
    BY EventsFinite, FS_Subset

-----------------------------------------------------------------------------
(* The recent objects.                                                      *)

(* While there are at most KeepRecent of them the LIMIT cuts nothing. *)
LEMMA NothingCut ==
    ASSUME RecentBounded
    PROVE  Newest = Recent
<1>1. Recent \subseteq Events
    BY DEF Recent
<1>2. ASSUME NEW f \in Recent
      PROVE  Cardinality({g \in Recent : g > f}) < KeepRecent
    <2>1. f \in Int
        BY <1>1 DEF Events
    <2>2. {g \in Recent : g > f} \subseteq Recent \ {f}
        BY <2>1
    <2>3. Cardinality({g \in Recent : g > f}) <= Cardinality(Recent \ {f})
        BY <1>1, <2>2, CountSubset
    <2>4. Cardinality(Recent \ {f}) = Cardinality(Recent) - 1
        BY <1>1, CountRemove
    <2>5. /\ Cardinality({g \in Recent : g > f}) \in Nat
          /\ Cardinality(Recent) \in Nat
        BY <1>1, EventsFinite
    <2> QED BY <2>3, <2>4, <2>5, RetentionAssumption DEF RecentBounded
<1> QED BY <1>2 DEF Newest

(* With KeepRecent of them Oldest is the oldest. *)
LEMMA OldestIsRecent ==
    ASSUME RecentBounded, Full
    PROVE  /\ Oldest \in Recent
           /\ \A f \in Recent : Oldest <= f
           /\ Cardinality(Recent) = KeepRecent
<1>1. Newest = Recent
    BY NothingCut
<1>2. Recent \subseteq Events /\ Recent \subseteq Nat
    BY DEF Recent, Events
<1>3. Cardinality(Recent) \in Nat
    BY <1>2, EventsFinite
<1>4. Cardinality(Recent) = KeepRecent
    BY <1>1, <1>3, RetentionAssumption DEF Full, RecentBounded
<1>5. Recent # {}
    BY <1>4, FS_EmptySet, RetentionAssumption
<1> QED BY <1>1, <1>2, <1>4, <1>5, MinIsLeast DEF Oldest

-----------------------------------------------------------------------------
(* The counter.                                                             *)

(* Nothing stored or deleted, nothing counted. *)
LEMMA CounterSame ==
    ASSUME CounterExact, Retained(raw') = Retained(raw), counter' = counter
    PROVE  CounterExact'
    BY DEF CounterExact

(* A delta of one matches one object more or less. *)
LEMMA CounterUp ==
    ASSUME TypeOK, CounterExact, NEW e \in Events, e \notin Retained(raw),
           Retained(raw') = Retained(raw) \cup {e}, ApplyDelta(1)
    PROVE  CounterExact' /\ counter' \in [retained : Nat, reconciled : BOOLEAN]
<1>1. Retained(raw) \subseteq Events
    BY DEF Retained
<1>2. Cardinality(Retained(raw')) = Cardinality(Retained(raw)) + 1
    BY <1>1, CountAdd
<1> QED BY <1>2 DEF CounterExact, ApplyDelta, TypeOK

LEMMA CounterDown ==
    ASSUME TypeOK, CounterExact, NEW e \in Retained(raw),
           Retained(raw') = Retained(raw) \ {e}, ApplyDelta(-1)
    PROVE  CounterExact' /\ counter' \in [retained : Nat, reconciled : BOOLEAN]
<1>1. Retained(raw) \subseteq Events
    BY DEF Retained
<1>2. Cardinality(Retained(raw')) = Cardinality(Retained(raw)) - 1
    BY <1>1, CountRemove
<1> QED BY <1>2 DEF CounterExact, ApplyDelta, CanApply, TypeOK

-----------------------------------------------------------------------------
(* One lemma per action.                                                    *)

LEMMA InitIInv == Init => IInv
<1> SUFFICES ASSUME Init PROVE IInv
    OBVIOUS
<1>1. TypeOK
    BY RetentionAssumption DEF Init, TypeOK, Raw, Classes, Job, Run, Idle
<1>2. LedgerFinal /\ ActiveDeletes /\ FreshHasNoJob /\ ConfirmedDeletion /\ DeletionHasJob
    BY DEF Init, LedgerFinal, ActiveDeletes, FreshHasNoJob, ConfirmedDeletion, DeletionHasJob
<1>3. RecordIsConfirmed
    BY DEF Init, RecordIsConfirmed, Idle
<1>4. CounterExact
    BY DEF Init, CounterExact
<1>5. RecentBounded
    <2>1. Recent = {}
        BY DEF Init, Recent
    <2> QED BY <2>1, FS_EmptySet, RetentionAssumption DEF RecentBounded
<1> QED BY <1>1, <1>2, <1>3, <1>4, <1>5 DEF IInv

(* A run that holds its lease has an object to delete. *)
LEMMA Held ==
    ASSUME IInv, NEW r \in Runs, run[r].step # "idle"
    PROVE  /\ run[r].event \in Events
           /\ Holds(r) => /\ job[run[r].event].state = "leased"
                          /\ job[run[r].event].holder = r
                          /\ raw[run[r].event].state = "deleting"
<1>1. run[r].event \in Events
    BY DEF IInv, TypeOK, RecordIsConfirmed, Run
<1> QED BY <1>1 DEF IInv, ActiveDeletes, Holds

LEMMA AcceptIInv ==
    ASSUME IInv, NEW e \in Events, Accept(e)
    PROVE  IInv'
<1> USE DEF IInv
<1>1. /\ raw' = [raw EXCEPT ![e] =
                   [state |-> "stored",
                    class |-> IF e \in Sampled THEN "pending" ELSE "standard"]]
      /\ raw \in [Events -> Raw] /\ job \in [Events -> Job]
      /\ raw[e].state = "absent" /\ present' = present \cup {e}
      /\ UNCHANGED <<due, ledger, job, run>>
    BY DEF Accept, TypeOK
<1>2. raw' \in [Events -> Raw] /\ raw'[e].state = "stored" /\ \A f \in Events : f # e => raw'[f] = raw[f]
    BY <1>1 DEF Raw, Classes
<1>3. CounterExact' /\ counter' \in [retained : Nat, reconciled : BOOLEAN]
    <2>1. e \notin Retained(raw) /\ Retained(raw') = Retained(raw) \cup {e}
        BY <1>1, <1>2 DEF Retained
    <2> QED BY <2>1, CounterUp DEF Accept
<1>4. TypeOK'
    BY <1>1, <1>2, <1>3 DEF TypeOK
<1>5. LedgerFinal' /\ ActiveDeletes'
    BY <1>1, <1>2 DEF LedgerFinal, ActiveDeletes, TypeOK
<1>6. job[e].state = "absent"
    BY <1>1 DEF ActiveDeletes, FreshHasNoJob, TypeOK
<1>7. FreshHasNoJob'
    BY <1>1, <1>2, <1>6 DEF FreshHasNoJob
<1>8. RecordIsConfirmed'
    <2> SUFFICES ASSUME NEW r \in Runs, run[r].step = "record", Holds(r)
                 PROVE  run[r].event # e
        BY <1>1 DEF RecordIsConfirmed, Holds
    <2> QED BY <1>1, Held
<1>9. ConfirmedDeletion' /\ (V2 => DeletionHasJob')
    BY <1>1, <1>2 DEF ConfirmedDeletion, DeletionHasJob
<1>10. RecentBounded'
    <2>1. Recent' = Recent
        BY <1>1, <1>2 DEF Recent
    <2> QED BY <2>1 DEF RecentBounded
<1> QED BY <1>3, <1>4, <1>5, <1>7, <1>8, <1>9, <1>10

(* Reconciliation and the passing of a deadline. *)
LEMMA ReconcileIInv ==
    ASSUME IInv, Reconcile \/ \E e \in Events : BecomeDue(e)
    PROVE  IInv'
<1> USE DEF IInv
<1>1. UNCHANGED <<raw, present, ledger, job, run>>
    BY DEF Reconcile, BecomeDue
<1>2. CounterExact' /\ counter' \in [retained : Nat, reconciled : BOOLEAN]
    <2>1. Cardinality(Retained(raw)) \in Nat
        BY EventsFinite DEF Retained
    <2>2. Retained(raw') = Retained(raw)
        BY <1>1
    <2>3. CASE Reconcile
        BY <2>1, <2>2, <2>3 DEF Reconcile, Reconciled, CounterExact
    <2>4. CASE counter' = counter
        BY <2>2, <2>4, CounterSame DEF TypeOK
    <2> QED BY <2>3, <2>4 DEF BecomeDue
<1>3. TypeOK'
    BY <1>1, <1>2 DEF Reconcile, BecomeDue, TypeOK
<1>4. /\ LedgerFinal' /\ ActiveDeletes' /\ FreshHasNoJob' /\ ConfirmedDeletion'
      /\ V2 => DeletionHasJob'
    BY <1>1 DEF LedgerFinal, ActiveDeletes, FreshHasNoJob, ConfirmedDeletion, DeletionHasJob
<1>5. RecordIsConfirmed' /\ RecentBounded'
    BY <1>1 DEF RecordIsConfirmed, Holds, RecentBounded, Recent
<1> QED BY <1>2, <1>3, <1>4, <1>5

(* Sampling decides to keep the object. *)
LEMMA PublishKeptIInv ==
    ASSUME IInv, NEW e \in Events, NEW class \in {"standard", "kept"}, PublishKept(e, class)
    PROVE  IInv'
<1> USE DEF IInv
<1>1. /\ raw' = [raw EXCEPT ![e].class = class]
      /\ raw \in [Events -> Raw] /\ raw[e] = [state |-> "stored", class |-> "pending"]
      /\ UNCHANGED <<due, present, counter, ledger, job, run>>
    BY DEF PublishKept, SetClass, TypeOK
<1>2. /\ raw' \in [Events -> Raw]
      /\ raw'[e] = [state |-> "stored", class |-> class]
      /\ \A f \in Events : f # e => raw'[f] = raw[f]
    BY <1>1 DEF Raw, Classes
<1>3. TypeOK'
    BY <1>1, <1>2 DEF TypeOK
<1>4. CounterExact'
    <2>1. Retained(raw') = Retained(raw)
        BY <1>1, <1>2 DEF Retained
    <2> QED BY <1>1, <2>1, CounterSame
<1>5. /\ LedgerFinal' /\ ActiveDeletes' /\ FreshHasNoJob' /\ ConfirmedDeletion'
      /\ V2 => DeletionHasJob'
    BY <1>1, <1>2 DEF LedgerFinal, ActiveDeletes, FreshHasNoJob, ConfirmedDeletion,
                      DeletionHasJob, TypeOK
<1>6. RecordIsConfirmed'
    BY <1>1 DEF RecordIsConfirmed, Holds
<1>7. RecentBounded'
    <2>1. Recent' = Recent
        BY <1>1, <1>2 DEF Recent
    <2> QED BY <2>1 DEF RecentBounded
<1> QED BY <1>3, <1>4, <1>5, <1>6, <1>7

(* There is room for one more recent object. *)
LEMMA PublishRecentIInv ==
    ASSUME IInv, NEW e \in Events, PublishRecent(e)
    PROVE  IInv'
<1> USE DEF IInv
<1>1. /\ raw' = [raw EXCEPT ![e].class = "recent"]
      /\ raw \in [Events -> Raw] /\ raw[e] = [state |-> "stored", class |-> "pending"]
      /\ UNCHANGED <<due, present, counter, ledger, job, run>>
    BY DEF PublishRecent, SetClass, TypeOK
<1>2. /\ raw' \in [Events -> Raw]
      /\ raw'[e] = [state |-> "stored", class |-> "recent"]
      /\ \A f \in Events : f # e => raw'[f] = raw[f]
    BY <1>1 DEF Raw, Classes
<1>3. TypeOK'
    BY <1>1, <1>2 DEF TypeOK
<1>4. CounterExact'
    <2>1. Retained(raw') = Retained(raw)
        BY <1>1, <1>2 DEF Retained
    <2> QED BY <1>1, <2>1, CounterSame
<1>5. /\ LedgerFinal' /\ ActiveDeletes' /\ FreshHasNoJob' /\ ConfirmedDeletion'
      /\ V2 => DeletionHasJob'
    BY <1>1, <1>2 DEF LedgerFinal, ActiveDeletes, FreshHasNoJob, ConfirmedDeletion,
                      DeletionHasJob, TypeOK
<1>6. RecordIsConfirmed'
    BY <1>1 DEF RecordIsConfirmed, Holds
<1>7. RecentBounded'
    <2>1. Recent' = Recent \cup {e} /\ e \notin Recent /\ Recent \subseteq Events
        BY <1>1, <1>2 DEF Recent
    <2>2. Cardinality(Recent') = Cardinality(Recent) + 1 /\ Cardinality(Recent) \in Nat
        BY <2>1, CountAdd, EventsFinite
    <2>3. Cardinality(Recent) < KeepRecent
        BY <2>2, NothingCut, RetentionAssumption DEF PublishRecent, Full
    <2> QED BY <2>2, <2>3, RetentionAssumption DEF RecentBounded
<1> QED BY <1>3, <1>4, <1>5, <1>6, <1>7

(* The deadline has passed, for either scheduler. *)
LEMMA ExpireIInv ==
    ASSUME IInv, NEW e \in Events, Expire(e) \/ ExpireLegacy(e)
    PROVE  IInv'
<1> USE DEF IInv
<1>1. /\ raw' = [raw EXCEPT ![e] = [state |-> "deleting", class |-> "expired"]]
      /\ raw \in [Events -> Raw] /\ job \in [Events -> Job] /\ raw[e].state = "stored"
      /\ UNCHANGED <<due, present, counter, ledger, run>>
    BY DEF Expire, ExpireLegacy, Enqueued, TypeOK
<1>2. /\ raw' \in [Events -> Raw]
      /\ raw'[e] = [state |-> "deleting", class |-> "expired"]
      /\ \A f \in Events : f # e => raw'[f] = raw[f]
    BY <1>1 DEF Raw, Classes
<1>3. job[e].state \in {"absent", "completed", "dead"}
    BY <1>1 DEF ActiveDeletes, Job
<1>4. /\ job' \in [Events -> Job]
      /\ \A f \in Events : f # e => job'[f] = job[f]
      /\ job'[e].state \in {"pending", "completed", "dead"}
      /\ V2 => job'[e].state = "pending"
    <2>1. CASE Expire(e)
        BY <1>1, <1>3, <2>1 DEF Expire, Revived, Job
    <2>2. CASE ExpireLegacy(e)
        BY <1>1, <1>3, <2>2 DEF ExpireLegacy, Insert, Job, V2
    <2> QED BY <2>1, <2>2
<1>5. TypeOK'
    BY <1>1, <1>2, <1>4 DEF TypeOK
<1>6. CounterExact'
    <2>1. Retained(raw') = Retained(raw)
        BY <1>1, <1>2 DEF Retained
    <2> QED BY <1>1, <2>1, CounterSame
<1>7. LedgerFinal' /\ ConfirmedDeletion'
    BY <1>1, <1>2 DEF LedgerFinal, ConfirmedDeletion, TypeOK
<1>8. ActiveDeletes' /\ FreshHasNoJob' /\ (V2 => DeletionHasJob')
    BY <1>2, <1>4 DEF ActiveDeletes, FreshHasNoJob, DeletionHasJob
<1>9. RecordIsConfirmed'
    <2> SUFFICES ASSUME NEW r \in Runs, run[r].step = "record", Holds(r)'
                 PROVE  Holds(r)
        BY <1>1 DEF RecordIsConfirmed
    <2>1. run[r].event # e
        BY <1>1, <1>4 DEF Holds
    <2> QED BY <1>1, <1>4, <2>1, Held DEF Holds
<1>10. RecentBounded'
    <2>1. Recent' \subseteq Recent /\ Recent \subseteq Events
        BY <1>2 DEF Recent
    <2> QED BY <2>1, CountSubset, EventsFinite, RetentionAssumption DEF RecentBounded
<1> QED BY <1>5, <1>6, <1>7, <1>8, <1>9, <1>10

-----------------------------------------------------------------------------
(* Sampling gives up the older of the new object and the oldest kept.       *)

(* What becomes of the two objects. *)
LEMMA SampledRaw ==
    ASSUME IInv, NEW e \in Events, PublishSampled(e)
    PROVE  /\ Oldest \in Recent /\ e \notin Recent
           /\ Aged(e) \in Events
           /\ Aged(e) = e \/ (Aged(e) = Oldest /\ e > Oldest)
           /\ raw[Aged(e)].state = "stored"
           /\ raw[Aged(e)].class \in {"pending", "recent"}
           /\ raw' \in [Events -> Raw]
           /\ Aged(e) \in Reservoir => raw'[Aged(e)] = [state |-> "stored", class |-> "kept"]
           /\ Aged(e) \notin Reservoir =>
                  raw'[Aged(e)] = [state |-> "deleting", class |-> "deleting"]
           /\ Aged(e) # e => raw'[e] = [state |-> "stored", class |-> "recent"]
           /\ \A f \in Events : f # e /\ f # Aged(e) => raw'[f] = raw[f]
<1>1. /\ raw \in [Events -> Raw]
      /\ raw[e] = [state |-> "stored", class |-> "pending"]
    BY DEF IInv, TypeOK, PublishSampled
<1>2. Oldest \in Recent
    BY OldestIsRecent DEF IInv, PublishSampled
<1>3. Oldest \in Events /\ raw[Oldest] = [state |-> "stored", class |-> "recent"] /\ e \notin Recent
    BY <1>1, <1>2 DEF Recent
<1>4. /\ Aged(e) \in Events
      /\ Aged(e) = e \/ (Aged(e) = Oldest /\ e > Oldest)
    BY <1>3 DEF Aged
<1>5. raw[Aged(e)].state = "stored" /\ raw[Aged(e)].class \in {"pending", "recent"}
    BY <1>1, <1>3, <1>4
<1> DEFINE moved == IF Aged(e) \in Reservoir THEN [raw EXCEPT ![Aged(e)].class = "kept"]
                    ELSE [raw EXCEPT ![Aged(e)] = [state |-> "deleting", class |-> "deleting"]]
<1>6. raw' = IF Aged(e) = e THEN moved ELSE [moved EXCEPT ![e].class = "recent"]
    BY DEF PublishSampled, SetClass, Enqueued
<1>7. /\ moved \in [Events -> Raw]
      /\ Aged(e) \in Reservoir => moved[Aged(e)] = [state |-> "stored", class |-> "kept"]
      /\ Aged(e) \notin Reservoir =>
             moved[Aged(e)] = [state |-> "deleting", class |-> "deleting"]
      /\ \A f \in Events : f # Aged(e) => moved[f] = raw[f]
    BY <1>1, <1>4, <1>5 DEF Raw, Classes
<1> HIDE DEF moved
<1>8. CASE Aged(e) = e
    BY <1>2, <1>3, <1>4, <1>5, <1>6, <1>7, <1>8
<1>9. CASE Aged(e) # e
    <2>1. raw' = [moved EXCEPT ![e].class = "recent"]
        BY <1>6, <1>9
    <2>2. moved[e] = [state |-> "stored", class |-> "pending"]
        BY <1>1, <1>7, <1>9
    <2>3. /\ raw' \in [Events -> Raw]
          /\ raw'[e] = [state |-> "stored", class |-> "recent"]
          /\ \A f \in Events : f # e => raw'[f] = moved[f]
        BY <1>7, <2>1, <2>2 DEF Raw, Classes
    <2> QED BY <1>2, <1>3, <1>4, <1>5, <1>7, <1>9, <2>3
<1> QED BY <1>8, <1>9

(* The recent objects afterwards: as many, and newer than what was given up. *)
LEMMA SampledRecent ==
    ASSUME IInv, NEW e \in Events, PublishSampled(e)
    PROVE  /\ Cardinality(Recent') = KeepRecent
           /\ \A f \in Recent' : f > Aged(e)
<1>1. /\ Oldest \in Recent /\ Recent \subseteq Events
      /\ \A f \in Recent : Oldest <= f
      /\ Cardinality(Recent) = KeepRecent
    BY OldestIsRecent DEF IInv, PublishSampled, Recent
<1>2. Events \subseteq Int
    BY DEF Events
<1>3. CASE Aged(e) = e
    <2>1. Recent' = Recent
        BY <1>1, <1>3, SampledRaw DEF Recent
    <2>2. e < Oldest
        BY <1>1, <1>2, <1>3, SampledRaw DEF Aged
    <2> QED BY <1>1, <1>2, <1>3, <2>1, <2>2
<1>4. CASE Aged(e) = Oldest /\ e > Oldest
    <2>1. Recent' = (Recent \ {Oldest}) \cup {e}
        <3>1. Oldest # e
            BY <1>1, SampledRaw
        <3>2. Oldest \notin Recent'
            BY <1>4, SampledRaw DEF Recent
        <3>3. e \in Recent'
            BY <1>4, <3>1, SampledRaw DEF Recent
        <3>4. \A f \in Events : f # e /\ f # Oldest => (f \in Recent' <=> f \in Recent)
            BY <1>4, SampledRaw DEF Recent
        <3>5. Recent' \subseteq Events
            BY DEF Recent
        <3> QED BY <1>1, <3>1, <3>2, <3>3, <3>4, <3>5
    <2>2. e \notin Recent \ {Oldest} /\ Recent \ {Oldest} \subseteq Events
        BY <1>1, SampledRaw
    <2>3. Cardinality(Recent') = Cardinality(Recent \ {Oldest}) + 1
        BY <2>1, <2>2, CountAdd
    <2>4. Cardinality(Recent \ {Oldest}) = KeepRecent - 1
        BY <1>1, CountRemove
    <2>5. Cardinality(Recent') = KeepRecent
        BY <2>3, <2>4, RetentionAssumption
    <2>6. \A f \in Recent' : f > Oldest
        BY <1>1, <1>2, <1>4, <2>1
    <2> QED BY <1>4, <2>5, <2>6
<1> QED BY <1>3, <1>4, SampledRaw

LEMMA PublishSampledIInv ==
    ASSUME IInv, NEW e \in Events, PublishSampled(e)
    PROVE  IInv'
<1> USE DEF IInv
<1>1. /\ UNCHANGED <<due, present, counter, ledger, run>>
      /\ job \in [Events -> Job] /\ raw \in [Events -> Raw]
      /\ raw[e] = [state |-> "stored", class |-> "pending"]
    BY DEF PublishSampled, TypeOK
<1>2. job[Aged(e)].state = "absent" /\ job[e].state = "absent"
    BY <1>1, SampledRaw DEF FreshHasNoJob
<1>3. /\ job' \in [Events -> Job]
      /\ \A f \in Events : f # Aged(e) => job'[f] = job[f]
      /\ Aged(e) \in Reservoir => job'[Aged(e)].state = "absent"
      /\ Aged(e) \notin Reservoir => job'[Aged(e)].state = "pending"
    <2>1. IF Aged(e) \in Reservoir THEN job' = job ELSE Insert(Aged(e))
        BY DEF PublishSampled
    <2> QED BY <1>1, <1>2, <2>1, SampledRaw DEF Insert, Job
<1>4. TypeOK'
    BY <1>1, <1>3, SampledRaw DEF TypeOK
<1>5. CounterExact'
    <2>1. Retained(raw') = Retained(raw)
        BY <1>1, SampledRaw DEF Retained
    <2> QED BY <1>1, <2>1, CounterSame
<1>6. LedgerFinal' /\ ConfirmedDeletion'
    BY <1>1, SampledRaw DEF LedgerFinal, ConfirmedDeletion, TypeOK
<1>7. ActiveDeletes' /\ (V2 => DeletionHasJob')
    BY <1>1, <1>2, <1>3, SampledRaw DEF ActiveDeletes, DeletionHasJob
<1>8. FreshHasNoJob'
    BY <1>1, <1>2, <1>3, SampledRaw DEF FreshHasNoJob
<1>9. RecordIsConfirmed'
    <2> SUFFICES ASSUME NEW r \in Runs, run[r].step = "record", Holds(r)'
                 PROVE  Holds(r)
        BY <1>1 DEF RecordIsConfirmed
    <2>1. run[r].event # Aged(e)
        BY <1>1, <1>3 DEF Holds
    <2> QED BY <1>1, <1>3, <2>1, Held DEF Holds
<1>10. RecentBounded'
    BY SampledRecent, RetentionAssumption DEF RecentBounded
<1> QED BY <1>4, <1>5, <1>6, <1>7, <1>8, <1>9, <1>10

-----------------------------------------------------------------------------
(* Runs of delete_raw.                                                      *)

(* Steps that leave the objects alone: a run moves, its job may change hands *)
(* or be given up.                                                           *)
LEMMA ClaimIInv ==
    ASSUME IInv, NEW r \in Runs, NEW e \in Events, Claim(r, e)
    PROVE  IInv'
<1> USE DEF IInv
<1>1. /\ UNCHANGED <<raw, due, present, counter, ledger>>
      /\ job' = [job EXCEPT ![e] = [state |-> "leased", holder |-> r]]
      /\ job \in [Events -> Job] /\ run \in [Runs -> Run]
      /\ job[e].state \in {"pending", "leased"}
    BY DEF Claim, TypeOK
<1>2. /\ job' \in [Events -> Job]
      /\ job'[e] = [state |-> "leased", holder |-> r]
      /\ \A f \in Events : f # e => job'[f] = job[f]
    BY <1>1 DEF Job
<1>3. PICK m \in Modes :
          run' = [run EXCEPT ![r] = [event |-> e, step |-> "read", enforce |-> m]]
    BY DEF Claim
<1>4. /\ run' \in [Runs -> Run]
      /\ run'[r].event = e /\ run'[r].step = "read"
      /\ \A q \in Runs : q # r => run'[q] = run[q]
    BY <1>1, <1>3, RetentionAssumption DEF Run
<1>5. TypeOK'
    BY <1>1, <1>2, <1>4 DEF TypeOK
<1>6. LedgerFinal' /\ ConfirmedDeletion' /\ CounterExact' /\ RecentBounded'
    BY <1>1 DEF LedgerFinal, ConfirmedDeletion, CounterExact, RecentBounded, Recent
<1>7. ActiveDeletes' /\ FreshHasNoJob' /\ (V2 => DeletionHasJob')
    BY <1>1, <1>2 DEF ActiveDeletes, FreshHasNoJob, DeletionHasJob
<1>8. RecordIsConfirmed'
    <2>1. ASSUME NEW q \in Runs, run'[q].step # "idle" PROVE run'[q].event # None
        BY <1>4, <2>1, RetentionAssumption DEF RecordIsConfirmed
    <2>2. ASSUME NEW q \in Runs, run'[q].step = "record", Holds(q)'
          PROVE  run'[q].event \notin present'
        <3>1. q # r /\ run'[q] = run[q]
            BY <1>4, <2>2
        <3>2. run[q].event # e
            BY <1>2, <2>2, <3>1 DEF Holds
        <3>3. Holds(q)
            BY <1>2, <2>2, <3>1, <3>2, Held DEF Holds
        <3> QED BY <1>1, <2>2, <3>1, <3>3 DEF RecordIsConfirmed
    <2> QED BY <2>1, <2>2 DEF RecordIsConfirmed
<1> QED BY <1>5, <1>6, <1>7, <1>8

(* Reading decides what a run does; the holder of the lease always finds an  *)
(* object to delete.                                                         *)
LEMMA ReadIInv ==
    ASSUME IInv, NEW r \in Runs, Read(r)
    PROVE  IInv'
<1> USE DEF IInv
<1>1. /\ UNCHANGED <<raw, due, present, counter, ledger, job>>
      /\ run[r].step = "read" /\ run \in [Runs -> Run]
    BY DEF Read, TypeOK
<1>2. PICK step \in {"record", "restore", "delete"} :
          /\ run' = [run EXCEPT ![r].step = step]
          /\ step = "record" => raw[run[r].event].state # "deleting"
    BY DEF Read
<1>3. /\ run' \in [Runs -> Run]
      /\ run'[r].event = run[r].event /\ run'[r].step = step
      /\ \A q \in Runs : q # r => run'[q] = run[q]
    BY <1>1, <1>2 DEF Run
<1>4. TypeOK'
    BY <1>1, <1>3 DEF TypeOK
<1>5. /\ LedgerFinal' /\ ConfirmedDeletion' /\ CounterExact' /\ RecentBounded'
      /\ ActiveDeletes' /\ FreshHasNoJob' /\ (V2 => DeletionHasJob')
    BY <1>1 DEF LedgerFinal, ConfirmedDeletion, CounterExact, RecentBounded, Recent,
                ActiveDeletes, FreshHasNoJob, DeletionHasJob
<1>6. RecordIsConfirmed'
    <2>1. ASSUME NEW q \in Runs, run'[q].step # "idle" PROVE run'[q].event # None
        BY <1>1, <1>3, <2>1 DEF RecordIsConfirmed
    <2>2. ASSUME NEW q \in Runs, run'[q].step = "record", Holds(q)'
          PROVE  run'[q].event \notin present'
        <3>1. Holds(q)
            BY <1>1, <1>3, <2>2 DEF Holds
        <3>2. q # r
            BY <1>1, <1>2, <1>3, <2>2, <3>1, Held
        <3> QED BY <1>1, <1>3, <2>2, <3>1, <3>2 DEF RecordIsConfirmed
    <2> QED BY <2>1, <2>2 DEF RecordIsConfirmed
<1> QED BY <1>4, <1>5, <1>6

(* The object store deletes, or reports an error. *)
LEMMA DeleteObjectIInv ==
    ASSUME IInv, NEW r \in Runs, DeleteObject(r)
    PROVE  IInv'
<1> USE DEF IInv
<1>1. /\ UNCHANGED <<raw, due, counter, ledger, job>>
      /\ run[r].step = "delete" /\ run \in [Runs -> Run]
      /\ present' \subseteq present /\ present \subseteq Events
    BY DEF DeleteObject, TypeOK
<1>2. PICK step \in {"record", "error"} :
          /\ run' = [run EXCEPT ![r].step = step]
          /\ step = "record" => run[r].event \notin present'
    BY DEF DeleteObject
<1>3. /\ run' \in [Runs -> Run]
      /\ run'[r].event = run[r].event /\ run'[r].step = step
      /\ \A q \in Runs : q # r => run'[q] = run[q]
    BY <1>1, <1>2 DEF Run
<1>4. TypeOK'
    BY <1>1, <1>3 DEF TypeOK
<1>5. /\ LedgerFinal' /\ ConfirmedDeletion' /\ CounterExact' /\ RecentBounded'
      /\ ActiveDeletes' /\ FreshHasNoJob' /\ (V2 => DeletionHasJob')
    BY <1>1 DEF LedgerFinal, ConfirmedDeletion, CounterExact, RecentBounded, Recent,
                ActiveDeletes, FreshHasNoJob, DeletionHasJob
<1>6. RecordIsConfirmed'
    <2>1. ASSUME NEW q \in Runs, run'[q].step # "idle" PROVE run'[q].event # None
        BY <1>1, <1>3, <2>1 DEF RecordIsConfirmed
    <2>2. ASSUME NEW q \in Runs, run'[q].step = "record", Holds(q)'
          PROVE  run'[q].event \notin present'
        <3>1. Holds(q)
            BY <1>1, <1>3, <2>2 DEF Holds
        <3>2. CASE q = r
            BY <1>2, <1>3, <2>2, <3>2
        <3>3. CASE q # r
            BY <1>1, <1>3, <2>2, <3>1, <3>3 DEF RecordIsConfirmed
        <3> QED BY <3>2, <3>3
    <2> QED BY <2>1, <2>2 DEF RecordIsConfirmed
<1> QED BY <1>4, <1>5, <1>6

(* The steps that end a run, or send it on to delete: other runs keep their *)
(* lease or lose it.                                                        *)
LEMMA OthersConfirmed ==
    ASSUME IInv, NEW r \in Runs, present' = present,
           \A q \in Runs : q # r => run'[q] = run[q],
           run'[r] = Idle \/ (run'[r].step = "delete" /\ run'[r].event = run[r].event),
           run[r].step # "idle",
           \A e \in Events : job'[e] = job[e] \/ job'[e].state # "leased"
    PROVE  RecordIsConfirmed'
<1>1. ASSUME NEW q \in Runs, run'[q].step # "idle" PROVE run'[q].event # None
    BY <1>1 DEF RecordIsConfirmed, IInv, Idle
<1>2. ASSUME NEW q \in Runs, run'[q].step = "record", Holds(q)'
      PROVE  run'[q].event \notin present'
    <2>1. q # r /\ run'[q] = run[q]
        BY <1>2 DEF Idle
    <2>2. run[q].event \in Events /\ run[q].step = "record"
        BY <1>2, <2>1, Held
    <2>3. Holds(q)
        BY <1>2, <2>1, <2>2 DEF Holds
    <2> QED BY <2>1, <2>2, <2>3 DEF RecordIsConfirmed, IInv
<1> QED BY <1>1, <1>2 DEF RecordIsConfirmed

LEMMA RestoreIInv ==
    ASSUME IInv, NEW r \in Runs, Restore(r)
    PROVE  IInv'
<1> USE DEF IInv
<1> DEFINE e == run[r].event
<1>1. /\ UNCHANGED <<due, present, counter, ledger>>
      /\ run[r].step = "restore" /\ run \in [Runs -> Run]
      /\ raw \in [Events -> Raw] /\ job \in [Events -> Job]
    BY DEF Restore, TypeOK
<1>2. e \in Events /\ Holds(r) /\ job[e].state = "leased" /\ raw[e].state = "deleting"
    BY <1>1, Held DEF Restore
<1>3. CASE raw[e] = [state |-> "deleting", class |-> "deleting"]
    <2>1. /\ raw' = [raw EXCEPT ![e] = [state |-> "stored", class |-> "standard"]]
          /\ job' = [job EXCEPT ![e] = [state |-> "completed", holder |-> None]]
          /\ run' = [run EXCEPT ![r] = Idle]
        BY <1>3 DEF Restore
    <2>2. /\ raw' \in [Events -> Raw]
          /\ raw'[e] = [state |-> "stored", class |-> "standard"]
          /\ \A f \in Events : f # e => raw'[f] = raw[f]
        BY <1>1, <1>2, <2>1 DEF Raw, Classes
    <2>3. /\ job' \in [Events -> Job]
          /\ job'[e] = [state |-> "completed", holder |-> None]
          /\ \A f \in Events : f # e => job'[f] = job[f]
        BY <1>1, <1>2, <2>1 DEF Job
    <2>4. /\ run' \in [Runs -> Run] /\ run'[r] = Idle
          /\ \A q \in Runs : q # r => run'[q] = run[q]
        BY <1>1, <2>1 DEF Run, Idle
    <2>5. TypeOK'
        BY <1>1, <2>2, <2>3, <2>4 DEF TypeOK
    <2>6. CounterExact'
        <3>1. Retained(raw') = Retained(raw)
            BY <1>2, <2>2 DEF Retained
        <3> QED BY <1>1, <3>1, CounterSame
    <2>7. LedgerFinal' /\ ConfirmedDeletion'
        BY <1>1, <1>2, <2>2 DEF LedgerFinal, ConfirmedDeletion, TypeOK
    <2>8. ActiveDeletes' /\ FreshHasNoJob' /\ (V2 => DeletionHasJob')
        BY <2>2, <2>3 DEF ActiveDeletes, FreshHasNoJob, DeletionHasJob
    <2>9. RecordIsConfirmed'
        <3>1. \A f \in Events : job'[f] = job[f] \/ job'[f].state # "leased"
            BY <2>3
        <3> QED BY <1>1, <2>4, <3>1, OthersConfirmed
    <2>10. RecentBounded'
        <3>1. Recent' = Recent
            BY <1>3, <2>2 DEF Recent
        <3> QED BY <3>1 DEF RecentBounded
    <2> QED BY <2>5, <2>6, <2>7, <2>8, <2>9, <2>10
<1>4. CASE raw[e] # [state |-> "deleting", class |-> "deleting"]
    <2>1. run' = [run EXCEPT ![r].step = "delete"] /\ UNCHANGED <<raw, job>>
        BY <1>4 DEF Restore
    <2>2. /\ run' \in [Runs -> Run] /\ run'[r].step = "delete" /\ run'[r].event = e
          /\ \A q \in Runs : q # r => run'[q] = run[q]
        BY <1>1, <2>1 DEF Run
    <2>3. TypeOK'
        BY <1>1, <2>1, <2>2 DEF TypeOK
    <2>4. /\ LedgerFinal' /\ ConfirmedDeletion' /\ CounterExact' /\ RecentBounded'
          /\ ActiveDeletes' /\ FreshHasNoJob' /\ (V2 => DeletionHasJob')
        BY <1>1, <2>1 DEF LedgerFinal, ConfirmedDeletion, CounterExact, RecentBounded, Recent,
                          ActiveDeletes, FreshHasNoJob, DeletionHasJob
    <2>5. RecordIsConfirmed'
        BY <1>1, <2>1, <2>2, OthersConfirmed
    <2> QED BY <2>3, <2>4, <2>5
<1> QED BY <1>3, <1>4

(* The deletion is recorded: the holder's object is being deleted, is gone, *)
(* and is not in the ledger.                                                *)
LEMMA RecordIInv ==
    ASSUME IInv, NEW r \in Runs, Record(r)
    PROVE  IInv'
<1> USE DEF IInv
<1> DEFINE e == run[r].event
<1>1. /\ UNCHANGED <<due, present>>
      /\ run[r].step = "record" /\ run \in [Runs -> Run]
      /\ raw \in [Events -> Raw] /\ job \in [Events -> Job] /\ ledger \subseteq Events
    BY DEF Record, TypeOK
<1>2. e \in Events /\ Holds(r) /\ job[e].state = "leased" /\ raw[e].state = "deleting"
    BY <1>1, Held DEF Record
<1>3. e \notin ledger /\ e \notin present
    BY <1>1, <1>2 DEF LedgerFinal, RecordIsConfirmed
<1>4. /\ ApplyDelta(-1)
      /\ ledger' = ledger \cup {e}
      /\ raw' = [raw EXCEPT ![e] = [state |-> "discarded",
                                    class |-> IF @.class = "expired" THEN "expired"
                                              ELSE "discarded"]]
      /\ job' = [job EXCEPT ![e] = [state |-> "completed", holder |-> None]]
      /\ run' = [run EXCEPT ![r] = Idle]
    BY <1>2, <1>3 DEF Record
<1>5. /\ raw' \in [Events -> Raw]
      /\ raw'[e].state = "discarded" /\ raw'[e].class \in {"expired", "discarded"}
      /\ \A f \in Events : f # e => raw'[f] = raw[f]
    BY <1>1, <1>2, <1>4 DEF Raw, Classes
<1>6. /\ job' \in [Events -> Job]
      /\ job'[e] = [state |-> "completed", holder |-> None]
      /\ \A f \in Events : f # e => job'[f] = job[f]
    BY <1>1, <1>2, <1>4 DEF Job
<1>7. /\ run' \in [Runs -> Run] /\ run'[r] = Idle
      /\ \A q \in Runs : q # r => run'[q] = run[q]
    BY <1>1, <1>4 DEF Run, Idle
<1>8. CounterExact' /\ counter' \in [retained : Nat, reconciled : BOOLEAN]
    <2>1. e \in Retained(raw) /\ Retained(raw') = Retained(raw) \ {e}
        BY <1>2, <1>5 DEF Retained
    <2> QED BY <1>4, <2>1, CounterDown
<1>9. TypeOK'
    BY <1>1, <1>2, <1>4, <1>5, <1>6, <1>7, <1>8 DEF TypeOK
<1>10. LedgerFinal' /\ ConfirmedDeletion'
    BY <1>1, <1>3, <1>4, <1>5 DEF LedgerFinal, ConfirmedDeletion
<1>11. ActiveDeletes' /\ FreshHasNoJob' /\ (V2 => DeletionHasJob')
    BY <1>5, <1>6 DEF ActiveDeletes, FreshHasNoJob, DeletionHasJob
<1>12. RecordIsConfirmed'
    <2>1. \A f \in Events : job'[f] = job[f] \/ job'[f].state # "leased"
        BY <1>6
    <2> QED BY <1>1, <1>7, <2>1, OthersConfirmed
<1>13. RecentBounded'
    <2>1. Recent' = Recent
        BY <1>2, <1>5 DEF Recent
    <2> QED BY <2>1 DEF RecentBounded
<1> QED BY <1>8, <1>9, <1>10, <1>11, <1>12, <1>13

(* A run gives its job up, or stops. *)
LEMMA GiveUpIInv ==
    ASSUME IInv, NEW r \in Runs, Fail(r) \/ Stop(r)
    PROVE  IInv'
<1> USE DEF IInv
<1> DEFINE e == run[r].event
<1>1. /\ UNCHANGED <<raw, due, present, counter, ledger>>
      /\ run' = [run EXCEPT ![r] = Idle] /\ run \in [Runs -> Run]
      /\ job \in [Events -> Job]
    BY DEF Fail, Stop, TypeOK
<1>2. /\ run' \in [Runs -> Run] /\ run'[r] = Idle
      /\ \A q \in Runs : q # r => run'[q] = run[q]
    BY <1>1 DEF Run, Idle
<1>3. /\ job' \in [Events -> Job]
      /\ \A f \in Events : \/ job'[f] = job[f]
                           \/ job'[f].state \in {"pending", "dead"} /\ job[f].state = "leased"
    <2>1. CASE Stop(r)
        BY <1>1, <2>1 DEF Stop
    <2>2. CASE Fail(r)
        <3>1. run[r].step # "idle" /\ Holds(r)
            BY <2>2 DEF Fail
        <3>2. e \in Events /\ job[e].state = "leased"
            BY <3>1, Held
        <3>3. PICK state \in {"pending", "dead"} :
                  job' = [job EXCEPT ![e] = [state |-> state, holder |-> None]]
            BY <2>2 DEF Fail
        <3> QED BY <1>1, <3>2, <3>3 DEF Job
    <2> QED BY <2>1, <2>2
<1>4. TypeOK'
    BY <1>1, <1>2, <1>3 DEF TypeOK
<1>5. LedgerFinal' /\ ConfirmedDeletion' /\ CounterExact' /\ RecentBounded'
    BY <1>1 DEF LedgerFinal, ConfirmedDeletion, CounterExact, RecentBounded, Recent
<1>6. ActiveDeletes' /\ FreshHasNoJob' /\ (V2 => DeletionHasJob')
    BY <1>1, <1>3 DEF ActiveDeletes, FreshHasNoJob, DeletionHasJob
<1>7. RecordIsConfirmed'
    <2>1. \A f \in Events : job'[f] = job[f] \/ job'[f].state # "leased"
        BY <1>3
    <2>2. CASE run[r].step = "idle"
        <3>1. ASSUME NEW q \in Runs, run'[q].step # "idle"
              PROVE  run'[q] = run[q] /\ q # r
            BY <1>2, <3>1 DEF Idle
        <3>2. ASSUME NEW q \in Runs, run'[q].step = "record", Holds(q)'
              PROVE  run'[q].event \notin present'
            <4>1. run'[q] = run[q] /\ run[q].step # "idle"
                BY <3>1, <3>2
            <4>2. Holds(q)
                BY <2>1, <3>2, <4>1, Held DEF Holds
            <4> QED BY <1>1, <3>2, <4>1, <4>2 DEF RecordIsConfirmed
        <3> QED BY <3>1, <3>2 DEF RecordIsConfirmed
    <2>3. CASE run[r].step # "idle"
        BY <1>1, <1>2, <2>1, <2>3, OthersConfirmed
    <2> QED BY <2>2, <2>3
<1> QED BY <1>4, <1>5, <1>6, <1>7

LEMMA NextIInv ==
    ASSUME IInv, [Next]_vars
    PROVE  IInv'
<1>1. CASE Reconcile \/ \E e \in Events : BecomeDue(e)
    BY <1>1, ReconcileIInv
<1>2. ASSUME NEW e \in Events, Accept(e) PROVE IInv'
    BY <1>2, AcceptIInv
<1>3. ASSUME NEW e \in Events, Publish(e) PROVE IInv'
    BY <1>3, PublishKeptIInv, PublishRecentIInv, PublishSampledIInv DEF Publish
<1>4. ASSUME NEW e \in Events, Expire(e) \/ ExpireLegacy(e) PROVE IInv'
    BY <1>4, ExpireIInv
<1>5. ASSUME NEW r \in Runs, RunStep(r) PROVE IInv'
    BY <1>5, ClaimIInv, ReadIInv, RestoreIInv, DeleteObjectIInv, RecordIInv, GiveUpIInv
       DEF RunStep
<1>6. CASE UNCHANGED vars
    BY <1>6 DEF vars, IInv, TypeOK, LedgerFinal, ActiveDeletes, FreshHasNoJob,
                RecordIsConfirmed, Holds, CounterExact, ConfirmedDeletion, DeletionHasJob,
                RecentBounded, Recent
<1> QED BY <1>1, <1>2, <1>3, <1>4, <1>5, <1>6 DEF Next

-----------------------------------------------------------------------------
(* Theorems.                                                                *)

(* The invariant is inductive. *)
THEOREM InductiveInvariant == Spec => []IInv
    BY InitIInv, NextIInv, PTL DEF Spec

(* Type correctness: apply_storage_delta never drives the counter below     *)
(* zero.                                                                    *)
THEOREM TypeCorrect == Spec => []TypeOK
<1>1. IInv => TypeOK
    BY DEF IInv
<1> QED BY <1>1, InductiveInvariant, PTL

(* Once reconciled, project_storage_counters equals the full sum, through   *)
(* restores, repeated runs, takeovers and later reconciliations.            *)
THEOREM ExactCounter == Spec => []CounterExact
<1>1. IInv => CounterExact
    BY DEF IInv
<1> QED BY <1>1, InductiveInvariant, PTL

(* record_raw_deleted only discards objects the store has deleted.          *)
THEOREM DeletionConfirmed == Spec => []ConfirmedDeletion
<1>1. IInv => ConfirmedDeletion
    BY DEF IInv
<1> QED BY <1>1, InductiveInvariant, PTL

(* With retention v2 an object that is being deleted has a job that will    *)
(* delete it or a dead one.                                                 *)
THEOREM NoStrandedDeletion == Spec => [](V2 => DeletionHasJob)
<1>1. IInv => (V2 => DeletionHasJob)
    BY DEF IInv
<1> QED BY <1>1, InductiveInvariant, PTL

(* Sampling holds at most KeepRecent recent objects. *)
THEOREM BoundedRecent == Spec => []RecentBounded
<1>1. IInv => RecentBounded
    BY DEF IInv
<1> QED BY <1>1, InductiveInvariant, PTL

(* Only publication gives an object up, and then KeepRecent newer ones of    *)
(* the issue are kept.                                                       *)
LEMMA GivesUpOldest ==
    ASSUME IInv, [Next]_vars, NEW e \in Events,
           raw[e].class # "deleting", raw'[e].class = "deleting"
    PROVE  Cardinality({f \in Recent' : f > e}) >= KeepRecent
<1>1. raw \in [Events -> Raw]
    BY DEF IInv, TypeOK
<1>2. ASSUME NEW d \in Events, PublishSampled(d)
      PROVE  Cardinality({f \in Recent' : f > e}) >= KeepRecent
    <2>1. e = Aged(d)
        BY <1>2, SampledRaw
    <2>2. {f \in Recent' : f > e} = Recent'
        BY <1>2, <2>1, SampledRecent
    <2> QED BY <1>2, <2>2, SampledRecent, RetentionAssumption
<1>3. ASSUME NEW d \in Events, Publish(d), ~PublishSampled(d) PROVE FALSE
    BY <1>1, <1>3 DEF Publish, PublishKept, PublishRecent, SetClass, Raw
<1>4. ASSUME NEW d \in Events, Accept(d) \/ Expire(d) \/ ExpireLegacy(d) \/ BecomeDue(d)
      PROVE  FALSE
    BY <1>1, <1>4 DEF Accept, Expire, ExpireLegacy, BecomeDue, Enqueued, Raw
<1>5. ASSUME NEW r \in Runs, RunStep(r) PROVE FALSE
    <2>1. CASE Restore(r) \/ Record(r)
        BY <1>1, <2>1 DEF Restore, Record, Raw
    <2>2. CASE UNCHANGED raw
        BY <2>2
    <2> QED BY <1>5, <2>1, <2>2 DEF RunStep, Claim, Read, DeleteObject, Fail, Stop
<1>6. CASE Reconcile \/ UNCHANGED vars
    BY <1>6 DEF Reconcile, vars
<1> QED BY <1>2, <1>3, <1>4, <1>5, <1>6 DEF Next

(* Sampling keeps the newest: whatever the order of publication, an event    *)
(* whose object is given up is older than KeepRecent kept ones.              *)
THEOREM KeepsNewest == Spec => NewestKept
<1>1. IInv /\ [Next]_vars =>
          [\A e \in Events :
              raw[e].class # "deleting" /\ raw'[e].class = "deleting" =>
                  Cardinality({f \in Recent' : f > e}) >= KeepRecent]_vars
    BY GivesUpOldest
<1> QED BY <1>1, InductiveInvariant, PTL DEF Spec, NewestKept

-----------------------------------------------------------------------------
(* Ingest: what is accepted is durable and nothing is forgotten.            *)

(* Uploads with one GUID see the same uploads. *)
LEMMA SameGuidSym ==
    ASSUME NEW u \in Uploads, NEW v \in SameGuid(u)
    PROVE  /\ v \in Uploads
           /\ u \in SameGuid(v)
           /\ \A x \in SameGuid(v) : x \in SameGuid(u)
    BY IngestAssumption DEF SameGuid

(* Moving a row to the end keeps the ranks in their range. *)
LEMMA ToEndType ==
    ASSUME rank \in [Uploads -> 0..Cardinality(Uploads)], NEW u \in Uploads
    PROVE  ToEnd(u) \in [Uploads -> 0..Cardinality(Uploads)]
<1>1. Cardinality(Uploads) \in Nat
    BY FS_CardinalityType, IngestAssumption
<1> QED BY <1>1 DEF ToEnd

LEMMA InitIngestIInv == IngestInit => IngestIInv
<1> SUFFICES ASSUME IngestInit PROVE IngestIInv
    OBVIOUS
<1>1. Cardinality(Uploads) \in Nat
    BY FS_CardinalityType, IngestAssumption
<1>2. IngestTypeOK
    BY <1>1, IngestAssumption
       DEF IngestInit, IngestTypeOK, Steps, Running, Replies, Rows, Sweep, Resting
<1>3. HandlersOwn /\ EventsSettled /\ GuidLocked /\ OneEventPerGuid /\ NoForgottenObject
    BY DEF IngestInit, HandlersOwn, EventsSettled, GuidLocked, OneEventPerGuid, NoForgottenObject
<1>4. SweepersSafe
    BY DEF IngestInit, SweepersSafe, Resting
<1>5. AcceptedIsDurable
    BY IngestAssumption DEF IngestInit, AcceptedIsDurable
<1> QED BY <1>2, <1>3, <1>4, <1>5 DEF IngestIInv

-----------------------------------------------------------------------------
(* Types.                                                                   *)

LEMMA UploadType ==
    ASSUME IngestTypeOK, NEW u \in Uploads, UploadStep(u)
    PROVE  IngestTypeOK'
<1> USE DEF IngestTypeOK, Steps, Running, Over, Replies, Rows
<1>1. ToEnd(u) \in [Uploads -> 0..Cardinality(Uploads)]
    BY ToEndType
<1>2. CASE Register(u)
    BY <1>1, <1>2 DEF Register
<1>3. CASE RegisterFails(u) \/ Store(u) \/ StoreFails(u)
    BY <1>3 DEF RegisterFails, Store, StoreFails
<1>4. CASE Check(u) \/ InsertEvent(u) \/ PersistFails(u)
    BY <1>4 DEF Check, InsertEvent, PersistFails
<1>5. CASE Commit(u) \/ CommitUncertain(u) \/ Resolve(u)
    BY <1>5 DEF Commit, CommitUncertain, Resolve, AcceptEvent
<1>6. CASE CleanupDelete(u) \/ CleanupClear(u) \/ Drop(u) \/ Age(u)
    BY <1>6 DEF CleanupDelete, CleanupClear, Drop, Age
<1>7. CASE CleanupMark(u)
    BY <1>1, <1>7 DEF CleanupMark
<1> QED BY <1>2, <1>3, <1>4, <1>5, <1>6, <1>7, UploadStep(u) DEF UploadStep

LEMMA SweepType ==
    ASSUME IngestTypeOK, SweepersSafe, NEW s \in Sweepers, SweepStep(s)
    PROVE  IngestTypeOK'
<1> USE DEF IngestTypeOK, Rows, Sweep
<1>1. CASE SweepStart(s)
  <2>1. Selected \subseteq Uploads
      BY DEF Selected, Eligible
  <2> QED BY <1>1, <2>1 DEF SweepStart
<1>2. CASE \E u \in Uploads : SweepDelete(s, u)
    BY <1>2 DEF SweepDelete
<1>3. CASE SweepRow(s)
  <2>1. sweep[s].key \in Uploads
      BY <1>3 DEF SweepRow, SweepersSafe
  <2>2. ToEnd(sweep[s].key) \in [Uploads -> 0..Cardinality(Uploads)]
      BY <2>1, ToEndType
  <2> QED BY <1>3, <2>1, <2>2 DEF SweepRow
<1>4. CASE SweepStops(s)
    BY <1>4 DEF SweepStops, Resting
<1> QED BY <1>1, <1>2, <1>3, <1>4, SweepStep(s) DEF SweepStep

-----------------------------------------------------------------------------
(* Steps of a handler.                                                      *)

(* A handler touches its own object, row and event, and no sweeper.         *)
LEMMA UploadFrame ==
    ASSUME IngestTypeOK, NEW u \in Uploads, UploadStep(u)
    PROVE  /\ sweep' = sweep
           /\ \A v \in Uploads : v # u =>
                 /\ pc'[v] = pc[v]
                 /\ reply'[v] = reply[v]
                 /\ orphan'[v] = orphan[v]
                 /\ v \in object' <=> v \in object
                 /\ v \in events' <=> v \in events
<1> USE DEF IngestTypeOK
<1>1. CASE Register(u) \/ RegisterFails(u) \/ Store(u) \/ StoreFails(u)
    BY <1>1 DEF Register, RegisterFails, Store, StoreFails
<1>2. CASE Check(u) \/ InsertEvent(u) \/ PersistFails(u)
    BY <1>2 DEF Check, InsertEvent, PersistFails
<1>3. CASE Commit(u) \/ CommitUncertain(u) \/ Resolve(u)
    BY <1>3 DEF Commit, CommitUncertain, Resolve, AcceptEvent
<1>4. CASE CleanupDelete(u) \/ CleanupClear(u) \/ CleanupMark(u) \/ Drop(u) \/ Age(u)
    BY <1>4 DEF CleanupDelete, CleanupClear, CleanupMark, Drop, Age
<1> QED BY <1>1, <1>2, <1>3, <1>4, UploadStep(u) DEF UploadStep

(* What its own upload looks like after each step. *)
LEMMA UploadOwn ==
    ASSUME IngestIInv, NEW u \in Uploads, UploadStep(u)
    PROVE  /\ HandlersOwn!(u)'
           /\ u \in events' => pc'[u] = "done" /\ orphan'[u] = "absent" /\ u \in object'
           /\ u \in object' \ events' => orphan'[u] # "absent"
           /\ pc[u] = "done" =>
                 /\ pc'[u] = "done"
                 /\ u \in events' <=> u \in events
                 /\ u \in object' <=> u \in object
<1> USE DEF IngestIInv, IngestTypeOK, HandlersOwn, EventsSettled, NoForgottenObject, AcceptedIsDurable
<1>1. CASE Register(u) \/ RegisterFails(u)
    BY <1>1 DEF Register, RegisterFails
<1>2. CASE Store(u) \/ StoreFails(u)
    BY <1>2 DEF Store, StoreFails
<1>3. CASE Check(u) \/ InsertEvent(u) \/ PersistFails(u)
    BY <1>3 DEF Check, InsertEvent, PersistFails
<1>4. CASE Commit(u) \/ CommitUncertain(u)
    BY <1>4 DEF Commit, CommitUncertain, AcceptEvent
<1>5. CASE Resolve(u)
    BY <1>5 DEF Resolve, AcceptEvent
<1>6. CASE CleanupDelete(u)
    BY <1>6 DEF CleanupDelete
<1>7. CASE CleanupClear(u) \/ CleanupMark(u)
    BY <1>7 DEF CleanupClear, CleanupMark
<1>8. CASE Drop(u) \/ Age(u)
    BY <1>8 DEF Drop, Age, Running
<1> QED BY <1>1, <1>2, <1>3, <1>4, <1>5, <1>6, <1>7, <1>8, UploadStep(u) DEF UploadStep

(* The transactions that hold a GUID change by InsertEvent and by the end of one. *)
LEMMA UploadGuid ==
    ASSUME IngestIInv, NEW u \in Uploads, UploadStep(u)
    PROVE  GuidLocked' /\ OneEventPerGuid'
<1> DEFINE InDoubt(v) == pc[v] \in {"open", "unresolved"}
<1>1. \A v \in Uploads : v # u => pc'[v] = pc[v]
    BY UploadFrame DEF IngestIInv
<1>2. CASE InsertEvent(u) /\ pc'[u] = "open"
  <2>1. events' = events /\ SameGuid(u) \cap events = {}
        /\ \A v \in SameGuid(u) : ~InDoubt(v)
      BY <1>2 DEF InsertEvent, IngestIInv, IngestTypeOK
  <2>2. ASSUME NEW x \in Uploads, InDoubt(x)'
        PROVE  /\ SameGuid(x) \cap events' = {}
               /\ \A v \in SameGuid(x) : v # x => ~InDoubt(v)'
    <3>1. CASE x = u
        BY <1>1, <2>1, <3>1, SameGuidSym
    <3>2. CASE x # u
      <4>1. InDoubt(x)
          BY <1>1, <2>2, <3>2
      <4>2. u \notin SameGuid(x)
          BY <2>1, <4>1, SameGuidSym
      <4> QED BY <1>1, <2>1, <4>1, <4>2, SameGuidSym DEF IngestIInv, GuidLocked
    <3> QED BY <3>1, <3>2
  <2> QED BY <2>1, <2>2 DEF GuidLocked, OneEventPerGuid, IngestIInv, SameGuid
<1>3. CASE InDoubt(u) /\ events' = events \cup {u} /\ pc'[u] = "done"
  <2>1. SameGuid(u) \cap events = {} /\ \A v \in SameGuid(u) : v # u => ~InDoubt(v)
      BY <1>3 DEF IngestIInv, GuidLocked
  <2>2. ASSUME NEW x \in Uploads, InDoubt(x)'
        PROVE  /\ SameGuid(x) \cap events' = {}
               /\ \A v \in SameGuid(x) : v # x => ~InDoubt(v)'
    <3>1. x # u /\ InDoubt(x)
        BY <1>1, <1>3, <2>2
    <3>2. u \notin SameGuid(x)
        BY <2>1, <3>1, SameGuidSym
    <3> QED BY <1>1, <1>3, <3>1, <3>2, SameGuidSym DEF IngestIInv, GuidLocked
  <2>3. ASSUME NEW x \in events' PROVE SameGuid(x) \cap events' = {x}
    <3>1. u \in SameGuid(u) /\ x \in SameGuid(x) /\ x \in Uploads
        BY <1>3 DEF SameGuid, IngestIInv, IngestTypeOK
    <3>2. CASE x = u
        BY <1>3, <2>1, <3>1, <3>2
    <3>3. CASE x # u
      <4>1. x \in events
          BY <1>3, <3>3
      <4>2. u \notin SameGuid(x)
          BY <2>1, <3>1, <4>1, SameGuidSym
      <4> QED BY <1>3, <4>1, <4>2 DEF IngestIInv, OneEventPerGuid
    <3> QED BY <3>2, <3>3
  <2>4. GuidLocked'
      BY <2>2 DEF GuidLocked, SameGuid
  <2>5. OneEventPerGuid'
      BY <2>3 DEF OneEventPerGuid, SameGuid
  <2> QED BY <2>4, <2>5
<1>4. CASE events' = events /\ (InDoubt(u)' => InDoubt(u))
  <2>1. \A v \in Uploads : InDoubt(v)' => InDoubt(v)
      BY <1>1, <1>4
  <2>2. GuidLocked'
      BY <1>4, <2>1, SameGuidSym DEF GuidLocked, IngestIInv, SameGuid
  <2>3. OneEventPerGuid'
      BY <1>4 DEF OneEventPerGuid, IngestIInv, SameGuid
  <2> QED BY <2>2, <2>3
<1>5. \/ InsertEvent(u) /\ pc'[u] = "open"
      \/ InDoubt(u) /\ events' = events \cup {u} /\ pc'[u] = "done"
      \/ events' = events /\ (InDoubt(u)' => InDoubt(u))
  <2> USE DEF IngestIInv, IngestTypeOK
  <2>1. CASE Register(u) \/ RegisterFails(u) \/ Store(u) \/ StoreFails(u)
      BY <2>1 DEF Register, RegisterFails, Store, StoreFails
  <2>2. CASE Check(u) \/ InsertEvent(u) \/ PersistFails(u)
      BY <2>2 DEF Check, InsertEvent, PersistFails
  <2>3. CASE Commit(u) \/ CommitUncertain(u) \/ Resolve(u)
      BY <2>3 DEF Commit, CommitUncertain, Resolve, AcceptEvent
  <2>4. CASE CleanupDelete(u) \/ CleanupClear(u) \/ CleanupMark(u) \/ Drop(u) \/ Age(u)
      BY <2>4 DEF CleanupDelete, CleanupClear, CleanupMark, Drop, Age
  <2> QED BY <2>1, <2>2, <2>3, <2>4, UploadStep(u) DEF UploadStep
<1> QED BY <1>2, <1>3, <1>4, <1>5

(* An answer 202 is given when the event is there. *)
LEMMA UploadReply ==
    ASSUME IngestIInv, NEW u \in Uploads, UploadStep(u)
    PROVE  /\ events \subseteq events'
           /\ reply'[u] \in {"accepted", "duplicate"} => SameGuid(u) \cap events' # {}
<1> USE DEF IngestIInv, IngestTypeOK, AcceptedIsDurable
<1>1. CASE Register(u) \/ RegisterFails(u) \/ Store(u) \/ StoreFails(u)
    BY <1>1 DEF Register, RegisterFails, Store, StoreFails
<1>2. CASE Check(u) \/ InsertEvent(u) \/ PersistFails(u)
    BY <1>2 DEF Check, InsertEvent, PersistFails
<1>3. CASE Commit(u)
    BY <1>3 DEF Commit, AcceptEvent, SameGuid
<1>4. CASE CommitUncertain(u) \/ Resolve(u)
    BY <1>4 DEF CommitUncertain, Resolve, AcceptEvent
<1>5. CASE CleanupDelete(u) \/ CleanupClear(u) \/ CleanupMark(u) \/ Drop(u) \/ Age(u)
    BY <1>5 DEF CleanupDelete, CleanupClear, CleanupMark, Drop, Age
<1> QED BY <1>1, <1>2, <1>3, <1>4, <1>5, UploadStep(u) DEF UploadStep

LEMMA UploadIInv ==
    ASSUME IngestIInv, NEW u \in Uploads, UploadStep(u)
    PROVE  IngestIInv'
<1>1. IngestTypeOK'
    BY UploadType DEF IngestIInv
<1>2. GuidLocked' /\ OneEventPerGuid'
    BY UploadGuid
<1>3. HandlersOwn'
    BY UploadOwn, UploadFrame DEF IngestIInv, HandlersOwn
<1>4. EventsSettled'
    BY <1>1, UploadOwn, UploadFrame DEF IngestIInv, EventsSettled, IngestTypeOK
<1>5. SweepersSafe'
  <2>1. \A v \in Uploads : pc[v] = "done" =>
            pc'[v] = "done" /\ (v \in events' => v \in events)
            /\ (v \in object' => v \in object)
      BY UploadOwn, UploadFrame DEF IngestIInv
  <2> QED BY <2>1, UploadFrame DEF IngestIInv, SweepersSafe, IngestTypeOK, Sweep
<1>6. NoForgottenObject'
    BY <1>1, UploadOwn, UploadFrame DEF IngestIInv, NoForgottenObject, IngestTypeOK
<1>7. AcceptedIsDurable'
  <2>1. events' \subseteq object'
      BY <1>1, UploadOwn, UploadFrame DEF IngestIInv, AcceptedIsDurable, IngestTypeOK
  <2>2. ASSUME NEW v \in Uploads, reply'[v] \in {"accepted", "duplicate"}
        PROVE  SameGuid(v) \cap events' # {}
      BY <2>2, UploadReply, UploadFrame DEF IngestIInv, AcceptedIsDurable
  <2> QED BY <2>1, <2>2 DEF AcceptedIsDurable, SameGuid
<1> QED BY <1>1, <1>2, <1>3, <1>4, <1>5, <1>6, <1>7 DEF IngestIInv

-----------------------------------------------------------------------------
(* Steps of a sweeper.                                                      *)

(* A sweeper deletes no object of an event, and a row only after its object. *)
LEMMA SweepFrame ==
    ASSUME IngestIInv, NEW s \in Sweepers, SweepStep(s)
    PROVE  /\ UNCHANGED <<pc, reply, events>>
           /\ object' \subseteq object
           /\ \A u \in object \ object' : pc[u] = "done" /\ u \notin events
           /\ \A u \in Uploads : orphan'[u] # orphan[u] =>
                 /\ pc[u] = "done"
                 /\ u \notin events
                 /\ orphan'[u] = "absent" => u \notin object
<1> USE DEF IngestIInv, IngestTypeOK, Sweep
<1>1. CASE SweepStart(s)
    BY <1>1 DEF SweepStart
<1>2. CASE \E u \in Uploads : SweepDelete(s, u)
    BY <1>2 DEF SweepDelete, SweepersSafe
<1>3. CASE SweepRow(s)
  <2>1. sweep[s].key \in Uploads /\ pc[sweep[s].key] = "done" /\ sweep[s].key \notin events
      BY <1>3 DEF SweepRow, SweepersSafe
  <2>2. sweep[s].step = "clear" => sweep[s].key \notin object
      BY DEF SweepersSafe
  <2>3. UNCHANGED <<pc, reply, object, events>>
      BY <1>3 DEF SweepRow
  <2>4. \/ orphan' = orphan
        \/ sweep[s].step = "clear" /\ orphan' = [orphan EXCEPT ![sweep[s].key] = "absent"]
        \/ orphan' = [orphan EXCEPT ![sweep[s].key] = "failed"]
      BY <1>3 DEF SweepRow
  <2> QED BY <2>1, <2>2, <2>3, <2>4
<1>4. CASE SweepStops(s)
    BY <1>4 DEF SweepStops
<1> QED BY <1>1, <1>2, <1>3, <1>4, SweepStep(s) DEF SweepStep

LEMMA SweepKeys ==
    ASSUME IngestIInv, NEW s \in Sweepers, SweepStep(s)
    PROVE  SweepersSafe'
<1>0. UNCHANGED <<pc, events>> /\ object' \subseteq object
    BY SweepFrame
<1> USE DEF IngestIInv, IngestTypeOK, Sweep
<1>1. CASE SweepStart(s)
  <2>1. \A u \in Selected : pc[u] = "done" /\ u \notin events
      BY DEF Selected, Eligible, HandlersOwn, EventsSettled
  <2> QED BY <1>0, <1>1, <2>1 DEF SweepStart, SweepersSafe, Resting
<1>2. CASE \E u \in Uploads : SweepDelete(s, u)
    BY <1>0, <1>2 DEF SweepDelete, SweepersSafe
<1>3. CASE SweepRow(s)
    BY <1>0, <1>3 DEF SweepRow, SweepersSafe
<1>4. CASE SweepStops(s)
    BY <1>0, <1>4 DEF SweepStops, SweepersSafe, Resting
<1> QED BY <1>1, <1>2, <1>3, <1>4, SweepStep(s) DEF SweepStep

LEMMA SweepIInv ==
    ASSUME IngestIInv, NEW s \in Sweepers, SweepStep(s)
    PROVE  IngestIInv'
<1>1. IngestTypeOK'
    BY SweepType DEF IngestIInv
<1>2. SweepersSafe'
    BY SweepKeys
<1>3. UNCHANGED <<pc, reply, events>> /\ object' \subseteq object
    BY SweepFrame
<1>4. HandlersOwn'
  <2>1. \A u \in Uploads : pc[u] # "done" =>
            orphan'[u] = orphan[u] /\ (u \in object => u \in object')
      BY SweepFrame
  <2>2. \A u \in Uploads : orphan'[u] = orphan[u] \/ pc[u] = "done"
      BY SweepFrame
  <2> QED BY <1>3, <2>1, <2>2 DEF IngestIInv, HandlersOwn
<1>5. EventsSettled'
    BY <1>3, SweepFrame DEF IngestIInv, EventsSettled, IngestTypeOK
<1>6. GuidLocked' /\ OneEventPerGuid'
    BY <1>3 DEF IngestIInv, GuidLocked, OneEventPerGuid, SameGuid
<1>7. AcceptedIsDurable'
    BY <1>3, SweepFrame DEF IngestIInv, AcceptedIsDurable, SameGuid
<1>8. NoForgottenObject'
    BY <1>3, SweepFrame DEF IngestIInv, NoForgottenObject, IngestTypeOK
<1> QED BY <1>1, <1>2, <1>4, <1>5, <1>6, <1>7, <1>8 DEF IngestIInv

-----------------------------------------------------------------------------

(* The inductive invariant: what a handler owns at each step, that accepted *)
(* events are out of reach, and that sweepers only hold abandoned objects.  *)
THEOREM IngestInvariant == IngestSpec => []IngestIInv
<1>1. IngestIInv /\ [IngestNext]_ingestVars => IngestIInv'
  <2> SUFFICES ASSUME IngestIInv, [IngestNext]_ingestVars PROVE IngestIInv'
      OBVIOUS
  <2>1. CASE IngestNext
      BY <2>1, UploadIInv, SweepIInv DEF IngestNext
  <2>2. CASE UNCHANGED ingestVars
      BY <2>2 DEF ingestVars, IngestIInv, IngestTypeOK, HandlersOwn, EventsSettled, SweepersSafe, GuidLocked,
                  AcceptedIsDurable, OneEventPerGuid, NoForgottenObject, SameGuid
  <2> QED BY <2>1, <2>2
<1> QED BY <1>1, InitIngestIInv, PTL DEF IngestSpec

(* Every variable of the ingest protocol has its type, for any constants.   *)
THEOREM UploadTypes == IngestSpec => []IngestTypeOK
<1>1. IngestIInv => IngestTypeOK
    BY DEF IngestIInv
<1> QED BY <1>1, IngestInvariant, PTL

(* An answer 202 is never given, and never becomes, a lie: the event exists *)
(* and its raw object is in the store, for any number of uploads, retries   *)
(* and sweepers and wherever submit_crash or reconcile_orphans stops.       *)
THEOREM Durability == IngestSpec => []AcceptedIsDurable
<1>1. IngestIInv => AcceptedIsDurable
    BY DEF IngestIInv
<1> QED BY <1>1, IngestInvariant, PTL

(* persist_event accepts one event per crash GUID, through lost COMMIT      *)
(* answers and retries.                                                     *)
THEOREM Deduplication == IngestSpec => []OneEventPerGuid
<1>1. IngestIInv => OneEventPerGuid
    BY DEF IngestIInv
<1> QED BY <1>1, IngestInvariant, PTL

(* An object without an event always has its row in ingest_orphan_objects.  *)
THEOREM NothingForgotten == IngestSpec => []NoForgottenObject
<1>1. IngestIInv => NoForgottenObject
    BY DEF IngestIInv
<1> QED BY <1>1, IngestInvariant, PTL
=============================================================================
