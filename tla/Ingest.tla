------------------------------ MODULE Ingest ------------------------------
(***************************************************************************)
(* Durable crash ingest (apps/server/src/crash_ingest.rs).                 *)
(*                                                                         *)
(* submit_crash writes one raw object and one database transaction, in     *)
(* stores that do not share a commit.  A row in ingest_orphan_objects      *)
(* announces the object before it is written and is deleted by the         *)
(* transaction that accepts the event; reconcile_orphans deletes the       *)
(* objects of rows that were left behind.  The handler can stop at every   *)
(* await: the process dies, or the client goes away and the future is      *)
(* dropped.                                                                *)
(*                                                                         *)
(* An upload has an event id, an object key and an orphan row of its own,  *)
(* so all three are named by the upload.                                   *)
(***************************************************************************)
EXTENDS Integers, FiniteSets

CONSTANTS
    Uploads,     \* calls of submit_crash that passed the rate limits
    Guids,       \* crash GUIDs
    GuidOf,      \* [Uploads -> Guids \cup {NoValue}], NoValue: no usable GUID
    Sweepers,    \* server processes, each with one maintenance loop
    Batch,       \* the LIMIT of reconcile_orphans
    Stuck,       \* objects that the store never deletes
    NoValue

ASSUME IngestAssumption ==
    /\ IsFiniteSet(Uploads)
    /\ GuidOf \in [Uploads -> Guids \cup {NoValue}]
    /\ Batch \in Nat \ {0}
    /\ Stuck \subseteq Uploads
    /\ NoValue \notin Uploads
    /\ NoValue \notin Guids
    /\ NoValue \notin {"accepted", "duplicate"}

VARIABLES
    pc,        \* [Uploads -> Steps]: where submit_crash is
    reply,     \* [Uploads -> Replies]: what the client was told
    object,    \* the raw objects in the object store
    orphan,    \* [Uploads -> Rows]: ingest_orphan_objects
    rank,      \* [Uploads -> Nat]: the rows' order by last_error_at
    events,    \* the accepted events: event, object row, usage and job rows
    sweep      \* [Sweepers -> Sweep]: a call of reconcile_orphans

ingestVars == <<pc, reply, object, orphan, rank, events, sweep>>

Running == {"new", "registered", "stored", "checked", "open", "cleanup", "clear", "mark"}
Over == {"done", "unresolved"}
Steps == Running \cup Over
Replies == {NoValue, "accepted", "duplicate", "error", "uncertain"}
Rows == {"absent", "fresh", "failed", "old"}   \* failed: attempts > 0, old: over an hour
Sweep == [keys : SUBSET Uploads, key : Uploads \cup {NoValue}, step : {"delete", "clear", "mark"}]

Resting == [keys |-> {}, key |-> NoValue, step |-> "delete"]

IngestInit ==
    /\ pc = [u \in Uploads |-> "new"]
    /\ reply = [u \in Uploads |-> NoValue]
    /\ object = {}
    /\ orphan = [u \in Uploads |-> "absent"]
    /\ rank = [u \in Uploads |-> 0]
    /\ events = {}
    /\ sweep = [s \in Sweepers |-> Resting]

-----------------------------------------------------------------------------

(* last_error_at = now(): the row goes behind all others. *)
ToEnd(u) ==
    [v \in Uploads |-> IF v = u THEN Cardinality(Uploads)
                       ELSE IF rank[v] > rank[u] THEN rank[v] - 1 ELSE rank[v]]

SameGuid(u) == {v \in Uploads : v = u \/ (GuidOf[u] # NoValue /\ GuidOf[v] = GuidOf[u])}

(* register_pending_object.  The insert may be done although its answer is  *)
(* lost, and the request then ends here.                                    *)
Register(u) ==
    /\ pc[u] = "new"
    /\ \/ /\ pc' = [pc EXCEPT ![u] = "registered"]
          /\ UNCHANGED reply
       \/ /\ pc' = [pc EXCEPT ![u] = "done"]
          /\ reply' = [reply EXCEPT ![u] = "error"]
    /\ orphan' = [orphan EXCEPT ![u] = "fresh"]
    /\ rank' = ToEnd(u)
    /\ UNCHANGED <<object, events, sweep>>

RegisterFails(u) ==
    /\ pc[u] = "new"
    /\ pc' = [pc EXCEPT ![u] = "done"]
    /\ reply' = [reply EXCEPT ![u] = "error"]
    /\ UNCHANGED <<object, orphan, rank, events, sweep>>

(* store_request *)
Store(u) ==
    /\ pc[u] = "registered"
    /\ pc' = [pc EXCEPT ![u] = "stored"]
    /\ object' = object \cup {u}
    /\ UNCHANGED <<reply, orphan, rank, events, sweep>>

(* An error or the deadline; the multipart upload may be complete or not    *)
(* when the abort answers.                                                  *)
StoreFails(u) ==
    /\ pc[u] = "registered"
    /\ pc' = [pc EXCEPT ![u] = "cleanup"]
    /\ reply' = [reply EXCEPT ![u] = "error"]
    /\ object' \in {object, object \cup {u}}
    /\ UNCHANGED <<orphan, rank, events, sweep>>

(* persist_event begins: the SELECT by GUID, unless the envelope is invalid *)
(* or the database fails.                                                   *)
Check(u) ==
    /\ pc[u] = "stored"
    /\ \/ /\ SameGuid(u) \cap events = {}
          /\ pc' = [pc EXCEPT ![u] = "checked"]
          /\ UNCHANGED reply
       \/ /\ SameGuid(u) \cap events # {}
          /\ pc' = [pc EXCEPT ![u] = "cleanup"]
          /\ reply' = [reply EXCEPT ![u] = "duplicate"]
       \/ /\ pc' = [pc EXCEPT ![u] = "cleanup"]
          /\ reply' = [reply EXCEPT ![u] = "error"]
    /\ UNCHANGED <<object, orphan, rank, events, sweep>>

(* Mutant of InsertEvent: the check made before the transaction is relied on. *)
InsertChecked(u) ==
    /\ pc[u] = "checked"
    /\ pc' = [pc EXCEPT ![u] = "open"]
    /\ UNCHANGED <<reply, object, orphan, rank, events, sweep>>

(* INSERT INTO crash_events.  The unique index makes it wait for an open    *)
(* transaction with the same GUID.                                          *)
InsertEvent(u) ==
    /\ pc[u] = "checked"
    /\ \A v \in SameGuid(u) : pc[v] \notin {"open", "unresolved"}
    /\ \/ /\ SameGuid(u) \cap events = {}
          /\ pc' = [pc EXCEPT ![u] = "open"]
          /\ UNCHANGED reply
       \/ /\ SameGuid(u) \cap events # {}
          /\ pc' = [pc EXCEPT ![u] = "cleanup"]
          /\ reply' = [reply EXCEPT ![u] = "duplicate"]
    /\ UNCHANGED <<object, orphan, rank, events, sweep>>

(* A statement of the transaction fails, or the INSERT does not come back:  *)
(* rollback.                                                                *)
PersistFails(u) ==
    /\ pc[u] \in {"checked", "open"}
    /\ pc' = [pc EXCEPT ![u] = "cleanup"]
    /\ reply' = [reply EXCEPT ![u] = "error"]
    /\ UNCHANGED <<object, orphan, rank, events, sweep>>

(* Mutant of AcceptEvent: the orphan row is left for the sweeper. *)
AcceptKeepsRow(u) ==
    /\ events' = events \cup {u}
    /\ UNCHANGED orphan

(* What the transaction makes visible. *)
AcceptEvent(u) ==
    /\ events' = events \cup {u}
    /\ orphan' = [orphan EXCEPT ![u] = "absent"]

Commit(u) ==
    /\ pc[u] = "open"
    /\ AcceptEvent(u)
    /\ pc' = [pc EXCEPT ![u] = "done"]
    /\ reply' = [reply EXCEPT ![u] = "accepted"]
    /\ UNCHANGED <<object, rank, sweep>>

(* CommitUncertain: the answer to COMMIT is lost and nothing is cleaned up. *)
CommitUncertain(u) ==
    /\ pc[u] = "open"
    /\ pc' = [pc EXCEPT ![u] = "unresolved"]
    /\ reply' = [reply EXCEPT ![u] = "uncertain"]
    /\ UNCHANGED <<object, orphan, rank, events, sweep>>

(* The database applies the COMMIT after all, or drops the transaction. *)
Resolve(u) ==
    /\ pc[u] = "unresolved"
    /\ pc' = [pc EXCEPT ![u] = "done"]
    /\ AcceptEvent(u) \/ UNCHANGED <<events, orphan>>
    /\ UNCHANGED <<reply, object, rank, sweep>>

-----------------------------------------------------------------------------
(* cleanup_object: delete the object, then its row or the note that it      *)
(* could not be deleted.                                                    *)

CleanupDelete(u) ==
    /\ pc[u] = "cleanup"
    /\ \/ /\ u \notin Stuck
          /\ pc' = [pc EXCEPT ![u] = "clear"]
          /\ object' = object \ {u}
       \/ /\ pc' = [pc EXCEPT ![u] = "mark"]
          /\ object' \in {object, object \ (IF u \in Stuck THEN {} ELSE {u})}
    /\ UNCHANGED <<reply, orphan, rank, events, sweep>>

(* clear_orphan; its error is ignored. *)
CleanupClear(u) ==
    /\ pc[u] = "clear"
    /\ pc' = [pc EXCEPT ![u] = "done"]
    /\ orphan' \in {orphan, [orphan EXCEPT ![u] = "absent"]}
    /\ UNCHANGED <<reply, object, rank, events, sweep>>

CleanupMark(u) ==
    /\ pc[u] = "mark"
    /\ pc' = [pc EXCEPT ![u] = "done"]
    /\ \/ /\ orphan' = [orphan EXCEPT ![u] = "failed"]
          /\ rank' = ToEnd(u)
       \/ UNCHANGED <<orphan, rank>>
    /\ UNCHANGED <<reply, object, events, sweep>>

(* The process dies or the client disconnects.  A COMMIT on its way may     *)
(* still be applied.                                                        *)
Drop(u) ==
    /\ pc[u] \in Running
    /\ pc' = [pc EXCEPT ![u] = IF pc[u] = "open" THEN "unresolved" ELSE "done"]
    /\ UNCHANGED <<reply, object, orphan, rank, events, sweep>>

(* The row is an hour old.  A request is over by then: the upload has two   *)
(* minutes, and database statements are far shorter.                        *)
Age(u) ==
    /\ orphan[u] = "fresh"
    /\ pc[u] = "done"
    /\ orphan' = [orphan EXCEPT ![u] = "old"]
    /\ UNCHANGED <<pc, reply, object, rank, events, sweep>>

-----------------------------------------------------------------------------
(* reconcile_orphans *)

Eligible == {u \in Uploads : orphan[u] \in {"failed", "old"}}

(* Mutant of Selected: the order by last_error_at is dropped. *)
SelectedAny ==
    {CHOOSE u \in Eligible : \A v \in Eligible : u \in Stuck \/ v \notin Stuck}

Selected ==
    {u \in Eligible : Cardinality({v \in Eligible : rank[v] < rank[u]}) < Batch}

SweepStart(s) ==
    /\ sweep[s] = Resting
    /\ Eligible # {}
    /\ sweep' = [sweep EXCEPT ![s].keys = Selected]
    /\ UNCHANGED <<pc, reply, object, orphan, rank, events>>

SweepDelete(s, u) ==
    /\ sweep[s].step = "delete"
    /\ u \in sweep[s].keys
    /\ \/ /\ u \notin Stuck
          /\ object' = object \ {u}
          /\ sweep' = [sweep EXCEPT ![s] =
                         [keys |-> @.keys \ {u}, key |-> u, step |-> "clear"]]
       \/ /\ object' \in {object, object \ (IF u \in Stuck THEN {} ELSE {u})}
          /\ sweep' = [sweep EXCEPT ![s] =
                         [keys |-> @.keys \ {u}, key |-> u, step |-> "mark"]]
    /\ UNCHANGED <<pc, reply, orphan, rank, events>>

(* The statement on the row, with or without success; the loop goes on.     *)
SweepRow(s) ==
    /\ sweep[s].step # "delete"
    /\ LET u == sweep[s].key
       IN  \/ /\ sweep[s].step = "clear"
              /\ orphan' = [orphan EXCEPT ![u] = "absent"]
              /\ UNCHANGED rank
           \/ /\ sweep[s].step = "mark"
              /\ orphan[u] # "absent"
              /\ orphan' = [orphan EXCEPT ![u] = "failed"]
              /\ rank' = ToEnd(u)
           \/ UNCHANGED <<orphan, rank>>
    /\ sweep' = [sweep EXCEPT ![s] = [@ EXCEPT !.key = NoValue, !.step = "delete"]]
    /\ UNCHANGED <<pc, reply, object, events>>

(* The process stops in the middle of a batch. *)
SweepStops(s) ==
    /\ sweep[s] # Resting
    /\ sweep' = [sweep EXCEPT ![s] = Resting]
    /\ UNCHANGED <<pc, reply, object, orphan, rank, events>>

-----------------------------------------------------------------------------

UploadStep(u) ==
    \/ Register(u) \/ RegisterFails(u)
    \/ Store(u) \/ StoreFails(u)
    \/ Check(u) \/ InsertEvent(u) \/ PersistFails(u)
    \/ Commit(u) \/ CommitUncertain(u) \/ Resolve(u)
    \/ CleanupDelete(u) \/ CleanupClear(u) \/ CleanupMark(u)
    \/ Drop(u)
    \/ Age(u)

SweepStep(s) ==
    \/ SweepStart(s)
    \/ \E u \in Uploads : SweepDelete(s, u)
    \/ SweepRow(s)
    \/ SweepStops(s)

IngestNext ==
    \/ \E u \in Uploads : UploadStep(u)
    \/ \E s \in Sweepers : SweepStep(s)

IngestSpec == IngestInit /\ [][IngestNext]_ingestVars

-----------------------------------------------------------------------------
(* IngestFairness.  A handler goes on or is dropped, the database settles a       *)
(* COMMIT, rows grow old and the maintenance loop ticks every minute.       *)
(* Strong fairness where a process that stops can interrupt it: in the long *)
(* run each object is tried, a deletion the store accepts is done, and the  *)
(* row is updated.                                                          *)

SweepDeletes(u) == \E s \in Sweepers : SweepDelete(s, u)

SweepUpdates(u) ==
    \E s \in Sweepers :
        sweep[s].key = u /\ SweepRow(s) /\ <<orphan, rank>>' # <<orphan, rank>>

IngestFairness ==
    /\ \A u \in Uploads : /\ WF_ingestVars(UploadStep(u))
                          /\ WF_ingestVars(Resolve(u))
                          /\ WF_ingestVars(Age(u))
                          /\ SF_ingestVars(SweepDeletes(u))
                          /\ SF_ingestVars(SweepDeletes(u) /\ u \notin object')
                          /\ SF_ingestVars(SweepUpdates(u))
    /\ \A s \in Sweepers : SF_ingestVars(SweepStart(s)) /\ WF_ingestVars(SweepRow(s))

FairIngestSpec == IngestSpec /\ IngestFairness

-----------------------------------------------------------------------------
(* Properties.                                                              *)

(* Every variable has its type. *)
IngestTypeOK ==
    /\ pc \in [Uploads -> Steps]
    /\ reply \in [Uploads -> Replies]
    /\ object \in SUBSET Uploads
    /\ orphan \in [Uploads -> Rows]
    /\ rank \in [Uploads -> 0..Cardinality(Uploads)]
    /\ events \in SUBSET Uploads
    /\ sweep \in [Sweepers -> Sweep]

(* "must not return a successful ingest response before raw data and the    *)
(* processing job are durable": an upload answered 202, as new or as a      *)
(* duplicate, has an accepted event, and the raw object of every accepted   *)
(* event is in the store, whatever cleanup and the sweepers delete.         *)
AcceptedIsDurable ==
    /\ events \subseteq object
    /\ \A u \in Uploads :
          reply[u] \in {"accepted", "duplicate"} => SameGuid(u) \cap events # {}

(* One crash is one event: of the uploads that carry a GUID one at most is  *)
(* accepted, also when a COMMIT of unknown outcome is followed by a retry.  *)
OneEventPerGuid ==
    \A u \in events : SameGuid(u) \cap events = {u}

(* No object is forgotten: one that belongs to no event has an orphan row,  *)
(* at every step of every handler and sweeper.                              *)
NoForgottenObject ==
    \A u \in object \ events : orphan[u] # "absent"

(* What the handlers and the sweepers rely on: how far a request is tells   *)
(* what it owns, ...                                                        *)
HandlersOwn ==
    \A u \in Uploads :
        /\ pc[u] = "new" => orphan[u] = "absent" /\ u \notin object
        /\ pc[u] \in {"registered", "stored", "checked", "open", "unresolved"} =>
              orphan[u] = "fresh"
        /\ pc[u] \in {"stored", "checked", "open", "unresolved"} => u \in object
        /\ pc[u] = "clear" => u \notin object
        /\ orphan[u] \in {"failed", "old"} => pc[u] = "done"

(* ... an accepted event is out of everybody's reach, ...                   *)
EventsSettled ==
    \A u \in events : pc[u] = "done" /\ orphan[u] = "absent"

(* ... and a sweeper only works on objects that nobody else will use.       *)
SweepersSafe ==
    \A s \in Sweepers :
        /\ \A u \in sweep[s].keys : pc[u] = "done" /\ u \notin events
        /\ sweep[s].step # "delete" =>
              /\ sweep[s].key \in Uploads
              /\ pc[sweep[s].key] = "done"
              /\ sweep[s].key \notin events
        /\ sweep[s].step = "clear" => sweep[s].key \notin object

(* The unique index: a transaction with a GUID is the only one, and no      *)
(* event has the GUID yet.                                                  *)
GuidLocked ==
    \A u \in Uploads :
        pc[u] \in {"open", "unresolved"} =>
            /\ SameGuid(u) \cap events = {}
            /\ \A v \in SameGuid(u) : v # u => pc[v] \notin {"open", "unresolved"}

IngestIInv ==
    /\ IngestTypeOK
    /\ HandlersOwn
    /\ EventsSettled
    /\ SweepersSafe
    /\ GuidLocked
    /\ AcceptedIsDurable
    /\ OneEventPerGuid
    /\ NoForgottenObject

(* Every object is accepted or deleted in the end, unless the store refuses *)
(* to delete it; an object that cannot be deleted does not keep the others  *)
(* from their turn.                                                         *)
ObjectsSettle ==
    \A u \in Uploads \ Stuck : u \in object ~> u \in events \/ u \notin object
=============================================================================
