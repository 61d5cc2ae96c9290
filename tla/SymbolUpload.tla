--------------------------- MODULE SymbolUpload ---------------------------
(***************************************************************************)
(* Symbol upload (apps/server/src/symbol_upload.rs) and the index_artifact *)
(* job that publishes what was uploaded (apps/server/src/worker.rs).       *)
(*                                                                         *)
(* A client negotiates one path of a release after another: the server     *)
(* upserts the path's manifest row, looks for the artifact in the          *)
(* organization, and otherwise opens a multipart upload and a session.     *)
(* Completing the session makes the object and enqueues the job, which     *)
(* verifies the bytes and publishes them.  Every handler is a series of    *)
(* autocommitted statements and calls to the object store, and can stop    *)
(* between any two of them.                                                *)
(*                                                                         *)
(* An artifact is what a client declares of a path: checksum, size, type,  *)
(* module and embedded identity.  A file is an artifact declared truly.    *)
(* A session, its object key and its job share one id.                     *)
(***************************************************************************)
EXTENDS FiniteSets

CONSTANTS
    Rows,       \* release_manifest_artifacts: the paths of releases of an organization
    Artifacts,  \* what clients declare
    Files,      \* what clients upload
    Checksum,   \* [Artifacts -> Files]: the file with the declared checksum
    Sessions,   \* ids of sessions; bounds the number of uploads
    Handlers,   \* requests served at the same time
    None

ASSUME UploadAssumption ==
    /\ Checksum \in [Artifacts -> Files]
    /\ \A f \in Files \cap Artifacts : Checksum[f] = f
    /\ None \notin Artifacts \cup Files \cup Sessions \cup Rows

VARIABLES
    manifest,   \* [Rows -> Row]: release_manifest_artifacts
    session,    \* [Sessions -> Session]: artifact_upload_sessions with their parts
    canonical,  \* [Files -> Sessions \cup {None}]: artifact_objects, their debug images
    requested,  \* automatic reprocessing requests: row and checksum
    job,        \* [Sessions -> Jobs]: index_artifact jobs
    store,      \* [Sessions -> Store]: the object store
    call        \* [Handlers -> Call]: the handlers

vars == <<manifest, session, canonical, requested, job, store, call>>
database == <<manifest, session, canonical, requested, job>>

LiveStates == {"active", "completing", "processing"}
Row == [state : {"absent", "missing", "processing", "available", "mismatch", "quarantined"},
        art : Artifacts \cup {None}, image : Files \cup {None}]
Session == [state : LiveStates \cup {"absent", "completed", "failed", "aborted"},
            row : Rows \cup {None}, art : Artifacts \cup {None},
            expired : BOOLEAN, etag : Files \cup {None}]
Store == [upload : {"none", "open", "closed"}, part : Files \cup {None}, object : Files \cup {None}]
Jobs == {"none", "pending", "leased", "discard", "done"}
Steps == {"idle", "upsert", "retire", "retiring", "abort", "lookup", "checksum", "available",
          "mismatch", "missing", "check", "find", "create", "insert", "undo",
          "claim", "head", "finish", "enqueue", "cleanup", "drop"}
Call == [pc : Steps, row : Rows \cup {None}, art : Artifacts \cup {None},
         ses : Sessions \cup {None}, part : Files \cup {None},
         seen : BOOLEAN, again : BOOLEAN, staling : BOOLEAN]

Idle == [pc |-> "idle", row |-> None, art |-> None, ses |-> None, part |-> None,
         seen |-> FALSE, again |-> FALSE, staling |-> FALSE]

Init ==
    /\ manifest = [r \in Rows |-> [state |-> "absent", art |-> None, image |-> None]]
    /\ session = [s \in Sessions |-> [state |-> "absent", row |-> None, art |-> None,
                                      expired |-> FALSE, etag |-> None]]
    /\ canonical = [f \in Files |-> None]
    /\ requested = {}
    /\ job = [s \in Sessions |-> "none"]
    /\ store = [s \in Sessions |-> [upload |-> "none", part |-> None, object |-> None]]
    /\ call = [h \in Handlers |-> Idle]

-----------------------------------------------------------------------------
(* Sessions of a row; the unique index allows one live session per row.     *)

Of(r, states) == {s \in Sessions : session[s].row = r /\ session[s].state \in states}
Live(r) == Of(r, LiveStates)

At(h, pc) == call[h].pc = pc
Goto(h, pc) == call' = [call EXCEPT ![h].pc = pc]
Respond(h) == call' = [call EXCEPT ![h] = Idle]

(* A session that leaves 'active' and 'completing': its deadline and its    *)
(* recorded parts are not read again.                                       *)
Moved(q, state) == [q EXCEPT !.state = state, !.expired = FALSE, !.etag = None]

(* An upload that is completed or aborted has no parts. *)
Closed(object) == [upload |-> "closed", part |-> None, object |-> object]

(* A statement of another handler on the row or its session has taken its   *)
(* snapshot and not written yet.  It does not outlast a whole call to the   *)
(* object store.                                                            *)
Busy(r) == \E h \in Handlers : call[h].row = r /\ call[h].pc \in {"upsert", "retiring"}

(* The row's CHECK: only a quarantined row has a failure_code.  A statement *)
(* that does not set the column cannot move a row out of that state.        *)
Refused(r) == manifest[r].state = "quarantined"

(* enqueue_artifact_request, in the transaction that makes a row available: *)
(* one request per row and checksum that the row then has.                  *)
Request(r) == requested' = requested \cup {<<r, Checksum[manifest[r].art]>>}

(* Mutant of MarkAvailable: the request is for the artifact negotiated. *)
MarkAvailableDeclared(h) ==
    LET c == call[h]
    IN  /\ At(h, "available")
        /\ manifest' = [manifest EXCEPT ![c.row].state = "available", ![c.row].image = c.art]
        /\ requested' = requested \cup {<<c.row, Checksum[c.art]>>}
        /\ Respond(h)
        /\ UNCHANGED <<session, canonical, job, store>>

-----------------------------------------------------------------------------
(* negotiate, for one artifact of the request.                              *)

(* The upsert's subquery on sessions is evaluated on the snapshot, the      *)
(* manifest row when it has been locked.                                    *)
Negotiate(h, r, a) ==
    /\ At(h, "idle")
    /\ call' = [call EXCEPT ![h] = [Idle EXCEPT !.pc = "upsert", !.row = r, !.art = a,
                                                !.seen = Live(r) # {}]]
    /\ UNCHANGED <<database, store>>

(* try_upsert_manifest_artifact, and what upsert_manifest_artifact makes of *)
(* a refusal: retire the session in the way and try once more.              *)
Upsert(h) ==
    LET c == call[h]
        m == manifest[c.row]
        free == m.state = "absent" \/ ~c.seen \/ m.art = c.art
    IN  /\ At(h, "upsert")
        /\ IF free /\ ~Refused(c.row)
           THEN /\ manifest' = [manifest EXCEPT ![c.row] =
                       [state |-> IF m.state = "processing" /\ m.art = c.art
                                  THEN "processing" ELSE "missing",
                        art |-> c.art, image |-> None]]
                /\ call' = [call EXCEPT ![h].pc = "lookup", ![h].seen = FALSE]
           ELSE /\ IF free \/ c.again THEN Respond(h)
                   ELSE call' = [call EXCEPT ![h].pc = "retire", ![h].seen = FALSE,
                                             ![h].again = TRUE]
                /\ UNCHANGED manifest
        /\ UNCHANGED <<session, canonical, requested, job, store>>

(* Where retire_replaced_active_session and retire_stale_session return to. *)
Retired(h) ==
    call' = [call EXCEPT ![h].pc = IF call[h].staling THEN "check" ELSE "upsert",
                         ![h].ses = None,
                         ![h].seen = ~call[h].staling /\ Live(call[h].row) # {}]

(* Mutant of Retirable: a session that is being indexed is retired too. *)
RetirableLive(h) ==
    {s \in Live(call[h].row) :
        session[s].art # call[h].art \/ (call[h].staling /\ session[s].expired)}

(* The subquery of the two statements that retire a session. *)
Retirable(h) ==
    {s \in Of(call[h].row, {"active"}) :
        session[s].art # call[h].art \/ (call[h].staling /\ session[s].expired)}

RetireRead(h) ==
    /\ At(h, "retire")
    /\ IF Retirable(h) = {} THEN Retired(h)
       ELSE \E s \in Retirable(h) :
                call' = [call EXCEPT ![h].pc = "retiring", ![h].ses = s]
    /\ UNCHANGED <<database, store>>

(* The UPDATE finds its row by id alone: a session that was completed since *)
(* the snapshot is aborted all the same.                                    *)
RetireWrite(h) ==
    /\ At(h, "retiring")
    /\ session' = [session EXCEPT ![call[h].ses] = Moved(@, "aborted")]
    /\ Goto(h, "abort")
    /\ UNCHANGED <<manifest, canonical, requested, job, store>>

(* abort_multipart; its answer is ignored. *)
AbortUpload(s) ==
    \/ store' = [store EXCEPT ![s] = Closed(@.object)]
    \/ UNCHANGED store

Abort(h) ==
    /\ At(h, "abort")
    /\ AbortUpload(call[h].ses)
    /\ Retired(h)
    /\ UNCHANGED database

(* find_matching_debug_image and, in a statement of its own,                *)
(* organization_has_checksum                                                *)
Lookup(h) ==
    /\ At(h, "lookup")
    /\ Goto(h, IF call[h].art \in Files /\ canonical[Checksum[call[h].art]] # None
               THEN "available" ELSE "checksum")
    /\ UNCHANGED <<database, store>>

HasChecksum(h) ==
    /\ At(h, "checksum")
    /\ Goto(h, IF canonical[Checksum[call[h].art]] # None THEN "mismatch" ELSE "missing")
    /\ UNCHANGED <<database, store>>

(* mark_manifest_available names the row by id, whatever it declares now. *)
MarkAvailable(h) ==
    LET c == call[h]
    IN  /\ At(h, "available")
        /\ manifest' = [manifest EXCEPT ![c.row].state = "available", ![c.row].image = c.art]
        /\ Request(c.row)
        /\ Respond(h)
        /\ UNCHANGED <<session, canonical, job, store>>

MarkMismatch(h) ==
    LET r == call[h].row
    IN  /\ At(h, "mismatch")
        /\ IF Refused(r) THEN UNCHANGED manifest
           ELSE manifest' = [manifest EXCEPT ![r].state = "mismatch", ![r].image = None]
        /\ Respond(h)
        /\ UNCHANGED <<session, canonical, requested, job, store>>

(* mark_manifest_missing leaves a row that is being processed alone. *)
MarkMissing(h) ==
    LET r == call[h].row
    IN  /\ At(h, "missing")
        /\ IF Refused(r) THEN Respond(h) /\ UNCHANGED manifest
           ELSE /\ call' = [call EXCEPT ![h].pc = "retire", ![h].staling = TRUE]
                /\ manifest' = IF manifest[r].state = "processing" THEN manifest
                               ELSE [manifest EXCEPT ![r].state = "missing", ![r].image = None]
        /\ UNCHANGED <<session, canonical, requested, job, store>>

(* The rest of retire_stale_session: another artifact is on its way. *)
Check(h) ==
    /\ At(h, "check")
    /\ IF \E s \in Of(call[h].row, {"completing", "processing"}) : session[s].art # call[h].art
       THEN Respond(h) ELSE Goto(h, "find")
    /\ UNCHANGED <<database, store>>

(* load_active_session *)
Find(h) ==
    /\ At(h, "find")
    /\ IF \E s \in Live(call[h].row) : session[s].state # "active" \/ ~session[s].expired
       THEN Respond(h) ELSE Goto(h, "create")
    /\ UNCHANGED <<database, store>>

(* create_multipart under a fresh id *)
Create(h) ==
    /\ At(h, "create")
    /\ \E s \in Sessions :
          /\ store[s].upload = "none"
          /\ store' = [store EXCEPT ![s].upload = "open"]
          /\ call' = [call EXCEPT ![h].pc = "insert", ![h].ses = s]
    /\ UNCHANGED database

(* The session is inserted if the row still declares the artifact and the   *)
(* unique index has no live session; otherwise the upload is aborted.       *)
Insert(h) ==
    LET c == call[h]
    IN  /\ At(h, "insert")
        /\ IF manifest[c.row].art = c.art /\ Live(c.row) = {}
           THEN /\ session' = [session EXCEPT ![c.ses] =
                       [state |-> "active", row |-> c.row, art |-> c.art,
                        expired |-> FALSE, etag |-> None]]
                /\ Respond(h)
           ELSE Goto(h, "undo") /\ UNCHANGED session
        /\ UNCHANGED <<manifest, canonical, requested, job, store>>

Undo(h) ==
    /\ At(h, "undo")
    /\ AbortUpload(call[h].ses)
    /\ Respond(h)
    /\ UNCHANGED database

-----------------------------------------------------------------------------
(* The client between negotiation and completion.                           *)

Expire(s) ==
    /\ session[s].state = "active" /\ ~session[s].expired
    /\ session' = [session EXCEPT ![s].expired = TRUE]
    /\ UNCHANGED <<manifest, canonical, requested, job, store, call>>

(* PUT of the file with a URL that sign_upload_part gave for the session;   *)
(* it stays valid for ten minutes, so that a late one may replace the part  *)
(* of a session that is being completed.                                    *)
PutPart(s, f) ==
    /\ session[s].state \in {"active", "completing"} /\ store[s].upload = "open"
    /\ store' = [store EXCEPT ![s].part = f]
    /\ UNCHANGED <<database, call>>

RecordPart(s) ==
    /\ session[s].state = "active" /\ ~session[s].expired
    /\ store[s].upload = "open" /\ store[s].part # None
    /\ session' = [session EXCEPT ![s].etag = store[s].part]
    /\ UNCHANGED <<manifest, canonical, requested, job, store, call>>

-----------------------------------------------------------------------------
(* complete                                                                 *)

(* load_session and load_provider_parts *)
Complete(h, s) ==
    LET q == session[s]
        step == CASE q.state = "completed" -> "cleanup"
                  [] q.state = "failed" -> "drop"
                  [] q.state = "active" /\ ~q.expired /\ q.etag # None -> "claim"
                  [] q.state = "completing" -> "head"
                  [] OTHER -> "idle"
    IN  /\ At(h, "idle") /\ step # "idle"
        /\ call' = [call EXCEPT ![h] = [Idle EXCEPT !.pc = step, !.row = q.row, !.art = q.art,
                                                    !.ses = s, !.part = q.etag]]
        /\ UNCHANGED <<database, store>>

Claim(h) ==
    LET s == call[h].ses
    IN  /\ At(h, "claim")
        /\ IF session[s].state = "active"
           THEN /\ session' = [session EXCEPT ![s].state = "completing", ![s].expired = FALSE]
                /\ Goto(h, "head")
           ELSE Respond(h) /\ UNCHANGED session
        /\ UNCHANGED <<manifest, canonical, requested, job, store>>

(* object_exists: an earlier completion may have made the object although   *)
(* its answer was lost.                                                     *)
Head(h) ==
    /\ At(h, "head") /\ ~Busy(call[h].row)
    /\ Goto(h, IF store[call[h].ses].object # None THEN "enqueue" ELSE "finish")
    /\ UNCHANGED <<database, store>>

(* complete_multipart; it fails when the upload is gone or its part was     *)
(* replaced since it was recorded, and its answer may be lost.              *)
Finish(h) ==
    LET s == call[h].ses
    IN  /\ At(h, "finish")
        /\ IF store[s].upload = "open" /\ store[s].part = call[h].part
           THEN /\ store' = [store EXCEPT ![s] = Closed(call[h].part)]
                /\ Goto(h, "enqueue") \/ Respond(h)
           ELSE Respond(h) /\ UNCHANGED store
        /\ UNCHANGED database

(* enqueue_artifact_index, one transaction *)
Enqueue(h) ==
    LET c == call[h]
        s == c.ses
    IN  /\ At(h, "enqueue")
        /\ IF session[s].state = "completing" /\ manifest[c.row].art = c.art
           THEN /\ session' = [session EXCEPT ![s] = Moved(@, "processing")]
                /\ manifest' = [manifest EXCEPT ![c.row].state = "processing", ![c.row].image = None]
                /\ job' = [job EXCEPT ![s] = IF @ = "none" THEN "pending" ELSE @]
           ELSE UNCHANGED <<session, manifest, job>>
        /\ Respond(h)
        /\ UNCHANGED <<canonical, requested, store>>

(* cleanup_duplicate_object compares with the object of the row's image. *)
Cleanup(h) ==
    LET f == manifest[call[h].row].image
    IN  /\ At(h, "cleanup")
        /\ IF f # None /\ canonical[f] # call[h].ses THEN Goto(h, "drop") ELSE Respond(h)
        /\ UNCHANGED <<database, store>>

DropObject(h) ==
    /\ At(h, "drop")
    /\ store' = [store EXCEPT ![call[h].ses].object = None]
    /\ Respond(h)
    /\ UNCHANGED database

(* A call fails, the client goes away or the process stops. *)
Stop(h) ==
    /\ ~At(h, "idle")
    /\ Respond(h)
    /\ UNCHANGED <<database, store>>

-----------------------------------------------------------------------------
(* The index_artifact job.  Only the holder of the lease writes (JobQueue), *)
(* and its transactions need session and row in 'processing'; otherwise it  *)
(* ends as a lost lease.                                                    *)

Owned(s) ==
    /\ job[s] = "leased"
    /\ session[s].state = "processing"
    /\ manifest[session[s].row].state = "processing"

Lease(s) ==
    /\ job[s] = "pending"
    /\ job' = [job EXCEPT ![s] = "leased"]
    /\ UNCHANGED <<manifest, session, canonical, requested, store, call>>

Release(s) ==
    /\ job[s] = "leased"
    /\ job' = [job EXCEPT ![s] = "pending"]
    /\ UNCHANGED <<manifest, session, canonical, requested, store, call>>

(* Mutant of Verified: the object is not compared. *)
VerifiedAny(s) == store[s].object # None

(* The downloaded bytes have the declared checksum and embedded identity. *)
Verified(s) == store[s].object # None /\ store[s].object = session[s].art

(* Mutant of AfterCommit: every upload is taken for a duplicate. *)
AfterCommitAlways(key, s) == "discard"

(* The upload of a file that the organization has already is discarded. *)
AfterCommit(key, s) == IF key = s THEN "done" ELSE "discard"

(* publish_artifact *)
Publish(s) ==
    LET q == session[s]
        f == q.art
    IN  /\ Owned(s) /\ manifest[q.row].art = q.art /\ Verified(s)
        /\ canonical' = [canonical EXCEPT ![f] = IF @ = None THEN s ELSE @]
        /\ manifest' = [manifest EXCEPT ![q.row].state = "available", ![q.row].image = f]
        /\ session' = [session EXCEPT ![s].state = "completed"]
        /\ Request(q.row)
        /\ job' = [job EXCEPT ![s] = AfterCommit(canonical'[f], s)]
        /\ UNCHANGED <<store, call>>

(* publish_artifact_failure: the bytes are others, or are malformed *)
Reject(s) ==
    LET q == session[s]
    IN  /\ Owned(s) /\ manifest[q.row].art = q.art /\ store[s].object # None
        /\ \E verdict \in {"mismatch", "quarantined"} :
              /\ verdict = "mismatch" => ~Verified(s)
              /\ manifest' = [manifest EXCEPT ![q.row].state = verdict, ![q.row].image = None]
        /\ session' = [session EXCEPT ![s].state = "failed"]
        /\ job' = [job EXCEPT ![s] = "discard"]
        /\ UNCHANGED <<canonical, requested, store, call>>

(* finish_failure: attempts are exhausted, or the error is not transient *)
Fail(s) ==
    /\ Owned(s)
    /\ session' = [session EXCEPT ![s].state = "failed"]
    /\ manifest' = [manifest EXCEPT ![session[s].row].state = "quarantined",
                                    ![session[s].row].image = None]
    /\ job' = [job EXCEPT ![s] = "done"]
    /\ UNCHANGED <<canonical, requested, store, call>>

(* delete_object after the commit; an error or a crash leaves the object. *)
Discard(s) ==
    /\ job[s] = "discard"
    /\ \/ store' = [store EXCEPT ![s].object = None]
       \/ UNCHANGED store
    /\ job' = [job EXCEPT ![s] = "done"]
    /\ UNCHANGED <<manifest, session, canonical, requested, call>>

-----------------------------------------------------------------------------

Handle(h) ==
    \/ \E r \in Rows, a \in Artifacts : Negotiate(h, r, a)
    \/ \E s \in Sessions : Complete(h, s)
    \/ Upsert(h) \/ RetireRead(h) \/ RetireWrite(h) \/ Abort(h)
    \/ Lookup(h) \/ HasChecksum(h)
    \/ MarkAvailable(h) \/ MarkMismatch(h) \/ MarkMissing(h)
    \/ Check(h) \/ Find(h) \/ Create(h) \/ Insert(h) \/ Undo(h)
    \/ Claim(h) \/ Head(h) \/ Finish(h) \/ Enqueue(h)
    \/ Cleanup(h) \/ DropObject(h) \/ Stop(h)

Index(s) ==
    \/ Lease(s) \/ Release(s)
    \/ Publish(s) \/ Reject(s) \/ Fail(s) \/ Discard(s)

Next ==
    \/ \E h \in Handlers : Handle(h)
    \/ \E s \in Sessions : Expire(s) \/ RecordPart(s) \/ \E f \in Files : PutPart(s, f)
    \/ \E s \in Sessions : Index(s)

Spec == Init /\ [][Next]_vars

-----------------------------------------------------------------------------

(* Types; a row has a debug image exactly when it is available. *)
TypeOK ==
    /\ manifest \in [Rows -> Row]
    /\ session \in [Sessions -> Session]
    /\ canonical \in [Files -> Sessions \cup {None}]
    /\ requested \subseteq Rows \X Files
    /\ job \in [Sessions -> Jobs]
    /\ store \in [Sessions -> Store]
    /\ call \in [Handlers -> Call]
    /\ \A r \in Rows : manifest[r].image # None <=> manifest[r].state = "available"

(* What the organization shares is verified: the object published for a     *)
(* checksum is of a completed session and is that file, whatever was put    *)
(* into the session by clients that share it.                               *)
CanonicalIsVerified ==
    \A f \in Files : canonical[f] # None =>
        /\ session[canonical[f]].state = "completed"
        /\ store[canonical[f]].object \in {f, None}

(* A path is what it is reported as, whoever renegotiates it, replaces it   *)
(* or retires sessions meanwhile.  One in processing has a session with an  *)
(* unfinished index job for what it declares; one that is available had a   *)
(* reprocessing request for the checksum it declares, so that crashes which *)
(* wait for its symbols are processed again.                                *)
RowIsTruthful ==
    \A r \in Rows :
        /\ manifest[r].state = "processing" =>
              \E s \in Of(r, {"processing"}) :
                  session[s].art = manifest[r].art /\ job[s] \in {"pending", "leased"}
        /\ manifest[r].state = "available" => <<r, Checksum[manifest[r].art]>> \in requested

(* Publishing, rejecting and failing never take away what is shared: an     *)
(* object that was published is only deleted by a completion that was asked *)
(* for again, when its path has another debug image by then.                *)
PublishedKept ==
    [][\A f \in Files :
          /\ canonical[f] # None
          /\ store[canonical[f]].object # None
          /\ store'[canonical[f]].object = None
          => \E h \in Handlers : At(h, "drop") /\ call[h].ses = canonical[f]]_vars
=============================================================================
