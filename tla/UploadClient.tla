---------------------------- MODULE UploadClient ----------------------------
(***************************************************************************)
(* `faultlane symbols upload` (apps/cli/src/symbol_upload.rs) against the  *)
(* upload API (apps/server/src/symbol_upload.rs) and the index_artifact    *)
(* job: CI jobs that scan a tree, declare what they found for one release, *)
(* send the parts that the server asks for, complete the uploads and wait  *)
(* until the release's coverage settles.                                   *)
(*                                                                         *)
(* SymbolUpload has the interleavings within the server's handlers; here a *)
(* request is one step (negotiation: two for every artifact and one for    *)
(* the answer), and what a client knows between two requests is kept.      *)
(* A client that gets no answer exits with 4, after the request was served *)
(* or before it was sent: those are the client's states between requests.  *)
(*                                                                         *)
(* Paths are numbers, in the order in which the server sorts them.         *)
(***************************************************************************)
EXTENDS ArtifactScan

CONSTANTS
    Clients,    \* CI jobs that upload to the release
    PartBytes,  \* PART_BYTES
    Library,    \* the files that exist: what an index job can find in the bytes
    Scenarios   \* what each client uploads, what may go wrong, how often jobs are rerun

IsTree(t) ==
    /\ DOMAIN t = {"files", "dirs", "depth"}
    /\ DOMAIN t.files \subseteq Nat \ {0} /\ \A p \in DOMAIN t.files : t.files[p] \in Library

ASSUME ClientAssumption ==
    /\ None \notin Nat /\ None \notin Clients /\ MaxFiles \in Nat
    /\ \A s \in Scenarios :
          DOMAIN s.trees \subseteq Clients /\ \A c \in DOMAIN s.trees : IsTree(s.trees[c])

VARIABLES
    client,     \* [Clients -> ...]: a run of the command
    disk,       \* [Clients -> tree]: the build trees
    row,        \* release_manifest_artifacts of the release, by path
    session,    \* artifact_upload_sessions with their parts and uploads
    canonical,  \* artifact_debug_images: verified bytes and identity
    token,      \* the project's upload token is not revoked
    left,       \* faults and reruns that may still happen; calm: none that ends a run
    owner,      \* history: for each path, the client that declared it, if no other wrote since
    crossed,    \* history: paths that a run settled when the row was no longer its declaration
    mixed       \* clients that had others in the release during their run

clientVars == <<client, disk, row, session, canonical, token, left, owner, crossed, mixed>>
server == <<row, session, canonical, owner, crossed, mixed>>
outside == <<disk, token, left>>

Exits == [success |-> 0, validation |-> 2, unauthorized |-> 3, retryable |-> 4, internal |-> 5]

Fresh == [pc |-> "scan", found |-> <<>>, arts |-> <<>>, at |-> 0, todo |-> <<>>, part |-> 0,
          sent |-> None, cov |-> None, exit |-> None]

Idle == [Fresh EXCEPT !.pc = "idle"]

ClientInit ==
    \E s \in Scenarios :
        /\ client = [c \in Clients |-> IF c \in DOMAIN s.trees THEN Fresh ELSE Idle]
        /\ disk = s.trees
        /\ left = s.faults
        /\ row = <<>> /\ session = <<>> /\ canonical = {}
        /\ token = TRUE
        /\ owner = <<>> /\ crossed = {} /\ mixed = {}

-----------------------------------------------------------------------------
(* A run of the client.                                                     *)

RunOf(c) == client[c]
AtStep(c, pc) == RunOf(c).pc = pc
Goto(c, run) == client' = [client EXCEPT ![c] = run]
Exit(c, code) == Goto(c, [Idle EXCEPT !.exit = code, !.arts = RunOf(c).arts])

(* The answer of a handler that refuses, and what a run makes of it. *)
Response ==
    [Invalid |-> [status |-> 400, retryable |-> FALSE],
     Unauthorized |-> [status |-> 401, retryable |-> FALSE],
     Conflict |-> [status |-> 409, retryable |-> TRUE],
     Mismatch |-> [status |-> 422, retryable |-> FALSE],
     Unavailable |-> [status |-> 503, retryable |-> TRUE]]

MapApiError(r) ==
    CASE r.status = 401 -> Exits.unauthorized
      [] r.status >= 500 \/ r.retryable -> Exits.retryable
      [] r.status \in {400, 404, 409, 422} /\ ~r.retryable -> Exits.validation
      [] OTHER -> Exits.internal

Refused(c, error) == Exit(c, MapApiError(Response[error]))

(* authorize_upload: every request looks the token up. *)
Authorized == token

Set(f, x, y) == [z \in DOMAIN f \cup {x} |-> IF z = x THEN y ELSE f[z]]

(* What part n of size bytes reads from a file, and how many parts there are *)
Part(bytes, size, n) ==
    SubSeq(bytes, (n - 1) * PartBytes + 1, Min({n * PartBytes, size, Len(bytes)}))
PartCount(bytes) == (Len(bytes) + PartBytes - 1) \div PartBytes

(* expected_part_size: every part but the last is full. *)
ExpectedPartSize(art, n) ==
    IF n < PartCount(art.bytes) THEN PartBytes
    ELSE Len(art.bytes) - PartBytes * (PartCount(art.bytes) - 1)

(* scan_artifacts and the checks of collect_artifacts *)
Scan(c) ==
    LET found == Discovered(disk[c])
    IN  /\ AtStep(c, "scan")
        /\ IF Collected(disk[c], None)
           THEN Goto(c, [RunOf(c) EXCEPT !.pc = "hash",
                                       !.found = [p \in found |-> disk[c].files[p]]])
           ELSE Exit(c, Exits.validation)
        /\ UNCHANGED <<server, outside>>

(* hash_file reads the files again, the size that the scan found and no     *)
(* other.                                                                   *)
Hash(c) ==
    LET r == RunOf(c)
        now == disk[c].files
    IN  /\ AtStep(c, "hash")
        /\ IF \A p \in DOMAIN r.found : Size(now[p]) = Size(r.found[p])
           THEN Goto(c, [r EXCEPT !.pc = "negotiate", !.found = <<>>,
                           !.arts = [p \in DOMAIN r.found |->
                                        [bytes |-> now[p].bytes, id |-> Identity(r.found[p])]]])
           ELSE Exit(c, Exits.validation)
        /\ UNCHANGED <<server, outside>>

-----------------------------------------------------------------------------
(* negotiate                                                                *)

LiveOf(p) ==
    {i \in DOMAIN session :
        session[i].path = p /\ session[i].state \in {"active", "completing", "processing"}}

Aborted(sessions) ==
    [i \in DOMAIN session |->
        IF i \in sessions THEN [session[i] EXCEPT !.state = "aborted"] ELSE session[i]]

(* ValidatedNegotiation *)
ValidRequest(arts) ==
    LET Bytes(p) == Len(arts[p].bytes)
    IN  /\ Cardinality(DOMAIN arts) \in 1..MaxFiles
        /\ \A p \in DOMAIN arts :
              /\ Bytes(p) \in 1..MaxFileBytes
              /\ (arts[p].id.type = "pdb") = (arts[p].id.code = None)
        /\ MapThenSumSet(Bytes, DOMAIN arts) <= MaxTotalBytes

NextPath(arts, p) ==
    LET rest == {q \in DOMAIN arts : q > p} IN IF rest = {} THEN None ELSE Min(rest)

(* negotiate_uploads: authorize_upload, the validation and the release *)
Negotiate(c) ==
    /\ AtStep(c, "negotiate")
    /\ CASE ~Authorized -> Refused(c, "Unauthorized")
         [] Authorized /\ ~ValidRequest(RunOf(c).arts) -> Refused(c, "Invalid")
         [] OTHER -> Goto(c, [RunOf(c) EXCEPT !.pc = "upsert", !.at = NextPath(RunOf(c).arts, 0)])
    /\ UNCHANGED <<server, outside>>

Others(c) == {d \in Clients \ {c} : RunOf(d).pc # "idle"}

(* upsert_manifest_artifact: an active session for another artifact is      *)
(* retired, one that is further stands in the way, and the row's CHECK      *)
(* refuses to take a quarantined row up again.                              *)
Upsert(c) ==
    LET r == RunOf(c)
        p == r.at
        art == r.arts[p]
        other == {i \in LiveOf(p) : session[i].art # art}
        stays == {i \in other : session[i].state # "active"}
        known == p \in DOMAIN row
    IN  /\ AtStep(c, "upsert")
        /\ session' = Aborted(other \ stays)
        /\ IF stays # {} \/ (known /\ row[p].state = "quarantined")
           THEN /\ Refused(c, IF stays # {} THEN "Conflict" ELSE "Unavailable")
                /\ UNCHANGED <<row, owner, mixed>>
           ELSE /\ row' = Set(row, p,
                       [state |-> IF known /\ row[p].state = "processing" /\ row[p].art = art
                                  THEN "processing" ELSE "missing", art |-> art])
                /\ owner' = Set(owner, p, c)
                /\ mixed' = mixed \cup Others(c)
                /\ Goto(c, [r EXCEPT !.pc = "settle"])
        /\ UNCHANGED <<canonical, crossed, outside>>

(* Mutant of Stale: the deadline of a session is not looked at. *)
StaleOther(p, art) ==
    {i \in LiveOf(p) : session[i].state = "active" /\ session[i].art # art}

(* The sessions that retire_stale_session retires. *)
Stale(p, art) ==
    {i \in LiveOf(p) : session[i].state = "active" /\ (session[i].expired \/ session[i].art # art)}

(* The answer for one artifact; the next artifact follows. *)
Answer(c, status, i, have) ==
    LET r == RunOf(c)
        next == NextPath(r.arts, r.at)
    IN  Goto(c, [r EXCEPT !.pc = IF next = None THEN "respond" ELSE "upsert", !.at = next,
                          !.todo = Append(@, [path |-> r.at, status |-> status,
                                              ses |-> i, have |-> have])])

NewSession(p, art) ==
    [path |-> p, art |-> art, state |-> "active", expired |-> FALSE,
     put |-> <<>>, rec |-> <<>>, object |-> None]

(* get_or_create_session and load_completed_parts *)
OpenSession(c) ==
    LET r == RunOf(c)
        p == r.at
        art == r.arts[p]
        open == LiveOf(p) \ Stale(p, art)
        retired == Aborted(Stale(p, art))
    IN  CASE \E i \in open : session[i].art # art ->
                Refused(c, "Conflict") /\ session' = retired
          [] open # {} /\ \A i \in open : session[i].art = art ->
                /\ session' = retired
                /\ \E i \in open : Answer(c, "upload_required", i, DOMAIN session[i].rec)
          [] open = {} /\ row[p].art # art ->
                Refused(c, "Conflict") /\ session' = retired
          [] OTHER ->
                /\ session' = Append(retired, NewSession(p, art))
                /\ Answer(c, "upload_required", Len(session) + 1, {})

(* A path that another client declared is nobody's once c writes its row. *)
Written(p, c) == [owner EXCEPT ![p] = IF @ = c THEN c ELSE None]

(* find_matching_debug_image, organization_has_checksum and the states they *)
(* give the row, which is named by id.                                      *)
Settle(c) ==
    LET r == RunOf(c)
        p == r.at
        art == r.arts[p]
        refused == row[p].state = "quarantined"
    IN  /\ AtStep(c, "settle")
        /\ CASE art \in canonical ->
                  /\ row' = [row EXCEPT ![p].state = "available"]
                  /\ Answer(c, "already_present", None, {})
                  /\ UNCHANGED session
             [] art \notin canonical /\ refused ->
                  Refused(c, "Unavailable") /\ UNCHANGED <<row, session>>
             [] art \notin canonical /\ ~refused /\ \E x \in canonical : x.bytes = art.bytes ->
                  /\ row' = [row EXCEPT ![p].state = "mismatch"]
                  /\ Answer(c, "identity_mismatch", None, {})
                  /\ UNCHANGED session
             [] OTHER ->
                  /\ row' = [row EXCEPT ![p].state =
                                IF @ = "processing" THEN "processing" ELSE "missing"]
                  /\ OpenSession(c)
        /\ owner' = Written(p, c)
        /\ crossed' = crossed \cup {q \in {p} : row[q].art # art}
        /\ UNCHANGED <<canonical, mixed, outside>>

(* load_coverage: rows of the whole release, by state. *)
Coverage ==
    [state \in {"available", "missing", "mismatch", "processing", "quarantined"} |->
        Cardinality({p \in DOMAIN row : row[p].state = state})]

Respond(c) ==
    /\ AtStep(c, "respond")
    /\ Goto(c, [RunOf(c) EXCEPT !.pc = "artifact", !.cov = Coverage])
    /\ UNCHANGED <<server, outside>>

-----------------------------------------------------------------------------
(* upload_artifact                                                          *)

Finished(r) == [r EXCEPT !.pc = "artifact", !.todo = Tail(@)]

(* The first part from n that is not sent; one past the last if all are. *)
NextPart(task, art, n) ==
    Min({k \in n..PartCount(art.bytes) : k \notin task.have} \cup {PartCount(art.bytes) + 1})

AtPart(r, n) ==
    LET task == Head(r.todo)
        art == r.arts[task.path]
        k == NextPart(task, art, n)
    IN  [r EXCEPT !.part = k, !.sent = None,
                  !.pc = IF k > PartCount(art.bytes) THEN "complete" ELSE "sign"]

(* The next artifact of the answer, in the loop of upload. *)
Artifact(c) ==
    LET r == RunOf(c)
    IN  /\ AtStep(c, "artifact")
        /\ CASE r.todo = <<>> -> Goto(c, [r EXCEPT !.pc = "poll"])
             [] r.todo # <<>> /\ Head(r.todo).status = "identity_mismatch" ->
                   Exit(c, Exits.validation)
             [] r.todo # <<>> /\ Head(r.todo).status = "already_present" -> Goto(c, Finished(r))
             [] r.todo # <<>> /\ Head(r.todo).status = "upload_required" -> Goto(c, AtPart(r, 1))
        /\ UNCHANGED <<server, outside>>

Task(c) == Head(RunOf(c).todo)
Session(c) == session[Task(c).ses]
Writable(s) == s.state = "active" /\ ~s.expired

(* Read the part from the file, which may have changed, and sign it. *)
Sign(c) ==
    LET r == RunOf(c)
        art == r.arts[Task(c).path]
        bytes == disk[c].files[Task(c).path].bytes
        part == Part(bytes, Len(art.bytes), r.part)
    IN  /\ AtStep(c, "sign")
        /\ CASE Len(part) < ExpectedPartSize(art, r.part) -> Exit(c, Exits.validation)
             [] Len(part) = ExpectedPartSize(art, r.part) /\ ~Authorized ->
                   Refused(c, "Unauthorized")
             [] Len(part) = ExpectedPartSize(art, r.part) /\ Authorized /\ ~Writable(Session(c)) ->
                   Refused(c, "Conflict")
             [] OTHER -> Goto(c, [r EXCEPT !.pc = "put", !.sent = part])
        /\ UNCHANGED <<server, outside>>

(* The object store takes a part while the upload is open. *)
Put(c) ==
    LET i == Task(c).ses
        open == session[i].state \in {"active", "completing"} /\ session[i].object = None
    IN  /\ AtStep(c, "put")
        /\ IF open
           THEN /\ session' = [session EXCEPT ![i].put = Set(@, RunOf(c).part, RunOf(c).sent)]
                /\ Goto(c, [RunOf(c) EXCEPT !.pc = "record"])
           ELSE Exit(c, Exits.retryable) /\ UNCHANGED session
        /\ UNCHANGED <<row, canonical, owner, crossed, mixed, outside>>

(* provider_part: the part that the store lists; None: there is none. *)
ProviderPart(s, n) == IF n \in DOMAIN s.put THEN s.put[n] ELSE None

(* record_upload_part compares with the part that the store has. *)
Record(c) ==
    LET i == Task(c).ses
        n == RunOf(c).part
        good == Writable(session[i]) /\ ProviderPart(session[i], n) = RunOf(c).sent
    IN  /\ AtStep(c, "record")
        /\ CASE ~Authorized -> Refused(c, "Unauthorized") /\ UNCHANGED session
             [] Authorized /\ ~good -> Refused(c, "Conflict") /\ UNCHANGED session
             [] Authorized /\ good ->
                   /\ session' = [session EXCEPT ![i].rec = Set(@, n, RunOf(c).sent)]
                   /\ Goto(c, AtPart(RunOf(c), n + 1))
        /\ UNCHANGED <<row, canonical, owner, crossed, mixed, outside>>

-----------------------------------------------------------------------------
(* complete                                                                 *)

(* load_provider_parts *)
Whole(s) == DOMAIN s.rec = 1..PartCount(s.art.bytes)

(* The bytes that complete_multipart puts together from the parts. *)
Assembled(s) ==
    LET Byte(k) == s.rec[(k - 1) \div PartBytes + 1][((k - 1) % PartBytes) + 1]
    IN  [k \in 1..Len(s.art.bytes) |-> Byte(k)]

(* A session that can be completed: its object is there, or its parts are   *)
(* still the ones that were recorded.                                       *)
Completable(s) == s.object # None \/ \A n \in DOMAIN s.rec : ProviderPart(s, n) = s.rec[n]

Completed(s, state) ==
    [s EXCEPT !.state = state, !.object = IF @ = None THEN Assembled(s) ELSE @]

(* complete: idempotent for a session that was completed before; a session  *)
(* whose upload cannot be completed stays in completing.                    *)
Complete(c) ==
    LET i == Task(c).ses
        s == session[i]
        open == s.state = "completing" \/ Writable(s)
        fits == row[s.path].art = s.art
    IN  /\ AtStep(c, "complete")
        /\ CASE ~Authorized -> Refused(c, "Unauthorized") /\ UNCHANGED <<row, session, owner>>
             [] Authorized /\ s.state \in {"completed", "processing"} ->
                   /\ Goto(c, [Finished(RunOf(c)) EXCEPT !.cov = Coverage])
                   /\ UNCHANGED <<row, session, owner>>
             [] Authorized /\ s.state = "failed" ->
                   Refused(c, "Mismatch") /\ UNCHANGED <<row, session, owner>>
             [] Authorized /\ open /\ Whole(s) /\ Completable(s) /\ fits ->
                   /\ session' = [session EXCEPT ![i] = Completed(s, "processing")]
                   /\ row' = [row EXCEPT ![s.path].state = "processing"]
                   /\ owner' = Written(s.path, c)
                   /\ Goto(c, [Finished(RunOf(c)) EXCEPT !.cov = Coverage'])
             [] Authorized /\ open /\ Whole(s) /\ Completable(s) /\ ~fits ->
                   /\ session' = [session EXCEPT ![i] = Completed(s, "completing")]
                   /\ Refused(c, "Conflict") /\ UNCHANGED <<row, owner>>
             [] Authorized /\ open /\ Whole(s) /\ ~Completable(s) ->
                   /\ session' = [session EXCEPT ![i].state = "completing"]
                   /\ Refused(c, "Unavailable") /\ UNCHANGED <<row, owner>>
             [] OTHER -> Refused(c, "Conflict") /\ UNCHANGED <<row, session, owner>>
        /\ UNCHANGED <<canonical, crossed, mixed, outside>>

-----------------------------------------------------------------------------
(* wait_for_coverage and the end of upload                                  *)

(* Mutant of Verdict: a path that was rejected does not end the wait. *)
VerdictPatient(r) ==
    CASE Coverage["processing"] > 0 -> None
      [] Coverage["processing"] = 0 /\ r.cov # Coverage /\ r.cov["processing"] = 0 -> Exits.internal
      [] OTHER -> Exits.success

(* Mutant of Verdict: the coverage must be the one last seen. *)
VerdictExact(r) ==
    CASE Coverage["quarantined"] + Coverage["mismatch"] > 0 -> Exits.validation
      [] Coverage["quarantined"] + Coverage["mismatch"] = 0 /\ Coverage["processing"] > 0 -> None
      [] OTHER -> IF r.cov # Coverage THEN Exits.internal ELSE Exits.success

(* What the coverage of the release means for a run; None: wait on. *)
Verdict(r) ==
    CASE Coverage["quarantined"] + Coverage["mismatch"] > 0 -> Exits.validation
      [] Coverage["quarantined"] + Coverage["mismatch"] = 0 /\ Coverage["processing"] > 0 -> None
      [] OTHER -> IF r.cov # Coverage /\ r.cov["processing"] = 0
                  THEN Exits.internal ELSE Exits.success

Poll(c) ==
    /\ AtStep(c, "poll")
    /\ \/ ~Authorized /\ Refused(c, "Unauthorized")
       \/ Authorized /\ Verdict(RunOf(c)) # None /\ Exit(c, Verdict(RunOf(c)))
    /\ UNCHANGED <<server, outside>>

-----------------------------------------------------------------------------
(* The index_artifact job of a session, by what it finds in the bytes.      *)

(* download_to: the size and the digest of what was received. *)
Downloaded(s) == [size |-> Len(s.object), digest |-> s.object]

Indexed(i) ==
    LET s == session[i]
        declared == [size |-> Len(s.art.bytes), digest |-> s.art.bytes]
        real == {f \in Library : f.bytes = s.object}
    IN  CASE Downloaded(s) # declared -> "mismatch"
          [] Downloaded(s) = declared
             /\ ~\E f \in real : Parses(f) /\ Identity(f).type = s.art.id.type -> "quarantined"
          [] OTHER -> IF \E f \in real : Parses(f) /\ Identity(f) = s.art.id
                      THEN "available" ELSE "mismatch"

PublishIndexed(i, verdict) ==
    LET s == session[i]
    IN  /\ s.state = "processing"
        /\ row[s.path].state = "processing" /\ row[s.path].art = s.art
        /\ row' = [row EXCEPT ![s.path].state = verdict]
        /\ session' = [session EXCEPT ![i].state =
                          IF verdict = "available" THEN "completed" ELSE "failed"]
        /\ canonical' = IF verdict = "available" THEN canonical \cup {s.art} ELSE canonical
        /\ UNCHANGED <<client, owner, crossed, mixed, disk, token>>

Index(i) == PublishIndexed(i, Indexed(i)) /\ UNCHANGED left

-----------------------------------------------------------------------------
(* What may go wrong.                                                       *)

Budgeted(f) == left[f] > 0 /\ left' = [left EXCEPT ![f] = @ - 1]

Waiting == {"negotiate", "upsert", "settle", "respond", "sign", "put", "record", "complete", "poll"}

(* No answer, a server error, the poll's deadline or the end of the process *)
Lose(c) ==
    /\ RunOf(c).pc \in Waiting /\ Budgeted("lost")
    /\ Exit(c, Exits.retryable)
    /\ UNCHANGED <<server, disk, token>>

(* complete stops between its statements. *)
CompleteStops(c) ==
    LET i == Task(c).ses
    IN  /\ AtStep(c, "complete") /\ token /\ Budgeted("lost")
        /\ Writable(session[i]) /\ Whole(session[i])
        /\ \/ session' = [session EXCEPT ![i].state = "completing"]
           \/ /\ Completable(session[i])
              /\ session' = [session EXCEPT ![i] = Completed(@, "completing")]
        /\ Exit(c, Exits.retryable)
        /\ UNCHANGED <<row, canonical, owner, crossed, mixed, disk, token>>

Expire(i) ==
    /\ session[i].state = "active" /\ ~session[i].expired /\ Budgeted("expire")
    /\ session' = [session EXCEPT ![i].expired = TRUE]
    /\ UNCHANGED <<client, row, canonical, owner, crossed, mixed, disk, token>>

(* The job's attempts are exhausted. *)
IndexFails(i) == Budgeted("index") /\ PublishIndexed(i, "quarantined")

(* A build writes the file again while it is scanned or uploaded. *)
Change(c, p, f) ==
    /\ RunOf(c).pc # "idle" /\ Budgeted("change")
    /\ f.ext = disk[c].files[p].ext /\ f # disk[c].files[p]
    /\ disk' = [disk EXCEPT ![c].files[p] = f]
    /\ UNCHANGED <<client, server, token>>

(* revoke_upload_token *)
Revoke ==
    /\ token /\ Budgeted("revoke") /\ token' = FALSE
    /\ UNCHANGED <<client, server, disk>>

(* "retryable": the CI job is run again. *)
Rerun(c) ==
    /\ RunOf(c).exit = Exits.retryable /\ Budgeted("rerun")
    /\ Goto(c, Fresh)
    /\ mixed' = (mixed \ {c}) \cup (IF Others(c) # {} THEN {c} ELSE {})
    /\ UNCHANGED <<row, session, canonical, owner, crossed, disk, token>>

-----------------------------------------------------------------------------

Command(c) ==
    \/ Scan(c) \/ Hash(c) \/ Negotiate(c) \/ Upsert(c) \/ Settle(c) \/ Respond(c)
    \/ Artifact(c) \/ Sign(c) \/ Put(c) \/ Record(c) \/ Complete(c) \/ Poll(c)

ClientNext ==
    \/ \E c \in Clients : Command(c) \/ Rerun(c) \/ Lose(c) \/ CompleteStops(c)
    \/ \E i \in DOMAIN session : Index(i) \/ IndexFails(i) \/ Expire(i)
    \/ \E c \in DOMAIN disk : \E p \in DOMAIN disk[c].files : \E f \in Library : Change(c, p, f)
    \/ Revoke

ClientSpec == ClientInit /\ [][ClientNext]_clientVars

(* A command that can go on does, a CI job that may be retried is, and the  *)
(* workers get to every job.                                                *)
ClientFairness ==
    /\ WF_clientVars(\E c \in Clients : Command(c) \/ Rerun(c))
    /\ WF_clientVars(\E i \in DOMAIN session : Index(i))

FairClientSpec == ClientSpec /\ ClientFairness

-----------------------------------------------------------------------------

(* The exit code tells the truth.  An upload that reports success is        *)
(* usable: every path of the run that no other run wrote since is           *)
(* available as the run declared it, and what it declared is one file,      *)
(* bytes and identity, whatever the run found half done, shared with others *)
(* or had changed under it.  Not claimed for a path at which the            *)
(* negotiations of two builds crossed: a run that declared it before        *)
(* another one settles the row, by its id, after it.  "artifact upload      *)
(* could not be completed" is about a release that others upload to: alone, *)
(* a run never finds a coverage that it cannot explain.                     *)
ExitIsTrue ==
    \A c \in Clients :
        /\ RunOf(c).exit = Exits.success =>
              \A p \in DOMAIN RunOf(c).arts \ crossed : owner[p] = c =>
                  /\ row[p].state = "available" /\ row[p].art = RunOf(c).arts[p]
                  /\ \E f \in Library : RunOf(c).arts[p] = [bytes |-> f.bytes, id |-> Identity(f)]
        /\ RunOf(c).exit = Exits.internal => c \in mixed

(* A valid tree that does not change is uploaded: when only answers are     *)
(* lost, servers stop and sessions expire, a job that is alone and is run   *)
(* again once for every fault ends with success.                            *)
UploadFinishes ==
    \A c \in Clients : (left.calm /\ RunOf(c).pc = "hash") ~> (RunOf(c).exit = Exits.success)

-----------------------------------------------------------------------------
(* The inductive invariant that ExitIsTrue needs.                           *)

IsSeq(s) == s \in Seq({s[i] : i \in 1..Len(s)})

Early == {"scan", "hash", "negotiate"}
Transfer == {"sign", "put", "record", "complete"}
Answered == {"artifact", "poll"} \cup Transfer
Art == [bytes : {f.bytes : f \in Library}, id : {Identity(f) : f \in Library}]
Verified == {[bytes |-> f.bytes, id |-> Identity(f)] : f \in Library}
RowStates == {"available", "missing", "mismatch", "processing", "quarantined"}
LiveStates == {"active", "completing", "processing"}

(* A run: where it is, what it found and declared, and its tasks, of which  *)
(* every upload has a session of its path.                                  *)
RunOK(c) ==
    LET r == RunOf(c)
    IN  /\ DOMAIN r = {"pc", "found", "arts", "at", "todo", "part", "sent", "cov", "exit"}
        /\ r.pc \in Early \cup {"upsert", "settle", "respond", "idle"} \cup Answered
        /\ r.pc # "idle" => r.exit = None
        /\ r.pc # "idle" \/ r.exit # None => c \in DOMAIN disk
        /\ r.pc = "hash" => /\ DOMAIN r.found \subseteq DOMAIN disk[c].files
                            /\ \A p \in DOMAIN r.found : r.found[p] \in Library
        /\ DOMAIN r.arts \subseteq Nat \ {0} /\ \A p \in DOMAIN r.arts : r.arts[p] \in Art
        /\ r.pc \in {"upsert", "settle"} => r.at \in DOMAIN r.arts
        /\ IsSeq(r.todo)
        /\ r.pc \in Early \cup {"poll"} => r.todo = <<>>
        /\ r.pc \in Transfer => r.todo # <<>> /\ r.todo[1].status = "upload_required"
        /\ \A k \in DOMAIN r.todo :
              /\ r.todo[k].status \in {"already_present", "identity_mismatch", "upload_required"}
              /\ r.todo[k].status = "upload_required" =>
                    /\ r.todo[k].ses \in DOMAIN session
                    /\ session[r.todo[k].ses].path = r.todo[k].path

ClientTypeOK ==
    /\ DOMAIN client = Clients /\ \A c \in Clients : RunOK(c)
    /\ DOMAIN disk \subseteq Clients /\ \A c \in DOMAIN disk : IsTree(disk[c])
    /\ IsFiniteSet(DOMAIN row) /\ DOMAIN owner = DOMAIN row
    /\ \A p \in DOMAIN row : row[p] \in [state : RowStates, art : Art]
    /\ IsSeq(session)
    /\ \A i \in DOMAIN session :
          /\ DOMAIN session[i] = {"path", "art", "state", "expired", "put", "rec", "object"}
          /\ session[i].path \in DOMAIN row /\ session[i].art \in Art
    /\ canonical \subseteq Verified

(* The sessions of a path: one is live, for what the row declares, and the  *)
(* job of one in processing finds the row in processing, unless the bytes   *)
(* are known by then or the negotiations crossed.                           *)
Live(i) == session[i].state \in LiveStates
KnownBytes(art) == \E x \in canonical : x.bytes = art.bytes

SessionsStand ==
    /\ \A i, j \in DOMAIN session : Live(i) /\ Live(j) /\ i # j => session[i].path # session[j].path
    /\ \A i \in DOMAIN session : Live(i) =>
          LET p == session[i].path
          IN  /\ row[p].art = session[i].art
              /\ session[i].state = "processing" /\ p \notin crossed =>
                    row[p].state = "processing" \/ KnownBytes(session[i].art)

AvailableIsVerified ==
    \A p \in DOMAIN row : row[p].state = "available" /\ owner[p] # None => row[p].art \in canonical

(* The paths that the server has declared for a run. *)
Declared(c) ==
    LET r == RunOf(c)
    IN  {p \in DOMAIN r.arts :
            \/ r.pc = "upsert" /\ p < r.at
            \/ r.pc = "settle" /\ p <= r.at
            \/ r.pc \in {"respond"} \cup Answered
            \/ r.exit = Exits.success}

(* What is left of a declared path, as long as it is the run's: an upload   *)
(* that is still to be completed, if the row is missing.                    *)
Awaited(c, p) ==
    LET r == RunOf(c)
    IN  \/ r.pc = "settle" /\ p = r.at
        \/ \E k \in DOMAIN r.todo :
              /\ r.todo[k].path = p /\ r.todo[k].status = "upload_required"
              /\ session[r.todo[k].ses].state \notin {"processing", "completed"}

Stands(c, p) ==
    LET mine == owner[p] = c
    IN  /\ p \in DOMAIN row
        /\ mine => row[p].art = RunOf(c).arts[p]
        /\ mine /\ p \notin crossed /\ row[p].state = "missing" => Awaited(c, p)
        /\ mine /\ p \notin crossed /\ RunOf(c).exit = Exits.success => row[p].state = "available"

DeclarationsStand == \A c \in Clients : \A p \in Declared(c) : Stands(c, p)

(* A run that has written to the release, or is about to. *)
Loud(c) ==
    /\ RunOf(c).pc \notin Early \cup {"idle"}
    /\ ~(RunOf(c).pc = "upsert" /\ RunOf(c).todo = <<>>)

(* A run that had the release to itself: the others have declared nothing,  *)
(* and a coverage without processing is the coverage still.                 *)
Undisturbed(c) ==
    /\ RunOf(c).pc # "idle" => \A d \in Others(c) : ~Loud(d)
    /\ RunOf(c).pc \in Answered /\ RunOf(c).cov["processing"] = 0 => RunOf(c).cov = Coverage
    /\ RunOf(c).exit # Exits.internal

AloneIsUndisturbed == \A c \in Clients \ mixed : Undisturbed(c)

ClientIInv ==
    ClientTypeOK /\ SessionsStand /\ AvailableIsVerified /\ DeclarationsStand /\ AloneIsUndisturbed
=============================================================================
