----------------------------- MODULE Processor -----------------------------
(***************************************************************************)
(* The isolated processor: a worker's run of one job in a container        *)
(* (processor_runner.rs, worker.rs), the program in the container          *)
(* (apps/cli/src/processor.rs, crates/processing) and the reconciliation   *)
(* of containers and attempt directories that other runs left behind.      *)
(*                                                                         *)
(* The job is one that ingest or an upload made: its input was accepted by *)
(* them.  Claims are numbered, and the number stands for the lease token,  *)
(* the container's name and the attempt's directory.  Whether a job that   *)
(* is given back has attempts left is the matter of JobQueue.              *)
(***************************************************************************)
EXTENDS CrashRequest, Grouping, ResultContract

CONSTANTS
    Scenarios,  \* [input, faults]: what a behaviour starts with
    MaxClaims   \* bound: claims of the job

ASSUME ProcessorAssumption ==
    /\ MaxClaims \in Nat \ {0}
    /\ \A s \in Scenarios : s.faults \in Nat

(* The texts of a crash are sequences of words, its modules a sequence. *)
ASSUME TextsAssumption ==
    \A s \in Scenarios : s.input.kind = "process_crash" =>
        LET contexts == Contents(s.input.bundle, "context")
            dumps == Contents(s.input.bundle, "minidump")
            sequence(t) == t \in Seq(Range(t))
        IN  /\ contexts # <<>> => sequence(contexts[1].body.message)
            /\ dumps # <<>> /\ dumps[1].body.good =>
                  /\ sequence(dumps[1].body.reason) /\ sequence(dumps[1].body.assertion)
                  /\ sequence(dumps[1].body.modules)

Claims == 1 .. MaxClaims

VARIABLES
    input,   \* the job's kind and object, and the crash GUID of the event
    output,  \* what the program makes of it, without and with symbols
    faults,  \* faults that may still happen
    job,     \* the row: state, the claim that holds it, expired, and resource:
             \* whether resource_failures > 0
    result,  \* what was published
    run,     \* [Claims -> Run]: the task of each claim
    box,     \* [Claims -> state of its container]
    dir,     \* [Claims -> BOOLEAN]: its attempt directory exists
    sweep    \* reconcile_containers: where it is and what it has listed

processorVars == <<input, output, faults, job, result, run, box, dir, sweep>>

(* `calm`: no docker command of the run failed and its lease never lapsed. *)
NoRun == [pc |-> "none", round |-> 1, verdict |-> "none", calm |-> TRUE]

Alive(c) == run[c].pc \notin {"none", "ended", "dead"}

(* lease_is_active and lock_lease; release_job asks only for the holder. *)
Holds(c) == job.state = "leased" /\ job.holder = c
Active(c) == Holds(c) /\ ~job.expired

-----------------------------------------------------------------------------
(* The program in the container.                                            *)

(* What the result says of the crash, from its context and its minidump. *)
Found(context, dump, round) ==
    [type |-> CrashType(context.type), classification |-> Classify(context),
     message |-> context.message, platform |-> context.platform,
     reason |-> dump.reason, assertion |-> dump.assertion,
     frames |-> dump.frames[round], modules |-> dump.modules]

(* CrashContext::extract.  What no property looks at is private text. *)
ExtractContext(context) ==
    [f \in ContextFields \ {"command_line"} |->
        CASE f = "crash_guid" -> {<<context.guid>>}
          [] f = "crash_type" -> {<<CrashType(context.type)>>}
          [] f = "error_message" -> {context.message}
          [] f = "platform" -> {<<context.platform>>}
          [] OTHER -> {<<"private">>}]

(* ProcessingAttempt: build_result of the minidump, by a processor of this  *)
(* version or an earlier one.                                               *)
Attempt(dump, round, version) ==
    LET frames == Range(dump.frames[round])
    IN  [processing |-> version, schema |-> version, parser |-> ParserVersion,
         symbolication |-> [f \in SymbolicationFields(version) |->
             CASE f = "platform" -> {<<"windows">>}
               [] f = "architecture" -> {<<"x86_64">>}
               [] f = "module_status" -> {<<"matched">>, <<"missing_pdb">>}
               [] f = "unwind_status" -> {<<"ok">>}
               [] f = "symbol_status" ->
                      {<<IF g.function # "" THEN "resolved" ELSE "missing_pdb">> : g \in frames}
               [] f = "function" -> {<<g.function>> : g \in frames}
               [] f = "source_file" -> {g.source : g \in frames}
               [] OTHER -> {<<"private">>}]]

(* build_processing_result *)
BuildResult(context, dump, round, version, previous) ==
    LET current == Attempt(dump, round, version)
        class == Classify(context)
    IN  [guid |-> context.guid, parser |-> ParserVersion, context |-> ExtractContext(context),
         request |-> [envelope |-> {<<"cr1">>},
                      file_kind |-> {<<"crash_context">>, <<"minidump">>}],
         classification |-> [crash_type |-> {<<class.type>>}, confidence |-> {<<class.confidence>>},
                             signal_kind |-> {<<s.kind>> : s \in class.signals},
                             signal_confidence |-> {<<s.confidence>> : s \in class.signals}],
         current |-> current, history |-> HistoryAfter(previous, current)]

(* process_crash_request.  `round` says whether symbols were materialised,  *)
(* which is what the frames found in the minidump depend on.                *)
ProcessCrash(i, round, version, previous) ==
    LET context == Contents(i.bundle, "context")[1].body
        dump == Contents(i.bundle, "minidump")[1].body
        logs == Contents(i.bundle, "log")
    IN  IF \/ ReadCrashRequest(i.bundle) # "none"
           \/ Contents(i.bundle, "context") = <<>> \/ Contents(i.bundle, "minidump") = <<>>
           \/ ~dump.good \/ context.guid = ""
           \/ ~ValidPrevious(previous, context.guid)
        THEN [ok |-> FALSE]
        ELSE [ok |-> TRUE, crash |-> Found(context, dump, round),
              log |-> IF logs = <<>> THEN <<>> ELSE <<ReadLogTail(logs[1].body)>>,
              result |-> BuildResult(context, dump, round, version, previous)]

(* The result that is stored: the crash may have been published before,     *)
(* each time under the rules of the day and by the processor of the day.    *)
StoredResult(i) ==
    FoldLeft(LAMBDA stored, e :
                 LET out == ProcessCrash(i, e.round, e.version, stored)
                 IN  IF out.ok /\ ValidResult(Redact(out.result, e.rules), FALSE)
                     THEN <<Redact(out.result, e.rules)>> ELSE stored,
             <<>>, i.earlier)

(* What grouping sees of the redacted result. *)
RedactCrash(crash, rules) ==
    [crash EXCEPT !.message = Redacted(@, rules),
                  !.platform = Redacted(<<@>>, rules)[1],
                  !.frames = [i \in DOMAIN @ |-> [@[i] EXCEPT !.source = Redacted(@, rules)]]]

(* What the worker and grouping make of a result: whether it is the one     *)
(* that validate_current_processing_result expects, and whether it still    *)
(* obeys the contract when it has been redacted.                            *)
Judged(i, out) ==
    IF ~out.ok THEN out
    ELSE [ok |-> TRUE, log |-> out.log, crash |-> RedactCrash(out.crash, i.rules),
          expected |-> ValidResult(out.result, TRUE) /\ out.result.guid = i.guid,
          publishable |-> ValidResult(Redact(out.result, i.rules), FALSE)]

(* run: index, generate and process; the artifact of the first two is good  *)
(* or it is not.                                                            *)
RunProcessor(i, round) ==
    IF i.kind = "process_crash"
    THEN Judged(i, ProcessCrash(i, round, ProcessingVersion, StoredResult(i)))
    ELSE [ok |-> i.valid]

-----------------------------------------------------------------------------
(* What ingest refuses never becomes a job. *)
Accepted(i) == i.kind = "process_crash" => InspectCrashEnvelope(i.bundle) = "none"

ProcessorInit ==
    \E s \in {t \in Scenarios : Accepted(t.input)} :
        /\ input = s.input
        /\ output = [round \in 1 .. 2 |-> RunProcessor(s.input, round)]
        /\ faults = s.faults
        /\ job = [state |-> "pending", holder |-> 0, expired |-> FALSE, resource |-> FALSE]
        /\ result = <<>>
        /\ run = [c \in Claims |-> NoRun]
        /\ box = [c \in Claims |-> "none"]
        /\ dir = [c \in Claims |-> FALSE]
        /\ sweep = [pc |-> "idle", todo |-> {}]

Fault == faults > 0 /\ faults' = faults - 1

-----------------------------------------------------------------------------
(* A run.                                                                   *)

Goto(c, pc, verdict) == run' = [run EXCEPT ![c].pc = pc, ![c].verdict = verdict]

End(c) == run' = [run EXCEPT ![c] = [NoRun EXCEPT !.pc = "ended", !.calm = run[c].calm]]

(* A command of the run fails for a reason of the daemon's. *)
Disturbed(c, pc, verdict) ==
    /\ Fault
    /\ run' = [run EXCEPT ![c].pc = pc, ![c].verdict = verdict, ![c].calm = FALSE]

Claim(c) ==
    /\ job.state = "pending" \/ (job.state = "leased" /\ job.expired)
    /\ c = job.holder + 1
    /\ job' = [state |-> "leased", holder |-> c, expired |-> FALSE, resource |-> job.resource]
    /\ run' = [run EXCEPT ![c].pc = "begin"]
    /\ UNCHANGED <<input, output, faults, result, box, dir, sweep>>

(* AttemptDirectory::new, and remove_attempt_directory *)
Made(c) == [dir EXCEPT ![c] = TRUE]
Deleted(c) == [dir EXCEPT ![c] = FALSE]

(* The attempt's directory, and the download into it *)
Begin(c) ==
    /\ run[c].pc = "begin"
    /\ dir' = Made(c)
    /\ \/ Goto(c, "create", "none") /\ UNCHANGED faults
       \/ Disturbed(c, "drop", "transient")
    /\ UNCHANGED <<input, output, job, result, box, sweep>>

(* docker create.  A container of the name that is still there, or on its   *)
(* way, is in conflict; a command that times out may yet succeed.           *)
Create(c) ==
    /\ run[c].pc = "create"
    /\ \/ /\ ~dir[c]
          /\ Goto(c, "drop", "transient")
          /\ UNCHANGED <<box, faults>>
       \/ /\ dir[c] /\ box[c] # "none"
          /\ Goto(c, "remove", "transient")
          /\ UNCHANGED <<box, faults>>
       \/ /\ dir[c] /\ box[c] = "none"
          /\ box' = [box EXCEPT ![c] = "created"]
          /\ Goto(c, "start", "none")
          /\ UNCHANGED faults
       \/ /\ dir[c] /\ box[c] = "none"
          /\ box' = [box EXCEPT ![c] = "coming"]
          /\ Disturbed(c, "remove", "transient")
    /\ UNCHANGED <<input, output, job, result, dir, sweep>>

(* The daemon ends a creation nobody waits for. *)
CreateLate(c) ==
    /\ box[c] = "coming"
    /\ box' = [box EXCEPT ![c] = "created"]
    /\ UNCHANGED <<input, output, faults, job, result, run, dir, sweep>>

(* docker start *)
Start(c) ==
    /\ run[c].pc = "start"
    /\ \/ /\ box[c] # "none" /\ dir[c]
          /\ box' = [box EXCEPT ![c] = "running"]
          /\ Goto(c, "exec", "none")
          /\ UNCHANGED faults
       \/ /\ box[c] = "none" \/ ~dir[c]
          /\ Goto(c, "remove", "transient")
          /\ UNCHANGED <<box, faults>>
       \/ /\ Disturbed(c, "remove", "transient")
          /\ UNCHANGED box
    /\ UNCHANGED <<input, output, job, result, dir, sweep>>

(* How run_bounded judges an exec in a container that was removed: the exit *)
(* code is 137 if it was removed meanwhile, and docker's own if before.     *)
Gone == {"resource", "deterministic"}

(* docker exec faultlane processor: exit code 0, or the program's error; a  *)
(* wall-clock, memory or output limit; or docker's own exit code, which     *)
(* reads like the program's.                                                *)
Exec(c) ==
    /\ run[c].pc = "exec"
    /\ LET out == output[run[c].round]
       IN  \/ /\ box[c] = "running" /\ dir[c] /\ out.ok
              /\ run' = [run EXCEPT ![c].verdict = "ok",
                                    ![c].pc = IF input.kind = "generate_symcache"
                                              THEN "copy" ELSE "remove"]
              /\ UNCHANGED faults
           \/ /\ box[c] = "running" /\ (dir[c] => ~out.ok)
              /\ Goto(c, "remove", "deterministic")
              /\ UNCHANGED faults
           \/ /\ box[c] # "running"
              /\ \E verdict \in Gone : Goto(c, "remove", verdict)
              /\ UNCHANGED faults
           \/ \E verdict \in Gone : Disturbed(c, "remove", verdict)
    /\ UNCHANGED <<input, output, job, result, box, dir, sweep>>

(* copy_output: exec cat into a new file of the attempt directory *)
CopyOutput(c) ==
    /\ run[c].pc = "copy"
    /\ \/ /\ box[c] = "running"
          /\ Goto(c, "remove", IF dir[c] THEN "ok" ELSE "deterministic")
          /\ UNCHANGED faults
       \/ /\ box[c] # "running"
          /\ \E verdict \in Gone : Goto(c, "remove", verdict)
          /\ UNCHANGED faults
       \/ \E verdict \in Gone : Disturbed(c, "remove", verdict)
    /\ UNCHANGED <<input, output, job, result, box, dir, sweep>>

(* docker rm --force; nothing to remove yet if the creation is late. *)
Removed(c) == [box EXCEPT ![c] = IF @ = "coming" THEN @ ELSE "none"]

(* remove_container, whose failure is ignored *)
RemoveContainer(c) ==
    /\ run[c].pc = "remove"
    /\ LET pc == IF run[c].verdict # "ok" THEN "drop"
                 ELSE IF input.kind = "process_crash" /\ run[c].round = 1 THEN "select"
                 ELSE "publish"
       IN  \/ /\ box' = Removed(c)
              /\ Goto(c, pc, run[c].verdict)
              /\ UNCHANGED faults
           \/ /\ Disturbed(c, pc, run[c].verdict)
              /\ UNCHANGED box
    /\ UNCHANGED <<input, output, job, result, dir, sweep>>

(* process_crash between its two runs: validate_processing_result, then     *)
(* materialize_symbols, which finds none, has all or waits for a cache (one *)
(* of the things that may go wrong, for the bound).                         *)
Select(c) ==
    /\ run[c].pc = "select"
    /\ \/ /\ ~output[run[c].round].expected
          /\ Goto(c, "drop", "deterministic")
          /\ UNCHANGED faults
       \/ /\ output[run[c].round].expected
          /\ \/ Goto(c, "publish", "ok") /\ UNCHANGED faults
             \/ Goto(c, "drop", "dependency") /\ Fault
             \/ /\ run' = [run EXCEPT ![c].pc = "create", ![c].round = 2,
                                      ![c].verdict = "none"]
                /\ UNCHANGED faults
    /\ UNCHANGED <<input, output, job, result, box, dir, sweep>>

(* publish_crash_result and its like, under lock_lease.  The result is      *)
(* redacted, then grouped (where grouping is enabled, as here), which holds *)
(* it to the contract once more.  The fingerprint is a function of the      *)
(* result and is not kept.                                                  *)
Publish(c) ==
    /\ run[c].pc = "publish"
    /\ LET out == output[run[c].round]
           refused == input.kind = "process_crash" /\ ~(out.expected /\ out.publishable)
       IN  /\ job' = IF Active(c) /\ ~refused THEN [job EXCEPT !.state = "published"] ELSE job
           /\ result' = IF Active(c) /\ ~refused /\ input.kind = "process_crash"
                        THEN <<[log |-> out.log, crash |-> out.crash]>> ELSE result
           /\ run' = [run EXCEPT ![c].pc = "drop",
                                 ![c].verdict = IF Active(c) /\ refused THEN "deterministic" ELSE "done"]
    /\ UNCHANGED <<input, output, faults, box, dir, sweep>>

(* Drop of the AttemptDirectory *)
Drop(c) ==
    /\ run[c].pc = "drop"
    /\ dir' = Deleted(c)
    /\ IF run[c].verdict = "done" THEN End(c) ELSE Goto(c, "settle", run[c].verdict)
    /\ UNCHANGED <<input, output, faults, job, result, box, sweep>>

(* The errors that no other run will mend: the input's own, or a second     *)
(* limit.                                                                   *)
Hopeless(c) ==
    \/ run[c].verdict = "deterministic"
    \/ run[c].verdict = "resource" /\ job.resource

(* finish_result: quarantine and quarantine_resource, retry, fail when no   *)
(* attempt is left, wait_for_dependency, cancel_job.  finish_failure needs  *)
(* the lease, release_job only the holder.                                  *)
FinishResult(c) ==
    /\ run[c].pc = "settle"
    /\ \/ /\ Hopeless(c) /\ Active(c)
          /\ job' = [job EXCEPT !.state = "quarantined"]
       \/ /\ ~Hopeless(c) /\ Holds(c)
          /\ job' = [job EXCEPT !.state = "pending",
                                !.resource = @ \/ run[c].verdict = "resource"]
       \/ /\ run[c].verdict = "transient" /\ Active(c)
          /\ job' = [job EXCEPT !.state = "failed"]
       \/ /\ Hopeless(c) \/ run[c].verdict = "transient" \/ ~Holds(c)
          /\ ~Active(c)
          /\ UNCHANGED job
    /\ End(c)
    /\ UNCHANGED <<input, output, faults, result, box, dir, sweep>>

-----------------------------------------------------------------------------
(* Leases and processes.                                                    *)

(* The lease runs out: under a live run only if the process stalls. *)
Lapse(c) ==
    /\ Active(c)
    /\ job' = [job EXCEPT !.expired = TRUE]
    /\ IF Alive(c) THEN Disturbed(c, run[c].pc, run[c].verdict) ELSE UNCHANGED <<faults, run>>
    /\ UNCHANGED <<input, output, result, box, dir, sweep>>

(* The heartbeat renews a lease that has expired, too; run_job stops it     *)
(* before finish_result.                                                    *)
Heartbeat(c) ==
    /\ Alive(c) /\ run[c].pc # "settle"
    /\ Holds(c) /\ job.expired
    /\ job' = [job EXCEPT !.expired = FALSE]
    /\ UNCHANGED <<input, output, faults, result, run, box, dir, sweep>>

(* A docker create in flight is carried out by the daemon all the same. *)
Interrupted(c) ==
    {box} \cup (IF run[c].pc = "create" /\ box[c] = "none"
                THEN {[box EXCEPT ![c] = "coming"]} ELSE {})

Crash(c) ==
    /\ Alive(c)
    /\ box' \in Interrupted(c)
    /\ Fault
    /\ run' = [run EXCEPT ![c] = [NoRun EXCEPT !.pc = "dead", !.calm = FALSE]]
    /\ UNCHANGED <<input, output, job, result, dir, sweep>>

(* stop_running_jobs: the task is aborted, which drops its directory; then  *)
(* its container is removed and its job cancelled.                          *)
Shutdown(c) ==
    /\ Alive(c) /\ run[c].pc \notin {"drop", "settle"}
    /\ run[c].verdict # "cancelled"
    /\ box' \in Interrupted(c)
    /\ dir' = Deleted(c)
    /\ Fault
    /\ run' = [run EXCEPT ![c] = [NoRun EXCEPT !.pc = "remove", !.verdict = "cancelled",
                                              !.calm = FALSE]]
    /\ UNCHANGED <<input, output, job, result, sweep>>

-----------------------------------------------------------------------------
(* reconcile_containers, at the start of a worker and every 30 seconds, by  *)
(* any worker of the host.                                                  *)

(* Mutant of OwnedContainers: docker ps without --all. *)
OwnedRunning == {c \in Claims : box[c] = "running"}

(* owned_containers *)
OwnedContainers == {c \in Claims : box[c] \in {"created", "running"}}

(* A pass that finds neither container nor directory changes nothing. *)
SweepList ==
    /\ sweep.pc = "idle"
    /\ sweep' = IF OwnedContainers = {} /\ \A c \in Claims : ~dir[c] THEN sweep
                ELSE [pc |-> "containers", todo |-> OwnedContainers]
    /\ UNCHANGED <<input, output, faults, job, result, run, box, dir>>

(* Mutant of Stale: the owner of the container is not asked for. *)
StaleAlways(c) == TRUE

Stale(c) == ~Active(c)

(* The lease is looked up, then cancel_owned and remove_attempt_directory.  *)
(* A container that is gone already is no failure; one that stays ends the  *)
(* whole pass.                                                              *)
SweepContainer(c) ==
    /\ sweep.pc = "containers" /\ c \in sweep.todo
    /\ sweep' = [sweep EXCEPT !.todo = @ \ {c}]
    /\ box' = IF Stale(c) THEN Removed(c) ELSE box
    /\ dir' = IF Stale(c) THEN Deleted(c) ELSE dir
    /\ UNCHANGED <<input, output, faults, job, result, run>>

SweepAborts ==
    /\ sweep.pc = "containers" /\ sweep.todo # {}
    /\ Fault
    /\ sweep' = [pc |-> "idle", todo |-> {}]
    /\ UNCHANGED <<input, output, job, result, run, box, dir>>

(* reconcile_attempt_directories *)
SweepDirectories ==
    /\ sweep.pc = "containers" /\ sweep.todo = {}
    /\ sweep' = [pc |-> "directories", todo |-> {c \in Claims : dir[c]}]
    /\ UNCHANGED <<input, output, faults, job, result, run, box, dir>>

SweepDirectory(c) ==
    /\ sweep.pc = "directories" /\ c \in sweep.todo
    /\ sweep' = [sweep EXCEPT !.todo = @ \ {c}]
    /\ dir' = IF Stale(c) THEN Deleted(c) ELSE dir
    /\ UNCHANGED <<input, output, faults, job, result, run, box>>

SweepEnds ==
    /\ sweep.pc = "directories" /\ sweep.todo = {}
    /\ sweep' = [pc |-> "idle", todo |-> {}]
    /\ UNCHANGED <<input, output, faults, job, result, run, box, dir>>

-----------------------------------------------------------------------------
RunStep(c) ==
    \/ Claim(c) \/ Begin(c) \/ Create(c) \/ Start(c) \/ Exec(c) \/ CopyOutput(c)
    \/ RemoveContainer(c) \/ Select(c) \/ Publish(c) \/ Drop(c) \/ FinishResult(c)

SweepStep ==
    \/ SweepList \/ SweepDirectories \/ SweepEnds
    \/ \E c \in Claims : SweepContainer(c) \/ SweepDirectory(c)

ProcessorNext ==
    \/ \E c \in Claims : \/ RunStep(c) \/ CreateLate(c) \/ Lapse(c) \/ Heartbeat(c)
                         \/ Crash(c) \/ Shutdown(c)
    \/ SweepStep
    \/ SweepAborts

(* A task goes on, the daemon answers, a lease that nobody renews runs out, *)
(* and some worker of the host reconciles every 30 seconds.                 *)
Fairness ==
    /\ \A c \in Claims : /\ WF_processorVars(RunStep(c))
                         /\ WF_processorVars(CreateLate(c) \/ (~Alive(c) /\ Lapse(c)))
    /\ WF_processorVars(SweepStep)

ProcessorSpec == ProcessorInit /\ [][ProcessorNext]_processorVars /\ Fairness

-----------------------------------------------------------------------------
(* Properties.                                                              *)

Files(kind) == {i \in 1 .. Len(input.bundle.files) : FileKind(input.bundle.files[i].name) = kind}
Body(kind) == input.bundle.files[CHOOSE i \in Files(kind) : TRUE].body
SizeOf(kind) == input.bundle.files[CHOOSE i \in Files(kind) : TRUE].size

(* What ingest cannot know when it accepts a crash: its context is missing, *)
(* unreadable or another crash's, or its minidump is missing, unreadable or *)
(* larger than the processor takes.                                         *)
Unprocessable ==
    IF input.kind # "process_crash" THEN ~input.valid
    ELSE \/ Files("context") = {} \/ Files("minidump") = {}
         \/ ~Body("context").utf8 \/ ~Body("context").xml
         \/ Body("context").guid # input.guid
         \/ ~Body("minidump").good \/ SizeOf("minidump") > Limits.minidump

(* A job is quarantined for its input alone: if no docker command of the    *)
(* deciding run failed and its lease never lapsed, then the input has a     *)
(* fault that ingest's inspection leaves to the processor.  A container or  *)
(* directory taken from under a run, or a limit that ingest and processor   *)
(* see differently, would quarantine a good crash for ever, and so would an *)
(* earlier result that redaction or its growing history has put outside the *)
(* contract which the next run holds it to.                                 *)
QuarantineJustified ==
    job.state = "quarantined" /\ run[job.holder].calm => Unprocessable

Lines(text) ==
    LET breaks == Cardinality({i \in 1 .. Len(text) - 1 : text[i] = "n"})
    IN  IF text = <<>> THEN 0 ELSE breaks + 1

(* The tail that is promised of a readable log: its last lines, as many as  *)
(* fit in bytes and in number, or as many characters of the last line.      *)
PromisedTail(text) ==
    LET fits(k) == Size(From(text, k + 1)) <= Limits.tail
        whole == {k \in 0 .. Len(text) - 1 :
                     /\ k > 0 => text[k] = "n"
                     /\ fits(k) /\ Lines(From(text, k + 1)) <= Limits.lines}
    IN  From(text, 1 + Min(IF whole # {} THEN whole ELSE {k \in 0 .. Len(text) : fits(k)}))

(* The published log tail is the tail of the whole log, although the reader *)
(* keeps only a window of it: never more bytes than allowed, the same as if *)
(* the log had been read at once, and for a readable log the promised tail. *)
TailIsWhole ==
    result # <<>> /\ result[1].log # <<>> =>
        LET body == Body("log")
            tail == result[1].log[1]
            all == Lossy(body)
        IN  /\ Size(tail.text) <= Limits.tail
            /\ tail.text = Extract(body, Limits.tail, Limits.lines).text
            /\ (\A i \in 1 .. Len(all) : all[i] # "?") =>
                  /\ tail.text = PromisedTail(all)
                  /\ tail.truncated = (tail.text # all)

(* The same crash reported again: its modules listed in the other order, or *)
(* the numbers in its texts changed.                                        *)
Renamed(text) ==
    [i \in 1 .. Len(text) |->
        IF text[i] \in DOMAIN VariableWords
        THEN CHOOSE w \in DOMAIN VariableWords : VariableWords[w] = VariableWords[text[i]]
        ELSE text[i]]

SameCrash(crash) ==
    {[crash EXCEPT !.modules = Reverse(@)],
     [crash EXCEPT !.modules = @ \o @],
     [crash EXCEPT !.message = Renamed(@), !.assertion = Renamed(@), !.reason = Renamed(@)]}

(* Grouping does not depend on what differs between two reports of one      *)
(* crash: the order and repetition of modules in the minidump, or the       *)
(* numbers and addresses in its texts.  They go to one issue and variant.   *)
GroupingStable ==
    result # <<>> =>
        \A same \in SameCrash(result[1].crash) :
            Fingerprint(same) = Fingerprint(result[1].crash)

(* What a run leaves behind is cleared: whatever fails, crashes, is killed  *)
(* or comes late, in the end no container and no attempt directory is left. *)
Cleared == <>[](\A c \in Claims : box[c] = "none" /\ ~dir[c])
=============================================================================
