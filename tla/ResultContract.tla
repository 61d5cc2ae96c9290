--------------------------- MODULE ResultContract ---------------------------
(***************************************************************************)
(* The versioned result of a crash (crates/processing): what the processor *)
(* builds on top of the previous result, the contract that processor,      *)
(* worker and grouping hold it to, and the redaction by a project's data   *)
(* rules (data_rules.rs) before it is published, to be the previous result *)
(* of the next run.                                                        *)
(*                                                                         *)
(* A part of a result is a function from its fields to the texts that are  *)
(* found there: one for every element of an array, none for null.  A text  *)
(* is a sequence of words.                                                 *)
(***************************************************************************)
EXTENDS Integers, Sequences, SequencesExt

CONSTANT
    MaxHistory  \* MAX_PROCESSING_HISTORY, 16 in the code

ASSUME HistoryAssumption == MaxHistory \in Nat \ {0}

ProcessingVersion == 2
ParserVersion == 1

-----------------------------------------------------------------------------
(* The contract: the fields of each part, and those with named values.      *)

ContextFields ==
    {"crash_guid", "crash_type", "error_message", "build_version", "engine_version", "platform",
     "architecture", "build_configuration", "command_line", "modules", "threads",
     "system_metadata", "user_comment", "game_data", "unknown_fields"}

(* validate_request and validate_request_file; {} stands for any text. *)
RequestValues ==
    [envelope |-> {"cr1"}, directory_name |-> {}, archive_name |-> {}, file_name |-> {},
     file_kind |-> {"crash_context", "minidump", "log", "unknown"}]

Confidences == {"high", "medium", "low"}
CrashTypes == {"crash", "assert", "ensure", "unknown"}

ClassificationValues ==
    [crash_type |-> CrashTypes, confidence |-> Confidences,
     signal_kind |-> {"gpu_crash", "out_of_memory"}, signal_confidence |-> Confidences]

(* validate_module: what modules may say of their symbols *)
ModuleStatuses == {"matched", "missing_pe", "missing_pdb", "mismatched", "missing_identity"}

(* validate_thread *)
UnwindStatuses ==
    {"ok", "missing_context", "missing_memory", "unsupported_cpu", "dump_thread_skipped"}

(* validate_frame and its inlines *)
FrameStatuses == (ModuleStatuses \ {"matched"}) \cup {"resolved", "unresolved", "unknown_module"}

SymbolicationFields(version) ==
    {"platform", "architecture", "module", "module_status", "thread_name", "unwind_status",
     "symbol_status", "function", "source_file", "inline_source_file"}
    \cup (IF version = 1 THEN {} ELSE {"exception_reason", "assertion"})

SymbolicationValues ==
    [platform |-> {"windows"}, architecture |-> {"x86_64"}, module_status |-> ModuleStatuses,
     unwind_status |-> UnwindStatuses, symbol_status |-> FrameStatuses]

(* A field with named values holds one of them. *)
Obeys(part, values) ==
    \A f \in DOMAIN values : values[f] # {} => part[f] \subseteq {<<v>> : v \in values[f]}

(* validate_attempt: an attempt of this version or an earlier one. *)
ValidAttempt(attempt) ==
    /\ attempt.processing \in 1 .. ProcessingVersion
    /\ attempt.schema = attempt.processing
    /\ DOMAIN attempt.symbolication = SymbolicationFields(attempt.processing)
    /\ Obeys(attempt.symbolication, SymbolicationValues)

(* validate_crash_context; the command line may be left out. *)
ValidContext(context) ==
    /\ DOMAIN context \in {ContextFields, ContextFields \ {"command_line"}}
    /\ Obeys(context, [crash_type |-> CrashTypes])

(* validate_processing_contract; a fresh result is of this version. *)
ValidResult(result, fresh) ==
    /\ result.guid # ""
    /\ Len(result.history) <= MaxHistory
    /\ fresh => result.current.processing = ProcessingVersion
    /\ ValidAttempt(result.current)
    /\ \A i \in 1 .. Len(result.history) : ValidAttempt(result.history[i])
    /\ result.context["crash_guid"] = {<<result.guid>>}
    /\ result.parser = ParserVersion /\ result.current.parser = result.parser
    /\ ValidContext(result.context)
    /\ Obeys(result.request, RequestValues)
    /\ Obeys(result.classification, ClassificationValues)

(* parse_previous_processing; `previous` is <<>> or a result. *)
ValidPrevious(previous, guid) ==
    previous # <<>> => ValidResult(previous[1], FALSE) /\ previous[1].guid = guid

-----------------------------------------------------------------------------
(* Building.                                                                *)

(* Mutant of PushHistory: what is dropped makes no room for what is added. *)
PushHistoryFull(history, attempt) ==
    Append(SubSeq(history, Len(history) - (IF Len(history) > MaxHistory THEN MaxHistory
                                           ELSE Len(history)) + 1, Len(history)), attempt)

(* push_bounded_history *)
PushHistory(history, attempt) ==
    LET kept == IF Len(history) < MaxHistory THEN Len(history) ELSE MaxHistory - 1
    IN  Append(SubSeq(history, Len(history) - kept + 1, Len(history)), attempt)

(* The history of build_processing_result: the latest attempt is kept if    *)
(* the new one differs.                                                     *)
HistoryAfter(previous, current) ==
    IF previous = <<>> THEN <<>>
    ELSE IF previous[1].current = current THEN previous[1].history
    ELSE PushHistory(previous[1].history, previous[1].current)

-----------------------------------------------------------------------------
(* Redaction.  Rules are the words in which one of the patterns occurs.     *)

(* redact_text *)
Redacted(text, rules) ==
    [i \in 1 .. Len(text) |-> IF text[i] \in rules THEN "[REDACTED]" ELSE text[i]]

(* Mutant of RedactedContext: the whole context is redacted. *)
RedactedAll == ContextFields

(* redact_crash_context *)
RedactedContext == ContextFields \ {"crash_guid", "crash_type"}

(* redact_symbolication *)
RedactedSymbolication == {"source_file", "inline_source_file"}

RedactPart(part, fields, rules) ==
    [f \in DOMAIN part |->
        IF f \in fields THEN {Redacted(text, rules) : text \in part[f]} ELSE part[f]]

(* redact_and_index: the history stays as it was published. *)
Redact(result, rules) ==
    [result EXCEPT
        !.context = RedactPart(@, RedactedContext, rules),
        !.current.symbolication = RedactPart(@, RedactedSymbolication, rules)]
=============================================================================
