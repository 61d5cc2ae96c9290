----------------------------- MODULE Grouping -----------------------------
(***************************************************************************)
(* The fingerprint that groups crashes into issues and variants            *)
(* (crates/grouping): the components that are hashed, in order.  The hash  *)
(* is of length-prefixed components, so that it is taken for injective and *)
(* a fingerprint is the sequence of components itself.                     *)
(*                                                                         *)
(* A crash is what the processor found: type, classification (Classify of  *)
(* CrashRequest), platform, the texts reason, assertion and message, and   *)
(* the frames of the faulting thread and the modules of the minidump.      *)
(* A text is a sequence of words, <<>> if absent; bounds on its characters *)
(* are left out.                                                           *)
(***************************************************************************)
EXTENDS Integers, Sequences, SequencesExt, FiniteSetsExt

CONSTANTS
    MaxFrames,      \* MAX_PROJECT_FRAMES and MAX_UNRESOLVED_FRAMES, 8 in the code
    MaxEngine,      \* MAX_ENGINE_FRAMES, 5 in the code
    MaxVariant,     \* MAX_VARIANT_FRAMES, 32 in the code
    EngineModules,  \* ENGINE_MODULES and the editor's modules
    SystemModules,  \* SYSTEM_MODULES
    VariableWords,  \* numbers, addresses, timestamps and GUIDs, each with its kind
    CommonWords     \* words that has_specific_template_token ignores

-----------------------------------------------------------------------------
(* Normalisation.                                                           *)

(* normalize_template: a word that varies from crash to crash is a          *)
(* placeholder of its kind.                                                 *)
NormalizeTemplate(text) ==
    [i \in 1 .. Len(text) |->
        IF text[i] \in DOMAIN VariableWords THEN VariableWords[text[i]] ELSE text[i]]

(* has_specific_template_token; the placeholders are common words. *)
HasSpecificToken(template) ==
    \E i \in 1 .. Len(template) : template[i] \notin CommonWords

(* frame_category: by the path of the source, as a text, then by the module. *)
FrameCategory(module, source) ==
    CASE (\E i \in 1 .. Len(source) : source[i] = "engine") \/ module \in EngineModules -> "engine"
      [] module \in SystemModules -> "system"
      [] module = "unknown" -> "unknown"
      [] OTHER -> "project"

-----------------------------------------------------------------------------
(* Frames.                                                                  *)

(* Mutant of ModuleIdentity: the first entry of the name is taken. *)
ModuleIdentityFirst(modules, name) ==
    LET named == {i \in 1 .. Len(modules) : modules[i].name = name}
    IN  IF named = {} THEN {} ELSE {modules[Min(named)].id}

(* module_identities: the identities that the minidump lists for a name. *)
ModuleIdentity(modules, name) ==
    {modules[i].id : i \in {j \in 1 .. Len(modules) : modules[j].name = name}}

(* resolved_frame and unresolved_frame: a frame without a symbol counts     *)
(* only if its module has one identity, of which something is known.        *)
FrameEvidence(frame, modules) ==
    LET ids == ModuleIdentity(modules, frame.module)
    IN  CASE frame.function # "" ->
                <<[kind |-> "resolved",
                   category |-> FrameCategory(frame.module, frame.source),
                   component |-> <<frame.module, frame.function>>]>>
          [] frame.function = "" /\ Cardinality(ids) = 1 /\ "" \notin ids ->
                <<[kind |-> "unresolved",
                   category |-> FrameCategory(frame.module, <<>>),
                   component |-> <<frame.module, CHOOSE id \in ids : TRUE, frame.offset>>]>>
          [] OTHER -> <<>>

First(n, s) == SubSeq(s, 1, IF Len(s) < n THEN Len(s) ELSE n)

(* frame_evidence: the project's frames; without any, the engine's; without *)
(* any of those, the ones that could not be resolved.                       *)
Evidence(crash) ==
    LET all == FlattenSeq([i \in 1 .. Len(crash.frames) |->
                              FrameEvidence(crash.frames[i], crash.modules)])
        resolved(category) ==
            SelectSeq(all, LAMBDA e : e.kind = "resolved" /\ e.category = category)
        project == First(MaxFrames, resolved("project"))
        engine == IF project = <<>> THEN First(MaxEngine, resolved("engine")) ELSE <<>>
        unresolved == IF project = <<>> /\ engine = <<>>
                      THEN First(MaxFrames, SelectSeq(all, LAMBDA e : e.kind = "unresolved"))
                      ELSE <<>>
    IN  [project |-> project, engine |-> engine, unresolved |-> unresolved,
         variant |-> First(MaxVariant, all)]

(* grouping_quality *)
Quality(frames, asserted, stable) ==
    100 * Len(frames.project) + 10 * Len(frames.engine) + 5 * Len(frames.unresolved)
    + (IF asserted THEN 3 ELSE 0) + (IF stable THEN 1 ELSE 0)

(* title: the first frame, or what kind of crash it was *)
Title(crash, frames, signals) ==
    CASE frames.project # <<>> -> frames.project[1].component
      [] frames.project = <<>> /\ frames.engine # <<>> -> frames.engine[1].component
      [] frames.unresolved # <<>> -> frames.unresolved[1].component
      [] OTHER -> <<IF "gpu_crash" \in signals THEN "GPU crash"
                    ELSE IF "out_of_memory" \in signals THEN "Out of memory"
                    ELSE crash.type>>

-----------------------------------------------------------------------------
(* fingerprint.                                                             *)

(* The components under one tag, none for an absent value. *)
Tagged(tag, values) == [i \in 1 .. Len(values) |-> <<tag, values[i]>>]
Maybe(tag, present, value) == IF present THEN <<<<tag, value>>>> ELSE <<>>
Components(entries) == [i \in 1 .. Len(entries) |-> entries[i].component]

(* Sets are hashed in the order of their sorted members. *)
Sorted(set) == SetToSeq(set)

(* What is hashed of a crash: its frames weighed and its texts normalised.  *)
Normalized(crash) ==
    [type |-> crash.type, classification |-> crash.classification, platform |-> crash.platform,
     reason |-> NormalizeTemplate(crash.reason), assertion |-> NormalizeTemplate(crash.assertion),
     message |-> NormalizeTemplate(crash.message), frames |-> Evidence(crash)]

Hashed(crash) ==
    LET signals == {s.kind : s \in crash.classification.signals}
        frames == crash.frames
        asserted == HasSpecificToken(crash.assertion)
        specific == /\ crash.type \in {"assert", "ensure"} \/ signals # {}
                    /\ HasSpecificToken(crash.message)
        stable == asserted \/ specific
        platform == \/ "gpu_crash" \in signals
                    \/ frames.unresolved # <<>> /\ frames.unresolved[1].category = "system"
        issue == <<<<"crash_type", crash.type>>>>
                 \o Tagged("signal", Sorted(signals))
                 \o Maybe("exception", crash.reason # <<>>, crash.reason)
                 \o Maybe("assertion", asserted, crash.assertion)
                 \o Tagged("project_frame", Components(frames.project))
                 \o Tagged("engine_frame", Components(frames.engine))
                 \o Tagged("unresolved_frame", Components(frames.unresolved))
                 \o Maybe("error_template", specific /\ ~asserted, crash.message)
                 \o Maybe("platform", platform, crash.platform)
        variant == issue
                   \o Maybe("classification_confidence", TRUE, crash.classification.confidence)
                   \o Tagged("classification_evidence",
                             First(8, Sorted(crash.classification.evidence)))
                   \o Tagged("variant_frame",
                             [i \in 1 .. Len(frames.variant) |->
                                 <<frames.variant[i].kind, frames.variant[i].component>>])
    IN  IF frames.project = <<>> /\ frames.engine = <<>> /\ frames.unresolved = <<>> /\ ~stable
        THEN [grouped |-> FALSE]
        ELSE [grouped |-> TRUE, issue |-> issue, variant |-> variant,
              title |-> Title(crash, frames, signals), quality |-> Quality(frames, asserted, stable)]

Fingerprint(crash) == Hashed(Normalized(crash))
=============================================================================
