--------------------------- MODULE CrashRequest ---------------------------
(***************************************************************************)
(* The crash request of the Unreal crash reporter (crates/unreal): a zlib  *)
(* stream of the CR1 envelope, read in one pass under limits: by ingest    *)
(* before it accepts a bundle, and in full by the processor.  Also what is *)
(* taken from its files: the tail of the log and the classification of the *)
(* crash context.                                                          *)
(*                                                                         *)
(* A bundle is what its bytes describe:                                    *)
(*   compressed, trailing  bytes of the zlib stream and after it           *)
(*   expanded              bytes the stream inflates to                    *)
(*   broken                the first of them that does not inflate, or 0   *)
(*   magic, dir, arc, size, count  the envelope's header                   *)
(*   files                 its files, [index, name, size, body]            *)
(* A name is [stem, ext, form], letters in lower case.                     *)
(***************************************************************************)
EXTENDS Integers, Sequences, SequencesExt, FiniteSetsExt

CONSTANTS
    Limits,     \* CrashRequestLimits
    MagicBytes, \* ENVELOPE_MAGIC.len(), 3 in the code
    AnsiBytes,  \* ANSI_FIELD_BYTES, 260 in the code
    CountBytes, \* an i32, 4 bytes in the code
    Chunk       \* the buffer of the compressed reader, 8 KiB in the code

ASSUME RequestAssumption ==
    /\ \A l \in {"compressed", "expanded", "ratio", "files", "file", "context",
                 "minidump", "tail", "lines"} : Limits[l] \in Nat
    /\ {MagicBytes, AnsiBytes, CountBytes, Chunk} \subseteq Nat \ {0}

Least(a, b) == IF a < b THEN a ELSE b
CeilDiv(a, b) == (a + b - 1) \div b

-----------------------------------------------------------------------------
(* Reading: CompressedReader and ExpandedReader, and what map_read_error    *)
(* makes of their errors.                                                   *)

(* Compressed bytes that inflating the first p bytes takes. *)
Needed(b, p) == CeilDiv(p * b.compressed, b.expanded)

(* Compressed bytes that were read by then: whole buffers, within the limit. *)
Fetched(b, p) ==
    Min({b.compressed + b.trailing, Limits.compressed, Chunk * CeilDiv(Needed(b, p), Chunk)})

(* What reading byte p of the expanded stream answers. *)
ByteError(b, p) ==
    CASE p > b.expanded -> "TruncatedArchive"
      [] b.broken # 0 /\ p >= b.broken -> "InvalidCompression"
      [] Needed(b, p) > Limits.compressed -> "CompressedTooLarge"
      [] p > Limits.expanded -> "ExpandedTooLarge"
      [] p > Fetched(b, p) * Limits.ratio -> "ExpansionRatioExceeded"
      [] OTHER -> "none"

(* A step of the reader: bytes are read, then what they say is refused. *)
Step(bytes, refused, error) == [bytes |-> bytes, refused |-> refused, error |-> error]

(* What step s answers that begins after the first `at` bytes. *)
StepError(b, s, at) ==
    LET bad == {p \in at + 1 .. at + s.bytes : ByteError(b, p) # "none"}
    IN  CASE bad # {} -> ByteError(b, Min(bad))
          [] bad = {} /\ s.refused -> s.error
          [] OTHER -> "none"

NameSteps(name) ==
    <<Step(CountBytes + AnsiBytes, name.form = "malformed", "InvalidHeader"),
      Step(0, name.form = "unsafe", "UnsafeFilename")>>

FileKind(name) ==
    CASE name.stem = "crashcontext" /\ name.ext = "runtime-xml" -> "context"
      [] name.ext = "dmp" -> "minidump"
      [] name.ext = "log" -> "log"
      [] OTHER -> "unknown"

-----------------------------------------------------------------------------
(* ProjectLogTail::extract.  A log is a sequence of bytes: "a" any ASCII    *)
(* byte, "n" a newline, "t" and "q" the lead bytes of characters of two and *)
(* four bytes and "c" a continuation byte.  Decoded, it is a sequence of    *)
(* characters: "a", "n", "T", "Q" and "?" for U+FFFD.                       *)

Width(lead) == CASE lead = "t" -> 2 [] lead = "q" -> 4 [] OTHER -> 1
Bytes(char) == CASE char = "T" -> 2 [] char = "Q" -> 4 [] char = "?" -> 3 [] OTHER -> 1

(* Continuation bytes that follow position i, at most the width's. *)
Follow(s, i) ==
    LET all == {k \in 0 .. Least(Width(s[i]) - 1, Len(s) - i) :
                   \A j \in 1 .. k : s[i + j] = "c"}
    IN  Max(all)

IsLead(s, i) == s[i] \in {"t", "q"}
Whole(s, i) == s[i] \in {"a", "n"} \/ (IsLead(s, i) /\ Follow(s, i) = Width(s[i]) - 1)

(* String::from_utf8_lossy: a character cut short is replaced as a whole,   *)
(* other bytes one by one.                                                  *)
Lossy(s) ==
    LET from[i \in 1 .. Len(s) + 1] ==
            IF i = Len(s) + 1 THEN <<>>
            ELSE LET char == CASE ~Whole(s, i) -> "?"
                               [] s[i] = "t" -> "T"
                               [] s[i] = "q" -> "Q"
                               [] OTHER -> s[i]
                     size == IF IsLead(s, i) THEN 1 + Follow(s, i) ELSE 1
                 IN  <<char>> \o from[i + size]
    IN  from[1]

Size(text) == FoldLeft(LAMBDA n, char : n + Bytes(char), 0, text)
From(s, i) == SubSeq(s, i, Len(s))

(* next_utf8_boundary; positions count from zero, as in the code. *)
NextBoundary(s, start) ==
    LET ends == {e \in start + 1 .. Len(s) :
                    \E i \in (IF start > 3 THEN start - 3 ELSE 0) .. start - 1 :
                        /\ IsLead(s, i + 1) /\ Whole(s, i + 1)
                        /\ e = i + Width(s[i + 1])}
    IN  IF start = 0 \/ start >= Len(s) \/ s[start + 1] # "c" \/ ends = {} THEN start
        ELSE Min(ends)

(* suffix_start, in characters *)
SuffixStart(text, max) == Min({k \in 0 .. Len(text) : Size(From(text, k + 1)) <= max})

(* last_lines_start: the newline before the last lines *)
LastLinesStart(text, max) ==
    LET end == IF text # <<>> /\ text[Len(text)] = "n" THEN Len(text) - 1 ELSE Len(text)
        newlines == {i \in 1 .. end : text[i] = "n"}
    IN  Max({0} \cup {i \in newlines : Cardinality({j \in newlines : j >= i}) >= max})

Extract(s, max, lines) ==
    IF s = <<>> THEN [text |-> <<>>, truncated |-> FALSE, invalid |-> FALSE]
    ELSE IF max = 0 \/ lines = 0 THEN [text |-> <<>>, truncated |-> TRUE, invalid |-> FALSE]
    ELSE LET source == NextBoundary(s, IF Len(s) > max THEN Len(s) - max ELSE 0)
             decoded == Lossy(From(s, source + 1))
             start == SuffixStart(decoded, max)
             bounded == From(decoded, start + 1)
             midLine == IF start > 0 THEN decoded[start] # "n"
                        ELSE source > 0 /\ s[source] # "n"
             breaks == {i \in 1 .. Len(bounded) - 1 : bounded[i] = "n"}
             partial == IF midLine /\ breaks # {} THEN Min(breaks) ELSE 0
             complete == From(bounded, partial + 1)
             line == LastLinesStart(complete, lines)
         IN  [text |-> From(complete, line + 1),
              truncated |-> source > 0 \/ start > 0 \/ partial > 0 \/ line > 0,
              invalid |-> \E i \in 1 .. Len(decoded) : decoded[i] = "?"]

(* Mutant of Retain: only the bytes asked for are kept while reading. *)
RetainTail == Limits.tail

(* Bytes kept while reading: a character may begin three bytes before. *)
Retain == Limits.tail + 4

(* read_log_tail keeps a suffix of the log. *)
ReadLogTail(body) ==
    Extract(From(body, IF Len(body) > Retain THEN Len(body) - Retain + 1 ELSE 1),
            Limits.tail, Limits.lines)

-----------------------------------------------------------------------------
(* decode_crash_request.                                                    *)

(* The contents of a file: the crash context is parsed by the processor,    *)
(* but the limit on its size holds for both; the minidump's only where it   *)
(* is kept.                                                                 *)
ContentSteps(f, full) ==
    LET kind == FileKind(f.name)
        limit == CASE kind = "context" -> Limits.context
                   [] kind = "minidump" /\ full -> Limits.minidump
                   [] OTHER -> f.size
        parsed == kind = "context" /\ full
    IN  <<Step(0, f.size > limit, "FileTooLarge"),
          Step(f.size, parsed /\ ~f.body.utf8, "InvalidCrashContextUtf8"),
          Step(0, parsed /\ ~f.body.xml, "InvalidCrashContext")>>

(* Two files of a name, or two contexts or minidumps, are not told apart. *)
Clash(f, g) ==
    \/ FileKind(f.name) = FileKind(g.name) /\ FileKind(f.name) \in {"context", "minidump"}
    \/ f.name.stem = g.name.stem /\ f.name.ext = g.name.ext

(* One turn of inspect_files.  What follows the described files is no file. *)
FileSteps(b, i, full) ==
    IF i > Len(b.files) THEN <<Step(CountBytes, TRUE, "FileCountMismatch")>>
    ELSE LET f == b.files[i]
         IN  <<Step(CountBytes, f.index # i - 1, "FileCountMismatch")>>
             \o NameSteps(f.name)
             \o <<Step(0, \E j \in 1 .. i - 1 : Clash(f, b.files[j]), "DuplicateCriticalFile"),
                  Step(CountBytes, f.size > Limits.file, "FileTooLarge")>>
             \o ContentSteps(f, full)

EnvelopeSteps(b, full) ==
    <<Step(MagicBytes, ~b.magic, "UnsupportedEnvelope")>>
    \o NameSteps(b.dir) \o NameSteps(b.arc)
    \o <<Step(CountBytes, b.size > Limits.expanded, "ExpandedTooLarge"),
         Step(CountBytes, b.count > Limits.files, "TooManyFiles")>>
    \o FlattenSeq([i \in 1 .. b.count |-> FileSteps(b, i, full)])

(* After the envelope, which took `end` bytes, nothing may follow. *)
EndError(b, end) ==
    LET more == ByteError(b, end + 1)
    IN  CASE more = "none" \/ (more = "TruncatedArchive" /\ end # b.size) -> "ExpandedSizeMismatch"
          [] more \notin {"none", "TruncatedArchive"} -> more
          [] b.trailing > 0 /\ b.compressed = Limits.compressed -> "CompressedTooLarge"
          [] b.trailing > 0 -> "TrailingData"
          [] OTHER -> "none"

(* The first error of decode_crash_request, whose reader stops there. *)
Decode(b, full) ==
    LET advance(r, s) == IF r.err # "none" THEN r
                         ELSE [at |-> r.at + s.bytes, err |-> StepError(b, s, r.at)]
        read == FoldLeft(advance, [at |-> 0, err |-> "none"], EnvelopeSteps(b, full))
    IN  IF read.err # "none" THEN read.err ELSE EndError(b, read.at)

InspectCrashEnvelope(b) == Decode(b, FALSE)
ReadCrashRequest(b) == Decode(b, TRUE)

(* CrashRequestContents of a request that was read: the files of a kind; of *)
(* the logs the first is kept.                                              *)
Contents(b, kind) == SelectSeq(b.files, LAMBDA f : FileKind(f.name) = kind)

-----------------------------------------------------------------------------
(* The crash context's classification.  A context has the text of its crash *)
(* type, whether MemoryStats.bIsOOM is true, and its message, a sequence of *)
(* words.                                                                   *)

CrashType(text) == IF text \in {"crash", "assert", "ensure"} THEN text ELSE "unknown"

Classify(context) ==
    LET type == CrashType(context.type)
        said(kind) == context.type = kind
        message(kind) == \E i \in 1 .. Len(context.message) : context.message[i] = kind
        signal(kind, sure) ==
            [kind |-> kind, confidence |-> IF sure THEN "high" ELSE "medium"]
        oom == context.oom \/ said("oom")
    IN  [type |-> type,
         confidence |-> IF type = "unknown" THEN "low" ELSE "high",
         evidence |-> IF type = "unknown" THEN {} ELSE {"crash_type"},
         signals |-> (IF oom \/ message("oom") THEN {signal("out_of_memory", oom)} ELSE {})
                     \cup (IF said("gpu") \/ message("gpu")
                           THEN {signal("gpu_crash", said("gpu"))} ELSE {})]
=============================================================================
