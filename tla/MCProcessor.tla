---------------------------- MODULE MCProcessor ----------------------------
(* A small instance of Processor for TLC. *)
EXTENDS Processor

SmallLimits == [compressed |-> 40, expanded |-> 48, ratio |-> 3, files |-> 3, file |-> 12,
                context |-> 4, minidump |-> 5, tail |-> 4, lines |-> 2]

SmallWords == ("0x1" :> "<address>") @@ ("0x2" :> "<address>") @@ ("17" :> "<number>")

Name(stem, ext) == [stem |-> stem, ext |-> ext, form |-> "plain"]

GoodContext == [utf8 |-> TRUE, xml |-> TRUE, guid |-> "g1", type |-> "crash", oom |-> FALSE,
                message |-> <<>>, platform |-> "win64"]
Frame(module, function) ==
    [module |-> module, function |-> function, source |-> <<"src", module>>, offset |-> 0]
Module(name, id) == [name |-> name, id |-> id]
GoodDump == [good |-> TRUE, reason |-> <<>>, assertion |-> <<>>,
             frames |-> <<<<Frame("game", "")>>, <<Frame("game", "f")>>>>,
             modules |-> <<Module("game", "id1"), Module("dx", "id2")>>]

File(index, name, size, body) == [index |-> index, name |-> name, size |-> size, body |-> body]
Context(body, size) == File(0, Name("crashcontext", "runtime-xml"), size, body)
Dump(body, size) == File(1, Name("ue4minidump", "dmp"), size, body)
Log(body) == File(2, Name("game", "log"), Len(body), body)

HeaderBytes == MagicBytes + 2 * (CountBytes + AnsiBytes) + 2 * CountBytes
BytesOf(files) ==
    FoldLeft(LAMBDA n, f : n + 3 * CountBytes + AnsiBytes + f.size, HeaderBytes, files)

(* A well-formed bundle of these files, compressed to half its size. *)
Bundle(files) ==
    [compressed |-> CeilDiv(BytesOf(files), 2), trailing |-> 0, expanded |-> BytesOf(files),
     broken |-> 0, magic |-> TRUE, dir |-> Name("d", "x"), arc |-> Name("a", "x"),
     size |-> BytesOf(files), count |-> Len(files), files |-> files]

Job(bundle) == [kind |-> "process_crash", bundle |-> bundle, guid |-> "g1",
                earlier |-> <<>>, rules |-> {}]
Plain == Bundle(<<Context(GoodContext, 2), Dump(GoodDump, 3)>>)

(* Files that are missing, of every size, or not what they should be. *)
Contexts ==
    {Bundle(<<Context(c, size), Dump(GoodDump, dump)>>) :
        c \in {GoodContext, [GoodContext EXCEPT !.xml = FALSE], [GoodContext EXCEPT !.utf8 = FALSE],
               [GoodContext EXCEPT !.guid = "g2"], [GoodContext EXCEPT !.guid = ""]},
        size \in 3 .. 5, dump \in 4 .. 6}
    \cup {Bundle(<<Context(GoodContext, 2)>>),
          Bundle(<<[Dump(GoodDump, 3) EXCEPT !.index = 0]>>),
          Bundle(<<Context(GoodContext, 2), Dump([GoodDump EXCEPT !.good = FALSE], 3)>>),
          Bundle(<<Context(GoodContext, 2), [Context(GoodContext, 2) EXCEPT !.index = 1],
                   [Dump(GoodDump, 3) EXCEPT !.index = 2]>>),
          Bundle(<<Context(GoodContext, 2), Dump(GoodDump, 3), [Dump(GoodDump, 3) EXCEPT !.index = 2]>>)}

(* Envelopes that are damaged, padded, cut short or at a limit. *)
Envelopes ==
    {[Plain EXCEPT !.broken = p] : p \in {1, 9, 24}}
    \cup {[Plain EXCEPT !.trailing = n] : n \in 1 .. 2}
    \cup {[Plain EXCEPT !.compressed = n] : n \in {4, 7, 8, 9, 40, 41}}
    \cup {[Plain EXCEPT !.expanded = n] : n \in {6, 20, 25, 49}}
    \cup {[Plain EXCEPT !.size = n] : n \in {0, 23, 49}}
    \cup {[Plain EXCEPT !.count = n] : n \in {0, 1, 3, 4}}
    \cup {[Plain EXCEPT !.magic = FALSE], [Plain EXCEPT !.dir.form = "unsafe"],
          [Plain EXCEPT !.arc.form = "malformed"], [Plain EXCEPT !.files[2].index = 0]}

(* Logs of up to five characters, and some that are not UTF-8. *)
Encoded(chars) == FlattenSeq([i \in 1 .. Len(chars) |->
    CASE chars[i] = "T" -> <<"t", "c">> [] chars[i] = "Q" -> <<"q", "c", "c", "c">>
      [] OTHER -> <<chars[i]>>])
Logs ==
    {Encoded(chars) : chars \in UNION {[1 .. n -> {"a", "n", "T"}] : n \in 1 .. 5}
                               \cup [1 .. 3 -> {"a", "n", "Q"}]}
    \cup UNION {[1 .. n -> {"a", "c", "q"}] : n \in 2 .. 4}
    \cup {<<"a", "a", "n", "a", "a", "n", "a", "a", "n">>}
Logged(log) == Bundle(<<Context(GoodContext, 1), Dump(GoodDump, 1), Log(log)>>)

(* Crashes that differ in what grouping looks at. *)
Crashes ==
    {Bundle(<<Context([GoodContext EXCEPT !.type = type, !.message = message], 2),
              Dump([GoodDump EXCEPT !.assertion = assertion, !.modules = modules,
                                    !.frames = <<frames, frames>>], 3)>>) :
        type \in {"crash", "ensure", "gpu", "oom"},
        message \in {<<>>, <<"0x1", "failed">>, <<"gpu", "texture", "17">>},
        assertion \in {<<>>, <<"ptr", "0x2">>},
        modules \in {<<>>, GoodDump.modules,
                     <<Module("game", "id1"), Module("game", "id2"), Module("core", "")>>},
        frames \in {<<Frame("game", ""), Frame("core", "g")>>, <<Frame("core", "")>>,
                    <<Frame("dx", ""), Frame("game", "f"), Frame("core", "g")>>}}

(* A crash that was published before, by processors of two versions and     *)
(* under rules that mask its texts or look for words of the contract.       *)
Rules == {{}, {"src", "win64", "private"}, {"windows", "crash", "matched", "g1"}}
Earlier == [round : 1 .. 2, version : 1 .. 2, rules : Rules]
Republished ==
    {[Job(Plain) EXCEPT !.earlier = earlier, !.rules = rules] :
        rules \in Rules,
        earlier \in [1 .. 1 -> Earlier]
                    \cup [1 .. 3 -> {[round |-> 1, version |-> 1, rules |-> {"src"}],
                                    [round |-> 2, version |-> 2, rules |-> {"src"}],
                                    [round |-> 1, version |-> 2, rules |-> {}]}]}

Artifact(kind, valid) == [kind |-> kind, valid |-> valid]

(* Every input without a fault, and some with two. *)
SmallScenarios ==
    [input : Republished
             \cup {Job(b) : b \in Contexts \cup Envelopes \cup Crashes \cup {Logged(l) : l \in Logs}},
     faults : {0}]
    \cup [input : {Job(Plain), Job(Bundle(<<Context(GoodContext, 2)>>)),
                   Artifact("generate_symcache", TRUE), Artifact("index_artifact", FALSE)},
          faults : {2}]
=============================================================================
