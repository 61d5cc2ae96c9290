---------------------------- MODULE ArtifactScan ----------------------------
(***************************************************************************)
(* The artifact scan (crates/symbols/src/lib.rs) and what the command line *)
(* accepts of it (collect_artifacts in apps/cli/src/symbol_upload.rs).     *)
(*                                                                         *)
(* A file is a record: its extension, its name, its bytes (a sequence,     *)
(* never looked into) and what a parser finds in them: the format, the     *)
(* object kind, the machine, the CodeView or PDB GUID, the age, the age in *)
(* the PDB's debug stream, an image's code id and the PDB name it expects. *)
(* A tree is its files by path, the number of directories below the root   *)
(* and the depth of the deepest one.                                       *)
(***************************************************************************)
EXTENDS Integers, Sequences, FiniteSets, FiniteSetsExt

CONSTANTS MaxEntries, MaxDepth, MaxFiles, MaxFileBytes, MaxTotalBytes, None

Architectures == {"x86", "x86_64", "arm64"}
Images == {"pe_executable", "pe_dynamic_library"}

Size(f) == Len(f.bytes)

(* supported_extension; links and other extensions are passed over. *)
Supported(f) == f.ext \in {"exe", "dll", "pdb"}

Discovered(tree) == {p \in DOMAIN tree.files : Supported(tree.files[p])}

(* The limits of discover_files and add_file: every entry counts, and the   *)
(* bytes of supported files.                                                *)
WithinLimits(tree) ==
    LET Bytes(p) == Size(tree.files[p])
    IN  /\ tree.depth <= MaxDepth
        /\ tree.dirs + Cardinality(DOMAIN tree.files) <= MaxEntries
        /\ Cardinality(Discovered(tree)) <= MaxFiles
        /\ \A p \in Discovered(tree) : Bytes(p) <= MaxFileBytes
        /\ MapThenSumSet(Bytes, Discovered(tree)) <= MaxTotalBytes

(* parse_pe and parse_pdb: the extension chooses the parser, the object     *)
(* kind of an image its type.                                               *)
Parses(f) ==
    /\ f.arch \in Architectures
    /\ IF f.ext = "pdb" THEN f.format = "pdb"
       ELSE f.format = "pe" /\ f.guid # None /\ f.kind \in Images

(* What a record says of a file that parses. *)
Identity(f) ==
    [type |-> IF f.ext = "pdb" THEN "pdb" ELSE f.kind,
     arch |-> f.arch,
     debug |-> <<f.guid, f.age>>,
     code |-> IF f.ext = "pdb" THEN None ELSE f.code]

IsImage(f) == Parses(f) /\ f.ext # "pdb"
IsPdb(f) == Parses(f) /\ f.ext = "pdb"

(* compatible, for an image and a PDB: the age that a PDB shows grows when  *)
(* it is rewritten, its original age is the one the image was linked with.  *)
Pair(pe, pdb) ==
    /\ IsImage(pe) /\ IsPdb(pdb)
    /\ pe.arch = pdb.arch /\ pe.guid = pdb.guid
    /\ pdb.age >= pe.age /\ pdb.original = pe.age

Compatible(f, g) == Pair(f, g) \/ Pair(g, f)

NamedFor(pe, pdb) == IsImage(pe) /\ IsPdb(pdb) /\ pe.pdb = pdb.name

(* match_artifacts and has_named_mismatch *)
MatchState(tree, p) ==
    LET f == tree.files[p]
        others == {tree.files[q] : q \in Discovered(tree) \ {p}}
    IN  CASE ~Parses(f) -> "invalid"
          [] \E g \in others : Compatible(f, g) -> "matched"
          [] \E g \in others : NamedFor(f, g) \/ NamedFor(g, f) -> "mismatched"
          [] OTHER -> "missing_companion"

(* collect_artifacts up to the hashes.  arch is the --architecture option   *)
(* or None.                                                                 *)
Collected(tree, arch) ==
    LET found == Discovered(tree)
    IN  /\ WithinLimits(tree)
        /\ found # {}
        /\ \A p \in found : MatchState(tree, p) \in {"matched", "missing_companion"}
        /\ \A p, q \in found : tree.files[p].arch = tree.files[q].arch
        /\ arch # None => \A p \in found : tree.files[p].arch = arch
=============================================================================
