--------------------------- MODULE MCUploadClient ---------------------------
(* Small instances of UploadClient for TLC. *)
EXTENDS UploadClient

CONSTANTS c1, c2

Image(guid, age, bytes) ==
    [ext |-> "exe", name |-> "game", bytes |-> bytes, format |-> "pe", kind |-> "pe_executable",
     arch |-> "x86_64", guid |-> guid, age |-> age, original |-> 0, code |-> bytes, pdb |-> "sym"]
Pdb(guid, age, original, bytes) ==
    [ext |-> "pdb", name |-> "sym", bytes |-> bytes, format |-> "pdb", kind |-> None,
     arch |-> "x86_64", guid |-> guid, age |-> age, original |-> original, code |-> None,
     pdb |-> None]

(* Two builds, a file that does not parse, a rewritten PDB and one for      *)
(* another machine.  Parts have two bytes.                                  *)
ImageA == Image("a", 1, <<1, 2, 3>>)
ImageB == Image("b", 1, <<1, 4, 5>>)
ImageShort == Image("b", 1, <<6>>)
ImageBroken == [ImageA EXCEPT !.format = "bad", !.bytes = <<7, 2, 3>>]
PdbA == Pdb("a", 1, 1, <<1, 8>>)
PdbRewritten == Pdb("a", 2, 1, <<9>>)
PdbB == Pdb("b", 1, 1, <<4, 8>>)
PdbArm == [PdbA EXCEPT !.arch = "arm64", !.bytes = <<5, 8>>, !.name = "other"]
Empty == Image("a", 1, <<>>)
Notes == [ImageA EXCEPT !.ext = "txt", !.bytes = <<0>>]

Library_ == {ImageA, ImageB, ImageShort, ImageBroken, PdbA, PdbRewritten, PdbB, PdbArm, Empty, Notes}

Tree(files) == [files |-> files, dirs |-> 1, depth |-> 1]
One(c, tree) == [d \in {c} |-> tree]
Two(t, u) == [d \in {c1, c2} |-> IF d = c1 THEN t ELSE u]

Faults(lost, expire, index, change, revoke, rerun) ==
    [lost |-> lost, expire |-> expire, index |-> index, change |-> change, revoke |-> revoke,
     rerun |-> rerun, calm |-> FALSE]
Calmly(faults) == [faults EXCEPT !.calm = TRUE]
None_ == Faults(0, 0, 0, 0, 0, 0)

Both == Tree(<<ImageA, PdbA>>)
Single == Tree(<<ImageA>>)

(* A run that is run again declares a path for which another build is       *)
(* uploaded before its own is settled.                                      *)
Crossing ==
    {[trees |-> Two(Tree(<<ImageShort, ImageShort>>), Tree([p \in {2} |-> ImageB])),
      faults |-> Faults(1, 0, 0, 0, 0, 1)]}

Scenarios_ ==
    \* alone, with answers lost and sessions expiring
    {[trees |-> One(c1, Both), faults |-> Calmly(Faults(2, 1, 0, 0, 0, 3))],
     [trees |-> One(c1, Tree(<<ImageA, PdbRewritten>>)), faults |-> Calmly(Faults(1, 0, 0, 0, 0, 1))],
    \* alone, with a build, an index job or a token that goes wrong
     [trees |-> One(c1, Single), faults |-> Faults(1, 0, 0, 2, 0, 1)],
     [trees |-> One(c1, Both), faults |-> Faults(1, 0, 0, 1, 0, 1)],
     [trees |-> One(c1, Both), faults |-> Faults(0, 0, 1, 0, 1, 0)],
    \* the same build twice, and two builds of one path
     [trees |-> Two(Single, Single), faults |-> Faults(1, 0, 0, 0, 0, 1)],
     [trees |-> Two(Single, Single), faults |-> Faults(0, 0, 0, 1, 0, 1)],
     [trees |-> Two(Single, Tree(<<ImageB>>)), faults |-> Faults(1, 0, 0, 0, 0, 1)],
     [trees |-> Two(Tree(<<ImageShort, PdbB>>), Tree(<<ImageShort>>)), faults |-> Faults(0, 0, 1, 0, 0, 0)],
    \* the same file at two paths, one of them shared
     [trees |-> Two(Tree(<<ImageShort, ImageShort>>), Tree([p \in {2} |-> ImageShort])),
      faults |-> Faults(0, 0, 1, 0, 0, 0)]}
    \* two builds whose negotiations cross
    \cup Crossing
    \* trees that the command refuses
    \cup {[trees |-> One(c1, t), faults |-> None_] :
             t \in {Tree(<<ImageA, PdbB>>), Tree(<<ImageA, PdbArm>>), Tree(<<ImageBroken>>),
                    Tree(<<Empty>>), Tree(<<Notes>>), Tree(<<ImageA, ImageB, ImageShort>>),
                    [Single EXCEPT !.depth = 3], [Single EXCEPT !.dirs = 4]}}
=============================================================================
