----------------------------- MODULE MCPipeline -----------------------------
(* Small instances of Pipeline for TLC. *)
EXTENDS Pipeline

CONSTANTS e1, e2, m1, m2

Both(m) == {<<m, "pe">>, <<m, "pdb">>}

(* An event that waits for two artifacts, with nothing to fail. *)
TwoExecutables ==
    {[events |-> {e1}, artifacts |-> {<<m1, "pe">>, <<m2, "pe">>}, rules |-> 0,
      releases |-> 1, faults |-> 0]}

(* Each behaviour draws one of these: one event and the files of a module,  *)
(* with faults, changes of the rules or a second release; the PDB of a      *)
(* second module; two events that need one cache; two executables.          *)
SmallBudgets ==
    {[events |-> {e1}, artifacts |-> Both(m1), rules |-> 1, releases |-> 1, faults |-> 2],
     [events |-> {e1}, artifacts |-> Both(m1), rules |-> 2, releases |-> 2, faults |-> 0],
     [events |-> {e1}, artifacts |-> Both(m1) \cup {<<m2, "pdb">>}, rules |-> 0,
      releases |-> 1, faults |-> 1],
     [events |-> {e1, e2}, artifacts |-> Both(m1), rules |-> 0, releases |-> 1, faults |-> 0]}
    \cup TwoExecutables
=============================================================================
