-------------------------- MODULE MCReprocessing --------------------------
(* Small instances of Reprocessing for TLC. *)
EXTENDS Reprocessing, TLC

(* Every request matches every event. *)
WholeProject == [r \in Requests |-> Events]

(* Requests that are tried twice, and requests that are tried once on a     *)
(* project that deletes a raw object.                                       *)
RetriesOrDeletion == {[attempts |-> 2, raw |-> {}], [attempts |-> 1, raw |-> {1}]}
=============================================================================
