---------------------------- MODULE MCJobQueue ----------------------------
(* A small instance of JobQueue for TLC. *)
EXTENDS JobQueue, TLC

CONSTANT p1

(* Every job in one project. *)
OneProject == [j \in Jobs |-> p1]
=============================================================================
