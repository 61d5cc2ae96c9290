---------------------------- MODULE MCRetention ----------------------------
(* A small instance of Retention for TLC. *)
EXTENDS Retention
=============================================================================
