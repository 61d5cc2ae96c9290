----------------------------- MODULE MCIngest -----------------------------
(* Small instances of Ingest for TLC. *)
EXTENDS Ingest, TLC

CONSTANT guid

(* Two uploads of one crash. *)
Repeated == [u \in Uploads |-> guid]
=============================================================================
