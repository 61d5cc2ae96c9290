-------------------------- MODULE MCSymbolUpload --------------------------
(* Small instances of SymbolUpload for TLC. *)
EXTENDS SymbolUpload, TLC

CONSTANTS a, b, x

(* x has the checksum of a and declares another identity. *)
Declared == [c \in Artifacts |-> IF c = x THEN a ELSE c]

Symmetry == Permutations(Rows) \cup Permutations(Sessions) \cup Permutations(Handlers)
=============================================================================
