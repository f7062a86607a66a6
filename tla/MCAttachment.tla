---------------------------- MODULE MCAttachment -----------------------------
(* A small instance of Download, which extends Upload, for TLC. *)
EXTENDS Download, TLC

CONSTANTS x, y

\* Declared digests of the full content and of one that is too short for it.
MCDigests == {<<x, y>>, <<y>>}

Symmetry == Permutations(Calls) \cup Permutations(Files)
==============================================================================
