---------------------------- MODULE MCCapability -----------------------------
(* A small instance of Capability for TLC. *)
EXTENDS Capability, TLC

Symmetry == Permutations(Callers) \cup Permutations(Nonces)
==============================================================================
