------------------------------ MODULE MCOutbox -------------------------------
(* Small instances of Outbox, with the delays of RetryDelay, for TLC. *)
EXTENDS RetryDelay, TLC

PowersOfTwo == [n \in 0..MaxExponent |-> 2^n]
==============================================================================
