----------------------------- MODULE MCDelivery ------------------------------
(***************************************************************************)
(* A small instance of Delivery for TLC.  DisturbanceBound keeps together  *)
(* at two: requests that the worker gave up and that are still on their    *)
(* way or at work, management calls under way at the sender, and sides     *)
(* whose contact is not active.                                            *)
(***************************************************************************)
EXTENDS Delivery, TLC

Symmetry == Permutations(Requests)

Late == {k \in Requests : carried[k] # NoMessage /\ k # current /\ pc[k] \notin {"done", "lost"}}
One(condition) == IF condition THEN 1 ELSE 0

DisturbanceBound ==
    Cardinality(Late) + Cardinality(sending) + Cardinality(cancelling)
    + One(revoking) + One(~active) + One(~paired) <= 2
==============================================================================
