------------------------------ MODULE MCPairing ------------------------------
(***************************************************************************)
(* Instances of Pairing for TLC: calls, agents and invites are symmetric.  *)
(* MCPairing.cfg bounds a behaviour by OverlapBound: two calls race over   *)
(* one invite, or one call over two overlapping invites, or a notice or    *)
(* the expiry of an invite comes in place of a call.                       *)
(***************************************************************************)
EXTENDS Pairing, TLC

Symmetry == Permutations(Calls) \cup Permutations(Agents)
            \cup Permutations(Invites)

Made == {i \in Invites : \E a \in Agents : requests[a][i] # "absent"}
UnderWay == {c \in Calls : calls[c] # NoCall}
Notices == {m \in network : m.kind = "revocation"}
Unnamed == {m \in network : m.kind \in {"invite", "acceptance"} /\ m.host = NoHost}

OverlapBound ==
    /\ Cardinality(Made) + Cardinality(UnderWay) + Cardinality(Notices) + Cardinality(expired) <= 3
    /\ Cardinality(Unnamed) <= 1
=============================================================================
