------------------------------- MODULE Exchange ------------------------------
(***************************************************************************)
(* What message delivery between two paired agents promises, without the   *)
(* outbox, the wire and the deduplication that provide it: the receiving   *)
(* agent is handed a message at most once, and only after its sender       *)
(* queued it; the sender sees a message delivered only after the agent     *)
(* was handed it; what the sender sees as final stays.  A message that was *)
(* withdrawn may still have been handed over.                              *)
(***************************************************************************)
EXTENDS Naturals

CONSTANT Messages

VARIABLES
    seen,    \* seen[m]: the state of m as its sender sees it
    handed   \* handed[m]: how often the receiving agent was handed m

exchangeVars == <<seen, handed>>

ExchangeInit ==
    /\ seen = [m \in Messages |-> "absent"]
    /\ handed = [m \in Messages |-> 0]

Submit(m) ==
    /\ seen[m] = "absent"
    /\ seen' = [seen EXCEPT ![m] = "pending"]
    /\ UNCHANGED handed

Hand(m) ==
    /\ seen[m] # "absent" /\ handed[m] = 0
    /\ handed' = [handed EXCEPT ![m] = 1]
    /\ UNCHANGED seen

Confirm(m) ==
    /\ seen[m] = "pending" /\ handed[m] = 1
    /\ seen' = [seen EXCEPT ![m] = "delivered"]
    /\ UNCHANGED handed

\* One cancel, or everything that is pending at a revocation.
Withdraw(ms) ==
    /\ \A m \in ms : seen[m] = "pending"
    /\ seen' = [m \in Messages |-> IF m \in ms THEN "cancelled" ELSE seen[m]]
    /\ UNCHANGED handed

ExchangeNext ==
    \/ \E m \in Messages : Submit(m) \/ Hand(m) \/ Confirm(m)
    \/ \E ms \in SUBSET Messages : Withdraw(ms)

\* What a user reads out of it: nothing is handed over twice or unasked, and what
\* is shown as delivered was handed over.
ExchangeInv ==
    /\ seen \in [Messages -> {"absent", "pending", "delivered", "cancelled"}]
    /\ handed \in [Messages -> {0, 1}]
    /\ \A m \in Messages :
          /\ handed[m] = 1 => seen[m] # "absent"
          /\ seen[m] = "delivered" => handed[m] = 1

ExchangeSpec == ExchangeInit /\ [][ExchangeNext]_exchangeVars
==============================================================================
