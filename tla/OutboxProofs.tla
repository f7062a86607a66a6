----------------------------- MODULE OutboxProofs ----------------------------
(***************************************************************************)
(* Theorems about Outbox for any number of messages, tasks and any batch   *)
(* size: the delivery state and its receipt agree, and a final state stays *)
(* whatever the worker, a cancel and a revocation do between each other's  *)
(* store calls.                                                            *)
(***************************************************************************)
EXTENDS Outbox, TLAPS

USE NothingIsNone, BatchSizeIsPositive DEF queue, calls

-----------------------------------------------------------------------------
(* Facts the steps share *)

WorkerType == [pc : Places, batch : SUBSET Messages, seen : SUBSET Messages,
               message : Messages \cup {NoMessage}, task : Tasks \cup {NoTask}]

\* The idle worker is a worker and holds nothing.
LEMMA IdleFacts ==
    /\ Idle \in WorkerType
    /\ Idle.pc = "idle" /\ Idle.batch = {} /\ Idle.message = NoMessage
  BY DEF Idle, WorkerType, Places

\* Going on with the batch keeps its messages and drops the one that is done.
LEMMA GoOnFacts ==
    ASSUME OutTypeOK, GoOn
    PROVE  /\ worker' \in WorkerType
           /\ worker'.batch \subseteq worker.batch
           /\ worker'.message = NoMessage
           /\ worker'.pc \in {"idle", "next"}
  BY IdleFacts DEF OutTypeOK, GoOn, WorkerType, Places

\* A message that becomes due is the only one to do so.
LEMMA PlaceFacts ==
    ASSUME OutTypeOK, NEW m \in Messages, NEW before, Place(m, before)
    PROVE  /\ due' = due \cup {m}
           /\ ahead' \in [Messages -> SUBSET Messages]
  <1>1. before \subseteq Messages
    BY DEF Place, Due, OutTypeOK
  <1>2. \A n \in Messages : ahead[n] \cup {m} \in SUBSET Messages
    BY DEF OutTypeOK
  <1> QED
    BY <1>1, <1>2 DEF Place, OutTypeOK

\* A step that leaves every row in place and makes the worker hold less
\* preserves WorkIsQueued.
LEMMA LessWork ==
    ASSUME OutboxInv,
           \A m \in Messages : outbox'[m] = "absent" => outbox[m] = "absent",
           cancelling' \subseteq cancelling, due' \subseteq due,
           worker'.batch \subseteq worker.batch,
           worker'.message = NoMessage,
           worker'.pc \in {"idle", "next"}
    PROVE  WorkIsQueued'
  BY DEF OutboxInv, OutTypeOK, WorkIsQueued

-----------------------------------------------------------------------------
(* The calls and the relation *)

\* Queueing: Enqueue adds a pending row that had no receipt.
LEMMA SendStep ==
    ASSUME OutboxInv, NEW m \in Messages, SendCheck(m) \/ Enqueue(m)
    PROVE  OutboxInv'
  <1>1. CASE SendCheck(m)
    BY <1>1 DEF SendCheck, OutboxInv, OutTypeOK, DeliveredHasReceipt, WorkIsQueued
  <1>2. CASE Enqueue(m)
    <2>0. \/ due' = due \cup {m} /\ outbox[m] = "absent"
          \/ due' = due /\ outbox' = outbox
      BY <1>2, PlaceFacts DEF Enqueue, OutboxInv
    <2>1. OutTypeOK'
      <3>1. ahead' \in [Messages -> SUBSET Messages]
        BY <1>2, PlaceFacts DEF Enqueue, OutboxInv, OutTypeOK
      <3> QED
        BY <1>2, <2>0, <3>1 DEF Enqueue, OutboxInv, OutTypeOK
    <2>2. DeliveredHasReceipt'
      BY <1>2 DEF Enqueue, OutboxInv, OutTypeOK, DeliveredHasReceipt
    <2>3. WorkIsQueued'
      BY <1>2, <2>0 DEF Enqueue, OutboxInv, OutTypeOK, WorkIsQueued
    <2> QED
      BY <2>1, <2>2, <2>3 DEF OutboxInv
  <1> QED
    BY <1>1, <1>2

\* Cancelling: the conditional UPDATE only touches a pending row.
LEMMA CancelStep ==
    ASSUME OutboxInv, NEW m \in Messages, CancelRead(m) \/ CancelWrite(m)
    PROVE  OutboxInv'
  <1>1. CASE CancelRead(m)
    BY <1>1 DEF CancelRead, OutboxInv, OutTypeOK, DeliveredHasReceipt, WorkIsQueued
  <1>2. CASE CancelWrite(m)
    <2>1. OutTypeOK'
      BY <1>2 DEF CancelWrite, OutboxInv, OutTypeOK, Final
    <2>2. DeliveredHasReceipt'
      BY <1>2 DEF CancelWrite, OutboxInv, OutTypeOK, DeliveredHasReceipt
    <2>3. WorkIsQueued'
      BY <1>2 DEF CancelWrite, OutboxInv, OutTypeOK, WorkIsQueued
    <2> QED
      BY <2>1, <2>2, <2>3 DEF OutboxInv
  <1> QED
    BY <1>1, <1>2

\* The relation: revoking touches pending rows only.
LEMMA RelationStep ==
    ASSUME OutboxInv, RevokeContact \/ RevokeOutbox \/ PairAgain
    PROVE  OutboxInv'
  <1>1. CASE RevokeContact \/ PairAgain
    BY <1>1 DEF RevokeContact, PairAgain, OutboxInv, OutTypeOK, DeliveredHasReceipt,
                WorkIsQueued
  <1>2. CASE RevokeOutbox
    <2>1. OutTypeOK'
      BY <1>2 DEF RevokeOutbox, OutboxInv, OutTypeOK, Final
    <2>2. DeliveredHasReceipt'
      BY <1>2 DEF RevokeOutbox, OutboxInv, OutTypeOK, DeliveredHasReceipt
    <2>3. WorkIsQueued'
      BY <1>2 DEF RevokeOutbox, OutboxInv, OutTypeOK, WorkIsQueued
    <2> QED
      BY <2>1, <2>2, <2>3 DEF OutboxInv
  <1> QED
    BY <1>1, <1>2

\* A task, the clock and a restart: no row of the outbox changes.
LEMMA AroundStep ==
    ASSUME OutboxInv,
           \/ \E t \in Tasks : CancelTask(t)
           \/ \E m \in Messages : BecomeDue(m)
           \/ OutRestart
    PROVE  OutboxInv'
  <1>1. CASE \E t \in Tasks : CancelTask(t)
    BY <1>1 DEF CancelTask, OutboxInv, OutTypeOK, DeliveredHasReceipt, WorkIsQueued
  <1>2. CASE \E m \in Messages : BecomeDue(m)
    <2>1. PICK m \in Messages : BecomeDue(m)
      BY <1>2
    <2>2. due' = due \cup {m} /\ ahead' \in [Messages -> SUBSET Messages]
      BY <2>1, PlaceFacts DEF BecomeDue, OutboxInv
    <2> QED
      BY <2>1, <2>2 DEF BecomeDue, OutboxInv, OutTypeOK, DeliveredHasReceipt, WorkIsQueued
  <1>3. CASE OutRestart
    <2>1. WorkIsQueued'
      BY <1>3, IdleFacts, LessWork DEF OutRestart
    <2> QED
      BY <1>3, <2>1, IdleFacts DEF OutRestart, OutboxInv, OutTypeOK, DeliveredHasReceipt,
                                   WorkerType
  <1> QED
    BY <1>1, <1>2, <1>3

-----------------------------------------------------------------------------
(* The delivery worker *)

\* Listing and delivering: the worker only takes messages that have a row.
LEMMA DeliverStep ==
    ASSUME OutboxInv,
           \/ \E batch \in SUBSET Messages : ListDue(batch)
           \/ \E m \in Messages : Resolve(m)
           \/ Connect \/ Failed
           \/ \E t \in Tasks : Accepted(t)
    PROVE  OutboxInv'
  <1> USE DEF OutboxInv
  <1>1. CASE \E batch \in SUBSET Messages : ListDue(batch)
    <2>1. PICK batch \in SUBSET Messages : ListDue(batch)
      BY <1>1
    <2>2. /\ worker'.pc = "next" /\ worker'.batch = batch
          /\ worker'.message = NoMessage /\ worker' \in WorkerType
      BY <2>1, IdleFacts DEF ListDue, Due, Idle, OutTypeOK, WorkerType, Places
    <2>3. \A m \in batch : outbox[m] # "absent"
      BY <2>1 DEF ListDue, Due
    <2>4. OutTypeOK' /\ DeliveredHasReceipt'
      BY <2>1, <2>2 DEF ListDue, OutTypeOK, DeliveredHasReceipt, WorkerType
    <2>5. UNCHANGED <<outbox, due, cancelling>>
      BY <2>1 DEF ListDue
    <2>6. WorkIsQueued'
      BY <2>2, <2>3, <2>5 DEF WorkIsQueued
    <2> QED
      BY <2>4, <2>6
  <1>2. CASE \E m \in Messages : Resolve(m)
    <2>1. PICK m \in Messages : Resolve(m)
      BY <1>2
    <2>2. /\ worker'.pc \in {"connect", "retry"} /\ worker'.batch = worker.batch \ {m}
          /\ worker'.message = m /\ worker' \in WorkerType
      <3>1. PICK place \in {"connect", "retry"} :
               worker' = [worker EXCEPT !.pc = place, !.batch = @ \ {m}, !.message = m]
        BY <2>1 DEF Resolve
      <3>2. worker \in WorkerType
        BY DEF OutTypeOK, WorkerType
      <3> QED
        BY <3>1, <3>2 DEF WorkerType, Places
    <2>3. m \in worker.batch
      BY <2>1 DEF Resolve
    <2>4. OutTypeOK' /\ DeliveredHasReceipt'
      BY <2>1, <2>2 DEF Resolve, OutTypeOK, DeliveredHasReceipt, WorkerType
    <2>5. UNCHANGED <<outbox, due, cancelling>>
      BY <2>1 DEF Resolve
    <2>6. outbox[m] # "absent" /\ \A n \in worker'.batch \cup cancelling \cup due : outbox[n] # "absent"
      BY <2>2, <2>3 DEF WorkIsQueued
    <2>7. WorkIsQueued'
      BY <2>2, <2>5, <2>6 DEF WorkIsQueued
    <2> QED
      BY <2>4, <2>7
  <1>3. CASE Connect
    BY <1>3 DEF Connect, OutTypeOK, DeliveredHasReceipt, WorkIsQueued, Places
  <1>4. CASE Failed
    BY <1>4 DEF Failed, OutTypeOK, DeliveredHasReceipt, WorkIsQueued, Places
  <1>5. CASE \E t \in Tasks : Accepted(t)
    <2>1. PICK t \in Tasks : Accepted(t)
      BY <1>5
    <2>2. /\ worker'.pc = "mark" /\ worker'.batch = worker.batch
          /\ worker'.message = worker.message /\ worker'.task = t /\ worker' \in WorkerType
      BY <2>1 DEF Accepted, OutTypeOK, WorkerType, Places
    <2>3. tasks' \in [Tasks -> {"absent", "working", "cancel_requested"}]
      <3>1. CASE tasks' = tasks
        BY <3>1 DEF OutTypeOK
      <3>2. CASE tasks' = [tasks EXCEPT ![t] = "working"]
        BY <3>2 DEF OutTypeOK
      <3> QED
        BY <2>1, <3>1, <3>2 DEF Accepted
    <2>4. OutTypeOK' /\ DeliveredHasReceipt'
      BY <2>1, <2>2, <2>3 DEF Accepted, OutTypeOK, DeliveredHasReceipt, WorkerType
    <2>5. worker.pc = "wait" /\ UNCHANGED <<outbox, due, cancelling>>
      BY <2>1 DEF Accepted
    <2>6. WorkIsQueued'
      BY <2>2, <2>5 DEF WorkIsQueued
    <2> QED
      BY <2>4, <2>6
  <1> QED
    BY <1>1, <1>2, <1>3, <1>4, <1>5

\* Recording the result: the receipt is written with the state, or neither is.
LEMMA RecordStep ==
    ASSUME OutboxInv, ScheduleRetry \/ MarkDelivered \/ Abort
    PROVE  OutboxInv'
  <1>1. CASE ScheduleRetry
    <2>1. /\ worker' \in WorkerType /\ worker'.batch \subseteq worker.batch
          /\ worker'.message = NoMessage /\ worker'.pc \in {"idle", "next"}
      BY <1>1, IdleFacts, GoOnFacts DEF ScheduleRetry, OutboxInv
    <2>2. due' \subseteq due /\ ahead' \in [Messages -> SUBSET Messages]
      BY <1>1 DEF ScheduleRetry, Reschedule, OutboxInv, OutTypeOK
    <2>3. WorkIsQueued'
      BY <1>1, <2>1, <2>2, LessWork DEF ScheduleRetry
    <2> QED
      BY <1>1, <2>1, <2>2, <2>3 DEF ScheduleRetry, OutboxInv, OutTypeOK,
                                    DeliveredHasReceipt, WorkerType
  <1>2. CASE MarkDelivered
    <2>1. /\ worker' \in WorkerType /\ worker'.batch \subseteq worker.batch
          /\ worker'.message = NoMessage /\ worker'.pc \in {"idle", "next"}
      BY <1>2, IdleFacts, GoOnFacts DEF MarkDelivered, OutboxInv
    <2>2. /\ worker.message \in Messages /\ worker.task \in Tasks
          /\ worker.task # NoTask
      BY <1>2 DEF MarkDelivered, OutboxInv, OutTypeOK, WorkIsQueued
    <2>3. /\ OutTypeOK'
          /\ DeliveredHasReceipt'
      BY <1>2, <2>1, <2>2 DEF MarkDelivered, OutboxInv, OutTypeOK, DeliveredHasReceipt,
                              WorkerType, Final
    <2>4. \A m \in Messages : outbox'[m] = "absent" => outbox[m] = "absent"
      BY <1>2, <2>2 DEF MarkDelivered, OutboxInv, OutTypeOK
    <2>5. WorkIsQueued'
      BY <1>2, <2>1, <2>4, LessWork DEF MarkDelivered
    <2> QED
      BY <2>3, <2>5 DEF OutboxInv
  <1>3. CASE Abort
    <2>1. WorkIsQueued'
      BY <1>3, IdleFacts, LessWork DEF Abort
    <2> QED
      BY <1>3, <2>1, IdleFacts DEF Abort, OutboxInv, OutTypeOK, DeliveredHasReceipt,
                                   WorkerType
  <1> QED
    BY <1>1, <1>2, <1>3

-----------------------------------------------------------------------------
(* The invariant is inductive *)

\* OutboxInv holds with an empty outbox and an idle worker.
LEMMA OutboxInit ==
    ASSUME OutInit
    PROVE  OutboxInv
  BY IdleFacts DEF OutInit, OutboxInv, OutTypeOK, DeliveredHasReceipt, WorkIsQueued,
                   WorkerType, Final

\* Every call, every step of the worker and every restart preserves OutboxInv.
LEMMA OutboxInductive ==
    ASSUME OutboxInv, [OutNext]_outVars
    PROVE  OutboxInv'
  <1>1. CASE UNCHANGED outVars
    BY <1>1 DEF outVars, OutboxInv, OutTypeOK, DeliveredHasReceipt, WorkIsQueued
  <1>2. CASE WorkerStep \/ Abort
    BY <1>2, DeliverStep, RecordStep DEF WorkerStep, AttemptEnds
  <1>3. CASE OutNext /\ ~(WorkerStep \/ Abort)
    BY <1>3, SendStep, CancelStep, RelationStep, AroundStep DEF OutNext
  <1> QED
    BY <1>1, <1>2, <1>3

-----------------------------------------------------------------------------
(* The theorems *)

\* The invariant of the outbox: a message is delivered exactly when its receipt
\* row exists, whatever cancels, revocations, store errors and restarts fall
\* between the worker's store calls (MarkOutboxDelivered and its callers).
THEOREM OutboxInvariant == OutSpec => []OutboxInv
  <1> QED
    BY OutboxInit, OutboxInductive, PTL DEF OutSpec

\* FinalStatesKept for every step: neither a cancel, a revocation, nor a late
\* response overwrites a delivered or cancelled row or its receipt (the
\* WHERE state = pending of every UPDATE).
THEOREM FinalStates == OutSpec => FinalStatesKept
  <1>1. OutboxInv /\ [OutNext]_outVars =>
          [\A m \in Messages : outbox[m] \in Final =>
              outbox'[m] = outbox[m] /\ receipts'[m] = receipts[m]]_outVars
    <2> SUFFICES ASSUME OutboxInv, OutNext, NEW m \in Messages, outbox[m] \in Final
                 PROVE  outbox'[m] = outbox[m] /\ receipts'[m] = receipts[m]
      OBVIOUS
    <2>1. outbox[m] # "pending" /\ outbox[m] # "absent"
      BY DEF Final
    <2>2. CASE WorkerStep \/ Abort
      <3>1. CASE MarkDelivered
        BY <2>1, <3>1 DEF MarkDelivered, OutboxInv, OutTypeOK
      <3>2. CASE ~MarkDelivered
        BY <2>2, <3>2 DEF WorkerStep, AttemptEnds, Abort, ListDue, Resolve, Connect, Accepted, Failed,
                          ScheduleRetry
      <3> QED
        BY <3>1, <3>2
    <2>3. CASE \E n \in Messages : SendCheck(n) \/ Enqueue(n) \/ CancelRead(n) \/ CancelWrite(n)
      BY <2>1, <2>3 DEF SendCheck, Enqueue, CancelRead, CancelWrite, OutboxInv, OutTypeOK
    <2>4. CASE RevokeContact \/ RevokeOutbox \/ PairAgain
      BY <2>1, <2>4 DEF RevokeContact, RevokeOutbox, PairAgain
    <2>5. CASE \/ \E t \in Tasks : CancelTask(t)
               \/ \E n \in Messages : BecomeDue(n)
               \/ OutRestart
      BY <2>5 DEF CancelTask, BecomeDue, OutRestart
    <2> QED
      BY <2>2, <2>3, <2>4, <2>5 DEF OutNext
  <1> QED
    BY <1>1, OutboxInvariant, PTL DEF OutSpec, FinalStatesKept
==============================================================================
