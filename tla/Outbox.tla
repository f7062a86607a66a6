-------------------------------- MODULE Outbox -------------------------------
(***************************************************************************)
(* The sending side of message delivery for one local agent and one        *)
(* contact: the outbox_messages and delivery_receipts tables, the          *)
(* management calls that queue, cancel and revoke                          *)
(* (internal/management/handler.go, internal/pairing/service.go) and the   *)
(* delivery worker (internal/delivery, internal/daemon).                   *)
(*                                                                         *)
(* IPC calls run in goroutines of their own beside the worker, and none of *)
(* them holds a transaction over two store calls: what a call read before  *)
(* may be stale when it writes.  The calls are split there.  The tables    *)
(* survive a restart; running calls and the worker's batch do not.         *)
(***************************************************************************)
EXTENDS Naturals, FiniteSets

CONSTANTS
    Messages,   \* message ids of the local agent for this contact
    Tasks,      \* ids the remote side may return for a message
    NoMessage,  \* the worker works on no message
    NoTask,     \* no id was returned
    BatchSize   \* Config.BatchSize

VARIABLES
    active,     \* the contact row is active
    outbox,     \* outbox[m]: the state of the outbox row of m
    due,        \* messages whose next_attempt_at has been reached
    ahead,      \* ahead[m]: messages with an earlier next_attempt_at than m
    receipts,   \* receipts[m]: remote_receipt_id of the delivery_receipts row of m
    tasks,      \* tasks[t]: the state of the task_index row of t
    sending,    \* messages whose sendMessage call found the contact active
    cancelling, \* messages whose CancelOutbox call read the state pending
    revoking,   \* a Revoke or Block call wrote the contact, not yet the outbox
    worker      \* the delivery worker: its place in ProcessDue and its batch

queue == <<due, ahead>>
calls == <<sending, cancelling, revoking>>
outVars == <<active, outbox, due, ahead, receipts, tasks,
             sending, cancelling, revoking, worker>>

-----------------------------------------------------------------------------
(* Data *)

Final == {"delivered", "cancelled"}
\* next: between two messages; connect: the contact was found active; wait: the
\* request is on the wire; retry, mark: Deliver returned an error, a task.
Places == {"idle", "next", "connect", "wait", "retry", "mark"}
\* seen: the pending messages that were due when the batch was listed, without
\* those rescheduled since.
Idle == [pc |-> "idle", batch |-> {}, seen |-> {}, message |-> NoMessage, task |-> NoTask]

ASSUME NothingIsNone == NoMessage \notin Messages /\ NoTask \notin Tasks
ASSUME BatchSizeIsPositive == BatchSize \in Nat \ {0}

OutTypeOK ==
    /\ active \in BOOLEAN
    /\ outbox \in [Messages -> {"absent", "pending"} \cup Final]
    /\ due \subseteq Messages
    /\ ahead \in [Messages -> SUBSET Messages]
    /\ receipts \in [Messages -> Tasks \cup {NoTask}]
    /\ tasks \in [Tasks -> {"absent", "working", "cancel_requested"}]
    /\ sending \subseteq Messages
    /\ cancelling \subseteq Messages
    /\ revoking \in BOOLEAN
    /\ worker \in [pc : Places, batch : SUBSET Messages, seen : SUBSET Messages,
                   message : Messages \cup {NoMessage}, task : Tasks \cup {NoTask}]

OutInit ==
    /\ active = TRUE
    /\ outbox = [m \in Messages |-> "absent"]
    /\ due = {}
    /\ ahead = [m \in Messages |-> {}]
    /\ receipts = [m \in Messages |-> NoTask]
    /\ tasks = [t \in Tasks |-> "absent"]
    /\ sending = {}
    /\ cancelling = {}
    /\ revoking = FALSE
    /\ worker = Idle

-----------------------------------------------------------------------------
(* The queue: what ListDueOutbox selects and its order *)

\* Mutant of Due: a row is listed whatever its state.
DueInAnyState == due

Due == {m \in due : outbox[m] = "pending"}

\* m becomes due with a next_attempt_at after those of the messages in before
\* and ahead of the other ones.
Place(m, before) ==
    /\ before \subseteq Due
    /\ \A n \in before : ahead[n] \cap Due \subseteq before
    /\ due' = due \cup {m}
    /\ ahead' = [n \in Messages |-> IF n = m THEN before
                                   ELSE IF n \in Due \ before THEN ahead[n] \cup {m}
                                   ELSE ahead[n]]

-----------------------------------------------------------------------------
(* Queueing and cancelling *)

\* sendMessage up to GetOutbox: a message that has a row is returned as it is.
SendCheck(m) ==
    /\ active
    /\ outbox[m] = "absent"
    /\ sending' = sending \cup {m}
    /\ UNCHANGED <<active, outbox, queue, receipts, tasks, cancelling, revoking, worker>>

\* EnqueueOutbox; a second call for the same message id fails on the key.  The
\* message is due at the time at which sendMessage built it.
Enqueue(m) ==
    /\ m \in sending
    /\ sending' = sending \ {m}
    /\ IF outbox[m] = "absent"
       THEN /\ outbox' = [outbox EXCEPT ![m] = "pending"]
            /\ \E before \in SUBSET Messages : Place(m, before)
       ELSE UNCHANGED <<outbox, queue>>
    /\ UNCHANGED <<active, receipts, tasks, cancelling, revoking, worker>>

\* CancelOutbox reads the state; only a pending message goes further.
CancelRead(m) ==
    /\ outbox[m] = "pending"
    /\ cancelling' = cancelling \cup {m}
    /\ UNCHANGED <<active, outbox, queue, receipts, tasks, sending, revoking, worker>>

\* Mutant of CancelWrite: an UPDATE without its condition.
CancelWriteAlways(m) ==
    /\ m \in cancelling
    /\ cancelling' = cancelling \ {m}
    /\ outbox' = [outbox EXCEPT ![m] = "cancelled"]
    /\ UNCHANGED <<active, queue, receipts, tasks, sending, revoking, worker>>

\* Its conditional UPDATE; no row is left when the worker was faster.
CancelWrite(m) ==
    /\ m \in cancelling
    /\ cancelling' = cancelling \ {m}
    /\ outbox' = IF outbox[m] = "pending" THEN [outbox EXCEPT ![m] = "cancelled"] ELSE outbox
    /\ UNCHANGED <<active, queue, receipts, tasks, sending, revoking, worker>>

\* cancelMessage with the id of a task: no outbox row has that id, and the
\* task is marked instead.
CancelTask(t) ==
    /\ tasks[t] # "absent"
    /\ tasks' = [tasks EXCEPT ![t] = "cancel_requested"]
    /\ UNCHANGED <<active, outbox, queue, receipts, calls, worker>>

-----------------------------------------------------------------------------
(* The relation *)

\* Revoke, Block and ApplyRevocation write the contact first.
RevokeContact ==
    /\ active
    /\ active' = FALSE
    /\ revoking' = TRUE
    /\ UNCHANGED <<outbox, queue, receipts, tasks, sending, cancelling, worker>>

\* CancelOutboxForContact.
RevokeOutbox ==
    /\ revoking
    /\ revoking' = FALSE
    /\ outbox' = [m \in Messages |-> IF outbox[m] = "pending" THEN "cancelled" ELSE outbox[m]]
    /\ UNCHANGED <<active, queue, receipts, tasks, sending, cancelling, worker>>

\* A new pairing makes the contact active again.
PairAgain ==
    /\ ~active
    /\ active' = TRUE
    /\ UNCHANGED <<outbox, queue, receipts, tasks, calls, worker>>

-----------------------------------------------------------------------------
(* The delivery worker: ProcessDue on every tick *)

\* ListDueOutbox: a snapshot of the first rows by next_attempt_at, at most BatchSize.
ListDue(batch) ==
    /\ worker.pc = "idle"
    /\ batch # {} /\ batch \subseteq Due
    /\ IF Cardinality(Due) <= BatchSize THEN batch = Due ELSE Cardinality(batch) = BatchSize
    /\ \A m \in batch : ahead[m] \cap Due \subseteq batch
    /\ worker' = [Idle EXCEPT !.pc = "next", !.batch = batch, !.seen = Due]
    /\ UNCHANGED <<active, outbox, queue, receipts, tasks, calls>>

\* Deliver up to the request: the readiness check, the contact, the endpoint and
\* the identity.  The outbox row is not read again.
Resolve(m) ==
    /\ worker.pc = "next" /\ m \in worker.batch
    /\ ahead[m] \cap worker.batch = {}
    /\ \/ /\ active
          /\ worker' = [worker EXCEPT !.pc = "connect", !.batch = @ \ {m}, !.message = m]
       \/ worker' = [worker EXCEPT !.pc = "retry", !.batch = @ \ {m}, !.message = m]
    /\ UNCHANGED <<active, outbox, queue, receipts, tasks, calls>>

Connect ==
    /\ worker.pc = "connect"
    /\ worker' = [worker EXCEPT !.pc = "wait"]
    /\ UNCHANGED <<active, outbox, queue, receipts, tasks, calls>>

\* The response names a task: UpsertTaskIndex, whatever the row said before; its
\* error is ignored.
Accepted(t) ==
    /\ worker.pc = "wait"
    /\ worker' = [worker EXCEPT !.pc = "mark", !.task = t]
    /\ tasks' \in {tasks, [tasks EXCEPT ![t] = "working"]}
    /\ UNCHANGED <<active, outbox, queue, receipts, calls>>

\* The request failed or was answered with an error.
Failed ==
    /\ worker.pc = "wait"
    /\ worker' = [worker EXCEPT !.pc = "retry"]
    /\ UNCHANGED <<active, outbox, queue, receipts, tasks, calls>>

\* The loop goes on with the rest of the batch.
GoOn ==
    worker' = IF worker.batch = {} THEN Idle
              ELSE [worker EXCEPT !.pc = "next", !.seen = @ \ {worker.message},
                                  !.message = NoMessage, !.task = NoTask]

\* The new next_attempt_at lies after the millisecond in which the batch was listed,
\* hence after that of every message which was due then: RetryDelay shows it of a
\* BaseDelay of a millisecond or more; the daemon leaves it at a second.
Reschedule(m) ==
    /\ due' = due \ {m}
    /\ ahead' = [n \in Messages |-> IF n = m THEN worker.seen \ {m} ELSE ahead[n] \ {m}]

\* Mutant of ScheduleRetry: only the attempt is counted.
ScheduleRetryAtOnce ==
    /\ worker.pc = "retry"
    /\ IF outbox[worker.message] = "pending" THEN GoOn ELSE worker' = Idle
    /\ UNCHANGED <<active, outbox, queue, receipts, tasks, calls>>

\* ScheduleOutboxRetry; when the row is not pending any more its error ends the
\* whole batch.
ScheduleRetry ==
    /\ worker.pc = "retry"
    /\ IF outbox[worker.message] = "pending"
       THEN Reschedule(worker.message) /\ GoOn
       ELSE worker' = Idle /\ UNCHANGED queue
    /\ UNCHANGED <<active, outbox, receipts, tasks, calls>>

\* Mutant of MarkDelivered: the receipt is not part of the transaction.
MarkWithoutReceipt ==
    /\ worker.pc = "mark"
    /\ IF outbox[worker.message] = "pending"
       THEN outbox' = [outbox EXCEPT ![worker.message] = "delivered"] /\ GoOn
       ELSE worker' = Idle /\ UNCHANGED outbox
    /\ UNCHANGED <<active, queue, receipts, tasks, calls>>

\* MarkOutboxDelivered in one transaction; likewise.
MarkDelivered ==
    /\ worker.pc = "mark"
    /\ IF outbox[worker.message] = "pending"
       THEN /\ outbox' = [outbox EXCEPT ![worker.message] = "delivered"]
            /\ receipts' = [receipts EXCEPT ![worker.message] = worker.task]
            /\ GoOn
       ELSE worker' = Idle /\ UNCHANGED <<outbox, receipts>>
    /\ UNCHANGED <<active, queue, tasks, calls>>

\* Either of them fails in the store: the batch ends and nothing was written.
Abort ==
    /\ worker.pc \in {"retry", "mark"}
    /\ worker' = Idle
    /\ UNCHANGED <<active, outbox, queue, receipts, tasks, calls>>

\* The retry delay has passed.
BecomeDue(m) ==
    /\ outbox[m] = "pending" /\ m \notin due
    /\ \E before \in SUBSET Messages : ahead[m] \cap Due \subseteq before /\ Place(m, before)
    /\ UNCHANGED <<active, outbox, receipts, tasks, calls, worker>>

\* The daemon stops and is started again.
OutRestart ==
    /\ sending' = {} /\ cancelling' = {} /\ revoking' = FALSE
    /\ worker' = Idle
    /\ UNCHANGED <<active, outbox, queue, receipts, tasks>>

\* The request of an attempt returns.
AttemptEnds == Failed \/ \E t \in Tasks : Accepted(t)

WorkerStep ==
    \/ \E batch \in SUBSET Messages : ListDue(batch)
    \/ \E m \in Messages : Resolve(m)
    \/ Connect \/ AttemptEnds \/ ScheduleRetry \/ MarkDelivered

OutNext ==
    \/ \E m \in Messages : \/ SendCheck(m) \/ Enqueue(m)
                           \/ CancelRead(m) \/ CancelWrite(m) \/ BecomeDue(m)
    \/ \E t \in Tasks : CancelTask(t)
    \/ RevokeContact \/ RevokeOutbox \/ PairAgain
    \/ WorkerStep \/ Abort
    \/ OutRestart

OutSpec == OutInit /\ [][OutNext]_outVars

\* The ticker keeps calling ProcessDue and time passes.  Restarts and failing
\* store calls may end any batch early, but not every one at the same point.  Nothing
\* makes a request return: the HTTP client has no Timeout and the worker's context
\* ends with the daemon.
OutFairSpec ==
    /\ OutSpec
    /\ SF_outVars(\E batch \in SUBSET Messages : ListDue(batch))
    /\ SF_outVars(\E m \in Messages : Resolve(m))
    /\ SF_outVars(Connect)
    /\ SF_outVars(ScheduleRetry \/ MarkDelivered)
    /\ \A m \in Messages : WF_outVars(BecomeDue(m))

-----------------------------------------------------------------------------
(* Properties *)

\* A message is delivered exactly when its receipt row exists, at every point and
\* across restarts (the transaction of MarkOutboxDelivered).
DeliveredHasReceipt ==
    \A m \in Messages : outbox[m] = "delivered" <=> receipts[m] # NoTask

\* A delivered or cancelled message never changes its state again, and a
\* receipt is never replaced: a user's cancel, a revocation and a late response
\* cannot overwrite each other (the WHERE state = pending of every UPDATE).
FinalStatesKept ==
    [][\A m \in Messages : outbox[m] \in Final =>
          outbox'[m] = outbox[m] /\ receipts'[m] = receipts[m]]_outVars

\* What the worker is about to record belongs to a message that was queued: a
\* call's row exists before the worker or a cancel works on it.
WorkIsQueued ==
    /\ \A m \in worker.batch \cup cancelling \cup due : outbox[m] # "absent"
    /\ worker.message # NoMessage => outbox[worker.message] # "absent"
    /\ worker.pc \in {"connect", "wait", "retry", "mark"} => worker.message # NoMessage
    /\ worker.pc = "mark" => worker.task # NoTask
    /\ worker.message # NoMessage => worker.message \notin worker.batch

\* Provided that requests return, which the code leaves to the peer and the network,
\* a message that is pending is attempted again or stops being pending: a batch
\* holds only the first messages by next_attempt_at, and those that keep failing
\* do not keep the others out of it, nor does a batch that an error or a restart
\* ended early (ProcessDue, ListDueOutbox, ScheduleOutboxRetry).  A request that
\* never returns stops the one worker and with it every message.
PendingIsAttempted ==
    SF_outVars(AttemptEnds) => \A m \in Messages : outbox[m] = "pending" ~>
        \/ outbox[m] # "pending"
        \/ worker.message = m /\ worker.pc \in {"connect", "retry"}

\* The inductive invariant of the outbox: DeliveredHasReceipt and what the
\* worker holds between two store calls.
OutboxInv == OutTypeOK /\ DeliveredHasReceipt /\ WorkIsQueued

-----------------------------------------------------------------------------
(* What the documentation says and the code does not do *)

\* The pairing specification on revocation: the queued outbox is marked
\* cancelled.  So after it no message to the contact is queued.
RevokedHasNoQueue ==
    ~active /\ ~revoking => \A m \in Messages : outbox[m] # "pending"

=============================================================================
