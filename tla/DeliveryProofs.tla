---------------------------- MODULE DeliveryProofs ---------------------------
(***************************************************************************)
(* Theorems about Delivery for any number of messages and attempts: the    *)
(* receipt names what the agent created for the owner of the record, and   *)
(* the two sides together implement Exchange.  The invariants of the two   *)
(* sides come from OutboxProofs and GatewayProofs.                         *)
(***************************************************************************)
EXTENDS Delivery, TLAPS, FiniteSetTheorems

Out == INSTANCE OutboxProofs WITH Tasks <- TaskNames, NoTask <- NoRequest
Gate == INSTANCE GatewayProofs

USE NothingIsNone, BatchSizeIsPositive, NoMessageIDIsNone, StoreFaultsIsBoolean,
    UnwrappedIsBoolean, NobodyIsNoRequest, AcceptsWorkingIsBoolean

-----------------------------------------------------------------------------
(* The two sides, as Delivery and as their own proofs see them *)

\* The outbox of the composition is the outbox OutboxProofs is about.
LEMMA SameOutboxInv ==
    /\ Sender!OutboxInv <=> Out!OutboxInv
    /\ Sender!OutboxInv' <=> Out!OutboxInv'
    /\ Sender!OutInit <=> Out!OutInit
  BY DEF Sender!OutboxInv, Sender!OutTypeOK, Sender!DeliveredHasReceipt, Sender!WorkIsQueued,
         Sender!Places, Sender!Final, Sender!OutInit, Sender!Idle,
         Out!OutboxInv, Out!OutTypeOK, Out!DeliveredHasReceipt, Out!WorkIsQueued,
         Out!Places, Out!Final, Out!OutInit, Out!Idle

\* The gateway of the composition is the gateway GatewayProofs is about.
LEMMA SameDedupInv ==
    /\ Receiver!DedupInv <=> Gate!DedupInv
    /\ Receiver!DedupInv' <=> Gate!DedupInv'
    /\ Receiver!GateInit <=> Gate!GateInit
    /\ Receiver!NoRecord = Gate!NoRecord
  BY DEF Receiver!DedupInv, Receiver!GateTypeOK, Receiver!OwnersHoldRecord,
         Receiver!ExecutedByOwner, Receiver!ResponsesOfOwner, Receiver!RequestsInOrder,
         Receiver!GateInit, Receiver!IDs, Receiver!Outcomes, Receiver!Replayed, Receiver!Record,
         Receiver!NoRecord, Receiver!Answers, Receiver!NoAnswer, Receiver!Refused,
         Receiver!Owning, Receiver!Running, Receiver!Places, Receiver!Reservation,
         Receiver!TaskIDs, Gate!TaskIDs, Gate!Reservation, Gate!DedupInv, Gate!GateTypeOK, Gate!OwnersHoldRecord,
         Gate!ExecutedByOwner, Gate!ResponsesOfOwner, Gate!RequestsInOrder,
         Gate!GateInit, Gate!IDs, Gate!Outcomes, Gate!Replayed, Gate!Record,
         Gate!NoRecord, Gate!Answers, Gate!NoAnswer, Gate!Refused,
         Gate!Owning, Gate!Running, Gate!Places

\* So are the steps of the gateway.
LEMMA SameGateNext ==
    ASSUME [Receiver!GateNext]_receiverVars
    PROVE  [Gate!GateNext]_(Gate!gateVars)
  BY DEF receiverVars, Receiver!GateNext, Receiver!Receive, Receiver!Step,
         Receiver!Lookup, Receiver!Reserve, Receiver!RecordInbox, Receiver!Forward,
         Receiver!AgentReplies, Receiver!Complete, Receiver!Disconnect, Receiver!Restart,
         Receiver!SetPaired, Receiver!StoreWorks, Receiver!StoreFails, Receiver!Respond,
         Receiver!Continue, Receiver!IDs, Receiver!Outcomes, Receiver!Replayed, Receiver!NoRecord,
         Receiver!Refused, Receiver!Owning, Receiver!Running, Receiver!Reservation,
         Receiver!Response, Receiver!Working, Receiver!TaskIDFromResponse, Receiver!TaskIDs,
         Gate!Reservation, Gate!Response, Gate!Working, Gate!TaskIDFromResponse, Gate!TaskIDs,
         Gate!gateVars, Gate!GateNext, Gate!Receive, Gate!Step,
         Gate!Lookup, Gate!Reserve, Gate!RecordInbox, Gate!Forward,
         Gate!AgentReplies, Gate!Complete, Gate!Disconnect, Gate!Restart,
         Gate!SetPaired, Gate!StoreWorks, Gate!StoreFails, Gate!Respond,
         Gate!Continue, Gate!IDs, Gate!Outcomes, Gate!Replayed, Gate!NoRecord,
         Gate!Refused, Gate!Owning, Gate!Running

\* The queue and the worker's loop are the same for both.
LEMMA SameQueue ==
    /\ Sender!Due = Out!Due /\ Sender!Idle = Out!Idle
    /\ Sender!GoOn <=> Out!GoOn
    /\ \A m, before : Sender!Place(m, before) <=> Out!Place(m, before)
  <1>1. Sender!Due = Out!Due /\ Sender!Idle = Out!Idle
    BY DEF Sender!Due, Sender!Idle, Out!Due, Out!Idle
  <1>2. Sender!GoOn <=> Out!GoOn
    BY <1>1 DEF Sender!GoOn, Out!GoOn
  <1>3. \A m, before : Sender!Place(m, before) <=> Out!Place(m, before)
    BY <1>1 DEF Sender!Place, Out!Place
  <1> QED BY <1>1, <1>2, <1>3

\* Cardinality means the same on both sides.
LEMMA SameCardinality ==
    ASSUME NEW T
    PROVE  Sender!Cardinality(T) = Out!Cardinality(T)
  BY Zenon DEF Sender!Cardinality, Out!Cardinality

\* And so are the steps of the outbox.
LEMMA SameOutNext ==
    ASSUME [Sender!OutNext]_senderVars
    PROVE  [Out!OutNext]_(Out!outVars)
  <1>1. CASE \E m \in Messages : Sender!SendCheck(m) \/ Sender!Enqueue(m)
    <2>1. \E m \in Messages : Out!SendCheck(m) \/ Out!Enqueue(m)
      BY <1>1, SameQueue DEF Sender!SendCheck, Sender!Enqueue, Sender!queue, Sender!calls,
             Out!SendCheck, Out!Enqueue, Out!queue, Out!calls
    <2> QED BY <2>1 DEF Out!OutNext, Out!WorkerStep, Out!AttemptEnds
  <1>2. CASE \E m \in Messages : Sender!CancelRead(m) \/ Sender!CancelWrite(m)
    <2>1. \E m \in Messages : Out!CancelRead(m) \/ Out!CancelWrite(m)
      BY <1>2, SameQueue DEF Sender!CancelRead, Sender!CancelWrite, Sender!queue,
             Sender!calls, Out!CancelRead, Out!CancelWrite, Out!queue, Out!calls
    <2> QED BY <2>1 DEF Out!OutNext, Out!WorkerStep, Out!AttemptEnds
  <1>3. CASE \E m \in Messages : Sender!BecomeDue(m)
    <2>1. \E m \in Messages : Out!BecomeDue(m)
      BY <1>3, SameQueue DEF Sender!BecomeDue, Sender!queue, Sender!calls, Out!BecomeDue,
             Out!queue, Out!calls
    <2> QED BY <2>1 DEF Out!OutNext, Out!WorkerStep, Out!AttemptEnds
  <1>4. CASE \E t \in TaskNames : Sender!CancelTask(t)
    <2>1. \E t \in TaskNames : Out!CancelTask(t)
      BY <1>4, SameQueue DEF Sender!CancelTask, Sender!queue, Sender!calls, Out!CancelTask,
             Out!queue, Out!calls
    <2> QED BY <2>1 DEF Out!OutNext, Out!WorkerStep, Out!AttemptEnds
  <1>5. CASE Sender!RevokeContact \/ Sender!RevokeOutbox \/ Sender!PairAgain
    <2>1. Out!RevokeContact \/ Out!RevokeOutbox \/ Out!PairAgain
      BY <1>5, SameQueue DEF Sender!RevokeContact, Sender!RevokeOutbox, Sender!PairAgain,
             Sender!queue, Sender!calls, Out!RevokeContact, Out!RevokeOutbox, Out!PairAgain,
             Out!queue, Out!calls
    <2> QED BY <2>1 DEF Out!OutNext, Out!WorkerStep, Out!AttemptEnds
  <1>6. CASE \E batch \in SUBSET Messages : Sender!ListDue(batch)
    <2>1. PICK batch \in SUBSET Messages : Sender!ListDue(batch)
      BY <1>6
    <2>2. /\ worker.pc = "idle" /\ batch # {} /\ batch \subseteq Out!Due
          /\ IF Out!Cardinality(Out!Due) <= BatchSize THEN batch = Out!Due
             ELSE Out!Cardinality(batch) = BatchSize
          /\ \A m \in batch : ahead[m] \cap Out!Due \subseteq batch
      BY <2>1, SameQueue, SameCardinality DEF Sender!ListDue
    <2>3. worker' = [Out!Idle EXCEPT !.pc = "next", !.batch = batch, !.seen = Out!Due]
      BY <2>1, SameQueue DEF Sender!ListDue
    <2>4. UNCHANGED <<active, outbox, Out!queue, receipts, tasks, Out!calls>>
      BY <2>1 DEF Sender!ListDue, Sender!queue, Sender!calls, Out!queue, Out!calls
    <2>5. Out!ListDue(batch)
      BY <2>2, <2>3, <2>4 DEF Out!ListDue
    <2> QED BY <2>5 DEF Out!OutNext, Out!WorkerStep, Out!AttemptEnds
  <1>7. CASE \E m \in Messages : Sender!Resolve(m)
    <2>1. \E m \in Messages : Out!Resolve(m)
      BY <1>7, SameQueue DEF Sender!Resolve, Sender!queue, Sender!calls, Out!Resolve,
             Out!queue, Out!calls
    <2> QED BY <2>1 DEF Out!OutNext, Out!WorkerStep, Out!AttemptEnds
  <1>8. CASE Sender!Connect \/ Sender!Failed \/ \E t \in TaskNames : Sender!Accepted(t)
    <2>1. Out!Connect \/ Out!Failed \/ \E t \in TaskNames : Out!Accepted(t)
      BY <1>8, SameQueue DEF Sender!Connect, Sender!Failed, Sender!Accepted, Sender!queue,
             Sender!calls, Out!Connect, Out!Failed, Out!Accepted, Out!queue, Out!calls
    <2> QED BY <2>1 DEF Out!OutNext, Out!WorkerStep, Out!AttemptEnds
  <1>9. CASE Sender!ScheduleRetry
    <2>1. Out!ScheduleRetry
      BY <1>9, SameQueue DEF Sender!ScheduleRetry, Sender!Reschedule, Sender!queue,
             Sender!calls, Out!ScheduleRetry, Out!Reschedule, Out!queue, Out!calls
    <2> QED BY <2>1 DEF Out!OutNext, Out!WorkerStep, Out!AttemptEnds
  <1>10. CASE Sender!MarkDelivered \/ Sender!Abort \/ Sender!OutRestart
    <2>1. Out!MarkDelivered \/ Out!Abort \/ Out!OutRestart
      BY <1>10, SameQueue DEF Sender!MarkDelivered, Sender!Abort, Sender!OutRestart,
             Sender!queue, Sender!calls, Out!MarkDelivered, Out!Abort, Out!OutRestart,
             Out!queue, Out!calls
    <2> QED BY <2>1 DEF Out!OutNext, Out!WorkerStep, Out!AttemptEnds
  <1>11. CASE UNCHANGED senderVars
    BY <1>11 DEF senderVars, Out!outVars
  <1> QED
    BY <1>1, <1>2, <1>3, <1>4, <1>5, <1>6, <1>7, <1>8, <1>9, <1>10, <1>11
       DEF Sender!OutNext, Sender!WorkerStep, Sender!AttemptEnds

\* A step of the outbox preserves its invariant.
LEMMA SenderInductive ==
    ASSUME Sender!OutboxInv, [Sender!OutNext]_senderVars
    PROVE  Sender!OutboxInv'
  <1>1. Out!OutboxInv /\ [Out!OutNext]_(Out!outVars)
    BY SameOutboxInv, SameOutNext
  <1>2. Out!OutboxInv'
    BY <1>1, Out!OutboxInductive
  <1> QED BY <1>2, SameOutboxInv

\* A step of the gateway preserves its invariant and the owners of the records.
LEMMA ReceiverInductive ==
    ASSUME Receiver!DedupInv, [Receiver!GateNext]_receiverVars
    PROVE  /\ Receiver!DedupInv'
           /\ \A m \in Messages : records[m] # Receiver!NoRecord =>
                 records'[m].by = records[m].by
  <1>1. Gate!DedupInv /\ [Gate!GateNext]_(Gate!gateVars)
    BY SameDedupInv, SameGateNext
  <1>2. Gate!DedupInv'
    BY <1>1, Gate!DedupInductive
  <1>3. \A m \in Messages : records[m] # Gate!NoRecord => records'[m].by = records[m].by
    BY <1>1, Gate!RecordsKept
  <1> QED BY <1>2, <1>3, SameDedupInv

-----------------------------------------------------------------------------
(* Every step is a step of each side, or leaves it alone *)

\* An answer that names a task names a request, and a 202 answer its reservation.
LEMMA AnswerFacts ==
    ASSUME Receiver!DedupInv, NEW k \in Requests, answer[k].kind \in {"task", "error", "working"}
    PROVE  /\ answer[k].from \in Requests /\ pc[k] = "done"
           /\ answer[k].kind = "working" => answer[k].task = "reserved"
           /\ TaskIn(answer[k]) \in TaskNames
  <1>1. answer[k].from \in Requests /\ pc[k] = "done"
    BY DEF Receiver!DedupInv, Receiver!GateTypeOK, Receiver!RequestsInOrder, Receiver!Answers,
           Receiver!NoAnswer, Receiver!Refused
  <1>2. answer[k].kind = "working" => answer[k].task = "reserved"
    BY DEF Receiver!DedupInv, Receiver!ResponsesOfOwner
  <1> QED BY <1>1, <1>2 DEF TaskIn, TaskNames

\* Every step of the composition is one of the outbox or leaves it alone.
LEMMA NextIsSenderStep ==
    ASSUME DeliveryInv, [Next]_vars
    PROVE  [Sender!OutNext]_senderVars
  <1>1. CASE \E k \in Requests : Transmit(k)
    BY <1>1 DEF Transmit, Sender!OutNext, Sender!WorkerStep, Sender!AttemptEnds
  <1>2. CASE \E k \in Requests : Answered(k)
    <2>1. PICK k \in Requests : Answered(k)
      BY <1>2
    <2>2. Sender!Failed \/ \E t \in TaskNames : Sender!Accepted(t)
      BY <2>1, AnswerFacts DEF Answered, DeliveryInv
    <2> QED BY <2>2 DEF Sender!OutNext, Sender!WorkerStep, Sender!AttemptEnds
  <1>3. CASE ConnectionLost
    BY <1>3 DEF ConnectionLost, Sender!OutNext, Sender!WorkerStep, Sender!AttemptEnds
  <1>4. CASE SenderStep
    BY <1>4 DEF SenderStep, Sender!OutNext, Sender!WorkerStep, Sender!AttemptEnds
  <1>5. CASE SenderRestart
    BY <1>5 DEF SenderRestart, Sender!OutNext
  <1>6. CASE (\E k \in Requests : Arrive(k)) \/ ReceiverStep \/ UNCHANGED vars
    BY <1>6 DEF Arrive, ReceiverStep, vars
  <1> QED BY <1>1, <1>2, <1>3, <1>4, <1>5, <1>6 DEF Next

\* Every step of the composition is one of the gateway or leaves it alone.
LEMMA NextIsReceiverStep ==
    ASSUME DeliveryInv, [Next]_vars
    PROVE  [Receiver!GateNext]_receiverVars
  <1>1. CASE \E k \in Requests : Arrive(k)
    <2>1. PICK k \in Requests : Arrive(k)
      BY <1>1
    <2>2. carried[k] \in Receiver!IDs
      BY <2>1 DEF Arrive, DeliveryInv, WireTypeOK, Receiver!IDs
    <2> QED BY <2>1, <2>2 DEF Arrive, Receiver!GateNext
  <1>2. CASE ReceiverStep
    BY <1>2 DEF ReceiverStep, Receiver!GateNext
  <1>3. CASE \/ \E k \in Requests : Transmit(k) \/ Answered(k)
             \/ ConnectionLost \/ SenderStep \/ SenderRestart \/ UNCHANGED vars
    BY <1>3 DEF Transmit, Answered, ConnectionLost, SenderStep, SenderRestart, vars
  <1> QED BY <1>1, <1>2, <1>3 DEF Next

-----------------------------------------------------------------------------
(* What the steps of one side mean for the other *)

\* A row of the outbox never disappears.
LEMMA RowsStay ==
    ASSUME Sender!OutboxInv, [Sender!OutNext]_senderVars, NEW m \in Messages,
           outbox[m] # "absent"
    PROVE  outbox'[m] # "absent"
  <1>1. CASE \E n \in Messages : Sender!SendCheck(n) \/ Sender!Enqueue(n)
                               \/ Sender!CancelRead(n) \/ Sender!CancelWrite(n)
    BY <1>1 DEF Sender!SendCheck, Sender!Enqueue, Sender!CancelRead, Sender!CancelWrite,
                Sender!OutboxInv, Sender!OutTypeOK
  <1>2. CASE Sender!RevokeOutbox
    BY <1>2 DEF Sender!RevokeOutbox
  <1>3. CASE Sender!MarkDelivered
    BY <1>3 DEF Sender!MarkDelivered, Sender!OutboxInv, Sender!OutTypeOK
  <1>4. CASE outbox' = outbox
    BY <1>4
  <1> QED
    BY <1>1, <1>2, <1>3, <1>4
       DEF Sender!OutNext, Sender!WorkerStep, Sender!AttemptEnds, senderVars, Sender!BecomeDue, Sender!CancelTask,
           Sender!RevokeContact, Sender!PairAgain, Sender!ListDue, Sender!Resolve,
           Sender!Connect, Sender!Accepted, Sender!Failed, Sender!ScheduleRetry,
           Sender!Abort, Sender!OutRestart

\* What was executed stays executed.
LEMMA ExecutedStays ==
    ASSUME Receiver!DedupInv, [Receiver!GateNext]_receiverVars, NEW m \in Messages
    PROVE  executed[m] \subseteq executed'[m]
  <1>1. CASE \E k \in Requests : Receiver!Forward(k)
    BY <1>1 DEF Receiver!Forward, Receiver!DedupInv, Receiver!GateTypeOK
  <1>2. CASE executed' = executed
    BY <1>2
  <1> QED
    BY <1>1, <1>2
       DEF Receiver!GateNext, Receiver!Step, receiverVars, Receiver!Receive, Receiver!Lookup,
           Receiver!Reserve, Receiver!RecordInbox, Receiver!AgentReplies, Receiver!Complete,
           Receiver!Disconnect, Receiver!Restart, Receiver!SetPaired

\* While the worker waits for an answer it keeps its message and its place.
LEMMA WaitingIsKept ==
    ASSUME SenderStep, worker.pc = "wait"
    PROVE  worker' = worker
  BY DEF SenderStep, Sender!SendCheck, Sender!Enqueue, Sender!CancelRead, Sender!CancelWrite,
         Sender!BecomeDue, Sender!Resolve, Sender!CancelTask, Sender!RevokeContact,
         Sender!RevokeOutbox, Sender!PairAgain, Sender!ListDue, Sender!ScheduleRetry,
         Sender!MarkDelivered, Sender!Abort

\* A request inside the gateway stays there with its message, and a 202 answer
\* names the owner of the record it was read from.
LEMMA ServedFacts ==
    ASSUME Receiver!DedupInv, ReceiverStep, NEW k \in Requests
    PROVE  /\ msg' = msg
           /\ pc'[k] # "idle" => pc[k] # "idle"
           /\ answer'[k].kind = "working" =>
                 \/ answer'[k] = answer[k]
                 \/ /\ records[msg[k]] # Receiver!NoRecord /\ records' = records
                    /\ answer'[k].from = records[msg[k]].by
  <1> USE DEF Receiver!DedupInv
  <1>1. CASE \E j \in Requests : Receiver!Lookup(j)
    <2>1. PICK j \in Requests : Receiver!Lookup(j)
      BY <1>1
    <2>2. UNCHANGED <<msg, records>> /\ pc[j] # "idle"
      BY <2>1 DEF Receiver!Lookup
    <2>3. CASE Receiver!Continue(j, "reserve")
      BY <2>2, <2>3 DEF Receiver!Continue, Receiver!GateTypeOK
    <2>4. CASE ~Receiver!Continue(j, "reserve")
      <3>1. PICK a : /\ records[msg[j]] # Receiver!NoRecord /\ a.from = records[msg[j]].by
                     /\ Receiver!Respond(j, a)
        BY <2>1, <2>4 DEF Receiver!Lookup, Receiver!Response, Receiver!Working
      <3> QED BY <2>2, <3>1 DEF Receiver!Respond, Receiver!GateTypeOK
    <2> QED BY <2>3, <2>4
  <1>2. CASE \E j \in Requests : Receiver!Reserve(j) \/ Receiver!RecordInbox(j)
    BY <1>2 DEF Receiver!Reserve, Receiver!RecordInbox, Receiver!Continue, Receiver!Respond,
                Receiver!Refused, Receiver!GateTypeOK
  <1>3. CASE \E j \in Requests : \/ Receiver!Forward(j)
                                 \/ \E r \in Receiver!Outcomes : Receiver!AgentReplies(j, r)
    BY <1>3 DEF Receiver!Forward, Receiver!AgentReplies, Receiver!Continue, Receiver!GateTypeOK
  <1>4. CASE \E j \in Requests : Receiver!Complete(j)
    <2>1. PICK j \in Requests : Receiver!Complete(j)
      BY <1>4
    <2>2. msg' = msg /\ pc[j] = "complete"
          /\ Receiver!Respond(j, Receiver!Response(outcome[j], j))
      BY <2>1 DEF Receiver!Complete
    <2>3. outcome[j] # "working"
      BY <2>2 DEF Receiver!RequestsInOrder, Receiver!Outcomes, Receiver!Replayed
    <2> QED BY <2>2, <2>3 DEF Receiver!Respond, Receiver!Response, Receiver!GateTypeOK
  <1>5. CASE \/ \E j \in Requests : Receiver!Disconnect(j)
             \/ \E on \in BOOLEAN : Receiver!SetPaired(on)
    BY <1>5 DEF Receiver!Disconnect, Receiver!SetPaired
  <1>6. CASE Receiver!Restart
    BY <1>6 DEF Receiver!Restart, Receiver!Running, Receiver!Owning, Receiver!GateTypeOK
  <1> QED BY <1>1, <1>2, <1>3, <1>4, <1>5, <1>6 DEF ReceiverStep, Receiver!Step

-----------------------------------------------------------------------------
(* The invariant of the composition is inductive: one lemma per part *)

\* A request that is on its way or inside the gateway carries a queued message.
LEMMA CarriedStep ==
    ASSUME DeliveryInv, [Next]_vars
    PROVE  WireTypeOK' /\ RequestsCarryQueued'
  <1> USE DEF DeliveryInv, WireTypeOK, RequestsCarryQueued
  <1>1. \A m \in Messages : outbox[m] # "absent" => outbox'[m] # "absent"
    BY NextIsSenderStep, RowsStay
  <1>2. CASE \E k \in Requests : Transmit(k)
    <2>1. PICK k \in Requests : Transmit(k)
      BY <1>2
    <2>2. /\ worker.message \in Messages /\ outbox[worker.message] # "absent"
          /\ worker'.pc = "wait" /\ worker'.message = worker.message
      BY <2>1 DEF Transmit, Sender!Connect, Sender!OutboxInv, Sender!WorkIsQueued,
                  Sender!OutTypeOK
    <2>3. /\ carried' = [carried EXCEPT ![k] = worker.message] /\ current' = k
          /\ carried[k] = NoMessage /\ pc' = pc /\ msg' = msg /\ outbox' = outbox
      BY <2>1 DEF Transmit, receiverVars, Sender!Connect
    <2> QED BY <2>2, <2>3
  <1>3. CASE \E k \in Requests : Arrive(k)
    <2>1. PICK k \in Requests : Arrive(k)
      BY <1>3
    <2>2. /\ msg' = [msg EXCEPT ![k] = carried[k]] /\ carried[k] # NoMessage
          /\ UNCHANGED <<outbox, worker, carried, current>>
      BY <2>1 DEF Arrive, Receiver!Receive, senderVars, wire
    <2>3. msg \in [Requests -> Receiver!IDs] /\ pc \in [Requests -> Receiver!Places]
      BY DEF Receiver!DedupInv, Receiver!GateTypeOK
    <2>4. \A j \in Requests : j # k => pc'[j] = pc[j]
      BY <2>1, <2>3 DEF Arrive, Receiver!Receive, Receiver!Continue, Receiver!Respond
    <2> QED BY <2>2, <2>3, <2>4
  <1>4. CASE ReceiverStep
    BY <1>4, ServedFacts DEF ReceiverStep, senderVars, wire
  <1>5. CASE SenderStep
    <2>1. UNCHANGED <<pc, msg, carried, current>>
      BY <1>5 DEF SenderStep, receiverVars, wire
    <2> QED BY <1>1, <1>5, <2>1, WaitingIsKept
  <1>6. CASE (\E k \in Requests : Answered(k)) \/ ConnectionLost \/ SenderRestart
    <2>1. UNCHANGED <<pc, msg, carried>> /\ current' = NoRequest
      BY <1>6 DEF Answered, ConnectionLost, SenderRestart, receiverVars
    <2> QED BY <1>1, <2>1
  <1>7. CASE UNCHANGED vars
    BY <1>7 DEF vars, senderVars, receiverVars, wire
  <1> QED BY <1>2, <1>3, <1>4, <1>5, <1>6, <1>7 DEF Next

\* The owner a 202 answer names stays the owner.
LEMMA WorkingStep ==
    ASSUME DeliveryInv, [Next]_vars
    PROVE  WorkingNamesOwner'
  <1> USE DEF DeliveryInv
  <1> SUFFICES ASSUME NEW k \in Requests, answer'[k].kind = "working"
               PROVE  records'[msg'[k]].by = answer'[k].from
    BY DEF WorkingNamesOwner
  <1>1. \A m \in Messages : records[m] # Receiver!NoRecord => records'[m].by = records[m].by
    BY NextIsReceiverStep, ReceiverInductive
  <1>2. ASSUME answer'[k] = answer[k], msg'[k] = msg[k]
        PROVE  records'[msg'[k]].by = answer'[k].from
    <2>1. records[msg[k]].by = answer[k].from
      BY <1>2 DEF WorkingNamesOwner
    <2>2. answer[k].from \in Requests /\ pc[k] = "done"
      BY <1>2, AnswerFacts
    <2>3. msg[k] \in Messages
      BY <2>2 DEF RequestsCarryQueued, WireTypeOK
    <2>4. records[msg[k]] # Receiver!NoRecord
      BY <2>1, <2>2 DEF Receiver!NoRecord
    <2> QED BY <1>1, <1>2, <2>1, <2>3, <2>4
  <1>3. CASE \E j \in Requests : Arrive(j)
    <2>1. PICK j \in Requests : Arrive(j)
      BY <1>3
    <2>2. answer[j] = Receiver!NoAnswer
      BY <2>1 DEF Arrive, Receiver!Receive, Receiver!DedupInv, Receiver!RequestsInOrder
    <2>3. /\ answer' = answer \/ answer' = [answer EXCEPT ![j] = Receiver!Refused]
          /\ msg' = [msg EXCEPT ![j] = carried[j]]
      BY <2>1 DEF Arrive, Receiver!Receive, Receiver!Continue, Receiver!Respond
    <2>4. k # j
      BY <2>2, <2>3 DEF Receiver!NoAnswer, Receiver!Refused, Receiver!DedupInv,
                        Receiver!GateTypeOK
    <2>5. answer'[k] = answer[k] /\ msg'[k] = msg[k]
      BY <2>3, <2>4 DEF Receiver!DedupInv, Receiver!GateTypeOK
    <2> QED BY <1>2, <2>5
  <1>4. CASE ReceiverStep
    <2>1. CASE answer'[k] = answer[k]
      BY <1>2, <1>4, <2>1, ServedFacts
    <2>2. CASE answer'[k] # answer[k]
      BY <1>4, <2>2, ServedFacts
    <2> QED BY <2>1, <2>2
  <1>5. CASE UNCHANGED receiverVars
    BY <1>2, <1>5 DEF receiverVars
  <1> QED
    BY <1>3, <1>4, <1>5 DEF Next, Transmit, Answered, ConnectionLost, SenderStep,
                            SenderRestart, vars

\* The answer the worker takes for a task names the owner of the record of its
\* message, and with a task of the agent the agent was handed the message.
LEMMA AcceptedAnswer ==
    ASSUME DeliveryInv, NEW k \in Requests, Answered(k), worker'.pc = "mark"
    PROVE  /\ worker'.message = worker.message /\ worker.message \in Messages
           /\ OwnersTask(worker.message, worker'.task)
  <1> USE DEF DeliveryInv
  <1>1. /\ current = k /\ pc[k] = "done" /\ k # NoRequest
        /\ worker.message = carried[k] /\ worker.pc = "wait"
        /\ msg[k] = worker.message /\ worker.message \in Messages
    BY DEF Answered, RequestsCarryQueued, WireTypeOK
  <1>2. ~Sender!Failed
    BY DEF Sender!Failed, Sender!OutboxInv, Sender!OutTypeOK
  <1>3. /\ answer[k].kind = "task" \/ (answer[k].kind = "working" /\ AcceptsWorking)
        /\ Sender!Accepted(TaskIn(answer[k]))
    BY <1>2 DEF Answered
  <1>4. worker'.message = worker.message /\ worker'.task = TaskIn(answer[k])
    BY <1>3 DEF Sender!Accepted, Sender!OutboxInv, Sender!OutTypeOK
  <1>5. msg[k] # NoMessageID
    BY <1>1
  <1>6. CASE answer[k].kind = "task"
    <2>1. /\ records[msg[k]].by = answer[k].from
          /\ outcome[answer[k].from] = "task" /\ answer[k].from \in Requests
      BY <1>5, <1>6, AnswerFacts DEF Receiver!DedupInv, Receiver!ResponsesOfOwner,
                                     Receiver!Outcomes, Receiver!Replayed
    <2>2. msg[answer[k].from] = msg[k]
      BY <1>1, <2>1 DEF Receiver!DedupInv, Receiver!RequestsInOrder
    <2>3. answer[k].from \in executed[msg[k]]
      BY <1>5, <2>1, <2>2 DEF Receiver!DedupInv, Receiver!ResponsesOfOwner
    <2> QED BY <1>1, <1>4, <1>6, <2>1, <2>3 DEF TaskIn, OwnersTask
  <1>7. CASE answer[k].kind = "working" /\ AcceptsWorking
    <2>1. answer[k].task = "reserved"
      BY <1>7, AnswerFacts
    <2> QED BY <1>1, <1>4, <1>7, <2>1 DEF WorkingNamesOwner, TaskIn, OwnersTask
  <1> QED BY <1>3, <1>6, <1>7

\* The worker comes to record a task only by an answer.
LEMMA MarkFacts ==
    ASSUME DeliveryInv, [Next]_vars, worker'.pc = "mark"
    PROVE  worker' = worker \/ \E k \in Requests : Answered(k)
  <1> USE DEF DeliveryInv, Sender!OutboxInv, Sender!OutTypeOK
  <1>1. CASE \E k \in Requests : Transmit(k)
    BY <1>1 DEF Transmit, Sender!Connect
  <1>2. CASE ConnectionLost
    BY <1>2 DEF ConnectionLost, Sender!Failed
  <1>3. CASE SenderRestart
    BY <1>3 DEF SenderRestart, Sender!OutRestart, Sender!Idle
  <1>4. CASE SenderStep
    <2>1. ASSUME Sender!GoOn PROVE FALSE
      <3>1. CASE worker.batch = {}
        BY <2>1, <3>1 DEF Sender!GoOn, Sender!Idle
      <3>2. CASE worker.batch # {}
        BY <2>1, <3>2 DEF Sender!GoOn
      <3> QED BY <3>1, <3>2
    <2>2. ~Sender!Abort /\ ~Sender!ScheduleRetry /\ ~Sender!MarkDelivered
      BY <2>1 DEF Sender!Abort, Sender!ScheduleRetry, Sender!MarkDelivered, Sender!Idle
    <2>3. ~\E batch \in SUBSET Messages : Sender!ListDue(batch)
      BY DEF Sender!ListDue, Sender!Idle
    <2>4. ~\E m \in Messages : Sender!Resolve(m)
      BY DEF Sender!Resolve
    <2> QED
      BY <1>4, <2>2, <2>3, <2>4
         DEF SenderStep, Sender!SendCheck, Sender!Enqueue, Sender!CancelRead,
             Sender!CancelWrite, Sender!BecomeDue, Sender!CancelTask, Sender!RevokeContact,
             Sender!RevokeOutbox, Sender!PairAgain
  <1>5. CASE (\E k \in Requests : Arrive(k)) \/ ReceiverStep \/ UNCHANGED vars
    BY <1>5 DEF Arrive, ReceiverStep, vars, senderVars
  <1> QED BY <1>1, <1>2, <1>3, <1>4, <1>5 DEF Next

\* A message comes to be delivered, with its receipt, only by the worker's record.
LEMMA ReceiptFacts ==
    ASSUME Sender!OutboxInv, [Sender!OutNext]_senderVars, NEW m \in Messages
    PROVE  \/ /\ receipts'[m] = receipts[m]
              /\ outbox'[m] = "delivered" => outbox[m] = "delivered"
           \/ worker.pc = "mark" /\ worker.message = m /\ receipts'[m] = worker.task
  <1> USE DEF Sender!OutboxInv, Sender!OutTypeOK
  <1>1. CASE Sender!MarkDelivered
    BY <1>1 DEF Sender!MarkDelivered
  <1>2. CASE \E n \in Messages : \/ Sender!SendCheck(n) \/ Sender!Enqueue(n)
                                 \/ Sender!CancelRead(n) \/ Sender!CancelWrite(n)
    BY <1>2 DEF Sender!SendCheck, Sender!Enqueue, Sender!CancelRead, Sender!CancelWrite
  <1>3. CASE Sender!RevokeOutbox
    BY <1>3 DEF Sender!RevokeOutbox
  <1>4. CASE UNCHANGED <<outbox, receipts>>
    BY <1>4
  <1> QED
    BY <1>1, <1>2, <1>3, <1>4
       DEF Sender!OutNext, Sender!WorkerStep, Sender!AttemptEnds, senderVars, Sender!BecomeDue, Sender!CancelTask,
           Sender!RevokeContact, Sender!PairAgain, Sender!ListDue, Sender!Resolve,
           Sender!Connect, Sender!Accepted, Sender!Failed, Sender!ScheduleRetry,
           Sender!Abort, Sender!OutRestart

\* What the worker holds and what it recorded stays the owner's.
LEMMA ReportedStep ==
    ASSUME DeliveryInv, [Next]_vars
    PROVE  ReportedIsOwned' /\ ReceiptNamesOwner'
  <1> USE DEF DeliveryInv
  <1>1. \A m \in Messages : records[m] # Receiver!NoRecord => records'[m].by = records[m].by
    BY NextIsReceiverStep, ReceiverInductive
  <1>2. \A m \in Messages : executed[m] \subseteq executed'[m]
    BY NextIsReceiverStep, ExecutedStays
  <1>3. ASSUME NEW m \in Messages, NEW t \in TaskNames, OwnersTask(m, t)
        PROVE  OwnersTask(m, t)'
    <2>1. t.of \in Requests /\ records[m].by = t.of
      BY <1>3 DEF TaskNames, OwnersTask
    <2>2. records[m] # Receiver!NoRecord
      BY <2>1 DEF Receiver!NoRecord
    <2> QED BY <1>1, <1>2, <1>3, <2>2 DEF OwnersTask
  <1>4. ASSUME worker.pc = "mark"
        PROVE  /\ worker.message \in Messages /\ worker.task \in TaskNames
               /\ worker.task # NoRequest /\ OwnersTask(worker.message, worker.task)
    BY <1>4 DEF Sender!OutboxInv, Sender!OutTypeOK, Sender!WorkIsQueued, ReportedIsOwned
  <1>5. ASSUME worker'.pc = "mark"
        PROVE  OwnersTask(worker.message, worker.task)'
    <2>1. CASE worker' = worker
      <3>1. worker.pc = "mark"
        BY <1>5, <2>1
      <3>2. OwnersTask(worker.message, worker.task)'
        BY <1>1, <1>2, <1>3, <1>4, <2>1, <3>1 DEF OwnersTask, TaskNames, Receiver!NoRecord
      <3> QED BY <3>2
    <2>2. CASE \E k \in Requests : Answered(k)
      <3>1. PICK k \in Requests : Answered(k)
        BY <2>2
      <3>2. UNCHANGED <<records, executed>>
        BY <3>1 DEF Answered, receiverVars
      <3> QED BY <1>5, <3>1, <3>2, AcceptedAnswer DEF OwnersTask
    <2> QED BY <1>5, <2>1, <2>2, MarkFacts
  <1>6. ASSUME NEW m \in Messages, receipts'[m] # NoRequest
        PROVE  OwnersTask(m, receipts[m])'
    <2>1. CASE worker.pc = "mark" /\ worker.message = m /\ receipts'[m] = worker.task
      <3>1. OwnersTask(m, worker.task) /\ worker.task \in TaskNames
        BY <1>4, <2>1
      <3>2. PICK t \in TaskNames : t = worker.task /\ OwnersTask(m, t)
        BY <3>1
      <3>3. OwnersTask(m, t)'
        BY <1>3, <3>2
      <3> QED BY <2>1, <3>2, <3>3 DEF OwnersTask
    <2>2. CASE receipts'[m] = receipts[m]
      <3>1. PICK t \in TaskNames : t = receipts[m] /\ OwnersTask(m, t)
        BY <1>6, <2>2 DEF Sender!OutboxInv, Sender!OutTypeOK, ReceiptNamesOwner
      <3>2. OwnersTask(m, t)'
        BY <1>3, <3>1
      <3> QED BY <2>2, <3>1, <3>2 DEF OwnersTask
    <2> QED BY <2>1, <2>2, NextIsSenderStep, ReceiptFacts
  <1> QED BY <1>5, <1>6 DEF ReportedIsOwned, ReceiptNamesOwner

\* DeliveryInv holds at the start: nothing was sent.
LEMMA DeliveryInit ==
    ASSUME Init
    PROVE  DeliveryInv
  <1>1. Sender!OutboxInv
    BY SameOutboxInv, Out!OutboxInit DEF Init
  <1>2. Receiver!DedupInv
    BY SameDedupInv, Gate!DedupInit DEF Init
  <1>3. WireTypeOK /\ RequestsCarryQueued
    BY DEF Init, WireTypeOK, RequestsCarryQueued, Receiver!GateInit
  <1>4. WorkingNamesOwner
    BY DEF Init, WorkingNamesOwner, Receiver!GateInit, Receiver!NoAnswer
  <1>5. ReportedIsOwned /\ ReceiptNamesOwner
    BY DEF Init, ReportedIsOwned, ReceiptNamesOwner, Sender!OutInit, Sender!Idle
  <1> QED BY <1>1, <1>2, <1>3, <1>4, <1>5 DEF DeliveryInv

\* Every step of either side and of the wire preserves DeliveryInv.
LEMMA DeliveryInductive ==
    ASSUME DeliveryInv, [Next]_vars
    PROVE  DeliveryInv'
  <1>1. Sender!OutboxInv'
    BY NextIsSenderStep, SenderInductive DEF DeliveryInv
  <1>2. Receiver!DedupInv'
    BY NextIsReceiverStep, ReceiverInductive DEF DeliveryInv
  <1> QED BY <1>1, <1>2, CarriedStep, WorkingStep, ReportedStep DEF DeliveryInv

-----------------------------------------------------------------------------
(* Every step is a step of Exchange, or changes nothing Exchange speaks of *)

\* How often the agent was handed a message, as Exchange counts it.
Handed == [m \in Messages |-> Cardinality(executed[m])]

\* The agent was handed a message never or once.
LEMMA HandedFacts ==
    ASSUME DeliveryInv, NEW m \in Messages
    PROVE  /\ executed[m] = {} => Handed[m] = 0
           /\ executed[m] # {} => Handed[m] = 1
  <1>1. Handed[m] = Cardinality(executed[m])
    BY DEF Handed
  <1>2. CASE executed[m] = {}
    BY <1>1, <1>2, FS_EmptySet
  <1>3. CASE executed[m] # {}
    <2>1. PICK k \in executed[m] : TRUE
      BY <1>3
    <2>2. executed[m] = {k}
      BY <2>1 DEF DeliveryInv, Receiver!DedupInv, Receiver!ExecutedByOwner
    <2> QED BY <1>1, <1>3, <2>2, FS_Singleton
  <1> QED BY <1>2, <1>3

\* Forwarding a request hands over a message that was queued and not yet handed.
LEMMA ForwardHands ==
    ASSUME DeliveryInv, NEW k \in Requests, Receiver!Forward(k), UNCHANGED outbox
    PROVE  Handed' = Handed \/ \E m \in Messages : Promise!Hand(m)
  <1> USE DEF DeliveryInv
  <1>1. CASE executed' = executed
    BY <1>1 DEF Handed
  <1>2. CASE /\ msg[k] # NoMessageID
             /\ executed' = [executed EXCEPT ![msg[k]] = @ \cup {k}]
    <2>1. pc[k] = "forward"
      BY DEF Receiver!Forward
    <2>2. msg[k] \in Messages /\ outbox[msg[k]] # "absent"
      BY <2>1 DEF RequestsCarryQueued, WireTypeOK
    <2>3. executed[msg[k]] = {}
      BY <1>2, <2>1 DEF Receiver!DedupInv, Receiver!OwnersHoldRecord, Receiver!Owning
    <2>4. /\ executed'[msg[k]] = {k}
          /\ \A m \in Messages : m # msg[k] => executed'[m] = executed[m]
      BY <1>2, <2>2, <2>3 DEF Receiver!DedupInv, Receiver!GateTypeOK
    <2>5. Cardinality(executed'[msg[k]]) = 1
      BY <2>4, FS_Singleton
    <2>6. Handed' = [Handed EXCEPT ![msg[k]] = 1]
      BY <2>2, <2>4, <2>5 DEF Handed
    <2>7. Handed[msg[k]] = 0
      BY <2>2, <2>3, HandedFacts
    <2>8. Promise!Hand(msg[k])
      BY <2>2, <2>6, <2>7 DEF Promise!Hand, Handed
    <2> QED BY <2>2, <2>8
  <1> QED BY <1>1, <1>2 DEF Receiver!Forward

\* A step of the receiving side hands over a message or is not visible.
LEMMA ReceiverSimulates ==
    ASSUME DeliveryInv, (\E k \in Requests : Arrive(k)) \/ ReceiverStep
    PROVE  [Promise!ExchangeNext]_(Promise!exchangeVars)
  <1>1. UNCHANGED outbox
    BY DEF Arrive, ReceiverStep, senderVars
  <1>2. CASE \E k \in Requests : Receiver!Forward(k)
    BY <1>1, <1>2, ForwardHands DEF Promise!ExchangeNext, Promise!exchangeVars, Handed
  <1>3. CASE executed' = executed
    BY <1>1, <1>3 DEF Promise!exchangeVars
  <1> QED
    BY <1>2, <1>3
       DEF Arrive, ReceiverStep, Receiver!Step, Receiver!Receive, Receiver!Lookup,
           Receiver!Reserve, Receiver!RecordInbox, Receiver!AgentReplies, Receiver!Complete,
           Receiver!Disconnect, Receiver!Restart, Receiver!SetPaired

\* A step of the sending side submits, withdraws or confirms, or is not visible.
\* What it confirms was handed over: here the rejected 202 bodies matter.
LEMMA SenderSimulates ==
    ASSUME ~AcceptsWorking, DeliveryInv, [Sender!OutNext]_senderVars, UNCHANGED executed
    PROVE  [Promise!ExchangeNext]_(Promise!exchangeVars)
  <1> USE DEF DeliveryInv, Sender!OutboxInv, Sender!OutTypeOK
  <1>1. Handed' = Handed
    BY DEF Handed
  <1>2. CASE outbox' = outbox
    BY <1>2 DEF Promise!exchangeVars
  <1>3. ASSUME NEW m \in Messages, Sender!Enqueue(m), outbox' # outbox
        PROVE  Promise!Submit(m)
    BY <1>3 DEF Sender!Enqueue, Promise!Submit
  <1>4. ASSUME NEW m \in Messages, Sender!CancelWrite(m), outbox' # outbox
        PROVE  Promise!Withdraw({m})
    BY <1>4 DEF Sender!CancelWrite, Promise!Withdraw
  <1>5. ASSUME Sender!RevokeOutbox
        PROVE  Promise!Withdraw({m \in Messages : outbox[m] = "pending"})
    BY <1>5 DEF Sender!RevokeOutbox, Promise!Withdraw
  <1>6. ASSUME Sender!MarkDelivered, outbox' # outbox
        PROVE  worker.message \in Messages /\ Promise!Confirm(worker.message)
    <2>1. /\ worker.pc = "mark" /\ worker.message \in Messages
          /\ outbox[worker.message] = "pending"
          /\ outbox' = [outbox EXCEPT ![worker.message] = "delivered"]
      BY <1>6 DEF Sender!MarkDelivered, Sender!WorkIsQueued
    <2>2. executed[worker.message] # {}
      BY <2>1 DEF ReportedIsOwned, OwnersTask
    <2>3. Handed[worker.message] = 1
      BY <2>1, <2>2, HandedFacts
    <2> QED BY <2>1, <2>3 DEF Promise!Confirm, Handed
  <1>7. CASE outbox' # outbox
    <2>1. \/ \E m \in Messages : Sender!Enqueue(m) \/ Sender!CancelWrite(m)
          \/ Sender!RevokeOutbox \/ Sender!MarkDelivered
      BY <1>7
         DEF Sender!OutNext, Sender!WorkerStep, Sender!AttemptEnds, senderVars, Sender!SendCheck,
             Sender!CancelRead, Sender!BecomeDue, Sender!CancelTask, Sender!RevokeContact,
             Sender!PairAgain, Sender!ListDue, Sender!Resolve, Sender!Connect,
             Sender!Accepted, Sender!Failed, Sender!ScheduleRetry, Sender!Abort,
             Sender!OutRestart
    <2>2. \A m \in Messages : {m} \in SUBSET Messages
      OBVIOUS
    <2>3. {m \in Messages : outbox[m] = "pending"} \in SUBSET Messages
      OBVIOUS
    <2> QED BY <1>3, <1>4, <1>5, <1>6, <1>7, <2>1, <2>2, <2>3 DEF Promise!ExchangeNext
  <1> QED BY <1>2, <1>7

-----------------------------------------------------------------------------
(* A message that is settled *)

\* What was executed was carried by a request.
LEMMA ExecutedWasCarried ==
    ASSUME DeliveryInv, NEW m \in Messages, NEW k \in executed[m]
    PROVE  k \in Requests /\ carried[k] = m
  <1>1. k \in Requests
    BY DEF DeliveryInv, Receiver!DedupInv, Receiver!GateTypeOK
  <1>2. msg[k] = m /\ pc[k] # "idle"
    BY DEF DeliveryInv, Receiver!DedupInv, Receiver!ExecutedByOwner
  <1> QED BY <1>1, <1>2 DEF DeliveryInv, RequestsCarryQueued

\* A final state stays, whatever the sending side does.
LEMMA FinalStays ==
    ASSUME Sender!OutboxInv, [Sender!OutNext]_senderVars, NEW m \in Messages,
           outbox[m] \in {"delivered", "cancelled"}
    PROVE  outbox'[m] = outbox[m]
  <1> USE DEF Sender!OutboxInv, Sender!OutTypeOK
  <1>1. CASE \E n \in Messages : \/ Sender!SendCheck(n) \/ Sender!Enqueue(n)
                                 \/ Sender!CancelRead(n) \/ Sender!CancelWrite(n)
    BY <1>1 DEF Sender!SendCheck, Sender!Enqueue, Sender!CancelRead, Sender!CancelWrite
  <1>2. CASE Sender!RevokeOutbox
    BY <1>2 DEF Sender!RevokeOutbox
  <1>3. CASE Sender!MarkDelivered
    BY <1>3 DEF Sender!MarkDelivered
  <1>4. CASE outbox' = outbox
    BY <1>4
  <1> QED
    BY <1>1, <1>2, <1>3, <1>4
       DEF Sender!OutNext, Sender!WorkerStep, Sender!AttemptEnds, senderVars, Sender!BecomeDue, Sender!CancelTask,
           Sender!RevokeContact, Sender!PairAgain, Sender!ListDue, Sender!Resolve,
           Sender!Connect, Sender!Accepted, Sender!Failed, Sender!ScheduleRetry,
           Sender!Abort, Sender!OutRestart

\* The worker takes up only what is pending when it lists the queue.
LEMMA WorkerTakesPending ==
    ASSUME Sender!OutboxInv, [Sender!OutNext]_senderVars, NEW m \in Messages,
           outbox[m] # "pending", m \notin worker.batch, worker.message # m
    PROVE  m \notin worker'.batch /\ worker'.message # m
  <1> USE DEF Sender!OutboxInv, Sender!OutTypeOK
  <1>1. CASE worker' = worker
    BY <1>1
  <1>2. CASE worker' = Sender!Idle
    BY <1>2 DEF Sender!Idle
  <1>3. CASE Sender!GoOn
    <2>1. CASE worker.batch = {}
      BY <1>2, <1>3, <2>1 DEF Sender!GoOn
    <2>2. CASE worker.batch # {}
      BY <1>3, <2>2 DEF Sender!GoOn
    <2> QED BY <2>1, <2>2
  <1>4. CASE \E batch \in SUBSET Messages : Sender!ListDue(batch)
    <2>1. PICK batch \in SUBSET Messages : Sender!ListDue(batch)
      BY <1>4
    <2>2. m \notin batch
      BY <2>1 DEF Sender!ListDue, Sender!Due
    <2>3. worker'.batch = batch /\ worker'.message = NoMessage
      BY <2>1 DEF Sender!ListDue, Sender!Idle
    <2> QED BY <2>2, <2>3
  <1>5. CASE \E n \in Messages : Sender!Resolve(n)
    <2>1. PICK n \in Messages : Sender!Resolve(n)
      BY <1>5
    <2>2. n \in worker.batch
      BY <2>1 DEF Sender!Resolve
    <2>3. worker'.batch = worker.batch \ {n} /\ worker'.message = n
      BY <2>1 DEF Sender!Resolve
    <2> QED BY <2>2, <2>3
  <1>6. CASE Sender!Connect \/ Sender!Failed \/ \E t \in TaskNames : Sender!Accepted(t)
    BY <1>6 DEF Sender!Connect, Sender!Failed, Sender!Accepted
  <1> QED
    BY <1>1, <1>2, <1>3, <1>4, <1>5, <1>6
       DEF Sender!OutNext, Sender!WorkerStep, Sender!AttemptEnds, senderVars, Sender!SendCheck, Sender!Enqueue,
           Sender!CancelRead, Sender!CancelWrite, Sender!BecomeDue, Sender!CancelTask,
           Sender!RevokeContact, Sender!RevokeOutbox, Sender!PairAgain,
           Sender!ScheduleRetry, Sender!MarkDelivered, Sender!Abort, Sender!OutRestart

\* A request starts only for the message the worker works on.
LEMMA CarriedByWorker ==
    ASSUME DeliveryInv, [Next]_vars, NEW k \in Requests, NEW m \in Messages,
           carried'[k] = m
    PROVE  carried[k] = m \/ worker.message = m
  <1>1. CASE \E j \in Requests : Transmit(j)
    BY <1>1 DEF Transmit, DeliveryInv, WireTypeOK
  <1>2. CASE carried' = carried
    BY <1>2
  <1> QED
    BY <1>1, <1>2 DEF Next, Arrive, Answered, ConnectionLost, SenderStep, SenderRestart,
                      ReceiverStep, vars, wire

-----------------------------------------------------------------------------
(* The theorems *)

\* DeliveryInv holds throughout, for any number of messages and attempts,
\* whether or not the client accepts the body of a 202 answer.
THEOREM DeliveryInvariant == Spec => []DeliveryInv
  <1> QED BY DeliveryInit, DeliveryInductive, PTL DEF Spec

\* The receipt of a delivered message names what the agent created for the request
\* that owns the record of the receiving side, or, if 202 bodies count as tasks, that
\* request's reservation, whichever attempt was answered (MarkOutboxDelivered, the
\* replay and the 202 answer of serveA2AWithDedup).
THEOREM ReceiptsNameOwners == Spec => []ReceiptNamesOwner
  <1>1. DeliveryInv => ReceiptNamesOwner
    BY DEF DeliveryInv
  <1> QED BY <1>1, DeliveryInvariant, PTL

\* The outbox, the wire and the gateway implement Exchange when the client rejects
\* the body of a 202 answer: the agent is handed a message at most once and only
\* after it was queued, and a message is shown as delivered only after that.
THEOREM PromiseIsKept ==
    ASSUME ~AcceptsWorking
    PROVE  Spec => KeepsPromise
  <1>1. Init => Promise!ExchangeInit
    BY FS_EmptySet DEF Init, Sender!OutInit, Receiver!GateInit, Promise!ExchangeInit
  <1>2. DeliveryInv /\ [Next]_vars => [Promise!ExchangeNext]_(Promise!exchangeVars)
    <2> SUFFICES ASSUME DeliveryInv, [Next]_vars
                 PROVE  [Promise!ExchangeNext]_(Promise!exchangeVars)
      OBVIOUS
    <2>1. CASE (\E k \in Requests : Arrive(k)) \/ ReceiverStep
      BY <2>1, ReceiverSimulates
    <2>2. CASE UNCHANGED receiverVars
      <3>1. UNCHANGED executed
        BY <2>2 DEF receiverVars
      <3> QED BY <3>1, NextIsSenderStep, SenderSimulates
    <2> QED
      BY <2>1, <2>2 DEF Next, Transmit, Answered, ConnectionLost, SenderStep,
                        SenderRestart, vars
  <1> QED BY <1>1, <1>2, DeliveryInvariant, PTL DEF Spec, KeepsPromise, Promise!ExchangeSpec

\* When 202 bodies are rejected, the agent was handed no message twice and none
\* that is not in the outbox, and each delivered one exactly once
\* (MarkOutboxDelivered, RecordScopedMessageOnce).
THEOREM DeliveredOnce ==
    ASSUME ~AcceptsWorking
    PROVE  Spec => []DeliveredIsHandedOnce
  <1>1. DeliveryInv => DeliveredIsHandedOnce
    <2> SUFFICES ASSUME DeliveryInv
                 PROVE  DeliveredIsHandedOnce
      OBVIOUS
    <2>1. outbox \in [Messages -> {"absent", "pending", "delivered", "cancelled"}]
      BY DEF DeliveryInv, Sender!OutboxInv, Sender!OutTypeOK, Sender!Final
    <2>2. Handed \in [Messages -> {0, 1}]
      <3>1. \A m \in Messages : Handed[m] \in {0, 1}
        BY HandedFacts
      <3> QED BY <3>1 DEF Handed
    <2>3. ASSUME NEW m \in Messages, Handed[m] = 1
          PROVE  outbox[m] # "absent"
      <3>1. PICK k \in executed[m] : TRUE
        BY <2>3, HandedFacts
      <3>2. k \in Requests /\ carried[k] = m
        BY <3>1, ExecutedWasCarried
      <3> QED BY <3>2 DEF DeliveryInv, RequestsCarryQueued
    <2>4. ASSUME NEW m \in Messages, outbox[m] = "delivered"
          PROVE  Handed[m] = 1
      <3>1. receipts[m] # NoRequest
        BY <2>4 DEF DeliveryInv, Sender!OutboxInv, Sender!DeliveredHasReceipt
      <3>2. executed[m] # {}
        BY <3>1 DEF DeliveryInv, ReceiptNamesOwner, OwnersTask
      <3> QED BY <3>2, HandedFacts
    <2> QED BY <2>1, <2>2, <2>3, <2>4 DEF DeliveredIsHandedOnce, Promise!ExchangeInv, Handed
  <1> QED BY <1>1, DeliveryInvariant, PTL

\* A message that is cancelled or delivered and that the worker does not hold is
\* never sent again, and if it was never sent the agent is never handed it: when
\* a cancel or a revocation wins for good (ProcessDue, ListDueOutbox).
THEOREM SettledStays == Spec => SettledIsNotSentAgain
  <1> DEFINE Kept == \A m \in Messages : LetGo(m) =>
                /\ LetGo(m)'
                /\ \A k \in Requests : carried'[k] = m => carried[k] = m
                /\ (\A k \in Requests : carried[k] # m) => executed'[m] = {}
  <1>1. DeliveryInv /\ [Next]_vars => Kept
    <2> SUFFICES ASSUME DeliveryInv, [Next]_vars, NEW m \in Messages, LetGo(m)
                 PROVE  /\ LetGo(m)'
                        /\ \A k \in Requests : carried'[k] = m => carried[k] = m
                        /\ (\A k \in Requests : carried[k] # m) => executed'[m] = {}
      OBVIOUS
    <2>1. LetGo(m)'
      <3>1. Sender!OutboxInv /\ [Sender!OutNext]_senderVars
        BY NextIsSenderStep DEF DeliveryInv
      <3>2. outbox'[m] = outbox[m]
        BY <3>1, FinalStays DEF LetGo
      <3>3. m \notin worker'.batch /\ worker'.message # m
        BY <3>1, WorkerTakesPending DEF LetGo
      <3> QED BY <3>2, <3>3 DEF LetGo
    <2>2. \A k \in Requests : carried'[k] = m => carried[k] = m
      BY CarriedByWorker DEF LetGo
    <2>3. ASSUME \A k \in Requests : carried[k] # m
          PROVE  executed'[m] = {}
      <3>1. DeliveryInv'
        BY DeliveryInductive
      <3>2. \A k \in executed'[m] : k \in Requests /\ msg'[k] = m /\ pc'[k] # "idle"
        BY <3>1 DEF DeliveryInv, Receiver!DedupInv, Receiver!GateTypeOK,
                    Receiver!ExecutedByOwner
      <3>3. \A k \in executed'[m] : k \in Requests /\ carried'[k] = m
        BY <3>1, <3>2 DEF DeliveryInv, RequestsCarryQueued
      <3> QED BY <2>2, <2>3, <3>3
    <2> QED BY <2>1, <2>2, <2>3
  <1>2. DeliveryInv /\ [Next]_vars => [Kept]_vars
    BY <1>1
  <1> QED BY <1>2, DeliveryInvariant, PTL DEF Spec, SettledIsNotSentAgain
==============================================================================
