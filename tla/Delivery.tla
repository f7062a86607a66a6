------------------------------- MODULE Delivery ------------------------------
(***************************************************************************)
(* Message delivery end to end: the outbox and delivery worker of one      *)
(* daemon (Outbox), the HTTP gateway of another (Gateway) and the wire     *)
(* between them.  Every attempt of the worker is a request of its own.     *)
(* The wire may lose the request or its answer at any time; a request the  *)
(* worker gave up may still arrive later, and the two daemons restart      *)
(* independently of each other.                                            *)
(*                                                                         *)
(* The payload names its message, as the adapters build it.  The id that a *)
(* receipt holds is read from the body of the answer: the reservation of a *)
(* request in a 202 body, or what the agent created for a request.         *)
(***************************************************************************)
EXTENDS Naturals, FiniteSets

CONSTANTS
    Messages,       \* message ids
    NoMessage,      \* the worker works on no message, a request carries none
    NoMessageID,    \* a body without a message id (not sent by this worker)
    Requests,       \* HTTP requests; bounds the attempts of a behaviour
    NoRequest,      \* the worker waits for no request, a message has no receipt
    BatchSize,      \* Config.BatchSize
    StoreFaults,    \* a store call of the gateway may fail by itself
    Unwrapped,      \* responses may hold an id where the gateway looks
    AcceptsWorking  \* the A2A client takes the body of a 202 answer for a task

VARIABLES
    active, outbox, due, ahead, receipts, tasks,
    sending, cancelling, revoking, worker,
    paired, records, inbox, pc, msg, connected, outcome, answer, executed,
    carried,        \* carried[k]: the message request k was sent with
    current         \* the request the worker waits for

\* The ids that answers report: the reservation of a request in a 202 body, and the
\* id of the task or message in the agent's response to a request.
TaskNames == [of : Requests, id : {"reserved", "created"}]

ASSUME NothingIsNone ==
    NoMessage \notin Messages /\ NoRequest \notin Requests /\ NoRequest \notin TaskNames
ASSUME BatchSizeIsPositive == BatchSize \in Nat \ {0}
ASSUME NoMessageIDIsNone == NoMessageID \notin Messages
ASSUME StoreFaultsIsBoolean == StoreFaults \in BOOLEAN
ASSUME UnwrappedIsBoolean == Unwrapped \in BOOLEAN
ASSUME NobodyIsNoRequest == "nobody" \notin Requests
ASSUME AcceptsWorkingIsBoolean == AcceptsWorking \in BOOLEAN

Sender == INSTANCE Outbox WITH Tasks <- TaskNames, NoTask <- NoRequest
Receiver == INSTANCE Gateway

senderVars == <<active, outbox, due, ahead, receipts, tasks,
                sending, cancelling, revoking, worker>>
receiverVars == <<paired, records, inbox, pc, msg, connected, outcome, answer, executed>>
wire == <<carried, current>>
vars == <<senderVars, receiverVars, wire>>

Init ==
    /\ Sender!OutInit
    /\ Receiver!GateInit
    /\ carried = [k \in Requests |-> NoMessage]
    /\ current = NoRequest

-----------------------------------------------------------------------------
(* The wire *)

\* clientTransport.SendMessage starts the next request.
Transmit(k) ==
    /\ carried[k] = NoMessage
    /\ Sender!Connect
    /\ carried' = [carried EXCEPT ![k] = worker.message]
    /\ current' = k
    /\ UNCHANGED receiverVars

\* The request reaches the gateway, whether or not the worker still waits.
Arrive(k) ==
    /\ carried[k] # NoMessage
    /\ Receiver!Receive(k, carried[k])
    /\ UNCHANGED <<senderVars, wire>>

\* The id deliverA2A takes from a body, that of a Task or of a Message.
TaskIn(a) == [of |-> a.from, id |-> IF a.kind = "working" THEN a.task ELSE "created"]

\* Mutant of Answered: the status of the answer is not looked at.
AnsweredAnyhow(k) ==
    /\ current = k /\ pc[k] = "done" /\ k \in connected
    /\ IF answer[k].kind = "refused" THEN Sender!Failed ELSE Sender!Accepted(TaskIn(answer[k]))
    /\ current' = NoRequest
    /\ UNCHANGED <<receiverVars, carried>>

\* Mutant of Answered: the receipt names the attempt instead of the task.
AnsweredByAttempt(k) ==
    /\ current = k /\ pc[k] = "done" /\ k \in connected
    /\ IF answer[k].kind = "task" THEN Sender!Accepted([of |-> k, id |-> "created"]) ELSE Sender!Failed
    /\ current' = NoRequest
    /\ UNCHANGED <<receiverVars, carried>>

\* The answer reaches the worker: deliverA2A.
Answered(k) ==
    /\ current = k /\ pc[k] = "done" /\ k \in connected
    /\ IF \/ answer[k].kind = "task"
          \/ answer[k].kind = "working" /\ AcceptsWorking
       THEN Sender!Accepted(TaskIn(answer[k]))
       ELSE Sender!Failed
    /\ current' = NoRequest
    /\ UNCHANGED <<receiverVars, carried>>

\* Mutant of ConnectionLost: the given up request is not forgotten.
ConnectionLostRemembered ==
    /\ current # NoRequest
    /\ Sender!Failed
    /\ UNCHANGED <<receiverVars, wire>>

\* The connection fails or times out; the receiving side may notice later.
ConnectionLost ==
    /\ current # NoRequest
    /\ Sender!Failed
    /\ current' = NoRequest
    /\ UNCHANGED <<receiverVars, carried>>

-----------------------------------------------------------------------------
(* The two sides *)

\* Everything the sending daemon does besides exchanging a request.
SenderStep ==
    /\ \/ \E m \in Messages :
            \/ Sender!SendCheck(m) \/ Sender!Enqueue(m)
            \/ Sender!CancelRead(m) \/ Sender!CancelWrite(m)
            \/ Sender!BecomeDue(m) \/ Sender!Resolve(m)
       \/ \E t \in TaskNames : Sender!CancelTask(t)
       \/ Sender!RevokeContact \/ Sender!RevokeOutbox \/ Sender!PairAgain
       \/ \E batch \in SUBSET Messages : Sender!ListDue(batch)
       \/ Sender!ScheduleRetry \/ Sender!MarkDelivered \/ Sender!Abort
    /\ UNCHANGED <<receiverVars, wire>>

SenderRestart ==
    /\ Sender!OutRestart
    /\ current' = NoRequest
    /\ UNCHANGED <<receiverVars, carried>>

\* Everything the receiving daemon does besides receiving a request.
ReceiverStep ==
    /\ \/ \E k \in Requests : Receiver!Step(k) \/ Receiver!Disconnect(k)
       \/ Receiver!Restart
       \/ \E on \in BOOLEAN : Receiver!SetPaired(on)
    /\ UNCHANGED <<senderVars, wire>>

Next ==
    \/ \E k \in Requests : Transmit(k) \/ Arrive(k) \/ Answered(k)
    \/ ConnectionLost
    \/ SenderStep \/ SenderRestart
    \/ ReceiverStep

Spec == Init /\ [][Next]_vars

-----------------------------------------------------------------------------
(* Properties *)

\* t is what the agent created for the request that owns the record of m, or, when
\* the client takes 202 bodies for tasks, the reservation of that request.
OwnersTask(m, t) ==
    /\ records[m].by = t.of
    /\ \/ t.id = "created" /\ t.of \in executed[m]
       \/ t.id = "reserved" /\ AcceptsWorking

\* A delivery receipt names what the agent created when it was handed the message:
\* whichever attempt was answered, after whatever losses and restarts, the id is that
\* of the one request that owns the deduplication record, never of an attempt that
\* the agent did not see.  It need not be the id which that record holds
\* (MarkOutboxDelivered, the 202 and the replayed answers of serveA2AWithDedup).
ReceiptNamesOwner ==
    \A m \in Messages : receipts[m] # NoRequest => OwnersTask(m, receipts[m])

\* The two sides together keep the promise of Exchange: at most one execution,
\* and delivered means executed.  Holds when the client rejects the body of a 202
\* answer, which names a task that may not exist.
Promise == INSTANCE Exchange WITH
    seen <- outbox, handed <- [m \in Messages |-> Cardinality(executed[m])]
KeepsPromise == Promise!ExchangeSpec

\* The state of that promise, in terms of the two sides: the agent was handed no
\* message twice and none that is not in the outbox, and every message that has a
\* delivery receipt exactly once (MarkOutboxDelivered, RecordScopedMessageOnce).
DeliveredIsHandedOnce == Promise!ExchangeInv

\* The worker neither works on m nor will, and its state is final.
LetGo(m) ==
    /\ outbox[m] \in {"delivered", "cancelled"}
    /\ m \notin worker.batch /\ worker.message # m

\* When a cancel or a revocation wins for good: once the message is cancelled and
\* the worker does not hold it in its snapshot (ProcessDue, ListDueOutbox), no
\* restart, retry or new pairing sends it again, and if no attempt was made before,
\* the remote agent is never handed it.  The same holds for a delivered message.
SettledIsNotSentAgain ==
    [][\A m \in Messages : LetGo(m) =>
          /\ LetGo(m)'
          /\ \A k \in Requests : carried'[k] = m => carried[k] = m
          /\ (\A k \in Requests : carried[k] # m) => executed'[m] = {}]_vars

-----------------------------------------------------------------------------
(* The inductive invariant of the composition *)

WireTypeOK ==
    /\ carried \in [Requests -> Messages \cup {NoMessage}]
    /\ current \in Requests \cup {NoRequest}

\* A request carries a message that was queued, also when it arrives late, and
\* the worker waits for a request that carries the message it works on.
RequestsCarryQueued ==
    /\ \A k \in Requests :
          /\ carried[k] # NoMessage => outbox[carried[k]] # "absent"
          /\ pc[k] # "idle" => msg[k] = carried[k] /\ carried[k] # NoMessage
    /\ current # NoRequest =>
          worker.pc = "wait" /\ worker.message = carried[current]

\* A 202 answer names the owner of the record, as the other answers do.
WorkingNamesOwner ==
    \A k \in Requests : answer[k].kind = "working" => records[msg[k]].by = answer[k].from

\* The task the worker is about to record is the owner's.
ReportedIsOwned == worker.pc = "mark" => OwnersTask(worker.message, worker.task)

\* What ties the two sides together at every point, whatever attempts were given
\* up, arrive late or are answered after a restart: the invariants of both sides,
\* what the requests carry, and that an answer, the task the worker holds and the
\* receipt all name the owner of the deduplication record (deliverA2A,
\* serveA2AWithDedup, MarkOutboxDelivered).
DeliveryInv ==
    /\ Sender!OutboxInv
    /\ Receiver!DedupInv
    /\ WireTypeOK
    /\ RequestsCarryQueued
    /\ WorkingNamesOwner
    /\ ReportedIsOwned
    /\ ReceiptNamesOwner
==============================================================================
