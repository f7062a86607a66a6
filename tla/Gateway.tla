------------------------------- MODULE Gateway -------------------------------
(***************************************************************************)
(* The receiving side of message delivery: the HTTP gateway of linkd       *)
(* (internal/gateway/router.go) for one local agent and one remote agent.  *)
(* Every request runs in a goroutine of its own, so the handler            *)
(* serveA2AWithDedup is split at each store call and at the call to the    *)
(* local agent; between two of them another request may run, the client    *)
(* may go away (which cancels req.Context and makes the later store calls  *)
(* fail) or the daemon may be restarted.                                   *)
(*                                                                         *)
(* Tables scoped_deduplication_records and inbox_messages survive a        *)
(* restart, the goroutines do not.  Every request is signed with a nonce   *)
(* of its own, so a request is handled at most once; a retry of a message  *)
(* is a new request.                                                       *)
(***************************************************************************)
EXTENDS Naturals, FiniteSets

CONSTANTS
    Messages,    \* message ids the remote agent uses
    NoMessageID, \* the id of a request body without message.messageId
    Requests,    \* HTTP requests; bounds how many a behaviour handles
    StoreFaults, \* TRUE when a store call may also fail without a cancelled context
    Unwrapped    \* TRUE when a response may hold an id where taskIDFromResponse looks

VARIABLES
    paired,      \* the contact row of the remote agent is active
    records,     \* records[m]: the deduplication record of message m
    inbox,       \* messages recorded in inbox_messages
    pc,          \* pc[k]: the next call of the goroutine that serves request k
    msg,         \* msg[k]: the message request k carries
    connected,   \* requests whose req.Context is not cancelled
    outcome,     \* outcome[k]: what forwardA2A recorded for request k
    answer,      \* answer[k]: the response written for request k
    executed     \* executed[m]: the requests for which the agent was handed m

gateVars == <<paired, records, inbox, pc, msg, connected, outcome, answer, executed>>

-----------------------------------------------------------------------------
(* Data *)

IDs == Messages \cup {NoMessageID}
\* The response of the local agent: a task or message, an error, or no body at all.
\* Only a response with a body is replayed.
Replayed == {"task", "error"}
Outcomes == Replayed \cup {"empty"}
\* The id in the column task_id: the one that the request by made up to reserve the
\* record, or one that was found in the agent's response.
TaskIDs == {"reserved", "found"}
Record == [by : Requests, task : TaskIDs, response : Outcomes \cup {"none"}]
NoRecord == [by |-> "nobody", task |-> "none", response |-> "none"]
Reservation(k) == [by |-> k, task |-> "reserved", response |-> "none"]
\* Which body is written: the agent's, the task id of the record with 202, or a
\* failure of the gateway itself (403, 500).  from is the request for which the
\* agent was called or the record reserved; task the id of a 202 body.
Answers == [kind : Outcomes, from : Requests, task : {"none"}]
           \cup [kind : {"working"}, from : Requests, task : TaskIDs]
NoAnswer == [kind |-> "none", from |-> "nobody", task |-> "none"]
Refused == [kind |-> "refused", from |-> "nobody", task |-> "none"]
Response(result, k) == [kind |-> result, from |-> k, task |-> "none"]
Working(id, k) == [kind |-> "working", from |-> k, task |-> id]

\* Where a goroutine that owns the reservation of its message can be.
Owning == {"inbox", "forward", "agent", "complete"}
Running == {"lookup", "reserve"} \cup Owning
Places == {"idle", "done", "lost"} \cup Running

ASSUME NoMessageIDIsNone == NoMessageID \notin Messages
ASSUME StoreFaultsIsBoolean == StoreFaults \in BOOLEAN
ASSUME UnwrappedIsBoolean == Unwrapped \in BOOLEAN
ASSUME NobodyIsNoRequest == "nobody" \notin Requests

GateTypeOK ==
    /\ paired \in BOOLEAN
    /\ records \in [Messages -> Record \cup {NoRecord}]
    /\ inbox \subseteq Messages
    /\ pc \in [Requests -> Places]
    /\ msg \in [Requests -> IDs]
    /\ connected \subseteq Requests
    /\ outcome \in [Requests -> Outcomes \cup {"none"}]
    /\ answer \in [Requests -> Answers \cup {NoAnswer, Refused}]
    /\ executed \in [Messages -> SUBSET Requests]

GateInit ==
    /\ paired = TRUE
    /\ records = [m \in Messages |-> NoRecord]
    /\ inbox = {}
    /\ pc = [k \in Requests |-> "idle"]
    /\ msg = [k \in Requests |-> NoMessageID]
    /\ connected = Requests
    /\ outcome = [k \in Requests |-> "none"]
    /\ answer = [k \in Requests |-> NoAnswer]
    /\ executed = [m \in Messages |-> {}]

-----------------------------------------------------------------------------
(* The steps of a request *)

\* A store call that takes req.Context succeeds, or fails.
StoreWorks(k) == k \in connected
StoreFails(k) == k \notin connected \/ StoreFaults

Respond(k, a) ==
    /\ pc' = [pc EXCEPT ![k] = "done"]
    /\ answer' = [answer EXCEPT ![k] = a]

Continue(k, place) ==
    /\ pc' = [pc EXCEPT ![k] = place]
    /\ UNCHANGED answer

\* Router.a2a and authorized: the contact has to be active when the request
\* arrives; it is not looked at again.  A body without a message id is forwarded
\* without deduplication.
Receive(k, m) ==
    /\ pc[k] = "idle"
    /\ msg' = [msg EXCEPT ![k] = m]
    /\ \/ /\ paired /\ StoreWorks(k)
          /\ Continue(k, IF m = NoMessageID THEN "forward" ELSE "lookup")
       \/ /\ ~paired \/ StoreFails(k)
          /\ Respond(k, Refused)
    /\ UNCHANGED <<paired, records, inbox, connected, outcome, executed>>

\* Mutant of Lookup: the replay names a task of this request.
LookupOwnTask(k) ==
    /\ pc[k] = "lookup"
    /\ \/ /\ StoreWorks(k) /\ records[msg[k]].response \in Replayed
          /\ Respond(k, Response(records[msg[k]].response, k))
       \/ /\ StoreWorks(k) /\ records[msg[k]] # NoRecord
          /\ records[msg[k]].response \notin Replayed
          /\ Respond(k, Working(records[msg[k]].task, k))
       \/ /\ records[msg[k]] = NoRecord \/ StoreFails(k)
          /\ Continue(k, "reserve")
    /\ UNCHANGED <<paired, records, inbox, msg, connected, outcome, executed>>

\* Mutant of Lookup: a record without a response counts as none.
LookupStoredOnly(k) ==
    /\ pc[k] = "lookup"
    /\ LET record == records[msg[k]]
       IN  \/ /\ StoreWorks(k) /\ record.response \in Replayed
              /\ Respond(k, Response(record.response, record.by))
           \/ /\ record.response \notin Replayed \/ StoreFails(k)
              /\ Continue(k, "reserve")
    /\ UNCHANGED <<paired, records, inbox, msg, connected, outcome, executed>>

\* GetScopedDeduplication.  A response that was stored with a body is replayed; a
\* record without one is answered with 202 and its task id; a failed lookup counts
\* as no record.
Lookup(k) ==
    /\ pc[k] = "lookup"
    /\ LET record == records[msg[k]]
       IN  \/ /\ StoreWorks(k) /\ record # NoRecord
              /\ Respond(k, IF record.response \in Replayed
                            THEN Response(record.response, record.by)
                            ELSE Working(record.task, record.by))
           \/ /\ \/ StoreWorks(k) /\ record = NoRecord
                 \/ StoreFails(k)
              /\ Continue(k, "reserve")
    /\ UNCHANGED <<paired, records, inbox, msg, connected, outcome, executed>>

\* Mutant of Reserve: whether the row was created is not looked at.
ReserveIgnored(k) ==
    /\ pc[k] = "reserve"
    /\ records' = IF records[msg[k]] # NoRecord THEN records
                  ELSE [records EXCEPT ![msg[k]] = Reservation(k)]
    /\ Continue(k, "inbox")
    /\ UNCHANGED <<paired, inbox, msg, connected, outcome, executed>>

\* Mutant of Reserve: INSERT OR REPLACE.
ReserveReplaces(k) ==
    /\ pc[k] = "reserve"
    /\ records' = [records EXCEPT ![msg[k]] = Reservation(k)]
    /\ Continue(k, "inbox")
    /\ UNCHANGED <<paired, inbox, msg, connected, outcome, executed>>

\* RecordScopedMessageOnce: INSERT OR IGNORE; when the row was there already,
\* serveA2AWithDedup starts over.
Reserve(k) ==
    /\ pc[k] = "reserve"
    /\ \/ /\ StoreWorks(k) /\ records[msg[k]] = NoRecord
          /\ records' = [records EXCEPT ![msg[k]] = Reservation(k)]
          /\ Continue(k, "inbox")
       \/ /\ StoreWorks(k) /\ records[msg[k]] # NoRecord
          /\ Continue(k, "lookup")
          /\ UNCHANGED records
       \/ /\ StoreFails(k)
          /\ Respond(k, Refused)
          /\ UNCHANGED records
    /\ UNCHANGED <<paired, inbox, msg, connected, outcome, executed>>

\* Mutant of RecordInbox: its error is ignored.
RecordInboxIfPossible(k) ==
    /\ pc[k] = "inbox"
    /\ inbox' = IF StoreWorks(k) THEN inbox \cup {msg[k]} ELSE inbox
    /\ Continue(k, "forward")
    /\ UNCHANGED <<paired, records, msg, connected, outcome, executed>>

\* RecordInboxMessage: INSERT OR IGNORE.  When it fails the request is refused
\* and the reservation stays.
RecordInbox(k) ==
    /\ pc[k] = "inbox"
    /\ \/ /\ StoreWorks(k)
          /\ inbox' = inbox \cup {msg[k]}
          /\ Continue(k, "forward")
       \/ /\ StoreFails(k)
          /\ Respond(k, Refused)
          /\ UNCHANGED inbox
    /\ UNCHANGED <<paired, records, msg, connected, outcome, executed>>

\* forwardA2A with a context of its own: the local agent is handed the message,
\* or cannot be reached.
Forward(k) ==
    /\ pc[k] = "forward"
    /\ \/ /\ executed' = IF msg[k] = NoMessageID THEN executed
                         ELSE [executed EXCEPT ![msg[k]] = @ \cup {k}]
          /\ Continue(k, "agent")
          /\ UNCHANGED outcome
       \/ /\ outcome' = [outcome EXCEPT ![k] = "error"]
          /\ Continue(k, "complete")
          /\ UNCHANGED executed
    /\ UNCHANGED <<paired, records, inbox, msg, connected>>

\* The local agent answers within the client's timeout of three minutes, or the
\* call fails.
AgentReplies(k, result) ==
    /\ pc[k] = "agent"
    /\ outcome' = [outcome EXCEPT ![k] = result]
    /\ Continue(k, "complete")
    /\ UNCHANGED <<paired, records, inbox, msg, connected, executed>>

\* taskIDFromResponse looks for an id at the top of the body or of its result.  A
\* REST body wraps the task and has neither; in a JSON-RPC body the first one is the
\* id of the call.  Without one the reservation stays.
TaskIDFromResponse(result) ==
    IF Unwrapped /\ result \in Replayed THEN {"reserved", "found"} ELSE {"reserved"}

\* Mutant of Complete: an error of the agent releases the reservation.
CompleteReleases(k) ==
    /\ pc[k] = "complete"
    /\ records' = IF msg[k] = NoMessageID THEN records
                  ELSE IF outcome[k] = "error" THEN [records EXCEPT ![msg[k]] = NoRecord]
                  ELSE [records EXCEPT ![msg[k]].response = outcome[k]]
    /\ Respond(k, Response(outcome[k], k))
    /\ UNCHANGED <<paired, inbox, msg, connected, outcome, executed>>

\* CompleteScopedMessage, whose error is ignored, and copyResponse.
Complete(k) ==
    /\ pc[k] = "complete"
    /\ IF msg[k] = NoMessageID THEN UNCHANGED records
       ELSE \/ /\ StoreWorks(k)
               /\ \E id \in TaskIDFromResponse(outcome[k]) :
                     records' = [records EXCEPT ![msg[k]].task = id, ![msg[k]].response = outcome[k]]
            \/ StoreFails(k) /\ UNCHANGED records
    /\ Respond(k, Response(outcome[k], k))
    /\ UNCHANGED <<paired, inbox, msg, connected, outcome, executed>>

-----------------------------------------------------------------------------
(* What happens around the requests *)

\* The client closes its connection: net/http cancels req.Context.
Disconnect(k) ==
    /\ k \in connected
    /\ connected' = connected \ {k}
    /\ UNCHANGED <<paired, records, inbox, pc, msg, outcome, answer, executed>>

\* The daemon stops and is started again: the goroutines and connections are gone.
Restart ==
    /\ \E k \in Requests : pc[k] \in Running
    /\ pc' = [k \in Requests |-> IF pc[k] \in Running THEN "lost" ELSE pc[k]]
    /\ connected' = {k \in connected : pc[k] \notin Running}
    /\ UNCHANGED <<paired, records, inbox, msg, outcome, answer, executed>>

\* The pairing handlers end or renew the relation.
SetPaired(active) ==
    /\ paired # active
    /\ paired' = active
    /\ UNCHANGED <<records, inbox, pc, msg, connected, outcome, answer, executed>>

Step(k) ==
    \/ Lookup(k) \/ Reserve(k) \/ RecordInbox(k) \/ Forward(k) \/ Complete(k)
    \/ \E result \in Outcomes : AgentReplies(k, result)

GateNext ==
    \/ \E k \in Requests, m \in IDs : Receive(k, m)
    \/ \E k \in Requests : Step(k) \/ Disconnect(k)
    \/ Restart
    \/ \E active \in BOOLEAN : SetPaired(active)

GateSpec == GateInit /\ [][GateNext]_gateVars

\* A goroutine keeps running as long as the daemon does: every call it makes
\* returns (the store calls by their context, the agent's by its timeout).  The
\* store does not fail every lookup of a request that starts over again and again.
GateFairSpec ==
    /\ GateSpec
    /\ \A k \in Requests : WF_gateVars(Step(k)) /\ SF_gateVars(Lookup(k) /\ pc'[k] = "done")

-----------------------------------------------------------------------------
(* Properties *)

\* A message id is handed to the local agent at most once, whatever retries,
\* concurrent requests, lost connections and restarts there are
\* (RecordScopedMessageOnce before forwardA2A).
ExecutedAtMostOnce ==
    \A m \in Messages : \A j, k \in executed[m] : j = k

\* The agent never works on a message that inbox_messages does not hold
\* (RecordInboxMessage before forwardA2A).
ExecutedIsInInbox ==
    \A m \in Messages : executed[m] # {} => m \in inbox

\* All answers to one message id that carry a response of the agent carry the
\* same one, and a task is only reported when the agent was handed the message
\* (the replay of ResponseBody, copyResponse).
AnswersAgree ==
    \A j, k \in Requests :
        /\ msg[j] = msg[k] /\ msg[j] # NoMessageID
        /\ answer[j].kind \in Outcomes
        /\ answer[k].kind \in Outcomes
        => /\ answer[j] = answer[k]
           /\ answer[j].kind = "task" => answer[j].from \in executed[msg[j]]

\* A response that was stored is never replaced, nor the task id stored with it, and
\* a record never changes its owner: CompleteScopedMessage is only reached by the
\* request that reserved, which may write another task id than the one it reserved.
RecordsAreFinal ==
    [][\A m \in Messages : records[m] # NoRecord =>
          /\ records'[m].by = records[m].by
          /\ records[m].response # "none" => records'[m] = records[m]]_gateVars

\* Every request that is received ends, answered or lost in a restart: starting
\* over in serveA2AWithDedup does not go on forever.  A request is received once, so
\* this says that a time without a running request always comes.  It rests on the
\* fairness of Lookup: a response that can never be decrypted keeps a request busy.
RequestsEnd ==
    []<>(\A k \in Requests : pc[k] \notin Running)

-----------------------------------------------------------------------------
(* The inductive strengthening of ExecutedAtMostOnce and AnswersAgree *)

\* A goroutine past the reservation owns the record of its message.
OwnersHoldRecord ==
    \A k \in Requests : pc[k] \in Owning /\ msg[k] # NoMessageID =>
        /\ records[msg[k]] = Reservation(k)
        /\ pc[k] \in {"inbox", "forward"} => executed[msg[k]] = {}
        /\ pc[k] = "agent" => k \in executed[msg[k]]
        /\ pc[k] # "inbox" => msg[k] \in inbox

\* Only the owner of the record handed the message on, and it is past that call.
ExecutedByOwner ==
    \A m \in Messages : \A k \in executed[m] :
        /\ records[m].by = k /\ msg[k] = m /\ m \in inbox
        /\ pc[k] \in {"agent", "complete", "done", "lost"}

\* A stored response and a task that is reported are the owner's outcome, and a 202
\* answer names the owner's reservation: a response that was found to hold another id
\* is replayed.
ResponsesOfOwner ==
    /\ \A m \in Messages : records[m].response # "none" =>
          /\ outcome[records[m].by] = records[m].response
          /\ pc[records[m].by] = "done"
    /\ \A k \in Requests : answer[k].kind \in Outcomes /\ msg[k] # NoMessageID =>
          /\ records[msg[k]].by = answer[k].from
          /\ answer[k].kind = outcome[answer[k].from]
          /\ pc[answer[k].from] = "done"
    /\ \A m \in Messages : records[m] # NoRecord /\ records[m].response \notin Replayed =>
          records[m].task = "reserved"
    /\ \A k \in Requests : answer[k].kind = "working" => answer[k].task = "reserved"
    /\ \A k \in Requests : outcome[k] = "task" /\ msg[k] # NoMessageID =>
          k \in executed[msg[k]]

\* A request that was answered is over, one that waits has carried nothing.
RequestsInOrder ==
    \A k \in Requests :
        /\ answer[k] # NoAnswer => pc[k] = "done"
        /\ pc[k] \in {"lookup", "reserve", "inbox"} => msg[k] # NoMessageID
        /\ pc[k] = "complete" => outcome[k] \in Outcomes
        /\ pc[k] = "idle" => outcome[k] = "none" /\ msg[k] = NoMessageID
        /\ \A m \in Messages : records[m].by = k =>
              msg[k] = m /\ pc[k] \notin {"idle", "lookup", "reserve"}

\* The inductive invariant behind the gateway's at-most-once promise: whoever is
\* past RecordScopedMessageOnce owns the record of its message, and only the
\* owner's outcome is ever stored or reported.
DedupInv ==
    /\ GateTypeOK
    /\ OwnersHoldRecord
    /\ ExecutedByOwner
    /\ ResponsesOfOwner
    /\ RequestsInOrder

-----------------------------------------------------------------------------
(* What the code says of itself and does not do *)

\* router.go on the 202 answer: "A concurrent first delivery is still being
\* processed."  So whenever it is written, some request for the same message is
\* running.
WorkingIsInProgress ==
    [][\A k \in Requests : answer'[k] # answer[k] /\ answer'[k].kind = "working" =>
          \E j \in Requests \ {k} : msg[j] = msg[k] /\ pc[j] \in Owning]_gateVars

\* The Codex adapter on an app-server that is down: a later relay retry can finish
\* the binding.  So an error of the agent is never answered from the record.
AgentErrorIsRetried ==
    [][\A k \in Requests : answer'[k] # answer[k] /\ answer'[k].kind = "error" =>
          answer'[k].from = k]_gateVars

=============================================================================
