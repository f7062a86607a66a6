---------------------------- MODULE GatewayProofs ----------------------------
(***************************************************************************)
(* Theorems about Gateway for any number of messages and requests: the     *)
(* deduplication of serveA2AWithDedup hands a message to the local agent   *)
(* at most once and reports one response for it.                           *)
(***************************************************************************)
EXTENDS Gateway, TLAPS

USE NoMessageIDIsNone, StoreFaultsIsBoolean, UnwrappedIsBoolean, NobodyIsNoRequest

-----------------------------------------------------------------------------
(* Facts the steps share *)

\* A goroutine's step moves its program counter and may write its answer.
Moves(k, place, a) ==
    /\ pc' = [pc EXCEPT ![k] = place]
    /\ answer' = [answer EXCEPT ![k] = a]

\* Respond and Continue are such moves.
LEMMA RespondMoves ==
    ASSUME GateTypeOK, NEW k \in Requests, NEW a, Respond(k, a)
    PROVE  Moves(k, "done", a)
  BY DEF Respond, Moves

\* Continue is one without an answer.
LEMMA ContinueMoves ==
    ASSUME GateTypeOK, NEW k \in Requests, NEW place, Continue(k, place)
    PROVE  Moves(k, place, answer[k])
  BY DEF Continue, Moves, GateTypeOK

\* A move leaves the other goroutines alone and keeps the types.
LEMMA MovesFacts ==
    ASSUME GateTypeOK, NEW k \in Requests, NEW place \in Places,
           NEW a \in Answers \cup {NoAnswer, Refused}, Moves(k, place, a)
    PROVE  /\ pc' \in [Requests -> Places]
           /\ answer' \in [Requests -> Answers \cup {NoAnswer, Refused}]
           /\ pc'[k] = place /\ answer'[k] = a
           /\ \A j \in Requests : j # k => pc'[j] = pc[j] /\ answer'[j] = answer[j]
  BY DEF GateTypeOK, Moves

\* A record that exists names a request.
LEMMA RecordFacts ==
    ASSUME GateTypeOK, NEW m \in Messages, records[m] # NoRecord
    PROVE  records[m] \in Record /\ records[m].by \in Requests
  BY DEF GateTypeOK, Record

-----------------------------------------------------------------------------
(* One lemma per step of a request *)

\* Receive preserves DedupInv: a request that starts owns nothing.
LEMMA ReceiveStep ==
    ASSUME DedupInv, NEW k \in Requests, NEW m \in IDs, Receive(k, m)
    PROVE  DedupInv'
  <1> USE DEF DedupInv
  <1>1. /\ pc[k] = "idle" /\ msg' = [msg EXCEPT ![k] = m]
        /\ UNCHANGED <<paired, records, inbox, connected, outcome, executed>>
    BY DEF Receive
  <1>2. PICK place \in {"forward", "lookup", "done"}, a \in {answer[k], Refused} :
           /\ Moves(k, place, a)
           /\ place = "lookup" => m # NoMessageID
           /\ place = "forward" => m = NoMessageID
           /\ a # answer[k] => place = "done"
    BY ContinueMoves, RespondMoves DEF Receive
  <1>3. place \in Places /\ a \in Answers \cup {NoAnswer, Refused}
    BY DEF Places, Running, Owning, GateTypeOK
  <1>4. /\ pc' \in [Requests -> Places]
        /\ answer' \in [Requests -> Answers \cup {NoAnswer, Refused}]
        /\ pc'[k] = place /\ answer'[k] = a
        /\ \A j \in Requests : j # k => pc'[j] = pc[j] /\ answer'[j] = answer[j]
    BY <1>2, <1>3, MovesFacts
  <1>5. /\ msg' \in [Requests -> IDs] /\ msg'[k] = m
        /\ \A j \in Requests : j # k => msg'[j] = msg[j]
    BY <1>1 DEF GateTypeOK
  <1>6. answer[k] = NoAnswer /\ outcome[k] = "none"
    BY <1>1 DEF RequestsInOrder
  <1>7. \A n \in Messages : records[n].by # k /\ k \notin executed[n]
    BY <1>1 DEF RequestsInOrder, ExecutedByOwner
  <1>8. GateTypeOK'
    BY <1>1, <1>4, <1>5 DEF GateTypeOK
  <1>9. OwnersHoldRecord'
    BY <1>1, <1>2, <1>4, <1>5 DEF OwnersHoldRecord, Owning
  <1>10. ExecutedByOwner'
    BY <1>1, <1>4, <1>5, <1>7 DEF ExecutedByOwner, GateTypeOK
  <1>11. ResponsesOfOwner'
    <2>1. a.kind \notin Outcomes
      BY <1>6 DEF NoAnswer, Refused, Outcomes, Replayed
    <2>2. \A n \in Messages : records[n].response # "none" => records[n].by \in Requests \ {k}
      BY <1>7, RecordFacts DEF NoRecord
    <2>3. \A j \in Requests : answer[j].kind \in Outcomes /\ msg[j] # NoMessageID =>
             answer[j].from \in Requests \ {k}
      <3>1. \A j \in Requests : answer[j].kind \in Outcomes =>
               answer[j] \in Answers /\ answer[j].from \in Requests
        BY DEF GateTypeOK, NoAnswer, Refused, Outcomes, Replayed, Answers
      <3> QED BY <1>7, <3>1 DEF ResponsesOfOwner, GateTypeOK, IDs
    <2>4. \A j \in Requests : answer'[j].kind = "working" => answer'[j].task = "reserved"
      <3>1. a.kind # "working"
        BY <1>6 DEF NoAnswer, Refused
      <3> QED BY <1>4, <3>1 DEF ResponsesOfOwner
    <2>5. /\ \A n \in Messages : records[n].response # "none" =>
                /\ outcome[records[n].by] = records[n].response
                /\ pc'[records[n].by] = "done"
          /\ \A j \in Requests : answer'[j].kind \in Outcomes /\ msg'[j] # NoMessageID =>
                /\ records[msg'[j]].by = answer'[j].from
                /\ answer'[j].kind = outcome[answer'[j].from]
                /\ pc'[answer'[j].from] = "done"
          /\ \A j \in Requests : outcome[j] = "task" /\ msg'[j] # NoMessageID =>
                j \in executed[msg'[j]]
      BY <1>1, <1>4, <1>5, <1>6, <2>1, <2>2, <2>3 DEF ResponsesOfOwner, GateTypeOK
    <2>6. \A n \in Messages : records[n] # NoRecord /\ records[n].response \notin Replayed =>
             records[n].task = "reserved"
      BY DEF ResponsesOfOwner
    <2> QED BY <1>1, <2>4, <2>5, <2>6 DEF ResponsesOfOwner
  <1>12. RequestsInOrder'
    BY <1>1, <1>2, <1>4, <1>5, <1>6, <1>7 DEF RequestsInOrder
  <1> QED BY <1>8, <1>9, <1>10, <1>11, <1>12
\* A goroutine that moves on without touching the records, the outcomes or what
\* was executed preserves DedupInv when it keeps to the order of the calls and
\* answers only what the record says.
LEMMA MoveStep ==
    ASSUME DedupInv, NEW k \in Requests, NEW place \in Places,
           NEW a \in Answers \cup {NoAnswer, Refused}, Moves(k, place, a),
           UNCHANGED <<paired, records, msg, connected, outcome, executed>>,
           inbox \subseteq inbox', inbox' \subseteq Messages,
           pc[k] \in Running, place \notin {"idle", "agent", "complete"},
           a # NoAnswer => place = "done",
           place \in {"lookup", "reserve", "inbox"} => msg[k] # NoMessageID,
           place \in Owning /\ msg[k] # NoMessageID =>
              /\ pc[k] \in Owning
              /\ place \in {"inbox", "forward"} => pc[k] \in {"inbox", "forward"}
              /\ place # "inbox" => msg[k] \in inbox',
           pc[k] \in {"agent", "complete"} => place \in {"agent", "complete", "done"},
           pc[k] \in Owning => place \notin {"lookup", "reserve"},
           a.kind = "working" => a.task = "reserved",
           a.kind \in Outcomes /\ msg[k] # NoMessageID =>
              /\ records[msg[k]].by = a.from /\ a.kind = outcome[a.from]
              /\ a.from = k \/ pc[a.from] = "done"
    PROVE  DedupInv'
  <1> USE DEF DedupInv
  <1>1. /\ pc' \in [Requests -> Places]
        /\ answer' \in [Requests -> Answers \cup {NoAnswer, Refused}]
        /\ pc'[k] = place /\ answer'[k] = a
        /\ \A j \in Requests : j # k => pc'[j] = pc[j] /\ answer'[j] = answer[j]
    BY MovesFacts
  <1>2. pc[k] \notin {"done", "idle", "lost"} /\ answer[k] = NoAnswer
    BY DEF Running, Owning, RequestsInOrder
  <1>3. \A j \in Requests : pc[j] = "done" => pc'[j] = "done"
    BY <1>1, <1>2
  <1>4. GateTypeOK'
    BY <1>1 DEF GateTypeOK
  <1>5. OwnersHoldRecord'
    <2> SUFFICES ASSUME NEW j \in Requests, pc'[j] \in Owning, msg[j] # NoMessageID
                 PROVE  /\ records[msg[j]] = Reservation(j)
                        /\ pc'[j] \in {"inbox", "forward"} => executed[msg[j]] = {}
                        /\ pc'[j] = "agent" => j \in executed[msg[j]]
                        /\ pc'[j] # "inbox" => msg[j] \in inbox'
      BY DEF OwnersHoldRecord
    <2>1. CASE j = k
      BY <1>1, <2>1 DEF OwnersHoldRecord
    <2>2. CASE j # k
      BY <1>1, <2>2 DEF OwnersHoldRecord
    <2> QED BY <2>1, <2>2
  <1>6. ExecutedByOwner'
    <2> SUFFICES ASSUME NEW m \in Messages, NEW j \in executed[m]
                 PROVE  /\ records[m].by = j /\ msg[j] = m /\ m \in inbox'
                        /\ pc'[j] \in {"agent", "complete", "done", "lost"}
      BY DEF ExecutedByOwner
    <2>1. j \in Requests
      BY DEF GateTypeOK
    <2> QED BY <1>1, <1>2, <2>1 DEF ExecutedByOwner
  <1>7. ResponsesOfOwner'
    <2>1. \A m \in Messages : records[m].response # "none" => records[m].by \in Requests
      BY RecordFacts DEF NoRecord
    <2>2. \A j \in Requests : answer'[j].kind \in Outcomes => answer'[j].from \in Requests
      BY <1>1 DEF NoAnswer, Refused, Outcomes, Replayed, Answers
    <2>3. ASSUME NEW j \in Requests, answer'[j].kind \in Outcomes, msg[j] # NoMessageID
          PROVE  /\ records[msg[j]].by = answer'[j].from
                 /\ answer'[j].kind = outcome[answer'[j].from]
                 /\ pc'[answer'[j].from] = "done"
      <3>1. CASE j = k
        <4>1. a # NoAnswer
          BY <1>1, <2>3, <3>1 DEF NoAnswer, Outcomes, Replayed
        <4> QED BY <1>1, <1>3, <2>2, <2>3, <3>1, <4>1
      <3>2. CASE j # k
        BY <1>1, <1>3, <2>2, <2>3, <3>2 DEF ResponsesOfOwner
      <3> QED BY <3>1, <3>2
    <2>4. \A j \in Requests : answer'[j].kind = "working" => answer'[j].task = "reserved"
      BY <1>1 DEF ResponsesOfOwner
    <2> QED BY <1>3, <2>1, <2>3, <2>4 DEF ResponsesOfOwner
  <1>8. RequestsInOrder'
    <2> SUFFICES ASSUME NEW j \in Requests
                 PROVE  /\ answer'[j] # NoAnswer => pc'[j] = "done"
                        /\ pc'[j] \in {"lookup", "reserve", "inbox"} => msg[j] # NoMessageID
                        /\ pc'[j] = "complete" => outcome[j] \in Outcomes
                        /\ pc'[j] = "idle" => outcome[j] = "none" /\ msg[j] = NoMessageID
                        /\ \A m \in Messages : records[m].by = j =>
                              msg[j] = m /\ pc'[j] \notin {"idle", "lookup", "reserve"}
      BY DEF RequestsInOrder
    <2>1. CASE j = k
      <3>1. \A m \in Messages : records[m].by = k => msg[k] = m /\ pc[k] \in Owning
        BY DEF RequestsInOrder, Running
      <3> QED BY <1>1, <2>1, <3>1
    <2>2. CASE j # k
      BY <1>1, <2>2 DEF RequestsInOrder
    <2> QED BY <2>1, <2>2
  <1> QED BY <1>4, <1>5, <1>6, <1>7, <1>8

\* Lookup preserves DedupInv: what it replays is the owner's outcome.
LEMMA LookupStep ==
    ASSUME DedupInv, NEW k \in Requests, Lookup(k)
    PROVE  DedupInv'
  <1> USE DEF DedupInv
  <1>1. /\ pc[k] = "lookup" /\ msg[k] \in Messages
        /\ UNCHANGED <<paired, records, inbox, msg, connected, outcome, executed>>
    BY DEF Lookup, RequestsInOrder, GateTypeOK, IDs
  <1>2. CASE Continue(k, "reserve")
    BY <1>1, <1>2, ContinueMoves, MoveStep
       DEF Places, Running, Owning, GateTypeOK, RequestsInOrder, NoAnswer, Outcomes, Replayed
  <1>3. ASSUME records[msg[k]] # NoRecord,
               NEW a, a = IF records[msg[k]].response \in Replayed
                          THEN Response(records[msg[k]].response, records[msg[k]].by)
                          ELSE Working(records[msg[k]].task, records[msg[k]].by),
               Respond(k, a)
        PROVE  DedupInv'
    <2>1. records[msg[k]].by \in Requests /\ records[msg[k]] \in Record
      BY <1>1, <1>3, RecordFacts
    <2>2. a \in Answers
      BY <1>3, <2>1 DEF Answers, Record, Outcomes, Replayed, Response, Working
    <2>3. a.kind \in Outcomes => /\ a.from = records[msg[k]].by
                                 /\ a.kind = records[msg[k]].response
                                 /\ records[msg[k]].response # "none"
      BY <1>3 DEF Outcomes, Replayed, Response, Working
    <2>4. a.kind \in Outcomes => a.kind = outcome[a.from] /\ pc[a.from] = "done"
      BY <1>1, <2>3 DEF ResponsesOfOwner
    <2>5. Moves(k, "done", a)
      BY <1>3, RespondMoves
    <2>6. a.kind = "working" => a.task = "reserved"
      BY <1>1, <1>3 DEF ResponsesOfOwner, Replayed, Response, Working
    <2> QED BY <1>1, <2>2, <2>3, <2>4, <2>5, <2>6, MoveStep DEF Places, Running, Owning, GateTypeOK
  <1> QED BY <1>2, <1>3 DEF Lookup

\* RecordInbox preserves DedupInv: the message is in the inbox before it is
\* forwarded.
LEMMA RecordInboxStep ==
    ASSUME DedupInv, NEW k \in Requests, RecordInbox(k)
    PROVE  DedupInv'
  <1> USE DEF DedupInv
  <1>1. /\ pc[k] = "inbox" /\ msg[k] \in Messages
        /\ UNCHANGED <<paired, records, msg, connected, outcome, executed>>
    BY DEF RecordInbox, RequestsInOrder, GateTypeOK, IDs
  <1>2. CASE inbox' = inbox \cup {msg[k]} /\ Continue(k, "forward")
    BY <1>1, <1>2, ContinueMoves, MoveStep
       DEF Places, Running, Owning, GateTypeOK, RequestsInOrder, NoAnswer, Outcomes, Replayed
  <1>3. CASE inbox' = inbox /\ Respond(k, Refused)
    BY <1>1, <1>3, RespondMoves, MoveStep
       DEF Places, Running, Owning, GateTypeOK, Refused, Outcomes, Replayed
  <1> QED BY <1>2, <1>3 DEF RecordInbox

\* Reserve preserves DedupInv: the first to insert the record becomes its owner,
\* the others start over or are refused.
LEMMA ReserveStep ==
    ASSUME DedupInv, NEW k \in Requests, Reserve(k)
    PROVE  DedupInv'
  <1> USE DEF DedupInv
  <1>1. /\ pc[k] = "reserve" /\ msg[k] \in Messages
        /\ UNCHANGED <<paired, inbox, msg, connected, outcome, executed>>
    BY DEF Reserve, RequestsInOrder, GateTypeOK, IDs
  <1>2. CASE Continue(k, "lookup") /\ records' = records
    BY <1>1, <1>2, ContinueMoves, MoveStep
       DEF Places, Running, Owning, GateTypeOK, RequestsInOrder, NoAnswer, Outcomes, Replayed
  <1>3. CASE Respond(k, Refused) /\ records' = records
    BY <1>1, <1>3, RespondMoves, MoveStep
       DEF Places, Running, Owning, GateTypeOK, Refused, Outcomes, Replayed
  <1>4. CASE /\ records[msg[k]] = NoRecord
             /\ records' = [records EXCEPT ![msg[k]] = Reservation(k)]
             /\ Continue(k, "inbox")
    <2> DEFINE r == Reservation(k)
               n == msg[k]
    <2>1. r \in Record /\ r.by = k /\ r.response = "none" /\ r.task = "reserved"
      BY DEF Record, Reservation, TaskIDs
    <2>2. /\ records' \in [Messages -> Record \cup {NoRecord}] /\ records'[n] = r
          /\ \A m \in Messages : m # n => records'[m] = records[m]
      BY <1>1, <1>4, <2>1 DEF GateTypeOK
    <2>3. /\ pc' \in [Requests -> Places] /\ pc'[k] = "inbox" /\ answer' = answer
          /\ \A j \in Requests : j # k => pc'[j] = pc[j]
      BY <1>4 DEF Continue, GateTypeOK, Places, Running, Owning
    <2>4. records[n].by = "nobody" /\ records[n].response = "none"
      BY <1>4 DEF NoRecord
    <2>5. executed[n] = {}
      <3>1. executed[n] \subseteq Requests
        BY <1>1 DEF GateTypeOK
      <3>2. \A j \in executed[n] : j = "nobody"
        BY <1>1, <2>4 DEF ExecutedByOwner
      <3> QED BY <3>1, <3>2
    <2>6. \A j \in Requests : pc[j] \in Owning /\ msg[j] # NoMessageID => msg[j] # n
      <3> SUFFICES ASSUME NEW j \in Requests, pc[j] \in Owning, msg[j] # NoMessageID
                   PROVE  msg[j] # n
        OBVIOUS
      <3>1. records[msg[j]] = Reservation(j)
        BY DEF OwnersHoldRecord
      <3>2. records[msg[j]].by = j
        BY <3>1 DEF Reservation
      <3>3. j # "nobody"
        OBVIOUS
      <3> QED BY <2>4, <3>2, <3>3
    <2>7. \A j \in Requests : answer[j].kind \in Outcomes => answer[j].from \in Requests
      BY DEF GateTypeOK, NoAnswer, Refused, Outcomes, Replayed, Answers
    <2>8. \A j \in Requests : answer[j].kind \in Outcomes /\ msg[j] # NoMessageID =>
             msg[j] \in Messages /\ msg[j] # n
      BY <2>4, <2>7 DEF ResponsesOfOwner, GateTypeOK, IDs
    <2>9. \A m \in Messages : records[m].by # k
      BY <1>1 DEF RequestsInOrder
    <2>10. n \in Messages /\ n # NoMessageID
      BY <1>1
    <2> HIDE DEF r
    <2>11. GateTypeOK'
      BY <1>1, <2>2, <2>3 DEF GateTypeOK
    <2>12. OwnersHoldRecord'
      <3> SUFFICES ASSUME NEW j \in Requests, pc'[j] \in Owning, msg[j] # NoMessageID
                   PROVE  /\ records'[msg[j]] = Reservation(j)
                          /\ pc'[j] \in {"inbox", "forward"} => executed[msg[j]] = {}
                          /\ pc'[j] = "agent" => j \in executed[msg[j]]
                          /\ pc'[j] # "inbox" => msg[j] \in inbox
        BY <1>1 DEF OwnersHoldRecord
      <3>1. CASE j = k
        BY <2>2, <2>3, <2>5, <3>1 DEF r
      <3>2. CASE j # k
        <4>1. msg[j] \in Messages /\ msg[j] # n /\ pc[j] \in Owning
          BY <2>3, <2>6, <3>2 DEF GateTypeOK, IDs
        <4> QED BY <2>2, <2>3, <3>2, <4>1 DEF OwnersHoldRecord
      <3> QED BY <3>1, <3>2
    <2>13. ExecutedByOwner'
      <3> SUFFICES ASSUME NEW m \in Messages, NEW j \in executed[m]
                   PROVE  /\ records'[m].by = j /\ msg[j] = m /\ m \in inbox
                          /\ pc'[j] \in {"agent", "complete", "done", "lost"}
        BY <1>1 DEF ExecutedByOwner
      <3>1. m # n /\ j \in Requests
        BY <2>5 DEF GateTypeOK
      <3> QED BY <1>1, <2>2, <2>3, <3>1 DEF ExecutedByOwner
    <2>14. ResponsesOfOwner'
      <3>1. \A j \in Requests : pc[j] = "done" => pc'[j] = "done"
        BY <1>1, <2>3
      <3>2. \A m \in Messages : records'[m].response # "none" => m # n /\ records[m].by \in Requests
        BY <2>1, <2>2, RecordFacts DEF NoRecord
      <3>3. \A m \in Messages : records'[m].response # "none" =>
               /\ outcome[records'[m].by] = records'[m].response
               /\ pc'[records'[m].by] = "done"
        BY <2>2, <3>1, <3>2 DEF ResponsesOfOwner
      <3>4. \A j \in Requests : answer[j].kind \in Outcomes /\ msg[j] # NoMessageID =>
               /\ records'[msg[j]].by = answer[j].from
               /\ answer[j].kind = outcome[answer[j].from]
               /\ pc'[answer[j].from] = "done"
        BY <2>2, <2>7, <2>8, <3>1 DEF ResponsesOfOwner
      <3>5. \A m \in Messages : records'[m] # NoRecord /\ records'[m].response \notin Replayed =>
               records'[m].task = "reserved"
        BY <2>1, <2>2 DEF ResponsesOfOwner
      <3> QED BY <1>1, <2>3, <3>3, <3>4, <3>5 DEF ResponsesOfOwner
    <2>15. RequestsInOrder'
      <3> SUFFICES ASSUME NEW j \in Requests
                   PROVE  /\ answer[j] # NoAnswer => pc'[j] = "done"
                          /\ pc'[j] \in {"lookup", "reserve", "inbox"} => msg[j] # NoMessageID
                          /\ pc'[j] = "complete" => outcome[j] \in Outcomes
                          /\ pc'[j] = "idle" => outcome[j] = "none" /\ msg[j] = NoMessageID
                          /\ \A m \in Messages : records'[m].by = j =>
                                msg[j] = m /\ pc'[j] \notin {"idle", "lookup", "reserve"}
        BY <1>1, <2>3 DEF RequestsInOrder
      <3>1. CASE j = k
        BY <1>1, <2>2, <2>3, <2>9, <2>10, <3>1 DEF RequestsInOrder
      <3>2. CASE j # k
        BY <2>1, <2>2, <2>3, <3>2 DEF RequestsInOrder
      <3> QED BY <3>1, <3>2
    <2> QED BY <2>11, <2>12, <2>13, <2>14, <2>15
  <1> QED BY <1>2, <1>3, <1>4 DEF Reserve

\* Forward preserves DedupInv: the owner of the record hands the message on when
\* nobody did before.
LEMMA ForwardStep ==
    ASSUME DedupInv, NEW k \in Requests, Forward(k)
    PROVE  DedupInv'
  <1> USE DEF DedupInv
  <1>1. /\ pc[k] = "forward" /\ msg[k] \in IDs /\ answer[k] = NoAnswer
        /\ UNCHANGED <<paired, records, inbox, msg, connected>>
    BY DEF Forward, RequestsInOrder, GateTypeOK
  <1>2. PICK place \in {"agent", "complete"} :
           /\ Continue(k, place)
           /\ \/ /\ place = "agent" /\ outcome' = outcome
                 /\ executed' = IF msg[k] = NoMessageID THEN executed
                                ELSE [executed EXCEPT ![msg[k]] = @ \cup {k}]
              \/ /\ place = "complete" /\ executed' = executed
                 /\ outcome' = [outcome EXCEPT ![k] = "error"]
    BY DEF Forward
  <1>3. /\ pc' \in [Requests -> Places] /\ pc'[k] = place /\ answer' = answer
        /\ \A j \in Requests : j # k => pc'[j] = pc[j]
    BY <1>2 DEF Continue, GateTypeOK, Places, Running, Owning
  <1>4. /\ outcome' \in [Requests -> Outcomes \cup {"none"}]
        /\ outcome'[k] \in {outcome[k], "error"}
        /\ place = "complete" => outcome'[k] \in Outcomes
        /\ \A j \in Requests : j # k => outcome'[j] = outcome[j]
    BY <1>2 DEF GateTypeOK, Outcomes, Replayed
  <1>5. /\ executed' \in [Messages -> SUBSET Requests]
        /\ \A m \in Messages : \/ executed'[m] = executed[m]
                               \/ m = msg[k] /\ place = "agent" /\ executed'[m] = executed[m] \cup {k}
        /\ place = "agent" /\ msg[k] # NoMessageID => k \in executed'[msg[k]]
    <2>1. CASE executed' = executed /\ (msg[k] = NoMessageID \/ place # "agent")
      BY <2>1 DEF GateTypeOK
    <2>2. CASE /\ msg[k] # NoMessageID /\ place = "agent"
               /\ executed' = [executed EXCEPT ![msg[k]] = @ \cup {k}]
      BY <1>1, <2>2 DEF GateTypeOK, IDs
    <2> QED BY <1>2, <2>1, <2>2
  <1>6. \A j \in Requests : pc[j] = "done" => pc'[j] = "done" /\ outcome'[j] = outcome[j]
    BY <1>1, <1>3, <1>4
  <1>7. GateTypeOK'
    BY <1>1, <1>3, <1>4, <1>5 DEF GateTypeOK
  <1>8. ASSUME msg[k] # NoMessageID
        PROVE  /\ msg[k] \in Messages /\ records[msg[k]] = Reservation(k)
               /\ msg[k] \in inbox /\ executed[msg[k]] = {}
    BY <1>1, <1>8 DEF OwnersHoldRecord, Owning, IDs
  <1>9. OwnersHoldRecord'
    <2> SUFFICES ASSUME NEW j \in Requests, pc'[j] \in Owning, msg[j] # NoMessageID
                 PROVE  /\ records[msg[j]] = Reservation(j)
                        /\ pc'[j] \in {"inbox", "forward"} => executed'[msg[j]] = {}
                        /\ pc'[j] = "agent" => j \in executed'[msg[j]]
                        /\ pc'[j] # "inbox" => msg[j] \in inbox
      BY <1>1 DEF OwnersHoldRecord
    <2>1. CASE j = k
      BY <1>3, <1>5, <1>8, <2>1
    <2>2. CASE j # k
      <3>1. /\ records[msg[j]] = Reservation(j)
            /\ pc[j] \in {"inbox", "forward"} => executed[msg[j]] = {}
            /\ pc[j] = "agent" => j \in executed[msg[j]]
            /\ pc[j] # "inbox" => msg[j] \in inbox
            /\ msg[j] \in Messages
        BY <1>3, <2>2 DEF OwnersHoldRecord, GateTypeOK, IDs
      <3>2. records[msg[j]].by = j /\ (msg[k] # NoMessageID => records[msg[k]].by = k)
        BY <1>8, <3>1 DEF Reservation
      <3>3. msg[j] # msg[k]
        BY <2>2, <3>2
      <3>4. executed'[msg[j]] = executed[msg[j]]
        BY <1>5, <3>1, <3>3
      <3> QED BY <1>3, <2>2, <3>1, <3>4
    <2> QED BY <2>1, <2>2
  <1>10. ExecutedByOwner'
    <2> SUFFICES ASSUME NEW m \in Messages, NEW j \in executed'[m]
                 PROVE  /\ records[m].by = j /\ msg[j] = m /\ m \in inbox
                        /\ pc'[j] \in {"agent", "complete", "done", "lost"}
      BY <1>1 DEF ExecutedByOwner
    <2>1. CASE j \in executed[m]
      <3>1. j \in Requests
        BY <2>1 DEF GateTypeOK
      <3> QED BY <1>1, <1>3, <2>1, <3>1 DEF ExecutedByOwner
    <2>2. CASE j \notin executed[m]
      <3>1. m = msg[k] /\ j = k /\ place = "agent" /\ m # NoMessageID
        BY <1>5, <2>2
      <3>2. records[m] = Reservation(k) /\ records[m].by = k /\ m \in inbox
        BY <1>8, <3>1 DEF Reservation
      <3> QED BY <1>3, <3>1, <3>2
    <2> QED BY <2>1, <2>2
  <1>11. ResponsesOfOwner'
    <2>1. \A m \in Messages : records[m].response # "none" => records[m].by \in Requests
      BY RecordFacts DEF NoRecord
    <2>2. \A j \in Requests : answer[j].kind \in Outcomes => answer[j].from \in Requests
      BY DEF GateTypeOK, NoAnswer, Refused, Outcomes, Replayed, Answers
    <2>3. \A m \in Messages : records[m].response # "none" =>
             outcome'[records[m].by] = records[m].response /\ pc'[records[m].by] = "done"
      BY <1>6, <2>1 DEF ResponsesOfOwner
    <2>4. \A j \in Requests : answer[j].kind \in Outcomes /\ msg[j] # NoMessageID =>
             /\ records[msg[j]].by = answer[j].from
             /\ answer[j].kind = outcome'[answer[j].from]
             /\ pc'[answer[j].from] = "done"
      BY <1>6, <2>2 DEF ResponsesOfOwner
    <2>5. \A j \in Requests : outcome'[j] = "task" /\ msg[j] # NoMessageID =>
             j \in executed'[msg[j]]
      <3> SUFFICES ASSUME NEW j \in Requests, outcome'[j] = "task", msg[j] # NoMessageID
                   PROVE  j \in executed'[msg[j]]
        OBVIOUS
      <3>1. outcome[j] = "task"
        BY <1>4
      <3>2. j \in executed[msg[j]] /\ msg[j] \in Messages
        BY <3>1 DEF ResponsesOfOwner, GateTypeOK, IDs
      <3> QED BY <1>5, <3>2
    <2> QED BY <1>1, <1>3, <2>3, <2>4, <2>5 DEF ResponsesOfOwner
  <1>12. RequestsInOrder'
    BY <1>1, <1>3, <1>4 DEF RequestsInOrder
  <1> QED BY <1>7, <1>9, <1>10, <1>11, <1>12

\* AgentReplies preserves DedupInv: only the owner learns an outcome.
LEMMA AgentRepliesStep ==
    ASSUME DedupInv, NEW k \in Requests, NEW result \in Outcomes, AgentReplies(k, result)
    PROVE  DedupInv'
  <1> USE DEF DedupInv
  <1>1. /\ pc[k] = "agent" /\ msg[k] \in IDs
        /\ UNCHANGED <<paired, records, inbox, msg, connected, executed>>
    BY DEF AgentReplies, GateTypeOK
  <1>2. /\ pc' \in [Requests -> Places] /\ pc'[k] = "complete" /\ answer' = answer
        /\ \A j \in Requests : j # k => pc'[j] = pc[j]
    BY DEF AgentReplies, Continue, GateTypeOK, Places, Running, Owning
  <1>3. /\ outcome' \in [Requests -> Outcomes \cup {"none"}] /\ outcome'[k] = result
        /\ \A j \in Requests : j # k => outcome'[j] = outcome[j]
    BY DEF AgentReplies, GateTypeOK
  <1>4. GateTypeOK'
    BY <1>1, <1>2, <1>3 DEF GateTypeOK
  <1>5. OwnersHoldRecord'
    BY <1>1, <1>2 DEF OwnersHoldRecord, Owning
  <1>6. ExecutedByOwner'
    BY <1>1, <1>2 DEF ExecutedByOwner, GateTypeOK
  <1>7. \A j \in Requests : pc[j] = "done" => pc'[j] = "done" /\ outcome'[j] = outcome[j]
    BY <1>1, <1>2, <1>3
  <1>8. ResponsesOfOwner'
    <2>1. \A m \in Messages : records[m].response # "none" => records[m].by \in Requests
      BY RecordFacts DEF NoRecord
    <2>2. \A j \in Requests : answer[j].kind \in Outcomes => answer[j].from \in Requests
      BY DEF GateTypeOK, NoAnswer, Refused, Outcomes, Replayed, Answers
    <2>3. msg[k] # NoMessageID => k \in executed[msg[k]]
      BY <1>1 DEF OwnersHoldRecord, Owning
    <2> QED BY <1>1, <1>2, <1>3, <1>7, <2>1, <2>2, <2>3 DEF ResponsesOfOwner
  <1>9. RequestsInOrder'
    BY <1>1, <1>2, <1>3 DEF RequestsInOrder
  <1> QED BY <1>4, <1>5, <1>6, <1>8, <1>9

\* Complete preserves DedupInv: the owner stores and reports its own outcome.
LEMMA CompleteStep ==
    ASSUME DedupInv, NEW k \in Requests, Complete(k)
    PROVE  DedupInv'
  <1> USE DEF DedupInv
  <1> DEFINE a == Response(outcome[k], k)
             n == msg[k]
  <1>1. /\ pc[k] = "complete" /\ n \in IDs /\ answer[k] = NoAnswer
        /\ UNCHANGED <<paired, inbox, msg, connected, outcome, executed>>
    BY DEF Complete, RequestsInOrder, GateTypeOK
  <1>2. outcome[k] \in Outcomes
    BY <1>1 DEF RequestsInOrder
  <1>3. a \in Answers /\ a.kind = outcome[k] /\ a.from = k /\ a.kind # "working"
    BY <1>2 DEF Answers, Response, Outcomes, Replayed
  <1>4. Respond(k, a)
    BY DEF Complete
  <1> HIDE DEF a
  <1>5. Moves(k, "done", a) /\ "done" \in Places
    BY <1>4, RespondMoves DEF Places
  <1>6. /\ pc' \in [Requests -> Places]
        /\ answer' \in [Requests -> Answers \cup {NoAnswer, Refused}]
        /\ pc'[k] = "done" /\ answer'[k] = a
        /\ \A j \in Requests : j # k => pc'[j] = pc[j] /\ answer'[j] = answer[j]
    BY <1>3, <1>5, MovesFacts
  <1>7. ASSUME n # NoMessageID
        PROVE  /\ n \in Messages /\ records[n] = Reservation(k)
               /\ records[n].by = k
    <2>1. n \in Messages /\ records[n] = Reservation(k)
      BY <1>1, <1>7 DEF OwnersHoldRecord, Owning, IDs
    <2> QED BY <2>1 DEF Reservation
  <1>8. CASE records' = records
    <2>1. a.kind \in Outcomes /\ msg[k] # NoMessageID =>
             records[msg[k]].by = a.from /\ a.kind = outcome[a.from]
      BY <1>3, <1>7
    <2>2. pc[k] \in Running /\ inbox' = inbox /\ inbox' \subseteq Messages /\ "done" \notin Owning
      BY <1>1 DEF Running, Owning, GateTypeOK
    <2> QED BY <1>1, <1>3, <1>5, <1>8, <2>1, <2>2, MoveStep
  <1>9. ASSUME n # NoMessageID, NEW id \in TaskIDFromResponse(outcome[k]),
               records' = [records EXCEPT ![n].task = id, ![n].response = outcome[k]]
        PROVE  DedupInv'
    <2>1. PICK r : r = [by |-> k, task |-> id, response |-> outcome[k]]
      OBVIOUS
    <2>2. /\ r \in Record /\ r.by = k /\ r.response = outcome[k]
          /\ r.response \notin Replayed => r.task = "reserved"
      BY <1>2, <1>9, <2>1 DEF Record, TaskIDFromResponse, TaskIDs
    <2>3. records' = [records EXCEPT ![n] = r]
      <3>1. [[records[n] EXCEPT !.task = id] EXCEPT !.response = outcome[k]] = r
        <4>1. records[n] = [by |-> k, task |-> "reserved", response |-> "none"]
          BY <1>7, <1>9 DEF Reservation
        <4>2. [records[n] EXCEPT !.task = id] = [by |-> k, task |-> id, response |-> "none"]
          BY <4>1
        <4>3. ASSUME NEW t, t = [by |-> k, task |-> id, response |-> "none"]
              PROVE  [t EXCEPT !.response = outcome[k]] = r
          BY <2>1, <4>3
        <4> QED BY <4>2, <4>3
      <3>2. records' = [records EXCEPT ![n] =
                           [[records[n] EXCEPT !.task = id] EXCEPT !.response = outcome[k]]]
        BY <1>7, <1>9 DEF GateTypeOK
      <3> QED BY <3>1, <3>2
    <2>4. /\ records' \in [Messages -> Record \cup {NoRecord}] /\ records'[n] = r
          /\ \A m \in Messages : m # n => records'[m] = records[m]
      <3>1. n \in Messages /\ records \in [Messages -> Record \cup {NoRecord}]
        BY <1>7, <1>9 DEF GateTypeOK
      <3> QED BY <2>2, <2>3, <3>1
    <2>5. \A m \in Messages : records'[m].by = records[m].by
      BY <1>7, <1>9, <2>2, <2>4
    <2>6. GateTypeOK'
      BY <1>1, <1>6, <2>4 DEF GateTypeOK
    <2>7. OwnersHoldRecord'
      <3> SUFFICES ASSUME NEW j \in Requests, pc'[j] \in Owning, msg[j] # NoMessageID
                   PROVE  /\ records'[msg[j]] = Reservation(j)
                          /\ pc'[j] \in {"inbox", "forward"} => executed[msg[j]] = {}
                          /\ pc'[j] = "agent" => j \in executed[msg[j]]
                          /\ pc'[j] # "inbox" => msg[j] \in inbox
        BY <1>1 DEF OwnersHoldRecord
      <3>1. j # k
        BY <1>6 DEF Owning
      <3>2. /\ records[msg[j]] = Reservation(j) /\ msg[j] \in Messages
            /\ pc'[j] \in {"inbox", "forward"} => executed[msg[j]] = {}
            /\ pc'[j] = "agent" => j \in executed[msg[j]]
            /\ pc'[j] # "inbox" => msg[j] \in inbox
        BY <1>6, <3>1 DEF OwnersHoldRecord, GateTypeOK, IDs
      <3>3. records[msg[j]].by = j
        BY <3>2 DEF Reservation
      <3>4. msg[j] # n
        BY <1>7, <1>9, <3>1, <3>3
      <3> QED BY <2>4, <3>2, <3>4
    <2>8. ExecutedByOwner'
      <3> SUFFICES ASSUME NEW m \in Messages, NEW j \in executed[m]
                   PROVE  /\ records'[m].by = j /\ msg[j] = m /\ m \in inbox
                          /\ pc'[j] \in {"agent", "complete", "done", "lost"}
        BY <1>1 DEF ExecutedByOwner
      <3>1. j \in Requests
        BY DEF GateTypeOK
      <3> QED BY <1>6, <2>5, <3>1 DEF ExecutedByOwner
    <2>9. ResponsesOfOwner'
      <3>1. \A j \in Requests : pc[j] = "done" => pc'[j] = "done"
        BY <1>6
      <3>2. \A m \in Messages : records'[m].response # "none" =>
               /\ outcome[records'[m].by] = records'[m].response
               /\ pc'[records'[m].by] = "done"
        <4> SUFFICES ASSUME NEW m \in Messages, records'[m].response # "none"
                     PROVE  /\ outcome[records'[m].by] = records'[m].response
                            /\ pc'[records'[m].by] = "done"
          OBVIOUS
        <4>1. CASE m = n
          BY <1>6, <2>2, <2>4, <4>1
        <4>2. CASE m # n
          <5>1. records[m].response # "none" /\ records'[m] = records[m]
            BY <2>4, <4>2
          <5>2. records[m].by \in Requests
            BY <5>1, RecordFacts DEF NoRecord
          <5> QED BY <3>1, <5>1, <5>2 DEF ResponsesOfOwner
        <4> QED BY <4>1, <4>2
      <3>3. ASSUME NEW j \in Requests, answer'[j].kind \in Outcomes, msg[j] # NoMessageID
            PROVE  /\ records'[msg[j]].by = answer'[j].from
                   /\ answer'[j].kind = outcome[answer'[j].from]
                   /\ pc'[answer'[j].from] = "done"
        <4>1. msg[j] \in Messages
          BY <3>3 DEF GateTypeOK, IDs
        <4>2. CASE j = k
          BY <1>3, <1>6, <2>2, <2>4, <4>2
        <4>3. CASE j # k
          <5>1. answer'[j] = answer[j]
            BY <1>6, <4>3
          <5>2. answer[j].from \in Requests
            BY <3>3, <5>1 DEF GateTypeOK, NoAnswer, Refused, Outcomes, Replayed, Answers
          <5>3. /\ records[msg[j]].by = answer[j].from /\ answer[j].kind = outcome[answer[j].from]
                /\ pc[answer[j].from] = "done"
            BY <3>3, <5>1 DEF ResponsesOfOwner
          <5> QED BY <2>5, <3>1, <4>1, <5>1, <5>2, <5>3
        <4> QED BY <4>2, <4>3
      <3>4. \A m \in Messages : records'[m] # NoRecord /\ records'[m].response \notin Replayed =>
               records'[m].task = "reserved"
        BY <2>2, <2>4 DEF ResponsesOfOwner
      <3>5. \A j \in Requests : answer'[j].kind = "working" => answer'[j].task = "reserved"
        BY <1>3, <1>6 DEF ResponsesOfOwner
      <3> QED BY <1>1, <3>2, <3>3, <3>4, <3>5 DEF ResponsesOfOwner
    <2>10. RequestsInOrder'
      <3> SUFFICES ASSUME NEW j \in Requests
                   PROVE  /\ answer'[j] # NoAnswer => pc'[j] = "done"
                          /\ pc'[j] \in {"lookup", "reserve", "inbox"} => msg[j] # NoMessageID
                          /\ pc'[j] = "complete" => outcome[j] \in Outcomes
                          /\ pc'[j] = "idle" => outcome[j] = "none" /\ msg[j] = NoMessageID
                          /\ \A m \in Messages : records'[m].by = j =>
                                msg[j] = m /\ pc'[j] \notin {"idle", "lookup", "reserve"}
        BY <1>1 DEF RequestsInOrder
      <3>1. \A m \in Messages : records'[m].by = j => msg[j] = m /\ (pc[j] \notin {"idle", "lookup", "reserve"})
        BY <2>5 DEF RequestsInOrder
      <3> QED BY <1>6, <3>1 DEF RequestsInOrder
    <2> QED BY <2>6, <2>7, <2>8, <2>9, <2>10
  <1> QED BY <1>8, <1>9 DEF Complete

\* Restart preserves DedupInv: the goroutines are lost, the records stay.
LEMMA RestartStep ==
    ASSUME DedupInv, Restart
    PROVE  DedupInv'
  <1> USE DEF DedupInv
  <1>1. /\ UNCHANGED <<paired, records, inbox, msg, outcome, answer, executed>>
        /\ connected' \subseteq connected
        /\ pc' = [k \in Requests |-> IF pc[k] \in Running THEN "lost" ELSE pc[k]]
    BY DEF Restart
  <1>2. /\ pc' \in [Requests -> Places]
        /\ \A k \in Requests : \/ pc'[k] = "lost" /\ pc[k] \in Running
                               \/ pc'[k] = pc[k] /\ pc[k] \notin Running
    BY <1>1 DEF GateTypeOK, Places
  <1>3. \A k \in Requests : pc'[k] \notin Running /\ (pc[k] = "done" => pc'[k] = "done")
    BY <1>2 DEF Running, Owning
  <1>4. GateTypeOK'
    BY <1>1, <1>2 DEF GateTypeOK
  <1>5. OwnersHoldRecord'
    BY <1>3 DEF OwnersHoldRecord, Running
  <1>6. ExecutedByOwner'
    <2>1. \A m \in Messages, k \in Requests : k \in executed[m] =>
             /\ records[m].by = k /\ msg[k] = m /\ m \in inbox
             /\ pc'[k] \in {"agent", "complete", "done", "lost"}
      BY <1>2 DEF ExecutedByOwner
    <2>2. \A m \in Messages : executed[m] \subseteq Requests
      BY DEF GateTypeOK
    <2> QED BY <1>1, <2>1, <2>2 DEF ExecutedByOwner
  <1>7. ResponsesOfOwner'
    <2>1. \A m \in Messages : records[m].response # "none" => records[m].by \in Requests
      BY RecordFacts DEF NoRecord
    <2>2. \A j \in Requests : answer[j].kind \in Outcomes => answer[j].from \in Requests
      BY DEF GateTypeOK, NoAnswer, Refused, Outcomes, Replayed, Answers
    <2> QED BY <1>1, <1>3, <2>1, <2>2 DEF ResponsesOfOwner
  <1>8. RequestsInOrder'
    BY <1>1, <1>2, <1>3 DEF RequestsInOrder, Running, Owning
  <1> QED BY <1>4, <1>5, <1>6, <1>7, <1>8

\* Steps that change only who is connected or paired preserve DedupInv.
LEMMA AroundStep ==
    ASSUME DedupInv, GateTypeOK',
           UNCHANGED <<records, inbox, pc, msg, outcome, answer, executed>>
    PROVE  DedupInv'
  BY DEF DedupInv, OwnersHoldRecord, ExecutedByOwner, ResponsesOfOwner, RequestsInOrder

-----------------------------------------------------------------------------
(* The invariant is inductive *)

\* DedupInv holds before the first request.
LEMMA DedupInit ==
    ASSUME GateInit
    PROVE  DedupInv
  BY DEF GateInit, DedupInv, GateTypeOK, OwnersHoldRecord, ExecutedByOwner, ResponsesOfOwner,
         RequestsInOrder, IDs, Places, Running, Owning, Outcomes, Replayed, NoRecord, NoAnswer

\* DedupInv is inductive: every call of serveA2AWithDedup, every lost connection
\* and every restart preserves it.
LEMMA DedupInductive ==
    ASSUME DedupInv, [GateNext]_gateVars
    PROVE  DedupInv'
  <1>1. ASSUME NEW k \in Requests, NEW m \in IDs, Receive(k, m)
        PROVE  DedupInv'
    BY <1>1, ReceiveStep
  <1>2. ASSUME NEW k \in Requests, Step(k)
        PROVE  DedupInv'
    BY <1>2, LookupStep, ReserveStep, RecordInboxStep, ForwardStep, CompleteStep,
       AgentRepliesStep DEF Step
  <1>3. ASSUME NEW k \in Requests, Disconnect(k)
        PROVE  DedupInv'
    BY <1>3, AroundStep DEF Disconnect, DedupInv, GateTypeOK
  <1>4. CASE Restart
    BY <1>4, RestartStep
  <1>5. ASSUME NEW active \in BOOLEAN, SetPaired(active)
        PROVE  DedupInv'
    BY <1>5, AroundStep DEF SetPaired, DedupInv, GateTypeOK
  <1>6. CASE UNCHANGED gateVars
    BY <1>6, AroundStep DEF gateVars, DedupInv, GateTypeOK
  <1> QED BY <1>1, <1>2, <1>3, <1>4, <1>5, <1>6 DEF GateNext

\* A record, once written, keeps its owner, and a stored response stays.
LEMMA RecordsKept ==
    ASSUME DedupInv, [GateNext]_gateVars, NEW n \in Messages, records[n] # NoRecord
    PROVE  /\ records'[n].by = records[n].by
           /\ records[n].response # "none" => records'[n] = records[n]
  <1> DEFINE Final == \A m \in Messages : records[m] # NoRecord =>
                 /\ records'[m].by = records[m].by
                 /\ records[m].response # "none" => records'[m] = records[m]
  <1>1. ASSUME records' = records
        PROVE  Final
    BY <1>1
  <1>2. ASSUME NEW k \in Requests, Reserve(k)
        PROVE  Final
    <2>1. msg[k] \in Messages
      BY <1>2 DEF Reserve, DedupInv, RequestsInOrder, GateTypeOK, IDs
    <2>2. \/ records' = records
          \/ /\ records[msg[k]] = NoRecord
             /\ records' = [records EXCEPT ![msg[k]] = Reservation(k)]
      BY <1>2 DEF Reserve
    <2> QED BY <2>1, <2>2 DEF DedupInv, GateTypeOK
  <1>3. ASSUME NEW k \in Requests, Complete(k)
        PROVE  Final
    <2>1. CASE records' = records
      BY <2>1
    <2>2. CASE /\ msg[k] # NoMessageID
               /\ \E id \in TaskIDFromResponse(outcome[k]) :
                     records' = [records EXCEPT ![msg[k]].task = id,
                                                ![msg[k]].response = outcome[k]]
      <3>1. msg[k] \in Messages /\ records[msg[k]] = Reservation(k)
        BY <1>3, <2>2 DEF Complete, DedupInv, OwnersHoldRecord, Owning, GateTypeOK, IDs
      <3>2. records[msg[k]].response = "none"
        BY <3>1 DEF Reservation
      <3>3. \A m \in Messages : m # msg[k] => records'[m] = records[m]
        BY <2>2, <3>1 DEF DedupInv, GateTypeOK
      <3>4. records'[msg[k]].by = records[msg[k]].by
        BY <2>2, <3>1 DEF DedupInv, GateTypeOK
      <3> QED BY <3>1, <3>2, <3>3, <3>4
    <2> QED BY <1>3, <2>1, <2>2 DEF Complete
  <1> HIDE DEF Final
  <1>4. Final
    BY <1>1, <1>2, <1>3 DEF GateNext, gateVars, Receive, Step, Lookup, RecordInbox,
                                Forward, AgentReplies, Disconnect, Restart, SetPaired
  <1> QED BY <1>4 DEF Final

-----------------------------------------------------------------------------
(* Theorems *)

\* DedupInv holds throughout: whatever the calls of concurrent requests, lost
\* connections and restarts do between each other.
THEOREM DedupInvariant == GateSpec => []DedupInv
  <1> QED BY DedupInit, DedupInductive, PTL DEF GateSpec

\* However many requests carry a message id, the local agent is handed it at
\* most once.
THEOREM AtMostOnce == GateSpec => []ExecutedAtMostOnce
  <1>1. DedupInv => ExecutedAtMostOnce
    BY DEF DedupInv, ExecutedByOwner, ExecutedAtMostOnce
  <1> QED BY <1>1, DedupInvariant, PTL

\* A message the agent works on is in the inbox.
THEOREM InboxFirst == GateSpec => []ExecutedIsInInbox
  <1>1. DedupInv => ExecutedIsInInbox
    BY DEF DedupInv, ExecutedByOwner, ExecutedIsInInbox
  <1> QED BY <1>1, DedupInvariant, PTL

\* All responses reported for a message id are the same.
THEOREM OneAnswer == GateSpec => []AnswersAgree
  <1>1. ASSUME DedupInv, NEW j \in Requests, NEW k \in Requests,
               msg[j] = msg[k], msg[j] # NoMessageID,
               answer[j].kind \in Outcomes, answer[k].kind \in Outcomes
        PROVE  /\ answer[j] = answer[k]
               /\ answer[j].kind = "task" => answer[j].from \in executed[msg[j]]
    <2>1. /\ records[msg[j]].by = answer[j].from /\ records[msg[k]].by = answer[k].from
          /\ answer[j].kind = outcome[answer[j].from]
          /\ answer[k].kind = outcome[answer[k].from]
      BY <1>1 DEF DedupInv, ResponsesOfOwner
    <2>2. answer[j] \in Answers /\ answer[k] \in Answers
      BY <1>1 DEF DedupInv, GateTypeOK, NoAnswer, Refused, Outcomes, Replayed
    <2>3. answer[j] = answer[k]
      <3>1. ASSUME NEW i \in {j, k}
            PROVE  answer[i] = [kind |-> answer[i].kind, from |-> answer[i].from, task |-> "none"]
        BY <1>1, <2>2 DEF Answers, Outcomes, Replayed
      <3> QED BY <1>1, <2>1, <3>1
    <2>4. msg[j] \in Messages /\ answer[j].from \in Requests
      BY <1>1, <2>2 DEF DedupInv, GateTypeOK, IDs, Answers
    <2>5. msg[answer[j].from] = msg[j]
      BY <1>1, <2>1, <2>4 DEF DedupInv, RequestsInOrder
    <2>6. answer[j].kind = "task" => answer[j].from \in executed[msg[j]]
      BY <1>1, <2>1, <2>4, <2>5 DEF DedupInv, ResponsesOfOwner
    <2> QED BY <2>3, <2>6
  <1>2. DedupInv => AnswersAgree
    BY <1>1 DEF AnswersAgree
  <1> QED BY <1>2, DedupInvariant, PTL

\* A stored response is final and a record keeps its owner.
THEOREM FinalRecords == GateSpec => RecordsAreFinal
  <1>1. DedupInv /\ [GateNext]_gateVars =>
          [\A m \in Messages : records[m] # NoRecord =>
              /\ records'[m].by = records[m].by
              /\ records[m].response # "none" => records'[m] = records[m]]_gateVars
    BY RecordsKept
  <1> QED BY <1>1, DedupInvariant, PTL DEF GateSpec, RecordsAreFinal

=============================================================================
