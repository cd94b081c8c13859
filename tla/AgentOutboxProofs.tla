-------------------------- MODULE AgentOutboxProofs --------------------------
(***************************************************************************)
(* What holds of AgentOutbox for every set of tasks, envelopes and clients *)
(* and every bound: its types, the receipt handler over crashes, and what  *)
(* the outbox rows say about the relay.                                    *)
(***************************************************************************)
EXTENDS AgentOutbox, TLAPS

\* The outbox operations keep a row's status one of the five the code writes.
LEMMA OutboxOpsTyped ==
  ASSUME NEW ob \in [Envelope -> OutboxStatus], NEW e
  PROVE  /\ InsertOutboxPending(ob, e) \in [Envelope -> OutboxStatus]
         /\ MarkOutboxAccepted(ob, e) \in [Envelope -> OutboxStatus]
         /\ MarkOutboxFailed(ob, e) \in [Envelope -> OutboxStatus]
         /\ MarkOutboxDelivered(ob, e) \in [Envelope -> OutboxStatus]
BY DEF InsertOutboxPending, MarkOutboxAccepted, MarkOutboxFailed, MarkOutboxDelivered,
       UpdateOutbox, OutboxStatus

-----------------------------------------------------------------------------
(* Types.                                                                   *)

\* A recovery runs on the client its task joined; a call past its connection
\* has an envelope and holds a client.
CallHasClient ==
  \A t \in Task :
    /\ pc[t] = "recovering" => current \in Client
    /\ pc[t] \in {"resolving", "waiting", "acked", "refused"} =>
         job[t] \in Envelope /\ using[t] \in Client

\* The type invariant is inductive only together with CallHasClient: a frame or
\* an ack is typed because the call that makes it has an envelope.
TypeInv == OutboxTypeOK /\ CallHasClient

\* Type correctness of the send path, of the receipt handler and of the tables
\* they write (plenipo/runtime/agent.py, store.py), with what CallHasClient adds.
THEOREM TypeInvariant == Spec => []TypeInv
<1> USE OutboxAssumption, NoEnvelopeAssumption
<1>1. Init => TypeInv
  BY DEF Init, LedgerInit, TypeInv, CallHasClient, OutboxTypeOK, LedgerTypeOK, EmptyOutbox,
         OutboxStatus, Idle, HandlerStage, TaskState, ClientState
<1>2. TypeInv /\ [Next]_vars => TypeInv'
  <2> SUFFICES ASSUME TypeInv, [Next]_vars PROVE TypeInv'
    OBVIOUS
  <2> USE DEF TypeInv, CallHasClient, OutboxTypeOK, LedgerTypeOK, ledgerVars, durableVars,
              taskVars, linkVars, relayVars
  <2>1. ASSUME NEW t \in Task, NEW e \in Envelope, CachedAck(t, e) PROVE TypeInv'
    BY <2>1, OutboxOpsTyped DEF CachedAck
  <2>2. ASSUME NEW t \in Task, NEW e \in Envelope, StartSend(t, e) PROVE TypeInv'
    BY <2>2, OutboxOpsTyped DEF StartSend, Connected, TaskState
  <2>3. ASSUME NEW t \in Task, NEW e \in Envelope, StartSendOffline(t, e) PROVE TypeInv'
    BY <2>3, OutboxOpsTyped DEF StartSendOffline, TaskState
  <2>4. ASSUME NEW t \in Task, StartConnect(t) PROVE TypeInv'
    BY <2>4, OutboxOpsTyped DEF StartConnect, TaskState
  <2>5. ASSUME NEW t \in Task, NEW c \in Client, Joined(t, c) PROVE TypeInv'
    BY <2>5, OutboxOpsTyped DEF Joined, TaskState, ClientState
  <2>6. ASSUME NEW t \in Task, Recovered(t) PROVE TypeInv'
    <3>1. CASE job[t] = NoEnvelope
      <4>1. Return(t) /\ UNCHANGED <<ledgerVars, linkVars, relayVars, sent, acked, crashes>>
        BY <2>6, <3>1 DEF Recovered
      <4> QED
        BY <2>6, <4>1 DEF Return, TaskState
    <3>2. CASE job[t] # NoEnvelope
      <4>1. ContinueSend(t) /\ UNCHANGED <<receipts, events, cursor, obs, relayLog, linkVars,
                                          relayVars, sent, acked, crashes>>
        BY <2>6, <3>2 DEF Recovered
      <4>2. outbox' \in [Envelope -> OutboxStatus]
        BY <4>1, OutboxOpsTyped DEF ContinueSend
      <4>3. pc[t] = "recovering"
        BY <2>6 DEF Recovered
      <4> QED
        BY <3>2, <4>1, <4>2, <4>3 DEF ContinueSend, TaskState
    <3> QED
      BY <3>1, <3>2
  <2>7. ASSUME NEW t \in Task, ConnectRaises(t) PROVE TypeInv'
    BY <2>7, OutboxOpsTyped DEF ConnectRaises, Return, TaskState
  <2>8. ASSUME NEW t \in Task, SendRaises(t) \/ RefuseSend(t) PROVE TypeInv'
    <3>1. FailSend(t)
      BY <2>8 DEF SendRaises, RefuseSend
    <3>2. outbox' \in [Envelope -> OutboxStatus]
      BY <3>1, OutboxOpsTyped DEF FailSend
    <3> QED
      BY <3>1, <3>2 DEF FailSend, Return, TaskState
  <2>9. ASSUME NEW t \in Task, Transmit(t) PROVE TypeInv'
    <3>1. /\ sent' \in 1..MaxTransmit
          /\ sent' \in 0..MaxTransmit
      BY <2>9 DEF Transmit
    <3>2. wire' \subseteq Frame
      BY <2>9, <3>1 DEF Transmit, Frame
    <3> QED
      BY <2>9, <3>1, <3>2 DEF Transmit, TaskState
  <2>10. ASSUME NEW t \in Task, NEW r \in replies, ReadReply(t, r) PROVE TypeInv'
    BY <2>10, OutboxOpsTyped DEF ReadReply, TaskState
  <2>11. ASSUME NEW t \in Task, FinishSend(t) PROVE TypeInv'
    <3>1. outbox' \in [Envelope -> OutboxStatus]
      BY <2>11, OutboxOpsTyped DEF FinishSend
    <3> QED
      BY <2>11, <3>1 DEF FinishSend, Return, TaskState
  <2>12. ASSUME NEW t \in Task, Cancel(t) PROVE TypeInv'
    BY <2>12, OutboxOpsTyped DEF Cancel, Return, TaskState
  <2>13. ASSUME NEW c \in Client, LinkFails(c) PROVE TypeInv'
    BY <2>13, OutboxOpsTyped DEF LinkFails, ClientState
  <2>14. ASSUME Disconnect PROVE TypeInv'
    BY <2>14, OutboxOpsTyped DEF Disconnect, Connected, ClientState
  <2>15. ASSUME NEW c \in Client, Disconnected(c) PROVE TypeInv'
    BY <2>15, OutboxOpsTyped DEF Disconnected, ClientState, TaskState
  <2>16. ASSUME NEW e \in Envelope, ReceiptArrives(e) PROVE TypeInv'
    BY <2>16, OutboxOpsTyped DEF ReceiptArrives, ObserveStore, UpsertReceipt, HandlerStage
  <2>17. ASSUME ObserverContinues PROVE TypeInv'
    <3>1. ObserveStep
      BY <2>17 DEF ObserverContinues
    <3>2. CASE ObserveMark
      <4>1. outbox' \in [Envelope -> OutboxStatus]
        BY <3>2, OutboxOpsTyped DEF ObserveMark
      <4> QED
        BY <2>17, <3>2, <4>1 DEF ObserverContinues, ObserveMark, HandlerStage
    <3>3. CASE ObserveEvent
      <4>1. events' \in Seq(SidecarEvent)
        <5>1. [type |-> "delivery_receipt", env |-> obs.env] \in SidecarEvent
          BY <3>3 DEF ObserveEvent, SidecarEvent, EventType
        <5> QED
          BY <3>3, <5>1 DEF ObserveEvent, InsertSidecarEvent
      <4> QED
        BY <2>17, <3>3, <4>1 DEF ObserverContinues, ObserveEvent, HandlerStage
    <3>4. CASE ObserveCursor
      BY <2>17, <3>4 DEF ObserverContinues, ObserveCursor, HandlerStage, Idle
    <3> QED
      BY <3>1, <3>2, <3>3, <3>4 DEF ObserveStep
  <2>18. ASSUME NEW f \in wire, NEW ok \in BOOLEAN, RelayHandles(f, ok) PROVE TypeInv'
    BY <2>18, OutboxOpsTyped DEF RelayHandles, Frame, Reply
  <2>19. ASSUME NEW e \in Envelope, RelayDelivers(e) PROVE TypeInv'
    BY <2>19, OutboxOpsTyped DEF RelayDelivers, RelayLogs
  <2>20. ASSUME Crash PROVE TypeInv'
    BY <2>20, OutboxOpsTyped DEF Crash, FreshProcess, Idle, HandlerStage, TaskState, ClientState
  <2>21. CASE UNCHANGED vars
    BY <2>21 DEF vars
  <2> HIDE DEF TypeInv
  <2> QED
    BY <2>1, <2>2, <2>3, <2>4, <2>5, <2>6, <2>7, <2>8, <2>9, <2>10, <2>11, <2>12, <2>13,
       <2>14, <2>15, <2>16, <2>17, <2>18, <2>19, <2>20, <2>21
       DEF Next, TaskStep, LinkStep, RelayStep
<1>3. QED
  BY <1>1, <1>2, PTL DEF Spec

\* Every variable of the send path stays in its type.
THEOREM TypeCorrect == Spec => []OutboxTypeOK
<1>1. TypeInv => OutboxTypeOK
  BY DEF TypeInv
<1> QED
  BY <1>1, TypeInvariant, PTL
-----------------------------------------------------------------------------
(* What a step does to the tables.                                          *)

\* No task is inside a handler after the step but the one that was, and no
\* table changes.
TablesStay == UNCHANGED <<outbox, receipts, events>> /\ obs' \in {obs, Idle}

\* send() makes sure of a row before it writes anything.
RowOpens ==
  /\ UNCHANGED <<receipts, events, obs>>
  /\ \E e \in Envelope : outbox' = InsertOutboxPending(outbox, e)

\* send() raises.
RowFails ==
  /\ UNCHANGED <<receipts, events, obs>>
  /\ \E t \in Task : /\ pc[t] \in {"resolving", "refused"}
                     /\ outbox' = MarkOutboxFailed(outbox, job[t])

\* send() has the ack of its envelope.
RowAccepted ==
  /\ UNCHANGED <<receipts, events, obs>>
  /\ \E t \in Task : pc[t] = "acked" /\ outbox' = MarkOutboxAccepted(outbox, job[t])

\* Every step of the system does one of these to the tables, or is a step of the
\* receipt handler, which only starts on a receipt the relay lists.
TableStep ==
  \/ TablesStay
  \/ RowOpens
  \/ RowFails
  \/ RowAccepted
  \/ \E e \in Logged : ObserveStore(e)
  \/ ObserveStep

\* The steps of the send path, sorted by what they do to the tables.
LEMMA TableSteps ==
  ASSUME TypeInv, [Next]_vars
  PROVE  TableStep
<1> USE DEF TableStep, ledgerVars, durableVars
<1>1. ASSUME NEW t \in Task, TaskStep(t) PROVE TableStep
  <2>1. CASE \E e \in Envelope : StartSend(t, e)
    BY <2>1 DEF StartSend, RowOpens
  <2>2. CASE Recovered(t)
    <3>1. CASE job[t] = NoEnvelope
      BY <2>2, <3>1 DEF Recovered, TablesStay
    <3>2. CASE job[t] # NoEnvelope
      BY <2>2, <3>2 DEF Recovered, ContinueSend, RowOpens, TypeInv, OutboxTypeOK
    <3> QED
      BY <3>1, <3>2
  <2>3. CASE SendRaises(t) \/ RefuseSend(t)
    BY <2>3 DEF SendRaises, RefuseSend, FailSend, RowFails
  <2>4. CASE FinishSend(t)
    BY <2>4 DEF FinishSend, RowAccepted
  <2>5. CASE \/ \E e \in Envelope : CachedAck(t, e) \/ StartSendOffline(t, e)
             \/ StartConnect(t)
             \/ \E c \in Client : Joined(t, c)
             \/ ConnectRaises(t)
             \/ Transmit(t)
             \/ \E r \in replies : ReadReply(t, r)
             \/ Cancel(t)
    BY <2>5 DEF CachedAck, StartSendOffline, StartConnect, Joined, ConnectRaises, Transmit,
                ReadReply, Cancel, TablesStay
  <2> QED
    BY <1>1, <2>1, <2>2, <2>3, <2>4, <2>5 DEF TaskStep
<1>2. ASSUME LinkStep PROVE TableStep
  BY <1>2 DEF LinkStep, LinkFails, Disconnected, Disconnect, ReceiptArrives,
              ObserverContinues, TablesStay
<1>3. ASSUME RelayStep \/ Crash PROVE TableStep
  BY <1>3 DEF RelayStep, RelayHandles, RelayDelivers, RelayLogs, Crash, TablesStay
<1>4. CASE UNCHANGED vars
  BY <1>4 DEF vars, TablesStay
<1> QED
  BY <1>1, <1>2, <1>3, <1>4 DEF Next

\* Which rows the outbox operations touch, and how.
LEMMA OutboxOpsRows ==
  ASSUME NEW ob \in [Envelope -> OutboxStatus], NEW e \in Envelope, NEW d \in Envelope
  PROVE  /\ InsertOutboxPending(ob, e)[d] = IF d = e /\ ob[d] = "none" THEN "pending" ELSE ob[d]
         /\ MarkOutboxAccepted(ob, e)[d] = IF d = e /\ ob[d] # "none" THEN "accepted" ELSE ob[d]
         /\ MarkOutboxFailed(ob, e)[d] = IF d = e /\ ob[d] # "none" THEN "failed" ELSE ob[d]
         /\ MarkOutboxDelivered(ob, e)[d] = IF d = e /\ ob[d] # "none" THEN "delivered" ELSE ob[d]
BY DEF InsertOutboxPending, MarkOutboxAccepted, MarkOutboxFailed, MarkOutboxDelivered, UpdateOutbox
-----------------------------------------------------------------------------
(* The receipt handler.                                                     *)

\* DeliveredIsStored and OneReceiptEvent with what makes them inductive: the
\* handler only works on a stored receipt, and only it writes events.
HandlerInv ==
  /\ DeliveredIsStored
  /\ OneReceiptEvent
  /\ obs.step # "idle" => obs.env \in receipts
  /\ \A i \in DOMAIN events : events[i].type = "delivery_receipt"

\* It holds of the empty tables,
LEMMA HandlerInvInit == Init => HandlerInv
BY DEF Init, LedgerInit, HandlerInv, DeliveredIsStored, OneReceiptEvent, EmptyOutbox, Idle

\* and every step keeps it.
LEMMA HandlerInvStep ==
  ASSUME TypeInv, HandlerInv, [Next]_vars
  PROVE  HandlerInv'
<1> USE NoEnvelopeAssumption DEF HandlerInv, DeliveredIsStored, OneReceiptEvent
<1>0. /\ outbox \in [Envelope -> OutboxStatus]
      /\ events \in Seq(SidecarEvent)
      /\ obs.step # "idle" => obs.env \in Envelope
  BY DEF TypeInv, OutboxTypeOK, LedgerTypeOK
<1>1. CASE TablesStay
  BY <1>1 DEF TablesStay, Idle
<1>2. CASE RowOpens
  <2>1. \A d \in Envelope : outbox'[d] = "delivered" => outbox[d] = "delivered"
    BY <1>0, <1>2, OutboxOpsRows DEF RowOpens
  <2> QED
    BY <1>2, <2>1 DEF RowOpens
<1>3. CASE RowFails \/ RowAccepted
  <2>1. PICK t \in Task :
          /\ pc[t] \in {"resolving", "refused", "acked"}
          /\ outbox' \in {MarkOutboxFailed(outbox, job[t]), MarkOutboxAccepted(outbox, job[t])}
    BY <1>3 DEF RowFails, RowAccepted
  <2>2. job[t] \in Envelope
    BY <2>1 DEF TypeInv, CallHasClient
  <2>3. \A d \in Envelope : outbox'[d] = "delivered" => outbox[d] = "delivered"
    BY <1>0, <2>1, <2>2, OutboxOpsRows
  <2> QED
    BY <1>3, <2>3 DEF RowFails, RowAccepted
<1>4. ASSUME NEW e \in Logged, ObserveStore(e) PROVE HandlerInv'
  BY <1>4 DEF ObserveStore, UpsertReceipt
<1>5. CASE ObserveMark
  <2>1. obs.env \in Envelope /\ obs.env \in receipts
    BY <1>0, <1>5 DEF ObserveMark
  <2>2. \A d \in Envelope : outbox'[d] = "delivered" => d = obs.env \/ outbox[d] = "delivered"
    BY <1>0, <1>5, <2>1, OutboxOpsRows DEF ObserveMark
  <2> QED
    BY <1>5, <2>1, <2>2 DEF ObserveMark
<1>6. CASE ObserveEvent
  <2>1. obs.env \in Envelope /\ obs.env \in receipts
    BY <1>0, <1>6 DEF ObserveEvent
  <2>2. CASE HasSidecarEvent(events, obs.env, "delivery_receipt")
    BY <1>6, <2>1, <2>2 DEF ObserveEvent
  <2>3. CASE ~HasSidecarEvent(events, obs.env, "delivery_receipt")
    <3> DEFINE new == [type |-> "delivery_receipt", env |-> obs.env]
    <3>1. new \in SidecarEvent
      BY <2>1 DEF SidecarEvent, EventType
    <3>2. events' = Append(events, new)
      BY <1>6, <2>3 DEF ObserveEvent, InsertSidecarEvent
    <3>3. \A i \in DOMAIN events : events[i] # new
      BY <2>3 DEF HasSidecarEvent
    <3>4. /\ DOMAIN events' = 1..(Len(events) + 1)
          /\ DOMAIN events = 1..Len(events)
          /\ Len(events) \in Nat
          /\ \A i \in 1..Len(events) : events'[i] = events[i]
          /\ events'[Len(events) + 1] = new
      <4> HIDE DEF new
      <4> QED
        BY <1>0, <3>1, <3>2
    <3>5. /\ new.type = "delivery_receipt"
          /\ new.env \in receipts
      BY <2>1
    <3>6. obs'.env = obs.env /\ UNCHANGED <<outbox, receipts>>
      BY <1>6 DEF ObserveEvent
    <3> HIDE DEF new
    <3>7. \A i \in DOMAIN events' : events'[i].type = "delivery_receipt" /\ events'[i].env \in receipts
      BY <3>4, <3>5
    <3>8. \A i, j \in DOMAIN events' : events'[i] = events'[j] => i = j
      BY <3>3, <3>4
    <3> QED
      BY <2>1, <3>6, <3>7, <3>8
  <2> QED
    BY <2>2, <2>3
<1>7. CASE ObserveCursor
  BY <1>7 DEF ObserveCursor, Idle
<1> HIDE DEF HandlerInv
<1> QED
  BY <1>1, <1>2, <1>3, <1>4, <1>5, <1>6, <1>7, TableSteps
     DEF TableStep, ObserveStep

\* Wherever a crash falls in _observe_receipt: a row reads delivered, and an
\* event is told, only of a stored receipt.
THEOREM DeliveredRowsAreStored == Spec => []DeliveredIsStored
<1>1. Init /\ TypeInv => HandlerInv
  BY HandlerInvInit
<1>2. HandlerInv /\ TypeInv /\ [Next]_vars => HandlerInv'
  BY HandlerInvStep
<1>3. HandlerInv => DeliveredIsStored
  BY DEF HandlerInv
<1> QED
  BY <1>1, <1>2, <1>3, TypeInvariant, PTL DEF Spec

\* Live pushes, recovered pages and replays after a crash add one
\* delivery_receipt event for an envelope, never a second.
THEOREM ReceiptsAreToldOnce == Spec => []OneReceiptEvent
<1>1. Init /\ TypeInv => HandlerInv
  BY HandlerInvInit
<1>2. HandlerInv /\ TypeInv /\ [Next]_vars => HandlerInv'
  BY HandlerInvStep
<1>3. HandlerInv => OneReceiptEvent
  BY DEF HandlerInv
<1> QED
  BY <1>1, <1>2, <1>3, TypeInvariant, PTL DEF Spec
-----------------------------------------------------------------------------
(***************************************************************************)
(* Rows and the relay: write-ahead, no send skipped in error, acks matched *)
(* to their requests, no sender left on a closed client, and, for serial   *)
(* callers, no second charge after an ack.                                 *)
(***************************************************************************)

CallState == {"resolving", "waiting", "acked", "refused"}

\* A call past its connection has a row for its envelope.
CallHasRow == \A t \in Task : pc[t] \in CallState => outbox[job[t]] # "none"

\* Nothing is on its way or awaited under a ref that was not given out yet.
RefsWereGiven ==
  /\ \A t \in Task : pc[t] = "waiting" => ref[t] <= sent
  /\ \A f \in wire : f.ref <= sent
  /\ \A r \in replies : r.ref <= sent

\* The frame and the positive reply of an awaited ref belong to the call that
\* awaits it.
RefsAreOwn ==
  \A t \in Task : pc[t] = "waiting" =>
    /\ \A f \in wire : f.ref = ref[t] => f.env = job[t]
    /\ \A r \in replies : r.ref = ref[t] /\ r.ok => job[t] \in accepted

\* What the relay lists it accepted before, and what is stored it listed before.
StoredWasAccepted ==
  /\ Logged \subseteq accepted
  /\ receipts \subseteq Logged

\* WriteAhead, SettledIsAccepted and AckForOwnEnvelope, with what makes them
\* inductive, next to HandlerInv: a row is settled by an ack or by a receipt, so
\* both must be right.
RelayInv ==
  /\ WriteAhead
  /\ SettledIsAccepted
  /\ AckForOwnEnvelope
  /\ CallHasRow
  /\ RefsWereGiven
  /\ RefsAreOwn
  /\ StoredWasAccepted
-----------------------------------------------------------------------------
(* What a step does to the calls, the requests and the receipts.            *)

\* A call in progress was one before, for the same envelope, or has its row now.
LEMMA CallsKeepTheirJob ==
  ASSUME TypeInv, [Next]_vars, NEW t \in Task, pc'[t] \in CallState
  PROVE  \/ pc[t] \in CallState /\ job'[t] = job[t]
         \/ outbox'[job'[t]] # "none"
<1> DEFINE Goal == \/ pc[t] \in CallState /\ job'[t] = job[t]
                   \/ outbox'[job'[t]] # "none"
<1>0. /\ pc \in [Task -> TaskState]
      /\ job \in [Task -> Envelope \cup {NoEnvelope}]
      /\ outbox \in [Envelope -> OutboxStatus]
      /\ \A u \in Task : pc[u] \in CallState => job[u] \in Envelope
  BY DEF TypeInv, OutboxTypeOK, LedgerTypeOK, CallHasClient, CallState
<1>1. ASSUME NEW u \in Task, TaskStep(u) PROVE Goal
  <2>1. ASSUME NEW e \in Envelope, StartSend(u, e) PROVE Goal
    BY <1>0, <2>1 DEF StartSend, InsertOutboxPending, CallState
  <2>2. CASE Recovered(u)
    <3>1. CASE job[u] = NoEnvelope
      BY <1>0, <2>2, <3>1 DEF Recovered, Return, CallState
    <3>2. CASE job[u] # NoEnvelope
      BY <1>0, <2>2, <3>2 DEF Recovered, ContinueSend, InsertOutboxPending, CallState
    <3> QED
      BY <3>1, <3>2
  <2>3. CASE \/ \E e \in Envelope : CachedAck(u, e) \/ StartSendOffline(u, e)
             \/ StartConnect(u)
             \/ \E c \in Client : Joined(u, c)
             \/ \E r \in replies : ReadReply(u, r)
    BY <1>0, <2>3 DEF CachedAck, StartSendOffline, StartConnect, Joined, ReadReply, taskVars,
                      CallState
  <2>4. CASE ConnectRaises(u) \/ SendRaises(u) \/ FinishSend(u) \/ RefuseSend(u) \/ Cancel(u)
    BY <1>0, <2>4 DEF ConnectRaises, SendRaises, FinishSend, RefuseSend, Cancel, FailSend,
                      Return, CallState
  <2>5. CASE Transmit(u)
    BY <1>0, <2>5 DEF Transmit, CallState
  <2> QED
    BY <1>1, <2>1, <2>2, <2>3, <2>4, <2>5 DEF TaskStep
<1>2. CASE \E c \in Client : Disconnected(c)
  BY <1>0, <1>2 DEF Disconnected, CallState
<1>3. CASE Crash
  BY <1>3 DEF Crash, FreshProcess, CallState
<1>4. CASE \/ \E c \in Client : LinkFails(c)
           \/ Disconnect
           \/ \E e \in Envelope : ReceiptArrives(e)
           \/ ObserverContinues
           \/ RelayStep
           \/ UNCHANGED vars
  BY <1>4 DEF LinkFails, Disconnect, ReceiptArrives, ObserverContinues, RelayStep,
              RelayHandles, RelayDelivers, vars, taskVars
<1> QED
  BY <1>1, <1>2, <1>3, <1>4 DEF Next, LinkStep

\* No request is made or answered: calls that await a reply, or have one, are as
\* they were, or are gone.
RequestsStay ==
  /\ \A t \in Task : pc'[t] \in {"waiting", "acked"} =>
       pc'[t] = pc[t] /\ job'[t] = job[t] /\ ref'[t] = ref[t]
  /\ UNCHANGED <<wire, accepted, sent>>
  /\ replies' \subseteq replies

\* The steps of the send path, sorted by what they do to requests.
LEMMA RequestSteps ==
  ASSUME TypeInv, [Next]_vars
  PROVE  \/ RequestsStay
         \/ \E t \in Task : Transmit(t)
         \/ \E t \in Task, r \in replies : ReadReply(t, r)
         \/ \E f \in wire, ok \in BOOLEAN : RelayHandles(f, ok)
<1>0. /\ pc \in [Task -> TaskState]
      /\ job \in [Task -> Envelope \cup {NoEnvelope}]
      /\ ref \in [Task -> 0..MaxTransmit]
  BY DEF TypeInv, OutboxTypeOK
<1> USE <1>0 DEF RequestsStay, relayVars, taskVars
<1>1. ASSUME NEW t \in Task, TaskStep(t), ~Transmit(t), ~\E r \in replies : ReadReply(t, r)
      PROVE  RequestsStay
  <2>1. CASE \E e \in Envelope : CachedAck(t, e) \/ StartSend(t, e) \/ StartSendOffline(t, e)
    BY <2>1 DEF CachedAck, StartSend, StartSendOffline
  <2>2. CASE StartConnect(t) \/ (\E c \in Client : Joined(t, c))
    BY <2>2 DEF StartConnect, Joined
  <2>3. CASE Recovered(t)
    BY <2>3 DEF Recovered, ContinueSend, Return
  <2>4. CASE ConnectRaises(t) \/ SendRaises(t) \/ FinishSend(t) \/ RefuseSend(t) \/ Cancel(t)
    BY <2>4 DEF ConnectRaises, SendRaises, FinishSend, RefuseSend, Cancel, FailSend, Return
  <2> QED
    BY <1>1, <2>1, <2>2, <2>3, <2>4 DEF TaskStep
<1>2. CASE LinkStep
  <2>1. CASE \E c \in Client : LinkFails(c) \/ Disconnected(c)
    BY <2>1 DEF LinkFails, Disconnected
  <2> QED
    BY <1>2, <2>1 DEF LinkStep, Disconnect, ReceiptArrives, ObserverContinues
<1>3. CASE \E e \in Envelope : RelayDelivers(e)
  BY <1>3 DEF RelayDelivers
<1>4. CASE Crash
  BY <1>4 DEF Crash, FreshProcess
<1>5. CASE UNCHANGED vars
  BY <1>5 DEF vars
<1> QED
  BY <1>1, <1>2, <1>3, <1>4, <1>5 DEF Next, RelayStep

\* The list of receipts only grows, by receipts of accepted envelopes; a stored
\* receipt is one of the list.
LEMMA ReceiptSteps ==
  ASSUME TypeInv, [Next]_vars
  PROVE  /\ Logged \subseteq Logged'
         /\ Logged' \subseteq Logged \cup accepted
         /\ receipts \subseteq receipts'
         /\ receipts' \subseteq receipts \cup Logged
<1>0. relayLog \in Seq(Envelope)
  BY DEF TypeInv, OutboxTypeOK, LedgerTypeOK
<1>1. \/ relayLog' = relayLog
      \/ \E e \in accepted : relayLog' = Append(relayLog, e)
  <2> USE DEF ledgerVars
  <2>1. ASSUME NEW t \in Task, TaskStep(t) PROVE relayLog' = relayLog
    BY <2>1 DEF TaskStep, CachedAck, StartSend, StartSendOffline, StartConnect, Joined,
                Recovered, ConnectRaises, SendRaises, FailSend, Transmit, ReadReply,
                FinishSend, RefuseSend, Cancel
  <2>2. CASE LinkStep
    BY <2>2 DEF LinkStep, LinkFails, Disconnected, Disconnect, ReceiptArrives, ObserveStore,
                ObserverContinues, ObserveStep, ObserveMark, ObserveEvent, ObserveCursor
  <2>3. CASE RelayStep \/ Crash \/ UNCHANGED vars
    BY <2>3 DEF RelayStep, RelayHandles, RelayDelivers, RelayLogs, Crash, vars
  <2> QED
    BY <2>1, <2>2, <2>3 DEF Next
<1>2. Logged \subseteq Logged' /\ Logged' \subseteq Logged \cup accepted
  <2>1. CASE relayLog' = relayLog
    BY <2>1 DEF Logged
  <2>2. ASSUME NEW e \in accepted, relayLog' = Append(relayLog, e)
        PROVE  Logged' = Logged \cup {e}
    <3>1. e \in Envelope
      BY DEF TypeInv, OutboxTypeOK
    <3>2. /\ Len(relayLog) \in Nat
          /\ DOMAIN relayLog = 1..Len(relayLog)
          /\ DOMAIN relayLog' = 1..(Len(relayLog) + 1)
          /\ \A i \in 1..Len(relayLog) : relayLog'[i] = relayLog[i]
          /\ relayLog'[Len(relayLog) + 1] = e
      BY <1>0, <2>2, <3>1
    <3>3. ASSUME NEW x PROVE x \in Logged' <=> x \in Logged \cup {e}
      BY <3>2 DEF Logged
    <3> QED
      BY <3>3
  <2> QED
    BY <1>1, <2>1, <2>2
<1>3. /\ receipts \subseteq receipts'
      /\ receipts' \subseteq receipts \cup Logged
  BY TableSteps DEF TableStep, TablesStay, RowOpens, RowFails, RowAccepted, ObserveStore,
                    UpsertReceipt, ObserveStep, ObserveMark, ObserveEvent, ObserveCursor
<1> QED
  BY <1>2, <1>3

\* What a step does to one row: it never goes away, and it is settled only by
\* the ack of a call or by the receipt in the handler's hands.
LEMMA RowSteps ==
  ASSUME TypeInv, [Next]_vars, NEW e \in Envelope
  PROVE  /\ outbox[e] # "none" => outbox'[e] # "none"
         /\ outbox'[e] \in Settled =>
              \/ outbox[e] \in Settled
              \/ \E t \in Task : pc[t] = "acked" /\ job[t] = e
              \/ obs.step # "idle" /\ obs.env = e
<1>0. /\ outbox \in [Envelope -> OutboxStatus]
      /\ obs.step # "idle" => obs.env \in Envelope
      /\ \A t \in Task : pc[t] \in {"resolving", "acked", "refused"} => job[t] \in Envelope
  BY DEF TypeInv, OutboxTypeOK, LedgerTypeOK, CallHasClient
<1> USE <1>0, OutboxOpsRows DEF Settled
<1>1. CASE TablesStay
  BY <1>1 DEF TablesStay
<1>2. CASE RowOpens
  BY <1>2 DEF RowOpens
<1>3. CASE RowFails
  BY <1>3 DEF RowFails
<1>4. CASE RowAccepted
  BY <1>4 DEF RowAccepted
<1>5. CASE \/ \E d \in Logged : ObserveStore(d)
           \/ ObserveEvent \/ ObserveCursor
  BY <1>5 DEF ObserveStore, ObserveEvent, ObserveCursor
<1>6. CASE ObserveMark
  BY <1>6 DEF ObserveMark
<1> QED
  BY <1>1, <1>2, <1>3, <1>4, <1>5, <1>6, TableSteps DEF TableStep, ObserveStep
-----------------------------------------------------------------------------
\* RelayInv holds before anything was sent,
LEMMA RelayInvInit == Init => RelayInv
BY DEF Init, LedgerInit, RelayInv, WriteAhead, SettledIsAccepted, AckForOwnEnvelope,
       CallHasRow, RefsWereGiven, RefsAreOwn, StoredWasAccepted, EmptyOutbox, Settled, Logged,
       CallState

\* and every step keeps it.
LEMMA RelayInvStep ==
  ASSUME TypeInv, HandlerInv, RelayInv, [Next]_vars
  PROVE  RelayInv'
<1>0. /\ wire \subseteq Frame
      /\ replies \subseteq Reply
      /\ accepted \subseteq Envelope
      /\ sent \in Nat
      /\ pc \in [Task -> TaskState]
      /\ job \in [Task -> Envelope \cup {NoEnvelope}]
      /\ ref \in [Task -> 0..MaxTransmit]
      /\ \A t \in Task : pc[t] \in CallState => job[t] \in Envelope
  BY OutboxAssumption DEF TypeInv, OutboxTypeOK, CallHasClient, CallState
<1>1. CallHasRow'
  <2> SUFFICES ASSUME NEW t \in Task, pc'[t] \in CallState
               PROVE  outbox'[job'[t]] # "none"
    BY DEF CallHasRow
  <2>1. CASE pc[t] \in CallState /\ job'[t] = job[t]
    <3>1. job[t] \in Envelope /\ outbox[job[t]] # "none"
      BY <2>1 DEF RelayInv, CallHasRow, TypeInv, CallHasClient, CallState
    <3> QED
      BY <2>1, <3>1, RowSteps
  <2> QED
    BY <2>1, CallsKeepTheirJob
<1>3. WriteAhead'
  <2>1. CASE RequestsStay \/ \E t \in Task, r \in replies : ReadReply(t, r)
    <3>1. UNCHANGED <<wire, accepted>>
      BY <2>1 DEF RequestsStay, ReadReply
    <3> QED
      BY <1>0, <3>1, RowSteps DEF RelayInv, WriteAhead, Frame
  <2>2. ASSUME NEW t \in Task, Transmit(t) PROVE WriteAhead'
    <3>1. /\ outbox' = outbox
          /\ accepted' = accepted
          /\ wire' = wire \cup {[ref |-> sent', env |-> job[t]]}
          /\ pc[t] \in CallState
      BY <2>2 DEF Transmit, ledgerVars, CallState
    <3> QED
      BY <3>1 DEF RelayInv, WriteAhead, CallHasRow
  <2>3. ASSUME NEW f \in wire, NEW ok \in BOOLEAN, RelayHandles(f, ok) PROVE WriteAhead'
    BY <2>3 DEF RelayHandles, RelayInv, WriteAhead, ledgerVars
  <2> QED
    BY <2>1, <2>2, <2>3, RequestSteps
<1>4. accepted \subseteq accepted'
  BY RequestSteps DEF RequestsStay, Transmit, ReadReply, RelayHandles, relayVars
<1>5. SettledIsAccepted'
  <2> SUFFICES ASSUME NEW e \in Envelope, outbox'[e] \in Settled PROVE e \in accepted
    BY <1>4 DEF SettledIsAccepted, Settled
  <2>1. CASE outbox[e] \in Settled \/ \E t \in Task : pc[t] = "acked" /\ job[t] = e
    BY <2>1 DEF RelayInv, SettledIsAccepted, AckForOwnEnvelope
  <2>2. CASE obs.step # "idle" /\ obs.env = e
    BY <2>2 DEF HandlerInv, RelayInv, StoredWasAccepted
  <2> QED
    BY <2>1, <2>2, RowSteps
<1>6. StoredWasAccepted'
  BY <1>4, ReceiptSteps DEF RelayInv, StoredWasAccepted
<1>7. AckForOwnEnvelope' /\ RefsWereGiven' /\ RefsAreOwn'
  <2> USE DEF RelayInv, AckForOwnEnvelope, RefsWereGiven, RefsAreOwn
  <2>1. CASE RequestsStay
    BY <1>0, <2>1 DEF RequestsStay
  <2>2. ASSUME NEW t \in Task, Transmit(t)
        PROVE  AckForOwnEnvelope' /\ RefsWereGiven' /\ RefsAreOwn'
    <3>1. /\ sent' = sent + 1
          /\ wire' = wire \cup {[ref |-> sent', env |-> job[t]]}
          /\ ref' = [ref EXCEPT ![t] = sent']
          /\ pc' = [pc EXCEPT ![t] = "waiting"]
          /\ UNCHANGED <<job, replies, accepted>>
      BY <2>2 DEF Transmit
    <3>2. \A f \in wire : f.ref \in Nat /\ f.ref <= sent
      BY <1>0 DEF Frame
    <3>3. \A r \in replies : r.ref \in Nat /\ r.ref <= sent
      BY <1>0 DEF Reply
    <3>4. \A u \in Task : ref[u] \in Nat /\ (pc[u] = "waiting" => ref[u] <= sent)
      BY <1>0
    <3> QED
      BY <1>0, <3>1, <3>2, <3>3, <3>4
  <2>3. ASSUME NEW t \in Task, NEW r \in replies, ReadReply(t, r)
        PROVE  AckForOwnEnvelope' /\ RefsWereGiven' /\ RefsAreOwn'
    BY <1>0, <2>3 DEF ReadReply, taskVars
  <2>4. ASSUME NEW f \in wire, NEW ok \in BOOLEAN, RelayHandles(f, ok)
        PROVE  AckForOwnEnvelope' /\ RefsWereGiven' /\ RefsAreOwn'
    BY <1>0, <1>4, <2>4 DEF RelayHandles, taskVars
  <2> QED
    BY <2>1, <2>2, <2>3, <2>4, RequestSteps
<1> QED
  BY <1>1, <1>3, <1>5, <1>6, <1>7 DEF RelayInv

\* The invariants of the tables, the handler and the relay's view together.
LEMMA RelayInvariant == Spec => [](TypeInv /\ HandlerInv /\ RelayInv)
<1>1. Init => HandlerInv /\ RelayInv
  BY HandlerInvInit, RelayInvInit
<1>2. TypeInv /\ HandlerInv /\ RelayInv /\ [Next]_vars => HandlerInv' /\ RelayInv'
  BY HandlerInvStep, RelayInvStep
<1> QED
  BY <1>1, <1>2, TypeInvariant, PTL DEF Spec

\* Whatever the relay accepted or is about to see has an outbox row, over
\* crashes too (insert_outbox_pending before client.send).
THEOREM WriteAheadHolds == Spec => []WriteAhead
<1>1. RelayInv => WriteAhead
  BY DEF RelayInv
<1> QED
  BY <1>1, RelayInvariant, PTL

\* A row that makes send() answer on the spot is of an envelope the relay
\* accepted, whatever calls, receipts and crashes came before.
THEOREM SettledRowsWereAccepted == Spec => []SettledIsAccepted
<1>1. RelayInv => SettledIsAccepted
  BY DEF RelayInv
<1> QED
  BY <1>1, RelayInvariant, PTL

\* An ack resolves the future of the call whose envelope the relay accepted
\* (one ref per frame, _pending_replies).
THEOREM AcksAreForOwnEnvelope == Spec => []AckForOwnEnvelope
<1>1. RelayInv => AckForOwnEnvelope
  BY DEF RelayInv
<1> QED
  BY <1>1, RelayInvariant, PTL
-----------------------------------------------------------------------------
(* disconnect() and the senders.                                            *)

\* No sender starts to wait, none changes its client, and no client is closed.
WaitersStay ==
  /\ \A t \in Task : pc'[t] = "waiting" => pc[t] = "waiting" /\ using'[t] = using[t]
  /\ \A c \in Client : cstate'[c] = "off" => cstate[c] = "off"

\* The steps of the send path, sorted by what they do to waiting senders.
LEMMA WaiterSteps ==
  ASSUME TypeInv, [Next]_vars
  PROVE  \/ WaitersStay
         \/ \E t \in Task : Transmit(t)
         \/ \E c \in Client : Disconnected(c)
<1>0. /\ pc \in [Task -> TaskState]
      /\ using \in [Task -> Client \cup {NoClient}]
      /\ cstate \in [Client -> ClientState]
      /\ current \in Client \cup {NoClient}
  BY DEF TypeInv, OutboxTypeOK
<1> USE <1>0 DEF WaitersStay, linkVars, taskVars
<1>1. ASSUME NEW t \in Task, TaskStep(t), ~Transmit(t) PROVE WaitersStay
  <2>1. CASE \E e \in Envelope : CachedAck(t, e) \/ StartSend(t, e) \/ StartSendOffline(t, e)
    BY <2>1 DEF CachedAck, StartSend, StartSendOffline
  <2>2. CASE StartConnect(t) \/ (\E c \in Client : Joined(t, c))
    BY <2>2 DEF StartConnect, Joined
  <2>3. CASE Recovered(t) \/ \E r \in replies : ReadReply(t, r)
    BY <2>3 DEF Recovered, ContinueSend, Return, ReadReply
  <2>4. CASE ConnectRaises(t) \/ SendRaises(t) \/ FinishSend(t) \/ RefuseSend(t) \/ Cancel(t)
    BY <2>4 DEF ConnectRaises, SendRaises, FinishSend, RefuseSend, Cancel, FailSend, Return
  <2> QED
    BY <1>1, <2>1, <2>2, <2>3, <2>4 DEF TaskStep
<1>2. CASE (\E c \in Client : LinkFails(c)) \/ Disconnect
  BY <1>2 DEF LinkFails, Disconnect, Connected
<1>3. CASE \/ \E e \in Envelope : ReceiptArrives(e)
           \/ ObserverContinues
           \/ RelayStep
  BY <1>3 DEF ReceiptArrives, ObserverContinues, RelayStep, RelayHandles, RelayDelivers
<1>4. CASE Crash \/ UNCHANGED vars
  BY <1>4 DEF Crash, FreshProcess, vars
<1> QED
  BY <1>1, <1>2, <1>3, <1>4 DEF Next, LinkStep

\* disconnect() never leaves a sender awaiting a future only the reader of the
\* closed client could resolve (plenipo/client.py: disconnect fails them all).
THEOREM NoWaiterIsLeft == Spec => []NoWaiterOnClosedClient
<1>1. Init => NoWaiterOnClosedClient
  BY DEF Init, NoWaiterOnClosedClient
<1>2. TypeInv /\ NoWaiterOnClosedClient /\ [Next]_vars => NoWaiterOnClosedClient'
  <2> SUFFICES ASSUME TypeInv, NoWaiterOnClosedClient, [Next]_vars
               PROVE  NoWaiterOnClosedClient'
    OBVIOUS
  <2>0. /\ pc \in [Task -> TaskState]
        /\ cstate \in [Client -> ClientState]
        /\ \A t \in Task : pc[t] \in {"resolving", "waiting"} => using[t] \in Client
    BY DEF TypeInv, OutboxTypeOK, CallHasClient
  <2> USE <2>0 DEF NoWaiterOnClosedClient
  <2>1. CASE WaitersStay
    BY <2>1 DEF WaitersStay
  <2>2. ASSUME NEW t \in Task, Transmit(t) PROVE NoWaiterOnClosedClient'
    BY <2>2 DEF Transmit, Writable, linkVars
  <2>3. ASSUME NEW c \in Client, Disconnected(c) PROVE NoWaiterOnClosedClient'
    BY <2>3 DEF Disconnected
  <2> QED
    BY <2>1, <2>2, <2>3, WaiterSteps
<1> QED
  BY <1>1, <1>2, TypeInvariant, PTL DEF Spec
-----------------------------------------------------------------------------
(* Serial callers are charged once.                                         *)

\* Calls in progress are for different envelopes.
CallsApart ==
  \A t, u \in Task :
    t # u /\ pc[t] # "idle" /\ pc[u] # "idle" /\ job[t] \in Envelope => job[t] # job[u]

\* An envelope that was acked has a settled row, and no call that could still
\* write a frame for it or fail its row.
AckedIsOver ==
  \A e \in acked :
    /\ outbox[e] \in Settled
    /\ \A t \in Task : pc[t] # "idle" => job[t] # e

\* Nothing is acked, and no task begins or takes another envelope.
JobsStay ==
  /\ UNCHANGED acked
  /\ \A t \in Task : pc'[t] # "idle" => pc[t] # "idle" /\ job'[t] = job[t]

\* Task t begins with envelope e, or with none.
JobBegins(t, e) ==
  /\ pc[t] = "idle"
  /\ UNCHANGED acked
  /\ job' = [job EXCEPT ![t] = e]
  /\ \A u \in Task \ {t} : pc'[u] = pc[u]

\* The steps of the send path, sorted by what they do to jobs.
LEMMA JobSteps ==
  ASSUME TypeInv, [Next]_vars
  PROVE  \/ JobsStay
         \/ \E t \in Task : JobBegins(t, NoEnvelope)
         \/ \E t \in Task, e \in Envelope :
              MayCall(e) /\ outbox[e] \notin Settled /\ JobBegins(t, e)
         \/ \E t \in Task, e \in Envelope : CachedAck(t, e)
         \/ \E t \in Task : FinishSend(t)
<1>0. /\ pc \in [Task -> TaskState]
      /\ job \in [Task -> Envelope \cup {NoEnvelope}]
  BY DEF TypeInv, OutboxTypeOK
<1> USE <1>0 DEF JobsStay, JobBegins, taskVars
<1>1. ASSUME NEW t \in Task, TaskStep(t)
      PROVE  \/ JobsStay
             \/ JobBegins(t, NoEnvelope)
             \/ \E e \in Envelope : MayCall(e) /\ outbox[e] \notin Settled /\ JobBegins(t, e)
             \/ \E e \in Envelope : CachedAck(t, e)
             \/ FinishSend(t)
  <2>1. CASE \E e \in Envelope : StartSend(t, e) \/ StartSendOffline(t, e)
    BY <2>1 DEF StartSend, StartSendOffline
  <2>2. CASE StartConnect(t)
    BY <2>2 DEF StartConnect
  <2>3. CASE \/ \E c \in Client : Joined(t, c)
             \/ Recovered(t)
             \/ Transmit(t)
             \/ \E r \in replies : ReadReply(t, r)
    BY <2>3 DEF Joined, Recovered, ContinueSend, Return, Transmit, ReadReply
  <2>4. CASE ConnectRaises(t) \/ SendRaises(t) \/ RefuseSend(t) \/ Cancel(t)
    BY <2>4 DEF ConnectRaises, SendRaises, RefuseSend, Cancel, FailSend, Return
  <2> QED
    BY <1>1, <2>1, <2>2, <2>3, <2>4 DEF TaskStep
<1>2. CASE LinkStep
  <2>1. CASE \E c \in Client : LinkFails(c) \/ Disconnected(c)
    BY <2>1 DEF LinkFails, Disconnected
  <2> QED
    BY <1>2, <2>1 DEF LinkStep, Disconnect, ReceiptArrives, ObserverContinues
<1>3. CASE RelayStep
  BY <1>3 DEF RelayStep, RelayHandles, RelayDelivers
<1>4. CASE Crash \/ UNCHANGED vars
  BY <1>4 DEF Crash, FreshProcess, vars
<1> QED
  BY <1>1, <1>2, <1>3, <1>4 DEF Next

\* The row of an envelope no call is about stays settled once it is.
LEMMA SettledStays ==
  ASSUME TypeInv, [Next]_vars, NEW e \in Envelope, outbox[e] \in Settled,
         \A t \in Task : pc[t] # "idle" => job[t] # e
  PROVE  outbox'[e] \in Settled
<1>0. /\ outbox \in [Envelope -> OutboxStatus]
      /\ obs.step # "idle" => obs.env \in Envelope
      /\ \A t \in Task : pc[t] \in {"resolving", "acked", "refused"} => job[t] \in Envelope
  BY DEF TypeInv, OutboxTypeOK, LedgerTypeOK, CallHasClient
<1> USE <1>0, OutboxOpsRows DEF Settled
<1>1. CASE TablesStay
  BY <1>1 DEF TablesStay
<1>2. CASE RowOpens
  BY <1>2 DEF RowOpens
<1>3. CASE RowFails
  BY <1>3 DEF RowFails
<1>4. CASE RowAccepted
  BY <1>4 DEF RowAccepted
<1>5. CASE \/ \E d \in Logged : ObserveStore(d)
           \/ ObserveEvent \/ ObserveCursor
  BY <1>5 DEF ObserveStore, ObserveEvent, ObserveCursor
<1>6. CASE ObserveMark
  BY <1>6 DEF ObserveMark
<1> QED
  BY <1>1, <1>2, <1>3, <1>4, <1>5, <1>6, TableSteps DEF TableStep, ObserveStep

SerialInv == CallsApart /\ AckedIsOver

\* While no two calls for one envelope overlap, every step keeps calls apart and
\* an acked envelope over.
LEMMA SerialInvStep ==
  ASSUME SerialCallers, TypeInv, RelayInv, SerialInv, [Next]_vars
  PROVE  SerialInv'
<1>0. /\ job \in [Task -> Envelope \cup {NoEnvelope}]
      /\ pc \in [Task -> TaskState]
      /\ acked \subseteq Envelope
      /\ NoEnvelope \notin Envelope
      /\ \A e \in acked : outbox'[e] \in Settled
  BY NoEnvelopeAssumption, SettledStays DEF TypeInv, OutboxTypeOK, SerialInv, AckedIsOver
<1> USE <1>0 DEF SerialInv, CallsApart, AckedIsOver
<1>1. CASE JobsStay
  BY <1>1 DEF JobsStay
<1>2. ASSUME NEW t \in Task, JobBegins(t, NoEnvelope) PROVE SerialInv'
  BY <1>2 DEF JobBegins
<1>3. ASSUME NEW t \in Task, NEW e \in Envelope,
             MayCall(e), outbox[e] \notin Settled, JobBegins(t, e)
      PROVE  SerialInv'
  BY <1>3 DEF JobBegins, MayCall
<1>4. ASSUME NEW t \in Task, NEW e \in Envelope, CachedAck(t, e) PROVE SerialInv'
  BY <1>4 DEF CachedAck, MayCall, ledgerVars, taskVars
<1>5. ASSUME NEW t \in Task, FinishSend(t) PROVE SerialInv'
  <2>1. job[t] \in Envelope /\ outbox[job[t]] # "none"
    BY <1>5 DEF FinishSend, RelayInv, CallHasRow, CallState, TypeInv, CallHasClient
  <2>2. outbox'[job[t]] = "accepted"
    BY <1>5, <2>1, OutboxOpsRows DEF FinishSend, TypeInv, OutboxTypeOK, LedgerTypeOK
  <2>3. \A u \in Task : pc'[u] # "idle" => u # t /\ pc[u] # "idle" /\ job'[u] = job[u]
    BY <1>5 DEF FinishSend, Return
  <2>4. pc[t] = "acked" /\ acked' = acked \cup {job[t]}
    BY <1>5 DEF FinishSend
  <2> QED
    BY <2>1, <2>2, <2>3, <2>4 DEF Settled
<1> QED
  BY <1>1, <1>2, <1>3, <1>4, <1>5, JobSteps

\* Once a send() of an envelope returned an ack, no frame for it is written
\* again, over crashes, cancellations and reconnections, provided that no two
\* calls for one envelope overlap (the look at the row in send() is not a lock).
THEOREM AckedIsNeverResent ==
  ASSUME SerialCallers
  PROVE  Spec => AckedNotResent
<1>1. Init => SerialInv
  BY DEF Init, SerialInv, CallsApart, AckedIsOver
<1>2. TypeInv /\ RelayInv /\ SerialInv /\ [Next]_vars => SerialInv'
  BY SerialInvStep
<1>3. TypeInv /\ RelayInv /\ SerialInv /\ [Next]_vars => [Written \cap acked = {}]_vars
  <2> SUFFICES ASSUME TypeInv, SerialInv, [Next]_vars, wire' # wire
               PROVE  Written \cap acked = {}
    BY DEF vars, relayVars, Written
  <2>1. CASE RequestsStay
    BY <2>1 DEF RequestsStay
  <2>2. ASSUME NEW t \in Task, Transmit(t) PROVE Written \cap acked = {}
    <3>1. Written \subseteq {job[t]} /\ pc[t] # "idle"
      BY <2>2 DEF Transmit, Written
    <3> QED
      BY <3>1 DEF SerialInv, AckedIsOver
  <2>3. CASE \E t \in Task, r \in replies : ReadReply(t, r)
    BY <2>3 DEF ReadReply
  <2>4. CASE \E f \in wire, ok \in BOOLEAN : RelayHandles(f, ok)
    BY <2>4 DEF RelayHandles, Written
  <2> QED
    BY <2>1, <2>2, <2>3, <2>4, RequestSteps
<1> QED
  BY <1>1, <1>2, <1>3, RelayInvariant, PTL DEF Spec, AckedNotResent
=============================================================================
