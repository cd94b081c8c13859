---------------------------- MODULE ReceiptLedger ----------------------------
(***************************************************************************)
(* What the sender side keeps about deliveries, and the handler that moves *)
(* it: PlenipoAgentRuntime._observe_receipt (plenipo/runtime/agent.py).    *)
(* The modules that drive the handler, AgentOutbox and ReceiptReplay,      *)
(* extend this one.                                                        *)
(*                                                                         *)
(* The handler is an ordinary function: no other task of the event loop    *)
(* runs inside it, but it commits to SQLite step by step and the process   *)
(* can die between two commits.  So it is four actions, one per durable    *)
(* effect, and `obs' says where it stands; the actions of the other tasks  *)
(* are guarded by LoopFree.  (_seen_receipt_ids is written and never read; *)
(* the in-memory queue of runtime.events() holds nothing the ledger uses.) *)
(***************************************************************************)
EXTENDS RuntimeStore

CONSTANT NoEnvelope
ASSUME NoEnvelopeAssumption == NoEnvelope \notin Envelope

VARIABLES
  outbox,     \* outbox table: the status of each row
  receipts,   \* receipts table
  events,     \* sidecar_events table
  cursor,     \* last_receipt_cursor (and last_receipt_seen_at): the receipt it names
  obs,        \* the receipt _observe_receipt is working on, and its next step
  relayLog    \* external: the receipts the relay holds for this sender, in list order

durableVars == <<outbox, receipts, events, cursor>>
ledgerVars  == <<outbox, receipts, events, cursor, obs, relayLog>>

HandlerStage == {"idle", "mark", "event", "cursor"}
Idle == [step |-> "idle", env |-> NoEnvelope]

Logged == {relayLog[i] : i \in DOMAIN relayLog}

LedgerTypeOK ==
  /\ outbox \in [Envelope -> OutboxStatus]
  /\ receipts \subseteq Envelope
  /\ events \in Seq(SidecarEvent)
  /\ cursor \in Envelope \cup {NoEnvelope}
  /\ obs \in [step : HandlerStage, env : Envelope \cup {NoEnvelope}]
  /\ obs.step # "idle" => obs.env \in Envelope
  /\ relayLog \in Seq(Envelope)

LedgerInit ==
  /\ outbox = EmptyOutbox
  /\ receipts = {}
  /\ events = <<>>
  /\ cursor = NoEnvelope
  /\ obs = Idle
  /\ relayLog = <<>>

LoopFree == obs = Idle
-----------------------------------------------------------------------------
(* The steps of _observe_receipt(e).                                        *)

ObserveStore_BUG_mark_first(e) ==
  /\ LoopFree
  /\ ~HasReceipt(receipts, e)
  /\ outbox' = MarkOutboxDelivered(outbox, e)
  /\ obs' = [step |-> "mark", env |-> e]
  /\ UNCHANGED <<receipts, events, cursor, relayLog>>

ObserveStore_BUG_event_first(e) ==
  /\ LoopFree
  /\ ~HasReceipt(receipts, e)
  /\ events' = InsertSidecarEvent(events, e, "delivery_receipt")
  /\ obs' = [step |-> "mark", env |-> e]
  /\ UNCHANGED <<outbox, receipts, cursor, relayLog>>

\* has_receipt: a known receipt returns early and changes nothing, so only a
\* new one is a step.  upsert_receipt commits the row.
ObserveStore(e) ==
  /\ LoopFree
  /\ ~HasReceipt(receipts, e)
  /\ receipts' = UpsertReceipt(receipts, e)
  /\ obs' = [step |-> "mark", env |-> e]
  /\ UNCHANGED <<outbox, events, cursor, relayLog>>

\* mark_outbox_delivered
ObserveMark ==
  /\ obs.step = "mark"
  /\ outbox' = MarkOutboxDelivered(outbox, obs.env)
  /\ obs' = [step |-> "event", env |-> obs.env]
  /\ UNCHANGED <<receipts, events, cursor, relayLog>>

\* insert_sidecar_event, unless the envelope already has a delivery_receipt event
ObserveEvent ==
  /\ obs.step = "event"
  /\ events' = IF HasSidecarEvent(events, obs.env, "delivery_receipt")
               THEN events
               ELSE InsertSidecarEvent(events, obs.env, "delivery_receipt")
  /\ obs' = [step |-> "cursor", env |-> obs.env]
  /\ UNCHANGED <<outbox, receipts, cursor, relayLog>>

\* update_receipt_cursor: unconditional, whatever the cursor named before
ObserveCursor ==
  /\ obs.step = "cursor"
  /\ cursor' = obs.env
  /\ obs' = Idle
  /\ UNCHANGED <<outbox, receipts, events, relayLog>>

ObserveStep == ObserveMark \/ ObserveEvent \/ ObserveCursor

\* External: the recipient's receipt reaches the relay, which appends it to
\* the sender's log.
RelayLogs(e) ==
  /\ e \notin Logged
  /\ relayLog' = Append(relayLog, e)
  /\ UNCHANGED <<durableVars, obs>>
=============================================================================
