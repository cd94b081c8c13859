--------------------------- MODULE InboundDelivery ---------------------------
(***************************************************************************)
(* The receiving side of PlenipoAgentRuntime: the relay delivers an        *)
(* envelope, the reader task runs _observe_message, which decrypts it and  *)
(* commits it to the inbox and the event table, and then confirms it with  *)
(* an automatic receipt (plenipo/runtime/agent.py, client/relay.py).       *)
(*                                                                         *)
(* The handler is not interrupted by other tasks but commits step by step, *)
(* so each durable effect is an action and the process may die between     *)
(* two.  The confirmation is awaited in the reader itself, which takes no  *)
(* further frame on that connection (see RelayClient).                     *)
(*                                                                         *)
(* External: the relay delivers what is addressed to the agent and not     *)
(* confirmed, again on every connection.                                   *)
(***************************************************************************)
EXTENDS RuntimeStore

CONSTANTS
  Decryptable,  \* the envelopes sealed to this agent's key
  NoEnvelope,
  MaxFrames,    \* bound: frames on their way to the reader
  MaxLife       \* bound: connections made

ASSUME InboundAssumption ==
  /\ Decryptable \subseteq Envelope
  /\ NoEnvelope \notin Envelope
  /\ MaxFrames \in Nat
  /\ MaxLife \in Nat

VARIABLES
  inbox,      \* inbox_messages table
  events,     \* sidecar_events table, the message events
  lastSeen,   \* last_message_seen_at: the message it was taken from
  linked,     \* the socket is open
  reader,     \* the reader task and the envelope it is working on
  frames,     \* message.deliver frames not yet read
  receipting, \* message.receipt frames on their way to the relay
  confirmed,  \* external: envelopes the relay counts as delivered
  lives       \* connections made

inboundVars == <<inbox, events, lastSeen, linked, reader, frames, receipting, confirmed, lives>>
tables == <<inbox, events, lastSeen>>

\* none    no reader task          event   insert_sidecar_event is next
\* idle    waits for a frame       cursor  update_message_cursor is next
\* inbox   insert_inbox is next    confirm send_receipt is next
\* await   waits for the reply to its own receipt
\* dead    ended by an exception
ReaderStep == {"none", "idle", "inbox", "event", "cursor", "confirm", "await", "dead"}
At(step, e) == [step |-> step, env |-> e]

InboundTypeOK ==
  /\ inbox \subseteq Envelope
  /\ events \in Seq(SidecarEvent)
  /\ lastSeen \in Envelope \cup {NoEnvelope}
  /\ linked \in BOOLEAN
  /\ reader \in [step : ReaderStep, env : Envelope \cup {NoEnvelope}]
  /\ reader.step \in {"inbox", "event", "cursor", "confirm"} => reader.env \in Envelope
  /\ frames \in Seq(Envelope)
  /\ receipting \subseteq Envelope
  /\ confirmed \subseteq Envelope
  /\ lives \in 0..MaxLife

InboundInit ==
  /\ inbox = {} /\ events = <<>> /\ lastSeen = NoEnvelope
  /\ linked = FALSE /\ reader = At("none", NoEnvelope) /\ frames = <<>>
  /\ receipting = {} /\ confirmed = {} /\ lives = 0
-----------------------------------------------------------------------------
(* The reader task: on_message and _observe_message, then send_receipt.     *)

ReadDeliver_BUG_no_event_check ==
  /\ reader.step = "idle"
  /\ frames # <<>>
  /\ frames' = Tail(frames)
  /\ LET e == Head(frames) IN
       reader' = At(IF e \in Decryptable THEN "inbox" ELSE "confirm", e)
  /\ UNCHANGED <<tables, linked, receipting, confirmed, lives>>

ReadDeliver_BUG_inbox_skipped ==
  /\ reader.step = "idle"
  /\ frames # <<>>
  /\ frames' = Tail(frames)
  /\ LET e == Head(frames) IN
       reader' = At(IF e \in Decryptable /\ ~HasSidecarEvent(events, e, "message")
                    THEN "event" ELSE "confirm", e)
  /\ UNCHANGED <<tables, linked, receipting, confirmed, lives>>

\* An envelope that does not decrypt, or whose event is stored already, is only
\* put on the in-memory queue; it is confirmed like any other.
ReadDeliver ==
  /\ reader.step = "idle"
  /\ frames # <<>>
  /\ frames' = Tail(frames)
  /\ LET e == Head(frames) IN
       reader' = At(IF e \in Decryptable /\ ~HasSidecarEvent(events, e, "message")
                    THEN "inbox" ELSE "confirm", e)
  /\ UNCHANGED <<tables, linked, receipting, confirmed, lives>>

StoreInbox_BUG_confirms_early ==
  /\ reader.step = "inbox"
  /\ inbox' = InsertInboxMessage(inbox, reader.env)
  /\ reader' = [reader EXCEPT !.step = "event"]
  /\ receipting' = receipting \cup {reader.env}
  /\ UNCHANGED <<events, lastSeen, linked, frames, confirmed, lives>>

\* resolve_sidecar_store_key, encrypt, insert_inbox_message
StoreInbox ==
  /\ reader.step = "inbox"
  /\ inbox' = InsertInboxMessage(inbox, reader.env)
  /\ reader' = [reader EXCEPT !.step = "event"]
  /\ UNCHANGED <<events, lastSeen, linked, frames, receipting, confirmed, lives>>

\* insert_sidecar_event
StoreEvent ==
  /\ reader.step = "event"
  /\ events' = InsertSidecarEvent(events, reader.env, "message")
  /\ reader' = [reader EXCEPT !.step = "cursor"]
  /\ UNCHANGED <<inbox, lastSeen, linked, frames, receipting, confirmed, lives>>

StoreCursor_BUG_unset ==
  /\ reader.step = "cursor"
  /\ lastSeen' = lastSeen
  /\ reader' = [reader EXCEPT !.step = "done"]
  /\ UNCHANGED <<inbox, events, linked, frames, receipting, confirmed, lives>>

\* update_message_cursor
StoreCursor ==
  /\ reader.step = "cursor"
  /\ lastSeen' = reader.env
  /\ reader' = [reader EXCEPT !.step = "confirm"]
  /\ UNCHANGED <<inbox, events, linked, frames, receipting, confirmed, lives>>

\* The store key is unreadable or SQLite refuses: the exception ends the reader.
StoreRaises ==
  /\ reader.step \in {"inbox", "event", "cursor"}
  /\ reader' = At("dead", NoEnvelope)
  /\ UNCHANGED <<tables, linked, frames, receipting, confirmed, lives>>

\* send_receipt: written while the socket is open, and awaited; otherwise the
\* write raises.
SendReceipt ==
  /\ reader.step = "confirm"
  /\ IF linked THEN /\ receipting' = receipting \cup {reader.env}
                    /\ reader' = At("await", NoEnvelope)
               ELSE /\ reader' = At("dead", NoEnvelope)
                    /\ UNCHANGED receipting
  /\ UNCHANGED <<tables, linked, frames, confirmed, lives>>

\* The socket was closed abnormally: the reader's loop raises.  (After a clean
\* close the loop just ends, and disconnect() finds nothing to wait for.)
ReaderEnds ==
  /\ reader.step = "idle"
  /\ ~linked
  /\ frames = <<>>
  /\ reader' = At("dead", NoEnvelope)
  /\ UNCHANGED <<tables, linked, frames, receipting, confirmed, lives>>

Reader ==
  \/ ReadDeliver
  \/ StoreInbox \/ StoreEvent \/ StoreCursor \/ StoreRaises
  \/ SendReceipt
  \/ ReaderEnds
-----------------------------------------------------------------------------
(* Connections and the end of the process.  A handler that runs is not      *)
(* interrupted by disconnect(), only by the death of the process.           *)

Connect ==
  /\ reader.step = "none"
  /\ lives < MaxLife
  /\ lives' = lives + 1
  /\ linked' = TRUE
  /\ frames' = <<>>
  /\ reader' = At("idle", NoEnvelope)
  /\ UNCHANGED <<tables, receipting, confirmed>>

\* The socket closes; frames received before stay with the reader.
SocketCloses ==
  /\ linked
  /\ linked' = FALSE
  /\ UNCHANGED <<tables, reader, frames, receipting, confirmed, lives>>

\* disconnect() cancels a waiting reader; over a dead one it raises instead.
CancelReader ==
  /\ reader.step \in {"idle", "await"}
  /\ linked' = FALSE
  /\ reader' = At("none", NoEnvelope)
  /\ UNCHANGED <<tables, frames, receipting, confirmed, lives>>

Crash ==
  /\ reader.step # "none"
  /\ linked' = FALSE
  /\ reader' = At("none", NoEnvelope)
  /\ UNCHANGED <<tables, frames, receipting, confirmed, lives>>
-----------------------------------------------------------------------------
(* External: the relay.                                                     *)

RelayDelivers(e) ==
  /\ linked
  /\ e \notin confirmed
  /\ Len(frames) < MaxFrames
  /\ frames' = Append(frames, e)
  /\ UNCHANGED <<tables, linked, reader, receipting, confirmed, lives>>

RelayConfirms(e) ==
  /\ e \in receipting
  /\ receipting' = receipting \ {e}
  /\ confirmed' = confirmed \cup {e}
  /\ UNCHANGED <<tables, linked, reader, frames, lives>>

ReceiptLost(e) ==
  /\ e \in receipting
  /\ receipting' = receipting \ {e}
  /\ UNCHANGED <<tables, linked, reader, frames, confirmed, lives>>
-----------------------------------------------------------------------------
InboundNext ==
  \/ Reader
  \/ Connect \/ SocketCloses \/ CancelReader \/ Crash
  \/ \E e \in Envelope : RelayDelivers(e) \/ RelayConfirms(e) \/ ReceiptLost(e)

InboundSpec == InboundInit /\ [][InboundNext]_inboundVars
-----------------------------------------------------------------------------
(* Properties.                                                              *)

\* The sender is told of a delivery, and the relay stops redelivering, only for
\* a message that is safe here: over crashes and failing commits, a readable
\* envelope with a receipt on its way has its inbox row and its event.
ConfirmedIsDurable ==
  \A e \in (receipting \cup confirmed) \cap Decryptable :
    e \in inbox /\ HasSidecarEvent(events, e, "message")

\* The plaintext_ref of a message event always resolves to an inbox row.
EventHasInbox == \A i \in DOMAIN events : events[i].env \in inbox

\* A redelivered envelope, after a lost receipt or a crash at any point of the
\* handler, is not announced to local clients a second time.
OneMessageEvent == \A i, j \in DOMAIN events : events[i] = events[j] => i = j

=============================================================================
