---------------------------- MODULE RuntimeStore ----------------------------
(***************************************************************************)
(* The tables of runtime.sqlite (plenipo/runtime/store.py) and the         *)
(* operations on them.  Every operation of RuntimeStore ends in its own    *)
(* commit, so each is one atomic function from table to table; a caller    *)
(* that needs two of them takes two steps, and a crash can fall between.   *)
(*                                                                         *)
(* outbox   : [Envelope -> OutboxStatus], "none" when there is no row      *)
(* receipts : SUBSET Envelope, the primary keys of the receipts table      *)
(* inbox    : SUBSET Envelope, the primary keys of inbox_messages          *)
(* events   : a sequence of [type, env]; the AUTOINCREMENT id of an event  *)
(*            is its position, since no row is ever deleted                *)
(***************************************************************************)
EXTENDS Naturals, Sequences

CONSTANT Envelope           \* envelope ids

EventType == {"message", "delivery_receipt"}
SidecarEvent == [type : EventType, env : Envelope]

OutboxStatus == {"none", "pending", "accepted", "failed", "delivered"}

Settled_BUG_accepted_only == {"accepted"}

\* The statuses send() answers from the row, without a frame.
Settled == {"accepted", "delivered"}

EmptyOutbox == [e \in Envelope |-> "none"]

\* INSERT ... ON CONFLICT(envelope_id) DO NOTHING
InsertOutboxPending(ob, e) ==
  IF ob[e] = "none" THEN [ob EXCEPT ![e] = "pending"] ELSE ob

\* The three UPDATE ... WHERE envelope_id = ?: no condition on the old status,
\* and no effect when there is no row.
UpdateOutbox(ob, e, status) ==
  IF ob[e] = "none" THEN ob ELSE [ob EXCEPT ![e] = status]

MarkOutboxAccepted(ob, e)  == UpdateOutbox(ob, e, "accepted")

MarkOutboxFailed_BUG_unknown_status(ob, e) == UpdateOutbox(ob, e, "error")
MarkOutboxFailed(ob, e)    == UpdateOutbox(ob, e, "failed")
MarkOutboxDelivered(ob, e) == UpdateOutbox(ob, e, "delivered")

HasReceipt(rs, e)    == e \in rs
UpsertReceipt(rs, e) == rs \cup {e}    \* TRUE is returned iff e was absent

HasSidecarEvent(evs, e, type) ==
  \E i \in DOMAIN evs : evs[i] = [type |-> type, env |-> e]

InsertSidecarEvent(evs, e, type) == Append(evs, [type |-> type, env |-> e])

InsertInboxMessage(ib, e) == ib \cup {e}
=============================================================================
