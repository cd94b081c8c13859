----------------------------- MODULE RelayClient -----------------------------
(***************************************************************************)
(* One PlenipoClient object (plenipo/client/relay.py): connect, the reader *)
(* task, request/reply over Phoenix refs, the automatic receipt for every  *)
(* delivered envelope, and disconnect.  The reader is one task: while      *)
(* _handle_phoenix awaits, no further frame is read.                       *)
(*                                                                         *)
(* A ref is given out once, so a request and its ref are one thing here:   *)
(* Request are the refs of the callers' requests, and a delivered envelope *)
(* stands for the ref of the receipt the reader sends for it.              *)
(***************************************************************************)
EXTENDS Naturals, Sequences

CONSTANTS
  Request,      \* requests of the callers: message.send, receipt.list, ...
  Delivery,     \* envelopes the relay delivers
  NoRef,
  AutoReceipt,  \* the values of the constructor's auto_receipt
  MayCancel,    \* TRUE: a caller may cancel the task that awaits a reply
  MayBreak,     \* TRUE: the relay or the network may close the socket
  MayRefuse     \* TRUE: handlers may raise and the relay may refuse the join

ASSUME ClientAssumption ==
  /\ Request \cap Delivery = {}
  /\ NoRef \notin Request \cup Delivery
  /\ AutoReceipt \subseteq BOOLEAN
  /\ {MayCancel, MayBreak, MayRefuse} \subseteq BOOLEAN

VARIABLES
  auto,       \* _auto_receipt
  connector,  \* the task in connect()
  closer,     \* the tasks in disconnect()
  connected,  \* the _connected flag
  joined,     \* the event connect() waits for
  sock,       \* the WebSocket
  reader,     \* the reader task
  busy,       \* the envelope the reader is sending a receipt for
  pending,    \* the refs in _pending
  out,        \* what became of the future of each ref
  inbound,    \* frames the reader has not taken
  atRelay,    \* external: refs whose request the relay has not answered
  handled     \* envelopes every registered handler has returned from

vars == <<auto, connector, closer, connected, joined, sock, reader, busy,
          pending, out, inbound, atRelay, handled>>

Ref == Request \cup Delivery
Outcome == {"unused", "waiting", "ok", "error", "cancelled"}
Frame == [kind : {"join", "reply", "deliver"}, ref : Ref \cup {NoRef}, ok : BOOLEAN]

ClientTypeOK ==
  /\ auto \in AutoReceipt
  /\ connector \in {"idle", "joining", "done"}
  /\ closer \in {"no", "closing", "off", "wedged"}
  /\ connected \in BOOLEAN
  /\ joined \in BOOLEAN
  /\ sock \in {"none", "open", "closed", "broken", "shut"}
  /\ reader \in {"none", "reading", "receipting", "ended", "dead", "cancelled"}
  /\ busy \in Delivery \cup {NoRef}
  /\ pending \subseteq Ref
  /\ out \in [Ref -> Outcome]
  /\ inbound \in Seq(Frame)
  /\ atRelay \subseteq Ref \cup {NoRef}
  /\ handled \subseteq Delivery

Init ==
  /\ auto \in AutoReceipt
  /\ connector = "idle" /\ closer = "no"
  /\ connected = FALSE /\ joined = FALSE
  /\ sock = "none" /\ reader = "none" /\ busy = NoRef
  /\ pending = {} /\ out = [r \in Ref |-> "unused"]
  /\ inbound = <<>> /\ atRelay = {} /\ handled = {}
-----------------------------------------------------------------------------
(* connect()                                                                *)

Connect_BUG_unknown_socket ==
  /\ connector = "idle"
  /\ closer = "no"
  /\ connector' = "joining"
  /\ sock' = "opening"
  /\ reader' = "reading"
  /\ atRelay' = atRelay \cup {NoRef}
  /\ UNCHANGED <<auto, closer, connected, joined, busy, pending, out, inbound,
                 handled>>

\* The socket is open, phx_join (ref None) is written, the reader started.
Connect ==
  /\ connector = "idle"
  /\ closer = "no"
  /\ connector' = "joining"
  /\ sock' = "open"
  /\ reader' = "reading"
  /\ atRelay' = atRelay \cup {NoRef}
  /\ UNCHANGED <<auto, closer, connected, joined, busy, pending, out, inbound,
                 handled>>

\* joined.wait() returns; it has no timeout and nothing else ends it.
Joined ==
  /\ connector = "joining"
  /\ joined
  /\ connector' = "done"
  /\ connected' = TRUE
  /\ UNCHANGED <<auto, closer, joined, sock, reader, busy, pending, out,
                 inbound, atRelay, handled>>
-----------------------------------------------------------------------------
(* The callers: _request_reply                                              *)

\* The future is registered and the frame written, or the write raises and
\* leaves the registration behind.
Issue(r) ==
  /\ connector = "done"
  /\ out[r] = "unused"
  /\ pending' = pending \cup {r}
  /\ IF sock = "open"
     THEN /\ out' = [out EXCEPT ![r] = "waiting"]
          /\ atRelay' = atRelay \cup {r}
     ELSE /\ out' = [out EXCEPT ![r] = "error"]
          /\ UNCHANGED atRelay
  /\ UNCHANGED <<auto, connector, closer, connected, joined, sock, reader, busy,
                 inbound, handled>>

\* Cancelling the awaiting task cancels its future; _pending keeps the ref.
Cancel(r) ==
  /\ MayCancel
  /\ out[r] = "waiting"
  /\ out' = [out EXCEPT ![r] = "cancelled"]
  /\ UNCHANGED <<auto, connector, closer, connected, joined, sock, reader, busy,
                 pending, inbound, atRelay, handled>>
-----------------------------------------------------------------------------
(* The reader: _handle_phoenix                                              *)

Reading(kind) == reader = "reading" /\ inbound # <<>> /\ Head(inbound).kind = kind

\* The reply to phx_join: ok sets `joined', an error is ignored.
ReadJoin ==
  /\ Reading("join")
  /\ inbound' = Tail(inbound)
  /\ joined' = (joined \/ Head(inbound).ok)
  /\ UNCHANGED <<auto, connector, closer, connected, sock, reader, busy,
                 pending, out, atRelay, handled>>

ReadReply_BUG_errors_dropped ==
  /\ Reading("reply")
  /\ inbound' = Tail(inbound)
  /\ LET r == Head(inbound).ref IN
       /\ pending' = pending \ {r}
       /\ out' = IF r \in pending /\ out[r] = "waiting" /\ Head(inbound).ok
                 THEN [out EXCEPT ![r] = "ok"] ELSE out
  /\ UNCHANGED <<auto, connector, closer, connected, joined, sock, reader, busy,
                 atRelay, handled>>

\* A reply pops its future.  set_result on a cancelled one raises, and the
\* exception ends the reader task.
ReadReply ==
  /\ Reading("reply")
  /\ inbound' = Tail(inbound)
  /\ LET r == Head(inbound).ref IN
       /\ pending' = pending \ {r}
       /\ IF r \in pending /\ out[r] = "waiting"
          THEN out' = [out EXCEPT ![r] = IF Head(inbound).ok THEN "ok" ELSE "error"]
          ELSE UNCHANGED out
       /\ reader' = IF r \in pending /\ out[r] = "cancelled" THEN "dead" ELSE reader
  /\ UNCHANGED <<auto, connector, closer, connected, joined, sock, busy,
                 atRelay, handled>>

ReadDeliver_BUG_receipt_first ==
  /\ Reading("deliver")
  /\ inbound' = Tail(inbound)
  /\ LET d == Head(inbound).ref IN
       /\ busy' = d
       /\ pending' = pending \cup {d}
       /\ out' = [out EXCEPT ![d] = "waiting"]
       /\ atRelay' = atRelay \cup {d}
       /\ reader' = "receipting"
  /\ UNCHANGED <<auto, connector, closer, connected, joined, sock, handled>>

\* message.deliver: the handlers run, then, with auto_receipt, send_receipt is
\* awaited inside the reader.  Only the reader could read the reply, so nothing
\* but disconnect() ends that wait.
ReadDeliver ==
  /\ Reading("deliver")
  /\ inbound' = Tail(inbound)
  /\ LET d == Head(inbound).ref IN
       /\ handled' = handled \cup {d}
       /\ IF ~auto THEN UNCHANGED <<reader, busy, pending, out, atRelay>>
          ELSE /\ pending' = pending \cup {d}
               /\ IF sock = "open"
                  THEN /\ reader' = "receipting"
                       /\ busy' = d
                       /\ out' = [out EXCEPT ![d] = "waiting"]
                       /\ atRelay' = atRelay \cup {d}
                  ELSE /\ reader' = "dead"
                       /\ out' = [out EXCEPT ![d] = "error"]
                       /\ UNCHANGED <<busy, atRelay>>
  /\ UNCHANGED <<auto, connector, closer, connected, joined, sock>>

\* A handler raises: the reader task ends with its exception.
HandlerRaises ==
  /\ MayRefuse
  /\ Reading("deliver")
  /\ inbound' = Tail(inbound)
  /\ reader' = "dead"
  /\ UNCHANGED <<auto, connector, closer, connected, joined, sock, busy,
                 pending, out, atRelay, handled>>

\* `async for' over a closed socket: the frames already received are handled,
\* then a clean close ends the loop and any other raises out of it.
ReaderEnds ==
  /\ reader = "reading"
  /\ inbound = <<>>
  /\ sock \in {"closed", "broken"}
  /\ reader' = IF sock = "closed" THEN "ended" ELSE "dead"
  /\ UNCHANGED <<auto, connector, closer, connected, joined, sock, busy,
                 pending, out, inbound, atRelay, handled>>

Reader == ReadJoin \/ ReadReply \/ ReadDeliver \/ HandlerRaises \/ ReaderEnds
-----------------------------------------------------------------------------
(* disconnect()                                                             *)

\* The flag is cleared and the reader cancelled and awaited; what a dead
\* reader died of is raised here, and again by every later call.
Disconnect ==
  /\ sock # "none"
  /\ closer = "no"
  /\ connected' = FALSE
  /\ IF reader = "dead"
     THEN closer' = "wedged" /\ UNCHANGED <<reader, out>>
     ELSE /\ closer' = "closing"
          /\ reader' = IF reader = "ended" THEN "ended" ELSE "cancelled"
          /\ out' = IF reader = "receipting"
                    THEN [out EXCEPT ![busy] = "cancelled"] ELSE out
  /\ UNCHANGED <<auto, connector, joined, sock, busy, pending, inbound, atRelay,
                 handled>>

CloseSocket_BUG_forgets_pending ==
  /\ closer = "closing"
  /\ sock # "shut"
  /\ sock' = "shut"
  /\ pending' = {}
  /\ UNCHANGED <<auto, connector, closer, connected, joined, reader, busy, out,
                 inbound, atRelay, handled>>

\* _ws.close() has returned: whoever writes from now on gets an exception.
CloseSocket ==
  /\ closer = "closing"
  /\ sock # "shut"
  /\ sock' = "shut"
  /\ UNCHANGED <<auto, connector, closer, connected, joined, reader, busy,
                 pending, out, inbound, atRelay, handled>>

FailPending_BUG_cleared_first ==
  /\ closer = "closing"
  /\ sock = "shut"
  /\ closer' = "off"
  /\ pending' = {}
  /\ UNCHANGED <<auto, connector, connected, joined, sock, reader, busy, out,
                 inbound, atRelay, handled>>

\* Every future that still waits gets `relay disconnected'.
FailPending ==
  /\ closer = "closing"
  /\ sock = "shut"
  /\ closer' = "off"
  /\ out' = [r \in Ref |-> IF r \in pending /\ out[r] = "waiting" THEN "error" ELSE out[r]]
  /\ pending' = {}
  /\ UNCHANGED <<auto, connector, connected, joined, sock, reader, busy,
                 inbound, atRelay, handled>>
-----------------------------------------------------------------------------
(* The relay and the network (external)                                     *)

RelayReplies(r, ok) ==
  /\ sock = "open"
  /\ r \in atRelay
  /\ r = NoRef => ok \/ MayRefuse
  /\ atRelay' = atRelay \ {r}
  /\ inbound' = Append(inbound, [kind |-> IF r = NoRef THEN "join" ELSE "reply",
                                 ref |-> r, ok |-> ok])
  /\ UNCHANGED <<auto, connector, closer, connected, joined, sock, reader, busy,
                 pending, out, handled>>

RelayDelivers(d) ==
  /\ sock = "open"
  /\ joined
  /\ out[d] = "unused"
  /\ d \notin handled
  /\ \A i \in DOMAIN inbound : inbound[i].ref # d
  /\ inbound' = Append(inbound, [kind |-> "deliver", ref |-> d, ok |-> TRUE])
  /\ UNCHANGED <<auto, connector, closer, connected, joined, sock, reader, busy,
                 pending, out, atRelay, handled>>

SocketCloses ==
  /\ MayBreak
  /\ sock = "open"
  /\ sock' \in {"closed", "broken"}
  /\ UNCHANGED <<auto, connector, closer, connected, joined, reader, busy,
                 pending, out, inbound, atRelay, handled>>
-----------------------------------------------------------------------------
Next ==
  \/ Connect \/ Joined
  \/ \E r \in Request : Issue(r) \/ Cancel(r)
  \/ Reader
  \/ Disconnect \/ CloseSocket \/ FailPending
  \/ \E r \in Ref \cup {NoRef}, ok \in BOOLEAN : RelayReplies(r, ok)
  \/ \E d \in Delivery : RelayDelivers(d)
  \/ SocketCloses

Spec == Init /\ [][Next]_vars

\* Tasks of the event loop that can run do run, and the relay answers requests.
\* Nobody is bound to call disconnect().
Fairness ==
  /\ WF_vars(Joined)
  /\ WF_vars(Reader)
  /\ WF_vars(CloseSocket \/ FailPending)
  /\ \A r \in Ref \cup {NoRef} : WF_vars(\E ok \in BOOLEAN : RelayReplies(r, ok))

FairSpec == Spec /\ Fairness
-----------------------------------------------------------------------------
(* Properties.                                                              *)

\* disconnect() that completes leaves no caller waiting, whichever requests were
\* written while it was closing the socket.
NoWaiterAfterDisconnect ==
  closer = "off" => \A r \in Ref : out[r] # "waiting"

\* The relay is told of a delivery only after every handler has taken it, so
\* that an envelope whose handler raised or was cut short is not confirmed.
ReceiptAfterHandlers ==
  \A d \in Delivery : out[d] # "unused" => d \in handled

\* What is true of every connection: a waiting request is answered or failed,
\* unless the reader has ended or waits for the reply to its own receipt; a
\* refused, slow or reordered reply, a broken socket or a disconnect() at any
\* point of the exchange strands nobody.
AnsweredOrDeaf ==
  \A r \in Request :
    out[r] = "waiting" ~> \/ out[r] # "waiting"
                         \/ reader \in {"receipting", "ended", "dead"}
=============================================================================
