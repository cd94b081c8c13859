----------------------------- MODULE AgentOutbox -----------------------------
(***************************************************************************)
(* The paid-send path of PlenipoAgentRuntime (plenipo/runtime/agent.py):   *)
(* send, _ensure_client, _connect_client and disconnect as tasks of one    *)
(* event loop, the receipt handler of ReceiptLedger, the outbox that       *)
(* survives the process, and the relay as an external party that accepts   *)
(* (and charges for) envelopes.                                            *)
(*                                                                         *)
(* A task runs from one await to the next without interruption, so each    *)
(* action below is the code between two awaits.  What a PlenipoClient does *)
(* inside is reduced to the state a sender can tell apart:                 *)
(*   none    not created in this life of the process                       *)
(*   up      joined, the reader task delivers frames                       *)
(*   deaf    the socket takes writes, but nothing is read any more         *)
(*   lost    the socket is gone; `connected' still answers True            *)
(*   closing inside disconnect(): the reader is cancelled, futures pend    *)
(*   wedged  disconnect() raised what the reader died of, as it will again *)
(*   off     disconnect() completed                                        *)
(***************************************************************************)
EXTENDS ReceiptLedger, FiniteSets

CONSTANTS
  Task,           \* asyncio tasks that call send() or connect
  Client,         \* PlenipoClient objects one life of the process may create
  NoClient,
  SerialCallers,  \* TRUE: no two calls for one envelope overlap
  MaxTransmit,    \* bound: message.send frames ever written
  MaxCrash        \* bound: crashes of the process

ASSUME OutboxAssumption ==
  /\ NoClient \notin Client
  /\ SerialCallers \in BOOLEAN
  /\ MaxTransmit \in Nat
  /\ MaxCrash \in Nat

VARIABLES
  pc,        \* where each task stands
  job,       \* the envelope a task sends; NoEnvelope when it only connects
  using,     \* the client object a call of send() holds
  ref,       \* the Phoenix ref of the request a task awaits
  cstate,    \* state of each client object
  current,   \* self._client
  sent,      \* frames written so far; the last ref given out
  wire,      \* message.send frames the relay has not handled
  replies,   \* phx_reply frames not yet read
  accepted,  \* external: envelopes the relay accepted and charged
  acked,     \* history: envelopes for which some send() returned an ack
  crashes

taskVars  == <<pc, job, using, ref>>
linkVars  == <<cstate, current>>
relayVars == <<wire, replies, accepted>>
vars == <<ledgerVars, taskVars, linkVars, relayVars, sent, acked, crashes>>

TaskState == {"idle", "connecting", "recovering", "resolving",
              "waiting", "acked", "refused"}
ClientState == {"none", "up", "deaf", "lost", "closing", "wedged", "off"}

Frame == [ref : 1..MaxTransmit, env : Envelope]
Reply == [ref : 1..MaxTransmit, ok : BOOLEAN]

OutboxTypeOK ==
  /\ LedgerTypeOK
  /\ pc \in [Task -> TaskState]
  /\ job \in [Task -> Envelope \cup {NoEnvelope}]
  /\ using \in [Task -> Client \cup {NoClient}]
  /\ ref \in [Task -> 0..MaxTransmit]
  /\ cstate \in [Client -> ClientState]
  /\ current \in Client \cup {NoClient}
  /\ sent \in 0..MaxTransmit
  /\ wire \subseteq Frame
  /\ replies \subseteq Reply
  /\ accepted \subseteq Envelope
  /\ acked \subseteq Envelope
  /\ crashes \in 0..MaxCrash

FreshProcess ==
  /\ pc' = [t \in Task |-> "idle"]
  /\ job' = [t \in Task |-> NoEnvelope]
  /\ using' = [t \in Task |-> NoClient]
  /\ ref' = [t \in Task |-> 0]
  /\ cstate' = [c \in Client |-> "none"]
  /\ current' = NoClient

Init ==
  /\ LedgerInit
  /\ pc = [t \in Task |-> "idle"]
  /\ job = [t \in Task |-> NoEnvelope]
  /\ using = [t \in Task |-> NoClient]
  /\ ref = [t \in Task |-> 0]
  /\ cstate = [c \in Client |-> "none"]
  /\ current = NoClient
  /\ sent = 0
  /\ wire = {}
  /\ replies = {}
  /\ accepted = {}
  /\ acked = {}
  /\ crashes = 0

\* PlenipoClient.connected is a flag only connect() and disconnect() write.
Connected == current # NoClient /\ cstate[current] \in {"up", "deaf", "lost"}

\* The states of a client in which ws.send can still succeed.
Writable == {"up", "deaf", "closing", "wedged"}
-----------------------------------------------------------------------------
\* The call ends and its locals with it.
Return(t) ==
  /\ pc' = [pc EXCEPT ![t] = "idle"]
  /\ job' = [job EXCEPT ![t] = NoEnvelope]
  /\ using' = [using EXCEPT ![t] = NoClient]
  /\ ref' = [ref EXCEPT ![t] = 0]

(* send(), up to the first network await.                                   *)

\* External: the callers' discipline.
MayCall(e) == SerialCallers => \A u \in Task : pc[u] # "idle" => job[u] # e

\* The row is settled: send() answers from it, on the spot.
CachedAck(t, e) ==
  /\ LoopFree
  /\ pc[t] = "idle"
  /\ MayCall(e)
  /\ outbox[e] \in Settled
  /\ acked' = acked \cup {e}
  /\ UNCHANGED <<ledgerVars, taskVars, linkVars, relayVars, sent, crashes>>

\* The client looks connected: the pending row is committed and the key
\* lookup begins.
StartSend(t, e) ==
  /\ LoopFree
  /\ pc[t] = "idle"
  /\ MayCall(e)
  /\ outbox[e] \notin Settled
  /\ Connected
  /\ outbox' = InsertOutboxPending(outbox, e)
  /\ pc' = [pc EXCEPT ![t] = "resolving"]
  /\ job' = [job EXCEPT ![t] = e]
  /\ using' = [using EXCEPT ![t] = current]
  /\ UNCHANGED <<receipts, events, cursor, obs, relayLog, ref, linkVars,
                 relayVars, sent, acked, crashes>>

\* No connected client: send() first goes through _connect_client.
StartSendOffline(t, e) ==
  /\ LoopFree
  /\ pc[t] = "idle"
  /\ MayCall(e)
  /\ outbox[e] \notin Settled
  /\ ~Connected
  /\ pc' = [pc EXCEPT ![t] = "connecting"]
  /\ job' = [job EXCEPT ![t] = e]
  /\ UNCHANGED <<ledgerVars, using, ref, linkVars, relayVars, sent, acked,
                 crashes>>

\* _connect_client without a send: ensure_ready, _maintain_connection
StartConnect(t) ==
  /\ LoopFree
  /\ pc[t] = "idle"
  /\ ~Connected
  /\ pc' = [pc EXCEPT ![t] = "connecting"]
  /\ job' = [job EXCEPT ![t] = NoEnvelope]
  /\ UNCHANGED <<ledgerVars, using, ref, linkVars, relayVars, sent, acked,
                 crashes>>
-----------------------------------------------------------------------------
(* _connect_client                                                          *)

\* The old client's disconnect() has returned and the new one has joined; it
\* becomes self._client before its missed receipts are recovered.
Joined(t, c) ==
  /\ LoopFree
  /\ pc[t] = "connecting"
  /\ current # NoClient => cstate[current] \notin {"closing", "wedged"}
  /\ cstate[c] = "none"
  /\ cstate' = [cstate EXCEPT ![c] = "up"]
  /\ current' = c
  /\ pc' = [pc EXCEPT ![t] = "recovering"]
  /\ UNCHANGED <<ledgerVars, job, using, ref, relayVars, sent, acked, crashes>>

ContinueSend_BUG_no_row(t) ==
  /\ outbox' = outbox
  /\ pc' = [pc EXCEPT ![t] = "resolving"]
  /\ using' = [using EXCEPT ![t] = current]
  /\ UNCHANGED <<job, ref>>

\* Back from _connect_client: send() commits the pending row and goes on with
\* whatever self._client is by now.  The row is not looked at again.
ContinueSend(t) ==
  /\ outbox' = InsertOutboxPending(outbox, job[t])
  /\ pc' = [pc EXCEPT ![t] = "resolving"]
  /\ using' = [using EXCEPT ![t] = current]
  /\ UNCHANGED <<job, ref>>

\* _recover_missed_receipts has returned
Recovered(t) ==
  /\ LoopFree
  /\ pc[t] = "recovering"
  /\ IF job[t] = NoEnvelope THEN Return(t) /\ UNCHANGED outbox ELSE ContinueSend(t)
  /\ UNCHANGED <<receipts, events, cursor, obs, relayLog, linkVars, relayVars,
                 sent, acked, crashes>>

\* An exception in connecting (the challenge request, or the old client's
\* disconnect) or in recovery goes to the caller: it is raised outside the try
\* of send(), so no row is touched.  self._client stays what it was.
ConnectRaises(t) ==
  /\ LoopFree
  /\ pc[t] \in {"connecting", "recovering"}
  /\ Return(t)
  /\ UNCHANGED <<ledgerVars, linkVars, relayVars, sent, acked, crashes>>
-----------------------------------------------------------------------------
(* send(), from the key lookup to its end.                                  *)

\* `except Exception': the row is marked failed and the error raised.
FailSend(t) ==
  /\ outbox' = MarkOutboxFailed(outbox, job[t])
  /\ Return(t)
  /\ UNCHANGED <<receipts, events, cursor, obs, relayLog, linkVars, relayVars,
                 sent, acked, crashes>>

\* The key lookup raises, or writing to the captured client does.
SendRaises(t) ==
  /\ LoopFree
  /\ pc[t] = "resolving"
  /\ FailSend(t)

\* client.send: the future is registered under a new ref and the frame written.
Transmit(t) ==
  /\ LoopFree
  /\ pc[t] = "resolving"
  /\ cstate[using[t]] \in Writable
  /\ sent < MaxTransmit
  /\ sent' = sent + 1
  /\ wire' = wire \cup {[ref |-> sent', env |-> job[t]]}
  /\ ref' = [ref EXCEPT ![t] = sent']
  /\ pc' = [pc EXCEPT ![t] = "waiting"]
  /\ UNCHANGED <<ledgerVars, job, using, linkVars, replies, accepted, acked,
                 crashes>>

ReadReply_BUG_any_ref(t, r) ==
  /\ LoopFree
  /\ pc[t] = "waiting"
  /\ cstate[using[t]] = "up"
  /\ r \in replies
  /\ replies' = replies \ {r}
  /\ pc' = [pc EXCEPT ![t] = IF r.ok THEN "acked" ELSE "refused"]
  /\ UNCHANGED <<ledgerVars, job, using, ref, linkVars, wire, accepted, sent,
                 acked, crashes>>

ReadReply_BUG_error_is_ack(t, r) ==
  /\ LoopFree
  /\ pc[t] = "waiting"
  /\ cstate[using[t]] = "up"
  /\ r \in replies
  /\ r.ref = ref[t]
  /\ replies' = replies \ {r}
  /\ pc' = [pc EXCEPT ![t] = "acked"]
  /\ UNCHANGED <<ledgerVars, job, using, ref, linkVars, wire, accepted, sent,
                 acked, crashes>>

\* The reader task resolves the future of the reply's ref.  The sender is only
\* scheduled: the reader may handle more frames before it resumes.
ReadReply(t, r) ==
  /\ LoopFree
  /\ pc[t] = "waiting"
  /\ cstate[using[t]] = "up"
  /\ r \in replies
  /\ r.ref = ref[t]
  /\ replies' = replies \ {r}
  /\ pc' = [pc EXCEPT ![t] = IF r.ok THEN "acked" ELSE "refused"]
  /\ UNCHANGED <<ledgerVars, job, using, ref, linkVars, wire, accepted, sent,
                 acked, crashes>>

\* The sender resumes with the ack: the row is marked accepted, whatever it
\* says by now, and the caller gets the ack.
FinishSend(t) ==
  /\ LoopFree
  /\ pc[t] = "acked"
  /\ outbox' = MarkOutboxAccepted(outbox, job[t])
  /\ acked' = acked \cup {job[t]}
  /\ Return(t)
  /\ UNCHANGED <<receipts, events, cursor, obs, relayLog, linkVars, relayVars,
                 sent, crashes>>

\* The sender resumes with an exception: an error reply, or `relay disconnected'.
RefuseSend(t) ==
  /\ LoopFree
  /\ pc[t] = "refused"
  /\ FailSend(t)

\* The caller cancels its task.  CancelledError is no Exception: the row stays.
\* Nobody awaits a reply any more (what it does to the reader is in LinkFails).
Cancel(t) ==
  /\ LoopFree
  /\ pc[t] # "idle"
  /\ Return(t)
  /\ replies' = {r \in replies : r.ref # ref[t]}
  /\ UNCHANGED <<ledgerVars, linkVars, wire, accepted, sent, acked, crashes>>
-----------------------------------------------------------------------------
(* The client objects.                                                      *)

\* The reader task dies or blocks, or the socket goes.  Nobody is told.
LinkFails(c) ==
  /\ \/ cstate[c] = "up" /\ cstate' = [cstate EXCEPT ![c] = "deaf"]
     \/ cstate[c] \in {"up", "deaf"} /\ cstate' = [cstate EXCEPT ![c] = "lost"]
  /\ UNCHANGED <<ledgerVars, taskVars, current, relayVars, sent, acked,
                 crashes>>

\* disconnect(): `connected' is cleared and the reader cancelled; a reader that
\* died of an exception has it raised here, before anything is closed.
Disconnect ==
  /\ LoopFree
  /\ Connected
  /\ \/ cstate' = [cstate EXCEPT ![current] = "closing"]
     \/ /\ cstate[current] \in {"deaf", "lost"}
        /\ cstate' = [cstate EXCEPT ![current] = "wedged"]
  /\ UNCHANGED <<ledgerVars, taskVars, current, relayVars, sent, acked,
                 crashes>>

Disconnected_BUG_no_futures(c) ==
  /\ LoopFree
  /\ cstate[c] = "closing"
  /\ cstate' = [cstate EXCEPT ![c] = "off"]
  /\ UNCHANGED <<ledgerVars, taskVars, current, relayVars, sent, acked,
                 crashes>>

\* The socket is closed; every future still pending gets `relay disconnected'.
Disconnected(c) ==
  /\ LoopFree
  /\ cstate[c] = "closing"
  /\ cstate' = [cstate EXCEPT ![c] = "off"]
  /\ LET over == {t \in Task : pc[t] = "waiting" /\ using[t] = c}
     IN  /\ pc' = [t \in Task |-> IF t \in over THEN "refused" ELSE pc[t]]
         /\ ref' = [t \in Task |-> IF t \in over THEN 0 ELSE ref[t]]
         /\ replies' = {r \in replies : \A t \in over : r.ref # ref[t]}
  /\ UNCHANGED <<ledgerVars, job, using, current, wire, accepted, sent, acked, crashes>>

\* A receipt comes as a live push on some joined client, or in a page the
\* recovery of a task has in hand.
ReceiptArrives(e) ==
  /\ e \in Logged
  /\ \/ \E c \in Client : cstate[c] = "up"
     \/ \E t \in Task : pc[t] = "recovering"
  /\ ObserveStore(e)
  /\ UNCHANGED <<taskVars, linkVars, relayVars, sent, acked, crashes>>

ObserverContinues ==
  /\ ObserveStep
  /\ UNCHANGED <<taskVars, linkVars, relayVars, sent, acked, crashes>>
-----------------------------------------------------------------------------
(* External: the relay and the network.  And the end of the process.        *)

\* A frame lost on the way is one never handled.  A reply to a ref nobody
\* awaits any more changes nothing a sender sees, and is not kept.
RelayHandles(f, ok) ==
  /\ f \in wire
  /\ wire' = wire \ {f}
  /\ replies' = IF \E t \in Task : ref[t] = f.ref
                THEN replies \cup {[ref |-> f.ref, ok |-> ok]}
                ELSE replies
  /\ accepted' = IF ok THEN accepted \cup {f.env} ELSE accepted
  /\ UNCHANGED <<ledgerVars, taskVars, linkVars, sent, acked, crashes>>

RelayDelivers(e) ==
  /\ e \in accepted
  /\ RelayLogs(e)
  /\ UNCHANGED <<taskVars, linkVars, relayVars, sent, acked, crashes>>

\* The process dies and starts again with what SQLite committed.
Crash ==
  /\ crashes < MaxCrash
  /\ crashes' = crashes + 1
  /\ FreshProcess
  /\ obs' = Idle
  /\ replies' = {}
  /\ UNCHANGED <<durableVars, relayLog, wire, accepted, sent, acked>>
-----------------------------------------------------------------------------
TaskStep(t) ==
  \/ \E e \in Envelope : CachedAck(t, e) \/ StartSend(t, e) \/ StartSendOffline(t, e)
  \/ StartConnect(t)
  \/ \E c \in Client : Joined(t, c)
  \/ Recovered(t)
  \/ ConnectRaises(t)
  \/ SendRaises(t)
  \/ Transmit(t)
  \/ \E r \in replies : ReadReply(t, r)
  \/ FinishSend(t)
  \/ RefuseSend(t)
  \/ Cancel(t)

LinkStep ==
  \/ \E c \in Client : LinkFails(c) \/ Disconnected(c)
  \/ Disconnect
  \/ \E e \in Envelope : ReceiptArrives(e)
  \/ ObserverContinues

RelayStep ==
  \/ \E f \in wire, ok \in BOOLEAN : RelayHandles(f, ok)
  \/ \E e \in Envelope : RelayDelivers(e)

Next == (\E t \in Task : TaskStep(t)) \/ LinkStep \/ RelayStep \/ Crash

Spec == Init /\ [][Next]_vars
-----------------------------------------------------------------------------
(* Properties.                                                              *)

\* Write-ahead: whatever the relay has seen or is about to see has an outbox
\* row, over crashes too, so that no charge is ever unaccounted for locally
\* (insert_outbox_pending: "before network send").
WriteAhead ==
  /\ \A f \in wire : outbox[f.env] # "none"
  /\ \A e \in accepted : outbox[e] # "none"

\* A row that makes later calls answer from the outbox is right about the relay:
\* no send is skipped for an envelope the relay never took.
SettledIsAccepted ==
  \A e \in Envelope : outbox[e] \in Settled => e \in accepted

\* A call whose future was resolved with an ack was answered for its own
\* envelope, not for that of a concurrent call on the same connection.
AckForOwnEnvelope ==
  \A t \in Task : pc[t] = "acked" => job[t] \in accepted

\* Wherever a crash falls in _observe_receipt, a row that reads delivered has
\* its receipt stored, and an event is only ever told of a stored receipt.
DeliveredIsStored ==
  /\ \A e \in Envelope : outbox[e] = "delivered" => e \in receipts
  /\ \A i \in DOMAIN events : events[i].env \in receipts

\* Local clients are told of a delivery once: live pushes, recovered pages and
\* replays after a crash never add a second delivery_receipt event.
OneReceiptEvent ==
  \A i, j \in DOMAIN events : events[i] = events[j] => i = j

\* disconnect() leaves no sender behind: nobody awaits a future that only the
\* reader of a closed client could have resolved.
NoWaiterOnClosedClient ==
  \A t \in Task : pc[t] = "waiting" => cstate[using[t]] # "off"

\* The envelopes of the frames a step writes.
Written == {f.env : f \in wire' \ wire}

\* What a caller may rely on: once some send() of an envelope returned an ack,
\* no frame for it is written again, over crashes, cancellations and
\* reconnections.  (Holds while calls for one envelope do not overlap.)
AckedNotResent == [][Written \cap acked = {}]_vars

\* README.md:67 as it is written: after a restart, an envelope whose row reads
\* accepted or delivered is not sent.
SettledNotResentAfterRestart ==
  [][crashes > 0 => \A e \in Written : outbox[e] \notin Settled]_vars
=============================================================================
