# Plenipo SDK in TLA+

This directory models the parts of the Plenipo Python SDK that keep state over
time: the agent runtime with its SQLite outbox, receipts and inbox, the
connection it keeps up, the relay client under it, the MCP runtime, the identity
file with its route, and the sidecar that serves local clients. TLC checks small
instances; TLAPS proves the safety of all of them for every instance. Paths below are relative to `src/`.

## 1. The system and its parts

| part | code | state it keeps | operations | what is hard | correct when |
|---|---|---|---|---|---|
| relay client | `plenipo/client/relay.py` | the WebSocket, the reader task, futures by ref, the `connected` flag | `connect`, `send` and other requests, `disconnect`, handling of frames | one reader task that itself awaits; cancellation; futures that outlive the connection | every request ends, a receipt follows its handlers, `disconnect` leaves nobody waiting |
| paid send | `plenipo/runtime/agent.py` `send`, `_ensure_client`, `_connect_client` | outbox rows, `self._client` | `send`, reconnect, `disconnect` | state read before an await; cancellation; crash between frame and ack; receipts that overtake acks | no charge without a row, no skipped send, no second charge |
| receipt handling | `agent.py` `_observe_receipt`, `_recover_missed_receipts`; `state.py`, `cursor.py` | receipts, events, cursor | live push, paged replay | two writers of one cursor; crash between commits | nothing missed, nothing reported twice |
| inbound messages | `agent.py` `_observe_message`, `inbox_crypto.py` | encrypted inbox, events | decrypt, store, confirm | redelivery, lost receipts, crash between commits | confirmed means stored, announced once |
| runtime store | `plenipo/runtime/store.py` | the tables | one commit per operation | no transaction over two operations | (used by the three above) |
| supervision | `agent.py` `_maintain_connection`, `__aenter__`, `__aexit__`, `close` | `_running`, `self._client`, each client's `connected` | start, reconnect loop, senders that reconnect, end | stale `connected` flag, overlapping connects, a cancellation that `disconnect` swallows | reconnects while running, leaves nothing open, ends |
| runtime state | `state.py` | key-value rows, legacy JSON | load, save, update | legacy file applied on each load | |
| sidecar events | `plenipo/sidecar/events.py`, `api.py` | condition variable, client's `after_id` | long poll, SSE | notify between query and wait, time-outs that queue for the lock, one bad row | no lost wake-up, every event once, in order |
| sidecar API, server, settings, client | `plenipo/sidecar/*.py` | settings, security, the token file, a client's token | start, stop, `/send`, `/route`, `from_env` | four sources of settings, a file written in place, restarts | changes only for those who may ask, clients served over restarts |
| MCP runtime | `plenipo/mcp/runtime.py`, `server.py` | client, flag, message buffer | `ensure_connected`, `drain_messages`, requests, `close` | concurrent tools over one client, messages confirmed while only in memory | one connection, no message lost, calls end |
| identity | `plenipo/identity/*.py` | `identity.json`, what Core hosts | provision, sync, `declare_route`, `declare_capabilities` | read-await-write by several processes, file rewritten in place, lost answers | keys kept, file agrees with Core, what is declared stays |
| DID, discovery, payments, ping, CLI | `plenipo/did`, `discover`, `payments`, `ping`, `agent/cli.py` | none | HTTP requests | fallbacks, 402 retry | |

How they meet: the runtime owns one client at a time and registers two
handlers with it; the client's reader task calls them and then, for a delivered
message, sends the receipt. Everything in one process is one asyncio event loop:
a task runs from one `await` to the next without interruption. What survives
the process is SQLite, one commit per store operation, and the files
`identity.json` and `sidecar-token`, which are emptied and then filled. Processes
of one user (agent, MCP server, sidecars, CLI) share these files without a lock.

## 2. Modules

| module | models | composed with |
|---|---|---|
| `RuntimeStore` | the tables, and each store operation as a function from table to table | extended by all modules that write tables |
| `ReceiptLedger` | the sender's tables and `_observe_receipt`, one action per commit | extended by the two modules that drive it |
| `AgentOutbox` | `send`, `_connect_client`, `disconnect`, the receipt handler, the relay, crashes | extends `ReceiptLedger` |
| `ReceiptReplay` | `_recover_missed_receipts` page by page, live pushes, the cursor | extends `ReceiptLedger` |
| `RelayClient` | one `PlenipoClient` from `connect` to `disconnect` | stands alone; `AgentOutbox` and `InboundDelivery` use what it shows (`deaf`, `lost`, `wedged`; a reader stuck on its own receipt) |
| `InboundDelivery` | `_observe_message` and the automatic receipt, redelivery, crashes (`InboundInit`, `InboundNext`, `InboundSpec`) | extends `RuntimeStore` |
| `SidecarEvents` | long polls, the condition variable and its consumer, SSE streams, clients that resume | stands alone; which events become rows is in `InboundDelivery` and `ReceiptLedger` |
| `EventStream` | the promise to a local client: every event, in order, once | abstract; `SidecarEvents` implements it (`INSTANCE ... WITH log <- events`) |
| `AgentConnection` | the start, the supervisor, senders that reconnect, `disconnect`, `__aexit__`, `close`; with and without a supervisor | stands alone: a client is its link and its flag, as `RelayClient` has them |
| `McpRuntime` | tools that overlap in `ensure_connected`, the readers and sockets of their client, buffer, `close` | stands alone |
| `RouteRecord` | route metadata: normalising, merging, validating | pure; extended by `Identity` |
| `Identity` | `identity.json` and Core under processes that load, declare, save and sync | extends `RouteRecord` |
| `SidecarConfig` | settings from four sources, the checks at the start, token, security, the middlewares | pure; extended by `SidecarGateway` |
| `SidecarGateway` | sidecars that start, stop and restart over one token file, requests that change something, clients of `from_env` | extends `SidecarConfig` |
| `MC*` | the instances TLC runs | |
| `AgentOutboxProofs` | theorems: types, the tables and the receipt handler, rows against the relay, waiting senders, no resend after an ack | extends `AgentOutbox`, `TLAPS` |
| `ReceiptReplayProofs` | theorems: types, what the cursor covers, nothing missed | extends `ReceiptReplay`, `SequenceTheorems`, `TLAPS` |
| `RelayClientProofs` | theorems: types, no waiter after `disconnect`, receipts after handlers | extends `RelayClient`, `TLAPS` |
| `McpRuntimeProofs` | theorems: types, replies and the calls that wait, one connection, confirmed messages reach tools | extends `McpRuntime`, `SequenceTheorems`, `TLAPS` |
| `AgentRuntimeProofs` | theorems about the agent. Connection: types, nothing left open. Inbound messages: types, confirmed is durable, events and inbox | extends `AgentConnection`, `InboundDelivery`, `TLAPS` |
| `SidecarEventsProofs` | theorems: types, that `SidecarEvents` implements `EventStream`, that no long poll sleeps past an event | extends `SidecarEvents`, `TLAPS` |
| `SidecarGatewayProofs` | theorems: types, who may change something, clients served over restarts | extends `SidecarGateway`, `TLAPS` |
| `IdentityProofs` | theorems: types, the key, file against Core, declared fields | extends `Identity`, `TLAPS` |

Operators whose name holds `_BUG_` are deliberate mistakes, one per property;
no specification uses them. They show that the property notices the mistake.

**Granularity.** An action is the code between two awaits, cut further at every
commit where a crash could fall. While `_observe_receipt` is inside (`obs` is
not `Idle`), no other task of the process moves (`LoopFree`), but the process
may die and the relay may go on. In `InboundDelivery` the same holds by the
step of the reader. In `McpRuntime` and `AgentConnection` no handler awaits, so
hearing a frame is one action. A file that is written with `write_text` takes two
actions, one that empties and one that fills it. Where the reader resolves a future, the awaiting task is
only scheduled: it resumes in an action of its own (`FinishSend`, `RefuseSend`,
`StartReplay`, `ReplayOne`), and the reader may take more frames first. The
`websockets` iterator returns a buffered frame without suspending, which is why
this order is real.

**Variables and code.** `AgentOutbox`: `pc`, `job`, `using`, `ref` are the
locals of each call of `send`; `current` is `self._client`; `cstate` what a
sender can tell of each client object; `wire` and `replies` the frames between
client and relay; `accepted` what the relay charged for; `acked` (history) what
some caller was told. `ReceiptReplay`: `phase`, `from`, `page`, `more`, `last`
are the locals of the replay; `inbound` the frames of the connection in order;
`deaf` says that the reader of the joined client takes no more of them;
`behind` and `race` are history. `RelayClient`: `pending` is `_pending`, `out`
the state of each future, `reader` the task, `busy` the receipt it waits for,
`auto` is `_auto_receipt`. `InboundDelivery`: `reader` is the handler's next
commit and its envelope. `SidecarEvents`: `poll` is where a call of
`wait_for_events` stands, `lock` and `lockQueue` the lock inside
`asyncio.Condition` (first come, first served), `queue` the events the consumer
task has yet to notify for, `cursor` and `batch` the locals of
`event_generator`, `pipe` what is under way to the client, `after` the
`after_id` of the client's next request; `told` is history. `AgentConnection`:
`current` is `self._client`, `flag` the `_connected` of each client, `link` what
its reader can do (`deaf`: cancelled, ended, or waiting for what it will not
hear; `crashed`: died of an exception), `pc` and `goal` where the main task, the
supervisor and each sender stand and what their `disconnect` is part of.
`McpRuntime`: `client`, `up` and `buffer` are `_client`, `_connected` and
`_buffer`; `ws` is `_ws` of a client and `owner` the client of a socket and its
reader, so that a reader may find a socket that is not its own; `asked` is what
the relay has still to answer, the requests of cancelled calls among it;
`overlapped`, `raced` and `abandoned` are history, as are `overlapped`, `abandoned`
and `late` in `AgentConnection`. `Identity`: `env` are the processes
started with an identity in their environment; `file` is `identity.json`, whole,
empty, mangled or absent; `rec` the identity a task holds across its awaits; `core` what
Core hosts; `held`, `stale`, `lost`, `raced` are history. `SidecarGateway`:
`tokenFile` is `sidecar-token`, `fresh` a token that is generated and not yet
written, `security` the `SidecarSecurity` of each sidecar, `bearer` the token each
client keeps.

**Abstractions.** Envelopes, tasks and clients are model values. Rows are their
status; ack fields, timestamps and payloads are left out. A cursor is the
receipt it names; every receipt has a timestamp. `since`, used only when there
is no cursor yet, and the legacy state file are left out. Encryption is the set
`Decryptable`. The relay is external: it accepts or refuses a frame once, logs a
receipt per accepted envelope, lists in log order, redelivers what is not
confirmed. Replies to a ref nobody waits for are dropped in `AgentOutbox`; what
they do to the reader is in `RelayClient` (`ReadReply`, `MayCancel`). Why a
reader takes no more frames is in `RelayClient`; `ReceiptReplay` only knows that it
may. It has one connection at a time: a client that is dropped in a cancelled join
is a matter of `AgentConnection`. In `SidecarEvents`
rows are their type and the store key they need; a page is a sequence of ids;
polls of half a second are a look at any time. A client is one that keeps
`next_after_id`, or the id in the last SSE payload, as its position: the code
hands it both and keeps neither. `AgentConnection` leaves the lengths of sleeps
out, awaits a finished task as if it suspended, and uses the slot of a client
again once nothing refers to it. In `McpRuntime` a message is a model value, not
decoded, and `since` of `plenipo_receive` is left out: `drain_messages` takes the
first ones. In `RouteRecord` a list of names is a set, and what has only one
supported value (payment model, scheme) is left out. In `Identity` a key stands
for a key pair with its DID, and the registration, challenge included, is one
step: accepted, accepted with the answer lost, or failed. In `SidecarConfig` a
value is a name and a host is `loopback` or `remote`; a signature is the secret it
was made with, and the five minutes it is good for are left out. `SidecarGateway`
declares a route in one step, since `Identity` takes that apart.

**Cancellation.** A caller's time-out cancels a task where it suspends: `send` in
`AgentOutbox`, a request in `RelayClient`, the replay in `ReceiptReplay`; in
`AgentConnection` the start, the supervisor, senders and `close` in `disconnect`, in
`connect` and in the replay; in `McpRuntime` a tool in `connect`, in the lookup and in
its request, and `close`. Writing a frame is taken not to suspend. A cancellation
that comes while `disconnect` waits for the reader is taken for the reader's own
(`relay.py:132`) and changes nothing; one that comes while the socket is closing ends
the call there, with the socket as good as closed, the futures not failed and `_ws`
still set. A cancelled request stays in `_pending`, and its reply, should it come,
raises in the reader (`relay.py:260`).

## 3. Runs

Passing runs:

| run | instance | shows |
|---|---|---|
| `outbox` | 2 envelopes, 2 tasks, 2 clients, 2 frames, 1 crash; 1.4 million states | `WriteAhead`: what the relay has or will see has a row. `SettledIsAccepted`: a row that makes later calls skip the send is right. `AckForOwnEnvelope`: replies reach their own call. `DeliveredIsStored`, `OneReceiptEvent`: the handler's tables agree at every crash point. `NoWaiterOnClosedClient`: `disconnect` leaves no sender. `AckedNotResent`: after an ack no frame is written again, while calls for one envelope do not overlap |
| `replay` | 3 receipts, pages of 1, 2 interruptions; 49 thousand states | `CursorCovers`: the cursor passes a receipt that is not stored only when a push moves it while the agent is behind (`race`). `CaughtUp`: a replay that has come to its end has missed nothing, as long as the reader still reads and no such push spoilt it. `LinkBringsReceipts`: a connection that lasts brings every receipt of the relay, those missed before among them. It exempts what the code does not repair: the connection ends; its reader stops reading (`deaf`); the cursor had passed the receipt (`race = "lost"`); the replay failed or was cancelled, and is not tried again on that connection. Each of the four exemptions is needed: without it TLC finds the property violated. That a lost connection is replaced at all is not claimed here; see `connection` and `agent_not_reconnected` |
| `client` | 2 requests, 2 deliveries; 127 thousand states | `NoWaiterAfterDisconnect`, `ReceiptAfterHandlers`, and `AnsweredOrDeaf`: a request that waits for ever does so behind a reader that has ended or waits for its own receipt |
| `connection` | supervisor, 1 sender, 4 clients, 2 mishaps (links lost, tasks cancelled); 128 thousand states | `NothingLeftOpen`: no joined client is forgotten but by two connects that overlap or a task (the start, the supervisor, a sender) cancelled in its join; a task cancelled in `disconnect`, in `connect` before the socket is open, or in the replay leaves none. After `close` the runtime's own client is not open, unless a sender connected since. `LossIsRepaired`: a client that looks down is replaced, whatever the relay refuses in between, unless the supervisor hangs in a join or replay without a time-out or the reader died of an exception. `CloseEnds`: `__aexit__` ends although `disconnect` may swallow the supervisor's cancellation |
| `mcp` | 2 tasks, 3 calls, 2 clients, 2 sockets, 1 message, 1 cancelled call; 382 thousand states | `OneConnection`: as long as no two calls are in `connect()` at once and no `connect()` and `close()` overlap; two overlapping `close()` are not exempt. A call cancelled in its join (`abandoned`) leaves its socket open and the flag down, and the next call opens a second one; the flag is still up only over a client that has joined, and a call cancelled elsewhere, `close()` among them, breaks nothing. `ConfirmedIsHandedOut`: a message that is confirmed while only in memory reaches a tool or is dropped by `close`, also when a tool takes only part of the buffer. `CallsEnd`: a call waits for ever only where its join or reply can reach nobody |
| `identity` | 2 processes, each with or without an identity in its environment, 3 calls, 1 crash; 2.2 million states | `KeyIsKept`: no crash, torn file or failed registration changes the key pair; only two creations at once do (`raced`), or the save of an identity that comes from an environment. `SettledMatchesCore`: what the file calls registered is what Core hosts, over lost answers and crashes. `DeclaredIsKept`: a call changes only the route fields it names. The last two as long as nobody goes on with an identity that was saved over (`lost`). These exemptions are needed: without either step that sets `lost`, or the one that sets `raced`, TLC finds the property violated. Behaviours are not followed further once both are in force (`AtStake`) |
| `inbound` | 3 envelopes, 1 not decryptable, 4 connections; 70 thousand states | `ConfirmedIsDurable`, `EventHasInbox`, `OneMessageEvent` |
| `sidecar` | 1 poller, 1 streamer, 2 rows, 2 faults; 133 thousand states | `NoLostWakeup`: whoever sleeps in `condition.wait()` with something to see has a notification coming, although the look at the table is outside the lock. `PollIsAnswered`: every long poll ends, though a waiter that timed out still has to queue for the lock. `InOrderOnce`: the implementation of `EventStream`, across lost answers, broken streams, restarts. `EveryEventIsTold`, unless the client's next page holds a message whose store key is gone: the whole page then fails, on each request |
| `gateway` | 2 sidecars, 3 starts, 5 environments, 5 files, 6 command lines; 489 thousand states | `ChangesAreAuthorised`: a send or a new route comes from a start, from a request with the token (and signature) in force, or from this machine where authentication is off, whichever source each setting came from. `ClientIsServed`: a client that read its token from the file or the environment is let in after every restart of a sidecar that takes it from the same place, unless two first starts overlapped |

Each module's type invariant (`OutboxTypeOK`, `ReplayTypeOK`, `ClientTypeOK`,
`ConnTypeOK`, `McpTypeOK`, `IdTypeOK`, `InboundTypeOK`, `SidecarTypeOK`,
`GatewayTypeOK`) is checked in the same run.

Runs that end in a counterexample, each a disagreement between the code and
what is said of it:

| run | what happens |
|---|---|
| `outbox_settled_resent` | after a restart, `send` finds a pending row, reconnects, the recovery marks the row delivered, and `send` goes on to transmit it again. `README.md:67` says accepted and delivered envelopes are not double-sent on restart |
| `replay_receipt_lost` | a push read between the join and the start of the replay moves the cursor; the replay starts behind what was missed. No failure is involved |
| `agent_not_reconnected` | a link is lost and the agent never has another. The flag stays set when the reader ends or waits for its own receipt, so nobody acts; and a reader that died of an exception makes every `disconnect`, and with it every reconnection, raise. `README.md:68` says the agent reconnects automatically |

What the properties exempt is behaviour of the code that the models have and no
run of its own shows. The receipt of an envelope may be handled before the sender
resumes with its ack, and `mark_outbox_accepted` overwrites `delivered` for good
(`AgentOutbox`, `FinishSend`). The reader waits for the reply to its own receipt,
which only it could read; the reply to a cancelled request raises in the reader;
and `disconnect` raises what the reader died of before it closes anything, on
every call (`RelayClient`; the exemptions of `AnsweredOrDeaf`, `LossIsRepaired`,
`CloseEnds`, `CallsEnd`). Two connects that overlap leave a client joined that
nobody can close, and so does a task that is cancelled in its join (`overlapped`
and `abandoned` in `AgentConnection` and `McpRuntime`). A replay that fails or is
cancelled is not repeated while the connection lasts, and nothing notices a reader
that has stopped reading (`LinkBringsReceipts`). Two
processes that declare at the same time lose one of the declarations, and Core may
keep the other (`lost` in `Identity`). A crash between `upsert_receipt` and
`insert_sidecar_event` leaves a receipt whose event is never written, because the
replay returns early on `has_receipt` (`OneReceiptEvent` says at most one, never
at least one).

`SerialCallers = FALSE` in `MCAgentOutbox.cfg` shows one more: two overlapping
calls for one envelope id (a sidecar client that repeats `/send` after its
time-out) both transmit, and `AckedNotResent` fails. It is the precondition of
that property, kept as a constant so that it is visible.

**Bounds.** `MaxTransmit` (frames ever written), `MaxCrash`, `MaxDown`
(disconnections, crashes, failed and cancelled replays), `MaxFrames`, `MaxLife`
(connections), `MaxEvents`, `MaxQueue`, `MaxFault`, `MaxMishap` (links
lost and tasks cancelled), `MaxCancel`, `MaxCall`,
`MaxSocket`, `MaxBreak`, `MaxMail`, `MaxStart` and `MaxSend` only stop counters.
Two frames and one crash allow a send, a restart and a resend; two tasks and two
clients allow a call that holds an old client while another reconnects; three
receipts in pages of one allow a push to pass two pages; a poll, a stream and the
consumer are three tasks on one table and two on one lock, and the wake-up of
any number of polls is proved, as is every safety property; two rows and pages of one and two allow a page to
grow between requests, and a message after a lost key. Four clients are the one
in use and one for each of the three tasks that may be connecting; two mishaps
allow a loss during the repair of another, a cancellation during a repair, and two
cancellations. Two tools and two sockets are the
smallest instance with a second connect during the first; three calls allow a
close between two uses, and a call after one that was cancelled and one that
overlaps both. Three identity calls allow a creation and two
declarations that overlap. Three starts allow a crash in a first start, a second
sidecar and a restart after both. `CHECK_DEADLOCK FALSE` stands where the bounds,
or a client or runtime that was closed, end the behaviour.

**Fairness.** `RelayClient`: the reader, `connect` and a `disconnect` in
progress run when they can, and the relay answers each request it has (weak
fairness per ref). Nobody has to call `disconnect`, cancel or deliver.
`ReceiptReplay`: the replay, the handler and a reader that still reads run when
they can, and the relay answers what such a client asks: these are tasks of one
event loop, which runs every ready task. A reader may stop reading for good at any
await (`Deafen`: it waits for the reply to its own receipt, has died or has ended),
and nobody has to connect again. `SidecarEvents`: the
consumer, the handlers and the generators run, deadlines pass, and the clients
ask again and read what they are sent. `AgentConnection`: tasks run, sleeps end,
and `Dial` and `JoinOK` are strongly fair: a relay that is asked again and again
accepts in the end, which is what a back-off loop relies on; nobody has to send or
leave. `McpRuntime`: tasks and readers run, and the relay answers requests on a
socket that lives, though a join perhaps with a refusal. There is no fairness on
failures or cancellations, and none on new messages or events.

## 4. Proofs

Every safety property of the passing runs is a theorem of its module's `Spec`: for
all sets of tasks, clients, envelopes, processes, keys, requests and settings, all
page sizes and all bounds. The assumptions are
those the modules state: the markers for nobody and nothing (`NoClient`,
`NoEnvelope`, `NoRef`, `Nobody`, `Consumer`, `StartRoute`) differ from the values
they mark the absence of; requests, deliveries, pollers, streamers and senders are
different things; subsets are subsets (`Decryptable`, `Plaintext`,
`DefaultCaps`, `EnvCaps`) and `EnvKey` is a key; bounds are natural numbers, page sizes and
limits positive; a request carries a list of capabilities, which
`declare_capabilities` always does (`mcp/server.py:129`); and a token the sidecar
generates differs from those an operator or a client gives. `AckedIsNeverResent`
also assumes `SerialCallers`. Nothing else is taken on trust.

| theorem | property | inductive invariant |
|---|---|---|
| `TypeCorrect` | `OutboxTypeOK` | `TypeInv` |
| `DeliveredRowsAreStored`, `ReceiptsAreToldOnce` | `DeliveredIsStored`, `OneReceiptEvent` | `TypeInv`, `HandlerInv` |
| `WriteAheadHolds`, `SettledRowsWereAccepted`, `AcksAreForOwnEnvelope` | `WriteAhead`, `SettledIsAccepted`, `AckForOwnEnvelope` | the above and `RelayInv` |
| `NoWaiterIsLeft` | `NoWaiterOnClosedClient` | itself, with `TypeInv` |
| `AckedIsNeverResent` | `AckedNotResent` | all of the above and `SerialInv` |
| `ReplayTypes` | `ReplayTypeOK` | `TypeInv` (with `LogInv`) |
| `CursorIsCovered`, `NothingIsMissed` | `CursorCovers`, `CaughtUp` | `TypeInv`, `ReplayInv` |
| `ClientTypeCorrect` | `ClientTypeOK` | itself, with `SoundFrame` |
| `NobodyWaitsAfterDisconnect`, `ReceiptsFollowHandlers` | `NoWaiterAfterDisconnect`, `ReceiptAfterHandlers` | `ClientInv` |
| `InboundTypeCorrect` | `InboundTypeOK` | itself |
| `ConfirmedMessagesAreDurable`, `EventsHaveTheirMessage`, `MessagesAreAnnouncedOnce` | `ConfirmedIsDurable`, `EventHasInbox`, `OneMessageEvent` | `DeliveryInv` |
| `McpTypeCorrect` | `McpTypeOK` | `TypeInv` |
| `RepliesHaveAskers` | (no run; `AskersWait`) | `TypeInv`, `AskersWait` |
| `ConnectionIsOne` | `OneConnection` | `TypeInv`, `ConnInv` (with `AskersWait`) |
| `ConfirmedReachesTools` | `ConfirmedIsHandedOut` | `TypeInv`, `HandInv` |
| `ConnectionTypes` | `ConnTypeOK` | `TypeInv` (with `LifeInv`) |
| `NothingIsLeftOpen` | `NothingLeftOpen` | `TypeInv`, `LinkInv` |
| `SidecarTypeCorrect`, `ClientsAreToldInOrder` | `SidecarTypeOK`, `InOrderOnce` | `StreamingInv` |
| `NobodySleepsOn` | `NoLostWakeup` | `StreamingInv` and `WakeInv` |
| `GatewayTypes`, `OnlyAuthorisedChanges` | `GatewayTypeOK`, `ChangesAreAuthorised` | `GatewayInv` |
| `ClientsAreServed` | `ClientIsServed` | `GatewayInv`, `GivenInv`, `FileInv` |
| `IdentityTypes` | `IdTypeOK` | `TypeInv` |
| `TheKeyIsKept` | `KeyIsKept` | `TypeInv`, `FileInv`, `KeyInv` |
| `SettledIsHosted`, `DeclaredStays` | `SettledMatchesCore`, `DeclaredIsKept` | `TypeInv`, `FileInv`, `SaveInv` |

*Types.* `OutboxTypeOK` alone is not inductive: a frame is typed because the
call that writes it has an envelope, and the state of the client it writes to is
defined because the call holds one. `CallHasClient` adds both. One proof step
per action.

*Tables.* Most actions do not touch the tables, so the later proofs do not go
over `Next` again. A lemma sorts its steps by what they do to some of the state
(`TableSteps`: to outbox, receipts, events and handler), and the proofs have one
case per sort. `HandlerInv` adds that the handler only works on a stored receipt
and that only it writes events; then a crash at any of its steps leaves nothing
told or marked that is not stored, and the look before the insert makes the
event unique.

*Relay.* `SettledIsAccepted` rests on two things that settle a row. A receipt
does when it is stored, hence listed, hence accepted (`StoredWasAccepted`). An
ack does in the call that was resolved with it, so replies must reach their own
call: refs are given out once (`RefsWereGiven`), and the frame and the positive
reply of an awaited ref belong to the call that awaits it (`RefsAreOwn`).
`WriteAhead` needs that a call past its connection has its row (`CallHasRow`,
kept because no operation removes a row: `RowSteps`). The steps are sorted by
`RequestSteps` and `ReceiptSteps`.

*Waiting senders.* Only `Transmit` makes a waiter, on a client whose socket takes
writes; only `Disconnected` closes a client, and it resolves that client's
futures (`WaiterSteps`).

*No resend.* With serial callers, calls in progress are for different envelopes
(`CallsApart`), and an acked envelope has a settled row and no call about it
(`AckedIsOver`): a new call answers from the row, and a settled row stays so as
long as no call is about its envelope (`SettledStays`). So no frame is written
for it. Without `SerialCallers` the theorem is false, as section 3 shows.

*Events in order.* `StreamingInv` says where everything stands: a client was told
the events `1..after`; an answer under way, and what is in a stream's pipe and
then in its page, go on from there without a gap (`InStep`, `GoesOn`), up to the
cursor. The cursor is ahead of what was sent, but it dies with its generator, and
the next one starts from the client's own position. So an answer or a frame that
arrives is a step of `EventStream`, and everything else stutters or adds a row.
The types come with it: the number of keys is bounded because a key is generated
only after one was lost.

*Wake-ups.* `wait_for_events` looks at the table outside the lock, so an event may
fall between the look and the wait. `WakeInv` follows the lock's queue: a poll
that asked for the lock before the event is ahead of the consumer that asks
because of it (`ConsumerIsBehind`), since the consumer queues at the end and is in
the queue at most once. When the poll is parked, the consumer is still to come.

*Replay.* Everything is said in places of the relay's list, which lists a receipt
once (`LogInv`). What is before the persisted cursor is stored (`CursorInv`); what
is before the page at work, too (`PageInv`); what follows it is in the answer on
its way (`AnswerInv`) or in pushes, which come in the order of the list and after
all of that (`OrderInv`). So a page that says there is no more leaves nothing that
is neither stored nor on its way (`Heard`), and when the frames are handled
`CaughtUp` holds. A reader that stops reading takes the frames with it; its replay
then gets no further than to ask (`PhaseInv`), and nothing is claimed of what is on
its way, while what the cursor claims is untouched. A push that is handled while the agent is behind breaks the
first of these; `race` records it, and from which moment on it cannot be repaired
any more: a replay that has already asked for its page still covers what the push
jumped over.

*Relay client.* A future that waits is registered (`WaitingIsPending`), and
`disconnect` has stopped the reader and shut the socket before it fails the
registered ones (`ClosedIsQuiet`), so none comes after. The reader awaits a reply
only for an envelope all handlers have taken (`BusyIsHandled`).

*Inbound.* Each commit of the handler relies on those before it and on the look
that preceded the first (`HandlerInv`); that look sees every event of the envelope
because this handler writes message events only (`OnlyMessageEvents`). A crash
forgets the place of the handler, and what is left in the tables is what some
prefix of the commits leaves.

*MCP runtime, types.* Sockets are numbered as they are opened, so tasks, clients and
readers point into sequences that grow. `TypeInv` says that what they point to
exists and is of their own client; a reader starts on the socket its client has by
then, which is why a reader and the socket it reads have the same owner and
need not be the same number. `AskersWait` says that exactly the calls that wait have
an unanswered request, each on the socket it was written on, whoever will hear the
reply; so a reply never ends a call that connects or closes, which the next proof
relies on. The request of a call that was cancelled is marked with a number of its
own: it is pending on one socket, nobody waits for it, and its reply ends one reader.

*MCP runtime, one connection.* `OneConnection` is not inductive. `ConnInv` adds, for
behaviours in which no two calls were in `connect()` and no `connect()` and
`close()` overlapped: at most one call connects, and none closes meanwhile
(`OneAtATime`); the call that connects does so for the runtime's client with the flag
down, and a call that closes has the runtime's client and socket, unless another
`close()` has cleared the runtime already (`HolderIsCurrent`); the flag is over a
client that has joined (`UpIsJoined`); and an open socket is the current client's and
is in use or waited for (`OpenIsCurrent`). A second socket could only be opened by a
call that connects, hence with the flag down and no socket open, unless that of a
cancelled join is (`abandoned`, which exempts this part alone: `HolderIsCurrent` and
`UpIsJoined` hold over any cancellation). What else makes it fail
is in the history variables `overlapped` and `raced`, set at the start of the call
that overlaps. Two `close()` that overlap are safe, so they set neither: they end one
client, and the later one finds the runtime empty or ends what is ended.

*MCP runtime, messages.* A message is put in the buffer before its receipt is
written, only `drain_messages` and `close()` take it out, and the first hands it on
and the second drops it (`ConfirmedIsHeld`). On the first connection the relay
pushes a message once, and each is handed out at most once, only when it is no
longer in the buffer, where it is at most once (`OncePushed`); before the first socket
nothing has come (`NothingYet`). That taking the first `n` of the buffer leaves
the others in order is a lemma about `SubSeq` (`Rest`).

*Connection.* `ConnTypeOK` needs to know which tasks exist when (`LifeInv`: the
start before the supervisor, `close` after it). A client that is being disconnected
is not open (`DiscardedIsNotOpen`), so a task cancelled there leaves nothing open;
unless connects overlap, the one task that connects has closed the client it
replaces (`OneConnects`), and cancelled before it joins or after, in the replay, it
forgets no open one; and `close` works on the current client unless a sender came in
between (`ClosesCurrent`). A cancelled join is the exemption (`abandoned`).

*Gateway.* `ResolvedSettings` says what the four sources come to for every file,
environment and command line. A sidecar that runs passed the checks of its
settings and checks requests by them (`SettingsInv`), so whatever a request
changes it may change. A token that was given stays the one in use (`GivenInv`);
one that was generated is the file's, which nobody writes while it holds one
(`FileInv`, until two first starts overlap).

*Identity, the key.* Before there is a file, an identity that was created is held
only by tasks about to write it (`FileInv`); a second creation is then the race
that `raced` records. From then on all identities created here have one key
(`KeyInv`), since every step hands on an identity that is already held.

*Identity, saves.* `lost` is set where a task truncates or posts although another
has truncated since its load. Until then, between the two steps of a save every
other task with an identity of its own has been saved over (`FillInv`), so the
file a task loads is not about to be overwritten behind its back; only identities
of an environment may get in between. Tasks that were not saved over agree with
the file and with each other on key and document (`BaseInv`). Hence a post changes
nothing for the file or for another save (`CoreInv`), and a declaration, computed
from what its task holds, keeps what the file has (`KeepInv`). That merging keeps
the fields it should is proved for all documents and requests (`RouteIsKept`,
`CapsAreKept`). Neither property needs the exemption of `raced`.

As in the proofs of the send path, `Next` is gone over once per module, by a lemma
that sorts its steps by what they do (`Kinds`, `StepMoves`, `TokenSteps`).

Only model-checked: liveness (`AnsweredOrDeaf`, `LinkBringsReceipts`,
`LossIsRepaired`, `CloseEnds`, `CallsEnd`, `PollIsAnswered`, `EveryEventIsTold`),
which the prover cannot handle, and the three counterexamples of section 3.

## 5. Not modelled

- The legacy `runtime-state.json` (`state.py:47-58`). It is applied again on each
  load, so the cursors go back to its values each time; receipts fetched again are
  refused by `has_receipt`. Which receipts the legacy cursor stands for is known
  to neither the tables nor the code, so a model would have to invent it.
- Reads: listing and counting rows, `/status`, `/metrics`, `/outbox`, `/receipts`,
  the inbox command, `list_receipts`, discovery and delivery queries. They change
  nothing; that a reader sees only committed rows is SQLite's doing.
- DID resolution and document creation: a lookup without state, and pure data.
  That a lookup takes time and may fail is in `AgentOutbox` and `McpRuntime`.
- Payments: two requests to a service that is not in the repository, which
  decides whether a repeated purchase costs again.
- The ping program, the CLI and the MCP tools that make one HTTP request:
  arguments, printing and operations the other modules have.
- Cryptography, encodings, timestamps and texts of errors. Cursors of one second's
  resolution need the relay to order receipts of one second by envelope id; the
  models take the relay's order as given.

## 6. Plan

No safety property is left to prove. What could follow, in this order:

1. A run for each exemption that `race`, `lost`, `overlapped` and `raced` record, as
   the tests of the repository come to say what should happen there.
2. The legacy state file (section 5), once the code applies it only once.
