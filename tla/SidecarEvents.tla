---------------------------- MODULE SidecarEvents ----------------------------
(***************************************************************************)
(* The durable events of the sidecar (plenipo/sidecar/events.py, api.py,   *)
(* client.py): long polls on GET /events, Server-Sent Events on GET        *)
(* /events/stream, and the wake-up of long polls by the runtime's events.  *)
(*                                                                         *)
(* The runtime commits an event row and puts an event into its queue       *)
(* without an await in between; a consumer task takes it out and notifies  *)
(* an asyncio.Condition.  A long poll looks at the table, then takes the   *)
(* condition's lock, then waits.  The lock is an asyncio.Lock: it goes to  *)
(* those who ask in the order they asked.  Waiting gives the lock up and   *)
(* takes it again before it returns, after a time-out too.                 *)
(*                                                                         *)
(* A row is its type and the store key its inbox plaintext is encrypted    *)
(* under; its id is its place in the table.  Which events become rows, and *)
(* that each does so once, is in InboundDelivery and ReceiptLedger.        *)
(***************************************************************************)
EXTENDS Naturals, Sequences

CONSTANTS
  Poller,      \* local clients that use GET /events
  Streamer,    \* local clients that use GET /events/stream
  Plaintext,   \* those of them that ask for include_plaintext
  Consumer, Nobody,
  PollLimit,   \* the limit a poller asks for
  StreamLimit, \* the limit of list_events_after in events_stream
  MaxEvents,   \* bound: rows
  MaxQueue,    \* bound: events in the runtime's queue that came with no row
  MaxFault     \* bound: lost answers, broken streams, crashes, lost keys

Reader == Poller \cup Streamer

ASSUME SidecarAssumption ==
  /\ Poller \cap Streamer = {}
  /\ Plaintext \subseteq Reader
  /\ Consumer \notin Poller /\ Nobody \notin Poller
  /\ PollLimit \in Nat \ {0}
  /\ StreamLimit \in Nat \ {0}
  /\ MaxEvents \in Nat
  /\ MaxQueue \in Nat
  /\ MaxFault \in Nat

VARIABLES
  events,    \* sidecar_events table
  storeKey,  \* the key in sidecar-store.key; 0 when there is no file
  keys,      \* store keys ever generated
  queue,     \* events in the runtime's queue that the consumer will notify for
  consumer,  \* consume_runtime_events
  lock,      \* who holds the condition's lock
  lockQueue, \* who waits for it, in order
  poll,      \* the handler of each poller's request
  late,      \* its deadline has passed
  answer,    \* the page in its answer
  stream,    \* the event generator of each streamer's request
  cursor,    \* its cursor
  batch,     \* the rows of its last page that it has yet to yield
  pipe,      \* ids on their way to the streamer
  after,     \* each client's after_id for its next request
  told,      \* history: the ids each client was told
  faults

tableVars  == <<events, storeKey, keys>>
wakeVars   == <<queue, consumer, lock, lockQueue>>
pollVars   == <<poll, late, answer>>
streamVars == <<stream, cursor, batch, pipe>>
clientVars == <<after, told>>
vars == <<tableVars, wakeVars, pollVars, streamVars, clientVars, faults>>

\* off       no request            parked   in condition.wait()
\* look      list_sidecar_events   woken    notified or timed out
\* queued    wants the lock        requeued wants the lock back
\* holding   has it                leaving  has it again
\* answered  answer under way      failed   status 500 under way
PollState == {"off", "look", "queued", "holding", "parked", "woken", "requeued",
              "leaving", "answered", "failed"}

Key == 0..(MaxFault + 1)
Row == [type : {"delivery_receipt"}, key : {0}] \cup [type : {"message"}, key : Key]
Id  == 1..MaxEvents

SidecarTypeOK ==
  /\ events \in Seq(Row)
  /\ storeKey \in Key /\ keys \in Key
  /\ queue \in 0..(MaxEvents + MaxQueue)
  /\ consumer \in {"get", "queued"}
  /\ lock \in Poller \cup {Nobody}
  /\ lockQueue \in Seq(Poller \cup {Consumer})
  /\ poll \in [Poller -> PollState]
  /\ late \in [Poller -> BOOLEAN]
  /\ answer \in [Poller -> Seq(Id)]
  /\ stream \in [Streamer -> {"off", "on", "ended"}]
  /\ cursor \in [Streamer -> 0..MaxEvents]
  /\ batch \in [Streamer -> Seq(Id)]
  /\ pipe \in [Streamer -> Seq(Id)]
  /\ after \in [Reader -> 0..MaxEvents]
  /\ told \in [Reader -> Seq(Id)]
  /\ faults \in 0..MaxFault

Init ==
  /\ events = <<>> /\ storeKey = 0 /\ keys = 0
  /\ queue = 0 /\ consumer = "get" /\ lock = Nobody /\ lockQueue = <<>>
  /\ poll = [p \in Poller |-> "off"]
  /\ late = [p \in Poller |-> FALSE]
  /\ answer = [p \in Poller |-> <<>>]
  /\ stream = [s \in Streamer |-> "off"]
  /\ cursor = [s \in Streamer |-> 0]
  /\ batch = [s \in Streamer |-> <<>>]
  /\ pipe = [s \in Streamer |-> <<>>]
  /\ after = [c \in Reader |-> 0]
  /\ told = [c \in Reader |-> <<>>]
  /\ faults = 0
-----------------------------------------------------------------------------
(* The table and what a client may be shown of it.                          *)

ListSidecarEvents_BUG_from_after(id, limit) ==
  LET n == IF Len(events) < id + limit THEN Len(events) - id ELSE limit
  IN  IF id = 0 THEN [i \in 1..n |-> i] ELSE [i \in 1..(n + 1) |-> id + i - 1]

\* The page of WHERE id > after_id ORDER BY id ASC LIMIT limit, as ids.  Rows are
\* never deleted.
ListSidecarEvents(id, limit) ==
  LET n == IF Len(events) < id + limit THEN Len(events) - id ELSE limit
  IN  [i \in 1..n |-> id + i]

NextAfter_BUG_past_end(page, id) == IF page = <<>> THEN id ELSE page[Len(page)] + 1

\* rows[-1].id, or after_id when there are no rows
NextAfter(page, id) == IF page = <<>> THEN id ELSE page[Len(page)]

\* _rows_to_api: a page is shown whole or not at all.  It raises when a message
\* is to be shown and there is no store key, or not the one it was stored under.
Shown(c, page) ==
  c \in Plaintext =>
    \A i \in DOMAIN page : events[page[i]].type = "message" =>
      storeKey # 0 /\ events[page[i]].key = storeKey
-----------------------------------------------------------------------------
(* The runtime: the end of _observe_message and _observe_receipt.           *)

\* resolve_sidecar_store_key generates a missing key, whatever rows are there.
ObserveMessage ==
  /\ Len(events) < MaxEvents
  /\ storeKey' = IF storeKey = 0 THEN keys + 1 ELSE storeKey
  /\ keys' = IF storeKey = 0 THEN keys + 1 ELSE keys
  /\ events' = Append(events, [type |-> "message", key |-> storeKey'])
  /\ queue' = queue + 1
  /\ UNCHANGED <<consumer, lock, lockQueue, pollVars, streamVars, clientVars,
                 faults>>

ObserveReceipt ==
  /\ Len(events) < MaxEvents
  /\ events' = Append(events, [type |-> "delivery_receipt", key |-> 0])
  /\ queue' = queue + 1
  /\ UNCHANGED <<storeKey, keys, consumer, lock, lockQueue, pollVars,
                 streamVars, clientVars, faults>>

\* A message that was redelivered, or cannot be decrypted, is queued with no row.
ObserveNoRow ==
  /\ queue < MaxQueue
  /\ queue' = queue + 1
  /\ UNCHANGED <<tableVars, consumer, lock, lockQueue, pollVars, streamVars,
                 clientVars, faults>>
-----------------------------------------------------------------------------
(* The condition's lock and the consumer task.                              *)

LockFree == lock = Nobody /\ lockQueue = <<>>

\* The lock was released and x is the first to have asked for it.
Turn(x) == lock = Nobody /\ lockQueue # <<>> /\ Head(lockQueue) = x

\* x asks for the lock: it has it at once, or queues.
AskLock(p, has, queues) ==
  IF LockFree
  THEN poll' = [poll EXCEPT ![p] = has] /\ lock' = p /\ UNCHANGED lockQueue
  ELSE /\ poll' = [poll EXCEPT ![p] = queues]
       /\ lockQueue' = Append(lockQueue, p)
       /\ UNCHANGED lock

TakeLock(p, has) ==
  /\ Turn(p)
  /\ lock' = p
  /\ lockQueue' = Tail(lockQueue)
  /\ poll' = [poll EXCEPT ![p] = has]

\* Condition.notify_all
NotifyAll ==
  poll' = [p \in Poller |-> IF poll[p] = "parked" THEN "woken" ELSE poll[p]]

ConsumerTakes_BUG_try_lock ==
  /\ consumer = "get"
  /\ queue > 0
  /\ queue' = queue - 1
  /\ IF LockFree THEN NotifyAll ELSE UNCHANGED poll
  /\ UNCHANGED <<tableVars, consumer, lock, lockQueue, late, answer, streamVars,
                 clientVars, faults>>

\* events(), then notify(): with the lock free there is no await up to its end.
ConsumerTakes ==
  /\ consumer = "get"
  /\ queue > 0
  /\ queue' = queue - 1
  /\ \/ LockFree /\ NotifyAll /\ UNCHANGED <<consumer, lockQueue>>
     \/ /\ ~LockFree
        /\ consumer' = "queued"
        /\ lockQueue' = Append(lockQueue, Consumer)
        /\ UNCHANGED poll
  /\ UNCHANGED <<tableVars, lock, late, answer, streamVars, clientVars, faults>>

ConsumerNotifies ==
  /\ consumer = "queued"
  /\ Turn(Consumer)
  /\ NotifyAll
  /\ consumer' = "get"
  /\ lockQueue' = Tail(lockQueue)
  /\ UNCHANGED <<tableVars, queue, lock, late, answer, streamVars, clientVars,
                 faults>>
-----------------------------------------------------------------------------
(* GET /events: wait_for_events.                                            *)

\* External: the client asks from where it stands.
Ask(p) ==
  /\ poll[p] = "off"
  /\ poll' = [poll EXCEPT ![p] = "look"]
  /\ late' = [late EXCEPT ![p] = FALSE]
  /\ UNCHANGED <<tableVars, wakeVars, answer, streamVars, clientVars, faults>>

\* remaining <= 0, from the start for timeout_ms = 0
DeadlinePasses(p) ==
  /\ poll[p] \notin {"off", "answered", "failed"}
  /\ ~late[p]
  /\ late' = [late EXCEPT ![p] = TRUE]
  /\ UNCHANGED <<tableVars, wakeVars, poll, answer, streamVars, clientVars,
                 faults>>

\* The look at the table, and what follows without an await.  (The second look
\* after the deadline follows the first at once and finds the same.)
Look(p) ==
  LET page == ListSidecarEvents(after[p], PollLimit) IN
  /\ poll[p] = "look"
  /\ \/ /\ page # <<>> \/ late[p]
        /\ Shown(p, page)
        /\ poll' = [poll EXCEPT ![p] = "answered"]
        /\ answer' = [answer EXCEPT ![p] = page]
        /\ UNCHANGED <<lock, lockQueue>>
     \/ /\ ~Shown(p, page)
        /\ poll' = [poll EXCEPT ![p] = "failed"]
        /\ UNCHANGED <<answer, lock, lockQueue>>
     \/ /\ page = <<>> /\ ~late[p]
        /\ AskLock(p, "holding", "queued")
        /\ UNCHANGED answer
  /\ UNCHANGED <<tableVars, queue, consumer, late, streamVars, clientVars,
                 faults>>

LockTurn(p) ==
  /\ \/ poll[p] = "queued" /\ TakeLock(p, "holding")
     \/ poll[p] = "requeued" /\ TakeLock(p, "leaving")
  /\ UNCHANGED <<tableVars, queue, consumer, late, answer, streamVars,
                 clientVars, faults>>

\* condition.wait() has registered the waiter and released the lock; below
\* Python 3.12, wait_for starts it in a task of its own first.
Park(p) ==
  /\ poll[p] = "holding"
  /\ poll' = [poll EXCEPT ![p] = "parked"]
  /\ lock' = Nobody
  /\ UNCHANGED <<tableVars, queue, consumer, lockQueue, late, answer,
                 streamVars, clientVars, faults>>

TimesOut_BUG_never(p) ==
  /\ FALSE
  /\ UNCHANGED vars

\* wait_for cancels condition.wait()
TimesOut(p) ==
  /\ poll[p] = "parked"
  /\ late[p]
  /\ poll' = [poll EXCEPT ![p] = "woken"]
  /\ UNCHANGED <<tableVars, wakeVars, late, answer, streamVars, clientVars,
                 faults>>

\* condition.wait() takes the lock again before it returns or raises.
Regain(p) ==
  /\ poll[p] = "woken"
  /\ AskLock(p, "leaving", "requeued")
  /\ UNCHANGED <<tableVars, queue, consumer, late, answer, streamVars,
                 clientVars, faults>>

\* The end of `async with', and the next round of the loop
Leave(p) ==
  /\ poll[p] = "leaving"
  /\ poll' = [poll EXCEPT ![p] = "look"]
  /\ lock' = Nobody
  /\ UNCHANGED <<tableVars, queue, consumer, lockQueue, late, answer,
                 streamVars, clientVars, faults>>

\* The client has the answer and keeps next_after_id for its next request.
Receive(p) ==
  /\ poll[p] = "answered"
  /\ poll' = [poll EXCEPT ![p] = "off"]
  /\ after' = [after EXCEPT ![p] = NextAfter(answer[p], @)]
  /\ told' = [told EXCEPT ![p] = @ \o answer[p]]
  /\ answer' = [answer EXCEPT ![p] = <<>>]
  /\ UNCHANGED <<tableVars, wakeVars, late, streamVars, faults>>

\* The client gets status 500 and raises SidecarClientError.
ReceiveError(p) ==
  /\ poll[p] = "failed"
  /\ poll' = [poll EXCEPT ![p] = "off"]
  /\ UNCHANGED <<tableVars, wakeVars, late, answer, streamVars, clientVars,
                 faults>>
-----------------------------------------------------------------------------
(* GET /events/stream: event_generator.                                     *)

\* External: the client connects from where it stands (after_id, or
\* Last-Event-ID).
Connect(s) ==
  /\ stream[s] = "off"
  /\ stream' = [stream EXCEPT ![s] = "on"]
  /\ cursor' = [cursor EXCEPT ![s] = after[s]]
  /\ UNCHANGED <<tableVars, wakeVars, pollVars, batch, pipe, clientVars, faults>>

StreamLook_BUG_full_pages(s) ==
  LET page == ListSidecarEvents(cursor[s], StreamLimit) IN
  /\ stream[s] = "on"
  /\ batch[s] = <<>>
  /\ Len(page) = StreamLimit
  /\ Shown(s, page)
  /\ cursor' = [cursor EXCEPT ![s] = NextAfter(page, @)]
  /\ batch' = [batch EXCEPT ![s] = page]
  /\ UNCHANGED <<tableVars, wakeVars, pollVars, stream, pipe, clientVars, faults>>

\* list_events_after, every half second or right after a page: the cursor moves
\* past a page before any of it is yielded; an error frame ends the stream.
StreamLook(s) ==
  LET page == ListSidecarEvents(cursor[s], StreamLimit) IN
  /\ stream[s] = "on"
  /\ batch[s] = <<>>
  /\ page # <<>>
  /\ \/ /\ Shown(s, page)
        /\ cursor' = [cursor EXCEPT ![s] = NextAfter(page, @)]
        /\ batch' = [batch EXCEPT ![s] = page]
        /\ UNCHANGED stream
     \/ /\ ~Shown(s, page)
        /\ stream' = [stream EXCEPT ![s] = "ended"]
        /\ UNCHANGED <<cursor, batch>>
  /\ UNCHANGED <<tableVars, wakeVars, pollVars, pipe, clientVars, faults>>

Yield(s) ==
  /\ stream[s] = "on"
  /\ batch[s] # <<>>
  /\ pipe' = [pipe EXCEPT ![s] = Append(@, Head(batch[s]))]
  /\ batch' = [batch EXCEPT ![s] = Tail(@)]
  /\ UNCHANGED <<tableVars, wakeVars, pollVars, stream, cursor, clientVars,
                 faults>>

\* stream_events yields the payload, which holds the id.
ReadFrame(s) ==
  /\ pipe[s] # <<>>
  /\ pipe' = [pipe EXCEPT ![s] = Tail(@)]
  /\ after' = [after EXCEPT ![s] = Head(pipe[s])]
  /\ told' = [told EXCEPT ![s] = Append(@, Head(pipe[s]))]
  /\ UNCHANGED <<tableVars, wakeVars, pollVars, stream, cursor, batch, faults>>

\* The client reads the error frame and the end of the stream.
StreamEnds(s) ==
  /\ stream[s] = "ended"
  /\ pipe[s] = <<>>
  /\ stream' = [stream EXCEPT ![s] = "off"]
  /\ UNCHANGED <<tableVars, wakeVars, pollVars, cursor, batch, pipe, clientVars,
                 faults>>
-----------------------------------------------------------------------------
(* What goes wrong.                                                         *)

Fault == faults < MaxFault /\ faults' = faults + 1

\* The answer, or the connection before it, is lost; the client asks again.
LoseAnswer(p) ==
  /\ Fault
  /\ poll[p] \in {"answered", "failed"}
  /\ poll' = [poll EXCEPT ![p] = "off"]
  /\ answer' = [answer EXCEPT ![p] = <<>>]
  /\ UNCHANGED <<tableVars, wakeVars, late, streamVars, clientVars>>

\* The connection of a stream breaks, with the frames in it; the generator finds
\* is_disconnected.
BreakStream(s) ==
  /\ Fault
  /\ stream[s] # "off"
  /\ stream' = [stream EXCEPT ![s] = "off"]
  /\ batch' = [batch EXCEPT ![s] = <<>>]
  /\ pipe' = [pipe EXCEPT ![s] = <<>>]
  /\ UNCHANGED <<tableVars, wakeVars, pollVars, cursor, clientVars>>

\* External: the key file is lost.
LoseKey ==
  /\ Fault
  /\ storeKey # 0
  /\ storeKey' = 0
  /\ UNCHANGED <<events, keys, wakeVars, pollVars, streamVars, clientVars>>

\* The sidecar ends, by _shutdown_sidecar or without, and starts again.
Restart ==
  /\ Fault
  /\ queue' = 0 /\ consumer' = "get" /\ lock' = Nobody /\ lockQueue' = <<>>
  /\ poll' = [p \in Poller |-> "off"]
  /\ late' = [p \in Poller |-> FALSE]
  /\ answer' = [p \in Poller |-> <<>>]
  /\ stream' = [s \in Streamer |-> "off"]
  /\ cursor' = [s \in Streamer |-> 0]
  /\ batch' = [s \in Streamer |-> <<>>]
  /\ pipe' = [s \in Streamer |-> <<>>]
  /\ UNCHANGED <<tableVars, clientVars>>
-----------------------------------------------------------------------------
RuntimeStep == ObserveMessage \/ ObserveReceipt \/ ObserveNoRow

ConsumerStep == ConsumerTakes \/ ConsumerNotifies

HandlerStep(p) ==
  \/ Look(p)
  \/ LockTurn(p)
  \/ Park(p)
  \/ TimesOut(p)
  \/ Regain(p)
  \/ Leave(p)

PollerStep(p) == Ask(p) \/ Receive(p) \/ ReceiveError(p)

GeneratorStep(s) == StreamLook(s) \/ Yield(s)

StreamerStep(s) == Connect(s) \/ ReadFrame(s) \/ StreamEnds(s)

Next ==
  \/ RuntimeStep
  \/ ConsumerStep
  \/ \E p \in Poller : HandlerStep(p) \/ DeadlinePasses(p) \/ PollerStep(p) \/ LoseAnswer(p)
  \/ \E s \in Streamer : GeneratorStep(s) \/ StreamerStep(s) \/ BreakStream(s)
  \/ LoseKey
  \/ Restart

Spec == Init /\ [][Next]_vars

\* The tasks of the sidecar run, time passes, and the clients keep asking and
\* read what they are sent.  Nothing has to be observed, and nothing to fail.
Fairness ==
  /\ WF_vars(ConsumerStep)
  /\ \A p \in Poller :
       WF_vars(HandlerStep(p)) /\ WF_vars(DeadlinePasses(p)) /\ WF_vars(PollerStep(p))
  /\ \A s \in Streamer :
       /\ WF_vars(GeneratorStep(s))
       /\ WF_vars(Connect(s) \/ StreamEnds(s)) /\ WF_vars(ReadFrame(s))

FairSpec == Spec /\ Fairness
-----------------------------------------------------------------------------
(* Properties.                                                              *)

Stream == INSTANCE EventStream WITH log <- events

\* Lost answers, broken streams and restarts included, a client that resumes from
\* after_id is told of every event once, in order.
InOrderOnce == Stream!Spec

\* A waiter that has something to see is about to be woken: no notification
\* falls between its look at the table and its wait.  ("Missed notify" in
\* wait_for_events is the case of rows written by another process.)
NoLostWakeup ==
  \A p \in Poller :
    poll[p] = "parked" /\ Len(events) > after[p] => queue > 0 \/ consumer = "queued"

\* The page a client's next request is about
NextPage(c) ==
  ListSidecarEvents(after[c], IF c \in Poller THEN PollLimit ELSE StreamLimit)

HeldUp(c) == ~Shown(c, NextPage(c))

\* Every request is answered, whoever else holds the lock or waits for it.
PollIsAnswered == \A p \in Poller : poll[p] # "off" ~> poll[p] = "off"

\* A client that keeps asking catches up with the events there are, unless its
\* next page holds a message stored under a key that is gone; it then is told of
\* nothing more.  (The bound on events lets the table come to rest.)
EveryEventIsTold ==
  \A c \in Reader :
    Len(told[c]) < Len(events) ~> Len(told[c]) = Len(events) \/ HeldUp(c)
=============================================================================
