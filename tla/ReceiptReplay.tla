---------------------------- MODULE ReceiptReplay ----------------------------
(***************************************************************************)
(* How a sender catches up on delivery receipts: the paged receipt.list    *)
(* replay of PlenipoAgentRuntime._recover_missed_receipts after every      *)
(* (re)connection, the live message.receipt pushes that reach the same     *)
(* handler meanwhile, and the cursor both of them move                     *)
(* (plenipo/runtime/agent.py, state.py, cursor.py).                        *)
(*                                                                         *)
(* The relay (external) keeps the receipts of the sender in list order,    *)
(* pushes a new one to the joined channel, and answers receipt.list with   *)
(* the next PageSize receipts after a cursor.  Pushes and answers share    *)
(* one connection, so the reader takes them in the order they were sent.   *)
(* A client may stay joined with a reader that takes nothing any more.     *)
(***************************************************************************)
EXTENDS ReceiptLedger

CONSTANTS
  PageSize,  \* receipts in a page (limit=100 in the code)
  MaxDown    \* bound: disconnections, crashes, failed and cancelled replays

ASSUME ReplayAssumption ==
  /\ PageSize \in Nat \ {0}
  /\ MaxDown \in Nat

VARIABLES
  linked,   \* a client is joined
  deaf,     \* its reader takes no more frames
  inbound,  \* frames on their way to the reader
  phase,    \* where _recover_missed_receipts stands
  from,     \* page_cursor
  page,     \* the receipts of the answer still to be observed
  more,     \* the answer had a next_cursor
  last,     \* receipts[-1] of the page
  behind,   \* history: the replay of this connection has not come to its end
  race,     \* history: a push has moved the cursor while the agent was behind
  downs     \* disconnections, crashes, failed and cancelled replays so far

linkVars == <<linked, deaf>>
replayVars  == <<phase, from, page, more, last>>
historyVars == <<behind, race>>
vars == <<ledgerVars, linkVars, inbound, replayVars, historyVars, downs>>

\* joined    the reader has set `joined'; the task is scheduled
\* asked     the request is at the relay
\* replied   its answer is among the inbound frames
\* answered  the reader has resolved the future; the task is scheduled
\* working   the task goes through the page
Phase == {"none", "joined", "asked", "replied", "answered", "working"}

\* no    no push was stored while the agent was behind
\* risk  one was, in a replay that may still fetch what the cursor has passed
\* lost  that replay was cut short, or never started from the right place
Race == {"no", "risk", "lost"}

Push   == [kind : {"push"}, env : Envelope]
Answer == [kind : {"answer"}, items : Seq(Envelope), more : BOOLEAN]

ReplayTypeOK ==
  /\ LedgerTypeOK
  /\ linked \in BOOLEAN /\ deaf \in BOOLEAN
  /\ inbound \in Seq(Push \cup Answer)
  /\ phase \in Phase
  /\ from \in Envelope \cup {NoEnvelope}
  /\ page \in Seq(Envelope)
  /\ more \in BOOLEAN
  /\ last \in Envelope \cup {NoEnvelope}
  /\ behind \in BOOLEAN
  /\ race \in Race
  /\ downs \in 0..MaxDown

Init ==
  /\ LedgerInit
  /\ linked = FALSE /\ deaf = FALSE
  /\ inbound = <<>>
  /\ phase = "none"
  /\ from = NoEnvelope
  /\ page = <<>>
  /\ more = FALSE
  /\ last = NoEnvelope
  /\ behind = FALSE
  /\ race = "no"
  /\ downs = 0

\* The event loop is neither inside the handler nor inside a page.
Idling == LoopFree /\ phase # "working"

NoReplay ==
  /\ phase' = "none"
  /\ from' = NoEnvelope
  /\ page' = <<>>
  /\ more' = FALSE
  /\ last' = NoEnvelope

\* _observe_receipt(e) from its first line: a receipt already stored returns.
Observe(e) == IF HasReceipt(receipts, e) THEN UNCHANGED ledgerVars ELSE ObserveStore(e)
-----------------------------------------------------------------------------
(* _recover_missed_receipts                                                 *)

\* The reply to phx_join: connect() can go on, and the reader goes on too.  Nothing
\* says that an agent whose connection is lost ever gets here again.
Join ==
  /\ Idling
  /\ ~linked
  /\ linked' = TRUE
  /\ phase' = "joined"
  /\ behind' = TRUE
  /\ UNCHANGED <<ledgerVars, deaf, inbound, from, page, more, last, race, downs>>

\* connect() returns and the first page is asked for, after the cursor the
\* store has by now: a push read since the join may have moved it.
StartReplay ==
  /\ Idling
  /\ phase = "joined"
  /\ phase' = "asked"
  /\ from' = cursor
  /\ UNCHANGED <<ledgerVars, linkVars, inbound, page, more, last, historyVars,
                 downs>>

\* for payload in receipts: no other task runs before the page is done.
ReplayOne ==
  /\ LoopFree
  /\ phase \in {"answered", "working"}
  /\ page # <<>>
  /\ phase' = "working"
  /\ page' = Tail(page)
  /\ Observe(Head(page))
  /\ UNCHANGED <<linkVars, inbound, from, more, last, historyVars, downs>>

PageDone == LoopFree /\ phase \in {"answered", "working"} /\ page = <<>>

NextPage_BUG_same_page ==
  /\ PageDone
  /\ last # NoEnvelope /\ more
  /\ phase' = "asked"
  /\ UNCHANGED <<ledgerVars, linkVars, inbound, from, page, more, last,
                 historyVars, downs>>

NextPage_BUG_cursor_text ==
  /\ PageDone
  /\ last # NoEnvelope /\ more
  /\ phase' = "asked"
  /\ from' = more
  /\ UNCHANGED <<ledgerVars, linkVars, inbound, page, more, last, historyVars,
                 downs>>

\* The page was not the last one: the next is asked for, after next_cursor.
NextPage ==
  /\ PageDone
  /\ last # NoEnvelope /\ more
  /\ phase' = "asked"
  /\ from' = last
  /\ UNCHANGED <<ledgerVars, linkVars, inbound, page, more, last, historyVars,
                 downs>>

FinishReplay_BUG_first_page ==
  /\ PageDone
  /\ cursor' = IF last = NoEnvelope THEN cursor ELSE last
  /\ NoReplay
  /\ behind' = FALSE
  /\ race' = IF race = "risk" THEN "no" ELSE race
  /\ UNCHANGED <<outbox, receipts, events, obs, relayLog, linkVars, inbound,
                 downs>>

\* The page was the last one: the cursor is set to its last receipt, wherever
\* a live push has moved it meanwhile.
FinishReplay ==
  /\ PageDone
  /\ last = NoEnvelope \/ ~more
  /\ cursor' = IF last = NoEnvelope THEN cursor ELSE last
  /\ NoReplay
  /\ behind' = FALSE
  /\ race' = IF race = "risk" THEN "no" ELSE race
  /\ UNCHANGED <<outbox, receipts, events, obs, relayLog, linkVars, inbound,
                 downs>>

\* The replay is over before its end: what a push has passed stays behind.
CutShort ==
  /\ NoReplay
  /\ race' = IF race = "risk" THEN "lost" ELSE race

\* receipt.list is refused, or cannot be written: the error is raised in the task,
\* and the client stays joined.
ReplayRaises ==
  /\ downs < MaxDown
  /\ downs' = downs + 1
  /\ Idling
  /\ phase = "asked"
  /\ CutShort
  /\ UNCHANGED <<ledgerVars, linkVars, inbound, behind>>

\* The task is cancelled while it waits.  The reader dies of the reply to a request
\* that was cancelled: of one on its way at once (what it would read before may as
\* well have been read already), of a later one in Deafen.
ReplayCancelled ==
  /\ downs < MaxDown
  /\ downs' = downs + 1
  /\ Idling
  /\ phase \in {"asked", "replied", "answered"}
  /\ CutShort
  /\ deaf' = (deaf \/ phase = "replied")
  /\ inbound' = IF deaf' THEN <<>> ELSE inbound
  /\ UNCHANGED <<ledgerVars, linked, behind>>
-----------------------------------------------------------------------------
(* The reader task.                                                         *)

Pop == inbound' = Tail(inbound)

ReadAnswer_BUG_cursor_first ==
  /\ Idling
  /\ linked /\ ~deaf /\ inbound # <<>>
  /\ Head(inbound).kind = "answer"
  /\ Pop
  /\ phase' = "answered"
  /\ page' = Head(inbound).items
  /\ more' = Head(inbound).more
  /\ last' = IF page' = <<>> THEN NoEnvelope ELSE page'[Len(page')]
  /\ cursor' = IF page' = <<>> THEN cursor ELSE last'
  /\ UNCHANGED <<outbox, receipts, events, obs, relayLog, linkVars, from,
                 historyVars, downs>>

ReadAnswer ==
  /\ Idling
  /\ linked /\ ~deaf /\ inbound # <<>>
  /\ Head(inbound).kind = "answer"
  /\ Pop
  /\ phase' = "answered"
  /\ LET answer == Head(inbound) IN
       /\ page' = answer.items
       /\ more' = answer.more
       /\ last' = IF answer.items = <<>> THEN NoEnvelope
                  ELSE answer.items[Len(answer.items)]
  /\ UNCHANGED <<ledgerVars, linkVars, from, historyVars, downs>>

ReadPush ==
  /\ Idling
  /\ linked /\ ~deaf /\ inbound # <<>>
  /\ Head(inbound).kind = "push"
  /\ Pop
  /\ Observe(Head(inbound).env)
  /\ race' = IF ~behind \/ HasReceipt(receipts, Head(inbound).env) THEN race
             ELSE IF phase \in {"none", "joined"} THEN "lost"
             ELSE IF race = "no" THEN "risk" ELSE race
  /\ UNCHANGED <<linkVars, replayVars, behind, downs>>

\* The reader waits for the reply to its own receipt, has died or has ended, and
\* nobody is told: `connected' stays true, and whoever waits for an answer goes on
\* waiting.  (A task that is already scheduled runs first: it changes nothing.)
Deafen ==
  /\ Idling
  /\ linked /\ ~deaf
  /\ phase \notin {"joined", "answered"}
  /\ deaf' = TRUE
  /\ inbound' = <<>>
  /\ UNCHANGED <<ledgerVars, linked, replayVars, historyVars, downs>>

ObserverContinues ==
  /\ ObserveStep
  /\ UNCHANGED <<linkVars, inbound, replayVars, historyVars, downs>>
-----------------------------------------------------------------------------
(* The relay (external), and interruptions.                                 *)

\* The place of a cursor in the relay's list; 0 stands before everything.
Position(c) ==
  IF c = NoEnvelope THEN 0 ELSE CHOOSE i \in DOMAIN relayLog : relayLog[i] = c

RelayAnswers ==
  /\ linked /\ ~deaf
  /\ phase = "asked"
  /\ LET after == SubSeq(relayLog, Position(from) + 1, Len(relayLog))
         size  == IF Len(after) < PageSize THEN Len(after) ELSE PageSize
     IN  inbound' = Append(inbound, [kind |-> "answer", items |-> SubSeq(after, 1, size),
                                     more |-> Len(after) > size])
  /\ phase' = "replied"
  /\ UNCHANGED <<ledgerVars, linkVars, from, page, more, last, historyVars,
                 downs>>

RelayDelivers(e) ==
  /\ RelayLogs(e)
  /\ inbound' = IF linked /\ ~deaf
                THEN Append(inbound, [kind |-> "push", env |-> e])
                ELSE inbound
  /\ UNCHANGED <<linkVars, replayVars, historyVars, downs>>

\* disconnect(): a request still open fails, the frames on the way are lost.  A
\* client in connect() is not yet self._client, and a task that is already
\* scheduled runs before disconnect() is over.
Disconnect ==
  /\ downs < MaxDown
  /\ downs' = downs + 1
  /\ Idling
  /\ linked
  /\ phase \notin {"joined", "answered"}
  /\ linked' = FALSE /\ deaf' = FALSE
  /\ inbound' = <<>>
  /\ behind' = FALSE
  /\ CutShort
  /\ UNCHANGED ledgerVars

\* The process dies, between any two commits.
Crash ==
  /\ downs < MaxDown
  /\ downs' = downs + 1
  /\ linked' = FALSE /\ deaf' = FALSE
  /\ inbound' = <<>>
  /\ behind' = FALSE
  /\ CutShort
  /\ obs' = Idle
  /\ UNCHANGED <<durableVars, relayLog>>
-----------------------------------------------------------------------------
Replay == ReplayOne \/ NextPage \/ FinishReplay
Reader == ReadAnswer \/ ReadPush

Next ==
  \/ Join
  \/ StartReplay
  \/ Replay
  \/ ReplayRaises
  \/ ReplayCancelled
  \/ Reader
  \/ Deafen
  \/ ObserverContinues
  \/ RelayAnswers
  \/ \E e \in Envelope : RelayDelivers(e)
  \/ Disconnect
  \/ Crash

Spec == Init /\ [][Next]_vars

\* The event loop runs what is ready, a reader that still reads among it, and the
\* relay answers it.  No reader has to go on reading, and no agent to reconnect.
Fairness ==
  /\ WF_vars(StartReplay)
  /\ WF_vars(Replay)
  /\ WF_vars(Reader)
  /\ WF_vars(ObserverContinues)
  /\ WF_vars(RelayAnswers)

FairSpec == Spec /\ Fairness
-----------------------------------------------------------------------------
(* Properties.                                                              *)

Covered == \A i \in 1..Position(cursor) : relayLog[i] \in receipts

\* The persisted cursor never claims a receipt that is not stored, wherever a
\* replay or the process is cut short: everything up to it in the relay's list
\* has its row, so a replay from it misses nothing.  Only a push stored while
\* the agent is behind breaks this: for good when it comes before the replay
\* has read the cursor, after the replay failed, or in one that is cut short.
CursorCovers == race = "no" => Covered

\* Nothing falls between the replay and the live pushes: when the replay has
\* come to its end and a reader that still reads has handled every frame, every
\* receipt of the relay is stored, even when pushes raced with the pages.
CaughtUp ==
  linked /\ ~deaf /\ ~behind /\ inbound = <<>> /\ race # "lost" => Logged \subseteq receipts

\* A connection that lasts brings every receipt the relay holds, those it missed
\* among them, however pages and pushes race: unless its reader stops reading,
\* the cursor has passed the receipt, or the replay has failed or was cancelled,
\* which nobody tries again on the same connection.
LinkBringsReceipts ==
  \A e \in Envelope :
    (linked /\ e \in Logged) ~> \/ e \in receipts
                                \/ ~linked \/ deaf
                                \/ race = "lost"
                                \/ behind /\ phase = "none"

\* README.md:69, "Recovers missed receipts via cursor-based `receipt.list'
\* pagination": between replays, the cursor has passed no missed receipt.
CoveredAtRest == phase = "none" => Covered
=============================================================================
