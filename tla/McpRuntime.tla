----------------------------- MODULE McpRuntime -----------------------------
(***************************************************************************)
(* McpRuntime (plenipo/mcp/runtime.py) under the tools of plenipo/mcp/     *)
(* server.py: ensure_connected by tool calls that overlap, the message     *)
(* buffer and drain_messages, requests, and close().                       *)
(*                                                                         *)
(* A tool call runs from one await to the next.  connect() of the client   *)
(* opens a socket, starts a reader and waits for the reader's join event;  *)
(* socket, reader and event share a number here, but a reader iterates     *)
(* over whatever self._ws is when it starts.  A reader that has taken a    *)
(* delivery waits for the reply to its receipt and hears nothing else.     *)
(* What the relay says and the reader hears is one step.  A tool call is   *)
(* cancelled when its MCP client gives it up.                              *)
(***************************************************************************)
EXTENDS Naturals, Sequences, FiniteSets

CONSTANTS
  Tool,       \* tasks that run tools
  Delivery,   \* envelopes for this agent
  Notice,     \* receipts of what this agent sent
  Limits,     \* limits of plenipo_receive
  MaxMail,    \* bound: messages the relay has for the agent
  MaxCall,    \* bound: tools called
  MaxClient,  \* bound: PlenipoClient objects created
  MaxSocket,  \* bound: sockets opened
  MaxBreak,   \* bound: sockets that break
  MaxCancel   \* bound: calls that are cancelled

ASSUME McpAssumption ==
  /\ Delivery \cap Notice = {}
  /\ Limits \subseteq Nat
  /\ {MaxMail, MaxCall, MaxClient, MaxSocket, MaxBreak, MaxCancel} \subseteq Nat

VARIABLES
  client,     \* _client, 0 for None
  up,         \* _connected
  buffer,     \* _buffer
  made,       \* clients created so far
  calls,
  pc, kind,   \* where a task stands, and the tool it runs
  using,      \* the client a task connects, asks or closes
  mine,       \* the socket a task waits for or closes
  ws,         \* self._ws of each client
  owner,      \* the client each opened socket belongs to
  sock,
  reader,     \* the reader started with each socket
  reads,      \* the socket it iterates over
  joined,     \* join events that are set
  asked,      \* requests on a socket whose reply nobody has heard
  mail,       \* external: the messages the relay has
  pushed,     \* external: what the relay pushed on each socket
  confirmed,  \* external: deliveries whose receipt the relay has
  handed,     \* history: how often a message was returned by a tool
  dropped,    \* history: messages close() cleared
  overlapped, \* history: two tasks were in connect() together
  raced,      \* history: connect() and close() overlapped
  abandoned,  \* history: a call was cancelled while it joined
  breaks,
  cancels

taskVars == <<pc, kind, using, mine>>
wireVars == <<sock, owner, ws>>
readerVars == <<reader, reads, joined>>
relayVars == <<mail, pushed, confirmed>>
historyVars == <<handed, dropped, overlapped, raced, abandoned>>
boundVars == <<breaks, cancels>>
vars == <<client, up, buffer, made, calls, taskVars, wireVars, readerVars, asked, relayVars,
          historyVars, boundVars>>

Message == Delivery \cup Notice
Client == 1..MaxClient
Socket == 1..Len(owner)

\* What _pending holds: requests of tools, cancelled ones, receipts.
Pending == {<<"tool", t>> : t \in Tool} \cup {<<"void", n>> : n \in 1..MaxCancel}
           \cup {<<"receipt", r>> : r \in Socket}

McpTypeOK ==
  /\ client \in 0..made /\ made \in 0..MaxClient /\ calls \in 0..MaxCall /\ up \in BOOLEAN
  /\ buffer \in Seq(Message)
  /\ pc \in [Tool -> {"idle", "auth", "joining", "resolving", "asking", "closing"}]
  /\ kind \in [Tool -> {"none", "receive", "ask", "close"}]
  /\ \A t \in Tool : (pc[t] = "idle") <=> (kind[t] = "none")
  /\ \A t \in Tool : pc[t] # "idle" => using[t] \in 1..made
  /\ \A t \in Tool : mine[t] # 0 => owner[mine[t]] = using[t]
  /\ \A c \in Client : ws[c] # 0 => owner[ws[c]] = c
  /\ \A s \in Socket :
       /\ sock[s] \in {"open", "closed", "broken"}
       /\ reader[s] \in {"created", "reading", "receipting", "ended", "dead"}
       /\ reads[s] # 0 => owner[reads[s]] = owner[s]
       /\ asked[s] \subseteq {<<"join", 0>>, <<"refused", 0>>} \cup Pending
       /\ pushed[s] \subseteq Message
  /\ joined \subseteq Socket /\ mail \subseteq Message /\ confirmed \subseteq mail \cap Delivery

Init ==
  /\ client = 0 /\ up = FALSE /\ buffer = <<>> /\ made = 0 /\ calls = 0
  /\ pc = [t \in Tool |-> "idle"] /\ kind = [t \in Tool |-> "none"]
  /\ using = [t \in Tool |-> 0] /\ mine = [t \in Tool |-> 0]
  /\ ws = [c \in Client |-> 0] /\ owner = <<>> /\ sock = <<>>
  /\ reader = <<>> /\ reads = <<>> /\ joined = {}
  /\ asked = <<>> /\ pushed = <<>> /\ confirmed = {}
  /\ mail \in {some \in SUBSET Message : Cardinality(some) <= MaxMail}
  /\ handed = [m \in Message |-> 0] /\ dropped = {}
  /\ overlapped = FALSE /\ raced = FALSE /\ abandoned = FALSE
  /\ breaks = 0 /\ cancels = 0

Connecting(t) == pc[t] \in {"auth", "joining"}
IsOpen(s) == s # 0 /\ sock[s] = "open"
-----------------------------------------------------------------------------
(* The tools                                                                *)

At(t, label, k, c, s) ==
  /\ pc' = [pc EXCEPT ![t] = label]
  /\ kind' = [kind EXCEPT ![t] = k]
  /\ using' = [using EXCEPT ![t] = c]
  /\ mine' = [mine EXCEPT ![t] = s]

Return_BUG_keeps_tool(t) == At(t, "idle", kind[t], 0, 0)

\* The call is over: it returned, or it raised.
Return(t) == At(t, "idle", "none", 0, 0)

DrainMessages_BUG_drops_rest(n) == SubSeq(buffer, n + 2, Len(buffer))

\* What drain_messages leaves when it takes n messages.
DrainMessages(n) == SubSeq(buffer, n + 1, Len(buffer))

\* plenipo_receive once ensure_connected has returned.
Drain(t) ==
  \E limit \in Limits :
    LET n == IF limit < Len(buffer) THEN limit ELSE Len(buffer) IN
    /\ buffer' = DrainMessages(n)
    /\ handed' = [m \in Message |-> handed[m] + (IF \E i \in 1..n : buffer[i] = m THEN 1 ELSE 0)]
    /\ Return(t)
    /\ UNCHANGED asked

\* _request_reply on client c; without a socket, or on one that is gone, it raises.
Request(t, c) ==
  IF IsOpen(ws[c])
  THEN /\ asked' = [asked EXCEPT ![ws[c]] = @ \cup {<<"tool", t>>}]
       /\ At(t, "asking", "ask", c, ws[c])
  ELSE Return(t) /\ UNCHANGED asked

\* ensure_connected returned c.  plenipo_send looks a key up before it asks,
\* the balance and receipts tools ask at once; a client that close() has made
\* None has no such method.
Proceed(t, k, c) ==
  \/ k = "receive" /\ Drain(t)
  \/ /\ k = "ask"
     /\ UNCHANGED <<buffer, handed>>
     /\ \/ c = 0 /\ Return(t) /\ UNCHANGED asked
        \/ c # 0 /\ Request(t, c)
        \/ c # 0 /\ At(t, "resolving", "ask", c, 0) /\ UNCHANGED asked

\* A client is created where there is none.
TheClient == IF client = 0 THEN made + 1 ELSE client
CreateClient == TheClient <= MaxClient /\ client' = TheClient /\ made' = IF client = 0 THEN made + 1 ELSE made

Call(t, k) ==
  /\ pc[t] = "idle"
  /\ up
  /\ CreateClient
  /\ Proceed(t, k, TheClient)
  /\ UNCHANGED <<up, wireVars, readerVars, relayVars, dropped, overlapped, raced, abandoned, boundVars>>

CallConnects_BUG_flag_first(t, k) ==
  /\ pc[t] = "idle"
  /\ ~up
  /\ up' = TRUE
  /\ CreateClient
  /\ At(t, "auth", k, TheClient, 0)
  /\ overlapped' = (overlapped \/ \E u \in Tool : Connecting(u))
  /\ raced' = (raced \/ \E u \in Tool : pc[u] = "closing")
  /\ UNCHANGED <<buffer, wireVars, readerVars, asked, relayVars, handed, dropped, abandoned, boundVars>>

\* The client is there before it is connected; the flag comes after.
CallConnects(t, k) ==
  /\ pc[t] = "idle"
  /\ ~up
  /\ CreateClient
  /\ At(t, "auth", k, TheClient, 0)
  /\ overlapped' = (overlapped \/ \E u \in Tool : Connecting(u))
  /\ raced' = (raced \/ \E u \in Tool : pc[u] = "closing")
  /\ UNCHANGED <<up, buffer, wireVars, readerVars, asked, relayVars, handed, dropped, abandoned, boundVars>>

\* The key is there, or its lookup raised.
Resolved(t) ==
  /\ pc[t] = "resolving"
  /\ \/ Request(t, using[t])
     \/ Return(t) /\ UNCHANGED asked
  /\ UNCHANGED <<client, up, buffer, made, calls, wireVars, readerVars, relayVars, historyVars, boundVars>>

(* PlenipoClient.connect                                                    *)

ConnectFails(t) ==
  /\ pc[t] = "auth"
  /\ Return(t)
  /\ UNCHANGED <<client, up, buffer, made, calls, wireVars, readerVars, asked, relayVars,
                 historyVars, boundVars>>

\* The socket is open, phx_join written, the reader created.
OpenSocket(t) ==
  /\ pc[t] = "auth"
  /\ Len(owner) < MaxSocket
  /\ LET s == Len(owner) + 1 IN
     /\ owner' = Append(owner, using[t])
     /\ sock' = Append(sock, "open")
     /\ ws' = [ws EXCEPT ![using[t]] = s]
     /\ reader' = Append(reader, "created")
     /\ reads' = Append(reads, 0)
     /\ asked' = Append(asked, {<<"join", 0>>})
     /\ pushed' = Append(pushed, {})
     /\ At(t, "joining", kind[t], using[t], s)
  /\ UNCHANGED <<client, up, buffer, made, calls, joined, mail, confirmed, historyVars, boundVars>>

\* joined.wait() returns; the client handed on is the one of now.
Joined(t) ==
  /\ pc[t] = "joining"
  /\ mine[t] \in joined
  /\ up' = TRUE
  /\ Proceed(t, kind[t], client)
  /\ UNCHANGED <<client, made, calls, wireVars, readerVars, relayVars, dropped, overlapped, raced, abandoned, boundVars>>

(* The readers                                                              *)

\* A reader calls recv on socket x: one at a time may, and the socket has to live.
Recv(r, x) ==
  IF IsOpen(x) /\ \A q \in Socket \ {r} : reader[q] = "reading" => reads[q] # x
  THEN "reading"
  ELSE IF x # 0 /\ sock[x] = "closed" THEN "ended" ELSE "dead"

ReaderStarts(r) ==
  /\ reader[r] = "created"
  /\ reads' = [reads EXCEPT ![r] = ws[owner[r]]]
  /\ reader' = [reader EXCEPT ![r] = Recv(r, ws[owner[r]])]
  /\ UNCHANGED <<client, up, buffer, made, calls, taskVars, wireVars, joined, asked, relayVars,
                 historyVars, boundVars>>

Hears(r, x) == reader[r] = "reading" /\ reads[r] = x /\ sock[x] = "open"

\* phx_join is answered; a refusal is ignored, and nothing is pushed after it.
HearJoin(r, x) ==
  /\ Hears(r, x)
  /\ <<"join", 0>> \in asked[x]
  /\ \/ /\ joined' = joined \cup {r}
        /\ asked' = [asked EXCEPT ![x] = @ \ {<<"join", 0>>}]
     \/ /\ joined' = joined
        /\ asked' = [asked EXCEPT ![x] = (@ \ {<<"join", 0>>}) \cup {<<"refused", 0>>}]
  /\ UNCHANGED <<client, up, buffer, made, calls, taskVars, wireVars, reader, reads, relayVars,
                 historyVars, boundVars>>

HearReply_BUG_errors_dropped(r, x, t) ==
  /\ Hears(r, x)
  /\ <<"tool", t>> \in asked[x]
  /\ asked' = [asked EXCEPT ![x] = @ \ {<<"tool", t>>}]
  /\ Return(t) \/ UNCHANGED taskVars
  /\ UNCHANGED <<client, up, buffer, made, calls, wireVars, readerVars, relayVars, historyVars, boundVars>>

\* The reply to a tool's request, on whichever socket of the client it was.
HearReply(r, x, t) ==
  /\ Hears(r, x)
  /\ <<"tool", t>> \in asked[x]
  /\ asked' = [asked EXCEPT ![x] = @ \ {<<"tool", t>>}]
  /\ Return(t)
  /\ UNCHANGED <<client, up, buffer, made, calls, wireVars, readerVars, relayVars, historyVars, boundVars>>

\* The reply to a request that was cancelled: its future is done, and set_result
\* raises in the reader.
HearVoidReply(r, x, n) ==
  /\ Hears(r, x)
  /\ <<"void", n>> \in asked[x]
  /\ asked' = [asked EXCEPT ![x] = @ \ {<<"void", n>>}]
  /\ reader' = [reader EXCEPT ![r] = "dead"]
  /\ UNCHANGED <<client, up, buffer, made, calls, taskVars, wireVars, reads, joined, relayVars,
                 historyVars, boundVars>>

\* The reply to the receipt that reader q waits for; q goes on to recv.  When q
\* was cancelled, so was its future.
HearReceiptReply(r, x, q) ==
  /\ Hears(r, x)
  /\ <<"receipt", q>> \in asked[x]
  /\ asked' = [asked EXCEPT ![x] = @ \ {<<"receipt", q>>}]
  /\ reader' = IF reader[q] = "receipting" THEN [reader EXCEPT ![q] = Recv(q, reads[q])]
               ELSE [reader EXCEPT ![r] = "dead"]
  /\ UNCHANGED <<client, up, buffer, made, calls, taskVars, wireVars, reads, joined, relayVars,
                 historyVars, boundVars>>

\* The relay pushes what is not confirmed, once on each socket that has joined.
Pushes(x, m) ==
  /\ asked[x] \cap {<<"join", 0>>, <<"refused", 0>>} = {}
  /\ m \in mail \ (pushed[x] \cup confirmed)
  /\ pushed' = [pushed EXCEPT ![x] = @ \cup {m}]

HearNotice(r, x, m) ==
  /\ Hears(r, x)
  /\ m \in Notice
  /\ Pushes(x, m)
  /\ buffer' = Append(buffer, m)
  /\ UNCHANGED <<client, up, made, calls, taskVars, wireVars, readerVars, asked, mail, confirmed,
                 historyVars, boundVars>>

\* The handlers return, and the receipt is written on self._ws, or the write
\* raises in the reader.  A receipt that is lost with its socket leaves the
\* message unconfirmed.
HearDelivery(r, x, m) ==
  /\ Hears(r, x)
  /\ m \in Delivery
  /\ Pushes(x, m)
  /\ buffer' = Append(buffer, m)
  /\ LET y == ws[owner[r]] IN
     /\ reader' = [reader EXCEPT ![r] = IF IsOpen(y) THEN "receipting" ELSE "dead"]
     /\ asked' = IF IsOpen(y) THEN [asked EXCEPT ![y] = @ \cup {<<"receipt", r>>}] ELSE asked
     /\ confirmed' \in {confirmed, confirmed \cup (IF IsOpen(y) THEN {m} ELSE {})}
  /\ UNCHANGED <<client, up, made, calls, taskVars, wireVars, reads, joined, mail, historyVars, boundVars>>

\* The socket closes under its reader, cleanly or not.
SocketBreaks(x) ==
  /\ sock[x] = "open"
  /\ breaks < MaxBreak
  /\ breaks' = breaks + 1
  /\ \E how \in {"closed", "broken"} :
       /\ sock' = [sock EXCEPT ![x] = how]
       /\ reader' = [r \in Socket |->
                       IF reader[r] # "reading" \/ reads[r] # x THEN reader[r]
                       ELSE IF how = "closed" THEN "ended" ELSE "dead"]
  /\ UNCHANGED <<client, up, buffer, made, calls, taskVars, owner, ws, reads, joined, asked,
                 relayVars, historyVars, cancels>>

(* close()                                                                  *)

Forget ==
  /\ client' = 0
  /\ up' = FALSE
  /\ buffer' = <<>>
  /\ dropped' = dropped \cup {buffer[i] : i \in 1..Len(buffer)}

CloseUnconnected(t) ==
  /\ pc[t] = "idle"
  /\ client = 0
  /\ Forget
  /\ UNCHANGED <<made, taskVars, wireVars, readerVars, asked, relayVars, handed, overlapped, raced,
                 abandoned, boundVars>>

\* The reader that self._reader_task names: the one of the last socket opened.
LastReader(c) == {r \in Socket : owner[r] = c /\ \A q \in Socket : owner[q] = c => q <= r}

\* disconnect() raises what the reader died of, and close() clears nothing.
CloseRaises(t) ==
  /\ pc[t] = "idle"
  /\ client # 0
  /\ \E r \in LastReader(client) : reader[r] = "dead"
  /\ UNCHANGED <<client, up, buffer, made, taskVars, wireVars, readerVars, asked, relayVars,
                 historyVars, boundVars>>

\* The reader is cancelled, and the socket being closed.
Close(t) ==
  /\ pc[t] = "idle"
  /\ client # 0
  /\ \A r \in LastReader(client) : reader[r] # "dead"
  /\ reader' = [r \in Socket |-> IF r \in LastReader(client) THEN "ended" ELSE reader[r]]
  /\ At(t, "closing", "close", client, ws[client])
  /\ raced' = (raced \/ \E u \in Tool : Connecting(u))
  /\ UNCHANGED <<client, up, buffer, made, wireVars, reads, joined, asked, relayVars, handed,
                 dropped, overlapped, abandoned, boundVars>>

\* The socket is closed, the one of then or of now; the futures of the client
\* fail, and with them the calls that await them.
Closed(t) ==
  /\ pc[t] = "closing"
  /\ \E x \in {mine[t], ws[using[t]]} :
     LET c == using[t]
         over == {u \in Tool : pc[u] = "asking" /\ using[u] = c} \cup {t}
     IN  /\ sock' = [s \in Socket |-> IF s = x THEN "closed" ELSE sock[s]]
         /\ reader' = [r \in Socket |->
                         IF reader[r] = "reading" /\ reads[r] = x THEN "ended"
                         ELSE IF reader[r] = "receipting" /\ owner[r] = c THEN "dead"
                         ELSE reader[r]]
         /\ ws' = [ws EXCEPT ![c] = 0]
         /\ asked' = [s \in Socket |-> IF owner[s] = c THEN asked[s] \ Pending ELSE asked[s]]
         /\ pc' = [u \in Tool |-> IF u \in over THEN "idle" ELSE pc[u]]
         /\ kind' = [u \in Tool |-> IF u \in over THEN "none" ELSE kind[u]]
         /\ using' = [u \in Tool |-> IF u \in over THEN 0 ELSE using[u]]
         /\ mine' = [u \in Tool |-> IF u \in over THEN 0 ELSE mine[u]]
  /\ Forget
  /\ UNCHANGED <<made, calls, owner, reads, joined, relayVars, handed, overlapped, raced, abandoned,
                 boundVars>>

(* Cancellation                                                             *)

\* A call is given up wherever it waits.  One that was joining leaves the socket
\* open, its reader running and the flag down; the request of one that was asking
\* stays in _pending.
Cancel(t) ==
  /\ pc[t] \in {"auth", "joining", "resolving", "asking"}
  /\ cancels < MaxCancel
  /\ cancels' = cancels + 1
  /\ Return(t)
  /\ abandoned' = (abandoned \/ pc[t] = "joining")
  /\ asked' = [s \in Socket |-> IF <<"tool", t>> \in asked[s]
                               THEN (asked[s] \ {<<"tool", t>>}) \cup {<<"void", cancels'>>}
                               ELSE asked[s]]
  /\ UNCHANGED <<client, up, buffer, made, calls, wireVars, readerVars, relayVars, handed, dropped,
                 overlapped, raced, breaks>>

\* close() is cancelled while it closes the socket: nothing after that is done.
\* disconnect() takes a cancellation that comes while it waits for the reader for
\* the reader's own, and goes on.
CancelClose(t) ==
  /\ pc[t] = "closing"
  /\ cancels < MaxCancel
  /\ cancels' = cancels + 1
  /\ \E x \in {mine[t], ws[using[t]]} :
       /\ IsOpen(x)
       /\ sock' = [sock EXCEPT ![x] = "closed"]
       /\ reader' = [r \in Socket |-> IF reader[r] = "reading" /\ reads[r] = x THEN "ended" ELSE reader[r]]
  /\ Return(t)
  /\ UNCHANGED <<client, up, buffer, made, calls, owner, ws, reads, joined, asked, relayVars,
                 historyVars, breaks>>

ToolStep(t) ==
  /\ calls < MaxCall
  /\ calls' = calls + 1
  /\ \/ \E k \in {"receive", "ask"} : Call(t, k) \/ CallConnects(t, k)
     \/ CloseUnconnected(t) \/ CloseRaises(t) \/ Close(t)

\* What goes on by itself once a call has started.
Progress(t) == ConnectFails(t) \/ OpenSocket(t) \/ Joined(t) \/ Resolved(t) \/ Closed(t)

Replies(r, x) ==
  \/ HearJoin(r, x)
  \/ \E t \in Tool : HearReply(r, x, t)
  \/ \E n \in 1..cancels : HearVoidReply(r, x, n)
  \/ \E q \in Socket : HearReceiptReply(r, x, q)

Next ==
  \/ \E t \in Tool : ToolStep(t) \/ Progress(t) \/ Cancel(t) \/ CancelClose(t)
  \/ \E r \in Socket : ReaderStarts(r)
  \/ \E r, x \in Socket :
       \/ Replies(r, x)
       \/ \E m \in Message : HearNotice(r, x, m) \/ HearDelivery(r, x, m)
  \/ \E x \in Socket : SocketBreaks(x)

Spec == Init /\ [][Next]_vars

\* The event loop runs what is ready, and the relay answers every request on a
\* socket that lives.
Fairness ==
  /\ \A t \in Tool : WF_vars(Progress(t))
  /\ \A r \in 1..MaxSocket :
       /\ WF_vars(r \in Socket /\ ReaderStarts(r))
       /\ WF_vars(r \in Socket /\ \E x \in Socket : HearJoin(r, x))
       /\ WF_vars(r \in Socket /\ \E x, q \in Socket : HearReceiptReply(r, x, q))
       /\ \A t \in Tool : WF_vars(r \in Socket /\ \E x \in Socket : HearReply(r, x, t))

FairSpec == Spec /\ Fairness
-----------------------------------------------------------------------------
(* A runtime that takes itself for connected has a client that has joined, and
   no socket beside that client's is open: a second call that finds a client
   but no flag, or a flag but no client, would break either.  Exempt are two
   calls inside connect() together, and a connect() and a close() that overlap;
   from the second part also a call that was cancelled while it joined, whose
   socket the next call does not know of (mcp/runtime.py:148-150, 212-215,
   relay.py:122).  A close() that is cancelled needs no exemption. *)
OneConnection ==
  ~overlapped /\ ~raced =>
    /\ up => \E s \in joined : owner[s] = client
    /\ abandoned \/ \A s, x \in Socket : sock[s] = "open" /\ sock[x] = "open" => s = x

Copies(m) ==
  handed[m] + (IF \E i \in 1..Len(buffer) : buffer[i] = m THEN 1 ELSE 0)

(* A delivery the relay has a receipt for is in the buffer, was returned by a
   tool or was cleared by close(), and nobody sees it twice on one connection
   (mcp/runtime.py:125, 195-207, with the receipt of relay.py:272). *)
ConfirmedIsHandedOut ==
  /\ \A m \in confirmed : Copies(m) >= 1 \/ m \in dropped
  /\ Len(owner) = 1 => \A m \in Message : Copies(m) <= 1

\* The reader that should set the join event is stuck or gone, or reads a socket
\* on which no join is being answered (the relay refused it, or another reader
\* heard it); or nobody reads the socket the reply comes on.
Hung(t) ==
  LET s == mine[t] IN
  \/ /\ pc[t] = "joining" /\ s \notin joined
     /\ \/ reader[s] \notin {"created", "reading"}
        \/ reader[s] = "reading" /\ <<"join", 0>> \notin asked[reads[s]]
  \/ pc[t] = "asking" /\ \A r \in Socket : reader[r] = "reading" => reads[r] # s

(* Every tool call returns or raises, unless its reply or its join can reach
   nobody: the socket or its reader is gone, the reader waits for the reply to
   its own receipt, another connection took its place, or the join was refused
   (mcp/runtime.py:96-168). *)
CallsEnd == \A t \in Tool : pc[t] # "idle" ~> pc[t] = "idle" \/ Hung(t)
=============================================================================
