-------------------------- MODULE McpRuntimeProofs --------------------------
(***************************************************************************)
(* Theorems of McpRuntime, for every set of tool tasks and messages and    *)
(* whatever the tools, the relay and the sockets do: the flag is up only   *)
(* over a client that has joined and one socket is open, as long as calls  *)
(* do not connect or close across each other; and a delivery the relay has *)
(* a receipt for is in the buffer, with a tool, or cleared by close().     *)
(***************************************************************************)
EXTENDS McpRuntime, SequenceTheorems, TLAPS

SockState == {"open", "closed", "broken"}
ReaderState == {"created", "reading", "receipting", "ended", "dead"}
PcState == {"idle", "auth", "joining", "resolving", "asking", "closing"}

\* What may be asked on a socket when there are n of them.
Question(n) == {<<"join", 0>>, <<"refused", 0>>} \cup {<<"tool", t>> : t \in Tool}
               \cup {<<"void", i>> : i \in 1..MaxCancel} \cup {<<"receipt", r>> : r \in 1..n}

\* A task at work holds a client that exists, and a socket of that client.
TaskTypes ==
  /\ pc \in [Tool -> PcState]
  /\ kind \in [Tool -> {"none", "receive", "ask", "close"}]
  /\ using \in [Tool -> Nat]
  /\ mine \in [Tool -> Nat]
  /\ \A t \in Tool :
       /\ pc[t] = "idle" <=> kind[t] = "none"
       /\ pc[t] # "idle" => using[t] \in 1..made
       /\ mine[t] # 0 => mine[t] \in Socket /\ owner[mine[t]] = using[t]

\* A client's socket is one it opened.
WireTypes ==
  /\ owner \in Seq(Client)
  /\ sock \in [Socket -> SockState]
  /\ ws \in [Client -> Nat]
  /\ \A c \in Client : ws[c] # 0 => ws[c] \in Socket /\ owner[ws[c]] = c

\* A reader iterates over a socket of its own client.
ReaderTypes ==
  /\ reader \in [Socket -> ReaderState]
  /\ reads \in [Socket -> Nat]
  /\ joined \subseteq Socket
  /\ \A r \in Socket : reads[r] # 0 => reads[r] \in Socket /\ owner[reads[r]] = owner[r]

\* What the relay holds for each socket.
RelayTypes ==
  /\ asked \in [Socket -> SUBSET Question(Len(owner))]
  /\ pushed \in [Socket -> SUBSET Message]
  /\ mail \subseteq Message
  /\ confirmed \subseteq mail \cap Delivery

\* McpRuntime's own fields, and the history of its messages.
RuntimeTypes ==
  /\ client \in 0..made
  /\ made \in 0..MaxClient
  /\ calls \in 0..MaxCall
  /\ up \in BOOLEAN
  /\ buffer \in Seq(Message)
  /\ handed \in [Message -> Nat]
  /\ dropped \subseteq Message

TypeInv == TaskTypes /\ WireTypes /\ ReaderTypes /\ RelayTypes /\ RuntimeTypes
-----------------------------------------------------------------------------
\* A sequence with one more element.
LEMMA OneMore ==
  ASSUME NEW S, NEW n \in Nat, NEW f \in [1..n -> S], NEW e \in S
  PROVE  /\ Append(f, e) \in [1..(n + 1) -> S]
         /\ \A i \in 1..n : Append(f, e)[i] = f[i]
         /\ Append(f, e)[n + 1] = e
<1>1. f \in Seq(S)
  OBVIOUS
<1>2. Len(f) = n
  BY <1>1
<1>3. /\ Append(f, e) \in Seq(S)
      /\ Len(Append(f, e)) = n + 1
      /\ \A i \in 1..n : Append(f, e)[i] = f[i]
      /\ Append(f, e)[n + 1] = e
  BY <1>1, <1>2, AppendProperties
<1>4. Append(f, e) \in [1..(n + 1) -> S]
  BY <1>3, LenProperties
<1> QED
  BY <1>3, <1>4

\* The sequence drain_messages leaves when it takes the first n of them.
LEMMA Rest ==
  ASSUME buffer \in Seq(Message), NEW n \in 0..Len(buffer)
  PROVE  /\ DrainMessages(n) \in Seq(Message)
         /\ Len(DrainMessages(n)) = Len(buffer) - n
         /\ \A i \in 1..(Len(buffer) - n) : DrainMessages(n)[i] = buffer[n + i]
<1>1. PICK k \in Nat : k = Len(buffer)
  OBVIOUS
<1>2. \A i \in (n + 1)..k : buffer[i] \in Message
  BY <1>1, ElementOfSeq
<1>3. /\ SubSeq(buffer, n + 1, k) \in Seq(Message)
      /\ Len(SubSeq(buffer, n + 1, k)) = IF n + 1 <= k THEN k - (n + 1) + 1 ELSE 0
      /\ \A i \in 1..(k - (n + 1) + 1) : SubSeq(buffer, n + 1, k)[i] = buffer[n + 1 + i - 1]
  BY <1>1, <1>2, SubSeqProperties
<1>4. /\ (IF n + 1 <= k THEN k - (n + 1) + 1 ELSE 0) = k - n /\ k - (n + 1) + 1 = k - n
      /\ \A i \in 1..(k - n) : n + 1 + i - 1 = n + i
  BY <1>1
<1>5. DrainMessages(n) = SubSeq(buffer, n + 1, k)
  BY <1>1 DEF DrainMessages
<1>6. \A i \in 1..(k - n) : DrainMessages(n)[i] = buffer[n + i]
  BY <1>3, <1>4, <1>5
<1> QED
  BY <1>1, <1>3, <1>4, <1>5, <1>6

\* plenipo_receive takes the first n messages of the buffer, counts each of them
\* as handed out, and returns.
LEMMA DrainTakes ==
  ASSUME TypeInv, NEW t \in Tool, Drain(t)
  PROVE  \E n \in 0..Len(buffer) :
           /\ buffer' = DrainMessages(n)
           /\ handed' = [m \in Message |->
                           handed[m] + (IF \E i \in 1..n : buffer[i] = m THEN 1 ELSE 0)]
           /\ Return(t)
           /\ UNCHANGED asked
<1>1. Len(buffer) \in Nat /\ Limits \subseteq Nat
  BY McpAssumption DEF McpAssumption, TypeInv, RuntimeTypes
<1>2. PICK limit \in Limits :
        LET n == IF limit < Len(buffer) THEN limit ELSE Len(buffer) IN
        /\ buffer' = DrainMessages(n)
        /\ handed' = [m \in Message |->
                        handed[m] + (IF \E i \in 1..n : buffer[i] = m THEN 1 ELSE 0)]
        /\ Return(t)
        /\ UNCHANGED asked
  BY DEF Drain
<1> DEFINE n == IF limit < Len(buffer) THEN limit ELSE Len(buffer)
<1>3. n \in 0..Len(buffer)
  BY <1>1, <1>2
<1> QED
  BY <1>2, <1>3
-----------------------------------------------------------------------------
\* A task that moves on with a client that exists and a socket of that client.
LEMMA TaskMoves ==
  ASSUME TaskTypes, made \in Nat, made' \in Nat, made <= made', owner' = owner,
         NEW t \in Tool, NEW l \in PcState, NEW k \in {"none", "receive", "ask", "close"},
         NEW c \in Nat, NEW s \in Nat,
         At(t, l, k, c, s),
         l = "idle" <=> k = "none",
         l # "idle" => c \in 1..made',
         s # 0 => s \in Socket /\ owner[s] = c
  PROVE  TaskTypes'
BY DEF TaskTypes, At, Socket

\* The tasks stay where they are, while clients may be created.
LEMMA TasksStay ==
  ASSUME TaskTypes, made \in Nat, made' \in Nat, made <= made', owner' = owner,
         UNCHANGED taskVars
  PROVE  TaskTypes'
BY DEF TaskTypes, taskVars, Socket

\* A call that is over holds neither client nor socket.
LEMMA TaskReturns ==
  ASSUME TaskTypes, made \in Nat, made' \in Nat, made <= made', owner' = owner,
         NEW t \in Tool, Return(t)
  PROVE  TaskTypes'
BY TaskMoves DEF Return, PcState

\* A step that opens, closes and hands over no socket.
LEMMA WiresStay == ASSUME WireTypes, UNCHANGED wireVars PROVE WireTypes'
BY DEF WireTypes, wireVars, Socket

\* A step that moves no reader and opens no socket.
LEMMA ReadersStay == ASSUME ReaderTypes, UNCHANGED readerVars, owner' = owner PROVE ReaderTypes'
BY DEF ReaderTypes, readerVars, Socket

\* The bounds are natural numbers.
LEMMA Bounds == MaxMail \in Nat /\ MaxCall \in Nat /\ MaxClient \in Nat /\ MaxSocket \in Nat
                /\ MaxBreak \in Nat /\ MaxCancel \in Nat
BY McpAssumption DEF McpAssumption

\* A request is written on the live socket of its client, or raises.
LEMMA RequestTypes ==
  ASSUME TypeInv, made' \in 0..MaxClient, made <= made', owner' = owner,
         NEW t \in Tool, NEW c \in 1..made', Request(t, c)
  PROVE  TaskTypes' /\ asked' \in [Socket -> SUBSET Question(Len(owner))]
<1>1. made \in Nat /\ made' \in Nat /\ c \in Client
  BY Bounds DEF TypeInv, RuntimeTypes, Client
<1>2. CASE IsOpen(ws[c])
  <2>1. ws[c] \in Socket /\ owner[ws[c]] = c /\ ws[c] \in Nat
    BY <1>1, <1>2 DEF TypeInv, WireTypes, IsOpen
  <2>2. /\ asked' = [asked EXCEPT ![ws[c]] = @ \cup {<<"tool", t>>}]
        /\ At(t, "asking", "ask", c, ws[c])
    BY <1>2 DEF Request
  <2>3. TaskTypes'
    BY <1>1, <2>1, <2>2, TaskMoves DEF TypeInv, PcState
  <2>4. <<"tool", t>> \in Question(Len(owner))
    BY DEF Question
  <2> QED
    BY <2>1, <2>2, <2>3, <2>4 DEF TypeInv, RelayTypes
<1>3. CASE ~IsOpen(ws[c])
  BY <1>1, <1>3, TaskReturns DEF Request, TypeInv, RelayTypes
<1> QED
  BY <1>2, <1>3

\* Whatever a tool goes on to do once it is connected.
LEMMA ProceedTypes ==
  ASSUME TypeInv, made' \in 0..MaxClient, made <= made', owner' = owner,
         NEW t \in Tool, NEW k, NEW c \in 0..made', Proceed(t, k, c)
  PROVE  /\ TaskTypes'
         /\ asked' \in [Socket -> SUBSET Question(Len(owner))]
         /\ buffer' \in Seq(Message)
         /\ handed' \in [Message -> Nat]
<1>1. made \in Nat /\ made' \in Nat
  BY Bounds DEF TypeInv, RuntimeTypes
<1>2. CASE Drain(t)
  <2>1. PICK n \in 0..Len(buffer) :
          /\ buffer' = DrainMessages(n)
          /\ handed' = [m \in Message |->
                          handed[m] + (IF \E i \in 1..n : buffer[i] = m THEN 1 ELSE 0)]
          /\ Return(t)
          /\ UNCHANGED asked
    BY <1>2, DrainTakes
  <2>2. buffer' \in Seq(Message)
    BY <2>1, Rest DEF TypeInv, RuntimeTypes
  <2>3. handed' \in [Message -> Nat]
    BY <2>1 DEF TypeInv, RuntimeTypes
  <2>4. TaskTypes'
    BY <1>1, <2>1, TaskReturns DEF TypeInv
  <2> QED
    BY <2>1, <2>2, <2>3, <2>4 DEF TypeInv, RelayTypes
<1>3. ASSUME UNCHANGED <<buffer, handed>>, Return(t), UNCHANGED asked
      PROVE  /\ TaskTypes'
             /\ asked' \in [Socket -> SUBSET Question(Len(owner))]
             /\ buffer' \in Seq(Message)
             /\ handed' \in [Message -> Nat]
  BY <1>1, <1>3, TaskReturns DEF TypeInv, RelayTypes, RuntimeTypes
<1>4. ASSUME UNCHANGED <<buffer, handed>>, c # 0, Request(t, c)
      PROVE  /\ TaskTypes'
             /\ asked' \in [Socket -> SUBSET Question(Len(owner))]
             /\ buffer' \in Seq(Message)
             /\ handed' \in [Message -> Nat]
  <2>1. c \in 1..made'
    BY <1>1, <1>4
  <2> QED
    BY <1>4, <2>1, RequestTypes DEF TypeInv, RuntimeTypes
<1>5. ASSUME UNCHANGED <<buffer, handed>>, c # 0, At(t, "resolving", "ask", c, 0), UNCHANGED asked
      PROVE  /\ TaskTypes'
             /\ asked' \in [Socket -> SUBSET Question(Len(owner))]
             /\ buffer' \in Seq(Message)
             /\ handed' \in [Message -> Nat]
  <2>1. c \in 1..made' /\ c \in Nat
    BY <1>1, <1>5
  <2>2. TaskTypes'
    BY <1>1, <1>5, <2>1, TaskMoves DEF TypeInv, PcState
  <2> QED
    BY <1>5, <2>2 DEF TypeInv, RelayTypes, RuntimeTypes
<1> QED
  BY <1>2, <1>3, <1>4, <1>5 DEF Proceed

\* A tool call finds the client, or creates it where the bound allows one more.
LEMMA ClientCreated ==
  ASSUME TypeInv, CreateClient
  PROVE  /\ TheClient \in 1..made'
         /\ made' \in 0..MaxClient
         /\ made <= made'
         /\ client' = TheClient
         /\ TheClient \in Nat
BY Bounds DEF CreateClient, TheClient, TypeInv, RuntimeTypes

\* Where a reader that calls recv may find itself.
LEMMA RecvTypes ==
  ASSUME NEW r, NEW x
  PROVE  Recv(r, x) \in {"reading", "ended", "dead"}
BY DEF Recv

\* close() clears the runtime.
LEMMA ForgetTypes ==
  ASSUME RuntimeTypes, Forget, UNCHANGED <<made, handed>>, calls' \in 0..MaxCall
  PROVE  RuntimeTypes'
<1>1. \A i \in 1..Len(buffer) : buffer[i] \in Message
  BY DEF RuntimeTypes
<1>2. buffer' \in Seq(Message) /\ client' = 0 /\ up' = FALSE /\ dropped' \subseteq Message
  BY <1>1 DEF Forget, RuntimeTypes
<1>3. made' \in 0..MaxClient /\ calls' \in 0..MaxCall /\ handed' \in [Message -> Nat]
  BY DEF RuntimeTypes
<1>4. client' \in 0..made'
  BY <1>2, <1>3, Bounds
<1>5. up' \in BOOLEAN
  BY <1>2
<1> QED
  BY <1>2, <1>3, <1>4, <1>5 DEF RuntimeTypes

\* A step that touches neither the runtime's own variables, nor the sockets, nor
\* what the relay holds.
LEMMA OthersStay ==
  ASSUME WireTypes, RelayTypes, RuntimeTypes, TaskTypes', ReaderTypes',
         asked' \in [Socket -> SUBSET Question(Len(owner))] \/ asked' = asked,
         UNCHANGED <<client, up, buffer, made, calls, wireVars, relayVars, historyVars>>
  PROVE  TypeInv'
<1>1. WireTypes'
  BY WiresStay
<1>2. RelayTypes'
  BY DEF RelayTypes, relayVars, wireVars, Socket
<1>3. RuntimeTypes'
  BY DEF RuntimeTypes, historyVars
<1> QED
  BY <1>1, <1>2, <1>3 DEF TypeInv

\* A new socket comes with its reader, which has not started, and its join.
LEMMA OpenSocketTypes ==
  ASSUME TypeInv, NEW t \in Tool, OpenSocket(t)
  PROVE  TypeInv'
<1> DEFINE s == Len(owner) + 1
<1>1. /\ Len(owner) \in Nat /\ s \in Nat /\ Socket = 1..Len(owner)
      /\ using[t] \in 1..made /\ using[t] \in Client
  BY Bounds DEF TypeInv, TaskTypes, WireTypes, RuntimeTypes, OpenSocket, Socket, Client
<1>2. /\ owner' = Append(owner, using[t])
      /\ sock' = Append(sock, "open")
      /\ ws' = [ws EXCEPT ![using[t]] = s]
      /\ reader' = Append(reader, "created")
      /\ reads' = Append(reads, 0)
      /\ asked' = Append(asked, {<<"join", 0>>})
      /\ pushed' = Append(pushed, {})
      /\ At(t, "joining", kind[t], using[t], s)
      /\ pc[t] = "auth"
  BY DEF OpenSocket
<1>3. /\ owner' \in Seq(Client)
      /\ Len(owner') = s
      /\ \A i \in Socket : owner'[i] = owner[i]
      /\ owner'[s] = using[t]
      /\ Socket' = 1..s /\ Socket \subseteq Socket' /\ s \in Socket'
  BY <1>1, <1>2, AppendProperties DEF TypeInv, WireTypes, Socket
<1>4. /\ sock' \in [Socket' -> SockState]
      /\ reader' \in [Socket' -> ReaderState]
  BY <1>1, <1>2, <1>3, OneMore DEF TypeInv, WireTypes, ReaderTypes, SockState, ReaderState
<1>5. /\ reads' \in [Socket' -> Nat]
      /\ \A i \in Socket : reads'[i] = reads[i]
      /\ reads'[s] = 0
  <2>1. reads \in [1..Len(owner) -> Nat]
    BY <1>1 DEF TypeInv, ReaderTypes
  <2>2. Append(reads, 0) \in [1..(Len(owner) + 1) -> Nat]
    BY <1>1, <2>1, OneMore
  <2>3. \A i \in 1..Len(owner) : Append(reads, 0)[i] = reads[i]
    BY <1>1, <2>1, OneMore
  <2>4. Append(reads, 0)[Len(owner) + 1] = 0
    BY <1>1, <2>1, OneMore
  <2>5. reads' = Append(reads, 0) /\ Socket = 1..Len(owner) /\ Socket' = 1..(Len(owner) + 1)
    BY <1>1, <1>2, <1>3
  <2> QED
    BY <1>1, <2>2, <2>3, <2>4, <2>5
<1>6. /\ asked' \in [Socket' -> SUBSET Question(Len(owner'))]
      /\ pushed' \in [Socket' -> SUBSET Message]
  <2>1. Question(Len(owner)) \subseteq Question(s)
    BY <1>1 DEF Question
  <2>2. asked \in [1..Len(owner) -> SUBSET Question(s)] /\ {<<"join", 0>>} \in SUBSET Question(s)
    BY <1>1, <2>1 DEF TypeInv, RelayTypes, Question
  <2>3. asked' \in [Socket' -> SUBSET Question(s)]
    BY <1>1, <1>2, <1>3, <2>2, OneMore
  <2>4. pushed' \in [Socket' -> SUBSET Message]
    BY <1>1, <1>2, <1>3, OneMore DEF TypeInv, RelayTypes
  <2> QED
    BY <1>3, <2>3, <2>4
<1>7. TaskTypes'
  <2>1. made' = made
    BY DEF OpenSocket
  <2>2. /\ pc' \in [Tool -> PcState] /\ kind' = kind /\ using' = using
        /\ mine' = [mine EXCEPT ![t] = s] /\ pc' = [pc EXCEPT ![t] = "joining"]
    BY <1>2 DEF At, PcState, TypeInv, TaskTypes
  <2> QED
    BY <1>1, <1>2, <1>3, <2>1, <2>2 DEF TypeInv, TaskTypes
<1>8. WireTypes'
  BY <1>1, <1>2, <1>3, <1>4 DEF TypeInv, WireTypes, Client
<1>9. ReaderTypes'
  <2>1. joined' = joined
    BY DEF OpenSocket
  <2>2. ASSUME NEW r \in Socket', reads'[r] # 0
        PROVE  reads'[r] \in Socket' /\ owner'[reads'[r]] = owner'[r]
    <3>1. r \in Socket
      BY <1>1, <1>3, <1>5, <2>2
    <3> QED
      BY <1>3, <1>5, <2>2, <3>1 DEF TypeInv, ReaderTypes
  <2> QED
    BY <1>3, <1>4, <1>5, <2>1, <2>2 DEF TypeInv, ReaderTypes
<1>10. RelayTypes'
  BY <1>6 DEF TypeInv, RelayTypes, OpenSocket
<1>11. RuntimeTypes'
  BY DEF TypeInv, RuntimeTypes, OpenSocket, historyVars
<1> QED
  BY <1>7, <1>8, <1>9, <1>10, <1>11 DEF TypeInv

\* disconnect() lets go of the calls that wait for a reply, and close() clears
\* the runtime.
LEMMA ClosedTypes ==
  ASSUME TypeInv, NEW t \in Tool, Closed(t)
  PROVE  TypeInv'
<1> DEFINE c == using[t]
           over == {u \in Tool : pc[u] = "asking" /\ using[u] = c} \cup {t}
<1>1. PICK x \in {mine[t], ws[c]} :
        /\ sock' = [s \in Socket |-> IF s = x THEN "closed" ELSE sock[s]]
        /\ reader' = [r \in Socket |->
                        IF reader[r] = "reading" /\ reads[r] = x THEN "ended"
                        ELSE IF reader[r] = "receipting" /\ owner[r] = c THEN "dead"
                        ELSE reader[r]]
        /\ ws' = [ws EXCEPT ![c] = 0]
        /\ asked' = [s \in Socket |-> IF owner[s] = c THEN asked[s] \ Pending ELSE asked[s]]
        /\ pc' = [u \in Tool |-> IF u \in over THEN "idle" ELSE pc[u]]
        /\ kind' = [u \in Tool |-> IF u \in over THEN "none" ELSE kind[u]]
        /\ using' = [u \in Tool |-> IF u \in over THEN 0 ELSE using[u]]
        /\ mine' = [u \in Tool |-> IF u \in over THEN 0 ELSE mine[u]]
  BY DEF Closed
<1>2. UNCHANGED <<made, calls, owner, reads, joined, relayVars, handed>> /\ Forget
  BY DEF Closed
<1>3. TaskTypes'
  BY <1>1, <1>2 DEF TypeInv, TaskTypes, Socket, PcState
<1>4. WireTypes'
  BY <1>1, <1>2 DEF TypeInv, WireTypes, Socket, SockState
<1>5. ReaderTypes'
  BY <1>1, <1>2 DEF TypeInv, ReaderTypes, Socket, ReaderState
<1>6. RelayTypes'
  BY <1>1, <1>2 DEF TypeInv, RelayTypes, Socket, relayVars
<1>7. RuntimeTypes'
  BY <1>2, ForgetTypes DEF TypeInv, RuntimeTypes
<1> QED
  BY <1>3, <1>4, <1>5, <1>6, <1>7 DEF TypeInv

\* A delivery comes to the buffer, and its receipt goes out or raises.
LEMMA HearDeliveryTypes ==
  ASSUME TypeInv, NEW r \in Socket, NEW x \in Socket, NEW m \in Message, HearDelivery(r, x, m)
  PROVE  TypeInv'
<1> DEFINE y == ws[owner[r]]
<1>1. /\ m \in Delivery
      /\ Pushes(x, m)
      /\ buffer' = Append(buffer, m)
      /\ reader' = [reader EXCEPT ![r] = IF IsOpen(y) THEN "receipting" ELSE "dead"]
      /\ asked' = IF IsOpen(y) THEN [asked EXCEPT ![y] = @ \cup {<<"receipt", r>>}] ELSE asked
      /\ confirmed' \in {confirmed, confirmed \cup (IF IsOpen(y) THEN {m} ELSE {})}
      /\ UNCHANGED <<client, up, made, calls, taskVars, wireVars, reads, joined, mail, historyVars>>
  BY DEF HearDelivery
<1>2. owner' = owner /\ owner[r] \in Client
  BY <1>1 DEF wireVars, TypeInv, WireTypes, Socket
<1>3. TaskTypes'
  BY <1>1, <1>2, TasksStay, Bounds DEF TypeInv, RuntimeTypes
<1>4. WireTypes'
  BY <1>1, WiresStay DEF TypeInv
<1>5. ReaderTypes'
  BY <1>1, <1>2 DEF TypeInv, ReaderTypes, Socket, ReaderState
<1>6. RelayTypes'
  <2>1. <<"receipt", r>> \in Question(Len(owner))
    BY DEF Question, Socket
  <2>2. asked' \in [Socket -> SUBSET Question(Len(owner))]
    BY <1>1, <2>1 DEF TypeInv, RelayTypes
  <2>3. /\ m \in mail
        /\ pushed' = [pushed EXCEPT ![x] = @ \cup {m}]
    BY <1>1 DEF Pushes
  <2>4. pushed' \in [Socket -> SUBSET Message]
    BY <2>3 DEF TypeInv, RelayTypes
  <2>5. mail' \subseteq Message /\ confirmed' \subseteq mail' \cap Delivery
    BY <1>1, <2>3 DEF TypeInv, RelayTypes
  <2> QED
    BY <1>2, <2>2, <2>4, <2>5 DEF RelayTypes, Socket
<1>7. RuntimeTypes'
  <2>1. buffer' \in Seq(Message)
    BY <1>1 DEF TypeInv, RuntimeTypes
  <2> QED
    BY <1>1, <2>1 DEF TypeInv, RuntimeTypes, historyVars
<1> QED
  BY <1>3, <1>4, <1>5, <1>6, <1>7 DEF TypeInv

\* A call that is cancelled returns; its request stays, and is nobody's.
LEMMA CancelTypes ==
  ASSUME TypeInv, cancels \in 0..MaxCancel, NEW t \in Tool, Cancel(t)
  PROVE  TypeInv'
<1>1. /\ owner' = owner /\ Return(t) /\ cancels < MaxCancel /\ cancels' = cancels + 1
      /\ asked' = [s \in Socket |-> IF <<"tool", t>> \in asked[s]
                                   THEN (asked[s] \ {<<"tool", t>>}) \cup {<<"void", cancels'>>}
                                   ELSE asked[s]]
      /\ UNCHANGED <<client, up, buffer, made, calls, wireVars, readerVars, relayVars, handed, dropped>>
  BY DEF Cancel, wireVars
<1>2. TaskTypes'
  BY <1>1, TaskReturns, Bounds DEF TypeInv, RuntimeTypes
<1>3. WireTypes' /\ ReaderTypes'
  BY <1>1, WiresStay, ReadersStay DEF TypeInv
<1>4. RelayTypes'
  <2>1. cancels' \in 1..MaxCancel
    BY <1>1, Bounds
  <2>2. <<"void", cancels'>> \in Question(Len(owner))
    BY <2>1 DEF Question
  <2>3. asked' \in [Socket -> SUBSET Question(Len(owner))]
    BY <1>1, <2>2 DEF TypeInv, RelayTypes
  <2> QED
    BY <1>1, <2>3 DEF TypeInv, RelayTypes, relayVars, Socket
<1>5. RuntimeTypes'
  BY <1>1 DEF TypeInv, RuntimeTypes
<1> QED
  BY <1>2, <1>3, <1>4, <1>5 DEF TypeInv

\* A close() that is cancelled leaves the runtime as it was.
LEMMA CancelCloseTypes ==
  ASSUME TypeInv, NEW t \in Tool, CancelClose(t)
  PROVE  TypeInv'
<1>1. PICK x :
        /\ sock' = [sock EXCEPT ![x] = "closed"]
        /\ reader' = [r \in Socket |->
                        IF reader[r] = "reading" /\ reads[r] = x THEN "ended" ELSE reader[r]]
  BY DEF CancelClose
<1>2. /\ owner' = owner /\ ws' = ws /\ Return(t)
      /\ UNCHANGED <<client, up, buffer, made, calls, reads, joined, asked, relayVars, handed, dropped>>
  BY DEF CancelClose, historyVars
<1>3. TaskTypes'
  BY <1>2, TaskReturns, Bounds DEF TypeInv, RuntimeTypes
<1>4. WireTypes'
  BY <1>1, <1>2 DEF TypeInv, WireTypes, Socket, SockState
<1>5. ReaderTypes'
  BY <1>1, <1>2 DEF TypeInv, ReaderTypes, Socket, ReaderState
<1>6. RelayTypes'
  BY <1>2 DEF TypeInv, RelayTypes, Socket, relayVars
<1>7. RuntimeTypes'
  BY <1>2 DEF TypeInv, RuntimeTypes
<1> QED
  BY <1>3, <1>4, <1>5, <1>6, <1>7 DEF TypeInv

\* No more calls are cancelled than the bound allows.
THEOREM CancelsAreCounted == Spec => [](cancels \in 0..MaxCancel)
<1>1. Init => cancels \in 0..MaxCancel
  BY Bounds DEF Init
<1>2. cancels \in 0..MaxCancel /\ [Next]_vars => (cancels \in 0..MaxCancel)'
  <2> SUFFICES ASSUME cancels \in 0..MaxCancel, [Next]_vars PROVE cancels' \in 0..MaxCancel
    OBVIOUS
  <2>1. ASSUME NEW t \in Tool, ToolStep(t) PROVE cancels' = cancels
    BY <2>1 DEF ToolStep, Call, CallConnects, CloseUnconnected, CloseRaises, Close, boundVars
  <2>2. ASSUME NEW t \in Tool, Progress(t) PROVE cancels' = cancels
    BY <2>2 DEF Progress, ConnectFails, OpenSocket, Joined, Resolved, Closed, boundVars
  <2>3. ASSUME NEW t \in Tool, Cancel(t) \/ CancelClose(t) PROVE cancels' \in 0..MaxCancel
    BY <2>3, Bounds DEF Cancel, CancelClose
  <2>4. ASSUME NEW r \in Socket, NEW x \in Socket,
               \/ ReaderStarts(r) \/ Replies(r, x) \/ SocketBreaks(x)
               \/ \E m \in Message : HearNotice(r, x, m) \/ HearDelivery(r, x, m)
        PROVE  cancels' = cancels
    BY <2>4 DEF ReaderStarts, Replies, HearJoin, HearReply, HearVoidReply, HearReceiptReply,
                HearNotice, HearDelivery, SocketBreaks, boundVars
  <2> QED
    BY <2>1, <2>2, <2>3, <2>4 DEF Next, vars, boundVars
<1> QED
  BY <1>1, <1>2, PTL DEF Spec

\* Every variable stays in its type; a task holds a client that exists and a
\* socket of that client; a client and a reader point to sockets of their own.
THEOREM McpTypes == Spec => []TypeInv
<1>1. Init => TypeInv
  <2> SUFFICES ASSUME Init PROVE TypeInv
    OBVIOUS
  <2>1. Len(owner) = 0 /\ owner \in Seq(Client) /\ buffer \in Seq(Message) /\ Socket = {}
    BY DEF Init, Socket
  <2>2. TaskTypes
    BY DEF Init, TaskTypes, PcState
  <2>3. WireTypes
    BY <2>1 DEF Init, WireTypes
  <2>4. ReaderTypes
    BY <2>1 DEF Init, ReaderTypes
  <2>5. RelayTypes
    BY <2>1 DEF Init, RelayTypes
  <2>6. RuntimeTypes
    <3>1. MaxClient \in Nat /\ MaxCall \in Nat
      BY Bounds
    <3>2. /\ client = 0 /\ made = 0 /\ calls = 0 /\ up = FALSE /\ dropped = {}
          /\ handed = [m \in Message |-> 0]
      BY DEF Init
    <3>3. client \in 0..made /\ made \in 0..MaxClient /\ calls \in 0..MaxCall
      BY <3>1, <3>2
    <3>4. up \in BOOLEAN
      BY <3>2
    <3>5. handed \in [Message -> Nat]
      BY <3>2
    <3> QED
      BY <2>1, <3>2, <3>3, <3>4, <3>5 DEF RuntimeTypes
  <2> QED
    BY <2>2, <2>3, <2>4, <2>5, <2>6 DEF TypeInv
<1>2. TypeInv /\ cancels \in 0..MaxCancel /\ [Next]_vars => TypeInv'
  <2> SUFFICES ASSUME TypeInv, cancels \in 0..MaxCancel, [Next]_vars PROVE TypeInv'
    OBVIOUS
  <2>0. /\ TaskTypes /\ WireTypes /\ ReaderTypes /\ RelayTypes /\ RuntimeTypes
        /\ made \in Nat /\ Socket = 1..Len(owner)
    BY Bounds DEF TypeInv, RuntimeTypes, Socket
  <2>1. ASSUME NEW t \in Tool, ToolStep(t) PROVE TypeInv'
    <3>1. calls' \in 0..MaxCall
      BY <2>0, <2>1, Bounds DEF ToolStep, RuntimeTypes
    <3>2. ASSUME NEW k \in {"receive", "ask"}, Call(t, k) PROVE TypeInv'
      <4>1. /\ owner' = owner /\ CreateClient /\ Proceed(t, k, TheClient)
            /\ UNCHANGED <<up, wireVars, readerVars, relayVars, dropped>>
        BY <3>2 DEF Call, wireVars
      <4>2. /\ TheClient \in 1..made' /\ made' \in 0..MaxClient /\ made <= made'
            /\ client' = TheClient /\ TheClient \in 0..made'
        BY <4>1, ClientCreated
      <4>3. /\ TaskTypes' /\ asked' \in [Socket -> SUBSET Question(Len(owner))]
            /\ buffer' \in Seq(Message) /\ handed' \in [Message -> Nat]
        BY <4>1, <4>2, ProceedTypes
      <4>4. WireTypes' /\ ReaderTypes'
        BY <2>0, <4>1, WiresStay, ReadersStay
      <4>5. RelayTypes'
        BY <2>0, <4>1, <4>3 DEF RelayTypes, relayVars, Socket
      <4>6. RuntimeTypes'
        BY <2>0, <3>1, <4>1, <4>2, <4>3 DEF RuntimeTypes
      <4> QED
        BY <4>3, <4>4, <4>5, <4>6 DEF TypeInv
    <3>3. ASSUME NEW k \in {"receive", "ask"}, CallConnects(t, k) PROVE TypeInv'
      <4>1. /\ owner' = owner /\ CreateClient /\ At(t, "auth", k, TheClient, 0)
            /\ UNCHANGED <<up, buffer, wireVars, readerVars, asked, relayVars, handed, dropped>>
        BY <3>3 DEF CallConnects, wireVars
      <4>2. /\ TheClient \in 1..made' /\ made' \in 0..MaxClient /\ made <= made'
            /\ client' = TheClient /\ TheClient \in Nat /\ made' \in Nat
        BY <4>1, ClientCreated, Bounds
      <4>3. TaskTypes'
        BY <2>0, <4>1, <4>2, TaskMoves DEF PcState
      <4>4. WireTypes' /\ ReaderTypes'
        BY <2>0, <4>1, WiresStay, ReadersStay
      <4>5. RelayTypes'
        BY <2>0, <4>1 DEF RelayTypes, relayVars, Socket
      <4>6. RuntimeTypes'
        BY <2>0, <3>1, <4>1, <4>2 DEF RuntimeTypes
      <4> QED
        BY <4>3, <4>4, <4>5, <4>6 DEF TypeInv
    <3>4. CASE CloseUnconnected(t)
      <4>1. /\ owner' = owner /\ Forget
            /\ UNCHANGED <<made, taskVars, wireVars, readerVars, asked, relayVars, handed>>
        BY <3>4 DEF CloseUnconnected, wireVars
      <4>2. TaskTypes'
        BY <2>0, <4>1, TasksStay
      <4>3. WireTypes' /\ ReaderTypes'
        BY <2>0, <4>1, WiresStay, ReadersStay
      <4>4. RelayTypes'
        BY <2>0, <4>1 DEF RelayTypes, relayVars, Socket
      <4>5. RuntimeTypes'
        BY <2>0, <3>1, <4>1, ForgetTypes
      <4> QED
        BY <4>2, <4>3, <4>4, <4>5 DEF TypeInv
    <3>5. CASE CloseRaises(t)
      <4>1. /\ owner' = owner
            /\ UNCHANGED <<client, up, buffer, made, taskVars, wireVars, readerVars, asked,
                           relayVars, handed, dropped>>
        BY <3>5 DEF CloseRaises, wireVars, historyVars
      <4>2. TaskTypes'
        BY <2>0, <4>1, TasksStay
      <4>3. WireTypes' /\ ReaderTypes'
        BY <2>0, <4>1, WiresStay, ReadersStay
      <4>4. RelayTypes'
        BY <2>0, <4>1 DEF RelayTypes, relayVars, Socket
      <4>5. RuntimeTypes'
        BY <2>0, <3>1, <4>1 DEF RuntimeTypes
      <4> QED
        BY <4>2, <4>3, <4>4, <4>5 DEF TypeInv
    <3>6. CASE Close(t)
      <4>1. /\ owner' = owner /\ client # 0
            /\ reader' = [r \in Socket |-> IF r \in LastReader(client) THEN "ended" ELSE reader[r]]
            /\ At(t, "closing", "close", client, ws[client])
            /\ UNCHANGED <<client, up, buffer, made, wireVars, reads, joined, asked, relayVars,
                           handed, dropped>>
        BY <3>6 DEF Close, wireVars
      <4>2. client \in 1..made /\ client \in Client /\ client \in Nat /\ ws[client] \in Nat
        BY <2>0, <4>1, Bounds DEF RuntimeTypes, WireTypes, Client
      <4>3. TaskTypes'
        BY <2>0, <4>1, <4>2, TaskMoves DEF PcState, WireTypes
      <4>4. WireTypes'
        BY <2>0, <4>1, WiresStay
      <4>5. ReaderTypes'
        BY <2>0, <4>1 DEF ReaderTypes, ReaderState, Socket
      <4>6. RelayTypes'
        BY <2>0, <4>1 DEF RelayTypes, relayVars, Socket
      <4>7. RuntimeTypes'
        BY <2>0, <3>1, <4>1 DEF RuntimeTypes
      <4> QED
        BY <4>3, <4>4, <4>5, <4>6, <4>7 DEF TypeInv
    <3> QED
      BY <2>1, <3>2, <3>3, <3>4, <3>5, <3>6 DEF ToolStep
  <2>2. ASSUME NEW t \in Tool, ConnectFails(t) PROVE TypeInv'
    <3>1. /\ owner' = owner /\ Return(t)
          /\ UNCHANGED <<client, up, buffer, made, calls, wireVars, readerVars, asked, relayVars,
                         historyVars>>
      BY <2>2 DEF ConnectFails, wireVars
    <3>2. TaskTypes'
      BY <2>0, <3>1, TaskReturns
    <3> QED
      BY <2>0, <3>1, <3>2, ReadersStay, OthersStay
  <2>3. ASSUME NEW t \in Tool, OpenSocket(t) PROVE TypeInv'
    BY <2>3, OpenSocketTypes
  <2>4. ASSUME NEW t \in Tool, Joined(t) PROVE TypeInv'
    <3>1. /\ owner' = owner /\ Proceed(t, kind[t], client) /\ up' = TRUE
          /\ UNCHANGED <<client, made, calls, wireVars, readerVars, relayVars, dropped>>
      BY <2>4 DEF Joined, wireVars
    <3>2. made' \in 0..MaxClient /\ made <= made' /\ client \in 0..made'
      BY <2>0, <3>1 DEF RuntimeTypes
    <3>3. /\ TaskTypes' /\ asked' \in [Socket -> SUBSET Question(Len(owner))]
          /\ buffer' \in Seq(Message) /\ handed' \in [Message -> Nat]
      BY <3>1, <3>2, ProceedTypes
    <3>4. WireTypes' /\ ReaderTypes'
      BY <2>0, <3>1, WiresStay, ReadersStay
    <3>5. RelayTypes'
      BY <2>0, <3>1, <3>3 DEF RelayTypes, relayVars, Socket
    <3>6. RuntimeTypes'
      BY <2>0, <3>1, <3>2, <3>3 DEF RuntimeTypes
    <3> QED
      BY <3>3, <3>4, <3>5, <3>6 DEF TypeInv
  <2>5. ASSUME NEW t \in Tool, Resolved(t) PROVE TypeInv'
    <3>1. /\ owner' = owner /\ pc[t] = "resolving"
          /\ Request(t, using[t]) \/ (Return(t) /\ UNCHANGED asked)
          /\ UNCHANGED <<client, up, buffer, made, calls, wireVars, readerVars, relayVars,
                         historyVars>>
      BY <2>5 DEF Resolved, wireVars
    <3>2. using[t] \in 1..made' /\ made' \in 0..MaxClient /\ made <= made'
      BY <2>0, <3>1 DEF TaskTypes, RuntimeTypes
    <3>3. TaskTypes' /\ asked' \in [Socket -> SUBSET Question(Len(owner))]
      BY <2>0, <3>1, <3>2, RequestTypes, TaskReturns DEF RelayTypes
    <3> QED
      BY <2>0, <3>1, <3>3, ReadersStay, OthersStay
  <2>6. ASSUME NEW t \in Tool, Closed(t) PROVE TypeInv'
    BY <2>6, ClosedTypes
  <2>7. ASSUME NEW r \in Socket, ReaderStarts(r) PROVE TypeInv'
    <3>1. /\ owner' = owner
          /\ reads' = [reads EXCEPT ![r] = ws[owner[r]]]
          /\ reader' = [reader EXCEPT ![r] = Recv(r, ws[owner[r]])]
          /\ UNCHANGED <<client, up, buffer, made, calls, taskVars, wireVars, joined, asked,
                         relayVars, historyVars>>
      BY <2>7 DEF ReaderStarts, wireVars
    <3>2. owner[r] \in Client
      BY <2>0 DEF WireTypes
    <3>3. ReaderTypes'
      BY <2>0, <3>1, <3>2, RecvTypes DEF ReaderTypes, WireTypes, ReaderState, Socket
    <3>4. TaskTypes'
      BY <2>0, <3>1, TasksStay
    <3> QED
      BY <2>0, <3>1, <3>3, <3>4, OthersStay DEF RelayTypes
  <2>8. ASSUME NEW r \in Socket, NEW x \in Socket, HearJoin(r, x) PROVE TypeInv'
    <3>1. /\ owner' = owner
          /\ joined' \subseteq joined \cup {r}
          /\ \/ asked' = [asked EXCEPT ![x] = @ \ {<<"join", 0>>}]
             \/ asked' = [asked EXCEPT ![x] = (@ \ {<<"join", 0>>}) \cup {<<"refused", 0>>}]
          /\ UNCHANGED <<client, up, buffer, made, calls, taskVars, wireVars, reader, reads,
                         relayVars, historyVars>>
      BY <2>8 DEF HearJoin, wireVars
    <3>2. <<"refused", 0>> \in Question(Len(owner))
      BY DEF Question
    <3>3. asked' \in [Socket -> SUBSET Question(Len(owner))]
      BY <2>0, <3>1, <3>2 DEF RelayTypes
    <3>4. ReaderTypes'
      BY <2>0, <3>1 DEF ReaderTypes, Socket
    <3>5. TaskTypes'
      BY <2>0, <3>1, TasksStay
    <3> QED
      BY <2>0, <3>1, <3>3, <3>4, <3>5, OthersStay
  <2>9. ASSUME NEW r \in Socket, NEW x \in Socket, NEW t \in Tool, HearReply(r, x, t)
        PROVE TypeInv'
    <3>1. /\ owner' = owner /\ Return(t)
          /\ asked' = [asked EXCEPT ![x] = @ \ {<<"tool", t>>}]
          /\ UNCHANGED <<client, up, buffer, made, calls, wireVars, readerVars, relayVars,
                         historyVars>>
      BY <2>9 DEF HearReply, wireVars
    <3>2. asked' \in [Socket -> SUBSET Question(Len(owner))]
      BY <2>0, <3>1 DEF RelayTypes
    <3>3. TaskTypes'
      BY <2>0, <3>1, TaskReturns
    <3> QED
      BY <2>0, <3>1, <3>2, <3>3, ReadersStay, OthersStay
  <2>10. ASSUME NEW r \in Socket, NEW x \in Socket, NEW q \in Socket, HearReceiptReply(r, x, q)
         PROVE TypeInv'
    <3>1. /\ owner' = owner
          /\ asked' = [asked EXCEPT ![x] = @ \ {<<"receipt", q>>}]
          /\ \/ reader' = [reader EXCEPT ![q] = Recv(q, reads[q])]
             \/ reader' = [reader EXCEPT ![r] = "dead"]
          /\ UNCHANGED <<client, up, buffer, made, calls, taskVars, wireVars, reads, joined,
                         relayVars, historyVars>>
      BY <2>10 DEF HearReceiptReply, wireVars
    <3>2. asked' \in [Socket -> SUBSET Question(Len(owner))]
      BY <2>0, <3>1 DEF RelayTypes
    <3>3. ReaderTypes'
      BY <2>0, <3>1, RecvTypes DEF ReaderTypes, ReaderState, Socket
    <3>4. TaskTypes'
      BY <2>0, <3>1, TasksStay
    <3> QED
      BY <2>0, <3>1, <3>2, <3>3, <3>4, OthersStay
  <2>11. ASSUME NEW r \in Socket, NEW x \in Socket, NEW m \in Message, HearNotice(r, x, m)
         PROVE TypeInv'
    <3>1. /\ owner' = owner
          /\ pushed' = [pushed EXCEPT ![x] = @ \cup {m}]
          /\ buffer' = Append(buffer, m)
          /\ UNCHANGED <<client, up, made, calls, taskVars, wireVars, readerVars, asked, mail,
                         confirmed, historyVars>>
      BY <2>11 DEF HearNotice, Pushes, wireVars
    <3>2. TaskTypes'
      BY <2>0, <3>1, TasksStay
    <3>3. WireTypes' /\ ReaderTypes'
      BY <2>0, <3>1, WiresStay, ReadersStay
    <3>4. RelayTypes'
      BY <2>0, <3>1 DEF RelayTypes, Socket
    <3>5. RuntimeTypes'
      BY <2>0, <3>1 DEF RuntimeTypes, historyVars
    <3> QED
      BY <3>2, <3>3, <3>4, <3>5 DEF TypeInv
  <2>12. ASSUME NEW r \in Socket, NEW x \in Socket, NEW m \in Message, HearDelivery(r, x, m)
         PROVE TypeInv'
    BY <2>12, HearDeliveryTypes
  <2>13. ASSUME NEW x \in Socket, SocketBreaks(x) PROVE TypeInv'
    <3>1. PICK how \in {"closed", "broken"} :
            /\ sock' = [sock EXCEPT ![x] = how]
            /\ reader' = [r \in Socket |->
                            IF reader[r] # "reading" \/ reads[r] # x THEN reader[r]
                            ELSE IF how = "closed" THEN "ended" ELSE "dead"]
      BY <2>13 DEF SocketBreaks
    <3>2. UNCHANGED <<client, up, buffer, made, calls, taskVars, owner, ws, reads, joined, asked,
                      relayVars, historyVars>>
      BY <2>13 DEF SocketBreaks
    <3>3. TaskTypes'
      BY <2>0, <3>2, TasksStay
    <3>4. WireTypes'
      BY <2>0, <3>1, <3>2 DEF WireTypes, SockState, Socket
    <3>5. ReaderTypes'
      BY <2>0, <3>1, <3>2 DEF ReaderTypes, ReaderState, Socket
    <3>6. RelayTypes'
      BY <2>0, <3>2 DEF RelayTypes, relayVars, Socket
    <3>7. RuntimeTypes'
      BY <2>0, <3>2 DEF RuntimeTypes, historyVars
    <3> QED
      BY <3>3, <3>4, <3>5, <3>6, <3>7 DEF TypeInv
  <2>14. CASE UNCHANGED vars
    <3>1. /\ owner' = owner
          /\ UNCHANGED <<client, up, buffer, made, calls, taskVars, wireVars, readerVars, asked,
                         relayVars, historyVars>>
      BY <2>14 DEF vars, wireVars
    <3>2. TaskTypes' /\ ReaderTypes'
      BY <2>0, <3>1, TasksStay, ReadersStay
    <3> QED
      BY <2>0, <3>1, <3>2, OthersStay DEF RelayTypes
  <2>15. ASSUME NEW t \in Tool, Cancel(t) \/ CancelClose(t) PROVE TypeInv'
    BY <2>15, CancelTypes, CancelCloseTypes
  <2>16. ASSUME NEW r \in Socket, NEW x \in Socket, NEW n, HearVoidReply(r, x, n) PROVE TypeInv'
    <3>1. /\ owner' = owner
          /\ asked' = [asked EXCEPT ![x] = @ \ {<<"void", n>>}]
          /\ reader' = [reader EXCEPT ![r] = "dead"]
          /\ UNCHANGED <<client, up, buffer, made, calls, taskVars, wireVars, reads, joined,
                         relayVars, historyVars>>
      BY <2>16 DEF HearVoidReply, wireVars
    <3>2. asked' \in [Socket -> SUBSET Question(Len(owner))]
      BY <2>0, <3>1 DEF RelayTypes
    <3>3. ReaderTypes'
      BY <2>0, <3>1 DEF ReaderTypes, ReaderState, Socket
    <3>4. TaskTypes'
      BY <2>0, <3>1, TasksStay
    <3> QED
      BY <2>0, <3>1, <3>2, <3>3, <3>4, OthersStay
  <2> QED
    BY <2>1, <2>2, <2>3, <2>4, <2>5, <2>6, <2>7, <2>8, <2>9, <2>10, <2>11, <2>12, <2>13, <2>14,
       <2>15, <2>16 DEF Next, Progress, Replies
<1> QED
  BY <1>1, <1>2, CancelsAreCounted, PTL DEF Spec

\* A tool call that raises, a socket that breaks and a close() that overlaps
\* leave no variable outside its type.
THEOREM McpTypeCorrect == Spec => []McpTypeOK
<1>1. TypeInv => McpTypeOK
  <2> SUFFICES ASSUME TypeInv PROVE McpTypeOK
    OBVIOUS
  <2>1. Question(Len(owner)) = {<<"join", 0>>, <<"refused", 0>>} \cup Pending
    BY DEF Question, Pending, Socket
  <2> QED
    BY <2>1 DEF TypeInv, TaskTypes, WireTypes, ReaderTypes, RelayTypes, RuntimeTypes, McpTypeOK,
                PcState, SockState, ReaderState
<1> QED
  BY <1>1, McpTypes, PTL
-----------------------------------------------------------------------------
\* The replies that are still to be heard are those of the calls that wait, each
\* on the socket its request was written on; and those of calls that were
\* cancelled, each on one socket.
WaitersAsked ==
  /\ \A s \in Socket, t \in Tool : <<"tool", t>> \in asked[s] <=> pc[t] = "asking" /\ mine[t] = s
  /\ \A t \in Tool : pc[t] = "asking" => mine[t] # 0

VoidsApart ==
  \A s \in Socket, n \in 1..MaxCancel :
    <<"void", n>> \in asked[s] => /\ n <= cancels
                                 /\ \A x \in Socket : <<"void", n>> \in asked[x] => x = s

AskersWait == WaitersAsked /\ VoidsApart

\* At most one call connects, and none closes meanwhile.
OneAtATime ==
  \A t, u \in Tool : Connecting(t) => /\ Connecting(u) => t = u
                                     /\ pc[u] # "closing"

\* Who connects does so for the client the runtime has, and the flag is not set
\* yet; who closes closes that client and the socket that client has, unless
\* another close() has cleared the runtime already.
HolderIsCurrent ==
  /\ \A t \in Tool : Connecting(t) => ~up /\ using[t] = client
  /\ \A t \in Tool : pc[t] = "closing" /\ client # 0 =>
                      using[t] = client /\ mine[t] = ws[client]

\* The flag is up over a client one of whose sockets has joined.
UpIsJoined == up => \E s \in joined : owner[s] = client

\* An open socket is the one of the runtime's client, and is either in use or
\* the one a call waits on to join.
OpenIsCurrent ==
  \A s \in Socket : sock[s] = "open" =>
    /\ client # 0
    /\ ws[client] = s
    /\ up \/ \E t \in Tool : pc[t] = "joining" /\ mine[t] = s

Alone == OneAtATime /\ HolderIsCurrent /\ UpIsJoined /\ (abandoned \/ OpenIsCurrent)

\* Two calls inside connect() together, and a connect() and a close() that overlap,
\* are exempt; of a call that was cancelled while it joined a socket stays open.
ConnInv == ~overlapped /\ ~raced => Alone

\* A task that moves, and those that do not.
LEMMA AtMoves ==
  ASSUME TaskTypes, NEW t \in Tool, NEW l, NEW k, NEW c, NEW s, At(t, l, k, c, s)
  PROVE  /\ pc'[t] = l /\ using'[t] = c /\ mine'[t] = s
         /\ \A u \in Tool \ {t} : pc'[u] = pc[u] /\ using'[u] = using[u] /\ mine'[u] = mine[u]
BY DEF At, TaskTypes

\* What Request does to its task and to the questions asked.
LEMMA RequestMoves ==
  ASSUME TypeInv, NEW t \in Tool, NEW c \in Client, Request(t, c)
  PROVE  /\ pc'[t] \in {"idle", "asking"}
         /\ \A u \in Tool \ {t} : pc'[u] = pc[u] /\ using'[u] = using[u] /\ mine'[u] = mine[u]
         /\ \/ UNCHANGED asked /\ pc'[t] # "asking"
            \/ \E s \in Socket : /\ asked' = [asked EXCEPT ![s] = @ \cup {<<"tool", t>>}]
                                 /\ pc'[t] = "asking" /\ mine'[t] = s
<1>1. CASE IsOpen(ws[c])
  <2>1. ws[c] \in Socket
    BY <1>1 DEF TypeInv, WireTypes, IsOpen
  <2> QED
    BY <1>1, <2>1, AtMoves DEF Request, TypeInv
<1>2. CASE ~IsOpen(ws[c])
  BY <1>2, AtMoves DEF Request, Return, TypeInv
<1> QED
  BY <1>1, <1>2

\* What Proceed does to its task and to the questions asked.
LEMMA ProceedMoves ==
  ASSUME TypeInv, NEW t \in Tool, NEW k, NEW c, c = 0 \/ c \in Client, Proceed(t, k, c)
  PROVE  /\ pc'[t] \in {"idle", "asking", "resolving"}
         /\ \A u \in Tool \ {t} : pc'[u] = pc[u] /\ using'[u] = using[u] /\ mine'[u] = mine[u]
         /\ \/ UNCHANGED asked /\ pc'[t] # "asking"
            \/ \E s \in Socket : /\ asked' = [asked EXCEPT ![s] = @ \cup {<<"tool", t>>}]
                                 /\ pc'[t] = "asking" /\ mine'[t] = s
<1>1. CASE Drain(t)
  BY <1>1, DrainTakes, AtMoves DEF Return, TypeInv
<1>2. CASE Return(t) /\ UNCHANGED asked
  BY <1>2, AtMoves DEF Return, TypeInv
<1>3. CASE c # 0 /\ Request(t, c)
  BY <1>3, RequestMoves
<1>4. CASE At(t, "resolving", "ask", c, 0) /\ UNCHANGED asked
  BY <1>4, AtMoves DEF TypeInv
<1> QED
  BY <1>1, <1>2, <1>3, <1>4 DEF Proceed

\* A cancelled request stays apart from the others when no new one is marked.
LEMMA VoidsKept ==
  ASSUME VoidsApart, owner' = owner, cancels \in Nat, cancels' \in Nat, cancels <= cancels',
         \A s \in Socket, n \in 1..MaxCancel : <<"void", n>> \in asked'[s] => <<"void", n>> \in asked[s]
  PROVE  VoidsApart'
<1> SUFFICES ASSUME NEW s \in Socket, NEW n \in 1..MaxCancel, <<"void", n>> \in asked'[s]
             PROVE  n <= cancels' /\ \A x \in Socket : <<"void", n>> \in asked'[x] => x = s
  BY DEF VoidsApart, Socket
<1>1. /\ n <= cancels
      /\ \A x \in Socket : <<"void", n>> \in asked[x] => x = s
  BY DEF VoidsApart
<1>2. n \in Nat
  BY Bounds
<1> QED
  BY <1>1, <1>2

\* A task moves on that does not wait for a reply, and it may ask.
LEMMA AskersKept ==
  ASSUME TypeInv, AskersWait, owner' = owner, NEW t \in Tool, pc[t] # "asking",
         cancels \in Nat, cancels' \in Nat, cancels <= cancels',
         \A u \in Tool \ {t} : pc'[u] = pc[u] /\ mine'[u] = mine[u],
         \/ UNCHANGED asked /\ pc'[t] # "asking"
         \/ \E s \in Socket : /\ asked' = [asked EXCEPT ![s] = @ \cup {<<"tool", t>>}]
                              /\ pc'[t] = "asking" /\ mine'[t] = s
  PROVE  AskersWait'
<1>1. asked \in [Socket -> SUBSET Question(Len(owner))]
  BY DEF TypeInv, RelayTypes
<1>2. ASSUME NEW s \in Socket, NEW u \in Tool
      PROVE  <<"tool", u>> \in asked'[s] <=> pc'[u] = "asking" /\ mine'[u] = s
  <2>1. CASE u = t
    BY <1>1, <2>1 DEF AskersWait, WaitersAsked
  <2>2. CASE u # t
    BY <1>1, <2>2 DEF AskersWait, WaitersAsked
  <2> QED
    BY <2>1, <2>2
<1>3. ASSUME NEW u \in Tool, pc'[u] = "asking" PROVE mine'[u] # 0
  BY <1>3 DEF AskersWait, WaitersAsked, Socket
<1>4. \A s \in Socket, n \in 1..MaxCancel : <<"void", n>> \in asked'[s] => <<"void", n>> \in asked[s]
  BY <1>1
<1>5. VoidsApart'
  BY <1>4, VoidsKept DEF AskersWait
<1> QED
  BY <1>2, <1>3, <1>5 DEF AskersWait, WaitersAsked, Socket

\* Nobody moves, and no tool asks.
LEMMA AskersStay ==
  ASSUME AskersWait, UNCHANGED <<owner, pc, mine, cancels>>,
         \A s \in Socket, t \in Tool : <<"tool", t>> \in asked'[s] <=> <<"tool", t>> \in asked[s],
         \A s \in Socket, n \in 1..MaxCancel : <<"void", n>> \in asked'[s] => <<"void", n>> \in asked[s]
  PROVE  AskersWait'
BY DEF AskersWait, WaitersAsked, VoidsApart, Socket

\* The socket a task waits on is one there is.
LEMMA MineExists ==
  ASSUME TypeInv, NEW t \in Tool, mine[t] # 0
  PROVE  mine[t] \in Socket /\ owner[mine[t]] = using[t]
BY DEF TypeInv, TaskTypes

\* close() forgets what is pending on the sockets of its client, and lets go of
\* the calls that wait there.
LEMMA AskersClosed ==
  ASSUME TypeInv, AskersWait, NEW t \in Tool, Closed(t)
  PROVE  AskersWait'
<1> DEFINE c == using[t]
           over == {u \in Tool : pc[u] = "asking" /\ using[u] = c} \cup {t}
<1>1. /\ owner' = owner /\ cancels' = cancels /\ pc[t] = "closing"
      /\ asked' = [s \in Socket |-> IF owner[s] = c THEN asked[s] \ Pending ELSE asked[s]]
      /\ pc' = [u \in Tool |-> IF u \in over THEN "idle" ELSE pc[u]]
      /\ mine' = [u \in Tool |-> IF u \in over THEN 0 ELSE mine[u]]
  BY DEF Closed, boundVars
<1>2. ASSUME NEW s \in Socket, NEW u \in Tool
      PROVE  <<"tool", u>> \in asked'[s] <=> pc'[u] = "asking" /\ mine'[u] = s
  <2>1. <<"tool", u>> \in Pending
    BY DEF Pending
  <2>2. <<"tool", u>> \in asked'[s] <=> <<"tool", u>> \in asked[s] /\ owner[s] # c
    BY <1>1, <2>1
  <2>3. <<"tool", u>> \in asked[s] <=> pc[u] = "asking" /\ mine[u] = s
    BY DEF AskersWait, WaitersAsked
  <2>4. pc[u] = "asking" /\ mine[u] = s => owner[s] = using[u]
    BY MineExists DEF Socket
  <2>5. CASE u \in over
    BY <1>1, <2>2, <2>3, <2>4, <2>5
  <2>6. CASE u \notin over
    BY <1>1, <2>2, <2>3, <2>4, <2>6
  <2> QED
    BY <2>5, <2>6
<1>3. ASSUME NEW u \in Tool, pc'[u] = "asking" PROVE mine'[u] # 0
  BY <1>1, <1>3 DEF AskersWait, WaitersAsked
<1>4. \A s \in Socket : asked'[s] \subseteq asked[s]
  BY <1>1
<1>5. VoidsApart'
  BY <1>1, <1>4 DEF AskersWait, VoidsApart, Socket
<1> QED
  BY <1>1, <1>2, <1>3, <1>5 DEF AskersWait, WaitersAsked, Socket

\* The request of a call that is cancelled is marked with a number of its own.
LEMMA AskersCancelled ==
  ASSUME TypeInv, AskersWait, cancels \in Nat, NEW t \in Tool, Cancel(t)
  PROVE  AskersWait'
<1>1. /\ owner' = owner /\ cancels' = cancels + 1 /\ Return(t)
      /\ asked' = [s \in Socket |-> IF <<"tool", t>> \in asked[s]
                                   THEN (asked[s] \ {<<"tool", t>>}) \cup {<<"void", cancels'>>}
                                   ELSE asked[s]]
  BY DEF Cancel, wireVars
<1>2. /\ pc'[t] = "idle"
      /\ \A u \in Tool \ {t} : pc'[u] = pc[u] /\ mine'[u] = mine[u]
  BY <1>1, AtMoves DEF Return, TypeInv
<1>3. ASSUME NEW s \in Socket, NEW u \in Tool
      PROVE  <<"tool", u>> \in asked'[s] <=> pc'[u] = "asking" /\ mine'[u] = s
  <2>1. CASE u = t
    BY <1>1, <1>2, <2>1
  <2>2. CASE u # t
    BY <1>1, <1>2, <2>2 DEF AskersWait, WaitersAsked
  <2> QED
    BY <2>1, <2>2
<1>4. ASSUME NEW u \in Tool, pc'[u] = "asking" PROVE mine'[u] # 0
  BY <1>2, <1>4 DEF AskersWait, WaitersAsked
<1>5. \A s \in Socket, n \in 1..MaxCancel :
        <<"void", n>> \in asked'[s] =>
          <<"void", n>> \in asked[s] \/ (n = cancels + 1 /\ <<"tool", t>> \in asked[s])
  BY <1>1
<1>6. \A s, x \in Socket : <<"tool", t>> \in asked[s] /\ <<"tool", t>> \in asked[x] => x = s
  BY DEF AskersWait, WaitersAsked
<1>7. ASSUME NEW s \in Socket, NEW n \in 1..MaxCancel, <<"void", n>> \in asked'[s]
      PROVE  n <= cancels' /\ \A x \in Socket : <<"void", n>> \in asked'[x] => x = s
  <2>1. n \in Nat
    BY Bounds
  <2>2. \A x \in Socket : <<"void", n>> \in asked[x] => n <= cancels /\ \A y \in Socket :
                                                                   <<"void", n>> \in asked[y] => y = x
    BY DEF AskersWait, VoidsApart
  <2>3. CASE n = cancels + 1
    <3>1. \A x \in Socket : <<"void", n>> \notin asked[x]
      BY <2>1, <2>2, <2>3
    <3> QED
      BY <1>1, <1>5, <1>6, <1>7, <2>3, <3>1
  <2>4. CASE n # cancels + 1
    <3>1. \A x \in Socket : <<"void", n>> \in asked'[x] => <<"void", n>> \in asked[x]
      BY <1>5, <2>4
    <3> QED
      BY <1>1, <1>7, <2>1, <2>2, <3>1
  <2> QED
    BY <2>3, <2>4
<1>8. VoidsApart'
  BY <1>1, <1>7 DEF VoidsApart, Socket
<1> QED
  BY <1>1, <1>3, <1>4, <1>8 DEF AskersWait, WaitersAsked, Socket

\* Whoever hears a reply, wherever a close() lets go of the calls that wait, and
\* whenever a call is cancelled: exactly the calls that wait have a reply to
\* come, and each other reply belongs to one cancelled request, so that it kills
\* one reader at most.
THEOREM RepliesHaveAskers == Spec => []AskersWait
<1>1. Init => AskersWait
  BY DEF Init, AskersWait, WaitersAsked, VoidsApart, Socket
<1>2. TypeInv /\ cancels \in 0..MaxCancel /\ AskersWait /\ [Next]_vars => AskersWait'
  <2> SUFFICES ASSUME TypeInv, cancels \in Nat, AskersWait, [Next]_vars PROVE AskersWait'
    BY Bounds
  <2>0. TaskTypes /\ asked \in [Socket -> SUBSET Question(Len(owner))]
    BY DEF TypeInv, RelayTypes
  <2>1. ASSUME NEW t \in Tool, ToolStep(t) PROVE AskersWait'
    <3>1. ASSUME NEW k \in {"receive", "ask"}, Call(t, k) PROVE AskersWait'
      <4>1. /\ owner' = owner /\ cancels' = cancels /\ pc[t] = "idle" /\ CreateClient /\ Proceed(t, k, TheClient)
        BY <3>1 DEF Call, wireVars, boundVars
      <4>2. TheClient \in Client
        BY <4>1, ClientCreated, Bounds DEF Client
      <4> QED
        BY <4>1, <4>2, ProceedMoves, AskersKept
    <3>2. ASSUME NEW k \in {"receive", "ask"}, CallConnects(t, k) PROVE AskersWait'
      <4>1. /\ owner' = owner /\ cancels' = cancels /\ pc[t] = "idle" /\ UNCHANGED asked
            /\ At(t, "auth", k, TheClient, 0)
        BY <3>2 DEF CallConnects, wireVars, boundVars
      <4> QED
        BY <2>0, <4>1, AtMoves, AskersKept
    <3>3. CASE CloseUnconnected(t) \/ CloseRaises(t)
      <4>1. UNCHANGED <<owner, pc, mine, cancels, asked>>
        BY <3>3 DEF CloseUnconnected, CloseRaises, wireVars, taskVars, boundVars
      <4> QED
        BY <4>1, AskersStay
    <3>4. CASE Close(t)
      <4>1. /\ owner' = owner /\ cancels' = cancels /\ pc[t] = "idle" /\ UNCHANGED asked
            /\ At(t, "closing", "close", client, ws[client])
        BY <3>4 DEF Close, wireVars, boundVars
      <4> QED
        BY <2>0, <4>1, AtMoves, AskersKept
    <3> QED
      BY <2>1, <3>1, <3>2, <3>3, <3>4 DEF ToolStep
  <2>2. ASSUME NEW t \in Tool, ConnectFails(t) PROVE AskersWait'
    <3>1. owner' = owner /\ cancels' = cancels /\ pc[t] = "auth" /\ UNCHANGED asked /\ Return(t)
      BY <2>2 DEF ConnectFails, wireVars, boundVars
    <3> QED
      BY <2>0, <3>1, AtMoves, AskersKept DEF Return
  <2>3. ASSUME NEW t \in Tool, OpenSocket(t) PROVE AskersWait'
    <3> DEFINE n == Len(owner) + 1
    <3>1. /\ pc[t] = "auth" /\ owner' = Append(owner, using[t])
          /\ asked' = Append(asked, {<<"join", 0>>})
          /\ At(t, "joining", kind[t], using[t], n)
          /\ using[t] \in Client /\ owner \in Seq(Client) /\ Len(owner) \in Nat
      BY <2>3, Bounds DEF OpenSocket, TypeInv, TaskTypes, WireTypes, RuntimeTypes, Client
    <3>2. Len(owner') = n
      BY <3>1, AppendProperties
    <3>3. /\ \A i \in 1..Len(owner) : asked'[i] = asked[i]
          /\ asked'[n] = {<<"join", 0>>}
      <4>1. {<<"join", 0>>} \in SUBSET Question(Len(owner))
        BY DEF Question
      <4> QED
        BY <2>0, <3>1, <4>1, OneMore DEF Socket
    <3>4. /\ pc'[t] = "joining" /\ cancels' = cancels
          /\ \A u \in Tool \ {t} : pc'[u] = pc[u] /\ mine'[u] = mine[u]
      BY <2>0, <2>3, <3>1, AtMoves DEF OpenSocket, boundVars
    <3>5. \A u \in Tool : mine[u] # n
      BY <3>1, MineExists DEF Socket
    <3>6. \A s \in 1..n : s # n => s \in Socket /\ asked'[s] = asked[s]
      <4>1. Len(owner) \in Nat
        BY <3>1
      <4>2. \A s \in 1..n : s # n => s \in 1..Len(owner)
        BY <4>1
      <4> QED
        BY <3>3, <4>2 DEF Socket
    <3>7. ASSUME NEW s \in 1..n, NEW u \in Tool
          PROVE  <<"tool", u>> \in asked'[s] <=> pc'[u] = "asking" /\ mine'[u] = s
      <4>1. CASE s = n
        <5>1. <<"tool", u>> \notin asked'[s]
          BY <3>3, <4>1
        <5>2. pc'[u] = "asking" => mine'[u] # s
          BY <3>4, <3>5, <4>1
        <5> QED
          BY <5>1, <5>2
      <4>2. CASE s # n
        <5>1. s \in Socket /\ asked'[s] = asked[s]
          BY <3>6, <4>2
        <5>2. <<"tool", u>> \in asked[s] <=> pc[u] = "asking" /\ mine[u] = s
          BY <5>1 DEF AskersWait, WaitersAsked
        <5> QED
          BY <3>1, <3>4, <5>1, <5>2
      <4> QED
        BY <4>1, <4>2
    <3>8. ASSUME NEW u \in Tool, pc'[u] = "asking" PROVE mine'[u] # 0
      BY <3>4, <3>8 DEF AskersWait, WaitersAsked
    <3>9. ASSUME NEW s \in 1..n, NEW i \in 1..MaxCancel, <<"void", i>> \in asked'[s]
          PROVE  s \in Socket /\ <<"void", i>> \in asked[s]
      <4>1. s # n
        BY <3>3, <3>9
      <4> QED
        BY <3>3, <3>9, <3>6, <4>1
    <3>10. VoidsApart'
      BY <3>2, <3>4, <3>9 DEF AskersWait, VoidsApart, Socket
    <3> QED
      BY <3>2, <3>7, <3>8, <3>10 DEF AskersWait, WaitersAsked, Socket
  <2>4. ASSUME NEW t \in Tool, Joined(t) PROVE AskersWait'
    <3>1. owner' = owner /\ cancels' = cancels /\ pc[t] = "joining" /\ Proceed(t, kind[t], client)
      BY <2>4 DEF Joined, wireVars, boundVars
    <3>2. client = 0 \/ client \in Client
      BY Bounds DEF TypeInv, RuntimeTypes, Client
    <3> QED
      BY <3>1, <3>2, ProceedMoves, AskersKept
  <2>5. ASSUME NEW t \in Tool, Resolved(t) PROVE AskersWait'
    <3>1. /\ owner' = owner /\ cancels' = cancels /\ pc[t] = "resolving"
          /\ Request(t, using[t]) \/ (Return(t) /\ UNCHANGED asked)
      BY <2>5 DEF Resolved, wireVars, boundVars
    <3>2. using[t] \in Client
      BY <3>1, Bounds DEF TypeInv, TaskTypes, RuntimeTypes, Client
    <3>3. CASE Request(t, using[t])
      BY <3>1, <3>2, <3>3, RequestMoves, AskersKept
    <3>4. CASE Return(t) /\ UNCHANGED asked
      BY <2>0, <3>1, <3>4, AtMoves, AskersKept DEF Return
    <3> QED
      BY <3>1, <3>3, <3>4
  <2>6. ASSUME NEW t \in Tool, Closed(t) PROVE AskersWait'
    BY <2>6, AskersClosed
  <2>7. ASSUME NEW r \in Socket, NEW x \in Socket, NEW t \in Tool, HearReply(r, x, t)
        PROVE AskersWait'
    <3>1. /\ owner' = owner /\ cancels' = cancels /\ <<"tool", t>> \in asked[x]
          /\ asked' = [asked EXCEPT ![x] = @ \ {<<"tool", t>>}] /\ Return(t)
      BY <2>7 DEF HearReply, wireVars, boundVars
    <3>2. /\ pc'[t] = "idle" /\ mine[t] = x
          /\ \A u \in Tool \ {t} : pc'[u] = pc[u] /\ mine'[u] = mine[u]
      BY <2>0, <3>1, AtMoves DEF Return, AskersWait, WaitersAsked
    <3>3. ASSUME NEW s \in Socket, NEW u \in Tool
          PROVE  <<"tool", u>> \in asked'[s] <=> pc'[u] = "asking" /\ mine'[u] = s
      <4>1. CASE u = t
        BY <2>0, <3>1, <3>2, <4>1 DEF AskersWait, WaitersAsked
      <4>2. CASE u # t
        BY <2>0, <3>1, <3>2, <4>2 DEF AskersWait, WaitersAsked
      <4> QED
        BY <4>1, <4>2
    <3>4. ASSUME NEW u \in Tool, pc'[u] = "asking" PROVE mine'[u] # 0
      BY <3>2, <3>4 DEF AskersWait, WaitersAsked
    <3>5. \A s \in Socket : asked'[s] \subseteq asked[s]
      BY <2>0, <3>1
    <3>6. VoidsApart'
      BY <3>1, <3>5, VoidsKept DEF AskersWait
    <3> QED
      BY <3>1, <3>3, <3>4, <3>6 DEF AskersWait, WaitersAsked, Socket
  <2>8. ASSUME NEW r \in Socket, NEW x \in Socket, NEW m \in Message, HearDelivery(r, x, m)
        PROVE AskersWait'
    <3> DEFINE y == ws[owner[r]]
    <3>1. /\ UNCHANGED <<owner, pc, mine, cancels>>
          /\ asked' = IF IsOpen(y) THEN [asked EXCEPT ![y] = @ \cup {<<"receipt", r>>}] ELSE asked
      BY <2>8 DEF HearDelivery, wireVars, taskVars, boundVars
    <3>2. /\ \A s \in Socket, t \in Tool : <<"tool", t>> \in asked'[s] <=> <<"tool", t>> \in asked[s]
          /\ \A s \in Socket, n \in 1..MaxCancel :
               <<"void", n>> \in asked'[s] => <<"void", n>> \in asked[s]
      BY <2>0, <3>1
    <3> QED
      BY <3>1, <3>2, AskersStay
  <2>9. ASSUME NEW r \in Socket, NEW x \in Socket, HearJoin(r, x) PROVE AskersWait'
    <3>1. /\ UNCHANGED <<owner, pc, mine, cancels>>
          /\ \/ asked' = [asked EXCEPT ![x] = @ \ {<<"join", 0>>}]
             \/ asked' = [asked EXCEPT ![x] = (@ \ {<<"join", 0>>}) \cup {<<"refused", 0>>}]
      BY <2>9 DEF HearJoin, wireVars, taskVars, boundVars
    <3>2. /\ \A s \in Socket, t \in Tool : <<"tool", t>> \in asked'[s] <=> <<"tool", t>> \in asked[s]
          /\ \A s \in Socket, n \in 1..MaxCancel :
               <<"void", n>> \in asked'[s] => <<"void", n>> \in asked[s]
      BY <2>0, <3>1
    <3> QED
      BY <3>1, <3>2, AskersStay
  <2>10. ASSUME NEW r \in Socket, NEW x \in Socket, NEW q \in Socket, HearReceiptReply(r, x, q)
         PROVE AskersWait'
    <3>1. /\ UNCHANGED <<owner, pc, mine, cancels>>
          /\ asked' = [asked EXCEPT ![x] = @ \ {<<"receipt", q>>}]
      BY <2>10 DEF HearReceiptReply, wireVars, taskVars, boundVars
    <3>2. /\ \A s \in Socket, t \in Tool : <<"tool", t>> \in asked'[s] <=> <<"tool", t>> \in asked[s]
          /\ \A s \in Socket, n \in 1..MaxCancel :
               <<"void", n>> \in asked'[s] => <<"void", n>> \in asked[s]
      BY <2>0, <3>1
    <3> QED
      BY <3>1, <3>2, AskersStay
  <2>11. CASE \/ \E r \in Socket : ReaderStarts(r)
              \/ \E r, x \in Socket, m \in Message : HearNotice(r, x, m)
              \/ \E x \in Socket : SocketBreaks(x)
              \/ UNCHANGED vars
    <3>1. UNCHANGED <<owner, pc, mine, cancels, asked>>
      BY <2>11 DEF ReaderStarts, HearNotice, SocketBreaks, vars, wireVars, taskVars, boundVars
    <3> QED
      BY <3>1, AskersStay
  <2>12. ASSUME NEW t \in Tool, Cancel(t) PROVE AskersWait'
    BY <2>12, AskersCancelled
  <2>13. ASSUME NEW t \in Tool, CancelClose(t) PROVE AskersWait'
    <3>1. /\ owner' = owner /\ pc[t] = "closing" /\ UNCHANGED asked /\ Return(t)
          /\ cancels' = cancels + 1
      BY <2>13 DEF CancelClose
    <3> QED
      BY <2>0, <3>1, AtMoves, AskersKept DEF Return
  <2>14. ASSUME NEW r \in Socket, NEW x \in Socket, NEW n, HearVoidReply(r, x, n)
         PROVE AskersWait'
    <3>1. /\ UNCHANGED <<owner, pc, mine, cancels>>
          /\ asked' = [asked EXCEPT ![x] = @ \ {<<"void", n>>}]
      BY <2>14 DEF HearVoidReply, wireVars, taskVars, boundVars
    <3>2. /\ \A s \in Socket, t \in Tool : <<"tool", t>> \in asked'[s] <=> <<"tool", t>> \in asked[s]
          /\ \A s \in Socket, i \in 1..MaxCancel :
               <<"void", i>> \in asked'[s] => <<"void", i>> \in asked[s]
      BY <2>0, <3>1
    <3> QED
      BY <3>1, <3>2, AskersStay
  <2> QED
    BY <2>1, <2>2, <2>3, <2>4, <2>5, <2>6, <2>7, <2>8, <2>9, <2>10, <2>11, <2>12, <2>13, <2>14
       DEF Next, Progress, Replies
<1> QED
  BY <1>1, <1>2, McpTypes, CancelsAreCounted, PTL DEF Spec
-----------------------------------------------------------------------------
\* A step that leaves the runtime's client and flag and every client's socket
\* alone, opens no socket and starts no connecting or closing.
LEMMA AloneKept ==
  ASSUME TypeInv, Alone, UNCHANGED <<client, up, ws, owner>>, joined \subseteq joined',
         abandoned => abandoned',
         \A u \in Tool : pc'[u] \in {"auth", "joining", "closing"} =>
                           pc'[u] = pc[u] /\ using'[u] = using[u] /\ mine'[u] = mine[u],
         \A u \in Tool : pc[u] = "joining" =>
                           abandoned' \/ (pc'[u] = "joining" /\ mine'[u] = mine[u]),
         \A s \in Socket : sock'[s] = "open" => sock[s] = "open"
  PROVE  Alone'
<1>1. OneAtATime'
  BY DEF Alone, OneAtATime, Connecting
<1>2. HolderIsCurrent'
  BY DEF Alone, HolderIsCurrent, Connecting
<1>3. UpIsJoined'
  BY DEF Alone, UpIsJoined
<1>4. abandoned' \/ OpenIsCurrent'
  BY DEF Alone, OpenIsCurrent, Socket
<1> QED
  BY <1>1, <1>2, <1>3, <1>4 DEF Alone

\* The same, said of a step that moves one task on that does not wait to join, or
\* is cancelled there, and neither connects nor closes after it.
LEMMA OneMovesOn ==
  ASSUME TypeInv, Alone, UNCHANGED <<client, up, ws, owner, joined>>, abandoned => abandoned',
         \A s \in Socket : sock'[s] = "open" => sock[s] = "open",
         NEW t \in Tool, pc[t] # "joining" \/ abandoned', pc'[t] \notin {"auth", "joining", "closing"},
         \A u \in Tool \ {t} : pc'[u] = pc[u] /\ using'[u] = using[u] /\ mine'[u] = mine[u]
  PROVE  Alone'
<1>1. \A u \in Tool : pc'[u] \in {"auth", "joining", "closing"} =>
                        pc'[u] = pc[u] /\ using'[u] = using[u] /\ mine'[u] = mine[u]
  OBVIOUS
<1>2. \A u \in Tool : pc[u] = "joining" =>
                        abandoned' \/ (pc'[u] = "joining" /\ mine'[u] = mine[u])
  OBVIOUS
<1> QED
  BY <1>1, <1>2, AloneKept

\* The same, said of a step that moves no task.
LEMMA NobodyMoves ==
  ASSUME TypeInv, Alone, UNCHANGED <<client, up, ws, owner, taskVars, abandoned>>,
         joined \subseteq joined',
         \A s \in Socket : sock'[s] = "open" => sock[s] = "open"
  PROVE  Alone'
BY AloneKept DEF taskVars

\* While the flag is up there is a client.
LEMMA UpHasClient ==
  ASSUME TypeInv, UpIsJoined, up
  PROVE  client # 0
<1>1. PICK s \in joined : owner[s] = client
  BY DEF UpIsJoined
<1>2. s \in 1..Len(owner) /\ owner \in Seq(Client)
  BY DEF TypeInv, ReaderTypes, WireTypes, Socket
<1>3. owner[s] \in Client
  BY <1>2, ElementOfSeq
<1> QED
  BY <1>1, <1>3 DEF Client

\* A call that connects starts when nobody connects or closes; the one socket that
\* may be open is that of a call that was cancelled.
LEMMA AloneConnects ==
  ASSUME TypeInv, Alone, ~overlapped', ~raced',
         NEW t \in Tool, NEW k \in {"receive", "ask"}, CallConnects(t, k)
  PROVE  Alone'
<1>1. /\ pc[t] = "idle" /\ ~up /\ up' = up /\ CreateClient
      /\ At(t, "auth", k, TheClient, 0)
      /\ UNCHANGED <<ws, owner, sock, joined, abandoned>>
      /\ \A u \in Tool : ~Connecting(u) /\ pc[u] # "closing"
  BY DEF CallConnects, wireVars, readerVars
<1>2. client' = TheClient
  BY <1>1 DEF CreateClient
<1>3. /\ pc'[t] = "auth" /\ using'[t] = TheClient
      /\ \A u \in Tool \ {t} : pc'[u] = pc[u] /\ using'[u] = using[u] /\ mine'[u] = mine[u]
  BY <1>1, AtMoves DEF TypeInv
<1>4. abandoned \/ \A s \in Socket : sock[s] # "open"
  BY <1>1 DEF Alone, OpenIsCurrent, Connecting
<1>5. \A u \in Tool : (Connecting(u)' => u = t) /\ pc'[u] # "closing"
  BY <1>1, <1>3 DEF Connecting
<1>6. OneAtATime'
  BY <1>5 DEF OneAtATime
<1>7. HolderIsCurrent'
  BY <1>1, <1>2, <1>3, <1>5 DEF HolderIsCurrent
<1>8. UpIsJoined' /\ (abandoned' \/ OpenIsCurrent')
  BY <1>1, <1>4 DEF UpIsJoined, OpenIsCurrent, Socket
<1> QED
  BY <1>6, <1>7, <1>8 DEF Alone

\* The socket of a call that connects is the only open one, but for a cancelled one.
LEMMA AloneOpens ==
  ASSUME TypeInv, Alone, NEW t \in Tool, OpenSocket(t)
  PROVE  Alone'
<1> DEFINE n == Len(owner) + 1
<1>1. /\ pc[t] = "auth" /\ UNCHANGED <<client, up, joined, abandoned>>
      /\ owner' = Append(owner, using[t])
      /\ sock' = Append(sock, "open")
      /\ ws' = [ws EXCEPT ![using[t]] = n]
      /\ At(t, "joining", kind[t], using[t], n)
  BY DEF OpenSocket, historyVars
<1>2. /\ using[t] \in 1..made /\ using[t] \in Client
      /\ owner \in Seq(Client) /\ Len(owner) \in Nat /\ Socket = 1..Len(owner)
      /\ sock \in [1..Len(owner) -> SockState] /\ ws \in [Client -> Nat]
  BY <1>1, Bounds DEF TypeInv, TaskTypes, WireTypes, RuntimeTypes, Client, Socket
<1>3. /\ pc'[t] = "joining" /\ using'[t] = using[t] /\ mine'[t] = n
      /\ \A u \in Tool \ {t} : pc'[u] = pc[u] /\ using'[u] = using[u] /\ mine'[u] = mine[u]
  BY <1>1, AtMoves DEF TypeInv
<1>4. Connecting(t) /\ ~up /\ using[t] = client /\ client # 0
  BY <1>1, <1>2 DEF Connecting, Alone, HolderIsCurrent
<1>5. /\ \A u \in Tool : Connecting(u) => u = t
      /\ \A u \in Tool : pc[u] # "closing"
  BY <1>1, <1>4 DEF Alone, OneAtATime
<1>6. /\ \A u \in Tool : Connecting(u)' => u = t
      /\ \A u \in Tool : pc'[u] # "closing"
  BY <1>3, <1>5 DEF Connecting
<1>7. abandoned \/ \A s \in Socket : sock[s] # "open"
  BY <1>1, <1>4, <1>5 DEF Alone, OpenIsCurrent, Connecting
<1>8. /\ Socket' = 1..n
      /\ \A i \in 1..Len(owner) : owner'[i] = owner[i]
  BY <1>1, <1>2, AppendProperties DEF Socket
<1>9. abandoned \/ \A s \in Socket' : sock'[s] = "open" => s = n
  <2>1. "open" \in SockState
    BY DEF SockState
  <2>2. \A i \in 1..Len(owner) : sock'[i] = sock[i]
    BY <1>1, <1>2, <2>1, OneMore
  <2> QED
    BY <1>2, <1>7, <1>8, <2>2
<1>10. OneAtATime'
  BY <1>6 DEF OneAtATime
<1>11. HolderIsCurrent'
  BY <1>1, <1>3, <1>4, <1>6 DEF HolderIsCurrent
<1>12. UpIsJoined'
  BY <1>1, <1>4 DEF UpIsJoined
<1>13. abandoned' \/ OpenIsCurrent'
  BY <1>1, <1>2, <1>3, <1>4, <1>9 DEF OpenIsCurrent
<1> QED
  BY <1>10, <1>11, <1>12, <1>13 DEF Alone

\* A call that has joined raises the flag over its own client's socket.
LEMMA AloneJoins ==
  ASSUME TypeInv, Alone, NEW t \in Tool, Joined(t)
  PROVE  Alone'
<1>1. /\ pc[t] = "joining" /\ mine[t] \in joined /\ up' = TRUE
      /\ Proceed(t, kind[t], client)
      /\ UNCHANGED <<client, ws, owner, sock, joined, abandoned>>
  BY DEF Joined, wireVars, readerVars
<1>2. client = 0 \/ client \in Client
  BY Bounds DEF TypeInv, RuntimeTypes, Client
<1>3. /\ pc'[t] \notin {"auth", "joining", "closing"}
      /\ \A u \in Tool \ {t} : pc'[u] = pc[u] /\ using'[u] = using[u] /\ mine'[u] = mine[u]
  BY <1>1, <1>2, ProceedMoves
<1>4. \A u \in Tool : ~Connecting(u)' /\ pc'[u] # "closing"
  BY <1>1, <1>3 DEF Alone, OneAtATime, Connecting
<1>5. OneAtATime' /\ HolderIsCurrent'
  BY <1>4 DEF OneAtATime, HolderIsCurrent
<1>6. UpIsJoined'
  <2>1. mine[t] # 0 /\ using[t] = client
    BY <1>1 DEF TypeInv, ReaderTypes, Socket, Alone, HolderIsCurrent, Connecting
  <2>2. owner[mine[t]] = client
    BY <2>1 DEF TypeInv, TaskTypes
  <2> QED
    BY <1>1, <2>2 DEF UpIsJoined
<1>7. abandoned' \/ OpenIsCurrent'
  BY <1>1 DEF Alone, OpenIsCurrent, Socket
<1> QED
  BY <1>5, <1>6, <1>7 DEF Alone

\* close() begins when nobody connects; who else closes works on the same client.
LEMMA AloneCloses ==
  ASSUME TypeInv, Alone, ~raced', NEW t \in Tool, Close(t)
  PROVE  Alone'
<1>1. /\ pc[t] = "idle"
      /\ At(t, "closing", "close", client, ws[client])
      /\ UNCHANGED <<client, up, ws, owner, sock, joined, abandoned>>
      /\ \A u \in Tool : ~Connecting(u)
  BY DEF Close, wireVars
<1>2. /\ pc'[t] = "closing" /\ using'[t] = client /\ mine'[t] = ws[client]
      /\ \A u \in Tool \ {t} : pc'[u] = pc[u] /\ using'[u] = using[u] /\ mine'[u] = mine[u]
  BY <1>1, AtMoves DEF TypeInv
<1>3. \A u \in Tool : ~Connecting(u)'
  BY <1>1, <1>2 DEF Connecting
<1>4. OneAtATime' /\ HolderIsCurrent'
  BY <1>1, <1>2, <1>3 DEF Alone, OneAtATime, HolderIsCurrent
<1>5. UpIsJoined'
  BY <1>1 DEF Alone, UpIsJoined
<1>6. abandoned' \/ OpenIsCurrent'
  BY <1>1 DEF Alone, OpenIsCurrent, Socket, Connecting
<1> QED
  BY <1>4, <1>5, <1>6 DEF Alone

\* The socket that close() closes is the only open one, and it leaves none; where
\* another close() was first, there was none left.  A cancelled join's may stay.
LEMMA AloneClosed ==
  ASSUME TypeInv, Alone, NEW t \in Tool, Closed(t)
  PROVE  Alone'
<1> DEFINE c == using[t]
           over == {u \in Tool : pc[u] = "asking" /\ using[u] = c} \cup {t}
<1>1. PICK x \in {mine[t], ws[c]} :
        /\ sock' = [s \in Socket |-> IF s = x THEN "closed" ELSE sock[s]]
        /\ pc' = [u \in Tool |-> IF u \in over THEN "idle" ELSE pc[u]]
  BY DEF Closed
<1>2. pc[t] = "closing" /\ Forget /\ owner' = owner /\ abandoned' = abandoned
  BY DEF Closed
<1>3. client # 0 => x = ws[client]
  BY <1>1, <1>2 DEF Alone, HolderIsCurrent
<1>4. abandoned \/ \A s \in Socket : sock'[s] # "open"
  BY <1>1, <1>3 DEF Alone, OpenIsCurrent
<1>5. \A u \in Tool : ~Connecting(u)
  BY <1>2 DEF Alone, OneAtATime
<1>6. \A u \in Tool : ~Connecting(u)'
  BY <1>1, <1>5 DEF Connecting
<1>7. OneAtATime' /\ HolderIsCurrent'
  BY <1>2, <1>6 DEF OneAtATime, HolderIsCurrent, Forget
<1>8. UpIsJoined' /\ (abandoned' \/ OpenIsCurrent')
  BY <1>2, <1>4 DEF UpIsJoined, OpenIsCurrent, Forget, Socket
<1> QED
  BY <1>7, <1>8 DEF Alone

\* close() without a client: there is no open socket, and nobody connects.
LEMMA AloneUnconnected ==
  ASSUME TypeInv, Alone, NEW t \in Tool, CloseUnconnected(t)
  PROVE  Alone'
<1>1. /\ client = 0 /\ Forget
      /\ UNCHANGED <<pc, using, mine, ws, owner, sock, joined, abandoned>>
  BY DEF CloseUnconnected, taskVars, wireVars, readerVars
<1>2. abandoned \/ \A s \in Socket : sock[s] # "open"
  BY <1>1 DEF Alone, OpenIsCurrent
<1>3. \A u \in Tool : ~Connecting(u)'
  BY <1>1 DEF Connecting, Alone, HolderIsCurrent, TypeInv, TaskTypes
<1> QED
  BY <1>1, <1>2, <1>3 DEF Alone, OneAtATime, HolderIsCurrent, UpIsJoined, OpenIsCurrent, Forget,
                          Socket

\* A close() that is cancelled has closed the socket and nothing else.
LEMMA AloneCloseCancelled ==
  ASSUME TypeInv, Alone, NEW t \in Tool, CancelClose(t)
  PROVE  Alone'
<1>1. PICK x : sock' = [sock EXCEPT ![x] = "closed"]
  BY DEF CancelClose
<1>2. /\ pc[t] = "closing" /\ Return(t)
      /\ UNCHANGED <<client, up, ws, owner, joined, abandoned>>
  BY DEF CancelClose, historyVars
<1>3. \A s \in Socket : sock'[s] = "open" => sock[s] = "open"
  BY <1>1 DEF TypeInv, WireTypes
<1>4. /\ pc'[t] = "idle"
      /\ \A u \in Tool \ {t} : pc'[u] = pc[u] /\ using'[u] = using[u] /\ mine'[u] = mine[u]
  BY <1>2, AtMoves DEF Return, TypeInv
<1> QED
  BY <1>2, <1>3, <1>4, OneMovesOn

\* As long as no two calls were inside connect() together, and no connect() and
\* close() overlapped, the runtime is alone with its connection.
THEOREM RuntimeIsAlone == Spec => []ConnInv
<1>1. Init => ConnInv
  BY DEF Init, ConnInv, Alone, OneAtATime, HolderIsCurrent, UpIsJoined, OpenIsCurrent, Connecting,
         Socket
<1>2. TypeInv /\ AskersWait /\ ConnInv /\ [Next]_vars => ConnInv'
  <2> SUFFICES ASSUME TypeInv, AskersWait, ConnInv, [Next]_vars, ~overlapped', ~raced'
               PROVE  Alone'
    BY DEF ConnInv
  <2>1. ASSUME NEW t \in Tool, ToolStep(t) PROVE Alone'
    <3>1. Alone
      <4>1. ASSUME NEW k, Call(t, k) PROVE ~overlapped /\ ~raced
        BY <4>1 DEF Call
      <4>2. ASSUME NEW k, CallConnects(t, k) PROVE ~overlapped /\ ~raced
        BY <4>2 DEF CallConnects
      <4>3. CASE CloseUnconnected(t)
        BY <4>3 DEF CloseUnconnected, ConnInv
      <4>4. CASE CloseRaises(t)
        BY <4>4 DEF CloseRaises, ConnInv, historyVars
      <4>5. CASE Close(t)
        BY <4>5 DEF Close, ConnInv
      <4> QED
        BY <2>1, <4>1, <4>2, <4>3, <4>4, <4>5 DEF ToolStep, ConnInv
    <3>2. ASSUME NEW k \in {"receive", "ask"}, Call(t, k) PROVE Alone'
      <4>1. /\ pc[t] = "idle" /\ up /\ CreateClient /\ Proceed(t, k, TheClient)
            /\ UNCHANGED <<up, ws, owner, sock, joined, abandoned>>
        BY <3>2 DEF Call, wireVars, readerVars
      <4>2. TheClient = client /\ client' = client
        BY <3>1, <4>1, UpHasClient DEF TheClient, CreateClient, Alone
      <4>3. client = 0 \/ client \in Client
        BY Bounds DEF TypeInv, RuntimeTypes, Client
      <4>4. /\ pc'[t] \notin {"auth", "joining", "closing"}
            /\ \A u \in Tool \ {t} : pc'[u] = pc[u] /\ using'[u] = using[u] /\ mine'[u] = mine[u]
        BY <4>1, <4>2, <4>3, ProceedMoves
      <4> QED
        BY <3>1, <4>1, <4>2, <4>4, OneMovesOn
    <3>3. ASSUME NEW k \in {"receive", "ask"}, CallConnects(t, k) PROVE Alone'
      BY <3>1, <3>3, AloneConnects
    <3>4. CASE CloseUnconnected(t)
      BY <3>1, <3>4, AloneUnconnected
    <3>5. CASE CloseRaises(t)
      BY <3>1, <3>5, NobodyMoves DEF CloseRaises, wireVars, readerVars, historyVars
    <3>6. CASE Close(t)
      BY <3>1, <3>6, AloneCloses
    <3> QED
      BY <2>1, <3>2, <3>3, <3>4, <3>5, <3>6 DEF ToolStep
  <2>2. ASSUME NEW t \in Tool, ConnectFails(t) \/ Resolved(t) PROVE Alone'
    <3>1. /\ Alone
          /\ UNCHANGED <<client, up, ws, owner, sock, joined, abandoned>>
          /\ pc[t] \in {"auth", "resolving"}
          /\ Return(t) \/ (pc[t] = "resolving" /\ Request(t, using[t]))
      BY <2>2 DEF ConnectFails, Resolved, ConnInv, historyVars, wireVars, readerVars
    <3>2. /\ pc'[t] \notin {"auth", "joining", "closing"}
          /\ \A u \in Tool \ {t} : pc'[u] = pc[u] /\ using'[u] = using[u] /\ mine'[u] = mine[u]
      <4>1. CASE Return(t)
        BY <4>1, AtMoves DEF Return, TypeInv
      <4>2. CASE pc[t] = "resolving" /\ Request(t, using[t])
        <5>1. using[t] \in Client
          BY <4>2, Bounds DEF TypeInv, TaskTypes, RuntimeTypes, Client
        <5> QED
          BY <4>2, <5>1, RequestMoves
      <4> QED
        BY <3>1, <4>1, <4>2
    <3> QED
      BY <3>1, <3>2, OneMovesOn
  <2>3. ASSUME NEW t \in Tool, OpenSocket(t) PROVE Alone'
    BY <2>3, AloneOpens DEF OpenSocket, ConnInv, historyVars
  <2>4. ASSUME NEW t \in Tool, Joined(t) PROVE Alone'
    BY <2>4, AloneJoins DEF Joined, ConnInv
  <2>5. ASSUME NEW t \in Tool, Closed(t) PROVE Alone'
    BY <2>5, AloneClosed DEF Closed, ConnInv
  <2>6. ASSUME NEW r \in Socket, NEW x \in Socket, NEW t \in Tool, HearReply(r, x, t)
        PROVE Alone'
    <3>1. /\ Alone /\ <<"tool", t>> \in asked[x] /\ Return(t)
          /\ UNCHANGED <<client, up, ws, owner, sock, joined, abandoned>>
      BY <2>6 DEF HearReply, ConnInv, historyVars, wireVars, readerVars
    <3>2. pc[t] = "asking"
      BY <3>1 DEF AskersWait, WaitersAsked
    <3>3. /\ pc'[t] = "idle"
          /\ \A u \in Tool \ {t} : pc'[u] = pc[u] /\ using'[u] = using[u] /\ mine'[u] = mine[u]
      BY <3>1, AtMoves DEF Return, TypeInv
    <3> QED
      BY <3>1, <3>2, <3>3, OneMovesOn
  <2>7. CASE \/ \E r \in Socket : ReaderStarts(r)
             \/ \E r, x \in Socket : HearJoin(r, x)
             \/ \E r, x, q \in Socket : HearReceiptReply(r, x, q)
             \/ \E r, x \in Socket, n \in 1..cancels : HearVoidReply(r, x, n)
             \/ \E r, x \in Socket, m \in Message : HearNotice(r, x, m) \/ HearDelivery(r, x, m)
             \/ \E x \in Socket : SocketBreaks(x)
             \/ UNCHANGED vars
    <3>1. /\ Alone
          /\ UNCHANGED <<client, up, ws, owner, taskVars, abandoned>>
          /\ joined \subseteq joined'
      BY <2>7 DEF ReaderStarts, HearJoin, HearReceiptReply, HearVoidReply, HearNotice, HearDelivery,
                  SocketBreaks, vars, ConnInv, historyVars, wireVars, readerVars
    <3>2. sock' = sock \/ \E x \in Socket, how \in {"closed", "broken"} :
                            sock' = [sock EXCEPT ![x] = how]
      BY <2>7 DEF ReaderStarts, HearJoin, HearReceiptReply, HearVoidReply, HearNotice, HearDelivery,
                  SocketBreaks, vars, wireVars
    <3>3. \A s \in Socket : sock'[s] = "open" => sock[s] = "open"
      BY <3>2 DEF TypeInv, WireTypes
    <3> QED
      BY <3>1, <3>3, NobodyMoves
  <2>8. ASSUME NEW t \in Tool, Cancel(t) PROVE Alone'
    <3>1. /\ Alone /\ Return(t)
          /\ UNCHANGED <<client, up, ws, owner, sock, joined>>
          /\ abandoned => abandoned'
          /\ pc[t] # "joining" \/ abandoned'
      BY <2>8 DEF Cancel, ConnInv, wireVars, readerVars
    <3>2. /\ pc'[t] = "idle"
          /\ \A u \in Tool \ {t} : pc'[u] = pc[u] /\ using'[u] = using[u] /\ mine'[u] = mine[u]
      BY <3>1, AtMoves DEF Return, TypeInv
    <3> QED
      BY <3>1, <3>2, OneMovesOn
  <2>9. ASSUME NEW t \in Tool, CancelClose(t) PROVE Alone'
    BY <2>9, AloneCloseCancelled DEF CancelClose, ConnInv, historyVars
  <2> QED
    BY <2>1, <2>2, <2>3, <2>4, <2>5, <2>6, <2>7, <2>8, <2>9 DEF Next, Progress, Replies
<1> QED
  BY <1>1, <1>2, McpTypes, RepliesHaveAskers, PTL DEF Spec

\* While connects overlap neither with each other nor with a close(), whatever else
\* overlaps (two close() included) and whatever is cancelled: the flag is up only
\* over a client that has joined; and at most one socket is open, unless a call
\* was cancelled while it joined.
THEOREM ConnectionIsOne == Spec => []OneConnection
<1>1. ConnInv => OneConnection
  BY DEF ConnInv, Alone, UpIsJoined, OpenIsCurrent, OneConnection
<1> QED
  BY <1>1, RuntimeIsAlone, PTL
-----------------------------------------------------------------------------
\* The message waits for a tool to take it.
Buffered(m) == \E i \in 1..Len(buffer) : buffer[i] = m

\* What the relay has a receipt for was not lost on the way to a tool.
ConfirmedIsHeld == \A m \in confirmed : handed[m] >= 1 \/ Buffered(m) \/ m \in dropped

\* Until a socket is opened nothing has come.
NothingYet ==
  Len(owner) = 0 => Len(buffer) = 0 /\ \A m \in Message : handed[m] = 0

\* On the first connection a message is there at most once, in the buffer or
\* handed out, and only after the relay pushed it.
OncePushed ==
  Len(owner) = 1 =>
    /\ \A m \in Message : /\ handed[m] <= 1
                          /\ handed[m] = 1 => ~Buffered(m)
                          /\ handed[m] = 1 \/ Buffered(m) => m \in pushed[1]
    /\ \A i, j \in 1..Len(buffer) : buffer[i] = buffer[j] => i = j

HandInv == ConfirmedIsHeld /\ NothingYet /\ OncePushed

\* The messages stay where they are.
LEMMA MailStays ==
  ASSUME HandInv, UNCHANGED <<buffer, handed, dropped, confirmed, owner, pushed>>
  PROVE  HandInv'
BY DEF HandInv, ConfirmedIsHeld, NothingYet, OncePushed, Buffered

\* Messages pass from the buffer to a tool.
LEMMA MailDrains ==
  ASSUME TypeInv, HandInv, NEW t \in Tool, Drain(t), UNCHANGED <<dropped, confirmed, owner, pushed>>
  PROVE  HandInv'
<1>1. PICK n \in 0..Len(buffer) :
        /\ buffer' = DrainMessages(n)
        /\ handed' = [m \in Message |->
                        handed[m] + (IF \E i \in 1..n : buffer[i] = m THEN 1 ELSE 0)]
  BY DrainTakes
<1>2. /\ buffer \in Seq(Message) /\ handed \in [Message -> Nat] /\ confirmed \subseteq Message
      /\ Len(buffer) \in Nat
  BY DEF TypeInv, RuntimeTypes, RelayTypes
<1>3. /\ Len(buffer') = Len(buffer) - n
      /\ \A i \in 1..(Len(buffer) - n) : buffer'[i] = buffer[n + i]
  BY <1>1, <1>2, Rest
<1>4. \A m \in Message : /\ (\E i \in 1..n : buffer[i] = m) => handed'[m] = handed[m] + 1
                         /\ ~(\E i \in 1..n : buffer[i] = m) => handed'[m] = handed[m]
  BY <1>1, <1>2
<1>5. \A m : Buffered(m) => (\E i \in 1..n : buffer[i] = m) \/ Buffered(m)'
  <2> SUFFICES ASSUME NEW m, NEW i \in 1..Len(buffer), buffer[i] = m, i \notin 1..n
               PROVE  Buffered(m)'
    BY DEF Buffered
  <2>1. i - n \in 1..(Len(buffer) - n) /\ n + (i - n) = i
    BY <1>1, <1>2
  <2> QED
    BY <1>3, <2>1 DEF Buffered
<1>6. \A m : Buffered(m)' => \E i \in (n + 1)..Len(buffer) : buffer[i] = m
  <2> SUFFICES ASSUME NEW m, NEW i \in 1..(Len(buffer) - n), buffer'[i] = m
               PROVE  \E j \in (n + 1)..Len(buffer) : buffer[j] = m
    BY <1>3 DEF Buffered
  <2>1. n + i \in (n + 1)..Len(buffer)
    BY <1>1, <1>2
  <2> QED
    BY <1>3, <2>1
<1>7. \A i \in 1..n : i \in 1..Len(buffer)
  BY <1>1, <1>2
<1>8. ConfirmedIsHeld'
  <2> SUFFICES ASSUME NEW m \in confirmed
               PROVE  handed'[m] >= 1 \/ Buffered(m)' \/ m \in dropped
    BY DEF ConfirmedIsHeld
  <2>1. m \in Message /\ handed[m] \in Nat
    BY <1>2
  <2>2. CASE handed[m] >= 1
    BY <1>4, <2>1, <2>2
  <2>3. CASE Buffered(m)
    BY <1>4, <1>5, <2>1, <2>3
  <2> QED
    BY <2>2, <2>3 DEF HandInv, ConfirmedIsHeld
<1>9. NothingYet'
  <2> SUFFICES ASSUME Len(owner) = 0
               PROVE  Len(buffer') = 0 /\ \A m \in Message : handed'[m] = 0
    BY DEF NothingYet
  <2>1. Len(buffer) = 0 /\ \A m \in Message : handed[m] = 0
    BY DEF HandInv, NothingYet
  <2>2. n = 0
    BY <1>1, <2>1
  <2> QED
    BY <1>3, <1>4, <2>1, <2>2
<1>10. OncePushed'
  <2> SUFFICES ASSUME Len(owner) = 1
               PROVE  /\ \A m \in Message :
                           /\ handed'[m] <= 1
                           /\ handed'[m] = 1 => ~Buffered(m)'
                           /\ handed'[m] = 1 \/ Buffered(m)' => m \in pushed[1]
                      /\ \A i, j \in 1..Len(buffer') : buffer'[i] = buffer'[j] => i = j
    BY DEF OncePushed
  <2>1. /\ \A m \in Message : /\ handed[m] <= 1
                              /\ handed[m] = 1 => ~Buffered(m)
                              /\ handed[m] = 1 \/ Buffered(m) => m \in pushed[1]
        /\ \A i, j \in 1..Len(buffer) : buffer[i] = buffer[j] => i = j
    BY DEF HandInv, OncePushed
  <2>2. ASSUME NEW m \in Message
        PROVE  /\ handed'[m] <= 1
               /\ handed'[m] = 1 => ~Buffered(m)'
               /\ handed'[m] = 1 \/ Buffered(m)' => m \in pushed[1]
    <3>1. handed[m] \in Nat /\ handed[m] <= 1
      BY <1>2, <2>1
    <3>2. CASE \E i \in 1..n : buffer[i] = m
      <4>1. Buffered(m)
        BY <1>7, <3>2 DEF Buffered
      <4>2. handed[m] = 0
        BY <2>1, <3>1, <4>1
      <4>3. handed'[m] = 1
        BY <1>4, <3>2, <4>2
      <4>4. ~Buffered(m)'
        <5>1. PICK i \in 1..n : buffer[i] = m
          BY <3>2
        <5>2. ASSUME NEW j \in (n + 1)..Len(buffer), buffer[j] = m PROVE FALSE
          <6>1. i \in 1..Len(buffer) /\ j \in 1..Len(buffer) /\ i # j
            BY <1>1, <1>2
          <6> QED
            BY <2>1, <5>1, <5>2, <6>1
        <5> QED
          BY <1>6, <5>2
      <4> QED
        BY <2>1, <4>1, <4>3, <4>4
    <3>3. CASE ~\E i \in 1..n : buffer[i] = m
      <4>1. handed'[m] = handed[m]
        BY <1>4, <3>3
      <4>2. ASSUME Buffered(m)' PROVE Buffered(m)
        <5>1. PICK j \in (n + 1)..Len(buffer) : buffer[j] = m
          BY <1>6, <4>2
        <5>2. j \in 1..Len(buffer)
          BY <1>1, <1>2
        <5> QED
          BY <5>1, <5>2 DEF Buffered
      <4> QED
        BY <2>1, <4>1, <4>2
    <3> QED
      BY <3>2, <3>3
  <2>3. ASSUME NEW i \in 1..Len(buffer'), NEW j \in 1..Len(buffer'), buffer'[i] = buffer'[j]
        PROVE  i = j
    <3>1. i \in 1..(Len(buffer) - n) /\ j \in 1..(Len(buffer) - n)
      BY <1>3
    <3>2. n + i \in 1..Len(buffer) /\ n + j \in 1..Len(buffer)
      BY <1>1, <1>2, <3>1
    <3>3. buffer[n + i] = buffer[n + j]
      BY <1>3, <2>3, <3>1
    <3>4. n + i = n + j
      BY <2>1, <3>2, <3>3
    <3> QED
      BY <1>1, <3>1, <3>4
  <2> QED
    BY <2>2, <2>3
<1> QED
  BY <1>8, <1>9, <1>10 DEF HandInv

\* A message the relay had not pushed on this socket comes to the buffer.
LEMMA MailComes ==
  ASSUME TypeInv, HandInv, NEW x \in Socket, NEW m \in Message, m \notin pushed[x],
         buffer' = Append(buffer, m), pushed' = [pushed EXCEPT ![x] = @ \cup {m}],
         confirmed' \subseteq confirmed \cup {m},
         UNCHANGED <<handed, dropped, owner>>
  PROVE  HandInv'
<1>1. /\ buffer \in Seq(Message) /\ handed \in [Message -> Nat] /\ Len(buffer) \in Nat
      /\ pushed \in [Socket -> SUBSET Message] /\ Len(owner) \in Nat
  BY DEF TypeInv, RuntimeTypes, RelayTypes, WireTypes
<1>2. /\ Len(buffer') = Len(buffer) + 1
      /\ \A i \in 1..Len(buffer) : buffer'[i] = buffer[i]
      /\ buffer'[Len(buffer) + 1] = m
  BY <1>1, AppendProperties
<1>3. \A d : Buffered(d)' <=> Buffered(d) \/ d = m
  <2>1. ASSUME NEW d, Buffered(d) \/ d = m PROVE Buffered(d)'
    <3>1. CASE Buffered(d)
      <4>1. PICK i \in 1..Len(buffer) : buffer[i] = d
        BY <3>1 DEF Buffered
      <4>2. i \in 1..Len(buffer') /\ buffer'[i] = d
        BY <1>1, <1>2, <4>1
      <4> QED
        BY <4>2 DEF Buffered
    <3>2. CASE d = m
      <4>1. Len(buffer) + 1 \in 1..Len(buffer')
        BY <1>1, <1>2
      <4> QED
        BY <1>2, <3>2, <4>1 DEF Buffered
    <3> QED
      BY <2>1, <3>1, <3>2
  <2>2. ASSUME NEW d, Buffered(d)' PROVE Buffered(d) \/ d = m
    <3>1. PICK i \in 1..Len(buffer') : buffer'[i] = d
      BY <2>2 DEF Buffered
    <3>2. i \in 1..Len(buffer) \/ i = Len(buffer) + 1
      BY <1>1, <1>2
    <3> QED
      BY <1>2, <3>1, <3>2 DEF Buffered
  <2> QED
    BY <2>1, <2>2
<1>4. ConfirmedIsHeld'
  BY <1>3 DEF HandInv, ConfirmedIsHeld
<1>5. NothingYet'
  <2>1. Len(owner) # 0
    BY <1>1 DEF Socket
  <2> QED
    BY <2>1 DEF NothingYet
<1>6. OncePushed'
  <2> SUFFICES ASSUME Len(owner) = 1
               PROVE  /\ \A d \in Message :
                           /\ handed[d] <= 1
                           /\ handed[d] = 1 => ~Buffered(d)'
                           /\ handed[d] = 1 \/ Buffered(d)' => d \in pushed'[1]
                      /\ \A i, j \in 1..Len(buffer') : buffer'[i] = buffer'[j] => i = j
    BY DEF OncePushed
  <2>1. /\ \A d \in Message : /\ handed[d] <= 1
                              /\ handed[d] = 1 => ~Buffered(d)
                              /\ handed[d] = 1 \/ Buffered(d) => d \in pushed[1]
        /\ \A i, j \in 1..Len(buffer) : buffer[i] = buffer[j] => i = j
    BY DEF HandInv, OncePushed
  <2>2. x = 1 /\ pushed'[1] = pushed[1] \cup {m}
    BY <1>1 DEF Socket
  <2>3. handed[m] # 1 /\ ~Buffered(m)
    BY <2>1, <2>2
  <2>4. \A i \in 1..Len(buffer) : buffer[i] # m
    BY <2>3 DEF Buffered
  <2>5. ASSUME NEW i \in 1..Len(buffer'), NEW j \in 1..Len(buffer'), buffer'[i] = buffer'[j]
        PROVE  i = j
    <3>1. /\ i \in 1..Len(buffer) \/ i = Len(buffer) + 1
          /\ j \in 1..Len(buffer) \/ j = Len(buffer) + 1
      BY <1>1, <1>2
    <3> QED
      BY <1>2, <2>1, <2>4, <2>5, <3>1
  <2> QED
    BY <1>3, <2>1, <2>2, <2>3, <2>5
<1> QED
  BY <1>4, <1>5, <1>6 DEF HandInv

\* close() clears the buffer, and what it clears is dropped.
LEMMA MailDropped ==
  ASSUME TypeInv, HandInv, Forget, UNCHANGED <<handed, confirmed, owner, pushed>>
  PROVE  HandInv'
<1>1. Len(buffer') = 0 /\ \A m : Buffered(m) => m \in dropped'
  BY DEF Forget, Buffered
<1>2. dropped \subseteq dropped' /\ \A m : ~Buffered(m)'
  BY <1>1 DEF Forget, Buffered
<1>3. ConfirmedIsHeld'
  BY <1>1, <1>2 DEF HandInv, ConfirmedIsHeld
<1>4. NothingYet' /\ OncePushed'
  BY <1>1, <1>2 DEF HandInv, NothingYet, OncePushed
<1> QED
  BY <1>3, <1>4 DEF HandInv

\* What a tool does once it is connected leaves every message where it is, or
\* passes some on.
LEMMA MailProceeds ==
  ASSUME TypeInv, HandInv, NEW t \in Tool, NEW k, NEW c, Proceed(t, k, c),
         UNCHANGED <<dropped, confirmed, owner, pushed>>
  PROVE  HandInv'
<1>1. CASE Drain(t)
  BY <1>1, MailDrains
<1>2. CASE UNCHANGED <<buffer, handed>>
  BY <1>2, MailStays
<1> QED
  BY <1>1, <1>2 DEF Proceed

\* Tools, readers, lost sockets and close() together lose no confirmed message
\* and give none twice on the first connection.
THEOREM MailIsHandedOn == Spec => []HandInv
<1>1. Init => HandInv
  <2> SUFFICES ASSUME Init PROVE HandInv
    OBVIOUS
  <2>1. Len(owner) = 0 /\ Len(buffer) = 0 /\ confirmed = {} /\ \A m \in Message : handed[m] = 0
    BY DEF Init
  <2> QED
    BY <2>1 DEF HandInv, ConfirmedIsHeld, NothingYet, OncePushed
<1>2. TypeInv /\ HandInv /\ [Next]_vars => HandInv'
  <2> SUFFICES ASSUME TypeInv, HandInv, [Next]_vars PROVE HandInv'
    OBVIOUS
  <2>1. ASSUME NEW t \in Tool, NEW k, Call(t, k) PROVE HandInv'
    BY <2>1, MailProceeds DEF Call, wireVars, relayVars
  <2>2. ASSUME NEW t \in Tool, Joined(t) PROVE HandInv'
    BY <2>2, MailProceeds DEF Joined, wireVars, relayVars
  <2>3. ASSUME NEW t \in Tool, CloseUnconnected(t) \/ Closed(t) PROVE HandInv'
    <3>1. Forget /\ UNCHANGED <<handed, confirmed, owner, pushed>>
      BY <2>3 DEF CloseUnconnected, Closed, wireVars, relayVars
    <3> QED
      BY <3>1, MailDropped
  <2>4. ASSUME NEW t \in Tool, OpenSocket(t) PROVE HandInv'
    <3>1. /\ owner' = Append(owner, using[t]) /\ pushed' = Append(pushed, {})
          /\ UNCHANGED <<buffer, handed, dropped, confirmed>>
          /\ owner \in Seq(Client) /\ using[t] \in Client /\ Len(owner) \in Nat
      BY <2>4, Bounds DEF OpenSocket, historyVars, TypeInv, TaskTypes, WireTypes, RuntimeTypes,
                          Client
    <3>2. Len(owner') = Len(owner) + 1
      BY <3>1, AppendProperties
    <3>3. Len(owner') # 0 /\ (Len(owner') = 1 => Len(owner) = 0)
      BY <3>1, <3>2
    <3>4. ConfirmedIsHeld'
      BY <3>1 DEF HandInv, ConfirmedIsHeld, Buffered
    <3>5. OncePushed'
      BY <3>1, <3>3 DEF HandInv, NothingYet, OncePushed, Buffered
    <3> QED
      BY <3>3, <3>4, <3>5 DEF HandInv, NothingYet
  <2>5. ASSUME NEW r \in Socket, NEW x \in Socket, NEW m \in Message,
               HearNotice(r, x, m) \/ HearDelivery(r, x, m)
        PROVE  HandInv'
    <3>1. /\ Pushes(x, m) /\ buffer' = Append(buffer, m)
          /\ UNCHANGED <<handed, dropped, owner>>
          /\ confirmed' \subseteq confirmed \cup {m}
      <4>1. CASE HearNotice(r, x, m)
        BY <4>1 DEF HearNotice, wireVars, historyVars
      <4>2. CASE HearDelivery(r, x, m)
        BY <4>2 DEF HearDelivery, wireVars, historyVars
      <4> QED
        BY <2>5, <4>1, <4>2
    <3>2. m \notin pushed[x] /\ pushed' = [pushed EXCEPT ![x] = @ \cup {m}]
      BY <3>1 DEF Pushes
    <3> QED
      BY <3>1, <3>2, MailComes
  <2>6. ASSUME NEW t \in Tool, NEW k, CallConnects(t, k) PROVE HandInv'
    BY <2>6, MailStays DEF CallConnects, wireVars, relayVars
  <2>7. ASSUME NEW t \in Tool,
               \/ CloseRaises(t) \/ Close(t) \/ ConnectFails(t) \/ Resolved(t)
               \/ Cancel(t) \/ CancelClose(t)
        PROVE  HandInv'
    <3>1. UNCHANGED <<buffer, handed, dropped, confirmed, owner, pushed>>
      BY <2>7 DEF CloseRaises, Close, ConnectFails, Resolved, Cancel, CancelClose, wireVars,
                  relayVars, historyVars
    <3> QED
      BY <3>1, MailStays
  <2>8. CASE \/ \E r \in Socket : ReaderStarts(r)
             \/ \E r, x \in Socket : Replies(r, x)
             \/ \E x \in Socket : SocketBreaks(x)
             \/ UNCHANGED vars
    <3>1. UNCHANGED <<buffer, handed, dropped, confirmed, owner, pushed>>
      BY <2>8 DEF ReaderStarts, Replies, HearJoin, HearReply, HearVoidReply, HearReceiptReply,
                  SocketBreaks, vars, wireVars, relayVars, historyVars
    <3> QED
      BY <3>1, MailStays
  <2> QED
    BY <2>1, <2>2, <2>3, <2>4, <2>5, <2>6, <2>7, <2>8 DEF Next, ToolStep, Progress
<1> QED
  BY <1>1, <1>2, McpTypes, PTL DEF Spec

\* The relay forgets a delivery only once the runtime has it, and on one
\* connection no tool is given a message twice.
THEOREM ConfirmedReachesTools == Spec => []ConfirmedIsHandedOut
<1>1. TypeInv /\ HandInv => ConfirmedIsHandedOut
  <2> SUFFICES ASSUME TypeInv, HandInv PROVE ConfirmedIsHandedOut
    OBVIOUS
  <2>1. handed \in [Message -> Nat] /\ confirmed \subseteq Message
    BY DEF TypeInv, RuntimeTypes, RelayTypes, Message
  <2>2. \A m \in Message : Copies(m) = handed[m] + (IF Buffered(m) THEN 1 ELSE 0)
    BY DEF Copies, Buffered
  <2>3. \A m \in confirmed : Copies(m) >= 1 \/ m \in dropped
    BY <2>1, <2>2 DEF HandInv, ConfirmedIsHeld
  <2>4. Len(owner) = 1 => \A m \in Message : Copies(m) <= 1
    BY <2>1, <2>2 DEF HandInv, OncePushed
  <2> QED
    BY <2>3, <2>4 DEF ConfirmedIsHandedOut
<1> QED
  BY <1>1, McpTypes, MailIsHandedOn, PTL
=============================================================================
